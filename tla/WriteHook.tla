----------------------------- MODULE WriteHook -----------------------------
(***************************************************************************)
(* Writes in the browser: the tag store (store/tagStore.ts) and one use of *)
(* the write hook (hooks/useWriteNode.ts) by a table whose cells are edited*)
(* one after another, so that the node of the hook changes between writes. *)
(*                                                                         *)
(* JavaScript runs one callback at a time: each action is one callback.    *)
(* The two timers of a write and its polling interval are ordered as the   *)
(* code's constants order them: the time-out, then, half a second later,   *)
(* the end of the polling.                                                 *)
(***************************************************************************)
EXTENDS Integers, Sequences

CONSTANTS
  Nodes,      \* nodes the hook is used for
  Values,     \* the values they take
  Unset,      \* no value
  MaxWrites   \* bound: writes made while the model runs

ASSUME HookAssumption ==
  /\ Unset \notin Values
  /\ MaxWrites \in Nat

VARIABLES
  tags,          \* tags[n]: the value shown
  pendingWrites, \* nodes whose write is waiting for an acknowledgment
  timeoutRef,    \* the write whose time-out is running; 0 for none
  writes         \* the writes made so far, and what became of them

vars == <<tags, pendingWrites, timeoutRef, writes>>

Made == 1..Len(writes)
Polling == {w \in Made : writes[w].polling}

(* A write: its node, whether its interval still polls, whether an update  *)
(* of its node came in since, what the user was told of it, and whether no *)
(* write of another node was polled for beside it (history).               *)
NewWrite(n) ==
  [node |-> n, polling |-> TRUE, updated |-> FALSE, answers |-> {},
   alone |-> \A w \in Polling : writes[w].node = n]

(* A write of n begins while those before it may still be polled for.      *)
Joined(n) == [w \in Made |->
  IF w \in Polling /\ writes[w].node # n THEN [writes[w] EXCEPT !.alone = FALSE]
  ELSE writes[w]]

Init ==
  /\ tags = [n \in Nodes |-> Unset]
  /\ pendingWrites = {}
  /\ timeoutRef = 0
  /\ writes = <<>>

(* updateTag: any update of a node clears its pending write.               *)
BadCleared(n) == {}
Cleared(n) == {n}

UpdateTag(n, v) ==
  /\ tags' = [tags EXCEPT ![n] = v]
  /\ pendingWrites' = pendingWrites \ Cleared(n)
  /\ writes' = [w \in Made |->
       IF writes[w].node = n THEN [writes[w] EXCEPT !.updated = TRUE] ELSE writes[w]]
  /\ UNCHANGED timeoutRef

(* write: with the socket open.  The one time-out of the hook is restarted *)
(* for the new write.                                                      *)
BadArmed(w) == timeoutRef
Armed(w) == w

WriteNode(n) ==
  /\ Len(writes) < MaxWrites
  /\ pendingWrites' = pendingWrites \cup {n}
  /\ writes' = Append(Joined(n), NewWrite(n))
  /\ timeoutRef' = Armed(Len(writes) + 1)
  /\ UNCHANGED tags

BadExpired(n) == {}
Expired(n) == {n}

Told(w, answer) == [writes EXCEPT ![w].answers = @ \cup {answer}]

TimedOut ==
  /\ timeoutRef # 0
  /\ timeoutRef' = 0
  /\ LET n == writes[timeoutRef].node IN
     IF n \in pendingWrites
     THEN pendingWrites' = pendingWrites \ Expired(n) /\ writes' = Told(timeoutRef, "error")
     ELSE UNCHANGED <<pendingWrites, writes>>
  /\ UNCHANGED tags

(* The interval of write w: no pending mark counts as a success.           *)
Polled(w) ==
  /\ writes[w].polling /\ writes[w].node \notin pendingWrites
  /\ writes' = [Told(w, "success") EXCEPT ![w].polling = FALSE]
  /\ timeoutRef' = 0
  /\ UNCHANGED <<tags, pendingWrites>>

PollingEnds(w) ==
  /\ writes[w].polling /\ timeoutRef # w
  /\ writes' = [writes EXCEPT ![w].polling = FALSE]
  /\ UNCHANGED <<tags, pendingWrites, timeoutRef>>

Next ==
  \/ \E n \in Nodes : WriteNode(n) \/ \E v \in Values : UpdateTag(n, v)
  \/ TimedOut
  \/ \E w \in Made : Polled(w) \/ PollingEnds(w)

Spec == Init /\ [][Next]_vars

(* Timers fire.  No update need ever come.                                 *)
FairSpec == Spec /\ WF_vars(TimedOut)
            /\ \A w \in 1..MaxWrites : WF_vars(w \in Made /\ (Polled(w) \/ PollingEnds(w)))

-----------------------------------------------------------------------------
WriteType == [node : Nodes, polling : BOOLEAN, updated : BOOLEAN,
              alone : BOOLEAN, answers : SUBSET {"success", "error"}]

TypeOK ==
  /\ tags \in [Nodes -> Values \cup {Unset}]
  /\ pendingWrites \subseteq {writes[w].node : w \in Made}
  /\ timeoutRef \in 0..Len(writes)
  /\ writes \in Seq(WriteType) /\ Len(writes) <= MaxWrites

(* The node of w is marked as pending, w is the last write of it, and no   *)
(* write of another node was polled for at the same time as w.             *)
Waits(w) ==
  /\ w \in Made /\ writes[w].node \in pendingWrites /\ writes[w].alone
  /\ \A u \in Made : u > w => writes[u].node # writes[w].node

(* While a write waits, the time-out that will take its mark away is       *)
(* running.  A hook has one time-out, which a write of another node takes  *)
(* over and the acknowledgment of another node stops: a mark is left       *)
(* without one only if writes of two nodes overlapped.                     *)
PendingIsTimed == \A w \in Made : Waits(w) => timeoutRef = w

(* The types and the running time-out.                                     *)
HookInv == TypeOK /\ PendingIsTimed

(* A write does not wait for ever, be there an update or not: its mark goes*)
(* by an update or the time-out, or another write takes over.              *)
PendingEnds == \A w \in 1..MaxWrites : Waits(w) ~> ~Waits(w)

(* A write is reported as failed only if no update of its node came in     *)
(* before.                                                                 *)
ErrorMeansNoUpdate ==
  [][\A w \in Made : "error" \in writes'[w].answers \ writes[w].answers => ~writes[w].updated]_vars
=============================================================================
