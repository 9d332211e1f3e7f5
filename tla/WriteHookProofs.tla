-------------------------- MODULE WriteHookProofs --------------------------
(* The write hook leaves a write pending without a time-out only if writes *)
(* of two nodes overlapped, and never reports a failure of a write whose   *)
(* node was updated.                                                       *)
EXTENDS WriteHook, TLAPS

(* What the argument needs of the types.                                   *)
Nodal == \A w \in Made : writes[w].node \in Nodes
HookTyped ==
  /\ pendingWrites \subseteq Nodes /\ timeoutRef \in 0..Len(writes)
  /\ writes \in Seq(WriteType) /\ Nodal

LEMMA WriteOfHook == ASSUME writes \in Seq(WriteType), NEW w \in Made
                     PROVE  writes[w] \in WriteType /\ w \in 1..Len(writes)
BY DEF Made

(* What a callback does not change of a write, but its polling may end.    *)
SameWrite(s, u) ==
  /\ s[u].node = writes[u].node /\ s[u].alone = writes[u].alone
  /\ s[u].polling => writes[u].polling

LEMMA AnswerTyped ==
  ASSUME writes \in Seq(WriteType), Nodal, NEW w \in Made, NEW answer \in {"success", "error"}
  PROVE  /\ Told(w, answer) \in Seq(WriteType) /\ Len(Told(w, answer)) = Len(writes)
         /\ \A u \in Made : SameWrite(Told(w, answer), u)
<1>1. writes[w].answers \cup {answer} \in SUBSET {"success", "error"}
  BY WriteOfHook DEF WriteType
<1>2. [writes[w] EXCEPT !.answers = @ \cup {answer}] \in WriteType
  BY <1>1, WriteOfHook DEF WriteType
<1>3. QED
  BY <1>2, WriteOfHook DEF Told, Made, WriteType, SameWrite

(* Whatever is not a new write keeps the writes and their nodes.           *)
Keeps ==
  /\ writes' \in Seq(WriteType) /\ Len(writes') = Len(writes)
  /\ \A u \in Made : SameWrite(writes', u)
  /\ pendingWrites' \subseteq pendingWrites /\ timeoutRef' \in {0, timeoutRef}
  /\ tags' \in [Nodes -> Values \cup {Unset}]

Typed == HookTyped /\ TypeOK

LEMMA UpdateKeeps == ASSUME Typed, NEW n \in Nodes, NEW v \in Values, UpdateTag(n, v) PROVE Keeps
<1> USE DEF Typed, HookTyped, Nodal, Made
<1>1. ASSUME NEW w \in Made
      PROVE  [writes[w] EXCEPT !.updated = TRUE] \in WriteType
             /\ [writes[w] EXCEPT !.updated = TRUE].node = writes[w].node
             /\ [writes[w] EXCEPT !.updated = TRUE].alone = writes[w].alone
             /\ [writes[w] EXCEPT !.updated = TRUE].polling = writes[w].polling
  BY <1>1, WriteOfHook DEF WriteType
<1>2. writes' = [w \in 1..Len(writes) |->
        IF writes[w].node = n THEN [writes[w] EXCEPT !.updated = TRUE] ELSE writes[w]]
  BY DEF UpdateTag
<1>3. writes' \in [1..Len(writes) -> WriteType]
      /\ \A w \in 1..Len(writes) : SameWrite(writes', w)
  BY <1>1, <1>2, WriteOfHook DEF SameWrite
<1>4. writes' \in Seq(WriteType) /\ Len(writes') = Len(writes)
  BY <1>3
<1>5. tags' \in [Nodes -> Values \cup {Unset}]
  BY DEF UpdateTag, TypeOK
<1>6. QED
  BY <1>3, <1>4, <1>5 DEF UpdateTag, Keeps

LEMMA TimeoutKeeps == ASSUME Typed, TimedOut PROVE Keeps
<1> USE DEF Typed, HookTyped, Nodal, Made
<1>1. timeoutRef \in Made /\ timeoutRef' = 0 /\ pendingWrites' \subseteq pendingWrites
      /\ (writes' = writes \/ writes' = Told(timeoutRef, "error"))
  BY DEF TimedOut
<1>2. tags' \in [Nodes -> Values \cup {Unset}]
  BY DEF TimedOut, TypeOK
<1>3. CASE writes' = writes
  BY <1>1, <1>2, <1>3 DEF Keeps, SameWrite
<1>4. CASE writes' = Told(timeoutRef, "error")
  <2>1. /\ writes' \in Seq(WriteType) /\ Len(writes') = Len(writes)
        /\ \A u \in Made : SameWrite(writes', u)
    BY <1>1, <1>4, AnswerTyped DEF SameWrite
  <2>2. QED
    BY <1>1, <1>2, <2>1 DEF Keeps
<1>5. QED
  BY <1>1, <1>3, <1>4

LEMMA PollKeeps == ASSUME Typed, NEW w \in Made, Polled(w) \/ PollingEnds(w) PROVE Keeps
<1> USE DEF Typed, HookTyped, Nodal, Made
<1> DEFINE told == Told(w, "success")
<1>1. /\ told \in Seq(WriteType) /\ Len(told) = Len(writes)
      /\ \A u \in Made : SameWrite(told, u)
  BY AnswerTyped
<1>2. PICK s \in Seq(WriteType) : /\ Len(s) = Len(writes)
                                  /\ \A u \in Made : SameWrite(s, u)
                                  /\ writes' = [s EXCEPT ![w].polling = FALSE]
  <2>1. CASE Polled(w)
    BY <1>1, <2>1 DEF Polled
  <2>2. CASE PollingEnds(w)
    BY <2>2 DEF PollingEnds, SameWrite
  <2>3. QED
    BY <2>1, <2>2
<1>3. s[w] \in WriteType
  BY <1>2
<1>4. /\ [s[w] EXCEPT !.polling = FALSE] \in WriteType
      /\ [s[w] EXCEPT !.polling = FALSE].node = s[w].node
      /\ [s[w] EXCEPT !.polling = FALSE].alone = s[w].alone
      /\ [s[w] EXCEPT !.polling = FALSE].polling = FALSE
  BY <1>3 DEF WriteType
<1>5. /\ writes' \in Seq(WriteType) /\ Len(writes') = Len(writes)
      /\ \A u \in Made : SameWrite(writes', u)
  BY <1>2, <1>4 DEF SameWrite
<1>6. pendingWrites' = pendingWrites /\ timeoutRef' \in {0, timeoutRef} /\ tags' = tags
  BY DEF Polled, PollingEnds
<1>7. QED
  BY <1>5, <1>6 DEF Keeps, TypeOK

LEMMA KeepsTyped == ASSUME Typed, Keeps PROVE Typed'
<1> USE DEF Typed, HookTyped, Keeps
<1>1. Made' = Made /\ \A u \in Made : writes'[u].node = writes[u].node
  BY DEF Made, SameWrite
<1>2. {writes[w].node : w \in Made}' = {writes[w].node : w \in Made}
  BY <1>1
<1>3. pendingWrites' \subseteq {writes[w].node : w \in Made}'
  BY <1>2 DEF TypeOK
<1>4. Nodal'
  BY <1>1 DEF Nodal
<1>5. timeoutRef' \in 0..Len(writes')
  OBVIOUS
<1>6. HookTyped'
  BY <1>4, <1>5
<1>7. Len(writes') <= MaxWrites
  BY DEF TypeOK
<1>8. TypeOK'
  BY <1>3, <1>5, <1>7 DEF TypeOK
<1>9. QED
  BY <1>6, <1>8

(* A write of n begins: those before it keep their places, but no write of *)
(* another node that is still polled for stays alone.                      *)
LEMMA JoinedTyped ==
  ASSUME Typed, NEW n \in Nodes
  PROVE  /\ Joined(n) \in Seq(WriteType) /\ Len(Joined(n)) = Len(writes)
         /\ \A u \in Made :
              /\ Joined(n)[u].node = writes[u].node
              /\ Joined(n)[u].polling = writes[u].polling
              /\ Joined(n)[u].updated = writes[u].updated
              /\ Joined(n)[u].answers = writes[u].answers
              /\ Joined(n)[u].alone =>
                   writes[u].alone /\ (writes[u].polling => writes[u].node = n)
<1> DEFINE apart(u) == [writes[u] EXCEPT !.alone = FALSE]
<1>1. ASSUME NEW u \in Made
      PROVE  /\ writes[u] \in WriteType /\ apart(u) \in WriteType
             /\ apart(u).node = writes[u].node /\ apart(u).polling = writes[u].polling
             /\ apart(u).updated = writes[u].updated /\ apart(u).answers = writes[u].answers
             /\ apart(u).alone = FALSE
  BY <1>1, WriteOfHook DEF WriteType, Typed, TypeOK
<1> HIDE DEF apart
<1>2. Joined(n) = [u \in 1..Len(writes) |->
                     IF writes[u].polling /\ writes[u].node # n THEN apart(u) ELSE writes[u]]
  BY DEF Joined, Made, Polling, apart
<1>3. Joined(n) \in [1..Len(writes) -> WriteType]
  BY <1>1, <1>2 DEF Made
<1>4. Joined(n) \in Seq(WriteType) /\ Len(Joined(n)) = Len(writes)
  BY <1>3 DEF Typed, TypeOK
<1>5. \A u \in Made : Joined(n)[u] = IF writes[u].polling /\ writes[u].node # n
                                     THEN apart(u) ELSE writes[u]
  BY <1>2 DEF Made
<1>6. QED
  BY <1>1, <1>4, <1>5

LEMMA NewWriteLast ==
  ASSUME Typed, NEW n \in Nodes, WriteNode(n)
  PROVE  /\ writes' \in Seq(WriteType) /\ Len(writes') = Len(writes) + 1
         /\ timeoutRef' = Len(writes) + 1 /\ writes'[Len(writes) + 1] = NewWrite(n)
         /\ \A u \in Made : writes'[u] = Joined(n)[u]
<1>1. NewWrite(n) \in WriteType
  BY DEF NewWrite, WriteType
<1>2. writes' = Append(Joined(n), NewWrite(n)) /\ timeoutRef' = Len(writes) + 1
  BY DEF WriteNode, Armed
<1>3. Joined(n) \in Seq(WriteType) /\ Len(Joined(n)) = Len(writes)
  BY JoinedTyped
<1>4. QED
  BY <1>1, <1>2, <1>3 DEF Made

LEMMA WriteTyped == ASSUME Typed, NEW n \in Nodes, WriteNode(n) PROVE Typed'
<1> USE DEF Typed, HookTyped, Nodal, Made
<1>1. NewWrite(n).node = n
  BY DEF NewWrite
<1>2. /\ writes' \in Seq(WriteType) /\ Len(writes') = Len(writes) + 1
      /\ timeoutRef' = Len(writes) + 1
      /\ pendingWrites' = pendingWrites \cup {n} /\ tags' = tags /\ Len(writes) < MaxWrites
  BY NewWriteLast DEF WriteNode
<1>3. /\ writes'[Len(writes) + 1].node = n
      /\ \A u \in 1..Len(writes) : writes'[u].node = writes[u].node
  BY <1>1, NewWriteLast, JoinedTyped
<1>4. HookTyped'
  BY <1>2, <1>3
<1>5. ASSUME NEW m \in pendingWrites' PROVE m \in {writes'[w].node : w \in 1..Len(writes')}
  <2>1. CASE m = n
    BY <1>2, <1>3, <2>1
  <2>2. CASE m \in pendingWrites
    <3>1. PICK w \in 1..Len(writes) : m = writes[w].node
      BY <2>2 DEF TypeOK
    <3>2. w \in 1..Len(writes') /\ writes'[w].node = writes[w].node
      BY <1>2, <1>3, <3>1
    <3>3. QED
      BY <3>1, <3>2
  <2>3. QED
    BY <1>2, <1>5, <2>1, <2>2
<1>6. Len(writes') <= MaxWrites
  BY <1>2, HookAssumption
<1>7. TypeOK'
  BY <1>2, <1>4, <1>5, <1>6 DEF TypeOK
<1>8. QED
  BY <1>4, <1>7

LEMMA HookStep == Typed /\ [Next]_vars => Typed'
<1> SUFFICES ASSUME Typed, [Next]_vars PROVE Typed'
  OBVIOUS
<1>1. CASE UNCHANGED vars
  BY <1>1 DEF vars, Typed, HookTyped, Nodal, Made, TypeOK
<1>2. CASE Next
  BY <1>2, WriteTyped, KeepsTyped, UpdateKeeps, TimeoutKeeps, PollKeeps DEF Next
<1>3. QED
  BY <1>1, <1>2

(* Two writes that are polled for at the same time are of one node, if one *)
(* of them is taken to be alone; and the time-out is that of the write that*)
(* waits, which is polled for.                                             *)
OverlapsKnown ==
  \A u, w \in Polling : writes[w].alone => writes[u].node = writes[w].node
TimedAndPolled == \A w \in Made : Waits(w) => timeoutRef = w /\ writes[w].polling
TimedInv == OverlapsKnown /\ TimedAndPolled

LEMMA KeepsOverlaps == ASSUME Typed, OverlapsKnown, Keeps PROVE OverlapsKnown'
BY DEF OverlapsKnown, Keeps, SameWrite, Polling, Made

LEMMA KeepsWaits == ASSUME Typed, Keeps, NEW w \in Made', Waits(w)' PROVE w \in Made /\ Waits(w)
BY DEF Waits, Keeps, SameWrite, Made

LEMMA WriteTimes == ASSUME Typed, TimedInv, NEW n \in Nodes, WriteNode(n) PROVE TimedInv'
<1> DEFINE new == Len(writes) + 1
<1>1. /\ Made' = Made \cup {new} /\ new \notin Made /\ Len(writes) \in Nat
      /\ timeoutRef' = new /\ writes'[new] = NewWrite(n)
      /\ \A u \in Made : u < new
  BY NewWriteLast DEF Made, Typed, TypeOK
<1>2. ASSUME NEW u \in Made
      PROVE  /\ writes'[u].node = writes[u].node /\ writes'[u].polling = writes[u].polling
             /\ writes'[u].alone =>
                  writes[u].alone /\ (writes[u].polling => writes[u].node = n)
  BY <1>2, NewWriteLast, JoinedTyped
<1>3. /\ writes'[new].node = n /\ writes'[new].polling = TRUE
      /\ writes'[new].alone => \A w \in Polling : writes[w].node = n
  BY <1>1 DEF NewWrite
<1> HIDE DEF new
<1>4. OverlapsKnown'
  <2> SUFFICES ASSUME NEW u \in Polling', NEW w \in Polling', writes'[w].alone
               PROVE  writes'[u].node = writes'[w].node
    BY DEF OverlapsKnown
  <2>1. /\ u = new \/ (u \in Polling /\ u \in Made)
        /\ w = new \/ (w \in Polling /\ w \in Made)
    BY <1>1, <1>2 DEF Polling
  <2>2. CASE w = new
    BY <1>2, <1>3, <2>1, <2>2
  <2>3. CASE w \in Polling /\ w \in Made
    <3>1. writes'[w].node = n /\ writes[w].alone
      BY <1>2, <2>3 DEF Polling
    <3>2. QED
      BY <1>2, <1>3, <2>1, <2>3, <3>1 DEF TimedInv, OverlapsKnown
  <2>4. QED
    BY <2>1, <2>2, <2>3
<1>5. ASSUME NEW w \in Made', Waits(w)' PROVE timeoutRef' = w /\ writes'[w].polling
  <2>1. CASE w = new
    BY <1>1, <1>3, <2>1
  (* One that waited before is no longer the last, or no longer alone.     *)
  <2>2. CASE w \in Made
    <3>1. writes'[w].node # n
      BY <1>1, <1>3, <1>5, <2>2 DEF Waits
    <3>2. writes[w].node \in pendingWrites
      BY <1>2, <1>5, <2>2, <3>1 DEF Waits, WriteNode
    <3>3. Waits(w)
      BY <1>1, <1>2, <1>5, <2>2, <3>2 DEF Waits
    <3>4. writes[w].polling
      BY <2>2, <3>3 DEF TimedInv, TimedAndPolled
    <3>5. QED
      BY <1>2, <1>5, <2>2, <3>1, <3>4 DEF Waits
  <2>3. QED
    BY <1>1, <1>5, <2>1, <2>2
<1>6. QED
  BY <1>4, <1>5 DEF TimedInv, TimedAndPolled

LEMMA TimedStep == Typed /\ TimedInv /\ [Next]_vars => TimedInv'
<1> SUFFICES ASSUME Typed, TimedInv, [Next]_vars PROVE TimedInv'
  OBVIOUS
<1>1. CASE UNCHANGED vars
  BY <1>1 DEF vars, TimedInv, OverlapsKnown, TimedAndPolled, Polling, Made, Waits
<1>2. ASSUME NEW n \in Nodes, WriteNode(n) PROVE TimedInv'
  BY <1>2, WriteTimes
<1>3. ASSUME NEW n \in Nodes, NEW v \in Values, UpdateTag(n, v) PROVE TimedInv'
  <2>1. Keeps /\ timeoutRef' = timeoutRef
    BY <1>3, UpdateKeeps DEF UpdateTag
  <2>2. ASSUME NEW w \in Made PROVE writes'[w].polling = writes[w].polling
    <3>1. writes'[w] = IF writes[w].node = n THEN [writes[w] EXCEPT !.updated = TRUE]
                       ELSE writes[w]
      BY <1>3 DEF UpdateTag
    <3>2. writes[w] \in WriteType
      BY WriteOfHook DEF Typed, TypeOK
    <3>3. QED
      BY <3>1, <3>2 DEF WriteType
  <2>3. QED
    BY <2>1, <2>2, KeepsOverlaps, KeepsWaits DEF TimedInv, TimedAndPolled
(* The write that waits is the one that times out.                         *)
<1>4. CASE TimedOut
  <2>1. Keeps
    BY <1>4, TimeoutKeeps
  <2>2. timeoutRef \in Made /\ writes[timeoutRef].node \notin pendingWrites'
    BY <1>4 DEF TimedOut, Expired, Typed, HookTyped, Made
  <2>3. ASSUME NEW w \in Made', Waits(w)' PROVE FALSE
    <3>1. w \in Made /\ Waits(w)
      BY <2>1, <2>3, KeepsWaits
    <3>2. w = timeoutRef
      BY <3>1 DEF TimedInv, TimedAndPolled
    <3>3. writes'[w].node = writes[w].node
      BY <2>1, <3>1 DEF Keeps, SameWrite
    <3>4. QED
      BY <2>2, <2>3, <3>2, <3>3 DEF Waits
  <2>4. QED
    BY <2>1, <2>3, KeepsOverlaps DEF TimedInv, TimedAndPolled
(* An acknowledged write is of another node than one that waits, and is    *)
(* polled for: the one that waits was not alone.                           *)
<1>5. ASSUME NEW u \in Made, Polled(u) PROVE TimedInv'
  <2>1. Keeps
    BY <1>5, PollKeeps
  <2>2. u \in Polling /\ writes[u].node \notin pendingWrites /\ pendingWrites' = pendingWrites
    BY <1>5 DEF Polled, Polling
  <2>3. ASSUME NEW w \in Made', Waits(w)' PROVE FALSE
    <3>1. w \in Made /\ Waits(w)
      BY <2>1, <2>3, KeepsWaits
    <3>2. w \in Polling /\ writes[w].alone /\ writes[w].node \in pendingWrites
      BY <3>1 DEF TimedInv, TimedAndPolled, Polling, Waits
    <3>3. QED
      BY <2>2, <3>2 DEF TimedInv, OverlapsKnown
  <2>4. QED
    BY <2>1, <2>3, KeepsOverlaps DEF TimedInv, TimedAndPolled
<1>6. ASSUME NEW u \in Made, PollingEnds(u) PROVE TimedInv'
  <2>1. Keeps /\ timeoutRef' = timeoutRef /\ u # timeoutRef
    BY <1>6, PollKeeps DEF PollingEnds
  <2>2. ASSUME NEW w \in Made, w # u PROVE writes'[w] = writes[w]
    BY <1>6, <2>2 DEF PollingEnds
  <2>3. ASSUME NEW w \in Made', Waits(w)' PROVE timeoutRef' = w /\ writes'[w].polling
    <3>1. w \in Made /\ Waits(w)
      BY <2>1, <2>3, KeepsWaits
    <3>2. timeoutRef = w /\ writes[w].polling
      BY <3>1 DEF TimedInv, TimedAndPolled
    <3>3. QED
      BY <2>1, <2>2, <3>1, <3>2
  <2>4. QED
    BY <2>1, <2>3, KeepsOverlaps DEF TimedInv, TimedAndPolled
<1>7. QED
  BY <1>1, <1>2, <1>3, <1>4, <1>5, <1>6 DEF Next

(* For any number of nodes and writes: the time-out of a write whose node  *)
(* is marked as pending is running, unless a later write of the node took  *)
(* over or writes of two nodes overlapped, which the single timeoutRef of  *)
(* useWriteNode does not survive.                                          *)
THEOREM WaitingIsTimed == Spec => []HookInv
<1>1. Init => Typed /\ TimedInv
  BY HookAssumption DEF Init, Typed, HookTyped, Nodal, Made, TypeOK, TimedInv, OverlapsKnown,
     TimedAndPolled, Polling
<1>2. Typed /\ TimedInv => HookInv
  BY DEF Typed, TimedInv, TimedAndPolled, HookInv, PendingIsTimed
<1>3. QED
  BY <1>1, <1>2, HookStep, TimedStep, PTL DEF Spec

-----------------------------------------------------------------------------
(* For a hook used with any number of nodes: an update of the node of the  *)
(* write whose time-out is running has taken that node's mark away.        *)
UpdatedIsClear ==
  timeoutRef # 0 /\ writes[timeoutRef].updated => writes[timeoutRef].node \notin pendingWrites

(* A running time-out that does not change, and a write of it that does    *)
(* not either, keep that.                                                  *)
LEMMA ClearKept ==
  ASSUME UpdatedIsClear, pendingWrites' \subseteq pendingWrites,
         timeoutRef' = 0 \/ (/\ timeoutRef' = timeoutRef
                             /\ writes'[timeoutRef].node = writes[timeoutRef].node
                             /\ writes'[timeoutRef].updated = writes[timeoutRef].updated)
  PROVE  UpdatedIsClear'
<1>1. CASE timeoutRef' = 0
  BY <1>1 DEF UpdatedIsClear
<1>2. CASE /\ timeoutRef' = timeoutRef
           /\ writes'[timeoutRef].node = writes[timeoutRef].node
           /\ writes'[timeoutRef].updated = writes[timeoutRef].updated
  BY <1>2 DEF UpdatedIsClear
<1>3. QED
  BY <1>1, <1>2

LEMMA ClearStep == Typed /\ UpdatedIsClear /\ [Next]_vars => UpdatedIsClear'
<1> SUFFICES ASSUME Typed, UpdatedIsClear, [Next]_vars PROVE UpdatedIsClear'
  OBVIOUS
<1>1. CASE UNCHANGED vars
  BY <1>1, ClearKept DEF vars
<1>2. ASSUME NEW n \in Nodes, WriteNode(n) PROVE UpdatedIsClear'
  <2>2. writes'[timeoutRef'] = NewWrite(n)
    BY <1>2, NewWriteLast
  <2>3. writes'[timeoutRef'].updated = FALSE
    BY <2>2 DEF NewWrite
  <2>4. QED
    BY <2>3 DEF UpdatedIsClear
<1>3. ASSUME NEW n \in Nodes, NEW v \in Values, UpdateTag(n, v) PROVE UpdatedIsClear'
  <2>1. timeoutRef' = timeoutRef /\ pendingWrites' = pendingWrites \ {n}
    BY <1>3 DEF UpdateTag, Cleared
  <2>2. CASE timeoutRef = 0
    BY <2>1, <2>2 DEF UpdatedIsClear
  <2>3. CASE timeoutRef # 0
    <3>1. timeoutRef \in Made
      BY <2>3 DEF Typed, TypeOK, Made
    <3>2. writes'[timeoutRef] = IF writes[timeoutRef].node = n
                                THEN [writes[timeoutRef] EXCEPT !.updated = TRUE]
                                ELSE writes[timeoutRef]
      BY <1>3, <3>1 DEF UpdateTag
    <3>3. CASE writes[timeoutRef].node = n
      <4>1. writes'[timeoutRef].node = n
        BY <3>1, <3>2, <3>3, WriteOfHook DEF Typed, TypeOK, WriteType
      <4>2. QED
        BY <2>1, <4>1 DEF UpdatedIsClear
    <3>4. CASE writes[timeoutRef].node # n
      BY <2>1, <3>2, <3>4, ClearKept
    <3>5. QED
      BY <3>3, <3>4
  <2>4. QED
    BY <2>2, <2>3
<1>4. CASE TimedOut
  <2>1. timeoutRef' = 0
    BY <1>4 DEF TimedOut
  <2>2. QED
    BY <2>1 DEF UpdatedIsClear
<1>5. ASSUME NEW w \in Made, Polled(w) PROVE UpdatedIsClear'
  BY <1>5 DEF Polled, UpdatedIsClear
<1>6. ASSUME NEW w \in Made, PollingEnds(w) PROVE UpdatedIsClear'
  <2>1. /\ UNCHANGED <<pendingWrites, timeoutRef>>
        /\ writes' = [writes EXCEPT ![w].polling = FALSE]
    BY <1>6 DEF PollingEnds
  <2>2. timeoutRef \in Made => /\ writes'[timeoutRef].node = writes[timeoutRef].node
                               /\ writes'[timeoutRef].updated = writes[timeoutRef].updated
    BY <2>1, WriteOfHook DEF Typed, TypeOK, WriteType, Made
  <2>3. timeoutRef = 0 \/ timeoutRef \in Made
    BY DEF Typed, TypeOK, Made
  <2>4. QED
    BY <2>1, <2>2, <2>3, ClearKept
<1>7. QED
  BY <1>1, <1>2, <1>3, <1>4, <1>5, <1>6 DEF Next

(* Only the time-out tells the user of a failure, and only of its write.   *)
LEMMA ErrorStep ==
  ASSUME Typed, UpdatedIsClear, Next, NEW w \in Made,
         "error" \in writes'[w].answers \ writes[w].answers
  PROVE  ~writes[w].updated
<1>1. writes \in Seq(WriteType) /\ w \in 1..Len(writes) /\ writes[w] \in WriteType
  BY WriteOfHook DEF Typed, TypeOK
<1>2. CASE TimedOut
  <2>1. /\ timeoutRef # 0 /\ writes[timeoutRef].node \in pendingWrites
        /\ writes' = Told(timeoutRef, "error")
    BY <1>2 DEF TimedOut
  <2>2. w = timeoutRef
    BY <1>1, <2>1 DEF Told
  <2>3. QED
    BY <2>1, <2>2 DEF UpdatedIsClear
<1>3. ASSUME NEW n \in Nodes, WriteNode(n) PROVE FALSE
  BY <1>3, NewWriteLast, JoinedTyped
<1>4. ASSUME NEW n \in Nodes, NEW v \in Values, UpdateTag(n, v) PROVE FALSE
  <2>1. writes'[w] = IF writes[w].node = n THEN [writes[w] EXCEPT !.updated = TRUE]
                     ELSE writes[w]
    BY <1>4 DEF UpdateTag
  <2>2. writes'[w].answers = writes[w].answers
    BY <1>1, <2>1 DEF WriteType
  <2>3. QED
    BY <2>2
<1>5. ASSUME NEW u \in Made, Polled(u) \/ PollingEnds(u) PROVE FALSE
  <2>1. writes[u] \in WriteType /\ u \in 1..Len(writes)
    BY WriteOfHook DEF Typed, TypeOK
  <2>2. writes'[w].answers \in {writes[w].answers, writes[w].answers \cup {"success"}}
    <3>1. CASE Polled(u)
      <4>1. writes' = [Told(u, "success") EXCEPT ![u].polling = FALSE]
        BY <3>1 DEF Polled
      <4>2. QED
        BY <1>1, <2>1, <4>1 DEF Told, WriteType
    <3>2. CASE PollingEnds(u)
      BY <1>1, <2>1, <3>2 DEF PollingEnds, WriteType
    <3>3. QED
      BY <1>5, <3>1, <3>2
  <2>3. QED
    BY <2>2
<1>6. QED
  BY <1>2, <1>3, <1>4, <1>5 DEF Next

(* A write is reported as failed only if no update of its node came in     *)
(* before the report, however the hook moves from node to node: updateTag  *)
(* clears the pending mark that the time-out of useWriteNode looks for.    *)
THEOREM ErrorsMeanSilence == Spec => ErrorMeansNoUpdate
<1>1. Init => Typed /\ UpdatedIsClear
  BY HookAssumption DEF Init, Typed, HookTyped, Nodal, Made, TypeOK, UpdatedIsClear
<1>2. Typed /\ UpdatedIsClear /\ [Next]_vars
        => [\A w \in Made : "error" \in writes'[w].answers \ writes[w].answers
                              => ~writes[w].updated]_vars
  BY ErrorStep
<1>3. QED
  BY <1>1, <1>2, HookStep, ClearStep, PTL DEF Spec, ErrorMeansNoUpdate
=============================================================================
