----------------------------- MODULE OpcWorker -----------------------------
(***************************************************************************)
(* The OPC UA worker of the HMI (hmi/src/opc_worker.rs): one task that     *)
(* keeps a session to the OPC UA server, takes the commands of browsers    *)
(* and historian off a queue, and broadcasts the values of all nodes.      *)
(* Values reach the broadcast channel along two paths that do not wait for *)
(* each other: the snapshots the worker reads, and the subscription, whose *)
(* callback runs in a task of the client library.                          *)
(*                                                                         *)
(* `at' names the call the worker is waiting for.                          *)
(***************************************************************************)
EXTENDS Integers, Sequences

CONSTANTS
  Nodes,         \* OPC UA variables
  Subs,          \* subscriptions that may live side by side
  Values,        \* the values they take
  Unset,         \* no value
  BaseRetry,     \* reconnect_delay_sec, at least 2
  FailureCap,    \* failures from which on the delay does not grow (4 in the code)
  MaxDelay,      \* its upper bound (60 in the code)
  QueueCap,      \* capacity of the command queue (100 in the code)
  Faults         \* the things that may go wrong: see FaultKinds

FaultKinds ==
  {"credentials", "connect", "discover", "monitor", "read", "write", "drop", "reconnect"}

ASSUME WorkerAssumption ==
  /\ Unset \notin Values /\ Values # {} /\ Subs # {}
  /\ BaseRetry \in Nat \ {0, 1} /\ MaxDelay \in Nat \ {0}
  /\ QueueCap \in Nat \ {0} /\ FailureCap \in 1..4
  /\ Faults \subseteq FaultKinds

VARIABLES
  value,       \* value[n]: what the server holds
  up,          \* the server can be reached
  items,       \* monitored items of living sessions
  last,        \* last[i]: the value its server last put into a report
  report,      \* report[i]: the notification waiting or under way
  at,          \* where the worker is
  session,     \* the worker's session is usable
  failures,    \* connect_failures, as far as the delay depends on it
  delay,       \* seconds to wait before the next attempt
  tracked,     \* all_monitored_nodes
  snap,        \* snap[n]: the value read by the snapshot being broadcast
  cmds,        \* the command queue
  told,        \* told[n]: the last value broadcast
  from,        \* from[n]: a snapshot or a report, whichever told it (history)
  plc          \* the last PlcConnection broadcast

server == <<value, up, items, last, report>>
link   == <<session, failures, delay>>
news   == <<told, from>>
sent   == <<news, plc>>
vars   == <<server, at, link, tracked, snap, cmds, sent>>

Write(n, v) == [op |-> "Write", node |-> n, value |-> v]
ReadAll     == [op |-> "ReadAll"]
Reconnect   == [op |-> "Reconnect"]
Writes      == {Write(n, v) : n \in Nodes, v \in Values}
Commands    == Writes \cup {ReadAll, Reconnect}

Item     == [sub : Subs, node : Nodes]
Of(n)    == {i \in items : i.node = n}
Nothing  == [n \in Nodes |-> Unset]
NoReport == [i \in Item |-> Unset]

Init ==
  /\ value \in [Nodes -> Values]
  /\ up \in BOOLEAN
  /\ items = {} /\ last = NoReport /\ report = NoReport
  /\ at = "config" /\ session = FALSE /\ failures = 0 /\ delay = 0
  /\ tracked = {} /\ snap = Nothing /\ cmds = <<>>
  /\ told = Nothing /\ from = [n \in Nodes |-> "nothing"] /\ plc = 0

-----------------------------------------------------------------------------
(* Connecting                                                              *)

Least(x, y) == IF x <= y THEN x ELSE y
Doubled == <<1, 2, 4, 8>>

(* compute_retry_delay: doubled with every failure, three times as long if *)
(* the user was rejected, cut off at a minute.                             *)
RetryDelay(fails, authRelated) ==
  Least(BaseRetry * (IF authRelated THEN 3 ELSE 1) * Doubled[fails], MaxDelay)

(* Beyond FailureCap the count of failures makes no difference.            *)
BadRetry(authRelated) ==
  /\ failures' = Least(failures + 1, FailureCap)
  /\ delay' = RetryDelay(failures', authRelated)
  /\ at' = "config"
Retry(authRelated) ==
  /\ failures' = Least(failures + 1, FailureCap)
  /\ delay' = RetryDelay(failures', authRelated)
  /\ at' = "wait"

(* The infrastructure row is read anew for every attempt.                  *)
BadAnnounce == plc
Announce == 0

ReadConfig ==
  /\ at = "config"
  /\ plc' = Announce /\ at' = "connect"
  /\ UNCHANGED <<server, link, tracked, snap, cmds, news>>

(* User authentication selected, and no user or no password.               *)
NoCredentials ==
  /\ at = "config" /\ "credentials" \in Faults
  /\ plc' = Announce
  /\ Retry(TRUE)
  /\ UNCHANGED <<server, session, tracked, snap, cmds, news>>

(* connect_to_matching_endpoint                                            *)
Connected ==
  /\ at = "connect" /\ up
  /\ session' = TRUE /\ at' = "validate"
  /\ UNCHANGED <<server, failures, delay, tracked, snap, cmds, sent>>

ConnectFails ==
  /\ at = "connect" /\ (~up \/ "connect" \in Faults)
  /\ plc' = 0
  /\ \E auth \in BOOLEAN : Retry(auth)
  /\ UNCHANGED <<server, session, tracked, snap, cmds, news>>

(* validate_session_connection; then a pause of a second.                  *)
Validated ==
  /\ at = "validate" /\ session
  /\ failures' = 0 /\ plc' = 1
  /\ at' = "settle"
  /\ UNCHANGED <<server, session, delay, tracked, snap, cmds, news>>

ValidationFails ==
  /\ at = "validate" /\ (~session \/ "connect" \in Faults)
  /\ session' = FALSE /\ plc' = 0
  /\ \E auth \in BOOLEAN : Retry(auth)
  /\ UNCHANGED <<server, tracked, snap, cmds, news>>

(* wait_retry_or_reconnect: every command but Reconnect is dropped.        *)
WaitEnds ==
  /\ at = "wait"
  /\ at' = "config" /\ delay' = 0
  /\ UNCHANGED <<server, session, failures, tracked, snap, cmds, sent>>

TakenWhileWaiting ==
  /\ at = "wait" /\ cmds # <<>>
  /\ cmds' = Tail(cmds)
  /\ IF Head(cmds) = Reconnect THEN at' = "config" /\ delay' = 0 ELSE UNCHANGED <<at, delay>>
  /\ UNCHANGED <<server, session, failures, tracked, snap, sent>>

-----------------------------------------------------------------------------
(* Discovery, once per connection, all models taken together: the nodes the*)
(* management API lists are tracked and monitored, in a subscription of    *)
(* their own (or, so that their number stays finite, one left over by an   *)
(* earlier session); an item refused by the server is not noticed.  The    *)
(* server reports the present values first.                                *)
Found(nodes) == "discover" \notin Faults => nodes = Nodes
Accepted(nodes, monitored) ==
  monitored \subseteq nodes /\ ("monitor" \notin Faults => monitored = nodes)

Discover ==
  /\ at = "settle"
  /\ \E nodes, monitored \in SUBSET Nodes, s \in Subs :
       /\ IF session THEN Found(nodes) ELSE nodes = {}
       /\ Accepted(nodes, monitored)
       /\ tracked' = nodes
       /\ LET new == [sub : {s}, node : monitored] IN
          /\ items' = items \cup new
          /\ last' = [i \in Item |-> IF i \in new THEN Unset ELSE last[i]]
       /\ at' = IF nodes = {} THEN "loop" ELSE "snap"
  /\ UNCHANGED <<value, up, report, link, snap, cmds, sent>>

(* read_and_broadcast: the server's answer, and its broadcast.  The status *)
(* follows.                                                                *)
SnapRead ==
  /\ at = "snap" /\ session
  /\ snap' = [n \in Nodes |-> IF n \in tracked THEN value[n] ELSE Unset]
  /\ at' = "send"
  /\ UNCHANGED <<server, link, tracked, cmds, sent>>

SnapFails ==
  /\ at = "snap" /\ (~session \/ "read" \in Faults)
  /\ at' = "loop" /\ plc' = 1
  /\ UNCHANGED <<server, link, tracked, snap, cmds, news>>

TellAll == [n \in Nodes |-> IF n \in tracked THEN snap[n] ELSE told[n]]

SnapSend ==
  /\ at = "send"
  /\ told' = TellAll
  /\ from' = [n \in Nodes |-> IF n \in tracked THEN "snapshot" ELSE from[n]]
  /\ snap' = Nothing
  /\ at' = "loop" /\ plc' = 1
  /\ UNCHANGED <<server, link, tracked, cmds>>

-----------------------------------------------------------------------------
(* The main loop                                                           *)

TakenWrite ==
  /\ at = "loop" /\ cmds # <<>> /\ Head(cmds) \in Writes
  /\ cmds' = Tail(cmds)
  /\ \/ session /\ value' = [value EXCEPT ![Head(cmds).node] = Head(cmds).value]
     \/ (~session \/ "write" \in Faults) /\ UNCHANGED value
  /\ UNCHANGED <<up, items, last, report, at, link, tracked, snap, sent>>

BadRefresh == "loop"
Refresh == IF tracked = {} THEN "loop" ELSE "snap"

TakenReadAll ==
  /\ at = "loop" /\ cmds # <<>> /\ Head(cmds) = ReadAll
  /\ cmds' = Tail(cmds)
  /\ at' = Refresh
  /\ UNCHANGED <<server, link, tracked, snap, sent>>

(* The old session is dropped but not closed: its subscription lives on.   *)
TakenReconnect ==
  /\ at = "loop" /\ cmds # <<>> /\ Head(cmds) = Reconnect
  /\ cmds' = Tail(cmds)
  /\ at' = "config" /\ session' = FALSE
  /\ UNCHANGED <<server, failures, delay, tracked, snap, sent>>

(* A second without a command: connected is broadcast, then the ping; if it*)
(* succeeds nothing is different.                                          *)
BadAfterPing == "loop"
AfterPing == "config"

PingFails ==
  /\ at = "loop" /\ (~session \/ "read" \in Faults)
  /\ at' = AfterPing /\ session' = FALSE /\ plc' = 1
  /\ UNCHANGED <<server, failures, delay, tracked, snap, cmds, news>>

-----------------------------------------------------------------------------
(* The subscription: an item is sampled now and then.  What is sampled is  *)
(* reported if it differs from what was reported last, and replaces a      *)
(* report still waiting (queue_size 1); a value that leaves and comes back *)
(* between two samples is not reported.  The callback broadcasts it.       *)
Due(i) == i \in items /\ last[i] # value[i.node]

Sampled(i) ==
  /\ Due(i)
  /\ last' = [last EXCEPT ![i] = value[i.node]]
  /\ report' = [report EXCEPT ![i] = value[i.node]]
  /\ UNCHANGED <<value, up, items, at, link, tracked, snap, cmds, sent>>

BadHeard(i) == told
Heard(i) == [told EXCEPT ![i.node] = report[i]]

Reported(i) ==
  /\ report[i] # Unset
  /\ told' = Heard(i)
  /\ from' = [from EXCEPT ![i.node] = "report"]
  /\ report' = [report EXCEPT ![i] = Unset]
  /\ UNCHANGED <<value, up, items, last, at, link, tracked, snap, cmds, plc>>

(* The server: its values change, it goes away with all sessions, it comes *)
(* back.                                                                   *)
Moved(n, v) ==
  /\ value[n] # v
  /\ value' = [value EXCEPT ![n] = v]
  /\ UNCHANGED <<up, items, last, report, at, link, tracked, snap, cmds, sent>>

Dropped ==
  /\ up /\ "drop" \in Faults
  /\ up' = FALSE /\ session' = FALSE
  /\ items' = {} /\ last' = NoReport /\ report' = NoReport
  /\ UNCHANGED <<value, at, failures, delay, tracked, snap, cmds, sent>>

Returned ==
  /\ ~up /\ up' = TRUE
  /\ UNCHANGED <<value, items, last, report, at, link, tracked, snap, cmds, sent>>

(* The senders: browsers write; new browsers and the historian's timer ask *)
(* for snapshots; the settings page asks to reconnect.                     *)
Put(cmd) ==
  /\ Len(cmds) < QueueCap
  /\ cmds' = Append(cmds, cmd)
  /\ UNCHANGED <<server, at, link, tracked, snap, sent>>

Worker ==
  \/ ReadConfig \/ NoCredentials \/ Connected \/ ConnectFails
  \/ Validated \/ ValidationFails \/ WaitEnds \/ TakenWhileWaiting
  \/ Discover \/ SnapRead \/ SnapFails \/ SnapSend
  \/ TakenWrite \/ TakenReadAll \/ TakenReconnect \/ PingFails

Next ==
  \/ Worker
  \/ \E i \in Item : Sampled(i) \/ Reported(i)
  \/ \E n \in Nodes, v \in Values : Moved(n, v)
  \/ Dropped \/ Returned
  \/ \E cmd \in Commands :
       (cmd = Reconnect => "reconnect" \in Faults) /\ Put(cmd)

Spec == Init /\ [][Next]_vars

(* Fairness.  The worker goes on; whatever may succeed is tried again and  *)
(* again and succeeds at some time; the command stream pauses for a second *)
(* now and then, so that the ping gets its turn; the wait for a retry is a *)
(* timer that commands do not restart; the client library                  *)
(* delivers notifications; the historian asks for a snapshot every minute. *)
FairSpec ==
  /\ Spec
  /\ WF_vars(Worker) /\ WF_vars(WaitEnds)
  /\ SF_vars(ReadConfig) /\ SF_vars(Connected) /\ SF_vars(Validated)
  /\ SF_vars(SnapRead) /\ SF_vars(~session /\ PingFails)
  /\ \A i \in Item : WF_vars(Sampled(i)) /\ WF_vars(Reported(i))
  /\ SF_vars(Put(ReadAll))

-----------------------------------------------------------------------------
(* Types; a delay is set while the worker waits, and a snapshot exists     *)
(* between its read and its broadcast only.                                *)
TypeOK ==
  /\ value \in [Nodes -> Values] /\ up \in BOOLEAN
  /\ items \subseteq Item
  /\ last \in [Item -> Values \cup {Unset}] /\ report \in [Item -> Values \cup {Unset}]
  /\ at \in {"config", "connect", "validate", "wait", "settle", "snap", "send", "loop"}
  /\ session \in BOOLEAN /\ failures \in 0..FailureCap
  /\ delay \in IF at = "wait" THEN 1..MaxDelay ELSE {0}
  /\ tracked \subseteq Nodes
  /\ snap \in [Nodes -> Values \cup {Unset}]
  /\ at = "send" => \A n \in tracked : snap[n] \in Values
  /\ cmds \in Seq(Commands) /\ Len(cmds) <= QueueCap
  /\ told \in [Nodes -> Values \cup {Unset}] /\ plc \in {0, 1}
  /\ from \in [Nodes -> {"nothing", "snapshot", "report"}]

(* What the browsers are told of the connection: never connected while the *)
(* worker connects or waits, connected while it serves.                    *)
StatusFollowsLink ==
  /\ at \in {"connect", "validate", "wait"} => plc = 0
  /\ at \in {"settle", "snap", "send", "loop"} => plc = 1 /\ failures = 0

(* The browsers have the value of n, or will be told it: an item has yet to*)
(* report it, or its report is waiting or under way.                       *)
Known(n) ==
  told[n] = value[n] \/ \E i \in Of(n) : Due(i) \/ report[i] = value[n]

(* Browsers that show a wrong value with nothing under way to correct it   *)
(* have it from a snapshot: one that was overtaken by a report, or one that*)
(* told a value the subscription, which remembers only its own last report,*)
(* never reported.  What a report told is right or will be corrected,      *)
(* through writes, moves that come back between two samples, reconnections *)
(* and the reports of abandoned subscriptions (opc_worker.rs 382-482).     *)
OnlySnapshotsMislead ==
  \A n \in Nodes : Of(n) # {} /\ ~Known(n) => from[n] = "snapshot"

(* Even so, the periodic snapshots repair it: if values come to rest, the  *)
(* server stays up and discovery keeps finding the nodes, then the browsers*)
(* have the right value in the end.                                        *)
AtRest == <>[]up /\ <>[][value' = value]_vars
BroadcastConverges ==
  AtRest /\ []<>(tracked = Nodes) => <>[](told = value)

(* A server that stays up is found again, whatever failed before and       *)
(* however often a reconnection is asked for.                              *)
LinkRecovers == <>[]up => []<>(at = "loop" /\ session)
=============================================================================
