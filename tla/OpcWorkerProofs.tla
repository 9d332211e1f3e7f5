-------------------------- MODULE OpcWorkerProofs --------------------------
(* Type correctness of OpcWorker, the status it reports, and the two paths *)
(* of a value to the browsers.                                             *)
EXTENDS OpcWorker, TLAPS

(* The delay grows with the failures and stays between a second and the    *)
(* bound.                                                                  *)
THEOREM RetryDelayBounded ==
  ASSUME NEW fails \in 1..4, NEW auth \in BOOLEAN
  PROVE  RetryDelay(fails, auth) \in 1..MaxDelay
<1>1. Doubled[fails] \in {1, 2, 4, 8}
  BY DEF Doubled
<1>2. PICK d \in Nat \ {0} : d = BaseRetry * (IF auth THEN 3 ELSE 1) * Doubled[fails]
  <2>1. CASE Doubled[fails] = 1
    BY <2>1, WorkerAssumption DEF WorkerAssumption
  <2>2. CASE Doubled[fails] = 2
    BY <2>2, WorkerAssumption DEF WorkerAssumption
  <2>3. CASE Doubled[fails] = 4
    BY <2>3, WorkerAssumption DEF WorkerAssumption
  <2>4. CASE Doubled[fails] = 8
    BY <2>4, WorkerAssumption DEF WorkerAssumption
  <2>5. QED
    BY <1>1, <2>1, <2>2, <2>3, <2>4
<1>3. QED
  BY <1>2, WorkerAssumption DEF RetryDelay, Least, WorkerAssumption

LEMMA RetryDelayGrows ==
  ASSUME NEW fails \in 1..3, NEW auth \in BOOLEAN
  PROVE  RetryDelay(fails, auth) <= RetryDelay(fails + 1, auth)
<1> DEFINE b == BaseRetry * (IF auth THEN 3 ELSE 1)
<1>1. b \in Nat /\ RetryDelay(fails, auth) = Least(b * Doubled[fails], MaxDelay)
      /\ RetryDelay(fails + 1, auth) = Least(b * Doubled[fails + 1], MaxDelay)
  BY WorkerAssumption DEF RetryDelay, WorkerAssumption
<1> HIDE DEF b
<1>2. b * Doubled[fails] <= b * Doubled[fails + 1] /\ b * Doubled[fails] \in Nat
      /\ b * Doubled[fails + 1] \in Nat
  <2>1. CASE fails = 1
    BY <1>1, <2>1 DEF Doubled
  <2>2. CASE fails = 2
    BY <1>1, <2>2 DEF Doubled
  <2>3. CASE fails = 3
    BY <1>1, <2>3 DEF Doubled
  <2>4. QED
    BY <2>1, <2>2, <2>3
<1>3. QED
  BY <1>1, <1>2, WorkerAssumption DEF Least, WorkerAssumption

LEMMA RetryTypes ==
  ASSUME NEW auth \in BOOLEAN, TypeOK, Retry(auth)
  PROVE  failures' \in 1..FailureCap /\ delay' \in 1..MaxDelay /\ at' = "wait"
<1>1. failures' \in 1..FailureCap /\ delay' = RetryDelay(failures', auth) /\ at' = "wait"
  BY WorkerAssumption DEF Retry, Least, TypeOK, WorkerAssumption
<1>2. failures' \in 1..4
  BY <1>1, WorkerAssumption DEF WorkerAssumption
<1>3. QED
  BY <1>1, <1>2, RetryDelayBounded

LEMMA TypeInit == Init => TypeOK
<1> SUFFICES ASSUME Init PROVE TypeOK
  OBVIOUS
<1>1. cmds \in Seq(Commands) /\ Len(cmds) <= QueueCap
  BY WorkerAssumption DEF Init, WorkerAssumption
<1>2. /\ report \in [Item -> Values \cup {Unset}] /\ last = report
      /\ from \in [Nodes -> {"nothing", "snapshot", "report"}]
      /\ snap \in [Nodes -> Values \cup {Unset}] /\ told = snap
  BY DEF Init, Nothing, NoReport
<1>3. value \in [Nodes -> Values] /\ up \in BOOLEAN /\ session \in BOOLEAN
  BY DEF Init
<1>4. items = {} /\ tracked = {} /\ at = "config" /\ failures = 0
      /\ delay = 0 /\ plc = 0
  BY DEF Init
<1>5. QED
  BY <1>1, <1>2, <1>3, <1>4, WorkerAssumption DEF TypeOK, WorkerAssumption

(* The steps that leave the queue and the values broadcast alone.          *)
LEMMA TypeConnect ==
  TypeOK /\ (\/ ReadConfig \/ NoCredentials \/ Connected \/ ConnectFails
             \/ Validated \/ ValidationFails \/ WaitEnds) => TypeOK'
<1> SUFFICES ASSUME TypeOK,
                    \/ ReadConfig \/ NoCredentials \/ Connected \/ ConnectFails
                    \/ Validated \/ ValidationFails \/ WaitEnds
             PROVE  TypeOK'
  OBVIOUS
<1> USE DEF TypeOK, server, link, sent, news, Announce
<1>1. CASE ReadConfig
  BY <1>1 DEF ReadConfig
<1>2. CASE NoCredentials
  <2>1. Retry(TRUE)
    BY <1>2 DEF NoCredentials
  <2>2. failures' \in 1..FailureCap /\ delay' \in 1..MaxDelay /\ at' = "wait"
    BY <2>1, RetryTypes
  <2>3. QED
    BY <1>2, <2>2 DEF NoCredentials
<1>3. CASE Connected
  BY <1>3 DEF Connected
<1>4. CASE ConnectFails
  <2>1. PICK auth \in BOOLEAN : Retry(auth)
    BY <1>4 DEF ConnectFails
  <2>2. failures' \in 1..FailureCap /\ delay' \in 1..MaxDelay /\ at' = "wait"
    BY <2>1, RetryTypes
  <2>3. QED
    BY <1>4, <2>2 DEF ConnectFails
<1>5. CASE Validated
  BY <1>5, WorkerAssumption DEF Validated, WorkerAssumption
<1>6. CASE ValidationFails
  <2>1. PICK auth \in BOOLEAN : Retry(auth)
    BY <1>6 DEF ValidationFails
  <2>2. failures' \in 1..FailureCap /\ delay' \in 1..MaxDelay /\ at' = "wait"
    BY <2>1, RetryTypes
  <2>3. session' \in BOOLEAN /\ plc' = 0 /\ UNCHANGED <<server, tracked, snap, cmds, news>>
    BY <1>6 DEF ValidationFails
  <2>4. QED
    BY <2>2, <2>3
<1>7. CASE WaitEnds
  BY <1>7 DEF WaitEnds
<1>8. QED
  BY <1>1, <1>2, <1>3, <1>4, <1>5, <1>6, <1>7

(* A discovery adds items, which remember nothing yet.                     *)
LEMMA NewItems ==
  Discover => \E new \in SUBSET Item :
    /\ items' = items \cup new
    /\ last' = [i \in Item |-> IF i \in new THEN Unset ELSE last[i]]
<1> SUFFICES ASSUME Discover
             PROVE  \E new \in SUBSET Item :
                      /\ items' = items \cup new
                      /\ last' = [i \in Item |-> IF i \in new THEN Unset ELSE last[i]]
  OBVIOUS
<1>1. PICK nodes, monitored \in SUBSET Nodes, s \in Subs :
        LET new == [sub : {s}, node : monitored] IN
        /\ items' = items \cup new
        /\ last' = [i \in Item |-> IF i \in new THEN Unset ELSE last[i]]
  BY DEF Discover
<1>2. [sub : {s}, node : monitored] \subseteq Item
  BY DEF Item
<1>3. QED
  BY <1>1, <1>2

LEMMA TypeSnapshot ==
  TypeOK /\ (Discover \/ SnapRead \/ SnapFails \/ SnapSend \/ PingFails) => TypeOK'
<1> SUFFICES ASSUME TypeOK, Discover \/ SnapRead \/ SnapFails \/ SnapSend \/ PingFails
             PROVE  TypeOK'
  OBVIOUS
<1> USE DEF TypeOK, server, link, sent, news
<1>1. CASE Discover
  <2>1. tracked' \subseteq Nodes /\ at' \in {"loop", "snap"}
    BY <1>1 DEF Discover
  <2>2. PICK new \in SUBSET Item :
          /\ items' = items \cup new
          /\ last' = [i \in Item |-> IF i \in new THEN Unset ELSE last[i]]
    BY <1>1, NewItems
  <2>3. items' \subseteq Item /\ last' \in [Item -> Values \cup {Unset}]
    BY <2>2
  <2>4. QED
    BY <1>1, <2>1, <2>3 DEF Discover
<1>2. CASE SnapRead
  BY <1>2 DEF SnapRead
<1>3. CASE SnapFails
  BY <1>3 DEF SnapFails
<1>4. CASE SnapSend
  BY <1>4 DEF SnapSend, TellAll, Nothing
<1>5. CASE PingFails
  BY <1>5 DEF PingFails, AfterPing
<1>6. QED
  BY <1>1, <1>2, <1>3, <1>4, <1>5

LEMMA TypeCommands ==
  TypeOK /\ (\/ TakenWhileWaiting \/ TakenWrite \/ TakenReadAll \/ TakenReconnect
             \/ \E cmd \in Commands : Put(cmd)) => TypeOK'
<1> SUFFICES ASSUME TypeOK,
                    \/ TakenWhileWaiting \/ TakenWrite \/ TakenReadAll \/ TakenReconnect
                    \/ \E cmd \in Commands : Put(cmd)
             PROVE  TypeOK'
  OBVIOUS
<1> USE DEF server, link, sent, news
<1>1. cmds # <<>> => Tail(cmds) \in Seq(Commands) /\ Len(Tail(cmds)) <= QueueCap
  BY WorkerAssumption DEF TypeOK, WorkerAssumption
<1>2. CASE TakenWhileWaiting
  <2>1. cmds' = Tail(cmds) /\ cmds # <<>>
    BY <1>2 DEF TakenWhileWaiting
  <2>2. \/ at' = "config" /\ delay' = 0
        \/ at' = at /\ delay' = delay
    BY <1>2 DEF TakenWhileWaiting
  <2>3. QED
    BY <1>1, <1>2, <2>1, <2>2 DEF TakenWhileWaiting, TypeOK
<1>3. CASE TakenWrite
  <2>1. PICK n \in Nodes, v \in Values : Head(cmds) = Write(n, v)
    BY <1>3 DEF TakenWrite, Writes
  <2>2. Head(cmds).node = n /\ Head(cmds).value = v
    BY <2>1 DEF Write
  <2>3. value' \in [Nodes -> Values]
    BY <1>3, <2>2 DEF TakenWrite, TypeOK
  <2>4. QED
    BY <1>1, <1>3, <2>3 DEF TakenWrite, TypeOK
<1>4. CASE TakenReadAll
  BY <1>1, <1>4 DEF TakenReadAll, Refresh, TypeOK
<1>5. CASE TakenReconnect
  BY <1>1, <1>5 DEF TakenReconnect, TypeOK
<1>6. ASSUME NEW cmd \in Commands, Put(cmd) PROVE TypeOK'
  <2>1. cmds' \in Seq(Commands) /\ Len(cmds') <= QueueCap
    BY <1>6, WorkerAssumption DEF Put, TypeOK, WorkerAssumption
  <2>2. QED
    BY <1>6, <2>1 DEF Put, TypeOK
<1>7. QED
  BY <1>2, <1>3, <1>4, <1>5, <1>6

LEMMA TypeServer ==
  TypeOK /\ (\/ \E i \in Item : Sampled(i) \/ Reported(i)
             \/ \E n \in Nodes, v \in Values : Moved(n, v)
             \/ Dropped \/ Returned) => TypeOK'
<1> SUFFICES ASSUME TypeOK,
                    \/ \E i \in Item : Sampled(i) \/ Reported(i)
                    \/ \E n \in Nodes, v \in Values : Moved(n, v)
                    \/ Dropped \/ Returned
             PROVE  TypeOK'
  OBVIOUS
<1> USE DEF TypeOK, server, link, sent, news
<1>1. ASSUME NEW i \in Item, Sampled(i) PROVE TypeOK'
  <2>1. value[i.node] \in Values
    BY DEF Item
  <2>2. QED
    BY <1>1, <2>1 DEF Sampled
<1>2. ASSUME NEW i \in Item, Reported(i) PROVE TypeOK'
  <2>1. told' \in [Nodes -> Values \cup {Unset}]
    BY <1>2 DEF Reported, Heard
  <2>2. /\ report' \in [Item -> Values \cup {Unset}]
        /\ from' \in [Nodes -> {"nothing", "snapshot", "report"}]
    BY <1>2 DEF Reported
  <2>3. QED
    BY <1>2, <2>1, <2>2 DEF Reported
<1>3. ASSUME NEW n \in Nodes, NEW v \in Values, Moved(n, v) PROVE TypeOK'
  <2>1. value' \in [Nodes -> Values]
    BY <1>3 DEF Moved
  <2>2. QED
    BY <1>3, <2>1 DEF Moved
<1>4. CASE Dropped
  BY <1>4 DEF Dropped, NoReport
<1>5. CASE Returned
  BY <1>5 DEF Returned
<1>6. QED
  BY <1>1, <1>2, <1>3, <1>4, <1>5

LEMMA TypeStep == TypeOK /\ [Next]_vars => TypeOK'
<1>1. TypeOK /\ UNCHANGED vars => TypeOK'
  BY DEF TypeOK, vars, server, link, sent, news
<1>2. QED
  BY <1>1, TypeConnect, TypeSnapshot, TypeCommands, TypeServer DEF Next, Worker

(* The worker keeps its types, for any nodes, queue, retry delay and faults*)
(* (run_opc_worker).                                                       *)
THEOREM TypeCorrect == Spec => []TypeOK
BY TypeInit, TypeStep, PTL DEF Spec

-----------------------------------------------------------------------------
LEMMA StatusStep == TypeOK /\ StatusFollowsLink /\ [Next]_vars => StatusFollowsLink'
<1> SUFFICES ASSUME TypeOK, StatusFollowsLink, [Next]_vars PROVE StatusFollowsLink'
  OBVIOUS
<1> USE DEF StatusFollowsLink, server, link, sent, news
<1>1. CASE ReadConfig
  BY <1>1 DEF ReadConfig, Announce
<1>2. CASE NoCredentials
  BY <1>2 DEF NoCredentials, Retry, Announce
<1>3. CASE Connected \/ ConnectFails \/ Validated \/ ValidationFails
  BY <1>3 DEF Connected, ConnectFails, Validated, ValidationFails, Retry
<1>4. CASE WaitEnds \/ TakenWhileWaiting
  BY <1>4 DEF WaitEnds, TakenWhileWaiting
<1>5. CASE Discover \/ SnapRead \/ SnapFails \/ SnapSend
  BY <1>5 DEF Discover, SnapRead, SnapFails, SnapSend
<1>6. CASE TakenWrite \/ TakenReadAll \/ TakenReconnect \/ PingFails
  BY <1>6 DEF TakenWrite, TakenReadAll, Refresh, TakenReconnect, PingFails, AfterPing
<1>7. ASSUME \/ \E i \in Item : Sampled(i) \/ Reported(i)
             \/ \E n \in Nodes, v \in Values : Moved(n, v)
             \/ Dropped \/ Returned \/ \E cmd \in Commands : Put(cmd)
             \/ UNCHANGED vars
      PROVE  StatusFollowsLink'
  <2>1. at' = at /\ plc' = plc /\ failures' = failures
    BY <1>7 DEF Sampled, Reported, Moved, Dropped, Returned, Put, vars
  <2>2. QED
    BY <2>1
<1>8. QED
  BY <1>1, <1>2, <1>3, <1>4, <1>5, <1>6, <1>7 DEF Next, Worker

(* The browsers are told of a connection exactly while the worker serves   *)
(* one, and a worker that serves has forgotten its failures: the PLC status*)
(* broadcasts and connect_failures of run_opc_worker.                      *)
THEOREM StatusIsHonest == Spec => []StatusFollowsLink
<1>1. Init => StatusFollowsLink
  BY DEF Init, StatusFollowsLink
<1>2. QED
  BY <1>1, TypeInit, TypeStep, StatusStep, PTL DEF Spec

-----------------------------------------------------------------------------
(* What makes OnlySnapshotsMislead inductive.  A report under way carries  *)
(* what its item remembers, or the item is new and remembers nothing.  What*)
(* a report told is vouched for by an item: it remembers nothing yet, is   *)
(* about to report, or remembers what was told.                            *)
Vouches(i) == last[i] = Unset \/ report[i] = last[i] \/ told[i.node] = last[i]

ReportInv ==
  /\ \A i \in Item : report[i] # Unset => last[i] = Unset \/ report[i] = last[i]
  /\ \A i \in Item : report[i] # Unset => i \in items
  /\ \A n \in Nodes :
       from[n] # "snapshot" /\ Of(n) # {} => \E i \in Of(n) : Vouches(i)

LEMMA VouchedIsKnown == TypeOK /\ ReportInv => OnlySnapshotsMislead
<1> SUFFICES ASSUME TypeOK, NEW n \in Nodes, Of(n) # {}, from[n] # "snapshot", ReportInv
             PROVE  Known(n)
  BY DEF OnlySnapshotsMislead
<1>1. PICK i \in Of(n) : Vouches(i)
  BY DEF ReportInv
<1>2. i \in items /\ i.node = n /\ value[n] # Unset
  BY WorkerAssumption DEF Of, TypeOK, WorkerAssumption
<1>3. QED
  BY <1>1, <1>2 DEF Vouches, Known, Due

(* Most steps change neither items nor what was reported or told.          *)
LEMMA ReportsKept ==
  ASSUME ReportInv, UNCHANGED <<items, last, report, told, from>>
  PROVE  ReportInv'
BY DEF ReportInv, Vouches, Of

LEMMA ReportsSampled == ASSUME TypeOK, ReportInv, NEW m \in Item, Sampled(m) PROVE ReportInv'
<1>1. /\ UNCHANGED <<items, told, from>> /\ m \in items
      /\ last' = [last EXCEPT ![m] = value[m.node]]
      /\ report' = [report EXCEPT ![m] = value[m.node]]
  BY DEF Sampled, Due, sent, news
<1>2. \A i \in Item : /\ last'[i] = IF i = m THEN value[m.node] ELSE last[i]
                      /\ report'[i] = IF i = m THEN value[m.node] ELSE report[i]
  BY <1>1 DEF TypeOK
<1>3. \A i \in Item : Vouches(i) => Vouches(i)'
  BY <1>1, <1>2 DEF Vouches
<1>4. \A n \in Nodes : Of(n)' = Of(n) /\ Of(n) \subseteq Item
  BY <1>1 DEF Of, TypeOK
<1>5. QED
  BY <1>1, <1>2, <1>3, <1>4 DEF ReportInv

(* What is told now is vouched for by the item that reported it.           *)
LEMMA ReportsTold == ASSUME TypeOK, ReportInv, NEW m \in Item, Reported(m) PROVE ReportInv'
<1>1. /\ UNCHANGED <<items, last>> /\ report[m] # Unset /\ m.node \in Nodes
      /\ told' = [told EXCEPT ![m.node] = report[m]]
      /\ from' = [from EXCEPT ![m.node] = "report"]
      /\ report' = [report EXCEPT ![m] = Unset]
  BY DEF Reported, Heard, Item
<1>2. \A i \in Item : report'[i] = IF i = m THEN Unset ELSE report[i]
  BY <1>1 DEF TypeOK
<1>3. \A n \in Nodes : /\ told'[n] = IF n = m.node THEN report[m] ELSE told[n]
                       /\ from'[n] = IF n = m.node THEN "report" ELSE from[n]
                       /\ Of(n)' = Of(n)
  BY <1>1 DEF TypeOK, Of
<1>4. m \in Of(m.node)' /\ Vouches(m)'
  BY <1>1, <1>3 DEF ReportInv, Vouches, Of
<1>5. ASSUME NEW n \in Nodes, n # m.node, from'[n] # "snapshot", Of(n)' # {}
      PROVE  \E i \in Of(n)' : Vouches(i)'
  <2>1. PICK i \in Of(n) : Vouches(i)
    BY <1>3, <1>5 DEF ReportInv
  <2>2. i \in Item /\ i.node = n /\ i # m
    BY <1>5 DEF Of, TypeOK
  <2>3. Vouches(i)'
    BY <1>1, <1>2, <1>3, <1>5, <2>1, <2>2 DEF Vouches
  <2>4. QED
    BY <1>3, <2>1, <2>3
<1>6. QED
  BY <1>1, <1>2, <1>4, <1>5 DEF ReportInv

(* A new subscription remembers nothing, so it vouches for every node it   *)
(* monitors.                                                               *)
LEMMA ReportsDiscovered == ASSUME TypeOK, ReportInv, Discover PROVE ReportInv'
<1>1. PICK new \in SUBSET Item :
        /\ items' = items \cup new
        /\ last' = [i \in Item |-> IF i \in new THEN Unset ELSE last[i]]
  BY NewItems
<1>2. UNCHANGED <<report, told, from>>
  BY DEF Discover, sent, news
<1>3. \A i \in Item : last'[i] = IF i \in new THEN Unset ELSE last[i]
  BY <1>1
<1>4. \A i \in Item : Vouches(i) => Vouches(i)'
  BY <1>2, <1>3 DEF Vouches
<1>5. ASSUME NEW n \in Nodes, from'[n] # "snapshot", Of(n)' # {}
      PROVE  \E i \in Of(n)' : Vouches(i)'
  <2>1. CASE Of(n) # {}
    <3>1. PICK i \in Of(n) : Vouches(i)
      BY <1>2, <1>5, <2>1 DEF ReportInv
    <3>2. i \in Item /\ i \in Of(n)'
      BY <1>1 DEF Of, TypeOK
    <3>3. QED
      BY <1>4, <3>1, <3>2
  <2>2. CASE Of(n) = {}
    <3>1. PICK i \in Of(n)' : TRUE
      BY <1>5
    <3>2. i \in new
      BY <1>1, <2>2, <3>1 DEF Of
    <3>3. Vouches(i)'
      BY <1>3, <3>2 DEF Vouches
    <3>4. QED
      BY <3>1, <3>3
  <2>3. QED
    BY <2>1, <2>2
<1>6. QED
  BY <1>1, <1>2, <1>3, <1>5 DEF ReportInv

LEMMA ReportsStep == TypeOK /\ ReportInv /\ [Next]_vars => ReportInv'
<1> SUFFICES ASSUME TypeOK, ReportInv, [Next]_vars PROVE ReportInv'
  OBVIOUS
<1> USE DEF server, link, sent, news
<1>1. CASE \/ ReadConfig \/ NoCredentials \/ Connected \/ ConnectFails
           \/ Validated \/ ValidationFails \/ WaitEnds \/ TakenWhileWaiting
           \/ SnapRead \/ SnapFails \/ TakenWrite \/ TakenReadAll \/ TakenReconnect
           \/ PingFails \/ Returned \/ (\E cmd \in Commands : Put(cmd))
           \/ (\E n \in Nodes, v \in Values : Moved(n, v)) \/ UNCHANGED vars
  <2>1. UNCHANGED <<items, last, report, told, from>>
    BY <1>1 DEF ReadConfig, NoCredentials, Connected, ConnectFails, Validated, ValidationFails,
       WaitEnds, TakenWhileWaiting, SnapRead, SnapFails, TakenWrite, TakenReadAll,
       TakenReconnect, PingFails, Returned, Put, Moved, vars
  <2>2. QED
    BY <2>1, ReportsKept
<1>2. CASE Discover
  BY <1>2, ReportsDiscovered
(* A snapshot tells of every node that it told.                            *)
<1>3. CASE SnapSend
  <2>1. /\ UNCHANGED <<items, last, report>>
        /\ \A n \in Nodes : from'[n] # "snapshot" => from'[n] = from[n] /\ told'[n] = told[n]
    BY <1>3 DEF SnapSend, TellAll, TypeOK
  <2>2. ASSUME NEW n \in Nodes, from'[n] # "snapshot", Of(n)' # {}
        PROVE  \E i \in Of(n)' : Vouches(i)'
    <3>1. PICK i \in Of(n) : Vouches(i)
      BY <2>1, <2>2 DEF ReportInv, Of
    <3>2. i.node = n /\ i \in Of(n)'
      BY <2>1 DEF Of
    <3>3. QED
      BY <2>1, <2>2, <3>1, <3>2 DEF Vouches
  <2>3. QED
    BY <2>1, <2>2 DEF ReportInv
<1>4. ASSUME NEW i \in Item, Sampled(i) PROVE ReportInv'
  BY <1>4, ReportsSampled
<1>5. ASSUME NEW i \in Item, Reported(i) PROVE ReportInv'
  BY <1>5, ReportsTold
<1>6. CASE Dropped
  BY <1>6 DEF Dropped, ReportInv, NoReport, Of
<1>7. QED
  BY <1>1, <1>2, <1>3, <1>4, <1>5, <1>6 DEF Next, Worker

(* Whatever the browsers show for good that is not the value, they have    *)
(* from a snapshot (read_and_broadcast); the subscription's callback, whose*)
(* items remember only what they reported last, never leaves them with an  *)
(* old value.                                                              *)
THEOREM SnapshotsAloneMislead == Spec => []OnlySnapshotsMislead
<1>1. Init => ReportInv
  BY DEF Init, ReportInv, NoReport, Of
<1>2. QED
  BY <1>1, TypeInit, TypeStep, ReportsStep, VouchedIsKnown, PTL DEF Spec
=============================================================================
