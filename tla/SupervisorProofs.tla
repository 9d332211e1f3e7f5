-------------------------- MODULE SupervisorProofs --------------------------
(***************************************************************************)
(* Theorems about Supervisor.  For any number of handlers and any faults:  *)
(* types, and that a controller listed as running is always watched.  With *)
(* one request at a time, a controller has one working engine.             *)
(***************************************************************************)
EXTENDS Supervisor, TLAPS

LEMMA NeutralValues ==
  /\ AnySlot \in Slots
  /\ NoReq \in ReqType /\ NoReq.at = "idle" /\ NoReq.pid = 0 /\ NoReq.slot = AnySlot
  /\ NoReq.settings = Keep
  /\ NotListed \in RecordType
  /\ NotListed.state = "Stopped"
  /\ MaxPid \in Nat
<1>1. AnySlot \in Slots /\ MaxPid \in Nat
  BY SupervisorAssumption DEF SupervisorAssumption, AnySlot
<1>2. NoReq \in ReqType
  BY <1>1 DEF NoReq, ReqType
<1>3. QED
  BY <1>1, <1>2 DEF NoReq, NotListed, RecordType

(* Engines that keep their slot and are not born or unborn by it.          *)
SameEngines ==
  /\ engine' \in [Pids -> EngineType]
  /\ \A p \in Pids : /\ engine'[p].slot = engine[p].slot
                     /\ engine'[p].life = "unborn" <=> engine[p].life = "unborn"

LEMMA OneEngineChanges ==
  ASSUME TypeOK, NEW q \in Pids, NEW e \in EngineType, e.slot = engine[q].slot,
         (e.life = "unborn") <=> (engine[q].life = "unborn"),
         engine' = [engine EXCEPT ![q] = e]
  PROVE  SameEngines
  BY DEF TypeOK, SameEngines

LEMMA TypeUnderSameEngines ==
  ASSUME TypeOK, SameEngines, UNCHANGED <<born, defaults, saved>>,
         record' \in [Slots -> RecordType],
         req' \in [Handlers -> ReqType],
         \A h \in Handlers : req'[h] = req[h] \/ req'[h] = NoReq
  PROVE  TypeOK'
<1>1. \A p \in Pids : engine'[p].life = "unborn" <=> p > born'
  BY DEF SameEngines, TypeOK
<1>2. ASSUME NEW h \in Handlers
      PROVE  /\ req'[h].at = "idle" => req'[h] = NoReq
             /\ req'[h].at \in {"store", "save"} => req'[h].settings \in Settings
             /\ IF req'[h].at \in {"try_wait", "record"}
                THEN req'[h].pid \in 1..born' /\ engine'[req'[h].pid].slot = req'[h].slot
                ELSE req'[h].pid = 0
  <2>1. CASE req'[h] = req[h]
    <3>1. req'[h].at \in {"try_wait", "record"} =>
            req'[h].pid \in Pids /\ req'[h].pid \in 1..born'
      BY <2>1, NeutralValues DEF TypeOK, Pids
    <3>2. QED
      BY <2>1, <3>1 DEF SameEngines, TypeOK
  <2>2. CASE req'[h] = NoReq
    BY <2>2, NeutralValues
  <2>3. QED
    BY <2>1, <2>2
<1>3. QED
  BY <1>1, <1>2 DEF SameEngines, TypeOK

LEMMA TypeInit == Init => TypeOK
<1> SUFFICES ASSUME Init PROVE TypeOK
  OBVIOUS
<1>1. \A p \in Pids : Unborn \in EngineType
  BY NeutralValues DEF Unborn, EngineType
<1>2. \A p \in Pids : engine[p].life = "unborn" /\ p > born
  BY NeutralValues DEF Init, Unborn, Pids
<1>3. QED
  BY <1>1, <1>2, NeutralValues DEF Init, TypeOK

LEMMA TypeStep == TypeOK /\ [Next]_vars => TypeOK'
<1> SUFFICES ASSUME TypeOK, [Next]_vars PROVE TypeOK'
  OBVIOUS
<1> USE NeutralValues
<1>1. ASSUME NEW h \in Handlers, NEW c \in Slots, NEW s \in Settings \cup {Keep},
             StartChecked(h, c, s)
      PROVE  TypeOK'
  BY <1>1, ZenonT(40) DEF StartChecked, TypeOK, ReqType
<1>2. ASSUME NEW h \in Handlers, StartResolved(h) PROVE TypeOK'
  BY <1>2, ZenonT(40) DEF StartResolved, TypeOK, ReqType
<1>3. ASSUME NEW h \in Handlers,
             StartRefused(h) \/ SpawnFails(h) \/ ExitedAtOnce(h)
      PROVE  TypeOK'
  BY <1>3 DEF StartRefused, SpawnFails, ExitedAtOnce, Finish, TypeOK
<1>4. ASSUME NEW h \in Handlers, StartStored(h) PROVE TypeOK'
  BY <1>4 DEF StartStored, Persisted, TypeOK, ReqType
<1>5. ASSUME NEW h \in Handlers, Spawned(h) PROVE TypeOK'
  BY <1>5 DEF Spawned, WatchedFrom, TypeOK, ReqType, Pids
<1>6. ASSUME NEW h \in Handlers, StillThere(h) PROVE TypeOK'
  BY <1>6 DEF StillThere, TypeOK, ReqType
<1>7. ASSUME NEW h \in Handlers, Recorded(h) PROVE TypeOK'
  <2>1. req[h].pid \in Pids /\ req[h].pid \in 0..MaxPid /\ req[h].slot \in Slots
    BY <1>7 DEF Recorded, TypeOK, ReqType, Pids
  <2>2. record' \in [Slots -> RecordType]
    BY <1>7, <2>1 DEF Recorded, TypeOK, RecordType
  <2>3. SameEngines
    <3> DEFINE q == req[h].pid
                e == [engine[q] EXCEPT !.watched = TRUE]
    <3>1. engine' = [engine EXCEPT ![q] = e]
      BY <1>7 DEF Recorded, WatchedFrom
    <3>2. e \in EngineType /\ e.slot = engine[q].slot /\ e.life = engine[q].life
      BY <2>1 DEF TypeOK, EngineType
    <3>3. QED
      BY <2>1, <3>1, <3>2, OneEngineChanges
  <2>4. /\ req' \in [Handlers -> ReqType] /\ UNCHANGED <<born, defaults, saved>>
        /\ \A g \in Handlers : req'[g] = req[g] \/ req'[g] = NoReq
    BY <1>7 DEF Recorded, Finish, TypeOK
  <2>5. QED
    BY <2>2, <2>3, <2>4, TypeUnderSameEngines
<1>8. ASSUME NEW h \in Handlers, NEW s \in Settings, SetInMemory(h, s) PROVE TypeOK'
  BY <1>8 DEF SetInMemory, TypeOK, ReqType
<1>9. ASSUME NEW h \in Handlers, SetInFile(h) PROVE TypeOK'
  BY <1>9 DEF SetInFile, Persisted, Finish, TypeOK
<1>10. ASSUME NEW c \in Slots, Stop(c) PROVE TypeOK'
  <2>1. record' \in [Slots -> RecordType]
    BY <1>10 DEF Stop, TypeOK, RecordType
  <2>2. SameEngines
    <3>1. PICK hit \in BOOLEAN :
            engine' = [engine EXCEPT ![record[c].pid].doomed = @ \/ (hit /\ Alive(record[c].pid))]
      BY <1>10 DEF Stop
    <3> DEFINE q == record[c].pid
                d == engine[q].doomed \/ (hit /\ Alive(q))
                e == [engine[q] EXCEPT !.doomed = d]
    <3>2. engine' = [engine EXCEPT ![q] = e]
      BY <3>1
    <3>3. CASE q \in Pids
      <4>1. d \in BOOLEAN
        BY Zenon
      <4>2. e \in EngineType /\ e.slot = engine[q].slot /\ e.life = engine[q].life
        BY <3>3, <4>1 DEF TypeOK, EngineType
      <4>3. QED
        BY <3>2, <3>3, <4>2, OneEngineChanges
    <3>4. CASE q \notin Pids
      BY <3>2, <3>4 DEF TypeOK, SameEngines
    <3>5. QED
      BY <3>3, <3>4
  <2>3. QED
    BY <1>10, <2>1, <2>2, TypeUnderSameEngines DEF Stop, TypeOK
<1>11. ASSUME NEW p \in Pids, Exits(p) PROVE TypeOK'
  <2>1. SameEngines
    BY <1>11 DEF Exits, Alive, TypeOK, EngineType, SameEngines
  <2>2. QED
    BY <1>11, <2>1, TypeUnderSameEngines DEF Exits, TypeOK
<1>12. ASSUME NEW p \in Pids, Watched(p) PROVE TypeOK'
  <2>1. record' \in [Slots -> RecordType]
    BY <1>12 DEF Watched, TypeOK, RecordType
  <2>2. SameEngines
    BY <1>12 DEF Watched, TypeOK, EngineType, SameEngines
  <2>3. QED
    BY <1>12, <2>1, <2>2, TypeUnderSameEngines DEF Watched, TypeOK
<1>13. CASE Restart
  <2>1. SameEngines
    BY <1>13 DEF Restart, TypeOK, EngineType, SameEngines
  <2>2. record' \in [Slots -> RecordType] /\ req' \in [Handlers -> ReqType]
    BY <1>13 DEF Restart
  <2>3. \A p \in Pids : engine'[p].life = "unborn" <=> p > born'
    BY <1>13, <2>1 DEF Restart, SameEngines, TypeOK
  <2>4. QED
    BY <1>13, <2>1, <2>2, <2>3 DEF Restart, TypeOK, SameEngines
<1>14. CASE UNCHANGED vars
  BY <1>14 DEF vars, TypeOK
<1>15. QED
  BY <1>1, <1>2, <1>3, <1>4, <1>5, <1>6, <1>7, <1>8, <1>9, <1>10, <1>11, <1>12, <1>13,
     <1>14 DEF Next, Start, Set

(* The table, the engines and the handlers keep their types, whatever the  *)
(* number of controllers, concurrent requests and engines, and the faults. *)
THEOREM TypeCorrect == Spec => []TypeOK
<1>1. QED
  BY TypeInit, TypeStep, PTL DEF Spec

-----------------------------------------------------------------------------
LEMMA WatchedInit == Init => RunningIsWatched
  BY NeutralValues DEF Init, RunningIsWatched

(* A step that takes nobody's watcher away, moves no engine and lists no   *)
(* other engine keeps the invariant.                                       *)
LEMMA WatchedKept ==
  ASSUME TypeOK, RunningIsWatched,
         \A c \in Slots : record'[c].state = "Running" => record'[c] = record[c],
         born' \in 0..MaxPid, born' >= born,
         \A p \in 1..born : /\ engine'[p].slot = engine[p].slot
                            /\ engine'[p].watched = engine[p].watched
  PROVE  RunningIsWatched'
  BY NeutralValues DEF RunningIsWatched, TypeOK

LEMMA WatchedStep == TypeOK /\ RunningIsWatched /\ [Next]_vars => RunningIsWatched'
<1> SUFFICES ASSUME TypeOK, RunningIsWatched, [Next]_vars PROVE RunningIsWatched'
  OBVIOUS
<1> USE NeutralValues
<1>1. CASE UNCHANGED <<record, engine, born>>
  BY <1>1 DEF RunningIsWatched
<1>2. ASSUME NEW h \in Handlers, Spawned(h) PROVE RunningIsWatched'
  <2>1. /\ record' = record /\ born' \in 0..MaxPid /\ born' >= born
        /\ \A p \in 1..born : engine'[p] = engine[p]
    BY <1>2 DEF Spawned, TypeOK, Pids
  <2>2. QED
    BY <2>1, WatchedKept
<1>3. ASSUME NEW h \in Handlers, Recorded(h) PROVE RunningIsWatched'
  <2> DEFINE q == req[h].pid
             d == req[h].slot
  <2>1. q \in 1..born /\ q \in Pids /\ d \in Slots /\ engine[q].slot = d
    BY <1>3 DEF Recorded, TypeOK, ReqType, Pids
  <2>2. engine' = [engine EXCEPT ![q] = [engine[q] EXCEPT !.watched = TRUE]]
    BY <1>3 DEF Recorded, WatchedFrom
  <2>3. engine'[q].watched /\ engine'[q].slot = d
    BY <2>1, <2>2 DEF TypeOK, EngineType
  <2>4. \A p \in Pids : p # q => engine'[p] = engine[p]
    BY <2>2 DEF TypeOK
  <2>5. record' = [record EXCEPT ![d] = [state |-> "Running", pid |-> q]] /\ born' = born
    BY <1>3 DEF Recorded
  <2>6. ASSUME NEW c \in Slots, record'[c].state = "Running"
        PROVE  /\ record'[c].pid \in 1..born' /\ engine'[record'[c].pid].slot = c
               /\ engine'[record'[c].pid].watched
    <3>1. CASE c = d
      BY <2>1, <2>3, <2>5, <3>1 DEF TypeOK
    <3>2. CASE c # d
      <4>1. record'[c] = record[c]
        BY <2>5, <3>2 DEF TypeOK
      <4>2. /\ record[c].pid \in 1..born /\ engine[record[c].pid].slot = c
            /\ engine[record[c].pid].watched
        BY <2>6, <4>1 DEF RunningIsWatched
      <4>3. record[c].pid \in Pids /\ record[c].pid # q
        BY <2>1, <3>2, <4>2 DEF TypeOK, Pids
      <4>4. QED
        BY <2>4, <2>5, <4>1, <4>2, <4>3
    <3>3. QED
      BY <3>1, <3>2
  <2>7. QED
    BY <2>6 DEF RunningIsWatched
<1>4. ASSUME NEW c \in Slots, Stop(c) PROVE RunningIsWatched'
  <2>1. \A d \in Slots : record'[d].state = "Running" => record'[d] = record[d]
    BY <1>4 DEF Stop, TypeOK, RecordType
  <2>2. \A p \in Pids : /\ engine'[p].slot = engine[p].slot
                       /\ engine'[p].watched = engine[p].watched
    BY <1>4 DEF Stop, TypeOK, EngineType
  <2>3. 1..born \subseteq Pids /\ born' = born
    BY <1>4 DEF Stop, TypeOK, Pids
  <2>4. QED
    BY <2>1, <2>2, <2>3, WatchedKept DEF TypeOK
<1>5. ASSUME NEW p \in Pids, Exits(p) PROVE RunningIsWatched'
  <2>1. \A q \in Pids : /\ engine'[q].slot = engine[q].slot
                       /\ engine'[q].watched = engine[q].watched
    BY <1>5 DEF Exits, TypeOK, EngineType
  <2>2. 1..born \subseteq Pids /\ born' = born /\ record' = record
    BY <1>5 DEF Exits, TypeOK, Pids
  <2>3. QED
    BY <2>1, <2>2, WatchedKept DEF TypeOK
<1>6. ASSUME NEW p \in Pids, Watched(p) PROVE RunningIsWatched'
  <2> DEFINE d == engine[p].slot
  <2>1. /\ born' = born
        /\ \A q \in Pids : engine'[q].slot = engine[q].slot
        /\ \A q \in Pids : q # p => engine'[q] = engine[q]
    BY <1>6 DEF Watched, TypeOK, EngineType
  <2>2. ASSUME NEW c \in Slots, record'[c].state = "Running"
        PROVE  record'[c] = record[c] /\ record[c].pid # p
    <3>1. record'[c] = record[c]
      BY <1>6, <2>2 DEF Watched, TypeOK, RecordType, EngineType
    <3>2. SUFFICES ASSUME record[c].pid = p PROVE FALSE
      BY <3>1
    <3>3. c = d /\ Running(c, p)
      BY <2>2, <3>1, <3>2 DEF RunningIsWatched, Running, TypeOK, RecordType
    <3>4. record'[c].state \in {"Stopped", "Failed"}
      BY <1>6, <3>3 DEF Watched, About, TypeOK, RecordType
    <3>5. QED
      BY <2>2, <3>4
  <2>3. QED
    BY <2>1, <2>2 DEF RunningIsWatched, TypeOK, Pids
<1>7. CASE Restart
  BY <1>7 DEF Restart, RunningIsWatched
<1>8. ASSUME NEW h \in Handlers, Start(h) \/ Set(h) PROVE RunningIsWatched'
  BY <1>1, <1>2, <1>3, <1>8 DEF Start, Set, StartChecked, StartResolved, StartRefused,
     StartStored, SpawnFails, ExitedAtOnce, StillThere, SetInMemory, SetInFile
<1>9. QED
  BY <1>1, <1>4, <1>5, <1>6, <1>7, <1>8 DEF Next, vars

(* Whatever starts, stops, exits and restarts interleave, a controller     *)
(* listed as running names an engine started for it whose watcher is still *)
(* to run (controller_host/src/main.rs, the task spawned by a start).      *)
THEOREM RunningAlwaysWatched == Spec => []RunningIsWatched
<1>1. QED
  BY WatchedInit, WatchedStep, TypeCorrect, PTL DEF Spec

(* A watcher never unseats an engine other than its own (the comparison of *)
(* process ids in the task spawned by a start).                            *)
THEOREM WatchersSpare == Spec => WatcherSpares
<1>1. ASSUME TypeOK, [Next]_vars, NEW c \in Slots, Unseated(c), ~Restart
      PROVE  ~Alive(record[c].pid) \/ Stop(c)
  <2>1. CASE \E h \in Handlers : Start(h) \/ Set(h)
    <3>1. PICK h \in Handlers : Start(h) \/ Set(h)
      BY <2>1
    <3>2. record' = record \/ Recorded(h)
      BY <3>1 DEF Start, Set, StartChecked, StartResolved, StartRefused, StartStored,
         Spawned, SpawnFails, ExitedAtOnce, StillThere, SetInMemory, SetInFile
    <3>3. record'[c].state = record[c].state \/ record'[c].state = "Running"
      <4>1. CASE record' = record
        BY <4>1
      <4>2. CASE Recorded(h)
        <5>1. record' = [record EXCEPT ![req[h].slot] = [state |-> "Running", pid |-> req[h].pid]]
          BY <4>2 DEF Recorded
        <5>2. CASE c = req[h].slot
          BY <5>1, <5>2 DEF TypeOK
        <5>3. CASE c # req[h].slot
          BY <5>1, <5>3 DEF TypeOK
        <5>4. QED
          BY <5>2, <5>3
      <4>3. QED
        BY <3>2, <4>1, <4>2
    <3>4. QED
      BY <1>1, <3>3 DEF Unseated
  <2>2. ASSUME NEW d \in Slots, Stop(d) PROVE Stop(c)
    <3>1. record'[c] # record[c]
      BY <1>1 DEF Unseated
    <3>2. c = d
      BY <2>2, <3>1 DEF Stop, TypeOK
    <3>3. QED
      BY <2>2, <3>2
  <2>3. ASSUME NEW p \in Pids, Watched(p) PROVE ~Alive(record[c].pid)
    <3>1. About(engine[p].slot, p) /\ c = engine[p].slot
      BY <1>1, <2>3 DEF Watched, Unseated, TypeOK
    <3>2. record[c].pid = p
      BY <3>1 DEF About, Running
    <3>3. QED
      BY <2>3, <3>2 DEF Watched, Alive
  <2>4. CASE (\E p \in Pids : Exits(p)) \/ UNCHANGED vars
    BY <1>1, <2>4 DEF Exits, vars, Unseated
  <2>5. QED
    BY <1>1, <2>1, <2>2, <2>3, <2>4 DEF Next
<1>2. TypeOK /\ [Next]_vars =>
        [\A c \in Slots : Unseated(c) /\ ~Restart => ~Alive(record[c].pid) \/ Stop(c)]_vars
  BY <1>1
<1>3. QED
  BY <1>2, TypeCorrect, PTL DEF Spec, WatcherSpares

-----------------------------------------------------------------------------
(* One request at a time, kills that are sent, a host that stays up.       *)
Serial ==
  /\ \A g, h \in Handlers : g = h
  /\ "kill" \notin Faults /\ "restart" \notin Faults

(* While a start is under way its controller is not listed as running.     *)
StartingNotListed ==
  \A h \in Handlers :
    req[h].at \in {"resolve", "store", "spawn", "try_wait", "record"} =>
      record[req[h].slot].state # "Running"

SerialInv == ServingIsManaged /\ StartingNotListed

LEMMA SerialImpliesOne == TypeOK /\ Serial /\ SerialInv => OneServing
<1> SUFFICES ASSUME TypeOK, Serial, SerialInv, NEW c \in Slots,
                    NEW p \in Serving(c), NEW q \in Serving(c)
             PROVE  p = q
  BY DEF OneServing
<1> DEFINE Pend(x) == \E h \in Handlers :
                        req[h].at \in {"try_wait", "record"} /\ req[h].pid = x
<1>1. (Running(c, p) \/ Pend(p)) /\ (Running(c, q) \/ Pend(q))
  BY DEF SerialInv, ServingIsManaged
<1>2. CASE Running(c, p) /\ Running(c, q)
  BY <1>2 DEF Running
<1>3. CASE Pend(p) /\ Pend(q)
  BY <1>3 DEF Serial
<1>4. ASSUME NEW x \in Serving(c), Pend(x) PROVE record[c].state # "Running"
  BY <1>4 DEF Serving, SerialInv, StartingNotListed, TypeOK
<1>5. QED
  BY <1>1, <1>2, <1>3, <1>4 DEF Running

LEMMA SerialInit == Init => SerialInv
  BY NeutralValues DEF Init, SerialInv, ServingIsManaged, StartingNotListed, Serving, Alive,
     Unborn

LEMMA ListedStep ==
  TypeOK /\ Serial /\ StartingNotListed /\ [Next]_vars => StartingNotListed'
<1> SUFFICES ASSUME TypeOK, Serial, StartingNotListed, [Next]_vars PROVE StartingNotListed'
  OBVIOUS
<1> USE NeutralValues
<1>1. ASSUME NEW h \in Handlers, NEW c \in Slots, NEW s \in Settings \cup {Keep},
             StartChecked(h, c, s)
      PROVE  StartingNotListed'
  BY <1>1 DEF StartChecked, MayStart, StartingNotListed, TypeOK, ReqType
<1>2. ASSUME NEW h \in Handlers,
             StartResolved(h) \/ StartStored(h) \/ Spawned(h) \/ StillThere(h)
      PROVE  StartingNotListed'
  BY <1>2 DEF StartResolved, StartStored, Spawned, StillThere, StartingNotListed, TypeOK, ReqType
<1>3. ASSUME NEW h \in Handlers,
             StartRefused(h) \/ SpawnFails(h) \/ ExitedAtOnce(h) \/ Recorded(h) \/ SetInFile(h)
      PROVE  StartingNotListed'
  <2>1. req' = [req EXCEPT ![h] = NoReq]
    BY <1>3 DEF StartRefused, SpawnFails, ExitedAtOnce, Recorded, SetInFile, Finish
  <2>2. \A g \in Handlers : req'[g].at = "idle"
    BY <2>1 DEF Serial, TypeOK
  <2>3. QED
    BY <2>2 DEF StartingNotListed
<1>4. ASSUME NEW h \in Handlers, NEW s \in Settings, SetInMemory(h, s)
      PROVE  StartingNotListed'
  BY <1>4 DEF SetInMemory, StartingNotListed, TypeOK, ReqType
<1>5. ASSUME NEW c \in Slots, Stop(c) PROVE StartingNotListed'
  <2>1. \A d \in Slots : record'[d].state = "Running" => record'[d] = record[d]
    BY <1>5 DEF Stop, TypeOK, RecordType
  <2>2. req' = req /\ \A h \in Handlers : req[h].slot \in Slots
    BY <1>5 DEF Stop, TypeOK, ReqType
  <2>3. QED
    BY <2>1, <2>2 DEF StartingNotListed
<1>6. ASSUME NEW p \in Pids, Watched(p) PROVE StartingNotListed'
  <2>1. \A d \in Slots : record'[d].state = "Running" => record'[d] = record[d]
    BY <1>6 DEF Watched, TypeOK, RecordType, EngineType
  <2>2. req' = req /\ \A h \in Handlers : req[h].slot \in Slots
    BY <1>6 DEF Watched, TypeOK, ReqType
  <2>3. QED
    BY <2>1, <2>2 DEF StartingNotListed
<1>7. CASE (\E p \in Pids : Exits(p)) \/ UNCHANGED vars
  BY <1>7 DEF Exits, vars, StartingNotListed
<1>8. QED
  BY <1>1, <1>2, <1>3, <1>4, <1>5, <1>6, <1>7 DEF Next, Start, Set, Restart, Serial

(* No engine starts serving, and each stays listed or pending.             *)
LEMMA ManagedKept ==
  ASSUME ServingIsManaged,
         \A c \in Slots : Serving(c)' \subseteq Serving(c),
         \A c \in Slots : \A p \in Serving(c)' : Running(c, p) => Running(c, p)',
         \A h \in Handlers, p \in Pids :
            /\ req[h].at \in {"try_wait", "record"} /\ req[h].pid = p
            /\ \E c \in Slots : p \in Serving(c)'
            => \/ req'[h].at \in {"try_wait", "record"} /\ req'[h].pid = p
               \/ \A c \in Slots : p \in Serving(c)' => Running(c, p)'
  PROVE  ServingIsManaged'
  BY DEF ServingIsManaged, Serving

LEMMA ManagedStep ==
  TypeOK /\ Serial /\ SerialInv /\ [Next]_vars => ServingIsManaged'
<1> SUFFICES ASSUME TypeOK, Serial, SerialInv, [Next]_vars PROVE ServingIsManaged'
  OBVIOUS
<1> USE NeutralValues DEF SerialInv
<1>1. CASE UNCHANGED <<record, engine, req>>
  BY <1>1 DEF ServingIsManaged, Serving, Running, Alive
<1>2. ASSUME NEW h \in Handlers, UNCHANGED <<record, engine>>,
             req[h].at \notin {"try_wait", "record"},
             \A g \in Handlers : g # h => req'[g] = req[g]
      PROVE  ServingIsManaged'
  <2>1. /\ \A c \in Slots : Serving(c)' = Serving(c)
        /\ \A c \in Slots : \A p \in Pids : Running(c, p)' <=> Running(c, p)
    BY <1>2 DEF Serving, Running, Alive
  <2>2. \A g \in Handlers : req[g].at \in {"try_wait", "record"} => req'[g] = req[g]
    BY <1>2
  <2>3. \A g \in Handlers, p \in Pids :
          req[g].at \in {"try_wait", "record"} /\ req[g].pid = p =>
          req'[g].at \in {"try_wait", "record"} /\ req'[g].pid = p
    BY <2>2
  <2>4. QED
    BY <2>1, <2>3 DEF ServingIsManaged, Serving
<1>3. ASSUME NEW h \in Handlers, NEW c \in Slots, NEW s \in Settings \cup {Keep},
             StartChecked(h, c, s) \/ StartResolved(h) \/ StartRefused(h) \/ StartStored(h)
             \/ SpawnFails(h)
      PROVE  ServingIsManaged'
  BY <1>2, <1>3 DEF StartChecked, StartResolved, StartRefused, StartStored, SpawnFails, Finish,
     TypeOK
<1>4. ASSUME NEW h \in Handlers, NEW s \in Settings, SetInMemory(h, s) \/ SetInFile(h)
      PROVE  ServingIsManaged'
  BY <1>2, <1>4 DEF SetInMemory, SetInFile, Finish, TypeOK
<1>5. ASSUME NEW h \in Handlers, Spawned(h) PROVE ServingIsManaged'
  <2> DEFINE q == born + 1
  <2>1. /\ q \in Pids /\ req'[h].at = "try_wait" /\ req'[h].pid = q
        /\ record' = record /\ \A p \in Pids : p # q => engine'[p] = engine[p]
    BY <1>5 DEF Spawned, TypeOK, ReqType, Pids
  <2>2. ASSUME NEW c \in Slots, NEW p \in Serving(c)', p # q PROVE Running(c, p)'
    <3>1. p \in Serving(c)
      BY <2>1, <2>2 DEF Serving, Alive
    <3>2. ~\E g \in Handlers : req[g].at \in {"try_wait", "record"}
      BY <1>5 DEF Spawned, Serial
    <3>3. QED
      BY <2>1, <3>1, <3>2 DEF ServingIsManaged, Running
  <2>3. QED
    BY <2>1, <2>2 DEF ServingIsManaged
<1>6. ASSUME NEW h \in Handlers, ExitedAtOnce(h) PROVE ServingIsManaged'
  <2>1. /\ UNCHANGED <<record, engine>> /\ ~Alive(req[h].pid)
        /\ \A g \in Handlers : g = h
    BY <1>6 DEF ExitedAtOnce, Serial
  <2>2. QED
    BY <2>1 DEF ServingIsManaged, Serving, Running, Alive
<1>7. ASSUME NEW h \in Handlers, StillThere(h) PROVE ServingIsManaged'
  <2>1. /\ UNCHANGED <<record, engine>>
        /\ req'[h].at = "record" /\ req'[h].pid = req[h].pid
        /\ \A g \in Handlers : g = h
    BY <1>7 DEF StillThere, Serial, TypeOK, ReqType
  <2>2. /\ \A c \in Slots : Serving(c)' = Serving(c)
        /\ \A c \in Slots : \A p \in Pids : Running(c, p)' <=> Running(c, p)
    BY <2>1 DEF Serving, Running, Alive
  <2>3. \A g \in Handlers, p \in Pids :
          req[g].at \in {"try_wait", "record"} /\ req[g].pid = p =>
          req'[g].at \in {"try_wait", "record"} /\ req'[g].pid = p
    BY <2>1
  <2>4. QED
    BY <2>2, <2>3 DEF ServingIsManaged, Serving
<1>8. ASSUME NEW h \in Handlers, Recorded(h) PROVE ServingIsManaged'
  <2> DEFINE q == req[h].pid
             d == req[h].slot
  <2>1. /\ q \in Pids /\ d \in Slots /\ engine[q].slot = d /\ record[d].state # "Running"
        /\ \A g \in Handlers : g = h
    BY <1>8 DEF Recorded, TypeOK, ReqType, Pids, StartingNotListed, Serial
  <2>2. \A p \in Pids : /\ engine'[p].life = engine[p].life
                       /\ engine'[p].slot = engine[p].slot
                       /\ engine'[p].doomed = engine[p].doomed
    BY <1>8, <2>1 DEF Recorded, TypeOK, EngineType
  <2>3. /\ record'[d] = [state |-> "Running", pid |-> q]
        /\ \A c \in Slots : c # d => record'[c] = record[c]
    BY <1>8, <2>1 DEF Recorded, TypeOK
  <2>4. ASSUME NEW c \in Slots, NEW p \in Serving(c)' PROVE Running(c, p)'
    <3>1. p \in Serving(c) /\ p \in Pids /\ engine[p].slot = c
      BY <2>2, <2>4 DEF Serving, Alive
    <3>2. Running(c, p) \/ p = q
      BY <2>1, <3>1 DEF ServingIsManaged
    <3>3. CASE p = q
      BY <2>1, <2>3, <3>1, <3>3 DEF Running
    <3>4. CASE Running(c, p)
      BY <2>1, <2>3, <3>4 DEF Running
    <3>5. QED
      BY <3>2, <3>3, <3>4
  <2>5. QED
    BY <2>4 DEF ServingIsManaged
<1>9. ASSUME NEW c \in Slots, Stop(c) PROVE ServingIsManaged'
  <2> DEFINE q == record[c].pid
  <2>1. /\ req' = req /\ \A d \in Slots : d # c => record'[d] = record[d]
    BY <1>9 DEF Stop, TypeOK
  <2>2. engine' = [engine EXCEPT ![q].doomed = @ \/ (TRUE /\ Alive(q))]
    BY <1>9 DEF Stop, Serial
  <2>3. \A p \in Pids : p # q => engine'[p] = engine[p]
    BY <2>2 DEF TypeOK
  <2>4. q \in Pids => engine'[q].life = engine[q].life
    BY <2>2 DEF TypeOK, EngineType
  <2>5. q \in Pids /\ Alive(q) => engine'[q].doomed
    BY <2>2 DEF TypeOK, EngineType
  <2>6. ASSUME NEW d \in Slots, NEW p \in Serving(d)' PROVE p # q
    <3>1. p \in Pids /\ engine'[p].life = "alive"
      BY <2>6 DEF Serving, Alive
    <3>2. ~engine'[p].doomed
      BY <2>6, Zenon DEF Serving
    <3>3. SUFFICES ASSUME p = q PROVE FALSE
      OBVIOUS
    <3>4. Alive(q)
      BY <2>4, <3>1, <3>3 DEF Alive
    <3>5. QED
      BY <2>5, <3>1, <3>2, <3>3, <3>4, Zenon
  <2>7. \A d \in Slots : Serving(d)' \subseteq Serving(d)
    <3>1. ASSUME NEW d \in Slots, NEW p \in Serving(d)' PROVE p \in Serving(d)
      BY <2>3, <2>6, <3>1 DEF Serving, Alive
    <3>2. QED
      BY <3>1
  <2>8. ASSUME NEW d \in Slots, NEW p \in Serving(d)', Running(d, p) PROVE Running(d, p)'
    <3>1. d # c
      BY <2>6, <2>8 DEF Running
    <3>2. QED
      BY <2>1, <2>8, <3>1 DEF Running
  <2>9. QED
    BY <2>1, <2>7, <2>8, ManagedKept
<1>10. ASSUME NEW p \in Pids, Exits(p) PROVE ServingIsManaged'
  <2>1. /\ UNCHANGED <<record, req>>
        /\ \A q \in Pids : /\ engine'[q].life = "alive" => engine[q].life = "alive"
                           /\ engine'[q].slot = engine[q].slot
                           /\ engine'[q].doomed = engine[q].doomed
    BY <1>10 DEF Exits, TypeOK, EngineType
  <2>2. \A d \in Slots : Serving(d)' \subseteq Serving(d)
    BY <2>1 DEF Serving, Alive
  <2>3. QED
    BY <2>1, <2>2, ManagedKept DEF Running
<1>11. ASSUME NEW p \in Pids, Watched(p) PROVE ServingIsManaged'
  <2>1. /\ req' = req /\ engine[p].life = "dead"
        /\ \A q \in Pids : /\ engine'[q].life = engine[q].life
                           /\ engine'[q].slot = engine[q].slot
                           /\ engine'[q].doomed = engine[q].doomed
    BY <1>11 DEF Watched, TypeOK, EngineType
  <2>2. \A d \in Slots : Serving(d)' \subseteq Serving(d)
    BY <2>1 DEF Serving, Alive
  <2>3. ASSUME NEW d \in Slots, NEW q \in Serving(d)', Running(d, q) PROVE Running(d, q)'
    <3>1. q # p
      BY <2>1, <2>3 DEF Serving, Alive
    <3>2. record'[d] = record[d]
      BY <1>11, <2>3, <3>1 DEF Watched, About, Running, TypeOK, EngineType
    <3>3. QED
      BY <2>3, <3>2 DEF Running
  <2>4. QED
    BY <2>1, <2>2, <2>3, ManagedKept
<1>12. QED
  BY <1>1, <1>3, <1>4, <1>5, <1>6, <1>7, <1>8, <1>9, <1>10, <1>11, SupervisorAssumption
     DEF Next, Start, Set, Restart, Serial, vars, SupervisorAssumption

(* What a state satisfies while requests do not overlap.                   *)
SlotInv == TypeOK /\ RunningIsWatched /\ SerialInv /\ OneServing

LEMMA SlotInvAlways ==
  ASSUME Serial
  PROVE  Spec => []SlotInv
<1>1. Init => TypeOK /\ RunningIsWatched /\ SerialInv
  BY TypeInit, WatchedInit, SerialInit
<1>2. TypeOK /\ RunningIsWatched /\ SerialInv /\ [Next]_vars
        => (TypeOK /\ RunningIsWatched /\ SerialInv)'
  BY Serial, TypeStep, WatchedStep, ListedStep, ManagedStep DEF SerialInv
<1>3. TypeOK /\ RunningIsWatched /\ SerialInv => SlotInv
  BY Serial, SerialImpliesOne DEF SlotInv
<1>4. QED
  BY <1>1, <1>2, <1>3, PTL DEF Spec

(* One request at a time, a controller has one working engine at most: the *)
(* check of start_controller under the first lock still holds when the     *)
(* engine is recorded under the second.                                    *)
THEOREM SerialStarts ==
  ASSUME Serial
  PROVE  Spec => []OneServing
<1>1. SlotInv => OneServing
  BY DEF SlotInv
<1>2. QED
  BY <1>1, Serial, SlotInvAlways, PTL

(* One request at a time, a working engine is listed or the request that   *)
(* spawned it is about to list it: none is left running unmanaged.         *)
THEOREM SerialManaged ==
  ASSUME Serial
  PROVE  Spec => []ServingIsManaged
<1>1. SlotInv => ServingIsManaged
  BY DEF SlotInv, SerialInv
<1>2. QED
  BY <1>1, Serial, SlotInvAlways, PTL

-----------------------------------------------------------------------------
(* The controller host implements ControllerSlot when requests do not      *)
(* overlap.  What the refinement shows of a state:                         *)
Shown  == [c \in Slots |-> record[c].state]
Phases == [c \in Slots |-> Phase(c)]

(* The phase of a controller whose start is under way, and of any other.   *)
LEMMA PhasePending ==
  ASSUME Serial, NEW c \in Slots, NEW h \in Pending(c)
  PROVE  Phase(c) = IF req[h].pid \in Serving(c) THEN "new" ELSE "lost"
  BY DEF Serial, Pending, Phase

LEMMA PhaseSettled ==
  ASSUME NEW c \in Slots, Pending(c) = {}
  PROVE  Phase(c) = IF Serving(c) # {} THEN "known" ELSE "none"
  BY DEF Phase

LEMMA PhaseSame ==
  ASSUME NEW c \in Slots, Serving(c)' = Serving(c), Pending(c)' = Pending(c),
         \A h \in Pending(c) : req'[h].pid = req[h].pid
  PROVE  Phase(c)' = Phase(c)
  BY DEF Phase

(* A step that changes one controller is an abstract step of it.           *)
LEMMA OneSlotBecomes ==
  ASSUME NEW c \in Slots, NEW state, NEW next,
         record'[c].state = state, Phase(c)' = next,
         \A d \in Slots : d # c => record'[d].state = record[d].state /\ Phase(d)' = Phase(d)
  PROVE  Slot!Becomes(c, state, next)
<1>1. Shown' = [Shown EXCEPT ![c] = state]
  BY DEF Shown
<1>2. Phases' = [Phases EXCEPT ![c] = next]
  BY DEF Phases
<1>3. QED
  BY <1>1, <1>2 DEF Slot!Becomes, Shown, Phases

LEMMA NoSlotChanges ==
  ASSUME \A d \in Slots : record'[d].state = record[d].state /\ Phase(d)' = Phase(d)
  PROVE  UNCHANGED Slot!vars
  BY DEF Slot!vars

(* While a start is under way, no engine of its controller works but the   *)
(* one it has started.                                                     *)
LEMMA StartingAlone ==
  ASSUME Serial, SlotInv, NEW h \in Handlers,
         req[h].at \in {"spawn", "try_wait", "record"},
         NEW p \in Serving(req[h].slot)
  PROVE  req[h].at \in {"try_wait", "record"} /\ p = req[h].pid
<1> DEFINE d == req[h].slot
<1>1. d \in Slots /\ p \in Serving(d)
  BY DEF SlotInv, TypeOK, ReqType
<1>2. ~Running(d, p)
  BY DEF SlotInv, SerialInv, StartingNotListed, Running
<1> HIDE DEF d
<1>3. \E g \in Handlers : req[g].at \in {"try_wait", "record"} /\ req[g].pid = p
  BY <1>1, <1>2 DEF SlotInv, SerialInv, ServingIsManaged
<1>4. QED
  BY <1>3 DEF Serial

(* A controller listed as running has no start under way, and no engine    *)
(* that works but the one listed.                                          *)
LEMMA ListedAlone ==
  ASSUME SlotInv, NEW c \in Slots, record[c].state = "Running"
  PROVE  Pending(c) = {} /\ Serving(c) \subseteq {record[c].pid}
<1>1. Pending(c) = {}
  BY DEF Pending, SlotInv, SerialInv, StartingNotListed
<1>2. ASSUME NEW p \in Serving(c) PROVE p = record[c].pid
  <2>1. CASE Running(c, p)
    BY <2>1 DEF Running
  <2>2. ASSUME NEW g \in Handlers, req[g].at \in {"try_wait", "record"}, req[g].pid = p
        PROVE  FALSE
    <3>1. req[g].slot = c
      BY <1>2, <2>2 DEF Serving, SlotInv, TypeOK
    <3>2. QED
      BY <1>1, <2>2, <3>1 DEF Pending
  <2>3. QED
    BY <1>2, <2>1, <2>2 DEF SlotInv, SerialInv, ServingIsManaged
<1>3. QED
  BY <1>1, <1>2

(* Requests that neither start nor list an engine.                         *)
LEMMA QuietRequest ==
  ASSUME UNCHANGED <<record, engine>>, NEW h \in Handlers,
         req[h].at \notin {"try_wait", "record"}, req'[h].at \notin {"try_wait", "record"},
         \A g \in Handlers : g # h => req'[g] = req[g]
  PROVE  UNCHANGED Slot!vars
<1>1. ASSUME NEW c \in Slots PROVE Phase(c)' = Phase(c)
  <2>1. Serving(c)' = Serving(c)
    BY DEF Serving, Alive
  <2>2. Pending(c)' = Pending(c) /\ \A g \in Pending(c) : req'[g] = req[g]
    BY DEF Pending
  <2>3. QED
    BY <2>1, <2>2, PhaseSame
<1>2. QED
  BY <1>1, NoSlotChanges

(* Serving sets follow the engines; of an engine they see whether it lives,*)
(* whose it is and whether it was told to stop.                            *)
LEMMA ServingSame ==
  ASSUME \A p \in Pids : /\ engine'[p].life = "alive" <=> engine[p].life = "alive"
                         /\ engine'[p].slot = engine[p].slot
                         /\ engine'[p].doomed = engine[p].doomed
  PROVE  \A c \in Slots : Serving(c)' = Serving(c)
  BY DEF Serving, Alive

(* Requests that have an engine, and no other requests: the pending ones.  *)
LEMMA PendingSame ==
  ASSUME UNCHANGED req, NEW c \in Slots, Serving(c)' = Serving(c)
  PROVE  Phase(c)' = Phase(c)
<1>1. Pending(c)' = Pending(c)
  BY DEF Pending
<1>2. QED
  BY <1>1, PhaseSame

(* A step of the only request leaves the other controllers alone when it   *)
(* leaves their listed state and their engines alone.                      *)
LEMMA OthersSame ==
  ASSUME Serial, NEW h \in Handlers, req'[h].slot = req[h].slot \/ req'[h].at = "idle",
         NEW d \in Slots, d # req[h].slot, Serving(d)' = Serving(d)
  PROVE  Phase(d)' = Phase(d)
<1>1. Pending(d) = {} /\ Pending(d)' = {}
  BY DEF Pending, Serial
<1>2. QED
  BY <1>1 DEF Phase

LEMMA SlotInit == Init => Slot!Init
<1> SUFFICES ASSUME Init PROVE Slot!Init
  OBVIOUS
<1>1. ASSUME NEW c \in Slots PROVE record[c].state = "Stopped" /\ Phase(c) = "none"
  <2>1. record[c].state = "Stopped"
    BY DEF Init, NotListed
  <2>2. Pending(c) = {}
    BY NeutralValues DEF Init, Pending
  <2>3. Serving(c) = {}
    BY DEF Init, Unborn, Serving, Alive
  <2>4. QED
    BY <2>1, <2>2, <2>3, PhaseSettled
<1>2. QED
  BY <1>1 DEF Slot!Init

(* A spawned engine: Launch.                                               *)
LEMMA SpawnedLaunches ==
  ASSUME Serial, SlotInv, NEW h \in Handlers, Spawned(h)
  PROVE  \E c \in Slots : Slot!Launch(c)
<1> PICK c \in Slots, q \in Pids, s \in RecordType :
      c = req[h].slot /\ q = born + 1 /\ s = record[c]
  BY DEF Spawned, SlotInv, TypeOK, ReqType, Pids
<1>1. /\ record' = record
      /\ req[h].at = "spawn"
      /\ req'[h].at = "try_wait" /\ req'[h].pid = q /\ req'[h].slot = c
  BY DEF Spawned, SlotInv, TypeOK, ReqType
<1>2. /\ engine'[q].life = "alive" /\ engine'[q].slot = c /\ ~engine'[q].doomed
      /\ \A p \in Pids : p # q => engine'[p] = engine[p]
      /\ engine[q].life # "alive"
  BY DEF Spawned, SlotInv, TypeOK, EngineType
<1>3. s.state # "Running"
  BY <1>1 DEF SlotInv, SerialInv, StartingNotListed
<1>4. Serving(c) = {}
  BY <1>1, StartingAlone
<1>5. Pending(c) = {}
  BY <1>1 DEF Pending, Serial
<1>6. Phase(c) = "none"
  BY <1>4, <1>5, PhaseSettled
<1>7. Phase(c)' = "new"
  <2>1. q \in Serving(c)'
    BY <1>2, Zenon DEF Serving, Alive
  <2>2. h \in Pending(c)'
    BY <1>1 DEF Pending
  <2>3. QED
    BY <1>1, <2>1, <2>2 DEF Phase
<1>8. ASSUME NEW d \in Slots, d # c PROVE Phase(d)' = Phase(d)
  <2>1. Serving(d)' = Serving(d)
    BY <1>2, <1>8 DEF Serving, Alive
  <2>2. QED
    BY <1>1, <1>8, <2>1, OthersSame
<1>9. Slot!Becomes(c, s.state, "new")
  BY <1>1, <1>7, <1>8, OneSlotBecomes
<1>10. Slot!Launch(c)
  BY <1>3, <1>6, <1>9 DEF Slot!Launch
<1>11. QED
  BY <1>10

(* An engine found dead at once: GiveUp.                                   *)
LEMMA ExitedGivesUp ==
  ASSUME Serial, SlotInv, NEW h \in Handlers, ExitedAtOnce(h)
  PROVE  \E c \in Slots : Slot!GiveUp(c)
<1> PICK c \in Slots, s \in RecordType : c = req[h].slot /\ s = record[c]
  BY DEF SlotInv, TypeOK, ReqType
<1>1. /\ record' = record /\ engine' = engine
      /\ req[h].at = "try_wait" /\ req'[h].at = "idle" /\ ~Alive(req[h].pid)
  BY NeutralValues DEF ExitedAtOnce, Finish, SlotInv, TypeOK, ReqType
<1>2. \A d \in Slots : Serving(d)' = Serving(d)
  BY <1>1 DEF Serving, Alive
<1>3. Serving(c) = {}
  <2>1. ASSUME NEW p \in Serving(c) PROVE FALSE
    <3>1. p = req[h].pid
      BY <1>1, <2>1, StartingAlone
    <3>2. Alive(p)
      BY <2>1 DEF Serving
    <3>3. QED
      BY <1>1, <3>1, <3>2
  <2>2. QED
    BY <2>1
<1>4. h \in Pending(c)
  BY <1>1 DEF Pending
<1>5. Phase(c) = "lost"
  BY <1>1, <1>3, <1>4, PhasePending
<1>6. Phase(c)' = "none"
  <2>1. Pending(c)' = {} /\ Serving(c)' = {}
    BY <1>1, <1>2, <1>3 DEF Pending, Serial
  <2>2. QED
    BY <2>1 DEF Phase
<1>7. ASSUME NEW d \in Slots, d # c PROVE Phase(d)' = Phase(d)
  BY <1>1, <1>2, <1>7, OthersSame
<1>8. Slot!Becomes(c, s.state, "none")
  BY <1>1, <1>6, <1>7, OneSlotBecomes
<1>9. Slot!GiveUp(c)
  BY <1>5, <1>8 DEF Slot!GiveUp
<1>10. QED
  BY <1>9

(* An engine recorded, whether it works still or has ended: Announce.      *)
LEMMA RecordedAnnounces ==
  ASSUME Serial, SlotInv, NEW h \in Handlers, Recorded(h)
  PROVE  \E c \in Slots : Slot!Announce(c)
<1> PICK c \in Slots, q \in Pids : c = req[h].slot /\ q = req[h].pid
  BY DEF Recorded, SlotInv, TypeOK, ReqType, Pids
<1>1. req[h].at = "record" /\ req'[h].at = "idle"
  BY NeutralValues DEF Recorded, Finish, SlotInv, TypeOK, ReqType
<1>2. /\ record'[c].state = "Running"
      /\ \A d \in Slots : d # c => record'[d].state = record[d].state
  BY DEF Recorded, SlotInv, TypeOK
<1>3. \A d \in Slots : Serving(d)' = Serving(d)
  <2>1. \A p \in Pids : /\ engine'[p].life = "alive" <=> engine[p].life = "alive"
                        /\ engine'[p].slot = engine[p].slot
                        /\ engine'[p].doomed = engine[p].doomed
    BY DEF Recorded, SlotInv, TypeOK, EngineType
  <2>2. QED
    BY <2>1, ServingSame
<1>4. h \in Pending(c)
  BY <1>1 DEF Pending
<1>5. Serving(c) \subseteq {q}
  BY <1>1, StartingAlone
<1>6. Pending(c)' = {}
  BY <1>1 DEF Pending, Serial
<1>7. ASSUME NEW d \in Slots, d # c PROVE Phase(d)' = Phase(d)
  BY <1>1, <1>3, <1>7, OthersSame
<1>8. CASE q \in Serving(c)
  <2>1. Phase(c) = "new"
    BY <1>4, <1>8, PhasePending
  <2>2. Serving(c)' # {}
    BY <1>3, <1>8
  <2>3. Phase(c)' = "known"
    BY <1>6, <2>2 DEF Phase
  <2>4. Slot!Becomes(c, "Running", "known")
    BY <1>2, <1>7, <2>3, OneSlotBecomes
  <2>5. QED
    BY <2>1, <2>4 DEF Slot!Announce
<1>9. CASE q \notin Serving(c)
  <2>1. Phase(c) = "lost"
    BY <1>4, <1>9, PhasePending
  <2>2. Serving(c)' = {}
    BY <1>3, <1>5, <1>9
  <2>3. Phase(c)' = "none"
    BY <1>6, <2>2 DEF Phase
  <2>4. Slot!Becomes(c, "Running", "none")
    BY <1>2, <1>7, <2>3, OneSlotBecomes
  <2>5. QED
    BY <2>1, <2>4 DEF Slot!Announce
<1>10. QED
  BY <1>8, <1>9

(* A stop whose kill is sent: Retire.                                      *)
LEMMA StopRetires ==
  ASSUME Serial, SlotInv, NEW c \in Slots, Stop(c)
  PROVE  Slot!Retire(c)
<1>1. record[c].state = "Running" /\ UNCHANGED req
  BY DEF Stop
<1> PICK q \in Pids : q = record[c].pid /\ engine[q].slot = c
  BY <1>1, NeutralValues DEF SlotInv, RunningIsWatched, TypeOK, Pids
<1>2. engine' = [engine EXCEPT ![q].doomed = @ \/ Alive(q)]
  BY DEF Stop, Serial
<1>3. /\ \A p \in Pids : p # q => engine'[p] = engine[p]
      /\ engine'[q].life = engine[q].life /\ engine'[q].slot = c
  BY <1>2 DEF SlotInv, TypeOK, EngineType
<1>4. Alive(q) => engine'[q].doomed
  BY <1>2 DEF SlotInv, TypeOK, EngineType
<1>5. /\ record'[c].state = "Stopped"
      /\ \A d \in Slots : d # c => record'[d].state = record[d].state
  BY DEF Stop, SlotInv, TypeOK, RecordType
<1>6. Pending(c) = {} /\ Serving(c) \subseteq {q}
  BY <1>1, ListedAlone
<1>7. Phase(c) \in {"known", "none"}
  BY <1>6, PhaseSettled
<1>8. Phase(c)' = "none"
  <2>1. q \notin Serving(c)'
    BY <1>3, <1>4, Zenon DEF Serving, Alive
  <2>2. \A p \in Serving(c)' : p # q => p \in Serving(c)
    BY <1>3 DEF Serving, Alive
  <2>3. Serving(c)' = {} /\ Pending(c)' = {}
    BY <1>1, <1>6, <2>1, <2>2 DEF Pending
  <2>4. QED
    BY <2>3 DEF Phase
<1>9. ASSUME NEW d \in Slots, d # c PROVE Phase(d)' = Phase(d)
  <2>1. Serving(d)' = Serving(d)
    BY <1>3, <1>9 DEF Serving, Alive
  <2>2. QED
    BY <1>1, <2>1, PendingSame
<1>10. Slot!Becomes(c, "Stopped", "none")
  BY <1>5, <1>8, <1>9, OneSlotBecomes
<1>11. QED
  BY <1>1, <1>7, <1>10 DEF Slot!Retire

(* An engine ends: Ends for the controller it works for, and nothing when  *)
(* it was told to stop.                                                    *)
LEMMA ExitsEnds ==
  ASSUME Serial, SlotInv, NEW p \in Pids, Exits(p)
  PROVE  (\E c \in Slots : Slot!Ends(c)) \/ UNCHANGED Slot!vars
<1> PICK c \in Slots, s \in RecordType : c = engine[p].slot /\ s = record[c]
  BY DEF SlotInv, TypeOK, EngineType
<1>1. UNCHANGED <<record, req>>
  BY DEF Exits
<1>2. /\ \A q \in Pids : q # p => engine'[q] = engine[q]
      /\ engine'[p].life = "dead" /\ engine'[p].slot = c
      /\ engine'[p].doomed = engine[p].doomed
  BY DEF Exits, SlotInv, TypeOK, EngineType
<1>3. ASSUME NEW d \in Slots, p \notin Serving(d) PROVE Phase(d)' = Phase(d)
  <2>1. Serving(d)' = Serving(d)
    BY <1>2, <1>3 DEF Serving, Alive
  <2>2. QED
    BY <1>1, <2>1, PendingSame
<1>4. CASE p \notin Serving(c)
  <2>1. \A d \in Slots : p \notin Serving(d)
    BY <1>4 DEF Serving
  <2>2. QED
    BY <1>1, <1>3, <2>1, NoSlotChanges
<1>5. CASE p \in Serving(c)
  <2>1. \A d \in Slots : d # c => Phase(d)' = Phase(d)
    BY <1>3 DEF Serving
  <2>2. p \notin Serving(c)' /\ Serving(c)' \subseteq Serving(c)
    BY <1>2 DEF Serving, Alive
  <2>3. Pending(c)' = Pending(c)
    BY <1>1 DEF Pending
  <2>4. ASSUME NEW h \in Pending(c) PROVE Slot!Ends(c)
    <3>1. Serving(c) \subseteq {req[h].pid}
      BY <2>4, StartingAlone DEF Pending
    <3>2. req[h].pid = p
      BY <1>5, <3>1
    <3>3. Phase(c) = "new"
      BY <1>5, <2>4, <3>2, PhasePending
    <3>4. Phase(c)' = "lost"
      <4>1. h \in Pending(c)' /\ Serving(c)' = {}
        BY <2>2, <2>3, <2>4, <3>1, <3>2
      <4>2. QED
        BY <4>1 DEF Phase
    <3>5. Slot!Becomes(c, s.state, "lost")
      BY <1>1, <2>1, <3>4, OneSlotBecomes
    <3>6. QED
      BY <3>3, <3>5 DEF Slot!Ends
  <2>5. CASE Pending(c) = {}
    <3>1. ASSUME NEW g \in Handlers, req[g].at \in {"try_wait", "record"}, req[g].pid = p
          PROVE  FALSE
      BY <2>5, <3>1 DEF Pending, SlotInv, TypeOK
    <3>2. Running(c, p)
      BY <1>5, <3>1 DEF SlotInv, SerialInv, ServingIsManaged
    <3>3. Serving(c) \subseteq {p}
      BY <3>2, ListedAlone DEF Running
    <3>4. Phase(c) = "known"
      BY <1>5, <2>5, PhaseSettled
    <3>5. Phase(c)' = "none"
      <4>1. Pending(c)' = {} /\ Serving(c)' = {}
        BY <2>2, <2>3, <2>5, <3>3
      <4>2. QED
        BY <4>1 DEF Phase
    <3>6. Slot!Becomes(c, s.state, "none")
      BY <1>1, <2>1, <3>5, OneSlotBecomes
    <3>7. QED
      BY <3>4, <3>6 DEF Slot!Ends
  <2>6. QED
    BY <2>4, <2>5
<1>6. QED
  BY <1>4, <1>5

(* The watcher of an engine: Notice when the record is about that engine.  *)
LEMMA WatchedNotices ==
  ASSUME Serial, SlotInv, NEW p \in Pids, Watched(p)
  PROVE  (\E c \in Slots : Slot!Notice(c)) \/ UNCHANGED Slot!vars
<1> PICK c \in Slots : c = engine[p].slot
  BY DEF SlotInv, TypeOK, EngineType
<1>1. UNCHANGED req /\ engine[p].life = "dead"
  BY DEF Watched
<1>2. \A d \in Slots : Serving(d)' = Serving(d)
  <2>1. \A q \in Pids : /\ engine'[q].life = "alive" <=> engine[q].life = "alive"
                        /\ engine'[q].slot = engine[q].slot
                        /\ engine'[q].doomed = engine[q].doomed
    BY DEF Watched, SlotInv, TypeOK, EngineType
  <2>2. QED
    BY <2>1, ServingSame
<1>3. \A d \in Slots : Phase(d)' = Phase(d)
  BY <1>1, <1>2, PendingSame
<1>4. CASE ~About(c, p)
  <2>1. record' = record
    BY <1>4 DEF Watched
  <2>2. QED
    BY <1>3, <2>1, NoSlotChanges
<1>5. CASE About(c, p)
  <2>1. PICK state \in {"Stopped", "Failed"} : record' = [record EXCEPT ![c].state = state]
    BY <1>5 DEF Watched
  <2>2. record[c].state = "Running" /\ record[c].pid = p
    BY <1>5 DEF About, Running
  <2>3. Pending(c) = {} /\ Serving(c) = {}
    <3>1. Pending(c) = {} /\ Serving(c) \subseteq {p}
      BY <2>2, ListedAlone
    <3>2. p \notin Serving(c)
      BY <1>1 DEF Serving, Alive
    <3>3. QED
      BY <3>1, <3>2
  <2>4. Phase(c) = "none"
    BY <2>3, PhaseSettled
  <2>5. /\ record'[c].state = state
        /\ \A d \in Slots : d # c => record'[d].state = record[d].state
    BY <2>1 DEF SlotInv, TypeOK, RecordType
  <2>6. Phase(c)' = "none"
    BY <1>3, <2>4
  <2>7. Slot!Becomes(c, state, "none")
    BY <1>3, <2>5, <2>6, OneSlotBecomes
  <2>8. QED
    BY <2>2, <2>4, <2>7 DEF Slot!Notice
<1>6. QED
  BY <1>4, <1>5

LEMMA SlotStep ==
  ASSUME Serial
  PROVE  SlotInv /\ [Next]_vars => [Slot!Next]_(Slot!vars)
<1> SUFFICES ASSUME SlotInv, [Next]_vars PROVE Slot!Next \/ UNCHANGED Slot!vars
  OBVIOUS
<1>1. ASSUME NEW h \in Handlers, NEW c \in Slots, NEW s \in Settings \cup {Keep},
             StartChecked(h, c, s) \/ StartResolved(h) \/ StartRefused(h) \/ StartStored(h)
             \/ SpawnFails(h)
      PROVE  UNCHANGED Slot!vars
  <2>1. UNCHANGED <<record, engine>> /\ req[h].at \notin {"try_wait", "record"}
    BY <1>1 DEF StartChecked, StartResolved, StartRefused, StartStored, SpawnFails
  <2>2. \E r : r.at \notin {"try_wait", "record"} /\ req' = [req EXCEPT ![h] = r]
    <3>1. CASE StartChecked(h, c, s)
      <4> DEFINE r == [NoReq EXCEPT !.at = "resolve", !.slot = c, !.settings = s]
      <4>1. r.at = "resolve" /\ req' = [req EXCEPT ![h] = r]
        BY <3>1 DEF StartChecked, NoReq
      <4>2. QED
        BY <4>1
    <3>2. CASE StartResolved(h)
      <4> DEFINE r == [req[h] EXCEPT !.at = "store",
                                     !.settings = IF @ = Keep THEN defaults ELSE @]
      <4>1. r.at = "store" /\ req' = [req EXCEPT ![h] = r]
        BY <3>2 DEF StartResolved, SlotInv, TypeOK, ReqType
      <4>2. QED
        BY <4>1
    <3>3. CASE StartStored(h)
      <4> DEFINE r == [req[h] EXCEPT !.at = "spawn"]
      <4>1. r.at = "spawn" /\ req' = [req EXCEPT ![h] = r]
        BY <3>3 DEF StartStored, SlotInv, TypeOK, ReqType
      <4>2. QED
        BY <4>1
    <3>4. CASE StartRefused(h) \/ SpawnFails(h)
      BY <3>4, NeutralValues DEF StartRefused, SpawnFails, Finish
    <3>5. QED
      BY <1>1, <3>1, <3>2, <3>3, <3>4
  <2>3. /\ req'[h].at \notin {"try_wait", "record"}
        /\ \A g \in Handlers : g # h => req'[g] = req[g]
    BY <2>2 DEF SlotInv, TypeOK
  <2>4. QED
    BY <2>1, <2>3, QuietRequest
<1>2. ASSUME NEW h \in Handlers, NEW s \in Settings, SetInMemory(h, s) \/ SetInFile(h)
      PROVE  UNCHANGED Slot!vars
  <2>1. UNCHANGED <<record, engine>> /\ req[h].at \notin {"try_wait", "record"}
    BY <1>2 DEF SetInMemory, SetInFile
  <2>2. CASE SetInMemory(h, s)
    <3>1. /\ req'[h].at = "save"
          /\ \A g \in Handlers : g # h => req'[g] = req[g]
      BY <2>2 DEF SetInMemory, NoReq, SlotInv, TypeOK
    <3>2. QED
      BY <2>1, <3>1, QuietRequest
  <2>3. CASE SetInFile(h)
    <3>1. /\ req'[h].at = "idle"
          /\ \A g \in Handlers : g # h => req'[g] = req[g]
      BY <2>3, NeutralValues DEF SetInFile, Finish, SlotInv, TypeOK
    <3>2. QED
      BY <2>1, <3>1, QuietRequest
  <2>4. QED
    BY <1>2, <2>2, <2>3
<1>3. ASSUME NEW h \in Handlers, StillThere(h) PROVE UNCHANGED Slot!vars
  <2>1. /\ UNCHANGED <<record, engine>> /\ req[h].at = "try_wait" /\ req'[h].at = "record"
        /\ req'[h].slot = req[h].slot /\ req'[h].pid = req[h].pid
        /\ \A g \in Handlers : g = h
    BY <1>3 DEF StillThere, Serial, SlotInv, TypeOK, ReqType
  <2>2. ASSUME NEW c \in Slots PROVE Phase(c)' = Phase(c)
    <3>1. Serving(c)' = Serving(c)
      BY <2>1 DEF Serving, Alive
    <3>2. Pending(c)' = Pending(c) /\ \A g \in Pending(c) : req'[g].pid = req[g].pid
      BY <2>1 DEF Pending
    <3>3. QED
      BY <3>1, <3>2, PhaseSame
  <2>3. QED
    BY <2>1, <2>2, NoSlotChanges
<1>4. ASSUME UNCHANGED vars PROVE UNCHANGED Slot!vars
  <2>1. ASSUME NEW c \in Slots PROVE Phase(c)' = Phase(c)
    <3>1. UNCHANGED req /\ Serving(c)' = Serving(c)
      BY <1>4 DEF vars, Serving, Alive
    <3>2. QED
      BY <3>1, PendingSame
  <2>2. QED
    BY <1>4, <2>1, NoSlotChanges DEF vars
<1>5. QED
  BY <1>1, <1>2, <1>3, <1>4, Serial, SpawnedLaunches, ExitedGivesUp, RecordedAnnounces,
     StopRetires, ExitsEnds, WatchedNotices, SupervisorAssumption
     DEF Next, Start, Set, Restart, Serial, Slot!Next, SupervisorAssumption

(* One request at a time, the controller host implements ControllerSlot:   *)
(* an engine is launched only for a controller that has none and is not    *)
(* listed as running, it is listed as running only if one was launched,    *)
(* and the listing ends only with a stop or with the end of the engine.    *)
THEOREM HostImplementsSlot ==
  ASSUME Serial
  PROVE  Spec => SlotSpec
<1>1. SlotInv /\ [Next]_vars => [Slot!Next]_(Slot!vars)
  BY Serial, SlotStep
<1>2. Spec => []SlotInv
  BY Serial, SlotInvAlways
<1>3. QED
  BY SlotInit, <1>1, <1>2, PTL DEF Spec, SlotSpec, Slot!Spec
=============================================================================
