----------------------------- MODULE Supervisor -----------------------------
(***************************************************************************)
(* The controller host (controller_host/src/main.rs): HTTP handlers that   *)
(* start and stop engine processes and keep the settings the engines are   *)
(* started with, one background task per engine that waits for its exit,   *)
(* and the table of controllers all of them share.                         *)
(*                                                                         *)
(* Handlers run on a pool of threads.  Each step of a handler is what it   *)
(* does while it holds one lock, or between two locks.                     *)
(***************************************************************************)
EXTENDS Integers

CONSTANTS
  Slots,      \* controllers: the folders under the model directory
  Handlers,   \* requests the server may be working on at the same time
  MaxPid,     \* bound: engines started while the model runs
  Settings,   \* values the OPC client settings may take
  Keep,       \* a start request that overrides nothing
  Faults      \* the things that may go wrong: see FaultKinds

FaultKinds == {"spawn", "persist", "kill", "restart"}

ASSUME SupervisorAssumption ==
  /\ MaxPid \in Nat
  /\ Keep \notin Settings
  /\ Settings # {} /\ Slots # {}
  /\ Faults \subseteq FaultKinds

(* Process ids are handed out in order; 0 stands for none.                 *)
Pids == 1..MaxPid

VARIABLES
  record,    \* record[c]: processes[c] - the state listed for c and its pid
  engine,    \* engine[p]: the process with pid p
  born,      \* engines spawned so far
  req,       \* req[h]: where handler h is, and its locals
  defaults,  \* opc_client_defaults in memory
  saved      \* the env file

vars == <<record, engine, born, req, defaults, saved>>

AnySlot   == CHOOSE c \in Slots : TRUE
NoReq     == [at |-> "idle", slot |-> AnySlot, settings |-> Keep, pid |-> 0]
NotListed == [state |-> "Stopped", pid |-> 0]
Unborn    == [life |-> "unborn", slot |-> AnySlot, doomed |-> FALSE, watched |-> FALSE]

Running(c, p) == record[c] = [state |-> "Running", pid |-> p]
Alive(p)      == engine[p].life = "alive"

Init ==
  /\ record = [c \in Slots |-> NotListed]
  /\ engine = [p \in Pids |-> Unborn]
  /\ born = 0
  /\ req = [h \in Handlers |-> NoReq]
  /\ defaults \in Settings
  /\ saved = defaults

(* A write of the env file that fails leaves the file as it was, or cut    *)
(* short; what would be read from it then is left open.                    *)
Persisted(settings) == IF "persist" \in Faults THEN Settings ELSE {settings}

BadFinish(h) == req' = [req EXCEPT ![h].at = "idle"]
Finish(h) == req' = [req EXCEPT ![h] = NoReq]

-----------------------------------------------------------------------------
(* start_controller                                                        *)

(* processes locked: refused when the controller runs already.             *)
BadMayStart(c) == TRUE
MayStart(c) == record[c].state # "Running"

StartChecked(h, c, settings) ==
  /\ req[h].at = "idle" /\ MayStart(c)
  /\ req' = [req EXCEPT ![h] = [NoReq EXCEPT !.at = "resolve", !.slot = c, !.settings = settings]]
  /\ UNCHANGED <<record, engine, born, defaults, saved>>

(* defaults locked: copied and overridden by the request ...               *)
StartResolved(h) ==
  /\ req[h].at = "resolve"
  /\ req' = [req EXCEPT ![h].at = "store",
                        ![h].settings = IF @ = Keep THEN defaults ELSE @]
  /\ UNCHANGED <<record, engine, born, defaults, saved>>

(* ... refused when the result lacks a user or a password ...              *)
StartRefused(h) ==
  /\ req[h].at = "resolve"
  /\ Finish(h)
  /\ UNCHANGED <<record, engine, born, defaults, saved>>

(* ... and, locked again, stored as the new defaults.                      *)
StartStored(h) ==
  /\ req[h].at = "store"
  /\ defaults' = req[h].settings
  /\ saved' \in Persisted(req[h].settings)
  /\ req' = [req EXCEPT ![h].at = "spawn"]
  /\ UNCHANGED <<record, engine, born>>

(* A watcher must not exist before the record it is to correct.            *)
BadWatchedFrom(step) == step = "spawn"
WatchedFrom(step) == step = "record"

Spawned(h) ==
  /\ req[h].at = "spawn" /\ born < MaxPid
  /\ born' = born + 1
  /\ engine' = [engine EXCEPT ![born'] = [life |-> "alive", slot |-> req[h].slot,
                                          doomed |-> FALSE, watched |-> WatchedFrom("spawn")]]
  /\ req' = [req EXCEPT ![h].at = "try_wait", ![h].pid = born']
  /\ UNCHANGED <<record, defaults, saved>>

(* No log file, or no process: at the bound there never is one.            *)
SpawnFails(h) ==
  /\ req[h].at = "spawn"
  /\ "spawn" \in Faults \/ born = MaxPid
  /\ Finish(h)
  /\ UNCHANGED <<record, engine, born, defaults, saved>>

(* try_wait: an engine that is gone already is reported and not recorded.  *)
ExitedAtOnce(h) ==
  /\ req[h].at = "try_wait" /\ ~Alive(req[h].pid)
  /\ Finish(h)
  /\ UNCHANGED <<record, engine, born, defaults, saved>>

StillThere(h) ==
  /\ req[h].at = "try_wait" /\ Alive(req[h].pid)
  /\ req' = [req EXCEPT ![h].at = "record"]
  /\ UNCHANGED <<record, engine, born, defaults, saved>>

(* processes locked: whatever is recorded for the controller is replaced;  *)
(* then the watcher is spawned.                                            *)
Recorded(h) ==
  /\ req[h].at = "record"
  /\ record' = [record EXCEPT ![req[h].slot] = [state |-> "Running", pid |-> req[h].pid]]
  /\ engine' = [engine EXCEPT ![req[h].pid].watched = @ \/ WatchedFrom("record")]
  /\ Finish(h)
  /\ UNCHANGED <<born, defaults, saved>>

-----------------------------------------------------------------------------
(* stop_controller: one critical section.  The kill command is spawned and *)
(* not awaited; if it cannot be spawned nobody notices.                    *)
Stop(c) ==
  /\ record[c].state = "Running"
  /\ record' = [record EXCEPT ![c].state = "Stopped"]
  /\ \E hit \in {TRUE} \cup IF "kill" \in Faults THEN {FALSE} ELSE {} :
       engine' = [engine EXCEPT ![record[c].pid].doomed = @ \/ (hit /\ Alive(record[c].pid))]
  /\ UNCHANGED <<born, req, defaults, saved>>

(* set_opc_client_defaults: memory under the lock, the file after it.      *)
SetInMemory(h, settings) ==
  /\ req[h].at = "idle"
  /\ defaults' = settings
  /\ req' = [req EXCEPT ![h] = [NoReq EXCEPT !.at = "save", !.settings = settings]]
  /\ UNCHANGED <<record, engine, born, saved>>

SetInFile(h) ==
  /\ req[h].at = "save"
  /\ saved' \in Persisted(req[h].settings)
  /\ Finish(h)
  /\ UNCHANGED <<record, engine, born, defaults>>

-----------------------------------------------------------------------------
(* Processes                                                               *)

(* An engine ends: killed, crashed or because it returned an error.        *)
Exits(p) ==
  /\ Alive(p)
  /\ engine' = [engine EXCEPT ![p].life = "dead"]
  /\ UNCHANGED <<record, born, req, defaults, saved>>

(* The watcher of p corrects the record if it is still about p.            *)
BadAbout(c, p) == record[c].state = "Running"
About(c, p) == Running(c, p)

Watched(p) ==
  LET c == engine[p].slot IN
  /\ engine[p].watched /\ engine[p].life = "dead"
  /\ engine' = [engine EXCEPT ![p].watched = FALSE]
  /\ IF About(c, p)
     THEN \E state \in {"Stopped", "Failed"} : record' = [record EXCEPT ![c].state = state]
     ELSE record' = record
  /\ UNCHANGED <<born, req, defaults, saved>>

(* The controller host ends and is started again: the table and the tasks  *)
(* are gone, the engines are not, the defaults come from the file.         *)
Restart ==
  /\ "restart" \in Faults
  /\ record' = [c \in Slots |-> NotListed]
  /\ engine' = [p \in Pids |-> [engine[p] EXCEPT !.watched = FALSE]]
  /\ req' = [h \in Handlers |-> NoReq]
  /\ defaults' = saved
  /\ UNCHANGED <<born, saved>>

Start(h) ==
  \/ \E c \in Slots, s \in Settings \cup {Keep} : StartChecked(h, c, s)
  \/ StartResolved(h) \/ StartRefused(h) \/ StartStored(h)
  \/ Spawned(h) \/ SpawnFails(h) \/ ExitedAtOnce(h) \/ StillThere(h) \/ Recorded(h)

Set(h) == SetInFile(h) \/ \E s \in Settings : SetInMemory(h, s)

Next ==
  \/ \E h \in Handlers : Start(h) \/ Set(h)
  \/ \E c \in Slots : Stop(c)
  \/ \E p \in Pids : Exits(p) \/ Watched(p)
  \/ Restart

Spec == Init /\ [][Next]_vars

(* The runtime polls every watcher whose child has exited.                 *)
FairSpec == Spec /\ \A p \in Pids : WF_vars(Watched(p))

-----------------------------------------------------------------------------
(* Types; a handler that is idle holds nothing, one that has not spawned   *)
(* its engine names none, and the engines are those spawned so far.        *)
ReqType ==
  [at : {"idle", "resolve", "store", "spawn", "try_wait", "record", "save"},
   slot : Slots, settings : Settings \cup {Keep}, pid : 0..MaxPid]

RecordType == [state : {"Stopped", "Running", "Failed"}, pid : 0..MaxPid]
EngineType == [life : {"unborn", "alive", "dead"}, slot : Slots,
               doomed : BOOLEAN, watched : BOOLEAN]

TypeOK ==
  /\ record \in [Slots -> RecordType]
  /\ engine \in [Pids -> EngineType]
  /\ born \in 0..MaxPid
  /\ req \in [Handlers -> ReqType]
  /\ defaults \in Settings /\ saved \in Settings
  /\ \A p \in Pids : engine[p].life = "unborn" <=> p > born
  /\ \A h \in Handlers :
       /\ req[h].at = "idle" => req[h] = NoReq
       /\ req[h].at \in {"store", "save"} => req[h].settings \in Settings
       /\ IF req[h].at \in {"try_wait", "record"}
          THEN req[h].pid \in 1..born /\ engine[req[h].pid].slot = req[h].slot
          ELSE req[h].pid = 0

(* A controller listed as running names an engine that was started for it, *)
(* and if that engine is gone its watcher has yet to run: no interleaving  *)
(* of starts, stops, exits and restarts leaves a dead engine listed with   *)
(* nobody to correct it.                                                   *)
RunningIsWatched ==
  \A c \in Slots : record[c].state = "Running" =>
    /\ record[c].pid \in 1..born
    /\ engine[record[c].pid].slot = c
    /\ engine[record[c].pid].watched

(* The listed state leaves Running only because the recorded engine is gone*)
(* or is being killed, or because the controller host restarts: the watcher*)
(* of an earlier engine never unseats its successor.                       *)
Unseated(c) == record[c].state = "Running" /\ record'[c].state # "Running"
WatcherSpares ==
  [][\A c \in Slots : Unseated(c) /\ ~Restart =>
       ~Alive(record[c].pid) \/ Stop(c)]_vars

(* An engine that is gone is not listed as running for ever.               *)
DeadIsReported ==
  \A c \in Slots, p \in Pids : Running(c, p) /\ ~Alive(p) ~> ~Running(c, p)

(* The engines of c that work and have not been told to stop.              *)
Serving(c) == {p \in Pids : Alive(p) /\ engine[p].slot = c /\ ~engine[p].doomed}

(* main.rs, start_controller: "Check if THIS specific controller slot is   *)
(* running", answered with "Controller is already running".  A controller  *)
(* has one working engine at most.                                         *)
OneServing == \A c \in Slots : \A p, q \in Serving(c) : p = q

(* README.md: controllers are managed processes.  A working engine is      *)
(* listed, or the request that started it is about to list it.             *)
ServingIsManaged ==
  \A c \in Slots : \A p \in Serving(c) :
    \/ Running(c, p)
    \/ \E h \in Handlers : req[h].at \in {"try_wait", "record"} /\ req[h].pid = p

(* One controller as the operator sees it: see ControllerSlot.             *)
Pending(c) == {h \in Handlers : req[h].at \in {"try_wait", "record"} /\ req[h].slot = c}
Phase(c) ==
  IF \E h \in Pending(c) : TRUE
  THEN IF \E h \in Pending(c) : req[h].pid \in Serving(c) THEN "new" ELSE "lost"
  ELSE IF Serving(c) # {} THEN "known" ELSE "none"

Slot == INSTANCE ControllerSlot WITH
  shown <- [c \in Slots |-> record[c].state],
  phase <- [c \in Slots |-> Phase(c)]

SlotSpec == Slot!Spec
=============================================================================
