------------------------------ MODULE ApcEngine ------------------------------
(***************************************************************************)
(* The run-time loop of apc_engine (apc_engine/src/main.rs): connect, push *)
(* the baseline, then scan for ever - sample the plant, solve, write - with*)
(* the failure ladder Engage -> Monitor -> Idle and the reconnection path. *)
(*                                                                         *)
(* The loop is one task, but every OPC UA call it awaits is a point where  *)
(* the operator, the DCS or the network gets in; each such call that reads *)
(* or writes shared state is a step.  The OPC UA nodes are variables; the  *)
(* engine's Rust locals are variables too and return to a neutral value    *)
(* when they go out of scope.                                              *)
(***************************************************************************)
EXTENDS Integers

CONSTANTS
  NumMV,          \* number of manipulated variables of the model
  Values,         \* the values an output, a setpoint or a limit may take
  BaseLimits,     \* <<low-low, high-high>> of the model JSON, pushed on connect
  LimitPairs,     \* <<low-low, high-high>> pairs the operator may enter
  MonitorAfter,   \* MAX_FAILURES_BEFORE_MONITOR
  IdleAfter,      \* MAX_FAILURES_BEFORE_IDLE
  BeatMod,        \* the heartbeat counter is kept modulo BeatMod
  SolverResults,  \* the results next_move may have: see Results
  Faults          \* the things that may go wrong: see FaultKinds

Results    == {"Solved", "Failed", "InitFailed"}
FaultKinds == {"read", "write", "inputs", "crash"}

Limits(p) == p \in Values \X Values /\ p[1] <= p[2]

ASSUME EngineAssumption ==
  /\ NumMV \in Nat \ {0}
  /\ Values \subseteq Int /\ 0 \in Values
  /\ Limits(BaseLimits) /\ \A p \in LimitPairs : Limits(p)
  /\ MonitorAfter \in Nat \ {0} /\ IdleAfter \in Nat /\ MonitorAfter < IdleAfter
  /\ BeatMod \in Nat \ {0}
  /\ SolverResults \subseteq Results
  /\ Faults \subseteq FaultKinds

MVs == 1..NumMV

Idle    == 0
Monitor == 1
Engage  == 2
OperatingModes == {Idle, Monitor, Engage}

(* The engine tells Remote Cascade from the other loop modes, nothing else *)
Local         == 1
RemoteCascade == 3
LoopModes     == {Local, RemoteCascade}

VARIABLES
  \* OPC UA nodes
  opMode,        \* <Engine>:OperatingMode
  op,            \* op[m]: the output the loop of m sends to the field
  mvMode,        \* mvMode[m]: actual mode of the loop
  modeTarget,    \* modeTarget[m]: mode the operator asked for
  lolo, hihi,    \* lolo[m], hihi[m]: safety limits of m
  sp,            \* sp[m]: the setpoint the engine writes
  solverStatus,  \* <Engine>:SolverStatus
  heartbeat,     \* <Engine>:Heartbeat
  \* the engine's own state
  pc,            \* the call the task is awaiting
  scan,          \* what has been sampled in this scan
  plan,          \* plan[m]: u_proposed
  ops,           \* ops[m]: outputs read again for the bumpless transfer
  mv,            \* index of the next MV to write
  failures,      \* consecutive_failures
  pred,          \* controller.prev_prediction: the moves it accounts for
  beat           \* heartbeat_counter

nodes  == <<opMode, op, mvMode, modeTarget, lolo, hihi, sp, solverStatus, heartbeat>>
locals == <<scan, plan, ops, mv>>
vars   == <<nodes, pc, locals, failures, pred, beat>>

ReadPcs == {"ReadMode", "ReadMvMode", "ReadTarget", "ReadHiHi", "ReadLoLo"}
ScanPcs == ReadPcs \cup {"Decide", "Demote", "RereadOps", "WriteMv", "Beat", "Sleep"}
Pcs     == ScanPcs \cup {"Off", "Connect", "Probe", "Push", "Backoff", "Exited"}

(* The Rust locals out of scope.  Definitions whose name starts with Bad   *)
(* are mutants: a mistake this code could contain, used to show that the   *)
(* properties would notice it.                                             *)
Neutral == [m \in MVs |-> BaseLimits[1]]
NoScan  == [mode |-> Idle,
            mvMode |-> [m \in MVs |-> Local], target |-> [m \in MVs |-> Local],
            hihi |-> Neutral, lolo |-> Neutral]
BadLeaveScope == scan' = NoScan /\ plan' = Neutral /\ ops' = Neutral /\ mv' = mv
LeaveScope ==
  /\ scan' = NoScan
  /\ plan' = Neutral
  /\ ops' = Neutral
  /\ mv' = 1

(* Writes are fire and forget (let _ = write_single): a node holds the new *)
(* value, or the old one if the write was lost.                            *)
Landed(old, new) == {new} \cup IF "write" \in Faults THEN {old} ELSE {}

(* prev_prediction is None.  Otherwise it is known by the plan whose moves *)
(* it contains; a scan that does not solve leaves it as it is.             *)
NoPrediction == <<>>

-----------------------------------------------------------------------------
(* The environment: operator, DCS, supervisor                              *)

OperatorSetsMode(m) ==
  /\ m # opMode
  /\ opMode' = m
  /\ UNCHANGED <<op, mvMode, modeTarget, lolo, hihi, sp, solverStatus, heartbeat,
                 pc, locals, failures, pred, beat>>

OperatorSetsTarget(m, t) ==
  /\ t # modeTarget[m]
  /\ modeTarget' = [modeTarget EXCEPT ![m] = t]
  /\ UNCHANGED <<opMode, op, mvMode, lolo, hihi, sp, solverStatus, heartbeat,
                 pc, locals, failures, pred, beat>>

OperatorSetsLimits(m, p) ==
  /\ p # <<lolo[m], hihi[m]>>
  /\ lolo' = [lolo EXCEPT ![m] = p[1]]
  /\ hihi' = [hihi EXCEPT ![m] = p[2]]
  /\ UNCHANGED <<opMode, op, mvMode, modeTarget, sp, solverStatus, heartbeat,
                 pc, locals, failures, pred, beat>>

LoopChangesMode(m, t) ==
  /\ t # mvMode[m]
  /\ mvMode' = [mvMode EXCEPT ![m] = t]
  /\ UNCHANGED <<opMode, op, modeTarget, lolo, hihi, sp, solverStatus, heartbeat,
                 pc, locals, failures, pred, beat>>

(* The field output moves; nothing keeps it inside the safety limits.      *)
OutputMoves(m, v) ==
  /\ v # op[m]
  /\ op' = [op EXCEPT ![m] = v]
  /\ UNCHANGED <<opMode, mvMode, modeTarget, lolo, hihi, sp, solverStatus, heartbeat,
                 pc, locals, failures, pred, beat>>

(* The process is killed (stopped by the supervisor, or crashed) ...       *)
Killed ==
  /\ "crash" \in Faults
  /\ pc \notin {"Off", "Exited"}
  /\ pc' = "Off"
  /\ LeaveScope
  /\ failures' = 0 /\ pred' = NoPrediction /\ beat' = 0
  /\ UNCHANGED nodes

(* ... and launched again, from whatever the nodes hold.  One that refuses *)
(* its arguments or its model stays off.                                   *)
Launched ==
  /\ pc \in {"Off", "Exited"}
  /\ pc' = "Connect"
  /\ UNCHANGED <<nodes, locals, failures, pred, beat>>

-----------------------------------------------------------------------------
(* Connecting                                                              *)

Connect ==
  /\ pc = "Connect"
  /\ pc' = "Probe"
  /\ UNCHANGED <<nodes, locals, failures, pred, beat>>

ProbeOk ==
  /\ pc = "Probe"
  /\ pc' = "Push"
  /\ UNCHANGED <<nodes, locals, failures, pred, beat>>

(* Any failure of the probe, transient or not, ends the process.           *)
ProbeFails ==
  /\ pc = "Probe" /\ "read" \in Faults
  /\ pc' = "Exited"
  /\ pred' = NoPrediction /\ failures' = 0 /\ beat' = 0
  /\ UNCHANGED <<nodes, locals>>

(* Every (re)connection writes the baseline of the model over the live     *)
(* limits, one write per node, each of which may be lost; the counters of  *)
(* the connection start from zero, the controller is kept.                 *)
Push ==
  /\ pc = "Push"
  /\ pc' = "ReadMode"
  /\ \E kept \in SUBSET ({"lolo", "hihi"} \X MVs) :
       /\ "write" \notin Faults => kept = {}
       /\ lolo' = [m \in MVs |-> IF <<"lolo", m>> \in kept THEN lolo[m] ELSE BaseLimits[1]]
       /\ hihi' = [m \in MVs |-> IF <<"hihi", m>> \in kept THEN hihi[m] ELSE BaseLimits[2]]
  /\ failures' = 0 /\ beat' = 0
  /\ UNCHANGED <<opMode, op, mvMode, modeTarget, sp, solverStatus, heartbeat,
                 locals, pred>>

Reconnect ==
  /\ pc = "Backoff"
  /\ pc' = "Connect"
  /\ UNCHANGED <<nodes, locals, failures, pred, beat>>

-----------------------------------------------------------------------------
(* Sampling: one bulk read per group of nodes, OperatingMode first         *)

Sample(from, to, sampled) ==
  /\ pc = from
  /\ pc' = to
  /\ scan' = sampled
  /\ UNCHANGED <<nodes, plan, ops, mv, failures, pred, beat>>

ReadMode   == Sample("ReadMode", "ReadMvMode", [scan EXCEPT !.mode = opMode])
ReadMvMode == Sample("ReadMvMode", "ReadTarget", [scan EXCEPT !.mvMode = mvMode])
ReadTarget == Sample("ReadTarget", "ReadHiHi", [scan EXCEPT !.target = modeTarget])
ReadHiHi   == Sample("ReadHiHi", "ReadLoLo", [scan EXCEPT !.hihi = hihi])
ReadLoLo   == Sample("ReadLoLo", "Decide", [scan EXCEPT !.lolo = lolo])

(* One failed read spoils the scan: the session is given up.               *)
ReadFails ==
  /\ pc \in ReadPcs /\ "read" \in Faults
  /\ pc' = "Backoff"
  /\ LeaveScope
  /\ UNCHANGED <<nodes, failures, pred, beat>>

-----------------------------------------------------------------------------
(* Deciding: idle, unusable inputs, or a solve                             *)

IdleScan ==
  /\ pc = "Decide" /\ scan.mode = Idle
  /\ pc' = "Beat"
  /\ solverStatus' \in Landed(solverStatus, "ok")
  /\ LeaveScope
  /\ UNCHANGED <<opMode, op, mvMode, modeTarget, lolo, hihi, sp, heartbeat,
                 failures, pred, beat>>

(* NaN, Inf or a CV out of range: status 99, wait, no heartbeat.           *)
RejectInputs ==
  /\ pc = "Decide" /\ scan.mode # Idle /\ "inputs" \in Faults
  /\ pc' = "Sleep"
  /\ solverStatus' \in Landed(solverStatus, "input error")
  /\ LeaveScope
  /\ UNCHANGED <<opMode, op, mvMode, modeTarget, lolo, hihi, sp, heartbeat,
                 failures, pred, beat>>

(* prev_prediction after a solve: stored if next_move was told to commit.  *)
BadAfterSolve(moves) == IF scan.mode = Engage /\ pred = NoPrediction THEN moves ELSE pred
AfterSolve(moves) == IF scan.mode = Engage THEN moves ELSE NoPrediction

(* The quadratic program, and what it reads (measurements, outputs,        *)
(* targets, weights), are left open: it may propose any value for any MV.  *)
Proposals == [MVs -> Values]

(* next_move solved the problem: it keeps its prediction in Engage only,   *)
(* proposes a value per MV, and the failure count starts over.             *)
SolveOk ==
  /\ pc = "Decide" /\ scan.mode # Idle /\ "Solved" \in SolverResults
  /\ pc' = "RereadOps"
  /\ plan' \in Proposals
  /\ pred' = AfterSolve(plan')
  /\ failures' = 0
  /\ solverStatus' \in Landed(solverStatus, "ok")
  /\ UNCHANGED <<opMode, op, mvMode, modeTarget, lolo, hihi, sp, heartbeat,
                 scan, ops, mv, beat>>

(* prev_prediction after a failure: a solver that ran wipes it, one that   *)
(* could not be initialised returns before that.                           *)
AfterFailure(result) == IF result = "Failed" THEN NoPrediction ELSE pred

(* The count saturates at IdleAfter: the code only compares it with the    *)
(* two thresholds.                                                         *)
BadCountRestarts == 1
BadCountStops    == IF failures < MonitorAfter THEN failures + 1 ELSE MonitorAfter
CountFailure     == IF failures < IdleAfter THEN failures + 1 ELSE IdleAfter

(* next_move gave up.                                                      *)
SolveFails ==
  /\ pc = "Decide" /\ scan.mode # Idle
  /\ \E result \in SolverResults \ {"Solved"} : pred' = AfterFailure(result)
  /\ pc' = "Demote"
  /\ failures' = CountFailure
  /\ solverStatus' \in Landed(solverStatus, "failed")
  /\ UNCHANGED <<opMode, op, mvMode, modeTarget, lolo, hihi, sp, heartbeat, locals, beat>>

(* The failure ladder, from the mode sampled when the scan began; then the *)
(* next scan starts at once: no heartbeat, no pause.                       *)
Demote ==
  /\ pc = "Demote"
  /\ pc' = "ReadMode"
  /\ \/ /\ failures >= IdleAfter
        /\ opMode' \in Landed(opMode, Idle)
     \/ /\ failures < IdleAfter /\ failures >= MonitorAfter /\ scan.mode = Engage
        /\ opMode' \in Landed(opMode, Monitor)
     \/ /\ failures < IdleAfter /\ ~(failures >= MonitorAfter /\ scan.mode = Engage)
        /\ opMode' = opMode
  /\ LeaveScope
  /\ UNCHANGED <<op, mvMode, modeTarget, lolo, hihi, sp, solverStatus, heartbeat,
                 failures, pred, beat>>

-----------------------------------------------------------------------------
(* Writing                                                                 *)

(* The outputs are read again; if that fails, zeros stand in for them.     *)
RereadOps ==
  /\ pc = "RereadOps"
  /\ pc' = "WriteMv"
  /\ \/ ops' = op
     \/ "read" \in Faults /\ ops' = [m \in MVs |-> 0]
  /\ UNCHANGED <<nodes, scan, plan, mv, failures, pred, beat>>

BadTripped(m) == plan[m] > scan.hihi[m]
Tripped(m) == plan[m] > scan.hihi[m] \/ plan[m] < scan.lolo[m]

WriteNext(value) ==
  /\ sp' \in {[sp EXCEPT ![mv] = v] : v \in Landed(sp[mv], value)}
  /\ mv' = mv + 1
  /\ UNCHANGED <<opMode, op, mvMode, modeTarget, lolo, hihi, solverStatus, heartbeat,
                 pc, scan, plan, ops, failures, pred, beat>>

SkipNext ==
  /\ mv' = mv + 1
  /\ UNCHANGED <<nodes, pc, scan, plan, ops, failures, pred, beat>>

BadMayWrite == scan.mode # Idle
MayWrite == scan.mode = Engage

Requested(m) == scan.target[m] = RemoteCascade

(* The loop is not in Remote Cascade: prepare it if that was asked for.    *)
WriteBumpless ==
  /\ pc = "WriteMv" /\ mv \in MVs
  /\ scan.mvMode[mv] # RemoteCascade
  /\ IF Requested(mv) /\ MayWrite
     THEN WriteNext(ops[mv])
     ELSE SkipNext

(* The loop is in Remote Cascade: move it, unless a safety limit trips.    *)
WriteMove ==
  /\ pc = "WriteMv" /\ mv \in MVs
  /\ scan.mvMode[mv] = RemoteCascade
  /\ IF ~Tripped(mv) /\ MayWrite
     THEN WriteNext(plan[mv])
     ELSE SkipNext

(* All MVs done; the diagnostics that follow are not modelled.             *)
WritesDone ==
  /\ pc = "WriteMv" /\ mv = NumMV + 1
  /\ pc' = "Beat"
  /\ LeaveScope
  /\ UNCHANGED <<nodes, failures, pred, beat>>

Beat ==
  /\ pc = "Beat"
  /\ pc' = "Sleep"
  /\ beat' = (beat + 1) % BeatMod
  /\ heartbeat' \in Landed(heartbeat, beat')
  /\ UNCHANGED <<opMode, op, mvMode, modeTarget, lolo, hihi, sp, solverStatus,
                 locals, failures, pred>>

Sleep ==
  /\ pc = "Sleep"
  /\ pc' = "ReadMode"
  /\ UNCHANGED <<nodes, locals, failures, pred, beat>>

-----------------------------------------------------------------------------
Init ==
  /\ opMode \in OperatingModes
  /\ op = [m \in MVs |-> BaseLimits[1]]
  /\ mvMode = [m \in MVs |-> Local]
  /\ modeTarget = [m \in MVs |-> Local]
  /\ lolo = [m \in MVs |-> BaseLimits[1]]
  /\ hihi = [m \in MVs |-> BaseLimits[2]]
  /\ sp \in [MVs -> Values]
  /\ solverStatus = "ok"
  /\ heartbeat = 0
  /\ pc = "Connect"
  /\ scan = NoScan /\ plan = Neutral /\ ops = Neutral /\ mv = 1
  /\ failures = 0
  /\ pred = NoPrediction
  /\ beat = 0

Operator ==
  \/ \E m \in OperatingModes : OperatorSetsMode(m)
  \/ \E m \in MVs, t \in LoopModes : OperatorSetsTarget(m, t)
  \/ \E m \in MVs, p \in LimitPairs : OperatorSetsLimits(m, p)

Plant ==
  \/ \E m \in MVs, t \in LoopModes : LoopChangesMode(m, t)
  \/ \E m \in MVs, v \in Values : OutputMoves(m, v)

Engine ==
  \/ Connect \/ ProbeOk \/ ProbeFails \/ Push \/ Reconnect
  \/ ReadMode \/ ReadMvMode \/ ReadTarget \/ ReadHiHi \/ ReadLoLo \/ ReadFails
  \/ IdleScan \/ RejectInputs \/ SolveOk \/ SolveFails \/ Demote
  \/ RereadOps \/ WriteBumpless \/ WriteMove \/ WritesDone \/ Beat \/ Sleep

Next == Operator \/ Plant \/ Killed \/ Launched \/ Engine

Spec == Init /\ [][Next]_vars

(* Fairness.  The loop never blocks for good: every await is a call with a *)
(* time-out or a sleep.  A demotion is written again on every failing scan *)
(* until it shows, so it is lost only finitely often in a row.             *)
DemoteLands(m) == Demote /\ opMode' = m
FairSpec == /\ Spec
            /\ WF_vars(Engine)
            /\ SF_vars(DemoteLands(Monitor)) /\ SF_vars(DemoteLands(Idle))

-----------------------------------------------------------------------------
(* Types; the MV index and the sample exist only inside their scope.       *)
ScanType ==
  [mode : OperatingModes, mvMode : [MVs -> LoopModes],
   target : [MVs -> LoopModes], hihi : [MVs -> Values], lolo : [MVs -> Values]]

TypeOK ==
  /\ opMode \in OperatingModes
  /\ op \in [MVs -> Values]
  /\ mvMode \in [MVs -> LoopModes]
  /\ modeTarget \in [MVs -> LoopModes]
  /\ lolo \in [MVs -> Values] /\ hihi \in [MVs -> Values]
  /\ sp \in [MVs -> Values]
  /\ solverStatus \in {"ok", "failed", "input error"}
  /\ heartbeat \in 0..BeatMod - 1 /\ beat \in 0..BeatMod - 1
  /\ pc \in Pcs
  /\ scan \in ScanType
  /\ plan \in [MVs -> Values] /\ ops \in [MVs -> Values]
  /\ mv \in IF pc = "WriteMv" THEN 1..NumMV + 1 ELSE {1}
  /\ failures \in 0..IdleAfter
  /\ pred \in {NoPrediction} \cup [MVs -> Values]

(* Every setpoint the engine changes belongs to a scan whose solve         *)
(* succeeded and whose prediction was kept: the plant is never moved       *)
(* unless what next_move will shift and correct next contains the moves    *)
(* that are being written, not those of an older scan.                     *)
WriteIsPredicted == [][sp' # sp => failures = 0 /\ pred = plan]_vars

(* The promise of EngageGate: permissions are sampled in the same scan the *)
(* write belongs to, and the engine never engages by itself.               *)
Accepts(mode, target) ==
  [m \in MVs |-> mode[m] = RemoteCascade \/ target[m] = RemoteCascade]

Gate == INSTANCE EngageGate WITH
  mode     <- opMode,
  armed    <- (opMode = Engage \/ scan.mode = Engage),
  accepts  <- Accepts(mvMode, modeTarget),
  accepted <- [m \in MVs |-> \/ Accepts(mvMode, modeTarget)[m]
                             \/ Accepts(scan.mvMode, scan.target)[m]],
  setpoint <- sp

GateSpec == Gate!Spec

(* The promise of LimitGate: no path of the engine - computed move,        *)
(* bumpless transfer, lost write, failed read - changes a setpoint to a    *)
(* value that no limits and no output of this scan justify.                *)
Seen(node, sample, since) ==
  [m \in MVs |-> {node[m]} \cup IF pc \in since THEN {sample[m]} ELSE {}]

HiHiPcs == {"ReadLoLo", "Decide", "Demote", "RereadOps", "WriteMv"}
LoLoPcs == HiHiPcs \ {"ReadLoLo"}

Bounds == INSTANCE LimitGate WITH
  Fallback <- 0,
  high     <- hihi,
  low      <- lolo,
  output   <- op,
  highs    <- Seen(hihi, scan.hihi, HiHiPcs),
  lows     <- Seen(lolo, scan.lolo, LoLoPcs),
  outputs  <- Seen(op, ops, {"WriteMv"}),
  setpoint <- sp

LimitSpec == Bounds!Spec

(* A step of the operator changes the mode and leaves the engine's pc.     *)
OperatorQuiet == <>[][opMode' # opMode => pc' # pc]_vars

(* While every solve fails and the operator leaves the mode alone, the     *)
(* engine gives up Engage for good.                                        *)
FailureDisengages == OperatorQuiet => <>[](opMode # Engage)

(* ... and although failing scans skip the heartbeat, it comes back: the   *)
(* ladder ends in Idle, whose scans beat.                                  *)
HeartbeatResumes == OperatorQuiet => []<>(pc = "Beat")

-----------------------------------------------------------------------------
(* A statement of a comment that the code does not keep                    *)

(* "On failure, we wipe the prediction state to force a Cold Start next    *)
(* time" (dmc.rs 834): while the failure count runs there is none.  A      *)
(* solver that cannot be initialised returns before that line.             *)
FailureColdStarts == failures > 0 => pred = NoPrediction
=============================================================================
