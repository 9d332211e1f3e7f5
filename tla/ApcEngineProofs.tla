--------------------------- MODULE ApcEngineProofs ---------------------------
(***************************************************************************)
(* What TLAPS proves of ApcEngine, for every number of MVs, every set of   *)
(* values and limits, all thresholds and every combination of faults; and  *)
(* that ApcEngine implements EngageGate.                                   *)
(***************************************************************************)
EXTENDS ApcEngine, TLAPS

LEMMA NeutralType == Neutral \in [MVs -> Values] /\ NoScan \in ScanType
  BY EngineAssumption DEF Neutral, NoScan, ScanType, Limits, MVs, OperatingModes,
     LoopModes, Idle, Monitor, Engage, Local, RemoteCascade

LEMMA ConstantTypes ==
  /\ NumMV \in Nat \ {0} /\ 0 \in Values
  /\ BaseLimits[1] \in Values /\ BaseLimits[2] \in Values
  /\ \A p \in LimitPairs : p[1] \in Values /\ p[2] \in Values
  /\ IdleAfter \in Nat /\ 0 \in 0..IdleAfter
  /\ BeatMod \in Nat \ {0} /\ 0 \in 0..BeatMod - 1
  BY EngineAssumption DEF EngineAssumption, Limits

(* Every node and local keeps its type, and the sample and the MV index    *)
(* live only inside a scan (main.rs, the inner loop).                      *)
THEOREM TypeCorrect == Spec => []TypeOK
<1>1. Init => TypeOK
  BY NeutralType, EngineAssumption
  DEF Init, TypeOK, MVs, OperatingModes, LoopModes, Pcs, Limits, Local, Neutral
<1>2. TypeOK /\ [Next]_vars => TypeOK'
  <2> SUFFICES ASSUME TypeOK, [Next]_vars PROVE TypeOK'
    OBVIOUS
  <2> USE ConstantTypes, NeutralType
  <2>1. CASE Operator
    <3>1. ASSUME NEW m \in OperatingModes, OperatorSetsMode(m) PROVE TypeOK'
      BY <3>1 DEF TypeOK, OperatorSetsMode, locals
    <3>2. ASSUME NEW m \in MVs, NEW t \in LoopModes, OperatorSetsTarget(m, t) PROVE TypeOK'
      BY <3>2 DEF TypeOK, OperatorSetsTarget, locals
    <3>3. ASSUME NEW m \in MVs, NEW p \in LimitPairs, OperatorSetsLimits(m, p) PROVE TypeOK'
      BY <3>3 DEF TypeOK, OperatorSetsLimits, locals
    <3>4. QED
      BY <2>1, <3>1, <3>2, <3>3 DEF Operator
  <2>2. CASE Plant
    <3>1. ASSUME NEW m \in MVs, NEW t \in LoopModes, LoopChangesMode(m, t) PROVE TypeOK'
      BY <3>1 DEF TypeOK, LoopChangesMode, locals
    <3>2. ASSUME NEW m \in MVs, NEW v \in Values, OutputMoves(m, v) PROVE TypeOK'
      BY <3>2 DEF TypeOK, OutputMoves, locals
    <3>3. QED
      BY <2>2, <3>1, <3>2 DEF Plant
  <2>3. CASE Killed \/ Launched
    BY <2>3 DEF TypeOK, Killed, Launched, LeaveScope, nodes, locals, Pcs
  <2>4. CASE Engine
    <3>1. CASE Connect \/ ProbeOk \/ ProbeFails \/ Reconnect \/ Sleep
      BY <2>4, <3>1 DEF TypeOK, Connect, ProbeOk, ProbeFails, Reconnect, Sleep, nodes, locals,
         Pcs, ScanPcs, ReadPcs
    <3>2. CASE Push
      <4>1. lolo' \in [MVs -> Values] /\ hihi' \in [MVs -> Values]
        BY <3>2 DEF Push, TypeOK
      <4>2. QED
        BY <3>2, <4>1 DEF TypeOK, Push, locals, Pcs, ScanPcs, ReadPcs
    <3>3. CASE \/ ReadMode \/ ReadMvMode \/ ReadTarget \/ ReadHiHi \/ ReadLoLo
      <4>1. scan' \in ScanType
        BY <3>3 DEF TypeOK, ScanType, Sample,
           ReadMode, ReadMvMode, ReadTarget, ReadHiHi, ReadLoLo
      <4>2. /\ pc \in ReadPcs /\ pc' \in Pcs \ {"WriteMv"}
            /\ UNCHANGED <<nodes, plan, ops, mv, failures, pred, beat>>
        BY <3>3 DEF Sample, ReadMode, ReadMvMode, ReadTarget, ReadHiHi, ReadLoLo,
           Pcs, ScanPcs, ReadPcs
      <4>3. QED
        BY <4>1, <4>2 DEF TypeOK, nodes, ReadPcs
    <3>4. CASE ReadFails
      BY <3>4 DEF TypeOK, ReadFails, LeaveScope, nodes, Pcs
    <3>5. CASE IdleScan \/ RejectInputs
      BY <3>5 DEF TypeOK, IdleScan, RejectInputs, LeaveScope, Landed, Pcs, ScanPcs
    <3>6. CASE SolveOk
      BY <3>6 DEF TypeOK, SolveOk, Proposals, AfterSolve, Landed, Pcs, ScanPcs
    <3>7. CASE SolveFails
      <4>1. pred' \in {NoPrediction} \cup [MVs -> Values]
        BY <3>7 DEF TypeOK, SolveFails, AfterFailure
      <4>2. failures' \in 0..IdleAfter
        <5>1. failures \in 0..IdleAfter /\ failures' = CountFailure
          BY <3>7 DEF TypeOK, SolveFails
        <5>2. QED
          BY <5>1 DEF CountFailure
      <4>3. solverStatus' \in {"ok", "failed", "input error"}
        BY <3>7 DEF TypeOK, SolveFails, Landed
      <4>4. QED
        BY <3>7, <4>1, <4>2, <4>3 DEF TypeOK, SolveFails, locals, Pcs, ScanPcs
    <3>8. CASE Demote
      BY <3>8 DEF TypeOK, Demote, LeaveScope, Landed, Pcs, ScanPcs, ReadPcs,
         OperatingModes, Idle, Monitor, Engage
    <3>9. CASE RereadOps
      <4>1. ops' \in [MVs -> Values]
        BY <3>9 DEF TypeOK, RereadOps
      <4>2. pc' = "WriteMv" /\ mv' = 1
        BY <3>9 DEF TypeOK, RereadOps
      <4>2a. 1 \in 1..NumMV + 1
        OBVIOUS
      <4>3. UNCHANGED <<nodes, scan, plan, failures, pred, beat>>
        BY <3>9 DEF RereadOps
      <4>4. QED
        BY <4>1, <4>2, <4>2a, <4>3 DEF TypeOK, nodes, Pcs, ScanPcs
    <3>10. CASE WriteBumpless \/ WriteMove
      <4>1. mv \in MVs /\ pc = "WriteMv"
        BY <3>10 DEF WriteBumpless, WriteMove
      <4>2. mv' \in 1..NumMV + 1
        BY <3>10, <4>1 DEF WriteBumpless, WriteMove, WriteNext, SkipNext, MVs
      <4>3. sp' \in [MVs -> Values]
        BY <3>10, <4>1 DEF TypeOK, WriteBumpless, WriteMove, WriteNext, SkipNext, nodes, Landed
      <4>4. UNCHANGED <<opMode, op, mvMode, modeTarget, lolo, hihi, solverStatus, heartbeat,
                        pc, scan, plan, ops, failures, pred, beat>>
        BY <3>10 DEF WriteBumpless, WriteMove, WriteNext, SkipNext, nodes
      <4>5. QED
        BY <4>1, <4>2, <4>3, <4>4 DEF TypeOK
    <3>11. CASE WritesDone
      BY <3>11 DEF TypeOK, WritesDone, LeaveScope, nodes, Pcs, ScanPcs
    <3>12. CASE Beat
      <4>1. beat' \in 0..BeatMod - 1
        <5>1. beat \in 0..BeatMod - 1
          BY DEF TypeOK
        <5>2. beat + 1 \in Nat
          BY <5>1
        <5>3. beat' = (beat + 1) % BeatMod
          BY <3>12 DEF Beat
        <5>4. QED
          BY <5>2, <5>3
      <4>2. heartbeat' \in 0..BeatMod - 1
        BY <3>12, <4>1 DEF TypeOK, Beat, Landed
      <4>3. QED
        BY <3>12, <4>1, <4>2 DEF TypeOK, Beat, locals, Pcs, ScanPcs
    <3>13. QED
      BY <2>4, <3>1, <3>2, <3>3, <3>4, <3>5, <3>6, <3>7, <3>8, <3>9, <3>10, <3>11, <3>12
      DEF Engine
  <2>5. CASE UNCHANGED vars
    BY <2>5 DEF TypeOK, vars, nodes, locals
  <2>6. QED
    BY <2>1, <2>2, <2>3, <2>4, <2>5 DEF Next
<1>3. QED
  BY <1>1, <1>2, PTL DEF Spec

-----------------------------------------------------------------------------
(* What the writing phase knows about its own solve.                       *)
PredInv == pc \in {"RereadOps", "WriteMv"} => failures = 0 /\ (scan.mode = Engage => pred = plan)

LEMMA PredInvInit == Init => PredInv
  BY DEF Init, PredInv

LEMMA PredInvStep == TypeOK /\ PredInv /\ [Next]_vars => PredInv'
<1> SUFFICES ASSUME TypeOK, PredInv, [Next]_vars PROVE PredInv'
  OBVIOUS
<1> USE DEF PredInv
<1>1. CASE UNCHANGED <<pc, scan, plan, failures, pred>>
  BY <1>1
<1>2. CASE Operator \/ Plant
  BY <1>1, <1>2 DEF Operator, OperatorSetsMode, OperatorSetsTarget, OperatorSetsLimits,
     Plant, LoopChangesMode, OutputMoves, locals
<1>3. CASE Killed \/ Launched
  BY <1>3 DEF Killed, Launched
<1>4. CASE Engine
  <2>1. CASE \/ Connect \/ ProbeOk \/ ProbeFails \/ Push \/ Reconnect \/ WritesDone \/ Beat \/ Sleep
    BY <2>1 DEF Connect, ProbeOk, ProbeFails, Push, Reconnect, WritesDone, Beat, Sleep
  <2>2. CASE \/ ReadMode \/ ReadMvMode \/ ReadTarget \/ ReadHiHi \/ ReadLoLo
    BY <2>2 DEF Sample, ReadMode, ReadMvMode, ReadTarget, ReadHiHi, ReadLoLo
  <2>3. CASE ReadFails \/ IdleScan \/ RejectInputs \/ Demote \/ SolveFails
    BY <2>3 DEF ReadFails, IdleScan, RejectInputs, Demote, SolveFails
  <2>4. CASE SolveOk
    BY <2>4 DEF SolveOk, AfterSolve
  <2>5. CASE RereadOps \/ WriteBumpless \/ WriteMove
    BY <2>5 DEF RereadOps, WriteBumpless, WriteMove, WriteNext, SkipNext
  <2>6. QED
    BY <1>4, <2>1, <2>2, <2>3, <2>4, <2>5 DEF Engine
<1>5. CASE UNCHANGED vars
  BY <1>1, <1>5 DEF vars, locals
<1>6. QED
  BY <1>2, <1>3, <1>4, <1>5 DEF Next

LEMMA PredInvAlways == Spec => []PredInv
<1>1. QED
  BY PredInvInit, PredInvStep, TypeCorrect, PTL DEF Spec

(* Only the two writing steps change a setpoint, and only in Engage.       *)
LEMMA SetpointStep ==
  ASSUME TypeOK, [Next]_vars, sp' # sp
  PROVE  /\ WriteBumpless \/ WriteMove
         /\ scan.mode = Engage /\ pc = "WriteMv"
<1>1. ~(Operator \/ Plant \/ Killed \/ Launched \/ UNCHANGED vars)
  BY DEF Operator, OperatorSetsMode, OperatorSetsTarget, OperatorSetsLimits, Plant,
     LoopChangesMode, OutputMoves, Killed, Launched, vars, nodes
<1>2. Engine
  BY <1>1 DEF Next
<1>3. WriteBumpless \/ WriteMove
  BY <1>2 DEF Engine, Connect, ProbeOk, ProbeFails, Push, Reconnect, WritesDone, Beat, Sleep,
     Sample, ReadMode, ReadMvMode, ReadTarget, ReadHiHi, ReadLoLo, ReadFails,
     IdleScan, RejectInputs, Demote, SolveOk, SolveFails, RereadOps, nodes
<1>4. QED
  BY <1>3 DEF WriteBumpless, WriteMove, SkipNext, MayWrite, nodes

(* The engine never moves the plant without keeping the prediction of that *)
(* move for the next shift-and-correct (main.rs section E, dmc.rs commit). *)
THEOREM WritesArePredicted == Spec => WriteIsPredicted
<1>1. TypeOK /\ PredInv /\ [Next]_vars
        => [sp' # sp => failures = 0 /\ pred = plan]_vars
  <2> SUFFICES ASSUME TypeOK, PredInv, [Next]_vars, sp' # sp
               PROVE  failures = 0 /\ pred = plan
    OBVIOUS
  <2>1. scan.mode = Engage /\ pc = "WriteMv"
    BY SetpointStep
  <2>2. QED
    BY <2>1 DEF PredInv
<1>2. QED
  BY <1>1, TypeCorrect, PredInvAlways, PTL DEF Spec, WriteIsPredicted

-----------------------------------------------------------------------------
(* ApcEngine implements EngageGate: what the sample of a scan says about   *)
(* the mode and the loops was true when it was sampled, nothing of it      *)
(* outlives the scan, and the engine never writes Engage.                  *)

(* The sample is empty outside a scan, and before each of its reads.       *)
ScanInv ==
  /\ pc \notin {"ReadMvMode", "ReadTarget", "ReadHiHi", "ReadLoLo",
                "Decide", "Demote", "RereadOps", "WriteMv"} => scan.mode = Idle
  /\ pc \notin {"ReadTarget", "ReadHiHi", "ReadLoLo",
                "Decide", "Demote", "RereadOps", "WriteMv"} =>
       \A m \in MVs : scan.mvMode[m] = Local
  /\ pc \notin {"ReadHiHi", "ReadLoLo", "Decide", "Demote", "RereadOps", "WriteMv"} =>
       \A m \in MVs : scan.target[m] = Local

Armed    == opMode = Engage \/ scan.mode = Engage
Accepted == [m \in MVs |-> \/ Accepts(mvMode, modeTarget)[m]
                           \/ Accepts(scan.mvMode, scan.target)[m]]

LEMMA ScanInvInit == Init => ScanInv
  BY DEF Init, ScanInv, NoScan

LEMMA NoScanInv == scan' = NoScan => ScanInv'
  BY DEF ScanInv, NoScan

LEMMA ScanInvStep == TypeOK /\ ScanInv /\ [Next]_vars => ScanInv'
<1> SUFFICES ASSUME TypeOK, ScanInv, [Next]_vars PROVE ScanInv'
  OBVIOUS
<1>1. CASE UNCHANGED <<pc, scan>>
  BY <1>1 DEF ScanInv
<1>2. CASE Operator \/ Plant
  BY <1>1, <1>2 DEF Operator, OperatorSetsMode, OperatorSetsTarget, OperatorSetsLimits,
     Plant, LoopChangesMode, OutputMoves, locals
<1>3. CASE Killed \/ Launched
  BY <1>3, NoScanInv DEF Killed, Launched, locals, LeaveScope, ScanInv
<1>4. CASE Engine
  <2>1. CASE \/ Connect \/ ProbeOk \/ ProbeFails \/ Push \/ Reconnect \/ Beat \/ Sleep
    BY <2>1 DEF Connect, ProbeOk, ProbeFails, Push, Reconnect, Beat, Sleep, locals, ScanInv
  <2>2. CASE ReadFails \/ IdleScan \/ RejectInputs \/ Demote \/ WritesDone
    BY <2>2, NoScanInv DEF ReadFails, IdleScan, RejectInputs, Demote, WritesDone, LeaveScope
  <2>3. CASE ReadMode
    BY <2>3 DEF ReadMode, Sample, ScanInv, TypeOK, ScanType
  <2>4. CASE ReadMvMode
    BY <2>4 DEF ReadMvMode, Sample, ScanInv, TypeOK, ScanType
  <2>5. CASE ReadTarget
    BY <2>5 DEF ReadTarget, Sample, ScanInv, TypeOK, ScanType
  <2>6. CASE ReadHiHi \/ ReadLoLo
    BY <2>6 DEF ReadHiHi, ReadLoLo, Sample, ScanInv, TypeOK, ScanType
  <2>7. CASE SolveOk \/ SolveFails \/ RereadOps
    BY <2>7 DEF SolveOk, SolveFails, RereadOps, locals, ScanInv
  <2>8. CASE WriteBumpless \/ WriteMove
    BY <1>1, <2>8 DEF WriteBumpless, WriteMove, WriteNext, SkipNext
  <2>9. QED
    BY <1>4, <2>1, <2>2, <2>3, <2>4, <2>5, <2>6, <2>7, <2>8 DEF Engine
<1>5. CASE UNCHANGED vars
  BY <1>1, <1>5 DEF vars, locals
<1>6. QED
  BY <1>2, <1>3, <1>4, <1>5 DEF Next

LEMMA ScanInvAlways == Spec => []ScanInv
<1>1. QED
  BY ScanInvInit, ScanInvStep, TypeCorrect, PTL DEF Spec

-----------------------------------------------------------------------------
LEMMA AcceptsType ==
  ASSUME NEW f, NEW g
  PROVE  Accepts(f, g) \in [MVs -> BOOLEAN]
  BY DEF Accepts

(* An empty sample permits nothing, so only the current permissions count. *)
LEMMA AcceptsNothing ==
  ASSUME NEW f, NEW g, \A m \in MVs : f[m] = Local /\ g[m] = Local
  PROVE  \A m \in MVs : ~Accepts(f, g)[m]
<1> SUFFICES ASSUME NEW m \in MVs PROVE ~Accepts(f, g)[m]
  OBVIOUS
<1>1. f[m] # RemoteCascade /\ g[m] # RemoteCascade
  BY DEF Local, RemoteCascade
<1>2. Accepts(f, g)[m] = (f[m] = RemoteCascade \/ g[m] = RemoteCascade)
  BY DEF Accepts
<1>3. QED
  BY <1>1, <1>2, Zenon

LEMMA AcceptsAlone ==
  ASSUME NEW F \in [MVs -> BOOLEAN], NEW f, NEW g,
         \A m \in MVs : f[m] = Local /\ g[m] = Local
  PROVE  [m \in MVs |-> F[m] \/ Accepts(f, g)[m]] = F
<1>1. ASSUME NEW m \in MVs PROVE (F[m] \/ Accepts(f, g)[m]) = F[m]
  <2>1. F[m] \in BOOLEAN /\ ~Accepts(f, g)[m]
    BY AcceptsNothing
  <2>2. QED
    BY <2>1, Zenon
<1>2. [m \in MVs |-> F[m] \/ Accepts(f, g)[m]] = [m \in MVs |-> F[m]]
  BY <1>1, Zenon
<1>3. [m \in MVs |-> F[m]] = F
  OBVIOUS
<1>4. QED
  BY <1>2, <1>3

LEMMA EmptySample ==
  ASSUME \A m \in MVs : scan.mvMode[m] = Local /\ scan.target[m] = Local
  PROVE  Accepted = Accepts(mvMode, modeTarget)
  BY AcceptsType, AcceptsAlone DEF Accepted

LEMMA EmptySampleNext ==
  ASSUME scan' = NoScan, UNCHANGED <<mvMode, modeTarget>>
  PROVE  Accepted' = Accepts(mvMode, modeTarget)
<1> DEFINE F == Accepts(mvMode, modeTarget)
<1>1. \A m \in MVs : scan'.mvMode[m] = Local /\ scan'.target[m] = Local
  BY DEF NoScan
<1>2. F \in [MVs -> BOOLEAN]
  BY AcceptsType
<1>3. [m \in MVs |-> F[m] \/ Accepts(scan'.mvMode, scan'.target)[m]] = F
  BY <1>1, <1>2, AcceptsAlone
<1>4. Accepted' = [m \in MVs |-> F[m] \/ Accepts(scan'.mvMode, scan'.target)[m]]
  BY DEF Accepted, Accepts
<1>5. QED
  BY <1>3, <1>4

LEMMA GateInit == Init => Gate!Init
<1> SUFFICES ASSUME Init PROVE Gate!Init
  OBVIOUS
<1>1. Accepted = Accepts(mvMode, modeTarget)
  BY EmptySample DEF Init, NoScan
<1>2. Accepts(mvMode, modeTarget) \in [MVs -> BOOLEAN]
  BY AcceptsType
<1>3. opMode \in Gate!OperatingModes /\ sp \in [MVs -> Values]
  BY DEF Init, OperatingModes, Idle, Monitor, Engage, Gate!OperatingModes, Gate!Idle,
     Gate!Monitor, Gate!Engage
<1>4. scan.mode # Engage
  BY DEF Init, NoScan, Idle, Engage
<1>5. QED
  BY <1>1, <1>2, <1>3, <1>4 DEF Gate!Init, Gate!Engage, Engage, Accepted

(* A step that keeps what the gate sees is a stuttering step of it.        *)
LEMMA GateStutter ==
  ASSUME UNCHANGED <<opMode, mvMode, modeTarget, sp, Armed, Accepted>>
  PROVE  UNCHANGED Gate!vars
  BY DEF Gate!vars, Armed, Accepted, Accepts

(* Leaving the scope of a scan forgets the sample.                         *)
LEMMA GateScanEnds ==
  ASSUME UNCHANGED <<opMode, mvMode, modeTarget, sp>>, scan' = NoScan
  PROVE  Gate!ScanEnds
<1>1. Accepted' = Accepts(mvMode, modeTarget) /\ UNCHANGED Accepts(mvMode, modeTarget)
  BY EmptySampleNext DEF Accepts
<1>2. scan'.mode # Engage
  BY DEF NoScan, Idle, Engage
<1>3. QED
  BY <1>1, <1>2 DEF Gate!ScanEnds, Gate!Engage, Engage, Accepted

LEMMA GateStep == TypeOK /\ ScanInv /\ ScanInv' /\ [Next]_vars => [Gate!Next]_(Gate!vars)
<1> SUFFICES ASSUME TypeOK, ScanInv, ScanInv', [Next]_vars
             PROVE  Gate!Next \/ UNCHANGED Gate!vars
  OBVIOUS
<1>1. CASE Operator
  <2>1. ASSUME NEW m \in OperatingModes, OperatorSetsMode(m)
        PROVE  Gate!OperatorSelects(m)
    BY <2>1 DEF OperatorSetsMode, Gate!OperatorSelects, Gate!Engage, Engage, Accepts, locals
  <2>2. ASSUME NEW m \in MVs, NEW t \in LoopModes, OperatorSetsTarget(m, t)
        PROVE  Gate!LoopsChange
    BY <2>2 DEF OperatorSetsTarget, Gate!LoopsChange, Accepts, locals
  <2>3. ASSUME NEW m \in MVs, NEW p \in LimitPairs, OperatorSetsLimits(m, p)
        PROVE  UNCHANGED Gate!vars
    BY <2>3, GateStutter DEF OperatorSetsLimits, locals, Armed, Accepted, Accepts
  <2>4. QED
    BY <1>1, <2>1, <2>2, <2>3 DEF Operator, Gate!Next, OperatingModes, Gate!OperatingModes,
       Idle, Monitor, Engage, Gate!Idle, Gate!Monitor, Gate!Engage
<1>2. CASE Plant
  <2>1. ASSUME NEW m \in MVs, NEW t \in LoopModes, LoopChangesMode(m, t)
        PROVE  Gate!LoopsChange
    BY <2>1 DEF LoopChangesMode, Gate!LoopsChange, Accepts, locals
  <2>2. ASSUME NEW m \in MVs, NEW v \in Values, OutputMoves(m, v)
        PROVE  UNCHANGED Gate!vars
    BY <2>2, GateStutter DEF OutputMoves, locals, Armed, Accepted, Accepts
  <2>3. QED
    BY <1>2, <2>1, <2>2 DEF Plant, Gate!Next
<1>3. CASE UNCHANGED <<opMode, mvMode, modeTarget, sp, scan>>
  BY <1>3, GateStutter DEF Armed, Accepted, Accepts
<1>4. CASE Killed \/ Launched
  BY <1>3, <1>4, GateScanEnds DEF Killed, Launched, LeaveScope, nodes, locals, Gate!Next
<1>5. CASE Engine
  <2>1. CASE \/ Connect \/ ProbeOk \/ ProbeFails \/ Push \/ Reconnect \/ Beat \/ Sleep
             \/ SolveOk \/ SolveFails \/ RereadOps
    BY <1>3, <2>1 DEF Connect, ProbeOk, ProbeFails, Push, Reconnect, Beat, Sleep,
       SolveOk, SolveFails, RereadOps, nodes, locals
  <2>2. CASE ReadFails \/ IdleScan \/ RejectInputs \/ WritesDone
    BY <2>2, GateScanEnds DEF ReadFails, IdleScan, RejectInputs, WritesDone, LeaveScope, nodes,
       Gate!Next
  <2>3. CASE ReadMode
    <3>1. /\ scan.mode = Idle /\ scan'.mode = opMode
          /\ scan'.mvMode = scan.mvMode /\ scan'.target = scan.target
          /\ UNCHANGED <<opMode, mvMode, modeTarget, sp>>
      BY <2>3 DEF ReadMode, Sample, nodes, ScanInv, TypeOK, ScanType
    <3>2. UNCHANGED Armed
      BY <3>1 DEF Armed, Idle, Engage
    <3>3. UNCHANGED Accepted
      BY <3>1 DEF Accepted, Accepts
    <3>4. QED
      BY <3>1, <3>2, <3>3, GateStutter
  <2>4. CASE ReadMvMode
    BY <2>4, GateStutter DEF ReadMvMode, Sample, nodes, ScanInv, TypeOK, ScanType,
       Armed, Accepted, Accepts, Local, RemoteCascade
  <2>5. CASE ReadTarget
    <3>1. /\ \A m \in MVs : scan.target[m] = Local
          /\ scan'.target = modeTarget
          /\ scan'.mvMode = scan.mvMode /\ scan'.mode = scan.mode
          /\ UNCHANGED <<opMode, mvMode, modeTarget, sp>>
      BY <2>5 DEF ReadTarget, Sample, nodes, ScanInv, TypeOK, ScanType
    <3>2. UNCHANGED Armed
      BY <3>1 DEF Armed
    <3>3. ASSUME NEW m \in MVs
          PROVE  (Accepts(mvMode, modeTarget)[m] \/ Accepts(scan.mvMode, scan.target)[m])'
                 = (Accepts(mvMode, modeTarget)[m] \/ Accepts(scan.mvMode, scan.target)[m])
      <4> DEFINE A == mvMode[m] = RemoteCascade
                 B == modeTarget[m] = RemoteCascade
                 C == scan.mvMode[m] = RemoteCascade
      <4>1. scan.target[m] # RemoteCascade
        BY <3>1 DEF Local, RemoteCascade
      <4>2. Accepts(mvMode, modeTarget)[m] = (A \/ B)
        BY DEF Accepts
      <4>3. Accepts(scan.mvMode, scan.target)[m] = (C \/ scan.target[m] = RemoteCascade)
        BY DEF Accepts
      <4>4. Accepts(mvMode', modeTarget')[m] = (A \/ B)
        BY <3>1 DEF Accepts
      <4>5. Accepts(scan'.mvMode, scan'.target)[m] = (C \/ B)
        BY <3>1 DEF Accepts
      <4>6. (Accepts(mvMode, modeTarget)[m] \/ Accepts(scan.mvMode, scan.target)[m])
            = (A \/ B \/ C)
        BY <4>1, <4>2, <4>3, Zenon
      <4>7. (Accepts(mvMode', modeTarget')[m] \/ Accepts(scan'.mvMode, scan'.target)[m])
            = (A \/ B \/ C)
        BY <4>4, <4>5, Zenon
      <4>8. QED
        BY <4>6, <4>7
    <3>4. UNCHANGED Accepted
      BY <3>3 DEF Accepted
    <3>5. QED
      BY <3>1, <3>2, <3>4, GateStutter
  <2>6. CASE ReadHiHi \/ ReadLoLo
    BY <2>6, GateStutter DEF ReadHiHi, ReadLoLo, Sample, nodes, TypeOK, ScanType,
       Armed, Accepted, Accepts
  <2>7. CASE Demote
    <3>1. scan' = NoScan /\ UNCHANGED <<mvMode, modeTarget, sp>>
      BY <2>7 DEF Demote, LeaveScope
    <3>2. CASE opMode' = opMode
      BY <3>1, <3>2, GateScanEnds DEF Gate!Next
    <3>3. CASE opMode' \in {Idle, Monitor}
      <4>1. Accepted' = Accepts(mvMode, modeTarget) /\ UNCHANGED Accepts(mvMode, modeTarget)
        BY <3>1, EmptySampleNext DEF Accepts
      <4>2. scan'.mode # Engage /\ opMode' # Engage
        BY <3>1, <3>3 DEF NoScan, Idle, Monitor, Engage
      <4>3. opMode' \in Gate!OperatingModes \ {Gate!Engage}
        BY <3>3 DEF Gate!OperatingModes, Gate!Idle, Gate!Monitor, Gate!Engage, Idle, Monitor
      <4>4. Gate!Demote
        BY <3>1, <4>1, <4>2, <4>3 DEF Gate!Demote, Accepted
      <4>5. QED
        BY <4>4 DEF Gate!Next
    <3>4. QED
      BY <2>7, <3>2, <3>3 DEF Demote, Landed
  <2>8. CASE WriteBumpless \/ WriteMove
    <3>1. CASE sp' = sp
      BY <1>3, <2>8, <3>1 DEF WriteBumpless, WriteMove, WriteNext, SkipNext, nodes
    <3>2. CASE sp' # sp
      <4>1. /\ mv \in MVs /\ scan.mode = Engage
            /\ scan.mvMode[mv] = RemoteCascade \/ scan.target[mv] = RemoteCascade
            /\ WriteNext(plan[mv]) \/ WriteNext(ops[mv])
        BY <2>8, <3>2 DEF WriteBumpless, WriteMove, SkipNext, nodes, MayWrite, Requested
      <4>2. \E v \in Values : sp' = [sp EXCEPT ![mv] = v]
        BY <4>1 DEF TypeOK, WriteNext, Landed
      <4>3. UNCHANGED <<opMode, mvMode, modeTarget, scan>>
        BY <4>1 DEF WriteNext
      <4>4. Gate!WriteSetpoint(mv)
        BY <4>1, <4>2, <4>3 DEF Gate!WriteSetpoint, Accepts, Engage
      <4>5. QED
        BY <4>1, <4>4 DEF Gate!Next
    <3>3. QED
      BY <3>1, <3>2
  <2>9. QED
    BY <1>5, <2>1, <2>2, <2>3, <2>4, <2>5, <2>6, <2>7, <2>8 DEF Engine
<1>6. CASE UNCHANGED vars
  BY <1>3, <1>6 DEF vars, nodes, locals
<1>7. QED
  BY <1>1, <1>2, <1>4, <1>5, <1>6 DEF Next

(* Setpoints change only under permissions sampled in the same scan, and   *)
(* the engine only ever leaves Engage (main.rs sections A, E and the       *)
(* failure ladder).                                                        *)
THEOREM EngineImplementsGate == Spec => GateSpec
<1>1. QED
  BY GateInit, GateStep, TypeCorrect, ScanInvAlways, PTL DEF Spec, GateSpec, Gate!Spec

-----------------------------------------------------------------------------
(* ApcEngine implements LimitGate: what was sampled of limits and outputs  *)
(* was so since the scan began, and a setpoint rests on nothing else.      *)

Highs   == Seen(hihi, scan.hihi, HiHiPcs)
Lows    == Seen(lolo, scan.lolo, LoLoPcs)
Outputs == Seen(op, ops, {"WriteMv"})

LEMMA BoundsInit == Init => Bounds!Init
<1> SUFFICES ASSUME Init PROVE Bounds!Init
  OBVIOUS
<1>1. /\ hihi \in [MVs -> Values] /\ lolo \in [MVs -> Values] /\ op \in [MVs -> Values]
      /\ sp \in [MVs -> Values]
  BY ConstantTypes DEF Init
<1>2. /\ Highs = [m \in MVs |-> {hihi[m]}] /\ Lows = [m \in MVs |-> {lolo[m]}]
      /\ Outputs = [m \in MVs |-> {op[m]}]
  BY DEF Init, Highs, Lows, Outputs, Seen, HiHiPcs, LoLoPcs
<1>3. QED
  BY <1>1, <1>2 DEF Bounds!Init, Highs, Lows, Outputs

(* Any step that leaves the setpoints alone observes, when what it samples *)
(* is what the nodes hold, and what it no longer holds is forgotten.       *)
LEMMA Observes ==
  ASSUME TypeOK, TypeOK', UNCHANGED sp,
         \/ pc' \notin HiHiPcs
         \/ scan'.hihi = hihi'
         \/ (pc \in HiHiPcs /\ scan'.hihi = scan.hihi),
         \/ pc' \notin LoLoPcs
         \/ scan'.lolo = lolo'
         \/ (pc \in LoLoPcs /\ scan'.lolo = scan.lolo),
         \/ pc' # "WriteMv" \/ ops' = op' \/ ops' = [m \in MVs |-> 0]
         \/ (pc = "WriteMv" /\ ops' = ops)
  PROVE  Bounds!Observe
<1>1. /\ hihi' \in [MVs -> Values] /\ lolo' \in [MVs -> Values] /\ op' \in [MVs -> Values]
  BY DEF TypeOK
<1>2. ASSUME NEW m \in MVs
      PROVE  /\ hihi'[m] \in Highs'[m] /\ Highs'[m] \subseteq Highs[m] \cup {hihi'[m]}
             /\ lolo'[m] \in Lows'[m] /\ Lows'[m] \subseteq Lows[m] \cup {lolo'[m]}
             /\ op'[m] \in Outputs'[m] /\ Outputs'[m] \subseteq Outputs[m] \cup {op'[m], 0}
  BY DEF Highs, Lows, Outputs, Seen
<1>3. QED
  BY <1>1, <1>2 DEF Bounds!Observe, Highs, Lows, Outputs

(* A step of the loop that samples no limit and no output.                 *)
LEMMA ObservesKept ==
  ASSUME TypeOK, TypeOK', UNCHANGED sp,
         pc' \in HiHiPcs => pc \in HiHiPcs /\ scan'.hihi = scan.hihi,
         pc' \in LoLoPcs => pc \in LoLoPcs /\ scan'.lolo = scan.lolo,
         pc' = "WriteMv" => pc = "WriteMv" /\ ops' = ops
  PROVE  Bounds!Observe
  BY Observes

LEMMA BoundsStep == TypeOK /\ TypeOK' /\ [Next]_vars => [Bounds!Next]_(Bounds!vars)
<1> SUFFICES ASSUME TypeOK, TypeOK', [Next]_vars PROVE Bounds!Next \/ UNCHANGED Bounds!vars
  OBVIOUS
<1> USE DEF HiHiPcs, LoLoPcs
<1>1. CASE UNCHANGED <<sp, pc, scan, ops>>
  BY <1>1, ObservesKept DEF Bounds!Next
<1>2. CASE Operator \/ Plant
  BY <1>1, <1>2 DEF Operator, OperatorSetsMode, OperatorSetsTarget, OperatorSetsLimits,
     Plant, LoopChangesMode, OutputMoves, locals
<1>3. CASE Killed \/ Launched
  BY <1>3, ObservesKept DEF Killed, Launched, nodes, Bounds!Next
<1>4. CASE Engine
  <2>1. CASE \/ Connect \/ ProbeOk \/ ProbeFails \/ Push \/ Reconnect \/ Beat \/ Sleep
             \/ ReadFails \/ IdleScan \/ RejectInputs \/ Demote \/ WritesDone
    BY <2>1, ObservesKept DEF Connect, ProbeOk, ProbeFails, Push, Reconnect, Beat, Sleep,
       ReadFails, IdleScan, RejectInputs, Demote, WritesDone, nodes, locals, Bounds!Next
  <2>2. CASE ReadMode \/ ReadMvMode \/ ReadTarget
    BY <2>2, ObservesKept DEF ReadMode, ReadMvMode, ReadTarget, Sample, nodes, Bounds!Next
  <2>3. CASE ReadHiHi
    BY <2>3, Observes DEF ReadHiHi, Sample, nodes, TypeOK, ScanType, Bounds!Next
  <2>4. CASE ReadLoLo
    BY <2>4, Observes DEF ReadLoLo, Sample, nodes, TypeOK, ScanType, Bounds!Next
  <2>5. CASE SolveOk \/ SolveFails
    BY <2>5, ObservesKept DEF SolveOk, SolveFails, locals, Bounds!Next
  <2>6. CASE RereadOps
    BY <2>6, Observes DEF RereadOps, nodes, Bounds!Next
  <2>7. CASE WriteBumpless \/ WriteMove
    <3>1. CASE sp' = sp
      BY <1>1, <2>7, <3>1 DEF WriteBumpless, WriteMove, WriteNext, SkipNext, nodes
    <3>2. CASE sp' # sp
      <4>1. /\ mv \in MVs /\ pc = "WriteMv"
            /\ WriteNext(ops[mv]) \/ (WriteNext(plan[mv]) /\ ~Tripped(mv))
        BY <2>7, <3>2 DEF WriteBumpless, WriteMove, SkipNext, nodes
      <4>2. PICK v \in Values : /\ sp' = [sp EXCEPT ![mv] = v]
                                /\ v = ops[mv] \/ (v = plan[mv] /\ ~Tripped(mv))
        BY <3>2, <4>1 DEF TypeOK, WriteNext, Landed
      <4>3. v \in Outputs[mv] \/ Bounds!Respects(mv, v)
        <5>1. v = ops[mv] => v \in Outputs[mv]
          BY <4>1 DEF Outputs, Seen
        <5>2. scan.hihi[mv] \in Highs[mv] /\ scan.lolo[mv] \in Lows[mv]
          BY <4>1 DEF Highs, Lows, Seen
        <5>3. v = plan[mv] /\ ~Tripped(mv) => v <= scan.hihi[mv] /\ scan.lolo[mv] <= v
          <6>1. plan[mv] \in Int /\ scan.hihi[mv] \in Int /\ scan.lolo[mv] \in Int
            BY <4>1, EngineAssumption DEF EngineAssumption, TypeOK, ScanType
          <6>2. QED
            BY <6>1 DEF Tripped
        <5>4. QED
          BY <4>2, <5>1, <5>2, <5>3 DEF Bounds!Respects, Highs, Lows
      <4>4. UNCHANGED <<op, lolo, hihi, Highs, Lows, Outputs>>
        BY <4>1 DEF WriteNext, Highs, Lows, Outputs, Seen
      <4>5. Bounds!WriteSetpoint(mv)
        BY <4>2, <4>3, <4>4 DEF Bounds!WriteSetpoint, Bounds!nodes, Bounds!known, Highs, Lows, Outputs
      <4>6. QED
        BY <4>1, <4>5 DEF Bounds!Next
    <3>3. QED
      BY <3>1, <3>2
  <2>8. QED
    BY <1>4, <2>1, <2>2, <2>3, <2>4, <2>5, <2>6, <2>7 DEF Engine
<1>5. CASE UNCHANGED vars
  BY <1>1, <1>5 DEF vars, nodes, locals
<1>6. QED
  BY <1>2, <1>3, <1>4, <1>5 DEF Next

(* Whatever the operator, the plant and the network do: a setpoint respects*)
(* limits in force since the scan began, or copies an output of that time, *)
(* or is the zero that stands for outputs that could not be read (main.rs  *)
(* section E).                                                             *)
THEOREM EngineKeepsLimits == Spec => LimitSpec
<1>1. QED
  BY BoundsInit, BoundsStep, TypeCorrect, PTL DEF Spec, LimitSpec, Bounds!Spec
=============================================================================
