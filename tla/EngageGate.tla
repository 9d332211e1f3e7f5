----------------------------- MODULE EngageGate -----------------------------
(***************************************************************************)
(* What the APC engine promises the operator about setpoints.  The engine  *)
(* samples the plant's permissions once per scan, one OPC UA read after    *)
(* another, and acts on the sample later; so it cannot promise that a      *)
(* permission still holds at the instant of a write.  What it promises is  *)
(* that every permission a write relies on was in force at some moment     *)
(* since the scan began, and that the engine never engages by itself.      *)
(***************************************************************************)
EXTENDS Integers

CONSTANTS
  MVs,      \* the manipulated variables
  Values    \* setpoint values

Idle    == 0
Monitor == 1
Engage  == 2
OperatingModes == {Idle, Monitor, Engage}

VARIABLES
  mode,      \* the OperatingMode node
  armed,     \* Engage is in force, or was when the current scan sampled it
  accepts,   \* accepts[m]: m is in Remote Cascade, or Remote Cascade is requested
  accepted,  \* accepted[m]: accepts[m], now or when the current scan sampled it
  setpoint   \* setpoint[m]: the SP node of m

vars == <<mode, armed, accepts, accepted, setpoint>>

Init ==
  /\ mode \in OperatingModes
  /\ armed = (mode = Engage)
  /\ accepts \in [MVs -> BOOLEAN]
  /\ accepted = accepts
  /\ setpoint \in [MVs -> Values]

(* The operator selects a mode.  Only choosing Engage can arm the scan; a  *)
(* scan that has not sampled the mode yet never learns it was Engage.      *)
OperatorSelects(m) ==
  /\ mode' = m
  /\ armed' \in {m = Engage, armed \/ m = Engage}
  /\ UNCHANGED <<accepts, accepted, setpoint>>

(* The plant or the operator changes which loops accept the setpoints.     *)
LoopsChange ==
  /\ accepts' \in [MVs -> BOOLEAN]
  /\ accepted' \in [MVs -> BOOLEAN]
  /\ \A m \in MVs : /\ accepts'[m] => accepted'[m]
                    /\ accepted'[m] => accepted[m] \/ accepts'[m]
  /\ UNCHANGED <<mode, armed, setpoint>>

(* The sample is dropped: from here on only what holds now counts.         *)
ScanEnds ==
  /\ armed' = (mode = Engage)
  /\ accepted' = accepts
  /\ UNCHANGED <<mode, accepts, setpoint>>

(* The engine gives up after repeated failures: it only ever leaves Engage *)
Demote ==
  /\ mode' \in OperatingModes \ {Engage}
  /\ armed' = FALSE
  /\ accepted' = accepts
  /\ UNCHANGED <<accepts, setpoint>>

WriteSetpoint(m) ==
  /\ armed
  /\ accepted[m]
  /\ \E v \in Values : setpoint' = [setpoint EXCEPT ![m] = v]
  /\ UNCHANGED <<mode, armed, accepts, accepted>>

Next ==
  \/ \E m \in OperatingModes : OperatorSelects(m)
  \/ LoopsChange
  \/ ScanEnds
  \/ Demote
  \/ \E m \in MVs : WriteSetpoint(m)

Spec == Init /\ [][Next]_vars
=============================================================================
