----------------------------- MODULE LimitGate -----------------------------
(***************************************************************************)
(* What the APC engine promises about the safety limits.  The limits and   *)
(* the outputs are sampled read by read, high-high before low-low, and may *)
(* change before the write, so no promise about their present values can be*)
(* kept.  What is promised is that a setpoint respects a high-high and a   *)
(* low-low limit each in force at some moment since the scan began, or is  *)
(* an output the loop had in that time (bumpless transfer), or the fallback*)
(* that stands in for outputs that could not be read.                      *)
(***************************************************************************)
EXTENDS Integers

CONSTANTS
  MVs,       \* the manipulated variables
  Values,    \* values of limits, outputs and setpoints
  Fallback   \* stands in for an output that could not be read

VARIABLES
  high, low, output,  \* high[m], low[m], output[m]: the nodes of m, as they are
  highs, lows,        \* highs[m], lows[m]: limits a write may still rely on
  outputs,            \* outputs[m]: outputs a bumpless transfer may copy
  setpoint            \* setpoint[m]: the SP node of m

nodes == <<high, low, output>>
known == <<highs, lows, outputs>>
vars  == <<nodes, known, setpoint>>

Init ==
  /\ high \in [MVs -> Values] /\ low \in [MVs -> Values] /\ output \in [MVs -> Values]
  /\ setpoint \in [MVs -> Values]
  /\ highs = [m \in MVs |-> {high[m]}]
  /\ lows = [m \in MVs |-> {low[m]}]
  /\ outputs = [m \in MVs |-> {output[m]}]

(* Nodes change, are sampled and forgotten.  What is not in force now can  *)
(* only be what was known before; an output may turn out unreadable.       *)
Observe ==
  /\ high' \in [MVs -> Values] /\ low' \in [MVs -> Values] /\ output' \in [MVs -> Values]
  /\ \A m \in MVs :
       /\ high'[m] \in highs'[m] /\ highs'[m] \subseteq highs[m] \cup {high'[m]}
       /\ low'[m] \in lows'[m] /\ lows'[m] \subseteq lows[m] \cup {low'[m]}
       /\ output'[m] \in outputs'[m]
       /\ outputs'[m] \subseteq outputs[m] \cup {output'[m], Fallback}
  /\ UNCHANGED setpoint

Respects(m, v) == (\E h \in highs[m] : v <= h) /\ (\E l \in lows[m] : l <= v)

WriteSetpoint(m) ==
  /\ \E v \in Values : /\ Respects(m, v) \/ v \in outputs[m]
                       /\ setpoint' = [setpoint EXCEPT ![m] = v]
  /\ UNCHANGED <<nodes, known>>

Next == Observe \/ \E m \in MVs : WriteSetpoint(m)

Spec == Init /\ [][Next]_vars
=============================================================================
