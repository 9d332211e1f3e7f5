--------------------------- MODULE ControllerSlot ---------------------------
(***************************************************************************)
(* What the controller host promises about each controller: an engine is   *)
(* started only when none works for that controller, the listed state      *)
(* becomes Running only when one was started, and leaves Running only when *)
(* the operator stops the engine or the engine has ended.                  *)
(***************************************************************************)
CONSTANT Slots

VARIABLES
  shown,   \* shown[c]: the listed state of controller c
  phase    \* phase[c]: none, new (started, not listed yet), lost (ended
           \*   before it was listed), known (listed)

vars == <<shown, phase>>

Init == shown = [c \in Slots |-> "Stopped"] /\ phase = [c \in Slots |-> "none"]

Becomes(c, state, next) ==
  /\ shown' = [shown EXCEPT ![c] = state]
  /\ phase' = [phase EXCEPT ![c] = next]

Launch(c)   == phase[c] = "none" /\ shown[c] # "Running" /\ Becomes(c, shown[c], "new")
Ends(c)     == \/ phase[c] = "new" /\ Becomes(c, shown[c], "lost")
               \/ phase[c] = "known" /\ Becomes(c, shown[c], "none")
Announce(c) == \/ phase[c] = "new" /\ Becomes(c, "Running", "known")
               \/ phase[c] = "lost" /\ Becomes(c, "Running", "none")
GiveUp(c)   == phase[c] = "lost" /\ Becomes(c, shown[c], "none")
Retire(c)   == phase[c] \in {"known", "none"} /\ shown[c] = "Running"
               /\ Becomes(c, "Stopped", "none")
Notice(c)   == phase[c] = "none" /\ shown[c] = "Running"
               /\ \E state \in {"Stopped", "Failed"} : Becomes(c, state, "none")

Next == \E c \in Slots :
  Launch(c) \/ Ends(c) \/ Announce(c) \/ GiveUp(c) \/ Retire(c) \/ Notice(c)

Spec == Init /\ [][Next]_vars
=============================================================================
