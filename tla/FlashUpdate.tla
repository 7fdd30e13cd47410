---------------------------- MODULE FlashUpdate ----------------------------
(***************************************************************************)
(* What an update of the flash promises, whatever happens on the way: it   *)
(* reports success only at a moment when the flash holds all it was to     *)
(* hold, and leaves the flash alone from then on.  While it runs, or after *)
(* it stopped without success, the flash may hold anything.                *)
(***************************************************************************)
CONSTANT Achieved(_, _)   \* Achieved(g, mem): mem holds all that goal g wants

VARIABLES
  flash,    \* the contents
  goal,     \* what the flash is to hold
  outcome   \* "running", "verified" or "stopped"

vars == <<flash, goal, outcome>>

Init == outcome # "verified"

\* An update starts, with a goal of its own.
Begin ==
  /\ outcome # "running"
  /\ outcome' = "running"
  /\ flash' = flash

\* The flash changes; also late, after an update that was cut short.
Work ==
  /\ outcome # "verified"
  /\ UNCHANGED <<goal, outcome>>

Succeed ==
  /\ outcome = "running"
  /\ Achieved(goal, flash)
  /\ outcome' = "verified"
  /\ UNCHANGED <<flash, goal>>

Stop ==
  /\ outcome = "running"
  /\ outcome' = "stopped"
  /\ goal' = goal

Next == Begin \/ Work \/ Succeed \/ Stop

Spec == Init /\ [][Next]_vars
=============================================================================
