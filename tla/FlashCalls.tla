----------------------------- MODULE FlashCalls -----------------------------
(***************************************************************************)
(* The calls that the flash algorithms are written with, one at a time:    *)
(* between its beginning and its return a call changes the contents once,  *)
(* to what it is for, and it returns the answer that these contents give.  *)
(* Nothing is promised any more once trust in the access is lost.          *)
(***************************************************************************)
CONSTANTS
  Idle,           \* no call is being made
  Effect(_, _),   \* Effect(c, mem): the contents after call c
  Answer(_, _)    \* Answer(c, mem): what c returns on these contents

VARIABLES mem, call, goal, answer, trusted

vars == <<mem, call, goal, answer, trusted>>

Init == call = Idle

Begin ==
  /\ call = Idle
  /\ goal' = Effect(call', mem)
  /\ mem' = mem

Take ==
  /\ call # Idle
  /\ mem' \in {mem, goal}
  /\ UNCHANGED <<call, goal>>

Return ==
  /\ call # Idle
  /\ call' = Idle
  /\ mem = goal
  /\ answer' = Answer(call, mem)
  /\ UNCHANGED <<mem, goal>>

Next ==
  \/ trusted /\ trusted' /\ (Begin \/ Take \/ Return)
  \/ ~trusted'

Spec == Init /\ [][Next]_vars
=============================================================================
