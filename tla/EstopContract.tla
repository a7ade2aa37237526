----------------------------- MODULE EstopContract -----------------------------
(***************************************************************************)
(* What the guard owes whoever stands next to the machine, without tasks,  *)
(* frames or locks.  A motion needs a grant, a grant is only given while   *)
(* the emergency stop is not latched, there is one grant at a time, and    *)
(* the latch is acknowledged only when neither a grant nor a motion is     *)
(* outstanding.  A grant given before the stop trips may still start: that *)
(* much the code leaves open, and no more than one per trip.               *)
(***************************************************************************)
VARIABLES
  latched,   \* the emergency stop is latched
  granted,   \* one motion has been admitted and has not started
  motion     \* the machine moves

vars == <<latched, granted, motion>>

Init == ~latched /\ ~granted /\ ~motion

Trip == latched' = TRUE /\ UNCHANGED <<granted, motion>>

Acknowledge ==
  /\ latched /\ ~granted /\ ~motion
  /\ latched' = FALSE
  /\ UNCHANGED <<granted, motion>>

Grant ==
  /\ ~latched /\ ~granted /\ ~motion
  /\ granted' = TRUE
  /\ UNCHANGED <<latched, motion>>

Withdraw == granted /\ granted' = FALSE /\ UNCHANGED <<latched, motion>>

Start ==
  /\ granted
  /\ granted' = FALSE
  /\ motion' = TRUE
  /\ UNCHANGED latched

Halt == motion' = FALSE /\ UNCHANGED <<latched, granted>>

Next == Trip \/ Acknowledge \/ Grant \/ Withdraw \/ Start \/ Halt

Spec == Init /\ [][Next]_vars
=============================================================================
