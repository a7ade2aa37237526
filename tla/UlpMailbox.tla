------------------------------- MODULE UlpMailbox -------------------------------
(***************************************************************************)
(* What the coprocessor and an application that it notifies by interrupt   *)
(* owe each other over the mailbox, without sampling, propagator, counters *)
(* or acknowledgements.  The self-test runs once, and its report is        *)
(* written before the command is taken away and before the wake-up; the    *)
(* watch begins when the application says so; an event is written before   *)
(* its wake-up and after the level it is about, which for a jump is above  *)
(* the ground level; the next run may overwrite what was not read.         *)
(***************************************************************************)
CONSTANTS
  Measured,  \* the levels a sample can have
  Ground     \* the lowest of them

Events == {"IDLE", "HEARTBEAT", "ALARM_JUMP", "ALARM_TC"}
Stages == {"rest", "raise", "retire", "wake"}

VARIABLES
  ulp_mode,     \* the command word: SELFTEST, IDLE or WATCH
  quant_state,  \* the level measured last
  status,       \* the event written last
  notified,     \* the application has a wake-up it has not taken
  stage         \* where the coprocessor is in a run

vars == <<ulp_mode, quant_state, status, notified, stage>>

Init ==
  /\ ulp_mode = "SELFTEST" /\ quant_state = Ground /\ status = "IDLE"
  /\ notified = FALSE /\ stage = "rest"

\* run_selftest: the report, then the command; main wakes the application.
Selftest ==
  /\ stage = "rest" /\ stage' = "retire"
  /\ ulp_mode = "SELFTEST" /\ status' = "SELFTEST_DONE"
  /\ UNCHANGED <<ulp_mode, quant_state, notified>>

Retire ==
  /\ stage = "retire" /\ stage' = "wake"
  /\ ulp_mode' = "IDLE"
  /\ UNCHANGED <<quant_state, status, notified>>

\* watch_cycle: an acknowledgement, if there is one, clears the event; then the
\* level is measured, and last the event written, of which IDLE wakes nobody.
Forget ==
  /\ stage = "rest" /\ ulp_mode = "WATCH"
  /\ status' = "IDLE"
  /\ UNCHANGED <<ulp_mode, quant_state, notified, stage>>

Measure(level) ==
  /\ stage = "rest" /\ stage' = "raise"
  /\ ulp_mode = "WATCH" /\ quant_state' = level
  /\ UNCHANGED <<ulp_mode, status, notified>>

Raise(event) ==
  /\ stage = "raise" /\ stage' = IF event = "IDLE" THEN "rest" ELSE "wake"
  /\ event = "ALARM_JUMP" => quant_state # Ground
  /\ status' = event
  /\ UNCHANGED <<ulp_mode, quant_state, notified>>

Wake ==
  /\ stage = "wake" /\ stage' = "rest"
  /\ notified' = TRUE
  /\ UNCHANGED <<ulp_mode, quant_state, status>>

Coprocessor ==
  \/ Selftest \/ Retire \/ Forget \/ Wake
  \/ \E level \in Measured : Measure(level)
  \/ \E event \in Events : Raise(event)

\* The application takes a wake-up, and starts the watch once the self-test has
\* taken its own command away.
Take ==
  /\ notified /\ notified' = FALSE
  /\ UNCHANGED <<ulp_mode, quant_state, status, stage>>

Watch ==
  /\ ulp_mode # "SELFTEST" /\ ulp_mode' = "WATCH"
  /\ UNCHANGED <<quant_state, status, notified, stage>>

Next == Coprocessor \/ Take \/ Watch

Spec == Init /\ [][Next]_vars
=============================================================================
