------------------------------ MODULE MCHexGuard ------------------------------
(* HexGuard with a handful of frames: motions, the acknowledgement, one with    *)
(* another role's name, a mode switch that lacks mandatory fields.             *)
EXTENDS HexGuard

Frame(seq, crc, action, param) ==
  [seq |-> seq, crc |-> crc, form |-> "complete", action |-> action, param |-> param,
   params |-> TRUE, auth |-> "good", echo |-> TRUE, policy |-> TRUE]

RunFirst  == Frame(1, "a", "motor_run", AnyParam)
RunSecond == Frame(2, "b", "motor_run", AnyParam)
StopThird == Frame(3, "c", "motor_stop", AnyParam)
Ack       == Frame(2, "d", "operator_ack", AnyParam)
Collab    == Frame(1, "e", "mode_switch", ModeCollab)

MotionFrames == {RunFirst, RunSecond, Ack, [Ack EXCEPT !.echo = FALSE]}
OtherFrames == {StopThird, [Collab EXCEPT !.form = "incomplete"]}
MCCrcs == {"a", "b", "c", "d", "e"}
=============================================================================
