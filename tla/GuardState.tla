------------------------------ MODULE GuardState ------------------------------
(***************************************************************************)
(* The safety state machine of the guard: the table tools/smt_compile.py   *)
(* generates (generated/guard_state_gen.c) and the interpreter that walks  *)
(* it (guard_state.c).  Everything here is a pure operator on the current  *)
(* state: the variable itself, s_state, belongs to the modules that use it *)
(* under a lock.                                                           *)
(***************************************************************************)
EXTENDS Naturals, FiniteSets

States == {"IDLE", "MANUAL", "AUTO", "COLLAB", "ESTOP_LATCH"}
Events == {"mode_switch", "estop_release", "operator_ack", "door_open", "collision"}

AnyState == "ANY"     \* GUARD_STATE_ANY: wildcard source, and s_state before init
AnyParam == 65535     \* 0xFFFF: wildcard parameter, and "no parameter"

ModeAuto   == 0
ModeManual == 1
ModeCollab == 2

Row(from, ev, param, to) == [from |-> from, event |-> ev, param |-> param, to |-> to]

\* The transition table, in the order of the generated array.
g_gen_state_trans ==
  << Row("IDLE",        "mode_switch",   ModeAuto,   "AUTO"),
     Row("IDLE",        "mode_switch",   ModeManual, "MANUAL"),
     Row("IDLE",        "mode_switch",   ModeCollab, "COLLAB"),
     Row("AUTO",        "mode_switch",   ModeManual, "MANUAL"),
     Row("AUTO",        "mode_switch",   ModeCollab, "COLLAB"),
     Row("MANUAL",      "mode_switch",   ModeAuto,   "AUTO"),
     Row("MANUAL",      "mode_switch",   ModeCollab, "COLLAB"),
     Row("COLLAB",      "mode_switch",   ModeAuto,   "AUTO"),
     Row("COLLAB",      "mode_switch",   ModeManual, "MANUAL"),
     Row(AnyState,      "estop_release", AnyParam,   "ESTOP_LATCH"),
     Row("ESTOP_LATCH", "operator_ack",  AnyParam,   "IDLE"),
     Row(AnyState,      "door_open",     AnyParam,   "ESTOP_LATCH"),
     Row(AnyState,      "collision",     AnyParam,   "ESTOP_LATCH") >>

g_gen_state_initial == "IDLE"

\* Deny bitmap per state, as the set of denied action names: 0x6 in the
\* latched state (motor_run and motor_stop), 0 elsewhere.
Denied(s) == IF s = "ESTOP_LATCH" THEN {"motor_run", "motor_stop"} ELSE {}

\* Events a command frame may name, and whether they carry a parameter.
CommandEvents == {"operator_ack", "mode_switch"}

-----------------------------------------------------------------------------

RowMatches(row, s, ev, param) ==
  /\ row.from \in {s, AnyState}
  /\ row.event = ev
  /\ row.param \in {param, AnyParam}

MatchingRows(s, ev, param) ==
  {i \in DOMAIN g_gen_state_trans : RowMatches(g_gen_state_trans[i], s, ev, param)}

\* GUARD_STATE_OK as against GUARD_STATE_NO_TRANS.
HasTransition(s, ev, param) == MatchingRows(s, ev, param) # {}

\* guard_state_event: the first matching row in table order decides; without
\* one the state stays.
NextState(s, ev, param) ==
  IF HasTransition(s, ev, param)
  THEN g_gen_state_trans[CHOOSE i \in MatchingRows(s, ev, param) :
                           \A j \in MatchingRows(s, ev, param) : i <= j].to
  ELSE s

\* guard_state_allows: an uninitialised machine allows nothing.
Allows(s, action) == s \in States /\ action \notin Denied(s)

=============================================================================
