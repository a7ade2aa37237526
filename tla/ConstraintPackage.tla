--------------------------- MODULE ConstraintPackage ---------------------------
(***************************************************************************)
(* The package of the repository, tools/iso_constraints/demo_collab.yaml,  *)
(* and the tables committed for it: generated/guard_constraints_gen.c,     *)
(* generated/guard_state_gen.c and the hand-written guard_permissions.c.   *)
(***************************************************************************)
EXTENDS ConstraintTool

GS == INSTANCE GuardState

RangeEntry(param, lo, hi) == [param |-> param, lo |-> lo, hi |-> hi]

\* bucket^p1 * out^p2 op limit
Combine2(out, bucket, domain, p1, p2, op, limit) ==
  [out |-> out, bucket |-> bucket, domain |-> domain, p1 |-> p1, p2 |-> p2,
   op |-> op, limit |-> limit]

WhenDeny(param, values, deny) == [param |-> param, values |-> values, deny |-> deny]

WhenRestrict(param, values, target, lo, hi) ==
  [param |-> param, values |-> values, target |-> target, lo |-> lo, hi |-> hi]

Trans(src, event, param, dst) ==
  [src |-> src, event |-> event, param |-> param, dst |-> dst]

\* _expand_deny: the actions of a class.
Expand(actions, class) == {a \in DOMAIN actions : actions[a] = class}

\* A formula G(p), F(p), G(p -> q) or G(p -> X(q)).  A proposition is a set of
\* alternatives, each a set of literals that hold together.
Is(name) == [kind |-> "state", name |-> name, sign |-> TRUE]
IsNot(name) == [kind |-> "state", name |-> name, sign |-> FALSE]
Happens(name) == [kind |-> "event", name |-> name, sign |-> TRUE]
Forbids(class) == [kind |-> "allow", name |-> class, sign |-> FALSE]

Formula(op, p, q) == [op |-> op, lhs |-> p, rhs |-> q]
G(p) == Formula("G", {{}}, p)
F(p) == Formula("F", {{}}, p)
Next_(p, q) == Formula("->X", p, q)

\* The sections of the package, 1000 to a unit.
demo_actions == [a \in 0 .. 2 |-> IF a = 0 THEN "query" ELSE "motion"]

demo_ranges == {RangeEntry(1, 0, 250), RangeEntry(3, 0, 120000)}

demo_enums ==
  [id \in {2, 4, 5} |-> CASE id = 2 -> <<0, 1000, 2000, 5000, 10000>>
                          [] id = 4 -> <<0, 1>>
                          [] id = 5 -> <<0, 1, 2>>]

\* 0.5 * payload * tcp_speed^2 <= 0.01
demo_energy == Combine2(1, 2, <<0, 1000, 2000, 5000, 10000>>, 1, 2, "<=", 20000000)

demo_denials == {WhenDeny(4, <<1>>, Expand(demo_actions, "motion"))}

demo_restricts == {WhenRestrict(5, <<2>>, 3, 0, 120000), WhenRestrict(5, <<1>>, 1, 0, 100)}

demo_states == {"IDLE", "MANUAL", "AUTO", "COLLAB", "ESTOP_LATCH"}

demo_events ==
  [e \in {"mode_switch", "estop_release", "operator_ack", "door_open", "collision"} |->
     IF e = "mode_switch" THEN 5 ELSE Unset]

demo_transitions ==
  << Trans("IDLE", "mode_switch", 0, "AUTO"),
     Trans("IDLE", "mode_switch", 1, "MANUAL"),
     Trans("IDLE", "mode_switch", 2, "COLLAB"),
     Trans("AUTO", "mode_switch", 1, "MANUAL"),
     Trans("AUTO", "mode_switch", 2, "COLLAB"),
     Trans("MANUAL", "mode_switch", 0, "AUTO"),
     Trans("MANUAL", "mode_switch", 2, "COLLAB"),
     Trans("COLLAB", "mode_switch", 0, "AUTO"),
     Trans("COLLAB", "mode_switch", 1, "MANUAL"),
     Trans(Anything, "estop_release", Unset, "ESTOP_LATCH"),
     Trans("ESTOP_LATCH", "operator_ack", Unset, "IDLE"),
     Trans(Anything, "door_open", Unset, "ESTOP_LATCH"),
     Trans(Anything, "collision", Unset, "ESTOP_LATCH") >>

demo_ltls ==
  {G({{IsNot("ESTOP_LATCH")}, {Forbids("motion")}}),
   Next_({{Happens("door_open")}}, {{Is("ESTOP_LATCH")}}),
   Next_({{Happens("collision")}}, {{Is("ESTOP_LATCH")}}),
   F({{Is("COLLAB")}})}

demo_collab ==
  [actions |-> demo_actions, ranges |-> demo_ranges, enums |-> demo_enums,
   combines |-> {demo_energy}, denials |-> demo_denials, restricts |-> demo_restricts,
   states |-> demo_states, eventParam |-> demo_events, initial |-> "IDLE",
   deny |-> [s \in demo_states |->
               IF s = "ESTOP_LATCH" THEN Expand(demo_actions, "motion") ELSE {}],
   transitions |-> demo_transitions, ltls |-> demo_ltls]

\* The committed tables are those the tool generates today from the committed
\* package, and the hand-written entry of motor_run, which repeats their sizes
\* and limits as literals, attaches generated definitions unchanged.
CommittedTablesAreGenerated ==
  stage = "installed" /\ package = demo_collab =>
    /\ rows = GS!g_gen_state_trans
    /\ package.initial = GS!g_gen_state_initial
    /\ gates = g_gen_action_gates
    /\ \A i \in DOMAIN motor_run_params :
         motor_run_params[i] \in Defs(package, lut, motor_run_params[i].id)

=============================================================================
