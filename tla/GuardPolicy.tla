------------------------------ MODULE GuardPolicy ------------------------------
(***************************************************************************)
(* The L3 judgement of an action command (guard_policy.c) over the tables  *)
(* it is given: the action table of the user (guard_permissions.c) and the *)
(* generated gates.  A command is the sequence of its parameters, an array *)
(* a sequence (<<>> for NULL), a bitmap the set of its members.            *)
(***************************************************************************)
EXTENDS Integers, Sequences, FiniteSets

\* guard_param_def_t, one constructor per kind.
RangeDef(id, lo, hi) ==
  [id |-> id, kind |-> "RANGE", lo |-> lo, hi |-> hi,
   vals |-> <<>>, bounds |-> <<>>, ref |-> 0]

EnumDef(id, vals) ==
  [id |-> id, kind |-> "ENUM", lo |-> 0, hi |-> Len(vals),
   vals |-> vals, bounds |-> <<>>, ref |-> 0]

LutDef(id, lower, bounds, ref) ==
  [id |-> id, kind |-> "RANGE_LUT", lo |-> lower, hi |-> Len(bounds),
   vals |-> <<>>, bounds |-> bounds, ref |-> ref]

CondDef(id, lo, hi, whens, ref) ==
  [id |-> id, kind |-> "COND", lo |-> lo, hi |-> hi,
   vals |-> whens, bounds |-> <<>>, ref |-> ref]

First(S) == CHOOSE i \in S : \A j \in S : i <= j

\* policy_find_ref: the parameter of the command with an id, if it has one.
Carries(cmd, id) == \E i \in DOMAIN cmd : cmd[i].id = id

ValueOf(cmd, id) == cmd[First({i \in DOMAIN cmd : cmd[i].id = id})].value

\* The definition a LUT or COND definition refers to, in the action's own list.
Refers(params, def) == \E j \in DOMAIN params : params[j].id = def.ref

RefDef(params, def) == params[First({j \in DOMAIN params : params[j].id = def.ref})]

\* Mutant of InEnum: the last value is left out.
InEnumButLast(def, v) == \E e \in 1 .. def.hi - 1 : def.vals[e] = v

InEnum(def, v) == \E e \in 1 .. def.hi : def.vals[e] = v

\* The slot of the reference value in the list of its ENUM definition, which is
\* the index into the bounds.
Bucket(params, def, cmd) ==
  LET ref == RefDef(params, def)
  IN  First({k \in 1 .. ref.hi : ref.vals[k] = ValueOf(cmd, def.ref)})

\* Mutant of LutPasses: every table is taken for one of upper bounds.
LutUpperOnly(params, def, cmd, v) ==
  /\ Refers(params, def) /\ Carries(cmd, def.ref)
  /\ InEnum(RefDef(params, def), ValueOf(cmd, def.ref))
  /\ v <= def.bounds[Bucket(params, def, cmd)]

\* policy_check_lut: what is missing or malformed refuses.
LutPasses(params, def, cmd, v) ==
  /\ Refers(params, def)
  /\ RefDef(params, def).vals # <<>>
  /\ def.bounds # <<>>
  /\ Carries(cmd, def.ref)
  /\ RefDef(params, def).kind = "ENUM"
  /\ InEnum(RefDef(params, def), ValueOf(cmd, def.ref))
  /\ Bucket(params, def, cmd) <= def.hi
  /\ IF def.lo = 0
     THEN v <= def.bounds[Bucket(params, def, cmd)]
     ELSE v >= def.bounds[Bucket(params, def, cmd)]

\* policy_check_cond: the interval holds only when the reference value is listed.
CondPasses(params, def, cmd, v) ==
  /\ Refers(params, def)
  /\ RefDef(params, def).kind = "ENUM"
  /\ Len(def.vals) \in 1 .. 15
  /\ (/\ Carries(cmd, def.ref)
      /\ \E e \in DOMAIN def.vals : def.vals[e] = ValueOf(cmd, def.ref)) =>
        def.lo <= v /\ v <= def.hi

Passes(params, def, cmd, v) ==
  CASE def.kind = "RANGE" -> def.lo <= v /\ v <= def.hi
    [] def.kind = "RANGE_LUT" -> LutPasses(params, def, cmd, v)
    [] def.kind = "COND" -> CondPasses(params, def, cmd, v)
    [] def.kind = "ENUM" -> InEnum(def, v)

\* A gate that applies: its parameter is in the command with a listed value.
\* when_count says how much of the list is looked at.  The bitmap has 64 bits; an
\* action beyond them is refused, and so is every action when the list is missing.
GateDenies(gate, action, cmd) ==
  /\ Carries(cmd, gate.ref)
  /\ \/ gate.vals = <<>>
     \/ /\ \E k \in 1 .. gate.count : gate.vals[k] = ValueOf(cmd, gate.ref)
        /\ action.id >= 64 \/ action.id \in gate.deny

\* Parameters that fail, by their place in the action's list.
Failing(action, cmd) ==
  {i \in DOMAIN action.params :
     \/ cmd[i].id # action.params[i].id
     \/ ~Passes(action.params, action.params[i], cmd, cmd[i].value)}

Results ==
  {"OK", "DENY_PERM", "DENY_ACTION", "DENY_PARAM", "BAD_PARAM_ID", "BAD_COUNT"}

\* guard_policy_check: permission, count, gates, then the first failing parameter.
PolicyCheck(action, role, cmd, gates) ==
  IF action.roles # {} /\ role \notin action.roles THEN "DENY_PERM"
  ELSE IF Len(cmd) # Len(action.params) THEN "BAD_COUNT"
  ELSE IF \E gate \in gates : GateDenies(gate, action, cmd) THEN "DENY_ACTION"
  ELSE IF Failing(action, cmd) = {} THEN "OK"
  ELSE LET i == First(Failing(action, cmd))
       IN  IF cmd[i].id # action.params[i].id THEN "BAD_PARAM_ID" ELSE "DENY_PARAM"

-----------------------------------------------------------------------------
\* guard_permissions.c and the generated tables it refers to.

g_gen_lut_tcp_speed == <<250, 141, 100, 63, 44>>
g_gen_enum_payload == <<0, 1000, 2000, 5000, 10000>>
g_gen_enum_safety_door == <<0, 1>>
g_gen_cond_tcp_force == <<2>>
g_gen_enum_mode == <<0, 1, 2>>

\* One definition per parameter, in the order of the signed encoding.
motor_run_params ==
  << LutDef(1, 0, g_gen_lut_tcp_speed, 2),
     EnumDef(2, g_gen_enum_payload),
     EnumDef(4, g_gen_enum_safety_door),
     CondDef(3, 0, 120000, g_gen_cond_tcp_force, 5),
     EnumDef(5, g_gen_enum_mode) >>

g_gen_action_gates == {[ref |-> 4, count |-> 1, vals |-> <<1>>, deny |-> {1, 2}]}

\* Roles 0, 1, 2: operator, maintenance, supervisor; {} stands for any role.
Roles == 0 .. 2

ActionTable(params) ==
  {[id |-> 1, roles |-> {0, 1}, params |-> params],
   [id |-> 2, roles |-> {0, 1, 2}, params |-> <<>>],
   [id |-> 0, roles |-> {}, params |-> <<>>]}

\* The parameters of a command frame, as a function from parameter to value,
\* put in the order of the action.  A missing, additional, fractional, negative
\* or oversized one (Bad stands for the last three) refuses the frame.
Bad == -1

Mappable(action, object) ==
  /\ DOMAIN object = {action.params[i].id : i \in DOMAIN action.params}
  /\ \A id \in DOMAIN object : object[id] # Bad

Mapped(action, object) ==
  [i \in DOMAIN action.params |->
     [id |-> action.params[i].id, value |-> object[action.params[i].id]]]

=============================================================================
