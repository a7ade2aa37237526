---------------------------- MODULE ConstraintTool ----------------------------
(***************************************************************************)
(* The constraint tool chain and what becomes of its output: a package     *)
(* (tools/smt_dsl.py) is verified (smt_verify.py), turned into tables      *)
(* (smt_codegen.py) or refused, and a firmware built with the tables lets  *)
(* events move its state machine (guard_state.c) and judges commands by L3 *)
(* (guard_policy.c).  A package is what load_constraints makes of the YAML *)
(* file: fixed-point numbers, and for each kind of entry a set, or a       *)
(* function where a second entry would define the same C array twice.      *)
(***************************************************************************)
EXTENDS GuardPolicy

CONSTANTS
  Packages,    \* the packages an author may write
  Objects,     \* parameter objects of command frames
  EventParams, \* parameters of event frames
  Word,        \* how many values a uint32_t of the tables has: 2^32, or what TLC is given
  Unset        \* no param in a transition: any

Anything == "*"      \* wildcard source state of a transition
AnyState == "ANY"    \* GUARD_STATE_ANY
AnyParam == 65535    \* 0xFFFF: wildcard parameter of a table row

Largest(S) == CHOOSE x \in S : \A y \in S : y <= x

\* Wide enough for the 16-bit parameters and the numbers of the committed package.
ASSUME WordAssumption == Word \in Nat /\ Word > 131072

ASSUME UnsetAssumption == Unset \notin Int

\* What load_constraints makes of any YAML file it accepts (_parse_expr,
\* _to_fixed, _parse_state_machine), for the parts the proofs use.  Numbers may
\* be negative, and of any size.
ASSUME PackagesAssumption ==
  \A p \in Packages :
    /\ \A r \in p.ranges \cup p.restricts : r.lo \in Int /\ r.hi \in Int
    /\ \A id \in DOMAIN p.enums : p.enums[id] \in Seq(Int)
    /\ \A c \in p.combines : /\ {c.p1, c.p2} \subseteq 0 .. 2
                              /\ c.op \in {"<=", ">="} /\ c.limit \in Int
    /\ \A w \in p.denials \cup p.restricts : w.values \in Seq(Int)
    /\ IsFiniteSet(p.states) /\ p.initial \in p.states
    /\ DOMAIN p.transitions \subseteq Nat
    /\ \A i \in DOMAIN p.transitions : /\ p.transitions[i].param \in Int \cup {Unset}
                                       /\ p.transitions[i].src # AnyState
                                       /\ p.transitions[i].dst \in p.states

\* Parameter objects after the check of hex4_guard.c:273.
ASSUME ObjectsAssumption ==
  \A object \in Objects : \A id \in DOMAIN object : object[id] = Bad \/ object[id] \in 0 .. Word - 1

InSeq(x, s) == \E i \in DOMAIN s : s[i] = x

Distinct(s) == \A i, j \in DOMAIN s : i # j => s[i] # s[j]

-----------------------------------------------------------------------------
\* What the entries of a package mean, for a value v of the parameter and the
\* value m of the parameter it depends on.

Power(x, n) == CASE n = 0 -> 1 [] n = 1 -> x [] n = 2 -> x * x

\* _expr_to_z3, the constant factor folded into the limit.
Within(c, v, m) ==
  LET lhs == Power(m, c.p1) * Power(v, c.p2)
  IN  IF c.op = "<=" THEN lhs <= c.limit ELSE lhs >= c.limit

\* _collect_domain: the largest value the parameter may have.
DomainBounds(p, id) ==
  IF \E r \in p.ranges : r.param = id
  THEN {r.hi : r \in {r \in p.ranges : r.param = id}}
  ELSE UNION {{0},
              UNION {{p.enums[e][i] : i \in DOMAIN p.enums[e]} : e \in {id} \cap DOMAIN p.enums},
              UNION {{w.values[i] : i \in DOMAIN w.values} :
                        w \in {w \in p.denials \cup p.restricts : w.param = id}},
              {w.hi : w \in {w \in p.restricts : w.target = id}}}

Vmax(p, id) == Largest(DomainBounds(p, id))

HasDomain(p, id) == (\E r \in p.ranges : r.param = id) \/ Vmax(p, id) > 0

\* The bound of one bucket: the largest (smallest) value that satisfies the entry.
Allowed(p, c, m) == {v \in 0 .. Vmax(p, c.out) : Within(c, v, m)}

Bound(p, c, m) ==
  IF c.op = "<=" THEN Largest(Allowed(p, c, m)) ELSE First(Allowed(p, c, m))

Bounds(p, c) == [k \in DOMAIN c.domain |-> Bound(p, c, c.domain[k])]

-----------------------------------------------------------------------------
\* smt_verify.py: the checks on the value entries.

\* Two intervals have a value in common.
Meets(a, b) == a.lo <= b.hi /\ b.lo <= a.hi /\ a.lo <= a.hi /\ b.lo <= b.hi

RangeOk(p, r) ==
  /\ r.lo <= r.hi
  /\ \A q \in p.ranges : q.param = r.param => Meets(q, r)

EnumOk(p, id) ==
  /\ p.enums[id] # <<>> /\ Distinct(p.enums[id])
  /\ \A r \in p.ranges : r.param = id =>
       \A i \in DOMAIN p.enums[id] : p.enums[id][i] \in r.lo .. r.hi

\* The buckets are the values of the ENUM of the bucket parameter, in any order.
BucketsComplete(p, c) ==
  /\ c.bucket \in DOMAIN p.enums
  /\ Len(p.enums[c.bucket]) = Len(c.domain)
  /\ \A k \in DOMAIN c.domain : InSeq(c.domain[k], p.enums[c.bucket])
  /\ \A k \in DOMAIN c.domain : InSeq(p.enums[c.bucket][k], c.domain)

\* For every bucket a bound exists, and comparing with it is the same as the entry.
CombineOk(p, c) ==
  /\ BucketsComplete(p, c)
  /\ HasDomain(p, c.out)
  /\ \A k \in DOMAIN c.domain :
       LET allowed == Allowed(p, c, c.domain[k])
           bound == Bound(p, c, c.domain[k])
       IN  /\ allowed # {} /\ bound \in allowed
           /\ \A v \in 0 .. Vmax(p, c.out) :
                v \in allowed <=> IF c.op = "<=" THEN v <= bound ELSE v >= bound

WhenOk(p, w) ==
  /\ w.values # <<>> /\ Distinct(w.values)
  /\ w.param \in DOMAIN p.enums
  /\ \A i \in DOMAIN w.values : InSeq(w.values[i], p.enums[w.param])

DenialOk(p, w) == WhenOk(p, w) /\ w.deny \subseteq DOMAIN p.actions

RestrictOk(p, w) ==
  /\ WhenOk(p, w)
  /\ \A r \in p.ranges : r.param = w.target => Meets(r, w)

ValuesOk(p) ==
  /\ \A r \in p.ranges : RangeOk(p, r)
  /\ \A id \in DOMAIN p.enums : EnumOk(p, id)
  /\ \A c \in p.combines : CombineOk(p, c)
  /\ \A w \in p.denials : DenialOk(p, w)
  /\ \A w \in p.restricts : RestrictOk(p, w)

-----------------------------------------------------------------------------
\* smt_verify.py: the state machine.

\* The values of an event's parameter, from its ENUM if there is one.
ParamDomain(p, event) ==
  {p.enums[p.eventParam[event]][i] : i \in DOMAIN p.enums[p.eventParam[event]]}

\* _parse_state_machine refuses the parameter of an event that has none, or one
\* outside its ENUM.
TransitionOk(p, t) ==
  t.param # Unset =>
    /\ p.eventParam[t.event] # Unset
    /\ p.eventParam[t.event] \in DOMAIN p.enums => t.param \in ParamDomain(p, t.event)

\* Mutant of Overlap: wildcards are not taken to overlap anything.
SameEntry(a, b) == a.event = b.event /\ a.src = b.src /\ a.param = b.param

Overlap(a, b) ==
  /\ a.event = b.event
  /\ a.src = b.src \/ Anything \in {a.src, b.src}
  /\ a.param = b.param \/ Unset \in {a.param, b.param}

\* States connected to the initial one, whatever the event.
Reachable(p) ==
  LET reach[n \in 0 .. Cardinality(p.states)] ==
        IF n = 0 THEN {p.initial}
        ELSE LET known == reach[n - 1]
             IN  known \cup {p.transitions[i].dst : i \in
                   {i \in DOMAIN p.transitions : p.transitions[i].src \in known \cup {Anything}}}
  IN  reach[Cardinality(p.states)]

StateMachineOk(p) ==
  /\ \A i \in DOMAIN p.transitions : TransitionOk(p, p.transitions[i])
  /\ \A i, j \in DOMAIN p.transitions :
       i < j => ~Overlap(p.transitions[i], p.transitions[j])
  /\ p.states \subseteq Reachable(p)
  /\ \A s \in p.states : p.deny[s] \subseteq 0 .. 31
  /\ "estop_release" \in DOMAIN p.eventParam =>
       \E i \in DOMAIN p.transitions : p.transitions[i].event = "estop_release"

\* trans: the transition the verification takes for an event with a parameter.
Matching(p, s, e, x) ==
  {i \in DOMAIN p.transitions :
     /\ p.transitions[i].src \in {s, Anything}
     /\ p.transitions[i].event = e
     /\ p.transitions[i].param \in {x, Unset}}

Target(p, s, e, x) ==
  IF Matching(p, s, e, x) = {} THEN s ELSE p.transitions[First(Matching(p, s, e, x))].dst

\* The inputs the verification considers: an event with a parameter takes every
\* value of the ENUM, which must exist.
ParamsDeclared(p) ==
  \A e \in DOMAIN p.eventParam : p.eventParam[e] \in {Unset} \cup DOMAIN p.enums

Inputs(p) ==
  UNION {IF p.eventParam[e] = Unset THEN {<<e, AnyParam>>}
         ELSE {<<e, x>> : x \in ParamDomain(p, e)} : e \in DOMAIN p.eventParam}

Steps(p, from) ==
  {[at |-> s, event |-> in[1], to |-> Target(p, s, in[1], in[2])] :
     s \in from, in \in Inputs(p)}

\* Mutant of Depth: too short for a chain through all states.
DepthHalved(p) == Cardinality(p.states) \div 2

Depth(p) == 2 * Cardinality(p.states) + 2

\* The paths of the bounded model check, as the set of i-th steps they may take.
Paths(p) ==
  LET path[i \in 1 .. Depth(p)] ==
        Steps(p, IF i = 1 THEN {p.initial} ELSE {step.to : step \in path[i - 1]})
  IN  path

\* eval_prop: an action class is allowed if the state denies none of its actions.
Holds(p, prop, s, e) ==
  \E alternative \in prop : \A lit \in alternative :
    lit.sign = CASE lit.kind = "state" -> s = lit.name
                 [] lit.kind = "event" -> e = lit.name
                 [] lit.kind = "allow" ->
                      \A a \in DOMAIN p.actions :
                        p.actions[a] = lit.name => a \notin p.deny[s]

\* _verify_ltl.  The last state is paired with the event that led to it.  For
\* p -> q without X the check of the last state indexes past the events, so that
\* an implication that holds raises and one that fails is refused.
LtlOk(p, f) ==
  LET path == Paths(p)
      k == Depth(p)
      always == /\ \A i \in 1 .. k : \A t \in path[i] : Holds(p, f.rhs, t.at, t.event)
                /\ \A t \in path[k] : Holds(p, f.rhs, t.to, t.event)
      ever == \/ \E i \in 1 .. k : \E t \in path[i] : Holds(p, f.rhs, t.at, t.event)
              \/ \E t \in path[k] : Holds(p, f.rhs, t.to, t.event)
      next == \A i \in 1 .. k : \A t \in path[i] : Holds(p, f.lhs, t.at, t.event) =>
                IF i < k
                THEN \A u \in path[i + 1] : u.at = t.to => Holds(p, f.rhs, u.at, u.event)
                ELSE Holds(p, f.rhs, t.to, t.event)
  IN  /\ ParamsDeclared(p)
      /\ f.op = "G" => always
      /\ f.op = "F" => ever
      /\ f.op = "->X" => next
      /\ f.op # "->"

Verified(p) == ValuesOk(p) /\ StateMachineOk(p) /\ \A f \in p.ltls : LtlOk(p, f)

-----------------------------------------------------------------------------
\* smt_codegen.py: the definitions and tables of a verified package.  It prints
\* Python's integers with a suffix u into fields of 32, 16 and 8 bits; what does
\* not fit is cut by the C compiler.

Byte(v) == v % 256

Words(s) == [i \in DOMAIN s |-> s[i] % Word]

\* The entries on a parameter, and the definition each becomes.
Entries(p, id) ==
  {[kind |-> "RANGE", entry |-> r] : r \in {r \in p.ranges : r.param = id}}
  \cup {[kind |-> "ENUM", entry |-> e] : e \in {id} \cap DOMAIN p.enums}
  \cup {[kind |-> "RANGE_LUT", entry |-> c] : c \in {c \in p.combines : c.out = id}}
  \cup {[kind |-> "COND", entry |-> w] : w \in {w \in p.restricts : w.target = id}}

Emit(p, lut, id, e) ==
  CASE e.kind = "RANGE" -> RangeDef(id, e.entry.lo % Word, e.entry.hi % Word)
    [] e.kind = "ENUM" -> EnumDef(id, Words(p.enums[id]))
    [] e.kind = "RANGE_LUT" ->
         LutDef(id, IF e.entry.op = "<=" THEN 0 ELSE 1, Words(lut[e.entry]), Byte(e.entry.bucket))
    [] e.kind = "COND" ->
         CondDef(id, e.entry.lo % Word, e.entry.hi % Word, Words(e.entry.values), Byte(e.entry.param))

Defs(p, lut, id) == {Emit(p, lut, id, e) : e \in Entries(p, id)}

\* What the generator refuses: the counts and bits it compares with the runtime's
\* fields.
Emittable(p) ==
  /\ \A w \in p.restricts : Len(w.values) <= 15
  /\ \A w \in p.denials : w.deny \subseteq 0 .. 63
  /\ {Cardinality(p.states), Cardinality(DOMAIN p.eventParam), Len(p.transitions)}
       \subseteq 0 .. 255

Gates(p) ==
  {[ref |-> Byte(w.param), count |-> Byte(Len(w.values)), vals |-> Words(w.values),
    deny |-> w.deny] : w \in p.denials}

\* The tables a firmware may have: beyond 255 gates their number, a uint8, is cut,
\* and the last ones are never looked at.
GateTables(p) ==
  IF Cardinality(p.denials) < 256 THEN {Gates(p)} ELSE SUBSET Gates(p)

\* Mutant of Rows: a transition without a parameter is written with parameter 0.
RowsWithoutWildcard(p) ==
  [i \in DOMAIN p.transitions |->
     LET t == p.transitions[i]
     IN  [from |-> IF t.src = Anything THEN AnyState ELSE t.src,
          event |-> t.event,
          param |-> IF t.param = Unset THEN 0 ELSE t.param % 65536,
          to |-> t.dst]]

Rows(p) ==
  [i \in DOMAIN p.transitions |->
     LET t == p.transitions[i]
     IN  [from |-> IF t.src = Anything THEN AnyState ELSE t.src,
          event |-> t.event,
          param |-> IF t.param = Unset THEN AnyParam ELSE t.param % 65536,
          to |-> t.dst]]

-----------------------------------------------------------------------------
\* The firmware: guard_state.c over the generated rows, and the two judgements
\* hex4_guard.c makes of an action command once its sender is known.

RowsFor(rows, s, e, x) ==
  {i \in DOMAIN rows :
     rows[i].from \in {s, AnyState} /\ rows[i].event = e /\ rows[i].param \in {x, AnyParam}}

Successor(rows, s, e, x) ==
  IF RowsFor(rows, s, e, x) = {} THEN s ELSE rows[First(RowsFor(rows, s, e, x))].to

StateAllows(deny, id) == id < 32 /\ id \notin deny

Judge(params, gates, deny, action, role, object) ==
  IF ~Mappable(action, object) THEN "ENCODING"
  ELSE IF ~StateAllows(deny, action.id) THEN "DENY_STATE"
  ELSE PolicyCheck(action, role, Mapped(action, object), gates)

VARIABLES
  package,  \* what the author wrote
  stage,    \* written, refused or verified; installed once a firmware has its tables
  lut,      \* the bounds the verification found for each combine2 entry
  params,   \* the action table's entry for motor_run, one definition each
  gates,    \* g_gen_action_gates
  rows,     \* g_gen_state_trans
  state,    \* s_state
  last      \* the event or command being handled, with what became of it

vars == <<package, stage, lut, params, gates, rows, state, last>>

Nothing == [kind |-> "none"]

Init ==
  /\ package \in Packages
  /\ stage = "written"
  /\ lut = <<>> /\ params = <<>> /\ gates = {} /\ rows = <<>>
  /\ state = AnyState
  /\ last = Nothing

\* smt_compile.py: verify, then generate unless a check failed.
Compile ==
  /\ stage = "written"
  /\ stage' = IF Verified(package) /\ Emittable(package) THEN "verified" ELSE "refused"
  /\ lut' = [c \in package.combines |-> IF stage' = "verified" THEN Bounds(package, c) ELSE <<>>]
  /\ UNCHANGED <<package, params, gates, rows, state, last>>

\* Mutant of Install: guard_state_init is forgotten.
InstallWithoutInit ==
  /\ stage = "verified" /\ package.denials # {}
  /\ stage' = "installed"
  /\ \E speed \in Defs(package, lut, 1), payload \in Defs(package, lut, 2), door \in Defs(package, lut, 4),
         force \in Defs(package, lut, 3), mode \in Defs(package, lut, 5) :
       params' = <<speed, payload, door, force, mode>>
  /\ gates' \in GateTables(package)
  /\ rows' = Rows(package)
  /\ UNCHANGED <<package, lut, state, last>>

\* The user attaches one generated definition to each parameter of motor_run, and
\* the firmware starts (guard_state_init).  Without an interlock there is no
\* g_gen_action_gates, and guard_policy.c does not build.
Install ==
  /\ stage = "verified" /\ package.denials # {}
  /\ stage' = "installed"
  /\ \E speed \in Defs(package, lut, 1), payload \in Defs(package, lut, 2), door \in Defs(package, lut, 4),
         force \in Defs(package, lut, 3), mode \in Defs(package, lut, 5) :
       params' = <<speed, payload, door, force, mode>>
  /\ gates' \in GateTables(package)
  /\ rows' = Rows(package)
  /\ state' = package.initial
  /\ UNCHANGED <<package, lut, last>>

\* guard_state_event.
Event(e, x) ==
  /\ x = AnyParam \/ package.eventParam[e] # Unset
  /\ state' = Successor(rows, state, e, x)
  /\ last' = [kind |-> "event", event |-> e, param |-> x]
  /\ UNCHANGED <<package, stage, lut, params, gates, rows>>

Command(action, role, object) ==
  /\ last' = [kind |-> "command", action |-> action.id, role |-> role, object |-> object,
               result |-> Judge(params, gates, package.deny[state], action, role, object)]
  /\ UNCHANGED <<package, stage, lut, params, gates, rows, state>>

\* One frame, or one event of the firmware's own, is handled at a time.
Handle ==
  /\ stage = "installed" /\ last = Nothing
  /\ \/ \E e \in DOMAIN package.eventParam, x \in EventParams \cup {AnyParam} : Event(e, x)
     \/ \E action \in ActionTable(params), role \in Roles, object \in Objects :
          Command(action, role, object)

Return ==
  /\ last # Nothing
  /\ last' = Nothing
  /\ UNCHANGED <<package, stage, lut, params, gates, rows, state>>

Next == Compile \/ Install \/ Handle \/ Return

Spec == Init /\ [][Next]_vars

-----------------------------------------------------------------------------

Judgements == Results \cup {"ENCODING", "DENY_STATE"}

\* Type correctness: the state machine is in a declared state once the firmware
\* runs, whatever the rows say, and the table has one definition per parameter.
TypeOK ==
  /\ package \in Packages
  /\ stage \in {"written", "refused", "verified", "installed"}
  /\ stage = "installed" =>
       /\ state \in package.states
       /\ [i \in DOMAIN params |-> params[i].id] = <<1, 2, 4, 3, 5>>
  /\ last.kind = "command" => last.result \in Judgements

\* What an entry of the package asks of a command.
Satisfied(p, id, e, object) ==
  CASE e.kind = "RANGE" -> object[id] \in e.entry.lo .. e.entry.hi
    [] e.kind = "ENUM" -> InSeq(object[id], p.enums[id])
    [] e.kind = "RANGE_LUT" -> Within(e.entry, object[id], object[e.entry.bucket])
    [] e.kind = "COND" ->
         InSeq(object[e.entry.param], e.entry.values) =>
           object[id] \in e.entry.lo .. e.entry.hi

\* What the tool leaves to the author.  It compares the buckets with the ENUM as
\* sets (smt_verify.py:148), and the firmware takes the place in the ENUM for the
\* bucket; it accepts a transition parameter that the table's 16 bits, or its
\* wildcard, take for another; and it accepts any number where the C table has
\* 32 bits and no sign, or 8.
BucketsInOrder(p) ==
  \A c \in p.combines : c.bucket \in DOMAIN p.enums => c.domain = p.enums[c.bucket]

ParamsFit(p) ==
  \A i \in DOMAIN p.transitions :
    p.transitions[i].param = Unset \/ p.transitions[i].param \in 0 .. AnyParam - 1

NumbersFit(p) ==
  /\ \A r \in p.ranges \cup p.restricts : {r.lo, r.hi} \subseteq 0 .. Word - 1
  /\ \A id \in DOMAIN p.enums : \A i \in DOMAIN p.enums[id] : p.enums[id][i] \in 0 .. Word - 1
  /\ \A c \in p.combines : c.bucket \in 0 .. 255 /\ Vmax(p, c.out) \in 0 .. Word - 1
  /\ \A w \in p.denials \cup p.restricts :
       /\ w.param \in 0 .. 255 /\ Len(w.values) < 256
       /\ \A i \in DOMAIN w.values : w.values[i] \in 0 .. Word - 1
  /\ Cardinality(p.denials) < 256

\* Where the author kept to that, a motor_run command is admitted only if it
\* satisfies every entry of the package that the action table attaches, in the
\* sense of the package (for combine2, its formula), and every interlock that
\* names a parameter of it.
AdmittedMeetsPackage ==
  (/\ last.kind = "command" /\ last.action = 1 /\ last.result = "OK"
   /\ BucketsInOrder(package) /\ NumbersFit(package)) =>
     /\ \A i \in DOMAIN params : \A e \in Entries(package, params[i].id) :
          Emit(package, lut, params[i].id, e) = params[i] =>
            Satisfied(package, params[i].id, e, last.object)
     /\ \A w \in package.denials :
          w.param \in DOMAIN last.object /\ InSeq(last.object[w.param], w.values) =>
            1 \notin w.deny

\* What is left to the user of the tables: policy_check_lut and policy_check_cond
\* refuse unless the parameter a definition refers to is attached with its ENUM.
RefsAttached(ps) ==
  \A i \in DOMAIN ps : ps[i].kind \in {"RANGE_LUT", "COND"} =>
    Refers(ps, ps[i]) /\ RefDef(ps, ps[i]).kind = "ENUM"

\* The parameters of combine2 entries are within the domain the tool considered.
WithinDomain(p, object) ==
  \A c \in p.combines : c.out \in DOMAIN object => object[c.out] <= Vmax(p, c.out)

\* The converse, the "strict equivalence" on the domain [0, Vmax] (smt_verify.py:9):
\* a motor_run command refused for a parameter or by an interlock breaks an
\* attached entry, or an interlock of the package.
RefusedBreaksPackage ==
  (/\ last.kind = "command" /\ last.action = 1
   /\ last.result \in {"DENY_PARAM", "DENY_ACTION"}
   /\ BucketsInOrder(package) /\ NumbersFit(package) /\ RefsAttached(params)
   /\ WithinDomain(package, last.object)) =>
     \/ \E i \in DOMAIN params : \E e \in Entries(package, params[i].id) :
          /\ Emit(package, lut, params[i].id, e) = params[i]
          /\ ~Satisfied(package, params[i].id, e, last.object)
     \/ \E w \in package.denials :
          /\ w.param \in DOMAIN last.object /\ InSeq(last.object[w.param], w.values)
          /\ 1 \in w.deny

\* "The verification guarantees there is no ambiguity" (guard_state.c:35): in the
\* firmware at most one row answers to a state, an event and a parameter, so that
\* taking the first hides none.
NoRowIsShadowed ==
  stage = "installed" /\ ParamsFit(package) =>
    \A e \in DOMAIN package.eventParam, x \in EventParams \cup {AnyParam} :
      \A i, j \in RowsFor(rows, state, e, x) : i = j

\* The formulas that passed the bounded check hold of the running firmware, for
\* events with a parameter the check considered: the depth is enough, the tables
\* mean what the package says.
LtlHoldsAtRuntime ==
  [][(last'.kind = "event" /\ last'.param \in {x[2] : x \in {x \in Inputs(package) : x[1] = last'.event}}
      /\ ParamsFit(package)) =>
       \A f \in package.ltls :
         /\ f.op = "G" => Holds(package, f.rhs, state, last'.event)
         /\ f.op = "->X" /\ Holds(package, f.lhs, state, last'.event) =>
              \A e \in DOMAIN package.eventParam : Holds(package, f.rhs, state', e)]_vars

=============================================================================
