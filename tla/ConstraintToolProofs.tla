-------------------------- MODULE ConstraintToolProofs --------------------------
(***************************************************************************)
(* For every package the tool accepts: the firmware built with its tables  *)
(* admits no command that breaks an attached entry or an interlock and     *)
(* refuses none that breaks no entry, no row of its state machine hides    *)
(* another, and the formulas of the bounded check hold as it runs.         *)
(***************************************************************************)
EXTENDS ConstraintPackage, WellFoundedInduction, FiniteSetTheorems, TLAPS

\* A parameter's value is found by its id: ids do not repeat in motor_run.
Ids == <<1, 2, 4, 3, 5>>

\* The generator ran on a package the verifier passed.
Generated ==
  /\ Verified(package) /\ Emittable(package)
  /\ lut = [c \in package.combines |-> Bounds(package, c)]

\* Its definitions are attached to the parameters of motor_run, its tables linked.
Installed ==
  /\ Generated
  /\ \E speed \in Defs(package, lut, 1), payload \in Defs(package, lut, 2),
        door \in Defs(package, lut, 4), force \in Defs(package, lut, 3),
        mode \in Defs(package, lut, 5) :
       params = <<speed, payload, door, force, mode>>
  /\ gates \in GateTables(package)
  /\ rows = Rows(package)

\* The last verdict is what the firmware's judgement gives in the present state.
Judged ==
  \E action \in ActionTable(params), role \in Roles, object \in Objects :
    last = [kind |-> "command", action |-> action.id, role |-> role, object |-> object,
            result |-> Judge(params, gates, package.deny[state], action, role, object)]

\* The inductive invariant: the firmware holds what a passed verification
\* produced, and a command's verdict is what these tables say of it.
IInv ==
  /\ package \in Packages
  /\ stage = "verified" => Generated
  /\ stage = "installed" => Installed
  /\ last.kind = "command" => stage = "installed" /\ Judged

\* Before a package is loaded nothing is generated, installed or judged.
LEMMA InvInit == Init => IInv
  BY DEF Init, IInv, Nothing

\* Each stage of the tool, and each call of the firmware, keeps what the earlier
\* ones established.
LEMMA InvNext == IInv /\ [Next]_vars => IInv'
<1> SUFFICES ASSUME IInv, [Next]_vars PROVE IInv'
  OBVIOUS
<1>1. CASE Compile
  <2>1. last' = last /\ package' = package /\ stage = "written"
    BY <1>1 DEF Compile
  <2>2. stage' = "verified" => Generated'
    BY <1>1 DEF Compile, Generated
  <2>3. stage' # "installed"
    BY <1>1 DEF Compile
  <2> QED BY <2>1, <2>2, <2>3 DEF IInv
<1>2. CASE Install
  <2>1. Generated /\ package' = package /\ lut' = lut /\ last' = last /\ stage = "verified"
    BY <1>2 DEF Install, IInv
  <2>2. Generated'
    BY <2>1 DEF Generated
  <2>3. Installed'
    BY <1>2, <2>1, <2>2 DEF Install, Installed
  <2>4. stage' = "installed" /\ last.kind # "command"
    BY <1>2, <2>1 DEF Install, IInv
  <2> QED BY <2>1, <2>3, <2>4 DEF IInv
<1>3. ASSUME stage = "installed",
             UNCHANGED <<package, stage, lut, params, gates, rows>>,
             last'.kind = "command" => Judged'
      PROVE  IInv'
  <2>1. Generated' /\ Installed'
    BY <1>3 DEF IInv, Installed, Generated
  <2> QED BY <1>3, <2>1 DEF IInv
<1>4. CASE Handle
  <2>1. ASSUME NEW e \in DOMAIN package.eventParam, NEW x \in EventParams \cup {AnyParam}, Event(e, x)
        PROVE  IInv'
    <3>1. last'.kind # "command"
      BY <2>1 DEF Event
    <3> QED BY <1>3, <1>4, <2>1, <3>1 DEF Event, Handle
  <2>2. ASSUME NEW action \in ActionTable(params), NEW role \in Roles, NEW object \in Objects,
               Command(action, role, object)
        PROVE  IInv'
    <3>1. Judged'
      BY <2>2 DEF Command, Judged
    <3> QED BY <1>3, <1>4, <2>2, <3>1 DEF Command, Handle
  <2> QED BY <1>4, <2>1, <2>2 DEF Handle
<1>5. CASE Return
  <2>1. last'.kind # "command"
    BY <1>5 DEF Return, Nothing
  <2>2. CASE stage = "installed"
    BY <1>3, <1>5, <2>1, <2>2 DEF Return
  <2>3. CASE stage # "installed"
    BY <1>5, <2>1, <2>3 DEF Return, IInv, Generated
  <2> QED BY <2>2, <2>3
<1>6. CASE UNCHANGED vars
  BY <1>6 DEF vars, IInv, Generated, Installed, Judged
<1> QED BY <1>1, <1>2, <1>4, <1>5, <1>6 DEF Next

\* Whatever the firmware runs came out of a verification that passed, and is what the
\* generator makes of the package (smt_compile.py: verify, then generate).
THEOREM TablesAreVerified == Spec => []IInv
  BY InvInit, InvNext, PTL DEF Spec

-----------------------------------------------------------------------------
\* Rows and transitions.

\* A parameter that fits is not cut to 16 bits, nor taken for the wildcard.
LEMMA NotCut ==
  ASSUME NEW v \in Nat, v < AnyParam
  PROVE  v % 65536 = v /\ v # AnyParam
BY SMT DEF AnyParam

LEMMA ParamFits ==
  ASSUME NEW v \in 0 .. AnyParam - 1
  PROVE  v % 65536 = v /\ v # AnyParam
<1>1. AnyParam \in Nat
  BY SMT DEF AnyParam
<1>2. v \in Nat /\ v < AnyParam
  BY <1>1, SMT
<1> QED BY <1>2, NotCut

\* A row answers to a state and a parameter when its transition does: neither
\* wildcard of the table is confused with a state or a parameter of the package.
LEMMA RowMeansTransition ==
  ASSUME NEW p \in Packages, ParamsFit(p), NEW s, NEW e, NEW x,
         NEW i \in RowsFor(Rows(p), s, e, x)
  PROVE  LET t == p.transitions[i]
         IN  /\ i \in DOMAIN p.transitions
             /\ t.event = e /\ t.src \in {s, Anything} /\ t.param \in {x, Unset}
<1> DEFINE t == p.transitions[i]
<1>1. i \in DOMAIN p.transitions
  BY DEF RowsFor, Rows
<1>2. (t.param = Unset \/ t.param \in 0 .. AnyParam - 1) /\ t.src # AnyState
  BY <1>1, PackagesAssumption DEF ParamsFit
<1>3. /\ (IF t.src = Anything THEN AnyState ELSE t.src) \in {s, AnyState}
      /\ t.event = e
      /\ (IF t.param = Unset THEN AnyParam ELSE t.param % 65536) \in {x, AnyParam}
  BY <1>1 DEF RowsFor, Rows
<1>4. t.param # Unset => t.param % 65536 = t.param
  BY <1>2, ParamFits
<1>5. t.param # Unset => t.param # AnyParam
  BY <1>2, ParamFits
<1> QED BY <1>1, <1>2, <1>3, <1>4, <1>5

\* Two rows that answer to the same state, event and parameter overlap.
LEMMA NoTwoRows ==
  ASSUME NEW p \in Packages, StateMachineOk(p), ParamsFit(p), NEW s, NEW e, NEW x,
         NEW i \in RowsFor(Rows(p), s, e, x), NEW j \in RowsFor(Rows(p), s, e, x)
  PROVE  i = j
<1>1. /\ i \in DOMAIN p.transitions /\ j \in DOMAIN p.transitions
      /\ Overlap(p.transitions[i], p.transitions[j])
      /\ Overlap(p.transitions[j], p.transitions[i])
  BY RowMeansTransition DEF Overlap
<1>2. DOMAIN p.transitions \subseteq Int
  BY <1>1, PackagesAssumption
<1> QED BY <1>1, <1>2 DEF StateMachineOk

\* For every accepted package whose transition parameters fit the table, taking
\* the first row that matches hides no other.
THEOREM RowsAreUnambiguous == Spec => []NoRowIsShadowed
<1>1. IInv => NoRowIsShadowed
  <2> SUFFICES ASSUME IInv, stage = "installed", ParamsFit(package), NEW e, NEW x,
                      NEW i \in RowsFor(rows, state, e, x), NEW j \in RowsFor(rows, state, e, x)
               PROVE  i = j
    BY DEF NoRowIsShadowed
  <2>1. rows = Rows(package) /\ StateMachineOk(package) /\ package \in Packages
    BY DEF IInv, Installed, Generated, Verified
  <2> QED BY <2>1, NoTwoRows
<1> QED BY <1>1, TablesAreVerified, PTL

-----------------------------------------------------------------------------
\* The bounds of a combine2 entry.

\* More of the parameter never gives less of the product.
LEMMA ProductGrows ==
  ASSUME NEW m \in Nat, NEW a \in Nat, NEW b \in Nat, a <= b,
         NEW q \in 0 .. 2, NEW r \in 0 .. 2
  PROVE  /\ Power(m, q) * Power(a, r) \in Nat
         /\ Power(m, q) * Power(b, r) \in Nat
         /\ Power(m, q) * Power(a, r) <= Power(m, q) * Power(b, r)
<1>1. Power(m, q) \in Nat
  BY DEF Power
<1>2. a * a <= b * b
  <2>1. a * a <= a * b /\ a * b <= b * b
    OBVIOUS
  <2> QED BY <2>1
<1>3. Power(a, r) \in Nat /\ Power(b, r) \in Nat /\ Power(a, r) <= Power(b, r)
  BY <1>2 DEF Power
<1> QED BY <1>1, <1>3

\* The bound of a bucket does for every value what the formula does.
LEMMA BoundIsSafe ==
  ASSUME NEW p \in Packages, NEW c \in p.combines, NEW m \in Nat, NEW v \in Nat,
         Bound(p, c, m) \in Allowed(p, c, m),
         IF c.op = "<=" THEN v <= Bound(p, c, m) ELSE v >= Bound(p, c, m)
  PROVE  Within(c, v, m)
<1> DEFINE b == Bound(p, c, m)
<1>1. b \in Nat /\ Within(c, b, m)
  BY DEF Allowed
<1>2. /\ c.p1 \in 0 .. 2 /\ c.p2 \in 0 .. 2 /\ c.limit \in Int /\ c.op \in {"<=", ">="}
  BY PackagesAssumption
<1> DEFINE at(n) == Power(m, c.p1) * Power(n, c.p2)
<1>3. CASE c.op = "<="
  <2>1. at(v) \in Nat /\ at(b) \in Nat /\ at(v) <= at(b)
    BY <1>1, <1>2, <1>3, ProductGrows
  <2>2. at(b) <= c.limit
    BY <1>1, <1>3 DEF Within
  <2> HIDE DEF at
  <2>3. at(v) <= c.limit
    BY <1>2, <2>1, <2>2
  <2> QED BY <1>3, <2>3 DEF Within, at
<1>4. CASE c.op = ">="
  <2>1. at(v) \in Nat /\ at(b) \in Nat /\ at(b) <= at(v)
    BY <1>1, <1>2, <1>4, ProductGrows
  <2>2. at(b) >= c.limit
    BY <1>1, <1>4 DEF Within
  <2> HIDE DEF at
  <2>3. at(v) >= c.limit
    BY <1>2, <2>1, <2>2
  <2> QED BY <1>4, <2>3 DEF Within, at
<1> QED BY <1>2, <1>3, <1>4

-----------------------------------------------------------------------------
\* The parameters of motor_run.

\* The action table of an installed firmware: one definition for each parameter,
\* each of them generated.
Attached(p, l, ps) ==
  /\ DOMAIN ps = 1 .. 5
  /\ \A i \in 1 .. 5 : ps[i].id = Ids[i] /\ ps[i] \in Defs(p, l, Ids[i])

\* A generated definition carries the id of its parameter.
LEMMA EmitId ==
  ASSUME NEW p, NEW l, NEW id, NEW e \in Entries(p, id)
  PROVE  Emit(p, l, id, e).id = id
<1>1. e.kind \in {"RANGE", "ENUM", "RANGE_LUT", "COND"}
  BY DEF Entries
<1> QED BY <1>1 DEF Emit, RangeDef, EnumDef, LutDef, CondDef

\* A number of a uint32_t is not cut, nor is one of a uint8_t.
LEMMA WordFits ==
  ASSUME NEW v \in 0 .. Word - 1
  PROVE  v % Word = v
BY WordAssumption

LEMMA ByteFits ==
  ASSUME NEW v \in 0 .. 255
  PROVE  Byte(v) = v
BY DEF Byte

\* A table whose values fit is written as it is.
LEMMA WordsFit ==
  ASSUME NEW s \in Seq(Int), \A i \in DOMAIN s : s[i] \in 0 .. Word - 1
  PROVE  Words(s) = s
<1>1. \A i \in DOMAIN s : s[i] % Word = s[i]
  BY WordFits
<1>2. s = [i \in DOMAIN s |-> s[i]]
  OBVIOUS
<1> QED BY <1>1, <1>2 DEF Words

\* The definition of an entry with its numbers as the author wrote them.
Exactly(p, l, id, e) ==
  CASE e.kind = "RANGE" -> RangeDef(id, e.entry.lo, e.entry.hi)
    [] e.kind = "ENUM" -> EnumDef(id, p.enums[id])
    [] e.kind = "RANGE_LUT" ->
         LutDef(id, IF e.entry.op = "<=" THEN 0 ELSE 1, l[e.entry], e.entry.bucket)
    [] e.kind = "COND" ->
         CondDef(id, e.entry.lo, e.entry.hi, e.entry.values, e.entry.param)

\* The bounds of a verified entry are within the domain of its parameter, and fit
\* when that does.
LEMMA BoundsFit ==
  ASSUME NEW p \in Packages, ValuesOk(p), NumbersFit(p), NEW c \in p.combines
  PROVE  Words(Bounds(p, c)) = Bounds(p, c)
<1> DEFINE b == Bounds(p, c)
<1>1. DOMAIN b = DOMAIN c.domain
  BY DEF Bounds
<1>2. ASSUME NEW k \in DOMAIN b PROVE b[k] % Word = b[k]
  <2>1. b[k] = Bound(p, c, c.domain[k]) /\ k \in DOMAIN c.domain
    BY <1>1 DEF Bounds
  <2>2. Bound(p, c, c.domain[k]) \in Allowed(p, c, c.domain[k])
    BY <2>1 DEF ValuesOk, CombineOk
  <2>3. b[k] \in 0 .. Vmax(p, c.out)
    BY <2>1, <2>2 DEF Allowed
  <2>4. Vmax(p, c.out) \in 0 .. Word - 1
    BY DEF NumbersFit
  <2> HIDE DEF b
  <2>5. b[k] \in 0 .. Word - 1
    BY <2>3, <2>4, WordAssumption
  <2> QED BY <2>5, WordFits
<1>3. b = [k \in DOMAIN b |-> b[k]]
  BY DEF Bounds
<1> HIDE DEF b
<1>4. Words(b) = b
  BY <1>2, <1>3 DEF Words
<1> QED BY <1>4 DEF b

\* Where the numbers fit, the C compiler cuts none of them.
LEMMA EmitFits ==
  ASSUME NEW p \in Packages, ValuesOk(p), NumbersFit(p),
         NEW l, l = [c \in p.combines |-> Bounds(p, c)], NEW id, NEW e \in Entries(p, id)
  PROVE  Emit(p, l, id, e) = Exactly(p, l, id, e)
<1>1. CASE e.kind = "RANGE"
  <2>1. e.entry \in p.ranges
    BY <1>1 DEF Entries
  <2>2. e.entry.lo % Word = e.entry.lo /\ e.entry.hi % Word = e.entry.hi
    BY <2>1, WordFits DEF NumbersFit
  <2> QED BY <1>1, <2>2 DEF Emit, Exactly
<1>2. CASE e.kind = "ENUM"
  <2>1. id \in DOMAIN p.enums
    BY <1>2 DEF Entries
  <2>2. Words(p.enums[id]) = p.enums[id]
    BY <2>1, WordsFit, PackagesAssumption DEF NumbersFit
  <2> QED BY <1>2, <2>2 DEF Emit, Exactly
<1>3. CASE e.kind = "RANGE_LUT"
  <2>1. e.entry \in p.combines
    BY <1>3 DEF Entries
  <2>2. Words(l[e.entry]) = l[e.entry]
    BY <2>1, BoundsFit
  <2>3. Byte(e.entry.bucket) = e.entry.bucket
    BY <2>1, ByteFits DEF NumbersFit
  <2> QED BY <1>3, <2>2, <2>3 DEF Emit, Exactly
<1>4. CASE e.kind = "COND"
  <2>1. e.entry \in p.restricts
    BY <1>4 DEF Entries
  <2>2. e.entry.lo % Word = e.entry.lo /\ e.entry.hi % Word = e.entry.hi
    BY <2>1, WordFits DEF NumbersFit
  <2>3. Words(e.entry.values) = e.entry.values
    BY <2>1, WordsFit, PackagesAssumption DEF NumbersFit
  <2>4. Byte(e.entry.param) = e.entry.param
    BY <2>1, ByteFits DEF NumbersFit
  <2> QED BY <1>4, <2>2, <2>3, <2>4 DEF Emit, Exactly
<1> QED BY <1>1, <1>2, <1>3, <1>4 DEF Entries

\* A gate as the author wrote it, and the only table of gates there is then.
GateOf(w) == [ref |-> w.param, count |-> Len(w.values), vals |-> w.values, deny |-> w.deny]

LEMMA GatesFit ==
  ASSUME NEW p \in Packages, NumbersFit(p)
  PROVE  GateTables(p) = {{GateOf(w) : w \in p.denials}}
<1>1. Cardinality(p.denials) < 256
  BY DEF NumbersFit
<1>2. ASSUME NEW w \in p.denials
      PROVE  [ref |-> Byte(w.param), count |-> Byte(Len(w.values)), vals |-> Words(w.values),
              deny |-> w.deny] = GateOf(w)
  <2>1. w.values \in Seq(Int)
    BY PackagesAssumption
  <2>2. Words(w.values) = w.values
    BY <2>1, WordsFit DEF NumbersFit
  <2>3. Byte(w.param) = w.param
    BY ByteFits DEF NumbersFit
  <2>4. Len(w.values) \in 0 .. 255
    <3>1. Len(w.values) \in Nat
      BY <2>1
    <3>2. Len(w.values) < 256
      BY DEF NumbersFit
    <3>3. \A n \in Nat : n < 256 => n \in 0 .. 255
      OBVIOUS
    <3> QED BY <3>1, <3>2, <3>3
  <2>5. Byte(Len(w.values)) = Len(w.values)
    BY <2>4, ByteFits
  <2> QED BY <2>2, <2>3, <2>5 DEF GateOf
<1>3. Gates(p) = {GateOf(w) : w \in p.denials}
  BY <1>2 DEF Gates
<1> QED BY <1>1, <1>3 DEF GateTables

\* What is installed is attached in the order of motor_run's parameters.
LEMMA InstalledAttached == Installed => Attached(package, lut, params) /\ Len(params) = 5
<1> SUFFICES ASSUME Installed PROVE Attached(package, lut, params) /\ Len(params) = 5
  OBVIOUS
<1>1. PICK speed \in Defs(package, lut, 1), payload \in Defs(package, lut, 2),
           door \in Defs(package, lut, 4), force \in Defs(package, lut, 3),
           mode \in Defs(package, lut, 5) :
         params = <<speed, payload, door, force, mode>>
  BY DEF Installed
<1>2. speed.id = 1 /\ payload.id = 2 /\ door.id = 4 /\ force.id = 3 /\ mode.id = 5
  BY EmitId DEF Defs
<1> QED BY <1>1, <1>2 DEF Attached, Ids

\* What holds while a command of motor_run is judged: the parameters of the frame,
\* in the order of the action.
InOrder(p, l, ps, object, cmd) ==
  /\ p \in Packages /\ ValuesOk(p) /\ NumbersFit(p) /\ BucketsInOrder(p)
  /\ l = [c \in p.combines |-> Bounds(p, c)]
  /\ Attached(p, l, ps)
  /\ DOMAIN object = {ps[i].id : i \in DOMAIN ps}
  /\ \A id \in DOMAIN object : object[id] \in Nat
  /\ cmd = [i \in DOMAIN ps |-> [id |-> ps[i].id, value |-> object[ps[i].id]]]

\* A parameter of the command is where its id says.
LEMMA ValueFound ==
  ASSUME NEW p, NEW l, NEW ps, NEW object, NEW cmd, InOrder(p, l, ps, object, cmd)
  PROVE  /\ \A id \in DOMAIN object : Carries(cmd, id) /\ ValueOf(cmd, id) = object[id]
         /\ \A def : Refers(ps, def) => /\ def.ref \in DOMAIN object
                                        /\ RefDef(ps, def) \in Defs(p, l, def.ref)
<1>1. DOMAIN cmd = 1 .. 5 /\ DOMAIN ps = 1 .. 5
  BY DEF InOrder, Attached
<1>2. \A i \in 1 .. 5 : cmd[i].id = ps[i].id /\ cmd[i].value = object[ps[i].id] /\ ps[i].id = Ids[i]
  BY <1>1 DEF InOrder, Attached
<1>3. \A i, j \in 1 .. 5 : Ids[i] = Ids[j] => i = j
  BY DEF Ids
<1>4. ASSUME NEW id \in DOMAIN object PROVE Carries(cmd, id) /\ ValueOf(cmd, id) = object[id]
  <2>1. PICK i \in 1 .. 5 : id = ps[i].id
    BY <1>1 DEF InOrder
  <2>2. {j \in DOMAIN cmd : cmd[j].id = id} = {i}
    BY <1>1, <1>2, <1>3, <2>1
  <2>3. First({i}) = i
    BY DEF First
  <2>4. Carries(cmd, id)
    BY <1>1, <1>2, <2>1 DEF Carries
  <2> QED BY <1>2, <2>1, <2>2, <2>3, <2>4 DEF ValueOf
<1>5. ASSUME NEW def, Refers(ps, def)
      PROVE  def.ref \in DOMAIN object /\ RefDef(ps, def) \in Defs(p, l, def.ref)
  <2>1. PICK i \in 1 .. 5 : def.ref = ps[i].id
    BY <1>1, <1>5 DEF Refers
  <2>2. {j \in DOMAIN ps : ps[j].id = def.ref} = {i}
    BY <1>1, <1>2, <1>3, <2>1
  <2>3. First({i}) = i
    BY DEF First
  <2>4. RefDef(ps, def) = ps[i]
    BY <2>2, <2>3 DEF RefDef
  <2> QED BY <1>1, <1>2, <2>1, <2>4 DEF InOrder, Attached
<1> QED BY <1>4, <1>5

\* A generated definition of an ENUM lists the values of the package.
LEMMA EnumEmitted ==
  ASSUME NEW p \in Packages, ValuesOk(p), NumbersFit(p),
         NEW l, l = [c \in p.combines |-> Bounds(p, c)],
         NEW id, NEW def \in Defs(p, l, id), def.kind = "ENUM"
  PROVE  id \in DOMAIN p.enums /\ def = EnumDef(id, p.enums[id])
<1>1. PICK e \in Entries(p, id) : def = Exactly(p, l, id, e)
  BY EmitFits DEF Defs
<1>2. e.kind \in {"RANGE", "ENUM", "RANGE_LUT", "COND"} /\ (e.kind = "ENUM" => id \in DOMAIN p.enums)
  BY DEF Entries
<1> QED BY <1>1, <1>2 DEF Exactly, RangeDef, EnumDef, LutDef, CondDef

\* Comparing with the bound of the bucket implies the formula.
LEMMA LutIsSafe ==
  ASSUME NEW p, NEW l, NEW ps, NEW object, NEW cmd, InOrder(p, l, ps, object, cmd),
         NEW c \in p.combines, NEW id \in DOMAIN object,
         LutPasses(ps, LutDef(id, IF c.op = "<=" THEN 0 ELSE 1, l[c], c.bucket), cmd, object[id])
  PROVE  Within(c, object[id], object[c.bucket])
<1> DEFINE def == LutDef(id, IF c.op = "<=" THEN 0 ELSE 1, l[c], c.bucket)
           enum == p.enums[c.bucket]
           m == object[c.bucket]
           k == Bucket(ps, def, cmd)
<1>1. def.ref = c.bucket /\ def.bounds = l[c] /\ def.lo = IF c.op = "<=" THEN 0 ELSE 1
  BY DEF LutDef
<1>2. /\ Refers(ps, def) /\ RefDef(ps, def).kind = "ENUM"
      /\ InEnum(RefDef(ps, def), ValueOf(cmd, c.bucket))
      /\ IF def.lo = 0 THEN object[id] <= l[c][k] ELSE object[id] >= l[c][k]
  BY <1>1 DEF LutPasses
<1>3. /\ c.bucket \in DOMAIN object /\ ValueOf(cmd, c.bucket) = m
      /\ RefDef(ps, def) \in Defs(p, l, c.bucket)
  BY <1>1, <1>2, ValueFound
<1>4. c.bucket \in DOMAIN p.enums /\ RefDef(ps, def) = EnumDef(c.bucket, enum)
  BY <1>2, <1>3, EnumEmitted DEF InOrder
<1>5. RefDef(ps, def).vals = enum /\ RefDef(ps, def).hi = Len(enum)
  BY <1>4 DEF EnumDef
<1>6. enum \in Seq(Int) /\ Distinct(enum) /\ c.domain = enum
  BY <1>4, PackagesAssumption DEF InOrder, ValuesOk, EnumOk, BucketsInOrder
<1>7. PICK i \in 1 .. Len(enum) : enum[i] = m
  BY <1>2, <1>3, <1>5 DEF InEnum
<1>8. k = i
  <2>1. {j \in 1 .. Len(enum) : enum[j] = m} = {i}
    BY <1>6, <1>7 DEF Distinct
  <2>2. k = First({i})
    BY <1>1, <1>3, <1>5, <2>1 DEF Bucket
  <2> QED BY <2>2 DEF First
<1>9. l[c][k] = Bound(p, c, m)
  <2>1. l[c] = Bounds(p, c)
    BY DEF InOrder
  <2>2. i \in DOMAIN c.domain /\ c.domain[i] = m
    BY <1>6, <1>7
  <2>3. Bounds(p, c)[i] = Bound(p, c, c.domain[i])
    BY <2>2 DEF Bounds
  <2> QED BY <1>8, <2>1, <2>2, <2>3
<1>10. Bound(p, c, m) \in Allowed(p, c, m)
  BY <1>6, <1>7 DEF InOrder, ValuesOk, CombineOk
<1>11. IF c.op = "<=" THEN object[id] <= Bound(p, c, m) ELSE object[id] >= Bound(p, c, m)
  BY <1>1, <1>2, <1>9
<1> QED BY <1>3, <1>10, <1>11, BoundIsSafe DEF InOrder

\* A parameter that passes a generated definition satisfies the entry.
LEMMA PassMeansSatisfied ==
  ASSUME NEW p, NEW l, NEW ps, NEW object, NEW cmd, InOrder(p, l, ps, object, cmd),
         NEW id \in DOMAIN object, NEW e \in Entries(p, id),
         Passes(ps, Emit(p, l, id, e), cmd, object[id])
  PROVE  Satisfied(p, id, e, object)
<1> DEFINE def == Exactly(p, l, id, e)
<1>0. Passes(ps, def, cmd, object[id])
  BY EmitFits DEF InOrder
<1>1. object[id] \in Nat
  BY DEF InOrder
<1>2. CASE e.kind = "RANGE"
  <2>1. e.entry \in p.ranges
    BY <1>2 DEF Entries
  <2>2. def = RangeDef(id, e.entry.lo, e.entry.hi)
    BY <1>2 DEF Exactly
  <2>3. e.entry.lo <= object[id] /\ object[id] <= e.entry.hi
    BY <1>0, <2>2 DEF Passes, RangeDef
  <2> QED BY <1>1, <1>2, <2>3 DEF Satisfied
<1>3. CASE e.kind = "ENUM"
  <2>1. def = EnumDef(id, p.enums[id]) /\ id \in DOMAIN p.enums
    BY <1>3 DEF Exactly, Entries
  <2>2. p.enums[id] \in Seq(Int)
    BY <2>1, PackagesAssumption DEF InOrder
  <2>3. \E i \in 1 .. Len(p.enums[id]) : p.enums[id][i] = object[id]
    BY <1>0, <2>1 DEF Passes, EnumDef, InEnum
  <2> QED BY <1>3, <2>2, <2>3 DEF Satisfied, InSeq
<1>4. CASE e.kind = "RANGE_LUT"
  <2>1. /\ e.entry \in p.combines
        /\ def = LutDef(id, IF e.entry.op = "<=" THEN 0 ELSE 1, l[e.entry], e.entry.bucket)
    BY <1>4 DEF Exactly, Entries
  <2>2. LutPasses(ps, def, cmd, object[id])
    BY <1>0, <2>1 DEF Passes, LutDef
  <2> QED BY <1>4, <2>1, <2>2, LutIsSafe DEF Satisfied
<1>5. CASE e.kind = "COND"
  <2>1. def = CondDef(id, e.entry.lo, e.entry.hi, e.entry.values, e.entry.param)
    BY <1>5 DEF Exactly
  <2>2. CondPasses(ps, def, cmd, object[id])
    BY <1>0, <2>1 DEF Passes, CondDef
  <2>3. def.ref = e.entry.param /\ def.vals = e.entry.values /\ def.lo = e.entry.lo /\ def.hi = e.entry.hi
    BY <2>1 DEF CondDef
  <2>4. /\ Carries(cmd, e.entry.param)
        /\ ValueOf(cmd, e.entry.param) = object[e.entry.param]
    <3>1. Refers(ps, def)
      BY <2>2 DEF CondPasses
    <3> HIDE DEF def
    <3>2. def.ref \in DOMAIN object
      BY <3>1, ValueFound
    <3>3. Carries(cmd, def.ref) /\ ValueOf(cmd, def.ref) = object[def.ref]
      BY <3>2, ValueFound
    <3> QED BY <2>3, <3>3
  <2>5. InSeq(object[e.entry.param], e.entry.values) => e.entry.lo <= object[id] /\ object[id] <= e.entry.hi
    BY <2>2, <2>3, <2>4 DEF CondPasses, InSeq
  <2> QED BY <1>1, <1>5, <2>5 DEF Satisfied
<1> QED BY <1>2, <1>3, <1>4, <1>5 DEF Entries

-----------------------------------------------------------------------------
\* A motor_run command that was admitted went through PolicyCheck with the
\* parameters of its frame.
LEMMA AdmittedWasJudged ==
  ASSUME IInv, last.kind = "command", last.action = 1, last.result = "OK"
  PROVE  \E action \in ActionTable(params), role \in Roles :
           /\ Installed /\ action.id = 1 /\ action.params = params
           /\ last.object \in Objects /\ Mappable(action, last.object)
           /\ PolicyCheck(action, role, Mapped(action, last.object), gates) = "OK"
<1>1. Installed
  BY DEF IInv
<1>2. PICK action \in ActionTable(params), role \in Roles, object \in Objects :
        last = [kind |-> "command", action |-> action.id, role |-> role, object |-> object,
                result |-> Judge(params, gates, package.deny[state], action, role, object)]
  BY DEF IInv, Judged
<1>3. action.id = 1 /\ last.object = object
  BY <1>2
<1>4. action.params = params
  BY <1>3 DEF ActionTable
<1>5. Judge(params, gates, package.deny[state], action, role, object) = "OK"
  BY <1>2
<1>6. Mappable(action, object) /\ PolicyCheck(action, role, Mapped(action, object), gates) = "OK"
  BY <1>5 DEF Judge
<1> QED BY <1>1, <1>3, <1>4, <1>6

\* The property of the whole chain, from the package to the firmware: for every
\* package the tool accepts, whose buckets are in the order of their ENUM and
\* whose numbers fit the fields they are written into, an admitted command
\* satisfies every attached entry and every interlock.
THEOREM AdmittedCommandsMeetThePackage == Spec => []AdmittedMeetsPackage
<1>1. IInv => AdmittedMeetsPackage
  <2> SUFFICES ASSUME IInv, last.kind = "command", last.action = 1, last.result = "OK",
                      BucketsInOrder(package), NumbersFit(package)
               PROVE  /\ \A i \in DOMAIN params : \A e \in Entries(package, params[i].id) :
                           Emit(package, lut, params[i].id, e) = params[i] =>
                             Satisfied(package, params[i].id, e, last.object)
                      /\ \A w \in package.denials :
                           w.param \in DOMAIN last.object /\ InSeq(last.object[w.param], w.values) =>
                             1 \notin w.deny
    BY DEF AdmittedMeetsPackage
  <2> DEFINE object == last.object
             cmd == [i \in DOMAIN params |-> [id |-> params[i].id, value |-> object[params[i].id]]]
  <2>1. PICK action \in ActionTable(params), role \in Roles :
          /\ Installed /\ action.id = 1 /\ action.params = params
          /\ object \in Objects /\ Mappable(action, object)
          /\ PolicyCheck(action, role, Mapped(action, object), gates) = "OK"
    BY AdmittedWasJudged
  <2>2. Mapped(action, object) = cmd
    BY <2>1 DEF Mapped
  <2>3. InOrder(package, lut, params, object, cmd)
    <3>1. DOMAIN object = {params[i].id : i \in DOMAIN params}
      BY <2>1 DEF Mappable
    <3>2. \A id \in DOMAIN object : object[id] \in Nat
      BY <2>1, ObjectsAssumption DEF Mappable
    <3>3. package \in Packages /\ ValuesOk(package) /\ lut = [c \in package.combines |-> Bounds(package, c)]
      BY <2>1 DEF IInv, Installed, Generated, Verified
    <3> QED BY <2>1, <3>1, <3>2, <3>3, InstalledAttached DEF InOrder
  <2>4. /\ \A gate \in gates : ~GateDenies(gate, action, cmd)
        /\ Failing(action, cmd) = {}
    BY <2>1, <2>2 DEF PolicyCheck
  <2>5. ASSUME NEW i \in DOMAIN params, NEW e \in Entries(package, params[i].id),
               Emit(package, lut, params[i].id, e) = params[i]
        PROVE  Satisfied(package, params[i].id, e, object)
    <3>1. Passes(params, params[i], cmd, object[params[i].id])
      BY <2>1, <2>4 DEF Failing
    <3>2. params[i].id \in DOMAIN object
      BY <2>3 DEF InOrder
    <3> QED BY <2>3, <2>5, <3>1, <3>2, PassMeansSatisfied
  <2>6. ASSUME NEW w \in package.denials, w.param \in DOMAIN object,
               InSeq(object[w.param], w.values)
        PROVE  1 \notin w.deny
    <3> DEFINE gate == GateOf(w)
    <3>1. gate \in gates
      BY <2>1, GatesFit DEF Installed, IInv
    <3>2. Carries(cmd, w.param) /\ ValueOf(cmd, w.param) = object[w.param]
      BY <2>3, <2>6, ValueFound
    <3>3. \E k \in 1 .. gate.count : gate.vals[k] = ValueOf(cmd, gate.ref)
      <4>1. w.values \in Seq(Int)
        BY PackagesAssumption DEF IInv
      <4>2. DOMAIN w.values = 1 .. Len(w.values)
        BY <4>1
      <4> QED BY <2>6, <3>2, <4>2 DEF InSeq, GateOf
    <3>4. gate.ref = w.param /\ gate.deny = w.deny
      BY DEF GateOf
    <3> HIDE DEF gate, cmd
    <3> QED BY <2>1, <2>4, <3>1, <3>2, <3>3, <3>4 DEF GateDenies
  <2> QED BY <2>5, <2>6
<1> QED BY <1>1, TablesAreVerified, PTL

-----------------------------------------------------------------------------
\* The converse: what the tables refuse, the package forbids.

\* Within the domain the tool considered, the formula implies comparing with the
\* bound of the bucket.
LEMMA BoundIsExact ==
  ASSUME NEW p, NEW c \in p.combines, CombineOk(p, c), NEW k \in DOMAIN c.domain,
         NEW v \in 0 .. Vmax(p, c.out), Within(c, v, c.domain[k])
  PROVE  IF c.op = "<=" THEN v <= Bound(p, c, c.domain[k])
                        ELSE v >= Bound(p, c, c.domain[k])
<1>1. v \in Allowed(p, c, c.domain[k])
  BY DEF Allowed
<1> QED BY <1>1 DEF CombineOk

\* Where InOrder holds and the references are attached, an ENUM that is referred
\* to lists the parameter it is about, if the parameter satisfies it.
LEMMA RefIsEnum ==
  ASSUME NEW p, NEW l, NEW ps, NEW object, NEW cmd, InOrder(p, l, ps, object, cmd),
         NEW def, Refers(ps, def), RefDef(ps, def).kind = "ENUM",
         \A i \in DOMAIN ps : \A e \in Entries(p, ps[i].id) :
           Emit(p, l, ps[i].id, e) = ps[i] => Satisfied(p, ps[i].id, e, object)
  PROVE  /\ def.ref \in DOMAIN object /\ def.ref \in DOMAIN p.enums
         /\ RefDef(ps, def) = EnumDef(def.ref, p.enums[def.ref])
         /\ Carries(cmd, def.ref) /\ ValueOf(cmd, def.ref) = object[def.ref]
         /\ InSeq(object[def.ref], p.enums[def.ref])
<1>1. /\ def.ref \in DOMAIN object /\ RefDef(ps, def) \in Defs(p, l, def.ref)
      /\ Carries(cmd, def.ref) /\ ValueOf(cmd, def.ref) = object[def.ref]
  BY ValueFound
<1>2. def.ref \in DOMAIN p.enums /\ RefDef(ps, def) = EnumDef(def.ref, p.enums[def.ref])
  BY <1>1, EnumEmitted DEF InOrder
<1>3. PICK i \in DOMAIN ps : ps[i] = RefDef(ps, def) /\ ps[i].id = def.ref
  <2>1. PICK i \in 1 .. 5 : def.ref = ps[i].id
    BY DEF Refers, InOrder, Attached
  <2>2. \A j \in 1 .. 5 : ps[j].id = Ids[j]
    BY DEF InOrder, Attached
  <2>3. \A j, k \in 1 .. 5 : Ids[j] = Ids[k] => j = k
    BY DEF Ids
  <2>4. {j \in DOMAIN ps : ps[j].id = def.ref} = {i}
    BY <2>1, <2>2, <2>3 DEF InOrder, Attached
  <2>5. First({i}) = i
    BY DEF First
  <2> QED BY <2>1, <2>4, <2>5 DEF RefDef, InOrder, Attached
<1> DEFINE e == [kind |-> "ENUM", entry |-> def.ref]
<1>4. e \in Entries(p, def.ref) /\ e.kind = "ENUM"
  BY <1>2 DEF Entries
<1>5. Emit(p, l, def.ref, e) = ps[i]
  <2>1. Exactly(p, l, def.ref, e) = EnumDef(def.ref, p.enums[def.ref])
    BY <1>4 DEF Exactly
  <2>2. Emit(p, l, def.ref, e) = Exactly(p, l, def.ref, e)
    BY <1>4, EmitFits DEF InOrder
  <2> QED BY <1>2, <1>3, <2>1, <2>2
<1>6. Satisfied(p, def.ref, e, object)
  BY <1>3, <1>4, <1>5
<1>7. InSeq(object[def.ref], p.enums[def.ref])
  BY <1>4, <1>6 DEF Satisfied
<1> QED BY <1>1, <1>2, <1>7

\* The bounds of a combine2 entry refuse no parameter that satisfies its formula.
LEMMA LutIsExact ==
  ASSUME NEW p, NEW l, NEW ps, NEW object, NEW cmd, InOrder(p, l, ps, object, cmd),
         NEW c \in p.combines, NEW id \in DOMAIN object, id = c.out,
         object[id] <= Vmax(p, id),
         NEW def, def = LutDef(id, IF c.op = "<=" THEN 0 ELSE 1, l[c], c.bucket),
         Refers(ps, def), RefDef(ps, def).kind = "ENUM",
         \A i \in DOMAIN ps : \A e \in Entries(p, ps[i].id) :
           Emit(p, l, ps[i].id, e) = ps[i] => Satisfied(p, ps[i].id, e, object),
         Within(c, object[id], object[c.bucket])
  PROVE  LutPasses(ps, def, cmd, object[id])
<1> DEFINE enum == p.enums[c.bucket]
           m == object[c.bucket]
<1>1. /\ def.ref = c.bucket /\ def.bounds = l[c] /\ def.hi = Len(l[c])
      /\ def.lo = IF c.op = "<=" THEN 0 ELSE 1
  BY DEF LutDef
<1>2. /\ c.bucket \in DOMAIN p.enums /\ RefDef(ps, def) = EnumDef(c.bucket, enum)
      /\ Carries(cmd, c.bucket) /\ ValueOf(cmd, c.bucket) = m /\ InSeq(m, enum)
  <2>1. /\ def.ref \in DOMAIN p.enums /\ RefDef(ps, def) = EnumDef(def.ref, p.enums[def.ref])
        /\ Carries(cmd, def.ref) /\ ValueOf(cmd, def.ref) = object[def.ref]
        /\ InSeq(object[def.ref], p.enums[def.ref])
    BY RefIsEnum
  <2> QED BY <1>1, <2>1
<1>3. RefDef(ps, def).vals = enum /\ RefDef(ps, def).hi = Len(enum)
  BY <1>2 DEF EnumDef
<1>4. enum \in Seq(Int) /\ enum # <<>> /\ Distinct(enum) /\ c.domain = enum
  BY <1>2, PackagesAssumption DEF InOrder, ValuesOk, EnumOk, BucketsInOrder
<1> HIDE DEF enum, m
<1>5. PICK k \in 1 .. Len(enum) : enum[k] = m
  BY <1>2, <1>4 DEF InSeq
<1>6. Bucket(ps, def, cmd) = k
  <2>1. {j \in 1 .. Len(enum) : enum[j] = m} = {k}
    BY <1>4, <1>5 DEF Distinct
  <2>2. Bucket(ps, def, cmd) = First({k})
    BY <1>1, <1>2, <1>3, <2>1 DEF Bucket
  <2> QED BY <2>2 DEF First
<1>7. l[c] = [j \in 1 .. Len(enum) |-> Bound(p, c, enum[j])]
  <2>1. l[c] = Bounds(p, c)
    BY DEF InOrder
  <2>2. DOMAIN enum = 1 .. Len(enum)
    BY <1>4
  <2> QED BY <1>4, <2>1, <2>2 DEF Bounds
<1>8. Len(enum) \in Nat /\ Len(enum) # 0
  BY <1>4
<1>9. Len(l[c]) = Len(enum) /\ l[c] # <<>> /\ l[c][k] = Bound(p, c, m)
  BY <1>5, <1>7, <1>8
<1>10. IF c.op = "<=" THEN object[id] <= Bound(p, c, m) ELSE object[id] >= Bound(p, c, m)
  <2>1. object[id] \in 0 .. Vmax(p, c.out)
    BY DEF InOrder
  <2>2. CombineOk(p, c)
    BY DEF InOrder, ValuesOk
  <2>3. k \in DOMAIN c.domain /\ c.domain[k] = m
    BY <1>4, <1>5
  <2>4. Within(c, object[id], c.domain[k])
    BY <2>3 DEF m
  <2> QED BY <2>1, <2>2, <2>3, <2>4, BoundIsExact
<1>11. InEnum(RefDef(ps, def), m)
  BY <1>3, <1>5 DEF InEnum
<1> QED BY <1>1, <1>2, <1>3, <1>4, <1>5, <1>6, <1>8, <1>9, <1>10, <1>11 DEF LutPasses

\* A parameter that satisfies the entry its definition was generated from passes.
LEMMA SatisfiedMeansPass ==
  ASSUME NEW p, NEW l, NEW ps, NEW object, NEW cmd, InOrder(p, l, ps, object, cmd),
         Emittable(p), RefsAttached(ps), WithinDomain(p, object),
         \A i \in DOMAIN ps : \A e \in Entries(p, ps[i].id) :
           Emit(p, l, ps[i].id, e) = ps[i] => Satisfied(p, ps[i].id, e, object),
         NEW n \in DOMAIN ps
  PROVE  Passes(ps, ps[n], cmd, object[ps[n].id])
<1> DEFINE id == ps[n].id
           def == ps[n]
<1>1. id \in DOMAIN object /\ object[id] \in Nat
  BY DEF InOrder
<1>2. PICK e \in Entries(p, id) : def = Emit(p, l, id, e)
  BY DEF InOrder, Attached, Defs
<1>3. Satisfied(p, id, e, object)
  BY <1>2
<1>8. def = Exactly(p, l, id, e)
  BY <1>2, EmitFits DEF InOrder
<1>4. CASE e.kind = "RANGE"
  <2>1. def = RangeDef(id, e.entry.lo, e.entry.hi)
    BY <1>8, <1>4 DEF Exactly
  <2>2. object[id] \in e.entry.lo .. e.entry.hi
    BY <1>3, <1>4 DEF Satisfied
  <2>3. def.kind = "RANGE" /\ def.lo = e.entry.lo /\ def.hi = e.entry.hi
    BY <2>1 DEF RangeDef
  <2> QED BY <2>2, <2>3 DEF Passes
<1>5. CASE e.kind = "ENUM"
  <2>1. def = EnumDef(id, p.enums[id]) /\ id \in DOMAIN p.enums
    BY <1>8, <1>5 DEF Exactly, Entries
  <2>2. p.enums[id] \in Seq(Int)
    BY <2>1, PackagesAssumption DEF InOrder
  <2>3. InSeq(object[id], p.enums[id])
    BY <1>3, <1>5 DEF Satisfied
  <2>4. def.kind = "ENUM" /\ def.vals = p.enums[id] /\ def.hi = Len(p.enums[id])
    BY <2>1 DEF EnumDef
  <2> QED BY <2>2, <2>3, <2>4 DEF Passes, InSeq, InEnum
<1>6. CASE e.kind = "RANGE_LUT"
  <2>1. e.entry \in p.combines /\ e.entry.out = id
    BY <1>6 DEF Entries
  <2>2. def = LutDef(id, IF e.entry.op = "<=" THEN 0 ELSE 1, l[e.entry], e.entry.bucket)
    BY <1>8, <1>6 DEF Exactly
  <2>3. def.kind = "RANGE_LUT"
    BY <2>2 DEF LutDef
  <2>4. Refers(ps, def) /\ RefDef(ps, def).kind = "ENUM"
    BY <2>3 DEF RefsAttached
  <2>5. object[id] <= Vmax(p, id)
    BY <1>1, <2>1 DEF WithinDomain
  <2>6. Within(e.entry, object[id], object[e.entry.bucket])
    BY <1>3, <1>6 DEF Satisfied
  <2> HIDE DEF def, id
  <2>7. LutPasses(ps, def, cmd, object[id])
    BY <1>1, <2>1, <2>2, <2>4, <2>5, <2>6, LutIsExact
  <2>8. Passes(ps, def, cmd, object[id])
    BY <2>3, <2>7 DEF Passes
  <2> QED BY <2>8 DEF def, id
<1>7. CASE e.kind = "COND"
  <2>1. e.entry \in p.restricts
    BY <1>7 DEF Entries
  <2>2. def = CondDef(id, e.entry.lo, e.entry.hi, e.entry.values, e.entry.param)
    BY <1>8, <1>7 DEF Exactly
  <2>3. /\ def.kind = "COND" /\ def.ref = e.entry.param /\ def.vals = e.entry.values
        /\ def.lo = e.entry.lo /\ def.hi = e.entry.hi
    BY <2>2 DEF CondDef
  <2>4. Refers(ps, def) /\ RefDef(ps, def).kind = "ENUM"
    BY <2>3 DEF RefsAttached
  <2>5. Len(e.entry.values) \in 1 .. 15
    <3>1. e.entry.values \in Seq(Int)
      BY <2>1, PackagesAssumption DEF InOrder
    <3>2. e.entry.values # <<>>
      BY <2>1 DEF InOrder, ValuesOk, RestrictOk, WhenOk
    <3>3. Len(e.entry.values) <= 15
      BY <2>1 DEF Emittable
    <3>4. \A s \in Seq(Int) : s # <<>> => Len(s) \in Nat /\ Len(s) >= 1
      OBVIOUS
    <3>5. Len(e.entry.values) \in Nat /\ Len(e.entry.values) >= 1
      BY <3>1, <3>2, <3>4
    <3>6. \A k \in Nat : k >= 1 /\ k <= 15 => k \in 1 .. 15
      OBVIOUS
    <3> QED BY <3>3, <3>5, <3>6
  <2>6. ValueOf(cmd, def.ref) = object[def.ref]
    <3> HIDE DEF def
    <3>1. def.ref \in DOMAIN object
      BY <2>4, ValueFound
    <3> QED BY <3>1, ValueFound
  <2>7. InSeq(object[e.entry.param], e.entry.values)
          => object[id] \in e.entry.lo .. e.entry.hi
    BY <1>3, <1>7 DEF Satisfied
  <2> HIDE DEF def, id
  <2>8. CondPasses(ps, def, cmd, object[id])
    BY <2>3, <2>4, <2>5, <2>6, <2>7 DEF CondPasses, InSeq
  <2>9. Passes(ps, def, cmd, object[id])
    BY <2>3, <2>8 DEF Passes
  <2> QED BY <2>9 DEF def, id
<1> QED BY <1>4, <1>5, <1>6, <1>7 DEF Entries

\* The converse for the whole chain: for every such package, attached with the
\* parameters its entries refer to, a motor_run command within the verified
\* domain that the firmware refuses for its parameters or by an interlock breaks
\* an entry that is attached, or an interlock: the tables forbid nothing more.
THEOREM RefusedCommandsBreakThePackage == Spec => []RefusedBreaksPackage
<1>1. IInv => RefusedBreaksPackage
  <2> SUFFICES ASSUME IInv, last.kind = "command", last.action = 1,
                      last.result \in {"DENY_PARAM", "DENY_ACTION"},
                      BucketsInOrder(package), NumbersFit(package), RefsAttached(params),
                      WithinDomain(package, last.object),
                      \A i \in DOMAIN params : \A e \in Entries(package, params[i].id) :
                        Emit(package, lut, params[i].id, e) = params[i] =>
                          Satisfied(package, params[i].id, e, last.object)
               PROVE  \E w \in package.denials :
                        /\ w.param \in DOMAIN last.object /\ InSeq(last.object[w.param], w.values)
                        /\ 1 \in w.deny
    BY DEF RefusedBreaksPackage
  <2> DEFINE object == last.object
             cmd == [i \in DOMAIN params |->
                       [id |-> params[i].id, value |-> object[params[i].id]]]
  <2>1. Installed
    BY DEF IInv
  <2>2. PICK action \in ActionTable(params), role \in Roles :
          /\ action.id = 1 /\ action.params = params /\ object \in Objects
          /\ last.result = Judge(params, gates, package.deny[state], action, role, object)
    <3>1. PICK action \in ActionTable(params), role \in Roles, obj \in Objects :
            last = [kind |-> "command", action |-> action.id, role |-> role, object |-> obj,
                    result |-> Judge(params, gates, package.deny[state], action, role, obj)]
      BY DEF IInv, Judged
    <3>2. action.id = 1 /\ object = obj
      BY <3>1
    <3>3. action.params = params
      BY <3>2 DEF ActionTable
    <3> QED BY <3>1, <3>2, <3>3
  <2>3. /\ Mappable(action, object)
        /\ last.result = PolicyCheck(action, role, Mapped(action, object), gates)
    BY <2>2 DEF Judge
  <2>4. Mapped(action, object) = cmd
    BY <2>2 DEF Mapped
  <2>5. InOrder(package, lut, params, object, cmd)
    <3>1. DOMAIN object = {params[i].id : i \in DOMAIN params}
      BY <2>2, <2>3 DEF Mappable
    <3>2. \A id \in DOMAIN object : object[id] \in Nat
      BY <2>2, <2>3, ObjectsAssumption DEF Mappable
    <3>3. /\ package \in Packages /\ ValuesOk(package)
          /\ lut = [c \in package.combines |-> Bounds(package, c)]
      BY <2>1 DEF IInv, Installed, Generated, Verified
    <3> QED BY <2>1, <3>1, <3>2, <3>3, InstalledAttached DEF InOrder
  <2>6. Failing(action, cmd) = {}
    <3> SUFFICES ASSUME NEW n \in DOMAIN params
                 PROVE  /\ cmd[n].id = params[n].id
                        /\ Passes(params, params[n], cmd, cmd[n].value)
      BY <2>2 DEF Failing
    <3>1. Emittable(package)
      BY <2>1 DEF Installed, Generated
    <3>2. Passes(params, params[n], cmd, object[params[n].id])
      BY <2>5, <3>1, SatisfiedMeansPass
    <3>3. cmd[n].id = params[n].id /\ cmd[n].value = object[params[n].id]
      OBVIOUS
    <3> HIDE DEF cmd
    <3> QED BY <3>2, <3>3
  <2>7. PICK gate \in gates : GateDenies(gate, action, cmd)
    <3> HIDE DEF cmd
    <3> QED BY <2>3, <2>4, <2>6 DEF PolicyCheck
  <2>8. PICK w \in package.denials :
          gate = GateOf(w)
    BY <2>1, <2>7, GatesFit DEF Installed, IInv
  <2>9. w.values # <<>>
    BY <2>1, <2>8 DEF Installed, Generated, Verified, ValuesOk, DenialOk, WhenOk
  <2>10. /\ Carries(cmd, w.param) /\ InSeq(ValueOf(cmd, w.param), w.values)
         /\ 1 \in w.deny
    <3> HIDE DEF cmd
    <3>1. w.values \in Seq(Int)
      BY PackagesAssumption DEF IInv
    <3>2. DOMAIN w.values = 1 .. Len(w.values)
      BY <3>1
    <3> QED BY <2>2, <2>7, <2>8, <2>9, <3>2 DEF GateDenies, InSeq, GateOf
  <2>11. w.param \in DOMAIN object
    BY <2>5, <2>10 DEF Carries, InOrder
  <2>12. ValueOf(cmd, w.param) = object[w.param]
    <3> HIDE DEF cmd, object
    <3> QED BY <2>5, <2>11, ValueFound
  <2> QED BY <2>8, <2>10, <2>11, <2>12
<1> QED BY <1>1, TablesAreVerified, PTL

-----------------------------------------------------------------------------
\* Type correctness.

\* A set of numbers that is not empty has a least one.
LEMMA LeastNat ==
  ASSUME NEW S \in SUBSET Nat, S # {}
  PROVE  \E i \in S : \A j \in S : i <= j
<1>1. \E i \in S : \A j \in S : <<j, i>> \notin OpToRel(<, Nat)
  BY NatLessThanWellFounded, WFMin
<1>2. PICK i \in S : \A j \in S : <<j, i>> \notin OpToRel(<, Nat)
  BY <1>1
<1>3. ASSUME NEW j \in S PROVE i <= j
  <2>1. i \in Nat /\ j \in Nat
    OBVIOUS
  <2>2. ~(j < i)
    <3>1. <<j, i>> \in Nat \X Nat /\ <<j, i>>[1] = j /\ <<j, i>>[2] = i
      BY <2>1
    <3> QED BY <1>2, <3>1, Zenon DEF OpToRel
  <2> QED BY <2>1, <2>2
<1> QED BY <1>3

\* A set of places in a list has a first.
LEMMA FirstMember ==
  ASSUME NEW S \in SUBSET Nat, S # {}
  PROVE  First(S) \in S
BY LeastNat DEF First

\* Whatever happens, guard_state_event leads to a declared state: the first row
\* that matches is written from a transition.
LEMMA SuccessorDeclared ==
  ASSUME NEW p \in Packages, NEW s \in p.states, NEW e, NEW x
  PROVE  Successor(Rows(p), s, e, x) \in p.states
<1> DEFINE S == RowsFor(Rows(p), s, e, x)
<1>1. DOMAIN Rows(p) = DOMAIN p.transitions
  BY DEF Rows
<1>2. S \in SUBSET DOMAIN p.transitions
  BY <1>1 DEF RowsFor
<1>3. S \in SUBSET Nat
  BY <1>2, PackagesAssumption
<1>4. ASSUME NEW i \in DOMAIN p.transitions
      PROVE  Rows(p)[i].to \in p.states
  BY PackagesAssumption DEF Rows
<1> HIDE DEF S
<1>5. S # {} => First(S) \in DOMAIN p.transitions
  BY <1>2, <1>3, FirstMember
<1> QED BY <1>4, <1>5 DEF Successor, S

\* The inductive invariant of the types.
TypeInv ==
  /\ IInv
  /\ stage \in {"written", "refused", "verified", "installed"}
  /\ stage = "installed" => state \in package.states

\* Every step keeps the state of the firmware a declared one.
LEMMA TypeStep ==
  ASSUME TypeInv, [Next]_vars
  PROVE  TypeInv'
<1>1. IInv'
  BY InvNext DEF TypeInv
<1>2. package \in Packages
  BY DEF TypeInv, IInv
<1>3. CASE Compile
  BY <1>1, <1>3 DEF Compile, TypeInv
<1>4. CASE Install
  BY <1>1, <1>2, <1>4, PackagesAssumption DEF Install, TypeInv
<1>5. CASE Handle
  <2>1. stage = "installed" /\ state \in package.states /\ rows = Rows(package)
    BY <1>5 DEF Handle, TypeInv, IInv, Installed
  <2>2. stage' = stage /\ package' = package
    BY <1>5 DEF Handle, Event, Command
  <2>3. \/ state' = state
        \/ \E e, x : state' = Successor(rows, state, e, x)
    BY <1>5 DEF Handle, Event, Command
  <2> QED BY <1>1, <1>2, <2>1, <2>2, <2>3, SuccessorDeclared DEF TypeInv
<1>6. CASE Return \/ UNCHANGED vars
  BY <1>1, <1>6 DEF Return, vars, TypeInv
<1> QED BY <1>3, <1>4, <1>5, <1>6 DEF Next

\* A command is judged with one of the results of guard_policy_check or of the two
\* tests before it.
LEMMA JudgeType ==
  ASSUME NEW ps, NEW gs, NEW deny, NEW action, NEW role, NEW object
  PROVE  Judge(ps, gs, deny, action, role, object) \in Judgements
<1>1. \A cmd : PolicyCheck(action, role, cmd, gs) \in Results
  BY DEF PolicyCheck, Results
<1> QED BY <1>1 DEF Judge, Judgements

\* Type correctness of the chain: an installed firmware is in a declared state,
\* attaches one definition to each parameter in the order of the signed encoding,
\* and every command gets a verdict.
THEOREM ToolTypeCorrect == Spec => []TypeOK
<1>1. Init => TypeInv
  BY InvInit DEF Init, TypeInv
<1>2. TypeInv /\ [Next]_vars => TypeInv'
  BY TypeStep
<1>3. TypeInv => TypeOK
  <2> SUFFICES ASSUME TypeInv PROVE TypeOK
    OBVIOUS
  <2>1. package \in Packages
    BY DEF TypeInv, IInv
  <2>2. ASSUME stage = "installed"
        PROVE  [i \in DOMAIN params |-> params[i].id] = <<1, 2, 4, 3, 5>>
    <3>1. DOMAIN params = 1 .. 5 /\ \A i \in 1 .. 5 : params[i].id = Ids[i]
      BY <2>2, InstalledAttached DEF TypeInv, IInv, Attached
    <3>2. [i \in DOMAIN params |-> params[i].id] = [i \in 1 .. 5 |-> Ids[i]]
      BY <3>1
    <3>3. [i \in 1 .. 5 |-> Ids[i]] = <<1, 2, 4, 3, 5>>
      BY DEF Ids
    <3> QED BY <3>2, <3>3
  <2>3. last.kind = "command" => last.result \in Judgements
    BY JudgeType DEF TypeInv, IInv, Judged
  <2> QED BY <2>1, <2>2, <2>3 DEF TypeInv, TypeOK
<1> QED BY <1>1, <1>2, <1>3, PTL DEF Spec

-----------------------------------------------------------------------------
\* The bounded check of the formulas, and what it says of the running firmware.

\* The i-th layer of paths, from the one before it.
Layer(p, path, i) ==
  Steps(p, IF i = 1 THEN {p.initial} ELSE {step.to : step \in path[i - 1]})

\* The depth is a number, more than the states.
LEMMA DepthNat ==
  ASSUME NEW p \in Packages
  PROVE  /\ IsFiniteSet(p.states) /\ Cardinality(p.states) \in Nat /\ Cardinality(p.states) >= 1
         /\ Depth(p) \in Nat /\ Depth(p) = 2 * Cardinality(p.states) + 2
<1>1. IsFiniteSet(p.states) /\ p.initial \in p.states
  BY PackagesAssumption
<1>2. Cardinality(p.states) \in Nat
  BY <1>1, FS_CardinalityType
<1>3. Cardinality(p.states) # 0
  BY <1>1, FS_EmptySet
<1> QED BY <1>1, <1>2, <1>3 DEF Depth

\* Layers can be built up to any length.
LEMMA LayersExist ==
  ASSUME NEW p, NEW k \in Nat
  PROVE  \E g : g = [i \in 1 .. k |-> Layer(p, g, i)]
<1> DEFINE B == {n \in Nat : ~ \E g : g = [i \in 1 .. n |-> Layer(p, g, i)]}
<1>1. SUFFICES ASSUME B # {} PROVE FALSE
  OBVIOUS
<1>2. PICK n \in B : \A m \in B : n <= m
  <2>1. B \in SUBSET Nat
    OBVIOUS
  <2> HIDE DEF B
  <2> QED BY <1>1, <2>1, LeastNat
<1>3. n \in Nat
  OBVIOUS
<1>4. n # 0
  <2>1. ASSUME n = 0 PROVE FALSE
    <3> DEFINE g == [i \in 1 .. 0 |-> {}]
    <3>1. g = [i \in 1 .. 0 |-> Layer(p, g, i)]
      OBVIOUS
    <3> QED BY <2>1, <3>1
  <2> QED BY <2>1
<1>5. n - 1 \in Nat /\ n - 1 \notin B
  BY <1>2, <1>3, <1>4
<1>6. PICK g : g = [i \in 1 .. (n - 1) |-> Layer(p, g, i)]
  BY <1>5
<1> DEFINE h == [i \in 1 .. n |-> Layer(p, g, i)]
<1>7. ASSUME NEW i \in 1 .. n PROVE Layer(p, g, i) = Layer(p, h, i)
  <2>1. CASE i = 1
    BY <2>1 DEF Layer
  <2>2. CASE i # 1
    <3>1. i - 1 \in 1 .. (n - 1) /\ i - 1 \in 1 .. n
      BY <1>3, <2>2
    <3>2. g[i - 1] = Layer(p, g, i - 1)
      BY <1>6, <3>1, Zenon
    <3>3. h[i - 1] = Layer(p, g, i - 1)
      BY <3>1
    <3>4. g[i - 1] = h[i - 1]
      BY <3>2, <3>3
    <3> HIDE DEF h
    <3> QED BY <3>4 DEF Layer
  <2> QED BY <2>1, <2>2
<1>8. h = [i \in 1 .. n |-> Layer(p, h, i)]
  <2>1. \A i \in 1 .. n : h[i] = Layer(p, h, i)
    BY <1>7
  <2>2. h = [i \in 1 .. n |-> h[i]]
    OBVIOUS
  <2> HIDE DEF h
  <2> QED BY <2>1, <2>2
<1>9. n \notin B
  <2> HIDE DEF h
  <2> QED BY <1>8
<1> QED BY <1>9

\* The paths of the bounded check are built layer by layer.
LEMMA PathsLayered ==
  ASSUME NEW p \in Packages, NEW i \in 1 .. Depth(p)
  PROVE  Paths(p)[i] = Layer(p, Paths(p), i)
<1> DEFINE path == Paths(p)
<1>1. path = [j \in 1 .. Depth(p) |-> Layer(p, path, j)]
  <2>1. Paths(p) = CHOOSE g : g = [j \in 1 .. Depth(p) |-> Layer(p, g, j)]
    BY Zenon DEF Paths, Layer
  <2>2. \E g : g = [j \in 1 .. Depth(p) |-> Layer(p, g, j)]
    BY LayersExist, DepthNat
  <2> QED BY <2>1, <2>2
<1> HIDE DEF path
<1>2. path[i] = Layer(p, path, i)
  BY <1>1, Zenon
<1> QED BY <1>2 DEF path

\* The states a path may be in before its i-th step, and before one of its first n.
From(p, i) == IF i = 1 THEN {p.initial} ELSE {step.to : step \in Paths(p)[i - 1]}
Visited(p, n) == UNION {From(p, i) : i \in 1 .. n}

\* From a state of one layer, every input leads to a state of the next.
LEMMA LayerSteps ==
  ASSUME NEW p \in Packages, NEW i \in 1 .. Depth(p)
  PROVE  /\ Paths(p)[i] = Steps(p, From(p, i))
         /\ From(p, i + 1) = {step.to : step \in Steps(p, From(p, i))}
<1>1. Depth(p) \in Nat
  BY DepthNat
<1>2. Paths(p)[i] = Steps(p, From(p, i))
  BY PathsLayered DEF Layer, From
<1>3. i + 1 # 1 /\ (i + 1) - 1 = i
  BY <1>1
<1>4. From(p, i + 1) = {step.to : step \in Paths(p)[i]}
  BY <1>3 DEF From
<1> QED BY <1>2, <1>4

\* The target of a transition is a declared state.
LEMMA TargetDeclared ==
  ASSUME NEW p \in Packages, NEW s \in p.states, NEW e, NEW x
  PROVE  Target(p, s, e, x) \in p.states
<1> DEFINE S == Matching(p, s, e, x)
<1>1. S \in SUBSET DOMAIN p.transitions /\ S \in SUBSET Nat
  BY PackagesAssumption DEF Matching
<1> HIDE DEF S
<1>2. S # {} => First(S) \in DOMAIN p.transitions
  BY <1>1, FirstMember
<1>3. \A i \in DOMAIN p.transitions : p.transitions[i].dst \in p.states
  BY PackagesAssumption
<1> QED BY <1>2, <1>3 DEF Target, S

\* Every layer is made of declared states.
LEMMA LayersDeclared ==
  ASSUME NEW p \in Packages, NEW i \in 1 .. Depth(p)
  PROVE  From(p, i) \subseteq p.states
<1> DEFINE B == {n \in 1 .. Depth(p) : ~(From(p, n) \subseteq p.states)}
<1>1. SUFFICES ASSUME B # {} PROVE FALSE
  OBVIOUS
<1>2. Depth(p) \in Nat
  BY DepthNat
<1>3. B \in SUBSET Nat
  BY <1>2
<1>4. PICK n \in B : \A m \in B : n <= m
  <2> HIDE DEF B
  <2> QED BY <1>1, <1>3, LeastNat
<1>5. n # 1
  BY PackagesAssumption DEF From
<1>6. n - 1 \in 1 .. Depth(p) /\ (n - 1) + 1 = n /\ ~(n <= n - 1)
  BY <1>2, <1>5
<1>7. From(p, n - 1) \subseteq p.states
  BY <1>4, <1>6
<1>8. From(p, n) = {step.to : step \in Steps(p, From(p, n - 1))}
  BY <1>6, LayerSteps, Zenon
<1>9. \A step \in Steps(p, From(p, n - 1)) : step.to \in p.states
  BY <1>7, TargetDeclared DEF Steps
<1> QED BY <1>4, <1>8, <1>9

\* X holds every state an input leads to from one in X.
Closed(p, X) == \A s \in X : \A in \in Inputs(p) : Target(p, s, in[1], in[2]) \in X

\* By as many steps as there are states, the paths have been everywhere they will
\* be: were there a new state at each, there would be more than there are.
LEMMA VisitedCloses ==
  ASSUME NEW p \in Packages
  PROVE  \E n \in 1 .. Cardinality(p.states) : From(p, n + 1) \subseteq Visited(p, n)
<1> DEFINE N == Cardinality(p.states)
           g == [n \in 0 .. N |-> IF n = 0 THEN p.initial
                                  ELSE CHOOSE s \in From(p, n + 1) : s \notin Visited(p, n)]
<1>1. N \in Nat /\ N >= 1 /\ Depth(p) = 2 * N + 2 /\ IsFiniteSet(p.states)
  BY DepthNat
<1> HIDE DEF N
<1>2. SUFFICES ASSUME \A n \in 1 .. N : ~(From(p, n + 1) \subseteq Visited(p, n)) PROVE FALSE
  BY DEF N
<1>3. \A n \in 1 .. N : g[n] \in From(p, n + 1) /\ g[n] \notin Visited(p, n)
  <2> SUFFICES ASSUME NEW n \in 1 .. N
               PROVE  g[n] \in From(p, n + 1) /\ g[n] \notin Visited(p, n)
    OBVIOUS
  <2>1. n \in 0 .. N /\ n # 0
    BY <1>1
  <2>2. g[n] = CHOOSE s \in From(p, n + 1) : s \notin Visited(p, n)
    BY <2>1
  <2>3. \E s \in From(p, n + 1) : s \notin Visited(p, n)
    BY <1>2
  <2> HIDE DEF g
  <2> QED BY <2>2, <2>3
<1>4. g[0] = p.initial /\ g[0] \in From(p, 1)
  <2>1. 0 \in 0 .. N
    BY <1>1
  <2> QED BY <2>1 DEF From
<1> HIDE DEF g
<1>5. \A n \in 0 .. N : g[n] \in From(p, n + 1)
  <2>1. \A n \in 0 .. N : n = 0 \/ n \in 1 .. N
    BY <1>1
  <2>2. 0 + 1 = 1
    OBVIOUS
  <2> QED BY <1>3, <1>4, <2>1, <2>2
<1>6. g \in [0 .. N -> p.states]
  <2>1. \A n \in 0 .. N : n + 1 \in 1 .. Depth(p)
    BY <1>1
  <2>2. \A n \in 0 .. N : g[n] \in p.states
    BY <1>5, <2>1, LayersDeclared
  <2>3. g = [n \in 0 .. N |-> g[n]]
    BY DEF g
  <2> QED BY <2>2, <2>3
<1>7. ASSUME NEW m \in 0 .. N, NEW n \in 0 .. N, m < n PROVE g[m] # g[n]
  <2>1. n \in 1 .. N /\ m + 1 \in 1 .. n
    BY <1>1, <1>7
  <2>2. g[m] \in Visited(p, n)
    BY <1>5, <2>1 DEF Visited
  <2> QED BY <1>3, <2>1, <2>2
<1>8. IsFiniteSet(0 .. N) /\ Cardinality(0 .. N) = N + 1
  BY <1>1, FS_Interval
<1>9. \E m, n \in 0 .. N : m # n /\ g[m] = g[n]
  BY <1>1, <1>6, <1>8, FS_PigeonHole DEF N
<1>10. \A m, n \in 0 .. N : m # n => m < n \/ n < m
  BY <1>1
<1> QED BY <1>7, <1>9, <1>10

\* The states of the layers up to there are closed under every input, and
\* hold the initial one.
LEMMA VisitedClosed ==
  ASSUME NEW p \in Packages
  PROVE  \E n \in 1 .. Cardinality(p.states) :
           p.initial \in Visited(p, n) /\ Closed(p, Visited(p, n)) /\ Visited(p, n) \subseteq p.states
<1>1. PICK n \in 1 .. Cardinality(p.states) : From(p, n + 1) \subseteq Visited(p, n)
  BY VisitedCloses
<1>2. /\ Cardinality(p.states) \in Nat /\ Depth(p) = 2 * Cardinality(p.states) + 2
  BY DepthNat
<1>3. \A i \in 1 .. n : i \in 1 .. Depth(p) /\ (i + 1 \in 1 .. n \/ i = n)
  BY <1>2
<1>4. ASSUME NEW s \in Visited(p, n), NEW in \in Inputs(p)
      PROVE  Target(p, s, in[1], in[2]) \in Visited(p, n)
  <2>1. PICK i \in 1 .. n : s \in From(p, i)
    BY DEF Visited
  <2>2. Target(p, s, in[1], in[2]) \in From(p, i + 1)
    <3> DEFINE step == [at |-> s, event |-> in[1], to |-> Target(p, s, in[1], in[2])]
    <3>1. step \in Steps(p, From(p, i)) /\ step.to = Target(p, s, in[1], in[2])
      BY <2>1 DEF Steps
    <3>2. From(p, i + 1) = {st.to : st \in Steps(p, From(p, i))}
      BY <1>3, LayerSteps
    <3> HIDE DEF step
    <3> QED BY <3>1, <3>2
  <2>3. From(p, i + 1) \subseteq Visited(p, n)
    <3>1. CASE i = n
      BY <1>1, <3>1
    <3>2. CASE i + 1 \in 1 .. n
      BY <3>2 DEF Visited
    <3> QED BY <1>3, <3>1, <3>2
  <2> QED BY <2>2, <2>3
<1>5. p.initial \in Visited(p, n)
  <2>1. 1 \in 1 .. n
    BY <1>2
  <2>2. p.initial \in From(p, 1)
    BY DEF From
  <2> QED BY <2>1, <2>2 DEF Visited
<1>6. Visited(p, n) \subseteq p.states
  BY <1>3, LayersDeclared DEF Visited
<1> QED BY <1>4, <1>5, <1>6 DEF Closed

-----------------------------------------------------------------------------
\* Every event of a package whose events have declared parameters is considered
\* with some parameter.
LEMMA EventConsidered ==
  ASSUME NEW p \in Packages, ValuesOk(p), ParamsDeclared(p), NEW e \in DOMAIN p.eventParam
  PROVE  \E v : <<e, v>> \in Inputs(p)
<1> DEFINE of(d) == IF p.eventParam[d] = Unset THEN {<<d, AnyParam>>}
                    ELSE {<<d, x>> : x \in ParamDomain(p, d)}
<1>1. Inputs(p) = UNION {of(d) : d \in DOMAIN p.eventParam}
  BY DEF Inputs
<1>2. CASE p.eventParam[e] = Unset
  BY <1>2 DEF Inputs
<1>3. CASE p.eventParam[e] # Unset
  <2> DEFINE enum == p.enums[p.eventParam[e]]
  <2>1. p.eventParam[e] \in DOMAIN p.enums
    BY <1>3 DEF ParamsDeclared
  <2>2. enum \in Seq(Int) /\ enum # <<>>
    BY <2>1, PackagesAssumption DEF ValuesOk, EnumOk
  <2>3. \A q \in Seq(Int) : q # <<>> => 1 \in DOMAIN q
    OBVIOUS
  <2>4. enum[1] \in ParamDomain(p, e)
    BY <2>2, <2>3 DEF ParamDomain
  <2>5. <<e, enum[1]>> \in of(e)
    BY <1>3, <2>4
  <2> HIDE DEF of, enum
  <2> QED BY <1>1, <2>5
<1> QED BY <1>2, <1>3

\* The parameter of an input is of the event's ENUM, or none.
LEMMA InputValue ==
  ASSUME NEW p \in Packages, ParamsDeclared(p), NEW e, NEW x, <<e, x>> \in Inputs(p)
  PROVE  e \in DOMAIN p.eventParam /\ x \in Int
<1> DEFINE of(d) == IF p.eventParam[d] = Unset THEN {<<d, AnyParam>>}
                    ELSE {<<d, y>> : y \in ParamDomain(p, d)}
<1>1. PICK d \in DOMAIN p.eventParam : <<e, x>> \in of(d)
  BY DEF Inputs
<1>2. CASE p.eventParam[d] = Unset
  BY <1>1, <1>2 DEF AnyParam
<1>3. CASE p.eventParam[d] # Unset
  <2>1. p.eventParam[d] \in DOMAIN p.enums
    BY <1>3 DEF ParamsDeclared
  <2>2. p.enums[p.eventParam[d]] \in Seq(Int)
    BY <2>1, PackagesAssumption
  <2>3. \A y \in ParamDomain(p, d) : y \in Int
    BY <2>2 DEF ParamDomain
  <2> QED BY <1>1, <1>3, <2>3
<1> QED BY <1>2, <1>3

\* An event with a value of its ENUM is an input the verification considers.
LEMMA ValueConsidered ==
  ASSUME NEW p, NEW e \in DOMAIN p.eventParam, p.eventParam[e] # Unset,
         NEW x \in ParamDomain(p, e)
  PROVE  <<e, x>> \in Inputs(p)
<1> DEFINE of(d) == IF p.eventParam[d] = Unset THEN {<<d, AnyParam>>}
                    ELSE {<<d, y>> : y \in ParamDomain(p, d)}
<1>1. Inputs(p) = UNION {of(d) : d \in DOMAIN p.eventParam}
  BY DEF Inputs
<1>2. <<e, x>> \in of(e)
  OBVIOUS
<1> HIDE DEF of
<1> QED BY <1>1, <1>2

\* A considered input has one transition at most.
LEMMA OneMatch ==
  ASSUME NEW p \in Packages, StateMachineOk(p), NEW s, NEW e, NEW x,
         NEW i \in Matching(p, s, e, x)
  PROVE  /\ Matching(p, s, e, x) = {i}
         /\ Target(p, s, e, x) = p.transitions[i].dst
<1>1. ASSUME NEW j \in Matching(p, s, e, x) PROVE i = j
  <2>1. /\ i \in DOMAIN p.transitions /\ j \in DOMAIN p.transitions
        /\ Overlap(p.transitions[i], p.transitions[j])
        /\ Overlap(p.transitions[j], p.transitions[i])
    BY DEF Matching, Overlap
  <2>2. i \in Nat /\ j \in Nat
    BY <2>1, PackagesAssumption
  <2> QED BY <2>1, <2>2 DEF StateMachineOk
<1>2. Matching(p, s, e, x) = {i}
  BY <1>1
<1>3. i \in Nat
  BY PackagesAssumption DEF Matching
<1>4. First({i}) = i
  BY <1>3 DEF First
<1> QED BY <1>2, <1>4 DEF Target

\* For a considered input the firmware does what the verification took it to do.
LEMMA SuccessorIsTarget ==
  ASSUME NEW p \in Packages, ParamsFit(p), ParamsDeclared(p), NEW s \in p.states, NEW e, NEW x,
         <<e, x>> \in Inputs(p)
  PROVE  Successor(Rows(p), s, e, x) = Target(p, s, e, x)
<1>1. x \in Int
  BY InputValue
<1>2. ASSUME NEW i \in RowsFor(Rows(p), s, e, x) PROVE i \in Matching(p, s, e, x)
  BY RowMeansTransition DEF Matching
<1>3. ASSUME NEW i \in Matching(p, s, e, x) PROVE i \in RowsFor(Rows(p), s, e, x)
  <2> DEFINE t == p.transitions[i]
  <2>1. /\ i \in DOMAIN p.transitions
        /\ t.src \in {s, Anything} /\ t.event = e /\ t.param \in {x, Unset}
    BY DEF Matching
  <2>2. t.param = Unset \/ t.param \in 0 .. AnyParam - 1
    BY <2>1 DEF ParamsFit
  <2>3. t.param # Unset => t.param % 65536 = t.param
    BY <2>2, ParamFits
  <2>4. Rows(p)[i] = [from |-> IF t.src = Anything THEN AnyState ELSE t.src,
                      event |-> t.event,
                      param |-> IF t.param = Unset THEN AnyParam ELSE t.param % 65536,
                      to |-> t.dst]
    BY <2>1 DEF Rows
  <2>5. /\ Rows(p)[i].from \in {s, AnyState} /\ Rows(p)[i].event = e
        /\ Rows(p)[i].param \in {x, AnyParam}
    BY <2>1, <2>3, <2>4
  <2>6. i \in DOMAIN Rows(p)
    BY <2>1 DEF Rows
  <2> QED BY <2>5, <2>6 DEF RowsFor
<1>4. RowsFor(Rows(p), s, e, x) = Matching(p, s, e, x)
  BY <1>2, <1>3
<1>5. Matching(p, s, e, x) # {} => First(Matching(p, s, e, x)) \in DOMAIN p.transitions
  <2> DEFINE S == Matching(p, s, e, x)
  <2>1. S \in SUBSET DOMAIN p.transitions /\ S \in SUBSET Nat
    BY PackagesAssumption DEF Matching
  <2> HIDE DEF S
  <2>2. S # {} => First(S) \in DOMAIN p.transitions
    BY <2>1, FirstMember
  <2> QED BY <2>2 DEF S
<1>6. \A i \in DOMAIN p.transitions : Rows(p)[i].to = p.transitions[i].dst
  BY DEF Rows
<1> QED BY <1>4, <1>5, <1>6 DEF Successor, Target

\* Whatever its parameter, an event leaves the state alone or moves it as some
\* considered input does: a parameter that is not in the ENUM is answered by
\* transitions that take any.
LEMMA SuccessorConsidered ==
  ASSUME NEW p \in Packages, ValuesOk(p), StateMachineOk(p), ParamsFit(p), ParamsDeclared(p),
         NEW s \in p.states, NEW e \in DOMAIN p.eventParam, NEW x
  PROVE  \/ Successor(Rows(p), s, e, x) = s
         \/ \E v : /\ <<e, v>> \in Inputs(p)
                  /\ Successor(Rows(p), s, e, x) = Target(p, s, e, v)
<1> DEFINE S == RowsFor(Rows(p), s, e, x)
<1>1. CASE S = {}
  BY <1>1 DEF Successor
<1>2. CASE S # {}
  <2> DEFINE i == First(S)
             t == p.transitions[i]
  <2>1. S \in SUBSET Nat
    <3>1. DOMAIN Rows(p) = DOMAIN p.transitions
      BY DEF Rows
    <3> QED BY <3>1, PackagesAssumption DEF RowsFor
  <2>2. i \in S
    <3> HIDE DEF S
    <3> QED BY <1>2, <2>1, FirstMember
  <2> HIDE DEF i
  <2>3. i \in DOMAIN p.transitions /\ t.event = e /\ t.src \in {s, Anything} /\ t.param \in {x, Unset}
    BY <2>2, RowMeansTransition
  <2>4. Successor(Rows(p), s, e, x) = t.dst
    <3>1. Rows(p)[i].to = t.dst
      BY <2>3 DEF Rows
    <3>2. Successor(Rows(p), s, e, x) = Rows(p)[i].to
      BY <1>2 DEF Successor, i
    <3> QED BY <3>1, <3>2
  <2>5. \E v : <<e, v>> \in Inputs(p) /\ t.param \in {v, Unset}
    <3>1. CASE t.param = Unset
      BY <3>1, EventConsidered
    <3>2. CASE t.param # Unset
      <4>1. /\ p.eventParam[e] # Unset
            /\ p.eventParam[e] \in DOMAIN p.enums => t.param \in ParamDomain(p, e)
        BY <2>3, <3>2 DEF StateMachineOk, TransitionOk
      <4>2. t.param \in ParamDomain(p, e)
        BY <4>1 DEF ParamsDeclared
      <4> QED BY <4>1, <4>2, ValueConsidered
    <3> QED BY <3>1, <3>2
  <2>6. PICK v : <<e, v>> \in Inputs(p) /\ t.param \in {v, Unset}
    BY <2>5
  <2>7. i \in Matching(p, s, e, v)
    BY <2>3, <2>6 DEF Matching
  <2> QED BY <2>4, <2>6, <2>7, OneMatch
<1> QED BY <1>1, <1>2

-----------------------------------------------------------------------------
\* The running firmware.

\* The inductive invariant: the state is in every set of states that holds the
\* initial one and is closed under the inputs the verification considered, so in
\* particular in that of the paths.
RunInv ==
  /\ TypeInv
  /\ last.kind = "event" => stage = "installed"
  /\ stage = "installed" /\ ParamsFit(package) /\ ParamsDeclared(package) =>
       \A X \in SUBSET package.states :
         package.initial \in X /\ Closed(package, X) => state \in X

\* Each step keeps the state where the verification has been.
LEMMA RunStep ==
  ASSUME RunInv, [Next]_vars
  PROVE  RunInv'
<1>1. TypeInv'
  BY TypeStep DEF RunInv
<1>2. CASE Compile
  BY <1>1, <1>2 DEF Compile, RunInv
<1>3. CASE Install
  BY <1>1, <1>3 DEF Install, RunInv
<1>4. CASE Handle
  <2>1. /\ stage = "installed" /\ stage' = stage /\ package' = package
    BY <1>4 DEF Handle, Event, Command
  <2>2. ASSUME ParamsFit(package), ParamsDeclared(package), NEW X \in SUBSET package.states,
               package.initial \in X, Closed(package, X)
        PROVE  state' \in X
    <3>1. state \in X
      BY <2>1, <2>2 DEF RunInv
    <3>2. ASSUME NEW e \in DOMAIN package.eventParam, NEW x, Event(e, x) PROVE state' \in X
      <4>1. /\ package \in Packages /\ ValuesOk(package) /\ StateMachineOk(package)
            /\ rows = Rows(package) /\ state \in package.states
        BY <2>1 DEF RunInv, TypeInv, IInv, Installed, Generated, Verified
      <4>2. state' = Successor(Rows(package), state, e, x)
        BY <3>2, <4>1 DEF Event
      <4>3. \A v : <<e, v>> \in Inputs(package) => Target(package, state, e, v) \in X
        <5>1. ASSUME NEW v, <<e, v>> \in Inputs(package)
              PROVE  Target(package, state, e, v) \in X
          <6> DEFINE in == <<e, v>>
          <6>1. in[1] = e /\ in[2] = v
            OBVIOUS
          <6>2. Target(package, state, in[1], in[2]) \in X
            BY <2>2, <3>1, <5>1 DEF Closed
          <6> QED BY <6>1, <6>2
        <5> QED BY <5>1
      <4>4. \/ Successor(Rows(package), state, e, x) = state
            \/ \E v : /\ <<e, v>> \in Inputs(package)
                     /\ Successor(Rows(package), state, e, x) = Target(package, state, e, v)
        BY <2>2, <4>1, SuccessorConsidered
      <4>5. Successor(Rows(package), state, e, x) \in X
        BY <3>1, <4>3, <4>4
      <4> QED BY <4>2, <4>5
    <3> QED BY <1>4, <3>1, <3>2 DEF Handle, Command
  <2> QED BY <1>1, <2>1, <2>2 DEF RunInv
<1>5. CASE Return
  BY <1>1, <1>5 DEF Return, RunInv, Nothing
<1>6. CASE UNCHANGED vars
  BY <1>1, <1>6 DEF vars, RunInv
<1> QED BY <1>2, <1>3, <1>4, <1>5, <1>6 DEF Next

\* In the paths of the verification there is a step from the state the firmware is
\* in, for every considered input, with a step to follow it.
LEMMA StateOnPath ==
  ASSUME RunInv, stage = "installed", ParamsFit(package), ParamsDeclared(package)
  PROVE  \E i \in 1 .. Depth(package) :
           /\ i + 1 \in 1 .. Depth(package) /\ i < Depth(package)
           /\ \A e, x : <<e, x>> \in Inputs(package) =>
                LET to == Target(package, state, e, x)
                IN  /\ [at |-> state, event |-> e, to |-> to] \in Paths(package)[i]
                    /\ \A d, y : <<d, y>> \in Inputs(package) =>
                         [at |-> to, event |-> d, to |-> Target(package, to, d, y)]
                           \in Paths(package)[i + 1]
<1> DEFINE p == package
<1>1. p \in Packages
  BY DEF RunInv, TypeInv, IInv
<1>2. PICK n \in 1 .. Cardinality(p.states) :
        p.initial \in Visited(p, n) /\ Closed(p, Visited(p, n)) /\ Visited(p, n) \subseteq p.states
  BY <1>1, VisitedClosed
<1>3. PICK i \in 1 .. n : state \in From(p, i)
  BY <1>2 DEF RunInv, Visited
<1>4. Cardinality(p.states) \in Nat /\ Depth(p) = 2 * Cardinality(p.states) + 2
  BY <1>1, DepthNat
<1>5. i \in 1 .. Depth(p) /\ i + 1 \in 1 .. Depth(p) /\ i < Depth(p)
  BY <1>4
<1> HIDE DEF p
<1>6. /\ Paths(p)[i] = Steps(p, From(p, i))
      /\ From(p, i + 1) = {step.to : step \in Steps(p, From(p, i))}
      /\ Paths(p)[i + 1] = Steps(p, From(p, i + 1))
  BY <1>1, <1>5, LayerSteps
<1>7. ASSUME NEW s, NEW from, s \in from, NEW e, NEW x, <<e, x>> \in Inputs(p)
      PROVE  [at |-> s, event |-> e, to |-> Target(p, s, e, x)] \in Steps(p, from)
  <2> DEFINE in == <<e, x>>
  <2>1. in \in Inputs(p) /\ in[1] = e /\ in[2] = x
    BY <1>7
  <2>2. [at |-> s, event |-> in[1], to |-> Target(p, s, in[1], in[2])] \in Steps(p, from)
    BY <1>7, <2>1 DEF Steps
  <2> QED BY <2>1, <2>2
<1>8. ASSUME NEW e, NEW x, <<e, x>> \in Inputs(p)
      PROVE  LET to == Target(p, state, e, x)
             IN  /\ [at |-> state, event |-> e, to |-> to] \in Paths(p)[i]
                 /\ to \in From(p, i + 1)
  <2> DEFINE step == [at |-> state, event |-> e, to |-> Target(p, state, e, x)]
  <2>1. step \in Steps(p, From(p, i)) /\ step.to = Target(p, state, e, x)
    BY <1>3, <1>7, <1>8
  <2>2. step.to \in From(p, i + 1)
    <3> HIDE DEF step
    <3> QED BY <1>6, <2>1
  <2> QED BY <1>6, <2>1, <2>2
<1>9. ASSUME NEW e, NEW x, <<e, x>> \in Inputs(p), NEW d, NEW y, <<d, y>> \in Inputs(p)
      PROVE  LET to == Target(p, state, e, x)
             IN  [at |-> to, event |-> d, to |-> Target(p, to, d, y)] \in Paths(p)[i + 1]
  <2>1. Target(p, state, e, x) \in From(p, i + 1)
    BY <1>8, <1>9
  <2> QED BY <1>6, <1>7, <1>9, <2>1
<1> QED BY <1>5, <1>8, <1>9 DEF p

\* What LtlHoldsAtRuntime says of one step.
VerifiedAt(f, e, s) ==
  /\ f.op = "G" => Holds(package, f.rhs, state, e)
  /\ f.op = "->X" /\ Holds(package, f.lhs, state, e) =>
       \A d \in DOMAIN package.eventParam : Holds(package, f.rhs, s, d)

\* A formula that passed the bounded check holds of an event the firmware handles.
LEMMA FormulaHolds ==
  ASSUME RunInv, stage = "installed", ParamsFit(package), NEW f \in package.ltls,
         NEW e, NEW x, <<e, x>> \in Inputs(package)
  PROVE  VerifiedAt(f, e, Successor(Rows(package), state, e, x))
<1> DEFINE p == package
           k == Depth(p)
           path == Paths(p)
           to == Target(p, state, e, x)
<1>1. /\ p \in Packages /\ LtlOk(p, f) /\ ValuesOk(p) /\ state \in p.states
  BY DEF RunInv, TypeInv, IInv, Installed, Generated, Verified
<1>2. ParamsDeclared(p)
  BY <1>1 DEF LtlOk
<1>4. Successor(Rows(p), state, e, x) = to
  BY <1>1, <1>2, SuccessorIsTarget
<1>5. PICK i \in 1 .. k :
        /\ i + 1 \in 1 .. k /\ i < k
        /\ [at |-> state, event |-> e, to |-> to] \in path[i]
        /\ \A d, y : <<d, y>> \in Inputs(p) =>
             [at |-> to, event |-> d, to |-> Target(p, to, d, y)] \in path[i + 1]
  BY <1>2, StateOnPath
<1> HIDE DEF p, k, path, to
<1>6. ASSUME f.op = "G" PROVE Holds(p, f.rhs, state, e)
  <2>1. \A j \in 1 .. k : \A t \in path[j] : Holds(p, f.rhs, t.at, t.event)
    BY <1>1, <1>6 DEF LtlOk, k, path
  <2> DEFINE t == [at |-> state, event |-> e, to |-> to]
  <2>2. t \in path[i] /\ t.at = state /\ t.event = e
    BY <1>5
  <2> HIDE DEF t
  <2> QED BY <2>1, <2>2
<1>7. ASSUME f.op = "->X", Holds(p, f.lhs, state, e), NEW d \in DOMAIN p.eventParam
      PROVE  Holds(p, f.rhs, to, d)
  <2>1. \A j \in 1 .. k : \A t \in path[j] : Holds(p, f.lhs, t.at, t.event) =>
          IF j < k
          THEN \A u \in path[j + 1] : u.at = t.to => Holds(p, f.rhs, u.at, u.event)
          ELSE Holds(p, f.rhs, t.to, t.event)
    BY <1>1, <1>7 DEF LtlOk, k, path
  <2>2. PICK y : <<d, y>> \in Inputs(p)
    BY <1>1, <1>2, EventConsidered
  <2> DEFINE t == [at |-> state, event |-> e, to |-> to]
             u == [at |-> to, event |-> d, to |-> Target(p, to, d, y)]
  <2>3. t \in path[i] /\ t.at = state /\ t.event = e /\ t.to = to
    BY <1>5
  <2>4. u \in path[i + 1] /\ u.at = to /\ u.event = d
    BY <1>5, <2>2
  <2> HIDE DEF t, u
  <2> QED BY <1>5, <1>7, <2>1, <2>3, <2>4
<1> QED BY <1>4, <1>6, <1>7 DEF VerifiedAt, p

\* For every package the tool accepts, of whatever size, what the bounded check of
\* a formula G or p -> X q showed on paths of its depth holds at every event the
\* firmware ever handles, in the state the tables have led to.
THEOREM VerifiedFormulasHold == Spec => LtlHoldsAtRuntime
<1> DEFINE Considered == /\ last'.kind = "event"
                         /\ last'.param \in {x[2] : x \in {x \in Inputs(package) : x[1] = last'.event}}
                         /\ ParamsFit(package)
           Hold == Considered =>
             \A f \in package.ltls :
               /\ f.op = "G" => Holds(package, f.rhs, state, last'.event)
               /\ f.op = "->X" /\ Holds(package, f.lhs, state, last'.event) =>
                    \A e \in DOMAIN package.eventParam : Holds(package, f.rhs, state', e)
<1>1. Init => RunInv
  BY InvInit DEF Init, TypeInv, RunInv, Nothing
<1>2. RunInv /\ [Next]_vars => RunInv'
  BY RunStep
<1>3. RunInv /\ [Next]_vars => [Hold]_vars
  <2> SUFFICES ASSUME RunInv, Next, Considered, NEW f \in package.ltls
               PROVE  VerifiedAt(f, last'.event, state')
    BY DEF VerifiedAt
  <2>1. ~Compile /\ ~Install /\ ~Return
    BY DEF Compile, Install, Return, RunInv, Nothing
  <2>2. PICK e \in DOMAIN package.eventParam, x \in EventParams \cup {AnyParam} : Event(e, x)
    BY <2>1 DEF Next, Handle, Command
  <2>3. stage = "installed"
    BY <2>1 DEF Next, Handle
  <2>4. last'.event = e /\ last'.param = x
    BY <2>2 DEF Event
  <2>5. <<e, x>> \in Inputs(package)
    <3>1. PICK in \in Inputs(package) : in[1] = e /\ in[2] = x
      BY <2>4
    <3>2. in = <<in[1], in[2]>>
      BY DEF Inputs
    <3> QED BY <3>1, <3>2
  <2>6. state' = Successor(Rows(package), state, e, x)
    BY <2>2, <2>3 DEF Event, RunInv, TypeInv, IInv, Installed
  <2> QED BY <2>3, <2>4, <2>5, <2>6, FormulaHolds
<1> QED BY <1>1, <1>2, <1>3, PTL DEF Spec, LtlHoldsAtRuntime

-----------------------------------------------------------------------------
\* The committed package and the tables committed for it.

\* The domain of the speed is its RANGE.
LEMMA DemoVmax == Vmax(demo_collab, 1) = 250
<1> DEFINE p == demo_collab
<1>1. p.ranges = demo_ranges
  BY SMT DEF demo_collab
<1>2. {r.hi : r \in {r \in demo_ranges : r.param = 1}} = {250}
      /\ \E r \in demo_ranges : r.param = 1
  <2> DEFINE speed == RangeEntry(1, 0, 250)
             force == RangeEntry(3, 0, 120000)
  <2>1. speed.param = 1 /\ speed.hi = 250 /\ force.param = 3 /\ demo_ranges = {speed, force}
    BY SMT DEF demo_ranges, RangeEntry
  <2> HIDE DEF speed, force
  <2> QED BY <2>1, SMT
<1> HIDE DEF p
<1>3. DomainBounds(p, 1) = {250}
  BY <1>1, <1>2 DEF DomainBounds
<1> QED BY <1>3, SMT DEF Vmax, Largest, p

\* The numbers of the committed package are small.
LEMMA SmallFits ==
  ASSUME NEW v \in Nat, v < 131072
  PROVE  v \in 0 .. Word - 1
BY WordAssumption, SMT

\* Every number of the committed package fits its field.
LEMMA DemoFits == NumbersFit(demo_collab)
<1> DEFINE p == demo_collab
<1>1. /\ p.enums = demo_enums /\ p.ranges = demo_ranges /\ p.combines = {demo_energy}
      /\ p.restricts = demo_restricts /\ p.denials = demo_denials
  BY SMT DEF demo_collab
<1>2. Vmax(p, 1) = 250
  BY DemoVmax
<1> HIDE DEF p
<1>3. ASSUME NEW r \in p.ranges \cup p.restricts PROVE {r.lo, r.hi} \subseteq 0 .. Word - 1
  <2>1. CASE r \in p.ranges
    <3>1. r.lo = 0 /\ (r.hi = 250 \/ r.hi = 120000)
      BY <1>1, <2>1, SMT DEF demo_ranges, RangeEntry
    <3> QED BY <3>1, WordAssumption
  <2>2. CASE r \in p.restricts
    <3>1. r.lo = 0 /\ (r.hi = 100 \/ r.hi = 120000)
      BY <1>1, <2>2, SMT DEF demo_restricts, WhenRestrict
    <3> QED BY <3>1, WordAssumption
  <2> QED BY <2>1, <2>2
<1>4. ASSUME NEW id \in DOMAIN p.enums, NEW i \in DOMAIN p.enums[id]
      PROVE  p.enums[id][i] \in 0 .. Word - 1
  <2>1. /\ DOMAIN demo_enums = {2, 4, 5} /\ demo_enums[2] = <<0, 1000, 2000, 5000, 10000>>
        /\ demo_enums[4] = <<0, 1>> /\ demo_enums[5] = <<0, 1, 2>>
    BY SMT DEF demo_enums
  <2>2. \/ p.enums[id] = <<0, 1000, 2000, 5000, 10000>>
        \/ p.enums[id] = <<0, 1>> \/ p.enums[id] = <<0, 1, 2>>
    BY <1>1, <2>1
  <2>3. ASSUME NEW q, q = <<0, 1000, 2000, 5000, 10000>>, NEW n \in DOMAIN q
        PROVE  q[n] \in Nat /\ q[n] < 131072
    BY <2>3, SMT
  <2>4. ASSUME NEW q, q = <<0, 1>> \/ q = <<0, 1, 2>>, NEW n \in DOMAIN q
        PROVE  q[n] \in Nat /\ q[n] < 131072
    BY <2>4, SMT
  <2> DEFINE q == p.enums[id]
  <2> HIDE DEF q
  <2>5. q[i] \in Nat /\ q[i] < 131072
    BY <2>2, <2>3, <2>4 DEF q
  <2>6. q[i] \in 0 .. Word - 1
    BY <2>5, SmallFits
  <2> QED BY <2>6 DEF q
<1>5. ASSUME NEW c \in p.combines PROVE c.bucket \in 0 .. 255 /\ Vmax(p, c.out) \in 0 .. Word - 1
  <2>1. c.bucket = 2 /\ c.out = 1
    BY <1>1, SMT DEF demo_energy, Combine2
  <2> QED BY <1>2, <2>1, WordAssumption
<1>6. ASSUME NEW w \in p.denials \cup p.restricts
      PROVE  /\ w.param \in 0 .. 255 /\ Len(w.values) < 256
             /\ \A i \in DOMAIN w.values : w.values[i] \in 0 .. Word - 1
  <2>1. w.param \in {4, 5} /\ w.values \in {<<1>>, <<2>>}
    <3>1. CASE w \in p.denials
      BY <1>1, <3>1, SMT DEF demo_denials, WhenDeny
    <3>2. CASE w \in p.restricts
      BY <1>1, <3>2, SMT DEF demo_restricts, WhenRestrict
    <3> QED BY <3>1, <3>2
  <2>2. Len(w.values) = 1 /\ \A i \in DOMAIN w.values : w.values[i] \in {1, 2}
    BY <2>1, SMT
  <2> QED BY <2>1, <2>2, WordAssumption
<1>7. Cardinality(p.denials) < 256
  <2>1. p.denials = {WhenDeny(4, <<1>>, Expand(demo_actions, "motion"))}
    BY <1>1 DEF demo_denials
  <2>2. Cardinality(p.denials) = 1
    BY <2>1, FS_Singleton
  <2> QED BY <2>2
<1> QED BY <1>3, <1>4, <1>5, <1>6, <1>7 DEF NumbersFit, p

\* A bound of the committed energy entry: the largest speed of 0 .. 250 whose energy
\* with the load m stays within the limit.
LEMMA DemoBound ==
  ASSUME NEW m \in Nat, NEW b \in 0 .. 250,
         m * (b * b) <= 20000000,
         \A v \in 0 .. 250 : m * (v * v) <= 20000000 => v <= b
  PROVE  Bound(demo_collab, demo_energy, m) = b
<1> DEFINE p == demo_collab
           c == demo_energy
<1>1. /\ c.out = 1 /\ c.p1 = 1 /\ c.p2 = 2 /\ c.op = "<=" /\ c.limit = 20000000
  BY SMT DEF demo_energy, Combine2
<1>5. Vmax(p, 1) = 250
  BY DemoVmax
<1> HIDE DEF p, c
<1>6. ASSUME NEW v \in 0 .. 250
      PROVE  Within(c, v, m) <=> m * (v * v) <= 20000000
  BY <1>1, <1>6, SMT DEF Within, Power
<1>7. Allowed(p, c, m) = {v \in 0 .. 250 : m * (v * v) <= 20000000}
  BY <1>1, <1>5, <1>6, SMT DEF Allowed
<1>8. b \in Allowed(p, c, m) /\ \A v \in Allowed(p, c, m) : v <= b
  BY <1>7, SMT
<1>9. Allowed(p, c, m) \subseteq Nat
  BY <1>7, SMT
<1>10. Largest(Allowed(p, c, m)) = b
  BY <1>8, <1>9, SMT DEF Largest
<1> QED BY <1>1, <1>10, SMT DEF Bound, p, c

\* The five loads give the five bounds of g_gen_lut_tcp_speed.
LEMMA DemoBounds == Bounds(demo_collab, demo_energy) = g_gen_lut_tcp_speed
<1> DEFINE c == demo_energy
           domain == <<0, 1000, 2000, 5000, 10000>>
<1>1. c.domain = domain
  BY SMT DEF demo_energy, Combine2
<1>2. Bound(demo_collab, c, 0) = 250
  <2>1. 0 * (250 * 250) <= 20000000 /\ \A v \in 0 .. 250 : 0 * (v * v) <= 20000000 => v <= 250
    BY SMT
  <2> QED BY <2>1, DemoBound, SMT
<1>3. Bound(demo_collab, c, 1000) = 141
  <2>1. 1000 * (141 * 141) <= 20000000
        /\ \A v \in 0 .. 250 : 1000 * (v * v) <= 20000000 => v <= 141
    BY SMT
  <2> QED BY <2>1, DemoBound, SMT
<1>4. Bound(demo_collab, c, 2000) = 100
  <2>1. 2000 * (100 * 100) <= 20000000
        /\ \A v \in 0 .. 250 : 2000 * (v * v) <= 20000000 => v <= 100
    BY SMT
  <2> QED BY <2>1, DemoBound, SMT
<1>5. Bound(demo_collab, c, 5000) = 63
  <2>1. 5000 * (63 * 63) <= 20000000
        /\ \A v \in 0 .. 250 : 5000 * (v * v) <= 20000000 => v <= 63
    BY SMT
  <2> QED BY <2>1, DemoBound, SMT
<1>6. Bound(demo_collab, c, 10000) = 44
  <2>1. 10000 * (44 * 44) <= 20000000
        /\ \A v \in 0 .. 250 : 10000 * (v * v) <= 20000000 => v <= 44
    BY SMT
  <2> QED BY <2>1, DemoBound, SMT
<1>7. /\ DOMAIN domain = 1 .. 5 /\ domain[1] = 0 /\ domain[2] = 1000
      /\ domain[3] = 2000 /\ domain[4] = 5000 /\ domain[5] = 10000
  BY SMT
<1> HIDE DEF c, domain
<1>8. Bounds(demo_collab, c) = [k \in 1 .. 5 |-> Bound(demo_collab, c, domain[k])]
  BY <1>1, <1>7 DEF Bounds
<1> DEFINE lut_ == g_gen_lut_tcp_speed
<1>9. /\ lut_ = [k \in 1 .. 5 |-> lut_[k]]
      /\ lut_[1] = 250 /\ lut_[2] = 141 /\ lut_[3] = 100 /\ lut_[4] = 63 /\ lut_[5] = 44
  BY SMT DEF g_gen_lut_tcp_speed
<1> HIDE DEF lut_
<1>10. ASSUME NEW k \in 1 .. 5 PROVE Bound(demo_collab, c, domain[k]) = lut_[k]
  <2>1. k = 1 \/ k = 2 \/ k = 3 \/ k = 4 \/ k = 5
    BY SMT
  <2> QED BY <1>2, <1>3, <1>4, <1>5, <1>6, <1>7, <1>9, <2>1
<1>11. Bounds(demo_collab, c) = lut_
  BY <1>8, <1>9, <1>10
<1> QED BY <1>11 DEF c, lut_

\* The transitions of the committed package give the committed rows.
LEMMA DemoRows == Rows(demo_collab) = GS!g_gen_state_trans
<1>1. demo_collab.transitions = demo_transitions
  BY SMT DEF demo_collab
<1> QED BY <1>1, UnsetAssumption, SMT DEF Rows, demo_transitions, Trans, GS!g_gen_state_trans, GS!Row, Anything, AnyState, AnyParam, GS!AnyState, GS!AnyParam,
   GS!ModeAuto, GS!ModeManual, GS!ModeCollab

\* Its interlock gives the committed gate.
LEMMA DemoGates ==
  ASSUME demo_collab \in Packages
  PROVE  GateTables(demo_collab) = {g_gen_action_gates}
<1>1. demo_collab.denials = demo_denials
  BY SMT DEF demo_collab
<1>2. Expand(demo_actions, "motion") = {1, 2}
  BY SMT DEF Expand, demo_actions
<1>3. demo_denials = {WhenDeny(4, <<1>>, {1, 2})}
  BY <1>2 DEF demo_denials
<1>4. {GateOf(w) : w \in demo_denials} = g_gen_action_gates
  <2> DEFINE w == WhenDeny(4, <<1>>, {1, 2})
  <2>1. w.param = 4 /\ w.values = <<1>> /\ w.deny = {1, 2}
    BY SMT DEF WhenDeny
  <2>2. Len(<<1>>) = 1
    BY SMT
  <2> HIDE DEF w
  <2>3. GateOf(w) = [ref |-> 4, count |-> 1, vals |-> <<1>>, deny |-> {1, 2}]
    BY <2>1, <2>2 DEF GateOf
  <2>4. {GateOf(x) : x \in {w}} = {GateOf(w)}
    OBVIOUS
  <2> QED BY <1>3, <2>3, <2>4 DEF g_gen_action_gates, w
<1> QED BY <1>1, <1>4, DemoFits, GatesFit

\* Each definition in the hand-written entry of motor_run is one of those generated
\* for its parameter.
LEMMA DemoAttached ==
  ASSUME demo_collab \in Packages, ValuesOk(demo_collab),
         NEW l, l = [c \in demo_collab.combines |-> Bounds(demo_collab, c)],
         l[demo_energy] = g_gen_lut_tcp_speed, NEW i \in DOMAIN motor_run_params
  PROVE  motor_run_params[i] \in Defs(demo_collab, l, motor_run_params[i].id)
<1> DEFINE p == demo_collab
<1>1. /\ p.enums = demo_enums /\ p.ranges = demo_ranges /\ p.combines = {demo_energy}
      /\ p.restricts = demo_restricts
  BY SMT DEF demo_collab
<1>10. ASSUME NEW id, NEW e \in Entries(p, id) PROVE Emit(p, l, id, e) = Exactly(p, l, id, e)
  BY DemoFits, EmitFits
<1> HIDE DEF p
<1>2. /\ DOMAIN demo_enums = {2, 4, 5} /\ demo_enums[2] = g_gen_enum_payload
      /\ demo_enums[4] = g_gen_enum_safety_door /\ demo_enums[5] = g_gen_enum_mode
  BY SMT DEF demo_enums, g_gen_enum_payload, g_gen_enum_safety_door, g_gen_enum_mode
<1>3. ASSUME NEW id \in {2, 4, 5} PROVE EnumDef(id, demo_enums[id]) \in Defs(p, l, id)
  <2> DEFINE e == [kind |-> "ENUM", entry |-> id]
  <2>1. e \in Entries(p, id)
    <3>1. id \in {id} \cap DOMAIN p.enums
      BY <1>1, <1>2, <1>3
    <3> QED BY <3>1, Zenon DEF Entries
  <2>2. Exactly(p, l, id, e) = EnumDef(id, p.enums[id])
    BY SMT DEF Exactly
  <2> QED BY <1>1, <1>10, <2>1, <2>2 DEF Defs
<1>4. LutDef(1, 0, g_gen_lut_tcp_speed, 2) \in Defs(p, l, 1)
  <2> DEFINE e == [kind |-> "RANGE_LUT", entry |-> demo_energy]
  <2>1. demo_energy.out = 1 /\ demo_energy.op = "<=" /\ demo_energy.bucket = 2
    BY SMT DEF demo_energy, Combine2
  <2>2. e \in Entries(p, 1)
    <3>1. demo_energy \in {c \in p.combines : c.out = 1}
      BY <1>1, <2>1
    <3> QED BY <3>1, Zenon DEF Entries
  <2>3. Exactly(p, l, 1, e) = LutDef(1, 0, g_gen_lut_tcp_speed, 2)
    BY <2>1, SMT DEF Exactly
  <2> QED BY <1>10, <2>2, <2>3 DEF Defs
<1>5. CondDef(3, 0, 120000, g_gen_cond_tcp_force, 5) \in Defs(p, l, 3)
  <2> DEFINE w == WhenRestrict(5, <<2>>, 3, 0, 120000)
             e == [kind |-> "COND", entry |-> w]
  <2>1. w \in demo_restricts
    BY SMT DEF demo_restricts
  <2>2. w.target = 3 /\ w.lo = 0 /\ w.hi = 120000 /\ w.values = g_gen_cond_tcp_force /\ w.param = 5
    BY SMT DEF WhenRestrict, g_gen_cond_tcp_force
  <2> HIDE DEF w
  <2>3. e \in Entries(p, 3)
    <3>1. w \in {r \in p.restricts : r.target = 3}
      BY <1>1, <2>1, <2>2
    <3> QED BY <3>1, Zenon DEF Entries
  <2>4. Exactly(p, l, 3, e) = CondDef(3, w.lo, w.hi, w.values, w.param)
    BY SMT DEF Exactly
  <2> HIDE DEF e
  <2>5. Exactly(p, l, 3, e) \in Defs(p, l, 3)
    BY <1>10, <2>3 DEF Defs
  <2> QED BY <2>2, <2>4, <2>5, SMT
<1> DEFINE d1 == LutDef(1, 0, g_gen_lut_tcp_speed, 2)
           d2 == EnumDef(2, g_gen_enum_payload)
           d3 == EnumDef(4, g_gen_enum_safety_door)
           d4 == CondDef(3, 0, 120000, g_gen_cond_tcp_force, 5)
           d5 == EnumDef(5, g_gen_enum_mode)
<1>6. d1.id = 1 /\ d2.id = 2 /\ d3.id = 4 /\ d4.id = 3 /\ d5.id = 5
  BY SMT DEF LutDef, EnumDef, CondDef
<1>7. /\ d1 \in Defs(p, l, d1.id) /\ d2 \in Defs(p, l, d2.id) /\ d3 \in Defs(p, l, d3.id)
      /\ d4 \in Defs(p, l, d4.id) /\ d5 \in Defs(p, l, d5.id)
  <2> HIDE DEF d1, d4
  <2>1. d1 \in Defs(p, l, 1) /\ d4 \in Defs(p, l, 3)
    BY <1>4, <1>5 DEF d1, d4
  <2>2. d2 \in Defs(p, l, 2) /\ d3 \in Defs(p, l, 4) /\ d5 \in Defs(p, l, 5)
    BY <1>2, <1>3
  <2> HIDE DEF d2, d3, d5
  <2> QED BY <1>6, <2>1, <2>2
<1>8. motor_run_params = <<d1, d2, d3, d4, d5>>
  BY DEF motor_run_params
<1> HIDE DEF d1, d2, d3, d4, d5
<1>9. motor_run_params[i] \in {d1, d2, d3, d4, d5}
  BY <1>8, SMT
<1> QED BY <1>7, <1>9 DEF p

\* The committed tables are the ones the tool generates from the committed package:
\* a firmware installed with that package runs the rows and the gates of generated/,
\* and guard_permissions.c attaches definitions the tool would emit for it, the table
\* of speeds included, which it computes from the energy formula.
THEOREM CommittedTablesFollow == Spec => []CommittedTablesAreGenerated
<1>1. IInv => CommittedTablesAreGenerated
  <2> SUFFICES ASSUME IInv, stage = "installed", package = demo_collab
               PROVE  /\ rows = GS!g_gen_state_trans
                      /\ package.initial = GS!g_gen_state_initial
                      /\ gates = g_gen_action_gates
                      /\ \A i \in DOMAIN motor_run_params :
                           motor_run_params[i] \in Defs(package, lut, motor_run_params[i].id)
    BY DEF CommittedTablesAreGenerated
  <2>1. /\ rows = Rows(demo_collab) /\ gates \in GateTables(demo_collab)
        /\ demo_collab \in Packages /\ ValuesOk(demo_collab)
        /\ lut = [c \in demo_collab.combines |-> Bounds(demo_collab, c)]
    BY DEF IInv, Installed, Generated, Verified
  <2>2. demo_collab.combines = {demo_energy} /\ demo_collab.initial = GS!g_gen_state_initial
    BY SMT DEF demo_collab, GS!g_gen_state_initial
  <2>3. lut[demo_energy] = g_gen_lut_tcp_speed
    BY <2>1, <2>2, DemoBounds
  <2> QED BY <2>1, <2>2, <2>3, DemoRows, DemoGates, DemoAttached
<1> QED BY <1>1, TablesAreVerified, PTL

=============================================================================
