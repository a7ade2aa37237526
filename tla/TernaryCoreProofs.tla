---------------------------- MODULE TernaryCoreProofs ----------------------------
(***************************************************************************)
(* The TC propagator, for every saturation limit and threshold: its alarm  *)
(* and its flags.  The synthesizable core: it computes what the C library  *)
(* computes, what it calls valid means what ternary arithmetic says, and   *)
(* the propagator it drives is that propagator.                            *)
(***************************************************************************)
EXTENDS TernaryCoreLite, TLAPS

\* What relates the count to the history: it is at least the current streak and
\* at most the rises since the last clear; the flags are functions of it.
CountInv ==
  /\ streak <= prop.tc_count
  /\ prop.tc_count <= rises
  /\ prop.tc_any = Bit(prop.tc_count > 0)
  /\ prop.tc_out_flag = Bit(prop.tc_count > 0)
  /\ fed => prop.tc_overflow = Bit(prop.tc_count >= prop.tc_threshold)
  /\ ~fed => prop.tc_overflow = 0

\* The inductive invariant of the propagator.
IInv == PropTypeOK /\ CountInv

\* A freshly initialised propagator (hex4_tc_prop_init) satisfies the invariant.
LEMMA InitInv == PropInit => IInv
<1>1. ASSUME PropInit PROVE IInv
  <2>1. PICK t \in Thresholds : prop = hex4_tc_prop_init(t)
    BY <1>1 DEF PropInit
  <2>2. /\ prop = [tc_count |-> 0, tc_threshold |-> t, tc_overflow |-> 0, tc_any |-> 0,
                   tc_out_flag |-> 0]
        /\ streak = 0 /\ rises = 0 /\ fed = FALSE
    BY <1>1, <2>1 DEF PropInit, hex4_tc_prop_init
  <2>3. prop \in Props /\ streak \in 0 .. CountMax /\ rises \in 0 .. CountMax
    BY <2>2, CountMaxAssumption DEF Props
  <2>4. PropTypeOK
    BY <2>2, <2>3 DEF PropTypeOK
  <2>5. CountInv
    BY <2>2 DEF CountInv, Bit
  <2> QED BY <2>4, <2>5 DEF IInv
<1> QED BY <1>1

\* The count stays in its byte (hex4_tc_prop_feed saturates above and below).
LEMMA NewCountRange ==
  ASSUME PropTypeOK, NEW tc_flag \in {0, 1}
  PROVE  NewCount(prop, tc_flag) \in 0 .. CountMax
BY CountMaxAssumption DEF PropTypeOK, Props, NewCount

\* Feeding a valid result keeps the types and the invariant.
LEMMA FeedInv ==
  ASSUME IInv, NEW tc_flag \in {0, 1}, NEW valid \in {0, 1}, Feed(tc_flag, valid)
  PROVE  IInv'
<1> USE CountMaxAssumption
<1>1. CASE valid = 0
  BY <1>1 DEF IInv, PropTypeOK, CountInv, Feed, hex4_tc_prop_feed
<1>2. CASE valid # 0
  <2> DEFINE count == NewCount(prop, tc_flag)
  <2>1. /\ prop' = Updated(prop, tc_flag, count)
        /\ streak' = IF tc_flag = 1 THEN Capped(streak) ELSE 0
        /\ rises' = IF tc_flag = 1 THEN Capped(rises) ELSE rises
        /\ fed' = TRUE
    BY <1>2 DEF Feed, hex4_tc_prop_feed
  <2>2. count \in 0 .. CountMax
    BY NewCountRange DEF IInv
  <2>3. /\ prop.tc_threshold \in Thresholds /\ Thresholds \subseteq 0 .. CountMax
        /\ prop.tc_count \in 0 .. CountMax /\ streak \in 0 .. CountMax /\ rises \in 0 .. CountMax
        /\ streak <= prop.tc_count /\ prop.tc_count <= rises
        /\ prop.tc_any = Bit(prop.tc_count > 0)
    BY ThresholdsAssumption DEF IInv, PropTypeOK, Props, CountInv
  <2>4. prop' = [tc_count |-> count, tc_threshold |-> prop.tc_threshold,
                 tc_overflow |-> Bit(count >= prop.tc_threshold),
                 tc_any |-> Bit(tc_flag = 1 \/ (count > 0 /\ prop.tc_any = 1)),
                 tc_out_flag |-> Bit(count > 0)]
    BY <2>1 DEF Updated, IInv, PropTypeOK, Props
  <2>5. PropTypeOK'
    BY <2>1, <2>2, <2>3, <2>4 DEF PropTypeOK, Props, Bit, Capped
  <2>6. streak' <= count /\ count <= rises'
    BY <2>1, <2>3 DEF NewCount, Capped
  <2>7. (tc_flag = 1 \/ (count > 0 /\ prop.tc_any = 1)) <=> count > 0
    BY <2>3 DEF NewCount, Bit
  <2> QED
    BY <2>1, <2>2, <2>4, <2>5, <2>6, <2>7 DEF IInv, CountInv, Bit
<1> QED BY <1>1, <1>2

\* Acknowledging (hex4_tc_prop_clear) forgets the count and the history alike.
LEMMA ClearInv == IInv /\ Clear => IInv'
<1>1. ASSUME IInv, Clear PROVE IInv'
  <2>1. prop.tc_threshold \in Thresholds
    BY <1>1 DEF IInv, PropTypeOK, Props
  <2>2. PropInit'
    BY <1>1, <2>1 DEF Clear, hex4_tc_prop_clear, PropInit
  <2>3. PropInit' => IInv'
    BY InitInv, PTL
  <2> QED BY <2>2, <2>3
<1> QED BY <1>1

\* Every step of the propagator keeps the invariant.
LEMMA PropStep == IInv /\ [PropNext]_propVars => IInv'
<1>1. ASSUME IInv, UNCHANGED propVars PROVE IInv'
  BY <1>1 DEF IInv, PropTypeOK, CountInv, propVars
<1>2. ASSUME IInv, PropNext PROVE IInv'
  <2>1. CASE \E tc_flag \in {0, 1}, valid \in {0, 1} : Feed(tc_flag, valid)
    BY <1>2, <2>1, FeedInv
  <2>2. CASE Clear
    BY <1>2, <2>2, ClearInv
  <2> QED BY <1>2, <2>1, <2>2 DEF PropNext
<1> QED BY <1>1, <1>2

\* The invariant is inductive.
THEOREM PropInvariant == PropSpec => []IInv
  BY InitInv, PropStep, PTL DEF PropSpec

\* However long the counter has run, saturated or not, a streak of uncertain
\* results as long as the threshold has raised the alarm.
THEOREM EveryStreakAlarms == PropSpec => []StreakAlarms
<1>1. IInv => StreakAlarms
  <2>1. ASSUME IInv, fed, streak >= prop.tc_threshold PROVE prop.tc_overflow = 1
    <3>1. /\ prop.tc_count \in 0 .. CountMax /\ streak \in 0 .. CountMax
          /\ prop.tc_threshold \in 0 .. CountMax /\ streak <= prop.tc_count
          /\ prop.tc_overflow = Bit(prop.tc_count >= prop.tc_threshold)
      BY <2>1, ThresholdsAssumption DEF IInv, PropTypeOK, Props, CountInv
    <3> QED BY <2>1, <3>1, CountMaxAssumption DEF Bit
  <2> QED BY <2>1 DEF StreakAlarms
<1> QED BY <1>1, PropInvariant, PTL

\* No alarm without as many uncertain results since the last acknowledgement.
THEOREM EveryAlarmIsEarned == PropSpec => []AlarmIsEarned
<1>1. IInv => AlarmIsEarned
  <2>1. ASSUME IInv, prop.tc_overflow = 1 PROVE rises >= prop.tc_threshold
    <3>1. /\ prop.tc_count \in 0 .. CountMax /\ rises \in 0 .. CountMax
          /\ prop.tc_threshold \in 0 .. CountMax /\ prop.tc_count <= rises
      BY <2>1, ThresholdsAssumption DEF IInv, PropTypeOK, Props, CountInv
    <3>2. prop.tc_overflow = Bit(prop.tc_count >= prop.tc_threshold)
      BY <2>1 DEF IInv, CountInv
    <3> QED BY <2>1, <3>1, <3>2, CountMaxAssumption DEF Bit
  <2> QED BY <2>1 DEF AlarmIsEarned
<1> QED BY <1>1, PropInvariant, PTL

\* The flags that say the chain is tainted never disagree with each other or
\* with the count.
THEOREM FlagsAgree == PropSpec => []TaintAgrees
<1>1. IInv => TaintAgrees
  <2>1. ASSUME IInv PROVE TaintAgrees
    BY <2>1 DEF IInv, CountInv, TaintAgrees, Bit
  <2> QED BY <2>1
<1> QED BY <1>1, PropInvariant, PTL

-----------------------------------------------------------------------------
(* The core.                                                                  *)

\* Beyond ADD and SUB the hardware holds the C library's tables.
LEMMA SameTables == \A i \in 3 .. 17 : RAW[i] = LUT[i]
<1>1. /\ mul_raw = lut_mul /\ neg_raw = lut_neg /\ and_raw = lut_and
      /\ or_raw = lut_or /\ xor_raw = lut_xor /\ not_raw = lut_not
      /\ nand_raw = lut_nand /\ nor_raw = lut_nor /\ cmp_eq_raw = lut_cmp_eq
      /\ cmp_gt_raw = lut_cmp_gt /\ cmp_lt_raw = lut_cmp_lt /\ cmp_range_raw = lut_cmp_range
      /\ fit_thresh_raw = lut_fit_thresh /\ fit_scale_raw = lut_fit_scale /\ fit_clamp_raw = lut_fit_clamp
  BY DEF mul_raw, lut_mul, neg_raw, lut_neg, and_raw, lut_and,
         or_raw, lut_or, xor_raw, lut_xor, not_raw, lut_not,
         nand_raw, lut_nand, nor_raw, lut_nor, cmp_eq_raw, lut_cmp_eq,
         cmp_gt_raw, lut_cmp_gt, cmp_lt_raw, lut_cmp_lt, cmp_range_raw, lut_cmp_range,
         fit_thresh_raw, lut_fit_thresh, fit_scale_raw, lut_fit_scale, fit_clamp_raw, lut_fit_clamp
<1> QED BY <1>1 DEF RAW, LUT

\* The words of ADD and SUB stand one bit higher in the C library.
LEMMA ShiftedTables ==
  ASSUME NEW op \in WithCarry, NEW i \in 1 .. 16
  PROVE  RAW[op + 1][i] \in Nat /\ LUT[op + 1][i] = 2 * RAW[op + 1][i]
  BY DEF WithCarry, RAW, LUT, add_raw, sub_raw, lut_add, lut_sub

\* Table words index as many words as there are operands.
LEMMA TableIndex ==
  ASSUME NEW a \in Trits, NEW b \in Trits
  PROVE  4 * a + b + 1 \in 1 .. 16 /\ a + 1 \in 1 .. 4
  BY DEF Trits, T0, T1, T2, TC

\* An enabled clock edge computes what hex4_exec computes.
LEMMA EdgeIsExec ==
  ASSUME NEW op \in Opcodes, NEW a \in Trits, NEW b \in Trits
  PROVE  Edge(op, a, b) = hex4_exec(op, a, b)
<1>1. CASE op > OpMax
  BY <1>1 DEF Edge, hex4_exec
<1>2. CASE op \in WithCarry
  <2> DEFINE i == 4 * a + b + 1
             r == RAW[op + 1][i]
             w == LUT[op + 1][i]
  <2>1. r \in Nat /\ w = 2 * r
    BY <1>2, ShiftedTables, TableIndex
  <2>2. ~(op > OpMax) /\ op \notin Unary
    BY <1>2 DEF WithCarry, OpMax, Unary
  <2>3. Edge(op, a, b) = [result |-> r \div 4, tc_flag |-> r % 2, valid |-> 1,
                          carry |-> (r \div 2) % 2]
    BY <1>2, <2>2 DEF Edge, Mux
  <2>4. hex4_exec(op, a, b) = [result |-> w \div 8, carry |-> (w \div 4) % 2,
                               tc_flag |-> (w \div 2) % 2, valid |-> 1]
    BY <1>2, <2>2 DEF hex4_exec, lut_dual_4b
  <2> HIDE DEF i, r, w
  <2>5. w \div 8 = r \div 4 /\ w \div 4 = r \div 2 /\ w \div 2 = r
    BY <2>1
  <2> QED BY <2>3, <2>4, <2>5
<1>3. CASE ~(op > OpMax) /\ op \notin WithCarry
  <2>1. RAW[op + 1] = LUT[op + 1]
    BY <1>3, SameTables DEF Opcodes, OpMax, WithCarry
  <2> QED BY <1>3, <2>1 DEF Edge, Mux, hex4_exec, lut_dual_3b, lut_unary_3b
<1> QED BY <1>1, <1>2, <1>3

\* Arithmetic modulo three, near zero.
LEMMA ModuloThree ==
  ASSUME NEW x \in Int
  PROVE  /\ -3 <= x /\ x < 0 => x % 3 = x + 3
         /\ 0 <= x /\ x < 3 => x % 3 = x
         /\ 3 <= x /\ x < 6 => x % 3 = x - 3
  OBVIOUS

\* What the C library computes is what the operation means, table by table.
LEMMA ExecIsReference ==
  ASSUME NEW op \in 0 .. OpMax, NEW a \in Trits, NEW b \in Trits
  PROVE  hex4_exec(op, a, b) = Reference(op, a, b)
<1> DEFINE Agrees(k) == hex4_exec(k, a, b) = Reference(k, a, b)
<1>a. a \in 0 .. 3 /\ b \in 0 .. 3 /\ OpMax = 16
  BY DEF Trits, T0, T1, T2, TC, OpMax
<1> USE <1>a DEF hex4_exec, lut_dual_3b, lut_dual_4b, lut_unary_3b, Reference, Tainted,
                 Meaning, Wraps, Least, Greatest, Yes, Scaled, Bit, WithCarry, Unary, LUT,
                 T0, T1, T2, TC
<1>0. Agrees(0)
  BY ModuloThree DEF lut_add
<1>1. Agrees(1)
  BY ModuloThree DEF lut_sub
<1>2. Agrees(2)
  BY ModuloThree DEF lut_mul
<1>3. Agrees(3)
  BY ModuloThree DEF lut_neg
<1>4. Agrees(4)
  BY DEF lut_and
<1>5. Agrees(5)
  BY DEF lut_or
<1>6. Agrees(6)
  BY DEF lut_xor
<1>7. Agrees(7)
  BY DEF lut_not
<1>8. Agrees(8)
  BY DEF lut_nand
<1>9. Agrees(9)
  BY DEF lut_nor
<1>10. Agrees(10)
  BY DEF lut_cmp_eq
<1>11. Agrees(11)
  BY DEF lut_cmp_gt
<1>12. Agrees(12)
  BY DEF lut_cmp_lt
<1>13. Agrees(13)
  BY DEF lut_cmp_range
<1>14. Agrees(14)
  BY DEF lut_fit_thresh
<1>15. Agrees(15)
  BY DEF lut_fit_scale
<1>16. Agrees(16)
  BY DEF lut_fit_clamp
<1> HIDE DEF Agrees
<1>17. \/ op = 0 \/ op = 1 \/ op = 2 \/ op = 3 \/ op = 4 \/ op = 5 \/ op = 6 \/ op = 7 \/ op = 8
       \/ op = 9 \/ op = 10 \/ op = 11 \/ op = 12 \/ op = 13 \/ op = 14 \/ op = 15 \/ op = 16
  BY <1>a
<1>18. Agrees(op)
  BY <1>17, <1>0, <1>1, <1>2, <1>3, <1>4, <1>5, <1>6, <1>7, <1>8, <1>9, <1>10, <1>11,
     <1>12, <1>13, <1>14, <1>15, <1>16
<1> QED BY <1>18 DEF Agrees

\* hex4_exec fills all four fields with values of their widths.
LEMMA ExecType ==
  ASSUME NEW op \in Opcodes, NEW a \in Trits, NEW b \in Trits
  PROVE  /\ hex4_exec(op, a, b) \in Results
         /\ hex4_exec(op, a, b).valid = Bit(op <= OpMax)
<1>1. CASE op > OpMax
  BY <1>1 DEF hex4_exec, NoResult, Results, Opcodes, OpMax, Trits, T0, T1, T2, TC, Bit
<1>2. CASE op <= OpMax
  <2>1. op \in 0 .. OpMax
    BY <1>2 DEF Opcodes, OpMax
  <2>2. hex4_exec(op, a, b) = Reference(op, a, b)
    BY <2>1, ExecIsReference
  <2>3. Reference(op, a, b) \in Results /\ Reference(op, a, b).valid = 1
    <3>1. CASE Tainted(op, a, b)
      BY <3>1 DEF Reference, Results, Trits, TC
    <3>2. CASE ~Tainted(op, a, b)
      <4>1. Meaning(op, a, b) \in Trits
        <5>1. /\ op \in 0 .. 16 /\ a \in 0 .. 2 /\ b \in 0 .. 3
              /\ op \notin {3, 7} => b \in 0 .. 2
          BY <2>1, <3>2 DEF Tainted, Trits, T0, T1, T2, TC, OpMax, Unary
        <5>2. /\ (a + b) % 3 \in 0 .. 2 /\ (a - b) % 3 \in 0 .. 2
              /\ (a * b) % 3 \in 0 .. 2 /\ (-a) % 3 \in 0 .. 2
          BY <5>1
        <5> QED
          BY <5>1, <5>2 DEF Meaning, Least, Greatest, Yes, Scaled, Trits, T0, T1, T2, TC
      <4>2. /\ Bit(op \in WithCarry /\ Wraps(op, a, b)) \in {0, 1}
            /\ Bit(Wraps(op, a, b)) \in {0, 1}
        BY DEF Bit
      <4> QED BY <3>2, <4>1, <4>2 DEF Reference, Results
    <3> QED BY <3>1, <3>2
  <2> QED BY <1>2, <2>2, <2>3 DEF Bit
<1> QED BY <1>1, <1>2 DEF Opcodes, OpMax

\* The core and its propagator together: the types, the registers against the
\* C library, valid only while an operation with a known opcode is held.
CoreInv ==
  /\ TypeOK
  /\ BitExact
  /\ out.valid = 1 => sampled # NoOperation

\* What the core drives the propagator with is a flag and a gate.
LEMMA OutBits ==
  ASSUME TypeOK
  PROVE  out.tc_flag \in {0, 1} /\ out.valid \in {0, 1}
  BY DEF TypeOK, Results

\* Every step of the core is a step of the propagator or leaves it alone.
LEMMA StepFeedsPropagator == TypeOK /\ [Next]_vars => [PropNext]_propVars
<1>1. ASSUME TypeOK, UNCHANGED vars PROVE UNCHANGED propVars
  BY <1>1 DEF vars
<1>2. ASSUME TypeOK, Feed(out.tc_flag, out.valid) PROVE PropNext
  BY <1>2, OutBits DEF PropNext
<1>3. ASSUME TypeOK, Next PROVE [PropNext]_propVars
  <2>1. CASE \E op \in Opcodes, a \in Trits, b \in Trits : Enabled(op, a, b)
    BY <1>2, <1>3, <2>1 DEF Enabled
  <2>2. CASE Disabled
    BY <1>2, <1>3, <2>2 DEF Disabled
  <2>3. CASE Reset
    BY <2>3 DEF Reset
  <2>4. CASE Acknowledge
    BY <2>4 DEF Acknowledge, PropNext
  <2> QED BY <1>3, <2>1, <2>2, <2>3, <2>4 DEF Next
<1> QED BY <1>1, <1>3

\* An operation that was sampled is not the marker for none.
LEMMA OperationIsSampled ==
  ASSUME NEW o \in Operations
  PROVE  o # NoOperation
<1>1. o.op \in Opcodes
  BY DEF Operations
<1>2. ASSUME o = NoOperation PROVE FALSE
  <2>1. DOMAIN o = {"op", "a", "b"}
    BY DEF Operations
  <2>2. DOMAIN o = {"op"}
    BY <1>2 DEF NoOperation
  <2> QED BY <2>1, <2>2
<1> QED BY <1>2

\* One clock edge, reset or acknowledgement keeps the registers exact.
LEMMA CoreStep ==
  ASSUME TypeOK, BitExact, out.valid = 1 => sampled # NoOperation, [Next]_vars
  PROVE  /\ out' \in Results
         /\ sampled' \in Operations \cup {NoOperation}
         /\ BitExact'
         /\ out'.valid = 1 => sampled' # NoOperation
<1>1. CASE UNCHANGED vars
  BY <1>1 DEF vars, coreVars, TypeOK, BitExact
<1>2. ASSUME NEW op \in Opcodes, NEW a \in Trits, NEW b \in Trits, Enabled(op, a, b)
      PROVE  /\ out' \in Results /\ BitExact'
             /\ sampled' \in Operations /\ sampled' # NoOperation
  <2>1. out' = hex4_exec(op, a, b) /\ sampled' = [op |-> op, a |-> a, b |-> b]
    BY <1>2, EdgeIsExec DEF Enabled
  <2>2. sampled' \in Operations
    BY <2>1 DEF Operations
  <2> QED BY <2>1, <2>2, ExecType, OperationIsSampled DEF BitExact
<1>3. CASE Disabled
  <2>1. out' = [out EXCEPT !.valid = 0] /\ sampled' = NoOperation /\ out \in Results
    BY <1>3 DEF Disabled, TypeOK
  <2>2. out' \in Results /\ out'.valid = 0
    BY <2>1 DEF Results
  <2> QED BY <2>1, <2>2 DEF BitExact
<1>4. CASE Reset
  <2>1. out' = NoResult /\ sampled' = NoOperation
    BY <1>4 DEF Reset
  <2> QED BY <2>1 DEF BitExact, NoResult, Results, Trits, T0
<1>5. CASE Acknowledge
  BY <1>5 DEF Acknowledge, coreVars, TypeOK, BitExact
<1> QED BY <1>1, <1>2, <1>3, <1>4, <1>5 DEF Next

\* The invariant of core and propagator is inductive.
THEOREM CoreInvariant == Spec => [](CoreInv /\ IInv)
<1>1. Init => CoreInv /\ IInv
  <2>1. ASSUME Init PROVE CoreInv /\ IInv
    <3>1. IInv
      BY <2>1, InitInv DEF Init
    <3>2. out = NoResult /\ sampled = NoOperation
      BY <2>1 DEF Init
    <3> QED BY <3>1, <3>2 DEF CoreInv, TypeOK, IInv, BitExact, NoResult, Results, Trits, T0
  <2> QED BY <2>1
<1>2. CoreInv /\ IInv /\ [Next]_vars => (CoreInv /\ IInv)'
  <2>1. ASSUME CoreInv, IInv, [Next]_vars PROVE CoreInv' /\ IInv'
    <3>1. IInv'
      BY <2>1, StepFeedsPropagator, PropStep DEF CoreInv
    <3>2. /\ out' \in Results
          /\ sampled' \in Operations \cup {NoOperation}
          /\ BitExact'
          /\ out'.valid = 1 => sampled' # NoOperation
      BY <2>1, CoreStep DEF CoreInv
    <3> QED BY <3>1, <3>2 DEF CoreInv, TypeOK, IInv
  <2> QED BY <2>1
<1> QED BY <1>1, <1>2, PTL DEF Spec

\* Registers, history and propagator keep their types.
THEOREM CoreTypeCorrect == Spec => []TypeOK
<1>1. CoreInv => TypeOK
  BY DEF CoreInv
<1> QED BY <1>1, CoreInvariant, PTL

\* For every opcode and every pair of operands, and after any sequence of
\* clock edges, the hardware registers hold what the C library computes.
THEOREM HardwareIsBitExact == Spec => []BitExact
<1>1. CoreInv => BitExact
  BY DEF CoreInv
<1> QED BY <1>1, CoreInvariant, PTL

\* A result that claims to be valid belongs to the operation of the last edge
\* and means what ternary arithmetic says; no uncertainty is lost.
THEOREM ValidResultsAreReference == Spec => []ValidMeansReference
<1>1. CoreInv => ValidMeansReference
  <2>1. ASSUME CoreInv, out.valid = 1 PROVE /\ sampled # NoOperation
                                            /\ sampled.op <= OpMax
                                            /\ out = Reference(sampled.op, sampled.a, sampled.b)
    <3>1. sampled # NoOperation /\ sampled \in Operations /\ BitExact
      BY <2>1 DEF CoreInv, TypeOK
    <3>2. /\ sampled.op \in Opcodes /\ sampled.a \in Trits /\ sampled.b \in Trits
          /\ out = hex4_exec(sampled.op, sampled.a, sampled.b)
      BY <3>1 DEF Operations, BitExact
    <3>3. sampled.op <= OpMax
      BY <2>1, <3>2, ExecType DEF Bit
    <3>4. sampled.op \in 0 .. OpMax
      BY <3>2, <3>3 DEF Opcodes, OpMax
    <3> QED BY <3>1, <3>2, <3>3, <3>4, ExecIsReference
  <2> QED BY <2>1 DEF ValidMeansReference
<1> QED BY <1>1, CoreInvariant, PTL

\* The core's output is a legal input of the propagator in every cycle: the
\* composition implements the propagator's specification.
THEOREM CoreFeedsPropagator == Spec => PropSpec
<1>1. Init => PropInit
  BY DEF Init
<1>2. CoreInv /\ [Next]_vars => [PropNext]_propVars
  BY StepFeedsPropagator DEF CoreInv
<1> QED BY <1>1, <1>2, CoreInvariant, PTL DEF Spec, PropSpec

\* Hence what is proved of the propagator alone holds of the composition.
THEOREM CoreAlarms == Spec => [](StreakAlarms /\ AlarmIsEarned /\ TaintAgrees)
  BY CoreFeedsPropagator, EveryStreakAlarms, EveryAlarmIsEarned, FlagsAgree, PTL

=============================================================================
