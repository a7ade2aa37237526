--------------------------- MODULE TernaryCoreLite ---------------------------
(***************************************************************************)
(* ternary_core_lite.v: the synthesizable core, clocked against the C      *)
(* library as its golden model, with a TC propagator that is fed the       *)
(* registered flag and valid bit (valid is the gate hex4_tc_prop_feed      *)
(* takes).  ENABLE_PIPELINE is 1, its default; the other branch of the     *)
(* generate block is the same multiplexer without registers.               *)
(***************************************************************************)
EXTENDS Hex4Core, TcPropagator

VARIABLES
  out,       \* the registers result, carry, tc_flag and valid
  sampled    \* history: the operation of the last clock edge, "none" if
             \* the core was disabled or in reset

coreVars == <<out, sampled>>
vars == <<coreVars, propVars>>

Operations == [op : Opcodes, a : Trits, b : Trits]
NoOperation == [op |-> "none"]

-----------------------------------------------------------------------------
(* The look-up tables, packed {result, carry, tc_flag} for ADD and SUB and    *)
(* {result, tc_flag} for the others, indexed by {op_a, op_b}.                  *)

add_raw == <<0, 4, 8, 13, 4, 8, 3, 13, 8, 3, 7, 13, 13, 13, 13, 13>>
sub_raw == <<0, 11, 7, 13, 4, 0, 11, 13, 8, 4, 0, 13, 13, 13, 13, 13>>
mul_raw == <<0, 0, 0, 7, 0, 2, 4, 7, 0, 4, 3, 7, 7, 7, 7, 7>>
neg_raw == <<0, 4, 2, 7>>
and_raw == <<0, 0, 0, 7, 0, 2, 2, 7, 0, 2, 4, 7, 7, 7, 7, 7>>
or_raw == <<0, 2, 4, 7, 2, 2, 4, 7, 4, 4, 4, 7, 7, 7, 7, 7>>
xor_raw == <<0, 2, 4, 7, 2, 0, 2, 7, 4, 2, 0, 7, 7, 7, 7, 7>>
not_raw == <<4, 2, 0, 7>>
nand_raw == <<4, 4, 4, 7, 4, 2, 2, 7, 4, 2, 0, 7, 7, 7, 7, 7>>
nor_raw == <<4, 2, 0, 7, 2, 2, 0, 7, 0, 0, 0, 7, 7, 7, 7, 7>>
cmp_eq_raw == <<4, 0, 0, 7, 0, 4, 0, 7, 0, 0, 4, 7, 7, 7, 7, 7>>
cmp_gt_raw == <<0, 0, 0, 7, 4, 0, 0, 7, 4, 4, 0, 7, 7, 7, 7, 7>>
cmp_lt_raw == <<0, 4, 4, 7, 0, 0, 4, 7, 0, 0, 0, 7, 7, 7, 7, 7>>
cmp_range_raw == <<4, 4, 4, 7, 0, 4, 4, 7, 0, 0, 4, 7, 7, 7, 7, 7>>
fit_thresh_raw == <<4, 0, 0, 7, 4, 4, 2, 7, 4, 4, 4, 7, 7, 7, 7, 7>>
fit_scale_raw == <<0, 0, 0, 7, 0, 2, 4, 7, 2, 4, 4, 7, 7, 7, 7, 7>>
fit_clamp_raw == <<0, 0, 0, 7, 0, 2, 2, 7, 0, 2, 4, 7, 7, 7, 7, 7>>

RAW == <<add_raw, sub_raw, mul_raw, neg_raw, and_raw, or_raw, xor_raw, not_raw, nand_raw,
         nor_raw, cmp_eq_raw, cmp_gt_raw, cmp_lt_raw, cmp_range_raw, fit_thresh_raw,
         fit_scale_raw, fit_clamp_raw>>

\* Mutant of Mux: the words of ADD and SUB are unpacked like the others.
MuxOneFormat(op, a, b) ==
  LET raw == IF op \in Unary THEN RAW[op + 1][a + 1] ELSE RAW[op + 1][4 * a + b + 1]
  IN  [result |-> raw \div 2, tc_flag |-> raw % 2, valid |-> 1, carry |-> 0]

\* The output multiplexer.
Mux(op, a, b) ==
  LET raw == IF op \in Unary THEN RAW[op + 1][a + 1] ELSE RAW[op + 1][4 * a + b + 1]
      high == IF op \in WithCarry THEN raw \div 4 ELSE raw \div 2
  IN  [result |-> high, tc_flag |-> raw % 2, valid |-> 1,
       carry |-> IF op \in WithCarry THEN (raw \div 2) % 2 ELSE 0]

\* Mutant of Edge: the operands reach the table in the other order.
EdgeSwapped(op, a, b) == IF op > OpMax THEN NoResult ELSE Mux(op, b, a)

\* What an enabled clock edge registers; an unknown opcode clears everything.
Edge(op, a, b) == IF op > OpMax THEN NoResult ELSE Mux(op, a, b)

-----------------------------------------------------------------------------

Init ==
  /\ out = NoResult /\ sampled = NoOperation
  /\ PropInit

\* The propagator sees the registers as they were before the edge.
Enabled(op, a, b) ==
  /\ out' = Edge(op, a, b)
  /\ sampled' = [op |-> op, a |-> a, b |-> b]
  /\ Feed(out.tc_flag, out.valid)

\* Mutant of Disabled: the valid bit stays.
DisabledKeepsValid ==
  /\ UNCHANGED out
  /\ sampled' = NoOperation
  /\ Feed(out.tc_flag, out.valid)

\* Without enable only the valid bit falls; the result stays.
Disabled ==
  /\ out' = [out EXCEPT !.valid = 0]
  /\ sampled' = NoOperation
  /\ Feed(out.tc_flag, out.valid)

\* The asynchronous reset.
Reset ==
  /\ out' = NoResult /\ sampled' = NoOperation
  /\ UNCHANGED propVars

Acknowledge == Clear /\ UNCHANGED coreVars

Next ==
  \/ \E op \in Opcodes, a \in Trits, b \in Trits : Enabled(op, a, b)
  \/ Disabled \/ Reset \/ Acknowledge

Spec == Init /\ [][Next]_vars

-----------------------------------------------------------------------------
(* Reference definitions of the operations: arithmetic modulo three with a     *)
(* carry, order and distance on the levels.                                    *)

Least(a, b) == IF a <= b THEN a ELSE b
Greatest(a, b) == IF a <= b THEN b ELSE a
Yes(condition) == IF condition THEN T2 ELSE T0

\* In FIT_SCALE the first operand is the gain: nothing, unit, one level up.
Scaled(gain, x) == IF gain = T0 THEN T0 ELSE IF gain = T1 THEN x ELSE Least(x + 1, T2)

Meaning(op, a, b) ==
  <<(a + b) % 3, (a - b) % 3, (a * b) % 3, (-a) % 3, Least(a, b), Greatest(a, b),
    Greatest(a, b) - Least(a, b), T2 - a, T2 - Least(a, b), T2 - Greatest(a, b),
    Yes(a = b), Yes(a > b), Yes(a < b), Yes(a <= b), IF a >= b THEN T2 ELSE a,
    Scaled(a, b), Least(a, b)>>[op + 1]

\* Where arithmetic leaves the three levels: carry, borrow, truncated product.
Wraps(op, a, b) ==
  \/ op = 0 /\ a + b > T2
  \/ op = 1 /\ a < b
  \/ op = 2 /\ a * b > T2

Tainted(op, a, b) == a = TC \/ (op \notin Unary /\ b = TC)

Reference(op, a, b) ==
  IF Tainted(op, a, b) THEN [result |-> TC, carry |-> 0, tc_flag |-> 1, valid |-> 1]
  ELSE [result |-> Meaning(op, a, b), valid |-> 1,
        carry |-> Bit(op \in WithCarry /\ Wraps(op, a, b)),
        tc_flag |-> Bit(Wraps(op, a, b))]

-----------------------------------------------------------------------------

TypeOK ==
  /\ out \in Results
  /\ sampled \in Operations \cup {NoOperation}
  /\ PropTypeOK

\* The registers hold what the C library computes, bit for bit, for every
\* opcode, the unknown ones included (hex4_exec against the clocked process).
BitExact == sampled # NoOperation => out = hex4_exec(sampled.op, sampled.a, sampled.b)

\* A result that claims to be valid belongs to the operation of the last edge
\* and means what ternary arithmetic, order and the absorption of TC say: no
\* stale result is valid, and no uncertainty is lost.
ValidMeansReference ==
  out.valid = 1 =>
    /\ sampled # NoOperation
    /\ sampled.op <= OpMax
    /\ out = Reference(sampled.op, sampled.a, sampled.b)
=============================================================================
