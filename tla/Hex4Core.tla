------------------------------- MODULE Hex4Core -------------------------------
(***************************************************************************)
(* The C reference library (clib/hex4_core.c; the coprocessor's component  *)
(* holds the same file): seventeen operations on the four levels T0, T1,   *)
(* T2 and TC = 0 .. 3, each a look-up table of packed words indexed by     *)
(* (a << 2) | b, or by a alone.  A word packs the result, the carry where  *)
(* there is one, and the TC flag in its lowest bit; the words of ADD and   *)
(* SUB are shifted left by one more.                                       *)
(***************************************************************************)
EXTENDS Integers, Sequences

T0 == 0
T1 == 1
T2 == 2
TC == 3
Trits == {T0, T1, T2, TC}

OpMax == 16
Opcodes == 0 .. 31          \* five bits
WithCarry == {0, 1}         \* ADD, SUB
Unary == {3, 7}             \* NEG, NOT
FIT_THRESH == 14
FIT_SCALE == 15
CMP_GT == 11

Results == [result : Trits, carry : {0, 1}, tc_flag : {0, 1}, valid : {0, 1}]
NoResult == [result |-> 0, carry |-> 0, tc_flag |-> 0, valid |-> 0]

-----------------------------------------------------------------------------
lut_add == <<0, 8, 16, 26, 8, 16, 6, 26, 16, 6, 14, 26, 26, 26, 26, 26>>
lut_sub == <<0, 22, 14, 26, 8, 0, 22, 26, 16, 8, 0, 26, 26, 26, 26, 26>>
lut_mul == <<0, 0, 0, 7, 0, 2, 4, 7, 0, 4, 3, 7, 7, 7, 7, 7>>
lut_neg == <<0, 4, 2, 7>>
lut_and == <<0, 0, 0, 7, 0, 2, 2, 7, 0, 2, 4, 7, 7, 7, 7, 7>>
lut_or == <<0, 2, 4, 7, 2, 2, 4, 7, 4, 4, 4, 7, 7, 7, 7, 7>>
lut_xor == <<0, 2, 4, 7, 2, 0, 2, 7, 4, 2, 0, 7, 7, 7, 7, 7>>
lut_not == <<4, 2, 0, 7>>
lut_nand == <<4, 4, 4, 7, 4, 2, 2, 7, 4, 2, 0, 7, 7, 7, 7, 7>>
lut_nor == <<4, 2, 0, 7, 2, 2, 0, 7, 0, 0, 0, 7, 7, 7, 7, 7>>
lut_cmp_eq == <<4, 0, 0, 7, 0, 4, 0, 7, 0, 0, 4, 7, 7, 7, 7, 7>>
lut_cmp_gt == <<0, 0, 0, 7, 4, 0, 0, 7, 4, 4, 0, 7, 7, 7, 7, 7>>
lut_cmp_lt == <<0, 4, 4, 7, 0, 0, 4, 7, 0, 0, 0, 7, 7, 7, 7, 7>>
lut_cmp_range == <<4, 4, 4, 7, 0, 4, 4, 7, 0, 0, 4, 7, 7, 7, 7, 7>>
lut_fit_thresh == <<4, 0, 0, 7, 4, 4, 2, 7, 4, 4, 4, 7, 7, 7, 7, 7>>
lut_fit_scale == <<0, 0, 0, 7, 0, 2, 4, 7, 2, 4, 4, 7, 7, 7, 7, 7>>
lut_fit_clamp == <<0, 0, 0, 7, 0, 2, 2, 7, 0, 2, 4, 7, 7, 7, 7, 7>>

LUT == <<lut_add, lut_sub, lut_mul, lut_neg, lut_and, lut_or, lut_xor, lut_not, lut_nand,
         lut_nor, lut_cmp_eq, lut_cmp_gt, lut_cmp_lt, lut_cmp_range, lut_fit_thresh,
         lut_fit_scale, lut_fit_clamp>>

-----------------------------------------------------------------------------

lut_dual_3b(raw, a, b) ==
  LET w == raw[4 * a + b + 1]
  IN  [result |-> w \div 2, carry |-> 0, tc_flag |-> w % 2, valid |-> 1]

lut_dual_4b(raw, a, b) ==
  LET w == raw[4 * a + b + 1]
  IN  [result |-> w \div 8, carry |-> (w \div 4) % 2, tc_flag |-> (w \div 2) % 2, valid |-> 1]

lut_unary_3b(raw, a) ==
  LET w == raw[a + 1]
  IN  [result |-> w \div 2, carry |-> 0, tc_flag |-> w % 2, valid |-> 1]

hex4_exec(op, a, b) ==
  IF op > OpMax THEN NoResult
  ELSE IF op \in WithCarry THEN lut_dual_4b(LUT[op + 1], a, b)
  ELSE IF op \in Unary THEN lut_unary_3b(LUT[op + 1], a)
  ELSE lut_dual_3b(LUT[op + 1], a, b)
=============================================================================
