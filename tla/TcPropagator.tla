----------------------------- MODULE TcPropagator -----------------------------
(***************************************************************************)
(* hex4_tc_propagator.c: the counter that rises with every uncertain (TC)  *)
(* result, falls with every certain one, and raises an alarm at the        *)
(* threshold.  The lifetime totals, which no branch reads, are left out.   *)
(***************************************************************************)
EXTENDS Integers

CONSTANTS
  CountMax,     \* where tc_count saturates (255, it is a byte)
  Thresholds    \* the values tc_threshold may be configured to

ASSUME CountMaxAssumption == CountMax \in Nat /\ CountMax >= 1
ASSUME ThresholdsAssumption == Thresholds # {} /\ Thresholds \subseteq 0 .. CountMax

VARIABLES
  prop,         \* hex4_tc_prop_t
  streak,       \* history: the last results were this many TCs in a row
  rises,        \* history: TC results since the last init or clear
  fed           \* history: something was fed since then

propVars == <<prop, streak, rises, fed>>

Props ==
  [tc_count : 0 .. CountMax, tc_threshold : Thresholds,
   tc_overflow : {0, 1}, tc_any : {0, 1}, tc_out_flag : {0, 1}]

PropTypeOK ==
  /\ prop \in Props
  /\ streak \in 0 .. CountMax
  /\ rises \in 0 .. CountMax
  /\ fed \in BOOLEAN

hex4_tc_prop_init(threshold) ==
  [tc_count |-> 0, tc_threshold |-> threshold, tc_overflow |-> 0, tc_any |-> 0,
   tc_out_flag |-> 0]

Bit(condition) == IF condition THEN 1 ELSE 0

NewCount(p, tc_flag) ==
  IF tc_flag = 1
  THEN IF p.tc_count < CountMax THEN p.tc_count + 1 ELSE p.tc_count
  ELSE IF p.tc_count > 0 THEN p.tc_count - 1 ELSE 0

Updated(p, tc_flag, tested) ==
  LET count == NewCount(p, tc_flag)
  IN  [p EXCEPT !.tc_count = count,
                !.tc_any = Bit(tc_flag = 1 \/ (count > 0 /\ p.tc_any = 1)),
                !.tc_overflow = Bit(tested >= p.tc_threshold),
                !.tc_out_flag = Bit(count > 0)]

\* Mutant of hex4_tc_prop_feed: the alarm is tested before the count changes.
FeedTestsFirst(p, tc_flag, valid) ==
  IF valid = 0 THEN p ELSE Updated(p, tc_flag, p.tc_count)

hex4_tc_prop_feed(p, tc_flag, valid) ==
  IF valid = 0 THEN p ELSE Updated(p, tc_flag, NewCount(p, tc_flag))

\* Mutant of hex4_tc_prop_clear: the alarm is cleared, the count is not.
ClearAlarmOnly(p) == [p EXCEPT !.tc_overflow = 0, !.tc_any = 0, !.tc_out_flag = 0]

hex4_tc_prop_clear(p) == hex4_tc_prop_init(p.tc_threshold)

-----------------------------------------------------------------------------

PropInit ==
  /\ \E t \in Thresholds : prop = hex4_tc_prop_init(t)
  /\ streak = 0 /\ rises = 0 /\ fed = FALSE

Capped(n) == IF n < CountMax THEN n + 1 ELSE n

Feed(tc_flag, valid) ==
  /\ prop' = hex4_tc_prop_feed(prop, tc_flag, valid)
  /\ IF valid = 0 THEN UNCHANGED <<streak, rises, fed>>
     ELSE /\ streak' = IF tc_flag = 1 THEN Capped(streak) ELSE 0
          /\ rises' = IF tc_flag = 1 THEN Capped(rises) ELSE rises
          /\ fed' = TRUE

Clear ==
  /\ prop' = hex4_tc_prop_clear(prop)
  /\ streak' = 0 /\ rises' = 0 /\ fed' = FALSE

PropNext ==
  \/ \E tc_flag \in {0, 1}, valid \in {0, 1} : Feed(tc_flag, valid)
  \/ Clear

PropSpec == PropInit /\ [][PropNext]_propVars

-----------------------------------------------------------------------------

\* As many uncertain results in a row as the threshold asks for raise the
\* alarm, whatever came before them and however long the counter has run
\* (hex4_tc_prop_feed, its saturation included).
StreakAlarms == fed /\ streak >= prop.tc_threshold => prop.tc_overflow = 1

\* The alarm is never raised by fewer uncertain results than the threshold
\* since the last acknowledgement (hex4_tc_prop_clear forgets them all).
AlarmIsEarned == prop.tc_overflow = 1 => rises >= prop.tc_threshold

\* The two flags that say the chain is tainted agree with each other and with
\* the count, although each is kept by branches of its own.
TaintAgrees == prop.tc_any = prop.tc_out_flag /\ (prop.tc_any = 1) = (prop.tc_count > 0)
=============================================================================
