----------------------------- MODULE UlpWatchProofs -----------------------------
(***************************************************************************)
(* The coprocessor and the consumer of its events, proved for every way of *)
(* consuming them, every heartbeat period, every threshold and saturation  *)
(* limit of the propagator, and every number of events and mode changes.   *)
(***************************************************************************)
EXTENDS UlpWatch, TLAPS

\* A run of the coprocessor that has not raised its event yet.
BeforeEvent == upc \in {"ack", "mode", "clear", "sense", "feed", "prev", "status", "seq"}

\* The bounds and types, with what the bound of the event number rests on.
TypeInv == TypeOK /\ (BeforeEvent => evt_seq < MaxEvents)

\* Nothing uncertain was ever counted: only a threshold of zero alarms.
CertainInv ==
  /\ prop.tc_count = 0
  /\ \/ prop.tc_threshold = 0
     \/ prop.tc_overflow = 0 /\ raised # "ALARM_TC" /\ status # "ALARM_TC"

\* A number that was polled belongs to an event that has an answer or will be
\* followed by a higher number.
HigherNumberComes == upc = "seq" \/ s_last_seen_seq < evt_seq

\* A poll's result is on its way to the dispatch, or a higher number follows.
PollInv ==
  /\ s_last_seen_seq <= evt_seq
  /\ cpc \in {"test", "runTest"} => consumer = "deep"
  /\ consumer = "polling" =>
       /\ cpc = "take" => reported = s_last_seen_seq \/ HigherNumberComes
       /\ cpc = "overflow" => status = "IDLE" \/ HigherNumberComes
       /\ cpc = "dispatch" /\ evt = "IDLE" => HigherNumberComes
       /\ cpc \in {"ackcmd", "ackread", "ackwrite", "runWatch"} => reported = s_last_seen_seq

\* The events that abort the machine.
Alarms == {"ALARM_JUMP", "ALARM_TC"}

\* The level was reported: the one kept is the one measured, and T2 was answered.
Answered == quant_state = T2 => stopped
\* The levels are at rest: equal, and answered when at T2.
Settled == state_prev = quant_state /\ Answered

\* The alarm of the last run is still on its way to the consumer.
Waiting ==
  /\ status \in Alarms
  /\ status = "ALARM_TC" => state_prev = quant_state
  /\ \/ cpc \in {"status", "dispatch"}
     \/ consumer # "polling" /\ (notified \/ upc = "wake")
     \/ consumer = "polling" /\ cpc = "take" /\ s_last_seen_seq # evt_seq

\* It was answered, and the level is about to be copied.
Acknowledging == cpc \in {"ackcmd", "ackread", "ackwrite"} /\ Answered

\* What the coprocessor's event says of the levels, before the consumer acts.
Raised ==
  \/ raised = "ALARM_JUMP"
  \/ raised = "ALARM_TC" /\ state_prev = quant_state
  \/ raised \notin Alarms /\ Settled

\* Where the consumer of a prompt application may be in each phase of a run.
PromptPlaces ==
  /\ consumer # "deep" /\ latched /\ s_ulp_started
  /\ cpc \notin {"test", "runTest", "runWatch"}
  /\ BeforeEvent => /\ cpc = "take" /\ ~notified
                    /\ consumer = "polling" => s_last_seen_seq = evt_seq
  /\ upc \in {"idle", "wake"} /\ consumer # "polling" => cpc = "take" /\ ~notified
  /\ cpc = "overflow" => status = "IDLE"
  /\ cpc = "dispatch" => evt = status \/ (evt = "OVERFLOW" /\ status = "IDLE")
  /\ cpc = "ackwrite" => seen = quant_state

\* The levels in each phase of a run.
PromptLevels ==
  /\ upc \in {"ack", "mode", "clear", "sense"} => Settled
  /\ upc = "feed" => (quant_state = T2 /\ state_prev = T2 => stopped)
  /\ upc = "prev" => raised # "ALARM_JUMP" /\ (raised = "ALARM_TC" \/ Answered)
  /\ upc \in {"status", "seq"} => Raised
  /\ upc = "seq" => status = raised
  /\ upc \in {"halt", "idle", "wake"} => Settled \/ Waiting \/ Acknowledging

\* All of it is promised to a consumer that keeps up.
PromptInv == prompt => PromptPlaces /\ PromptLevels

\* The inductive invariant of the watch.
IInv == TypeInv /\ CertainInv /\ PollInv /\ PromptInv

-----------------------------------------------------------------------------
(* Types.                                                                    *)

\* Acknowledging starts the propagator over with its threshold.
LEMMA ClearType ==
  ASSUME PropTypeOK, Clear
  PROVE  PropTypeOK' /\ prop' = hex4_tc_prop_init(prop.tc_threshold)
<1>1. /\ prop.tc_threshold \in Thresholds
      /\ prop' = hex4_tc_prop_init(prop.tc_threshold)
      /\ streak' = 0 /\ rises' = 0 /\ fed' = FALSE
  BY DEF PropTypeOK, Props, Clear, hex4_tc_prop_clear
<1>2. PropTypeOK'
  <2> DEFINE t == prop.tc_threshold
  <2>1. /\ t \in Thresholds /\ prop' = hex4_tc_prop_init(t)
        /\ streak' = 0 /\ rises' = 0 /\ fed' = FALSE
    BY <1>1
  <2> HIDE DEF t
  <2>2. hex4_tc_prop_init(t) \in Props
    BY <2>1, CountMaxAssumption DEF hex4_tc_prop_init, Props
  <2>3. 0 \in 0 .. CountMax
    BY CountMaxAssumption
  <2> QED BY <2>1, <2>2, <2>3 DEF PropTypeOK
<1> QED BY <1>1, <1>2

\* Feeding a result keeps the counters within their limit.
LEMMA FeedType ==
  ASSUME PropTypeOK, NEW tc_flag \in {0, 1}, Feed(tc_flag, 1)
  PROVE  /\ PropTypeOK'
         /\ prop'.tc_count = NewCount(prop, tc_flag)
         /\ prop'.tc_threshold = prop.tc_threshold
         /\ prop'.tc_overflow = Bit(prop'.tc_count >= prop.tc_threshold)
<1> DEFINE count == NewCount(prop, tc_flag)
<1>1. prop' = Updated(prop, tc_flag, count)
  BY DEF Feed, hex4_tc_prop_feed
<1>2. /\ streak' \in 0 .. CountMax /\ rises' \in 0 .. CountMax /\ fed' \in BOOLEAN
  BY CountMaxAssumption DEF Feed, Capped, PropTypeOK
<1>3. count \in 0 .. CountMax
  BY CountMaxAssumption DEF NewCount, PropTypeOK, Props
<1> HIDE DEF count
<1>4. prop' = [tc_count |-> count, tc_threshold |-> prop.tc_threshold,
               tc_overflow |-> Bit(count >= prop.tc_threshold),
               tc_any |-> Bit(tc_flag = 1 \/ (count > 0 /\ prop.tc_any = 1)),
               tc_out_flag |-> Bit(count > 0)]
  BY <1>1 DEF Updated, PropTypeOK, Props, count
<1> QED BY <1>2, <1>3, <1>4 DEF PropTypeOK, Props, Bit, count

\* The three operations of the pipeline add no uncertainty to a measured level.
LEMMA PipelineIsCertain ==
  ASSUME NEW level \in Levels
  PROVE  PipelineFlag(level) = 0
<1> DEFINE r1 == hex4_exec(FIT_SCALE, level, T1)
           r2 == hex4_exec(CMP_GT, r1.result, T1)
           r3 == hex4_exec(FIT_THRESH, r2.result, T1)
<1>1. ASSUME NEW l \in Levels
      PROVE  /\ hex4_exec(FIT_SCALE, l, T1).result \in Levels
             /\ hex4_exec(FIT_SCALE, l, T1).tc_flag = 0
             /\ hex4_exec(CMP_GT, l, T1).result \in Levels
             /\ hex4_exec(CMP_GT, l, T1).tc_flag = 0
             /\ hex4_exec(FIT_THRESH, l, T1).tc_flag = 0
  BY DEF Levels, T0, T1, T2, hex4_exec, FIT_SCALE, CMP_GT, FIT_THRESH, OpMax, WithCarry,
         Unary, lut_dual_3b, LUT, lut_fit_scale, lut_cmp_gt, lut_fit_thresh
<1>2. r1.result \in Levels /\ r1.tc_flag = 0
  BY <1>1
<1>3. r2.result \in Levels /\ r2.tc_flag = 0
  BY <1>1, <1>2
<1>4. r3.tc_flag = 0
  BY <1>1, <1>3
<1> QED BY <1>2, <1>3, <1>4 DEF PipelineFlag

\* What hex4_ulp_init leaves is well typed.
LEMMA TypeInit == Init => TypeInv
<1> SUFFICES ASSUME Init PROVE TypeInv
  OBVIOUS
<1>1. PropTypeOK
  <2>1. PICK t \in Thresholds : prop = hex4_tc_prop_init(t)
    BY DEF Init, PropInit
  <2>2. hex4_tc_prop_init(t) \in Props /\ 0 \in 0 .. CountMax
    BY CountMaxAssumption DEF hex4_tc_prop_init, Props
  <2> QED BY <2>1, <2>2 DEF PropTypeOK, Init, PropInit
<1>2. cmd \in [mode : Modes, ack : BOOLEAN]
  BY DEF Init, Modes
<1>3. /\ notified \in BOOLEAN /\ callback \in BOOLEAN /\ s_ulp_started \in BOOLEAN
      /\ latched \in BOOLEAN /\ prompt \in BOOLEAN /\ stopped \in BOOLEAN
  BY DEF Init
<1>4. consumer \in Awake \cup Sleepers /\ cpc \in CpuLabels
  BY ConsumersAssumption DEF Init, Resting, CpuLabels
<1> QED
  BY <1>1, <1>2, <1>3, <1>4, PeriodAssumption
     DEF Init, TypeInv, TypeOK, BeforeEvent, Statuses, Levels, UlpLabels, T0

\* Every step keeps the types.
LEMMA TypeStep == TypeInv /\ [Next]_vars => TypeInv'
<1> SUFFICES ASSUME TypeInv, [Next]_vars PROVE TypeInv'
  OBVIOUS
<1> USE PeriodAssumption DEF TypeInv, TypeOK, PropTypeOK, BeforeEvent, mailboxVars, cpuVars,
        app, propVars, Modes, Statuses, Levels, UlpLabels, CpuLabels, Resting, Awake, Sleepers
<1>0. CASE UNCHANGED vars
  BY <1>0 DEF vars
<1>1. CASE Run
  BY <1>1 DEF Run
<1>2. CASE HonourAck
  <2>1. PropTypeOK'
    BY <1>2, ClearType DEF HonourAck, propVars, PropTypeOK
  <2> QED
    BY <1>2, <2>1 DEF HonourAck
<1>3. CASE AckMode
  BY <1>3 DEF AckMode
<1>4. CASE AckStatus
  BY <1>4 DEF AckStatus
<1>5. CASE Sense
  <2>1. stopped' \in BOOLEAN
    BY <1>5 DEF Sense
  <2>2. quant_state' \in Levels
    BY <1>5 DEF Sense, hex4_sense_quantize
  <2> QED
    BY <1>5, <2>1, <2>2 DEF Sense
<1>6. CASE Decide
  <2>1. PropTypeOK'
    BY <1>6, PipelineIsCertain, FeedType DEF Decide
  <2>2. cycle_count' \in 0 .. HeartbeatPeriod
    BY <1>6 DEF Decide, Ticked
  <2>3. raised' \in Statuses
    BY <1>6 DEF Decide, Verdict, Statuses
  <2> QED
    BY <1>6, <2>1, <2>2, <2>3 DEF Decide
<1>7. CASE WritePrev
  BY <1>7 DEF WritePrev
<1>8. CASE WriteStatus
  BY <1>8 DEF WriteStatus
<1>9. CASE BumpSeq
  BY <1>9 DEF BumpSeq
<1>10. CASE SelftestIdle
  BY <1>10 DEF SelftestIdle
<1>11. CASE Wake
  <2>1. notified' \in BOOLEAN
    BY <1>11 DEF Wake, AfterWake
  <2> QED
    BY <1>11, <2>1 DEF Wake
<1>12. CASE TakeNotification
  <2>1. notified' \in BOOLEAN
    BY <1>12 DEF TakeNotification
  <2> QED
    BY <1>12, <2>1 DEF TakeNotification
<1>13. CASE PollSeq
  BY <1>13 DEF PollSeq
<1>14. CASE ReadStatus
  BY <1>14 DEF ReadStatus
<1>15. CASE ReportOverflow
  BY <1>15 DEF ReportOverflow
<1>16. CASE Dispatch
  <2>1. stopped' \in BOOLEAN
    BY <1>16 DEF Dispatch, SelftestDone, Alarm, NoAlarm
  <2>2. cmd' = cmd \/ cmd' = [mode |-> "WATCH", ack |-> FALSE]
    BY <1>16 DEF Dispatch, SelftestDone, Alarm, NoAlarm
  <2>3. [mode |-> "WATCH", ack |-> FALSE] \in [mode : Modes, ack : BOOLEAN]
    BY <1>16 DEF Modes
  <2>4. cmd' \in [mode : Modes, ack : BOOLEAN]
    BY <1>16, <2>2, <2>3
  <2>5. cpc' \in CpuLabels
    BY <1>16 DEF Dispatch, SelftestDone, Alarm, NoAlarm, CpuLabels, Resting
  <2>6. reported' \in 0 .. MaxEvents
    BY <1>16 DEF Dispatch
  <2> QED
    BY <1>16, <2>1, <2>2, <2>3, <2>4, <2>5, <2>6 DEF Dispatch
<1>17. CASE AckCommand
  BY <1>17 DEF AckCommand
<1>18. CASE AckRead
  BY <1>18 DEF AckRead
<1>19. CASE AckWrite
  BY <1>19 DEF AckWrite, T0
<1>20. CASE Sleep
  BY <1>20 DEF Sleep
<1>21. CASE WakeUp
  <2>1. notified' \in BOOLEAN
    BY <1>21 DEF WakeUp
  <2>2. s_ulp_started' \in BOOLEAN /\ callback' \in BOOLEAN
    BY <1>21 DEF WakeUp, ChipReset, app
  <2>3. s_last_seen_seq' \in 0 .. MaxEvents
    BY <1>21 DEF WakeUp, ChipReset, app
  <2> QED
    BY <1>21, <2>1, <2>2, <2>3 DEF WakeUp, ChipReset
<1>22. CASE StartTest
  BY <1>22 DEF StartTest
<1>23. CASE RunUlp
  BY <1>23 DEF RunUlp
<1>24. CASE OtherWakeUp
  <2>1. s_ulp_started' \in BOOLEAN /\ callback' \in BOOLEAN
    BY <1>24 DEF OtherWakeUp, ChipReset, app
  <2>2. s_last_seen_seq' \in 0 .. MaxEvents
    BY <1>24 DEF OtherWakeUp, ChipReset, app
  <2> QED
    BY <1>24, <2>1, <2>2 DEF OtherWakeUp, ChipReset
<1>25. CASE SetSleepMode
  <2>1. notified' \in BOOLEAN
    BY <1>25 DEF SetSleepMode
  <2> QED
    BY <1>25, <2>1 DEF SetSleepMode
<1> QED
  BY <1>0, <1>1, <1>2, <1>3, <1>4, <1>5, <1>6, <1>7, <1>8, <1>9, <1>10, <1>11, <1>12,
     <1>13, <1>14, <1>15, <1>16, <1>17, <1>18, <1>19, <1>20, <1>21, <1>22, <1>23, <1>24, <1>25
     DEF Next, Ulp, Cpu

-----------------------------------------------------------------------------
(* No uncertainty is counted.                                                *)

\* The threshold is a number.
LEMMA ThresholdIsNat ==
  ASSUME NEW t \in Thresholds
  PROVE  t \in Nat
<1>1. Thresholds \subseteq 0 .. CountMax /\ CountMax \in Nat
  BY ThresholdsAssumption, CountMaxAssumption
<1>2. t \in 0 .. CountMax
  BY <1>1
<1> QED BY <1>1, <1>2

\* No step counts anything uncertain, or alarms for another reason than a zero
\* threshold.
LEMMA CertainStep ==
  ASSUME TypeInv, CertainInv, [Next]_vars
  PROVE  CertainInv'
<1> USE DEF CertainInv, mailboxVars, propVars, cpuVars, app
<1>0. CASE UNCHANGED vars
  BY <1>0 DEF vars, mailboxVars, cpuVars, app, propVars
<1>1. CASE Run
  BY <1>1 DEF Run
<1>2. CASE HonourAck
  <2>1. cmd.ack /\ Clear => prop' = hex4_tc_prop_init(prop.tc_threshold)
    BY ClearType DEF TypeInv, TypeOK
  <2> QED BY <1>2, <2>1 DEF HonourAck, hex4_tc_prop_init
<1>3. CASE AckMode
  BY <1>3 DEF AckMode
<1>4. CASE AckStatus
  BY <1>4 DEF AckStatus
<1>5. CASE Sense
  BY <1>5 DEF Sense
<1>6. CASE Decide
  <2>1. /\ prop'.tc_count = NewCount(prop, 0)
        /\ prop'.tc_threshold = prop.tc_threshold
        /\ prop'.tc_overflow = Bit(prop'.tc_count >= prop.tc_threshold)
    BY <1>6, PipelineIsCertain, FeedType DEF Decide, TypeInv, TypeOK
  <2>2. prop.tc_threshold \in Nat
    <3>1. prop.tc_threshold \in Thresholds
      BY DEF TypeInv, TypeOK, PropTypeOK, Props
    <3> QED BY <3>1, ThresholdIsNat
  <2>3. prop'.tc_count = 0 /\ (prop'.tc_threshold = 0 \/ prop'.tc_overflow = 0)
    BY <2>1, <2>2 DEF NewCount, Bit
  <2>4. prop'.tc_overflow = 0 => raised' # "ALARM_TC"
    BY <1>6 DEF Decide, Verdict
  <2> QED BY <1>6, <2>1, <2>3, <2>4 DEF Decide
<1>7. CASE WritePrev
  BY <1>7 DEF WritePrev
<1>8. CASE WriteStatus
  BY <1>8 DEF WriteStatus
<1>9. CASE BumpSeq
  BY <1>9 DEF BumpSeq
<1>10. CASE SelftestIdle
  BY <1>10 DEF SelftestIdle
<1>11. CASE Wake
  BY <1>11 DEF Wake, AfterWake
<1>12. CASE TakeNotification
  BY <1>12 DEF TakeNotification
<1>13. CASE PollSeq
  BY <1>13 DEF PollSeq
<1>14. CASE ReadStatus
  BY <1>14 DEF ReadStatus
<1>15. CASE ReportOverflow
  BY <1>15 DEF ReportOverflow
<1>16. CASE Dispatch
  BY <1>16 DEF Dispatch, SelftestDone, Alarm, NoAlarm
<1>17. CASE AckCommand
  BY <1>17 DEF AckCommand
<1>18. CASE AckRead
  BY <1>18 DEF AckRead
<1>19. CASE AckWrite
  BY <1>19 DEF AckWrite
<1>20. CASE Sleep
  BY <1>20 DEF Sleep
<1>21. CASE WakeUp
  BY <1>21 DEF WakeUp, ChipReset
<1>22. CASE StartTest
  BY <1>22 DEF StartTest
<1>23. CASE RunUlp
  BY <1>23 DEF RunUlp
<1>24. CASE OtherWakeUp
  BY <1>24 DEF OtherWakeUp, ChipReset
<1>25. CASE SetSleepMode
  BY <1>25 DEF SetSleepMode
<1> QED
  BY <1>0, <1>1, <1>2, <1>3, <1>4, <1>5, <1>6, <1>7, <1>8, <1>9, <1>10, <1>11, <1>12,
     <1>13, <1>14, <1>15, <1>16, <1>17, <1>18, <1>19, <1>20, <1>21, <1>22, <1>23, <1>24, <1>25
     DEF Next, Ulp, Cpu


-----------------------------------------------------------------------------
(* A poll misses nothing.                                                    *)

\* No step lets a polled number go without an answer or a successor.
LEMMA PollStep ==
  ASSUME TypeInv, PollInv, [Next]_vars
  PROVE  PollInv'
<1> USE DEF TypeInv, TypeOK, PollInv, HigherNumberComes, Resting, Awake, Sleepers,
           mailboxVars, propVars, cpuVars, app
<1>0. CASE UNCHANGED vars
  BY <1>0 DEF vars, mailboxVars, cpuVars, app, propVars
<1>1. CASE Run
  BY <1>1 DEF Run
<1>2. CASE HonourAck
  BY <1>2 DEF HonourAck
<1>3. CASE AckMode
  BY <1>3 DEF AckMode
<1>4. CASE AckStatus
  BY <1>4 DEF AckStatus
<1>5. CASE Sense
  BY <1>5 DEF Sense
<1>6. CASE Decide
  BY <1>6 DEF Decide, Verdict
<1>7. CASE WritePrev
  BY <1>7 DEF WritePrev
<1>8. CASE WriteStatus
  BY <1>8 DEF WriteStatus
<1>9. CASE BumpSeq
  BY <1>9 DEF BumpSeq
<1>10. CASE SelftestIdle
  BY <1>10 DEF SelftestIdle
<1>11. CASE Wake
  BY <1>11 DEF Wake, AfterWake
<1>12. CASE TakeNotification
  BY <1>12 DEF TakeNotification
<1>13. CASE PollSeq
  BY <1>13 DEF PollSeq
<1>14. CASE ReadStatus
  BY <1>14 DEF ReadStatus
<1>15. CASE ReportOverflow
  BY <1>15 DEF ReportOverflow
<1>16. CASE Dispatch
  BY <1>16 DEF Dispatch, SelftestDone, Alarm, NoAlarm
<1>17. CASE AckCommand
  BY <1>17 DEF AckCommand
<1>18. CASE AckRead
  BY <1>18 DEF AckRead
<1>19. CASE AckWrite
  BY <1>19 DEF AckWrite
<1>20. CASE Sleep
  BY <1>20 DEF Sleep
<1>21. CASE WakeUp
  BY <1>21 DEF WakeUp, ChipReset
<1>22. CASE StartTest
  BY <1>22 DEF StartTest
<1>23. CASE RunUlp
  BY <1>23 DEF RunUlp
<1>24. CASE OtherWakeUp
  BY <1>24 DEF OtherWakeUp, ChipReset
<1>25. CASE SetSleepMode
  BY <1>25 DEF SetSleepMode
<1> QED
  BY <1>0, <1>1, <1>2, <1>3, <1>4, <1>5, <1>6, <1>7, <1>8, <1>9, <1>10, <1>11, <1>12,
     <1>13, <1>14, <1>15, <1>16, <1>17, <1>18, <1>19, <1>20, <1>21, <1>22, <1>23, <1>24, <1>25
     DEF Next, Ulp, Cpu


-----------------------------------------------------------------------------
(* A consumer that keeps up.                                                 *)

\* A prompt consumer is where PromptPlaces says in each phase of a run: between
\* the timer and the event it rests, and the event it reads is the one written.
LEMMA PlacesStep ==
  ASSUME TypeInv, PollInv, prompt, PromptPlaces, PromptLevels, [Next]_vars
  PROVE  prompt' /\ PromptPlaces'
<1> USE DEF TypeInv, TypeOK, BeforeEvent, PromptPlaces, CaughtUp, Resting, Awake, Sleepers,
           mailboxVars, propVars, cpuVars, app
<1>0. CASE UNCHANGED vars
  BY <1>0 DEF vars, mailboxVars, cpuVars, app, propVars
<1>1. CASE Run
  BY <1>1 DEF Run
<1>2. CASE HonourAck
  BY <1>2 DEF HonourAck
<1>3. CASE AckMode
  BY <1>3 DEF AckMode
<1>4. CASE AckStatus
  BY <1>4 DEF AckStatus
<1>5. CASE Sense
  BY <1>5 DEF Sense
<1>6. CASE Decide
  BY <1>6 DEF Decide, Verdict
<1>7. CASE WritePrev
  BY <1>7 DEF WritePrev
<1>8. CASE WriteStatus
  BY <1>8 DEF WriteStatus
<1>9. CASE BumpSeq
  BY <1>9 DEF BumpSeq
<1>10. CASE SelftestIdle
  BY <1>10 DEF SelftestIdle
<1>11. CASE Wake
  BY <1>11 DEF Wake, AfterWake
<1>12. CASE TakeNotification
  BY <1>12 DEF TakeNotification
<1>13. CASE PollSeq
  BY <1>13 DEF PollSeq
<1>14. CASE ReadStatus
  BY <1>14 DEF ReadStatus
<1>15. CASE ReportOverflow
  BY <1>15 DEF ReportOverflow
<1>16. CASE Dispatch
  BY <1>16 DEF Dispatch, SelftestDone, Alarm, NoAlarm
<1>17. CASE AckCommand
  BY <1>17 DEF AckCommand
<1>18. CASE AckRead
  BY <1>18 DEF AckRead
<1>19. CASE AckWrite
  BY <1>19 DEF AckWrite
<1>20. CASE Sleep
  BY <1>20 DEF Sleep
<1>21. CASE WakeUp
  BY <1>21 DEF WakeUp, ChipReset
<1>22. CASE StartTest
  BY <1>22 DEF StartTest
<1>23. CASE RunUlp
  BY <1>23 DEF RunUlp
<1>24. CASE OtherWakeUp
  BY <1>24 DEF OtherWakeUp, ChipReset
<1>25. CASE SetSleepMode
  BY <1>25 DEF SetSleepMode
<1> QED
  BY <1>0, <1>1, <1>2, <1>3, <1>4, <1>5, <1>6, <1>7, <1>8, <1>9, <1>10, <1>11, <1>12,
     <1>13, <1>14, <1>15, <1>16, <1>17, <1>18, <1>19, <1>20, <1>21, <1>22, <1>23, <1>24, <1>25
     DEF Next, Ulp, Cpu

\* Each phase of a run leaves the levels as the next one needs them: a new T2 is
\* raised, the alarm reaches the consumer, and the answer precedes the copy.
LEMMA LevelsStep ==
  ASSUME TypeInv, prompt, PromptPlaces, PromptLevels, [Next]_vars
  PROVE  PromptLevels'
<1> USE DEF TypeInv, TypeOK, BeforeEvent, PromptPlaces, PromptLevels, CaughtUp, Resting, Awake,
           Sleepers, Settled, Answered, Waiting, Acknowledging, Raised, Alarms,
           mailboxVars, propVars, cpuVars, app
<1>0. CASE UNCHANGED vars
  BY <1>0 DEF vars, mailboxVars, cpuVars, app, propVars
<1>1. CASE Run
  BY <1>1 DEF Run
<1>2. CASE HonourAck
  BY <1>2 DEF HonourAck
<1>3. CASE AckMode
  BY <1>3 DEF AckMode
<1>4. CASE AckStatus
  BY <1>4 DEF AckStatus
<1>5. CASE Sense
  BY <1>5 DEF Sense
<1>6. CASE Decide
  <2>1. /\ upc = "feed" /\ raised' = Verdict(prop'.tc_overflow, state_prev)
        /\ upc' = IF raised' = "ALARM_JUMP" THEN "status" ELSE "prev"
        /\ UNCHANGED <<quant_state, state_prev, stopped>>
    BY <1>6 DEF Decide
  <2>2. raised' # "ALARM_TC" /\ raised' # "ALARM_JUMP" => ~(quant_state > state_prev)
    BY <2>1 DEF Verdict
  <2>3. quant_state \in 0 .. 2 /\ state_prev \in 0 .. 2
    BY DEF Levels, T0, T1, T2
  <2>4. quant_state = 2 /\ state_prev = 2 => stopped
    BY <2>1 DEF T2
  <2>5. raised' # "ALARM_TC" /\ raised' # "ALARM_JUMP" => Answered'
    BY <2>1, <2>2, <2>3, <2>4 DEF T2
  <2> QED BY <2>1, <2>5
<1>7. CASE WritePrev
  BY <1>7 DEF WritePrev
<1>8. CASE WriteStatus
  BY <1>8 DEF WriteStatus
<1>9. CASE BumpSeq
  BY <1>9 DEF BumpSeq
<1>10. CASE SelftestIdle
  BY <1>10 DEF SelftestIdle
<1>11. CASE Wake
  BY <1>11 DEF Wake, AfterWake
<1>12. CASE TakeNotification
  BY <1>12 DEF TakeNotification
<1>13. CASE PollSeq
  BY <1>13 DEF PollSeq
<1>14. CASE ReadStatus
  BY <1>14 DEF ReadStatus
<1>15. CASE ReportOverflow
  BY <1>15 DEF ReportOverflow
<1>16. CASE Dispatch
  BY <1>16 DEF Dispatch, SelftestDone, Alarm, NoAlarm
<1>17. CASE AckCommand
  BY <1>17 DEF AckCommand
<1>18. CASE AckRead
  BY <1>18 DEF AckRead
<1>19. CASE AckWrite
  BY <1>19 DEF AckWrite
<1>20. CASE Sleep
  BY <1>20 DEF Sleep
<1>21. CASE WakeUp
  BY <1>21 DEF WakeUp, ChipReset
<1>22. CASE StartTest
  BY <1>22 DEF StartTest
<1>23. CASE RunUlp
  BY <1>23 DEF RunUlp
<1>24. CASE OtherWakeUp
  BY <1>24 DEF OtherWakeUp, ChipReset
<1>25. CASE SetSleepMode
  BY <1>25 DEF SetSleepMode
<1> QED
  BY <1>0, <1>1, <1>2, <1>3, <1>4, <1>5, <1>6, <1>7, <1>8, <1>9, <1>10, <1>11, <1>12,
     <1>13, <1>14, <1>15, <1>16, <1>17, <1>18, <1>19, <1>20, <1>21, <1>22, <1>23, <1>24, <1>25
     DEF Next, Ulp, Cpu

\* An application that is not prompt does not become so.
LEMMA PromptStays ==
  ASSUME [Next]_vars
  PROVE  prompt' = prompt
<1> USE DEF mailboxVars, propVars, cpuVars, app
<1>1. CASE UNCHANGED vars
  BY <1>1 DEF vars
<1>2. CASE Ulp
  BY <1>2 DEF Ulp, Run, HonourAck, AckMode, AckStatus, Sense, Decide, WritePrev, WriteStatus,
              BumpSeq, SelftestIdle, Wake
<1>3. CASE Cpu
  BY <1>3 DEF Cpu, TakeNotification, PollSeq, ReadStatus, ReportOverflow, Dispatch, AckCommand,
              AckRead, AckWrite, Sleep, WakeUp, ChipReset, StartTest, RunUlp
<1>4. CASE OtherWakeUp
  BY <1>4 DEF OtherWakeUp, ChipReset
<1>5. CASE SetSleepMode
  BY <1>5 DEF SetSleepMode
<1> QED BY <1>1, <1>2, <1>3, <1>4, <1>5 DEF Next

-----------------------------------------------------------------------------
(* The theorems.                                                              *)

\* The invariant holds from the start and is inductive.
THEOREM UlpInvariant == Spec => []IInv
<1>1. Init => IInv
  <2> SUFFICES ASSUME Init PROVE IInv
    OBVIOUS
  <2>1. TypeInv
    BY TypeInit
  <2>2. CertainInv
    <3>1. PICK t \in Thresholds : prop = hex4_tc_prop_init(t)
      BY DEF Init, PropInit
    <3> QED BY <3>1 DEF Init, CertainInv, hex4_tc_prop_init
  <2>3. PollInv
    BY DEF Init, PollInv, Resting, HigherNumberComes, Sleepers
  <2>4. PromptInv
    BY DEF Init, PromptInv, PromptPlaces, PromptLevels, BeforeEvent, Resting, Settled, Answered,
           T0, T2
  <2> QED BY <2>1, <2>2, <2>3, <2>4 DEF IInv
<1>2. IInv /\ [Next]_vars => IInv'
  <2> SUFFICES ASSUME IInv, [Next]_vars PROVE IInv'
    OBVIOUS
  <2>1. TypeInv' /\ CertainInv' /\ PollInv'
    BY TypeStep, CertainStep, PollStep DEF IInv
  <2>2. ~prompt => ~prompt'
    BY PromptStays
  <2>3. PromptInv'
    BY <2>2, PlacesStep, LevelsStep DEF IInv, PromptInv
  <2> QED BY <2>1, <2>3 DEF IInv
<1> QED BY <1>1, <1>2, PTL DEF Spec

\* The mailbox, both processors and the propagator keep their types and bounds.
THEOREM UlpTypeCorrect == Spec => []TypeOK
<1>1. IInv => TypeOK
  BY DEF IInv, TypeInv
<1> QED BY <1>1, UlpInvariant, PTL

\* Whatever the samples do, a consumer that keeps up has stopped the machine for
\* every T2 by the time it has nothing left to do.
THEOREM EveryT2Stops == Spec => []T2Stops
<1>1. IInv => T2Stops
  <2> SUFFICES ASSUME IInv, prompt, upc = "halt", CaughtUp, quant_state = T2 PROVE stopped
    BY DEF T2Stops
  <2>1. Settled \/ Waiting \/ Acknowledging
    BY DEF IInv, PromptInv, PromptLevels
  <2> QED BY <2>1 DEF CaughtUp, Settled, Answered, Waiting, Acknowledging
<1> QED BY <1>1, UlpInvariant, PTL

\* Polling merges events but loses none: a number that was polled is a number
\* that was answered.
THEOREM EveryEventIsPolled == Spec => []PollMissesNothing
<1>1. IInv => PollMissesNothing
  <2> SUFFICES ASSUME IInv, consumer = "polling", cpc = "take", upc # "seq",
                      s_last_seen_seq = evt_seq
               PROVE  reported = evt_seq
    BY DEF PollMissesNothing
  <2>1. s_last_seen_seq \in Nat /\ evt_seq \in Nat
    BY PeriodAssumption DEF IInv, TypeInv, TypeOK
  <2> QED BY <2>1 DEF IInv, PollInv, HigherNumberComes
<1> QED BY <1>1, UlpInvariant, PTL

\* What is measured is certain and stays certain through the pipeline: only a
\* threshold of zero can raise the TC alarm.
THEOREM OnlyZeroThresholdAlarms == Spec => []MeasuringRaisesNoTC
<1>1. IInv => MeasuringRaisesNoTC
  BY DEF IInv, CertainInv, MeasuringRaisesNoTC
<1> QED BY <1>1, UlpInvariant, PTL

-----------------------------------------------------------------------------
(* The mailbox, as an application sees it that is notified by interrupt.     *)

\* What holds between the words while the consumer is notified: the self-test's
\* report is written before the command is taken away, both before the wake-up, and
\* until then the consumer rests; everything else happens in the watch; a jump is
\* above the ground level.
ContractInv ==
  /\ cpc \in {"take", "status", "dispatch", "ackcmd", "ackread", "ackwrite"} /\ s_ulp_started
  /\ cmd.mode = "SELFTEST" =>
       /\ upc \in {"halt", "status", "seq", "idle"} /\ (upc = "halt" \/ raised = "SELFTEST_DONE")
       /\ ~notified /\ cpc = "take"
  /\ raised = "SELFTEST_DONE" =>
       IF upc = "wake" THEN cmd.mode = "IDLE" /\ ~notified /\ cpc = "take"
       ELSE upc \in {"status", "seq", "idle"} /\ cmd.mode = "SELFTEST"
  /\ upc \notin {"halt", "idle"} /\ raised # "SELFTEST_DONE" => cmd.mode = "WATCH"
  /\ upc = "idle" => raised = "SELFTEST_DONE"
  /\ upc \in {"halt", "ack", "mode", "clear", "sense"} => raised = "IDLE"
  /\ upc \in {"prev", "status"} /\ raised = "ALARM_JUMP" => quant_state # T0

\* Every step of such a system keeps it.
LEMMA ContractStep ==
  ASSUME TypeInv, ContractInv, consumer = "notified", consumer' = "notified", [Next]_vars
  PROVE  ContractInv'
<1> USE DEF TypeInv, TypeOK, ContractInv, Resting, Awake, Sleepers, mailboxVars, propVars, cpuVars, app
<1>0. CASE UNCHANGED vars
  BY <1>0 DEF vars
<1>1. CASE Run
  BY <1>1 DEF Run
<1>2. CASE HonourAck
  BY <1>2 DEF HonourAck
<1>3. CASE AckMode
  BY <1>3 DEF AckMode
<1>4. CASE AckStatus
  BY <1>4 DEF AckStatus
<1>5. CASE Sense
  BY <1>5 DEF Sense
<1>6. CASE Decide
  <2>1. /\ upc = "feed" /\ raised' = Verdict(prop'.tc_overflow, state_prev)
        /\ upc' = IF raised' = "ALARM_JUMP" THEN "status" ELSE "prev"
        /\ UNCHANGED <<cmd, quant_state, state_prev, cpuVars, app>>
    BY <1>6 DEF Decide
  <2>2. raised' = "ALARM_JUMP" => quant_state > state_prev
    BY <2>1 DEF Verdict
  <2>3. quant_state \in 0 .. 2 /\ state_prev \in 0 .. 2
    BY DEF Levels, T0, T1, T2
  <2>4. raised' = "ALARM_JUMP" => quant_state # T0
    BY <2>2, <2>3 DEF T0
  <2>5. raised' # "SELFTEST_DONE"
    BY <2>1 DEF Verdict
  <2> QED BY <2>1, <2>4, <2>5
<1>7. CASE WritePrev
  BY <1>7 DEF WritePrev
<1>8. CASE WriteStatus
  BY <1>8 DEF WriteStatus
<1>9. CASE BumpSeq
  BY <1>9 DEF BumpSeq
<1>10. CASE SelftestIdle
  BY <1>10 DEF SelftestIdle
<1>11. CASE Wake
  BY <1>11 DEF Wake, AfterWake
<1>12. CASE TakeNotification
  BY <1>12 DEF TakeNotification
<1>14. CASE ReadStatus
  BY <1>14 DEF ReadStatus
<1>16. CASE Dispatch
  BY <1>16 DEF Dispatch, SelftestDone, Alarm, NoAlarm
<1>17. CASE AckCommand
  BY <1>17 DEF AckCommand
<1>18. CASE AckRead
  BY <1>18 DEF AckRead
<1>19. CASE AckWrite
  BY <1>19 DEF AckWrite
<1>20. CASE PollSeq \/ ReportOverflow \/ Sleep \/ WakeUp \/ StartTest \/ RunUlp \/ OtherWakeUp
  BY <1>20 DEF PollSeq, ReportOverflow, Sleep, WakeUp, StartTest, RunUlp, OtherWakeUp
<1>21. CASE SetSleepMode
  BY <1>21 DEF SetSleepMode
<1> QED
  BY <1>0, <1>1, <1>2, <1>3, <1>4, <1>5, <1>6, <1>7, <1>8, <1>9, <1>10, <1>11, <1>12,
     <1>14, <1>16, <1>17, <1>18, <1>19, <1>20, <1>21
     DEF Next, Ulp, Cpu

\* A write to a word of the mailbox is a step of the contract, and nothing else
\* shows in it.
LEMMA MailboxStep ==
  ASSUME TypeInv, ContractInv, consumer = "notified", consumer' = "notified", [Next]_vars
  PROVE  [Mailbox!Next]_(Mailbox!vars)
<1> USE DEF TypeInv, TypeOK, ContractInv, Stage, Resting, Awake, Sleepers, mailboxVars, propVars, cpuVars, app
<1> USE DEF Mailbox!Next, Mailbox!vars, Mailbox!Coprocessor
<1>0. CASE UNCHANGED vars
  BY <1>0 DEF vars
<1>1. CASE Run
  BY <1>1 DEF Run
<1>2. CASE HonourAck
  BY <1>2 DEF HonourAck
<1>3. CASE AckMode
  BY <1>3 DEF AckMode
<1>4. CASE AckStatus
  BY <1>4 DEF AckStatus, Mailbox!Forget
<1>5. CASE Sense
  BY <1>5 DEF Sense, Mailbox!Measure, hex4_sense_quantize
<1>6. CASE Decide
  <2>1. raised' \notin {"SELFTEST_DONE"}
    BY <1>6 DEF Decide, Verdict
  <2> QED BY <1>6, <2>1 DEF Decide
<1>7. CASE WritePrev
  BY <1>7 DEF WritePrev
<1>8. CASE WriteStatus
  BY <1>8 DEF WriteStatus, Mailbox!Selftest, Mailbox!Raise, Mailbox!Events, Statuses
<1>9. CASE BumpSeq
  BY <1>9 DEF BumpSeq
<1>10. CASE SelftestIdle
  BY <1>10 DEF SelftestIdle, Mailbox!Retire
<1>11. CASE Wake
  BY <1>11 DEF Wake, AfterWake, Mailbox!Wake
<1>12. CASE TakeNotification
  BY <1>12 DEF TakeNotification, Mailbox!Take
<1>14. CASE ReadStatus
  BY <1>14 DEF ReadStatus
<1>16. CASE Dispatch
  BY <1>16 DEF Dispatch, SelftestDone, Alarm, NoAlarm, Mailbox!Watch
<1>17. CASE AckCommand
  BY <1>17 DEF AckCommand, Mailbox!Watch
<1>18. CASE AckRead
  BY <1>18 DEF AckRead
<1>19. CASE AckWrite
  BY <1>19 DEF AckWrite
<1>20. CASE PollSeq \/ ReportOverflow \/ Sleep \/ WakeUp \/ StartTest \/ RunUlp \/ OtherWakeUp
  BY <1>20 DEF PollSeq, ReportOverflow, Sleep, WakeUp, StartTest, RunUlp, OtherWakeUp
<1>21. CASE SetSleepMode
  BY <1>21 DEF SetSleepMode
<1> QED
  BY <1>0, <1>1, <1>2, <1>3, <1>4, <1>5, <1>6, <1>7, <1>8, <1>9, <1>10, <1>11, <1>12,
     <1>14, <1>16, <1>17, <1>18, <1>19, <1>20, <1>21
     DEF Next, Ulp, Cpu

\* The coprocessor, with an application that stays notified as the guard's does, keeps
\* the contract of the mailbox (UlpMailbox): the writes of run_selftest and watch_cycle
\* are among those that HexGuard lets happen under the guard tasks.
THEOREM CoprocessorKeepsMailbox == Spec /\ [](consumer = "notified") => Mailbox!Spec
<1>1. Init /\ consumer = "notified" => ContractInv /\ Mailbox!Init
  BY DEF Init, ContractInv, Mailbox!Init, Resting, Sleepers, Stage
<1>2. IInv /\ ContractInv /\ consumer = "notified" /\ (consumer = "notified")' /\ [Next]_vars
        => ContractInv' /\ [Mailbox!Next]_(Mailbox!vars)
  BY ContractStep, MailboxStep DEF IInv
<1> QED BY <1>1, <1>2, UlpInvariant, PTL DEF Spec, Mailbox!Spec

=============================================================================
