------------------------------- MODULE UlpWatch -------------------------------
(***************************************************************************)
(* The coprocessor component: the ULP program (hex4_ulp_main.c,            *)
(* hex4_sense.c), the driver of the main processor (hex4_ulp_app.c) and    *)
(* its consumer.  That is ulp_evt_task of the guard application when it is *)
(* notified by interrupt, the same handler around hex4_ulp_poll_event when *)
(* it polls (SLEEP_NONE, notify_cb = NULL), and the event loop of the ULP  *)
(* demo when the processor sleeps between the events, lightly, or deeply   *)
(* and restarting at each.  The two processors share the mailbox word by   *)
(* word and nothing orders them: a step is one access to a word that the   *)
(* other side writes or branches on.                                       *)
(***************************************************************************)
EXTENDS Hex4Core, TcPropagator

CONSTANTS
  Consumers,        \* the ways events may be consumed at first
  HeartbeatPeriod,  \* watch cycles per heartbeat, 0 disables it
  MaxEvents,        \* bound: events the coprocessor raises
  MaxSwitches       \* bound: changes of the sleep mode

Sleepers == {"light", "deep"}
Awake == {"notified", "polling"}
ASSUME ConsumersAssumption == Consumers # {} /\ Consumers \subseteq Awake \cup Sleepers
ASSUME PeriodAssumption == {HeartbeatPeriod, MaxEvents, MaxSwitches} \subseteq Nat

Modes == {"IDLE", "SELFTEST", "WATCH"}
Statuses == {"IDLE", "SELFTEST_DONE", "ALARM_TC", "ALARM_JUMP", "HEARTBEAT"}
Levels == {T0, T1, T2}      \* what the thresholds make of a sample
UlpLabels == {"halt", "ack", "mode", "clear", "sense", "feed", "prev", "status", "seq",
              "idle", "wake"}
CpuLabels == {"take", "status", "overflow", "dispatch", "ackcmd", "ackread", "ackwrite",
              "hold", "test", "runTest", "runWatch"}

VARIABLES
  cmd,              \* mailbox: mode and the acknowledgement bit
  status,           \* mailbox
  evt_seq,          \* mailbox
  quant_state,      \* mailbox: the level measured last
  state_prev,       \* mailbox: the level before, kept until a jump is acknowledged
  cycle_count,      \* mailbox, modulo the heartbeat period
  upc, raised,      \* the coprocessor: where it is, the event it raises
  cpc, evt, seen,   \* the consumer: where it is, its event, the level it copies
  notified,         \* the consumer's task notification, the sleeper's pending wake-up
  s_last_seen_seq,
  consumer,         \* how events are consumed: s_sleep_mode, and s_notify_cb if NONE
  callback,         \* s_notify_cb is set
  s_ulp_started,
  switches,         \* changes of the sleep mode so far
  latched,          \* the hardware keeps a wake-up given to a processor that is awake
  prompt,           \* this consumer keeps up: no step of it falls into a cycle
  stopped,          \* history: the alarm was answered since the level rose to T2
  reported          \* history: the event number the last non-zero poll stood for

mailboxVars == <<cmd, status, evt_seq, quant_state, state_prev, cycle_count>>
cpuVars == <<cpc, evt, seen, notified, s_last_seen_seq, reported>>
app == <<consumer, callback, s_ulp_started, switches, latched, prompt>>
vars == <<mailboxVars, propVars, upc, raised, cpuVars, app, stopped>>

TypeOK ==
  /\ cmd \in [mode : Modes, ack : BOOLEAN]
  /\ status \in Statuses /\ raised \in Statuses
  /\ evt_seq \in 0 .. MaxEvents /\ s_last_seen_seq \in 0 .. MaxEvents
  /\ reported \in 0 .. MaxEvents
  /\ quant_state \in Levels /\ state_prev \in Levels /\ seen \in Levels
  /\ cycle_count \in 0 .. HeartbeatPeriod
  /\ upc \in UlpLabels /\ cpc \in CpuLabels
  /\ evt \in Statuses \cup {"OVERFLOW"}
  /\ notified \in BOOLEAN /\ callback \in BOOLEAN /\ s_ulp_started \in BOOLEAN
  /\ latched \in BOOLEAN /\ prompt \in BOOLEAN /\ stopped \in BOOLEAN
  /\ consumer \in Awake \cup Sleepers
  /\ switches \in 0 .. MaxSwitches
  /\ PropTypeOK

Resting == IF consumer \in Sleepers THEN "hold" ELSE "take"

\* hex4_ulp_init and hex4_ulp_start(SELFTEST) have returned.  A consumer that
\* restarts and holds the console for seconds at each event is not prompt.
Init ==
  /\ cmd = [mode |-> "SELFTEST", ack |-> FALSE]
  /\ status = "IDLE" /\ raised = "IDLE" /\ evt = "IDLE"
  /\ evt_seq = 0 /\ s_last_seen_seq = 0 /\ reported = 0
  /\ quant_state = T0 /\ state_prev = T0 /\ seen = T0
  /\ cycle_count = 0
  /\ consumer \in Consumers
  /\ callback = (consumer # "polling")
  /\ prompt \in BOOLEAN /\ (consumer = "deep" => ~prompt)
  /\ latched \in BOOLEAN /\ (prompt => latched)
  /\ s_ulp_started = TRUE /\ switches = 0
  /\ upc = "halt" /\ cpc = Resting
  /\ notified = FALSE /\ stopped = FALSE
  /\ PropInit

-----------------------------------------------------------------------------
(* The coprocessor.                                                           *)

CaughtUp ==
  /\ cpc = "take"
  /\ ~notified
  /\ consumer = "polling" => s_last_seen_seq = evt_seq

\* The timer starts a run; main branches on the mode.
Run ==
  /\ upc = "halt" /\ evt_seq < MaxEvents
  /\ prompt => CaughtUp
  /\ \/ /\ cmd.mode = "SELFTEST" /\ raised' = "SELFTEST_DONE" /\ upc' = "status"
     \/ /\ cmd.mode = "WATCH" /\ upc' = "ack" /\ UNCHANGED raised
  /\ UNCHANGED <<mailboxVars, propVars, cpuVars, app, stopped>>

\* watch_cycle honours a pending acknowledgement: three writes.
HonourAck ==
  /\ upc = "ack"
  /\ \/ cmd.ack /\ Clear /\ upc' = "mode"
     \/ ~cmd.ack /\ upc' = "sense" /\ UNCHANGED propVars
  /\ UNCHANGED <<mailboxVars, raised, cpuVars, app, stopped>>

AckMode ==
  /\ upc = "mode" /\ upc' = "clear"
  /\ cmd' = [mode |-> "WATCH", ack |-> FALSE]
  /\ UNCHANGED <<status, evt_seq, quant_state, state_prev, cycle_count, propVars, raised,
                 cpuVars, app, stopped>>

AckStatus ==
  /\ upc = "clear" /\ upc' = "sense"
  /\ status' = "IDLE"
  /\ UNCHANGED <<cmd, evt_seq, quant_state, state_prev, cycle_count, propVars, raised,
                 cpuVars, app, stopped>>

\* Mutant of hex4_sense_quantize: a sample past the range reads as TC.
QuantizeToTC == Trits

\* The median of three samples against two thresholds: any of the three levels.
hex4_sense_quantize == Levels

Sense ==
  /\ upc = "sense" /\ upc' = "feed"
  /\ \E level \in hex4_sense_quantize :
       /\ quant_state' = level
       /\ stopped' = (stopped /\ quant_state = T2 /\ level = T2)
  /\ UNCHANGED <<cmd, status, evt_seq, state_prev, cycle_count, propVars, raised, cpuVars,
                 app>>

\* The TC flags of SCALE, CMP_GT and FIT_THRESH, each fed the one before.
PipelineFlag(level) ==
  LET r1 == hex4_exec(FIT_SCALE, level, T1)
      r2 == hex4_exec(CMP_GT, r1.result, T1)
      r3 == hex4_exec(FIT_THRESH, r2.result, T1)
  IN  IF 1 \in {r1.tc_flag, r2.tc_flag, r3.tc_flag} THEN 1 ELSE 0

\* Mutant of Ticked: the first heartbeat is one cycle late and the count runs on.
TickedOn == IF HeartbeatPeriod = 0 THEN 0 ELSE cycle_count + 1

Ticked == IF HeartbeatPeriod = 0 THEN 0 ELSE (cycle_count + 1) % HeartbeatPeriod
HeartbeatDue == HeartbeatPeriod > 0 /\ Ticked = 0

\* Mutant of Verdict: a heartbeat that is due goes before a jump.
HeartbeatFirst(overflow, prev) ==
  CASE overflow = 1 -> "ALARM_TC"
    [] overflow = 0 /\ HeartbeatDue -> "HEARTBEAT"
    [] overflow = 0 /\ ~HeartbeatDue -> IF quant_state > prev THEN "ALARM_JUMP" ELSE "IDLE"

\* The order of the wake-up decisions.
Verdict(overflow, prev) ==
  IF overflow = 1 THEN "ALARM_TC"
  ELSE IF quant_state > prev THEN "ALARM_JUMP"
  ELSE IF HeartbeatDue THEN "HEARTBEAT" ELSE "IDLE"

\* The pipeline, the propagator, and the one read of state_prev.
Decide ==
  /\ upc = "feed"
  /\ Feed(PipelineFlag(quant_state), 1)
  /\ cycle_count' = Ticked
  /\ raised' = Verdict(prop'.tc_overflow, state_prev)
  /\ upc' = IF raised' = "ALARM_JUMP" THEN "status" ELSE "prev"
  /\ UNCHANGED <<cmd, status, evt_seq, quant_state, state_prev, cpuVars, app, stopped>>

\* Every branch but the jump moves state_prev along.
WritePrev ==
  /\ upc = "prev" /\ upc' = "status"
  /\ state_prev' = quant_state
  /\ UNCHANGED <<cmd, status, evt_seq, quant_state, cycle_count, propVars, raised, cpuVars,
                 app, stopped>>

WriteStatus ==
  /\ upc = "status"
  /\ upc' = IF raised = "IDLE" THEN "halt" ELSE "seq"
  /\ status' = raised
  /\ UNCHANGED <<cmd, evt_seq, quant_state, state_prev, cycle_count, propVars, raised,
                 cpuVars, app, stopped>>

BumpSeq ==
  /\ upc = "seq"
  /\ upc' = IF raised = "SELFTEST_DONE" THEN "idle" ELSE "wake"
  /\ evt_seq' = evt_seq + 1
  /\ UNCHANGED <<cmd, status, quant_state, state_prev, cycle_count, propVars, raised, cpuVars,
                 app, stopped>>

\* run_selftest ends by taking its own command away.
SelftestIdle ==
  /\ upc = "idle" /\ upc' = "wake"
  /\ cmd' = [mode |-> "IDLE", ack |-> FALSE]
  /\ UNCHANGED <<status, evt_seq, quant_state, state_prev, cycle_count, propVars, raised,
                 cpuVars, app, stopped>>

\* What the wake instruction does: an interrupt whose handler gives the
\* notification, the end of a sleep, or, of a processor about to sleep, something
\* the hardware remembers or forgets.
AfterWake ==
  IF consumer \in Sleepers THEN {notified \/ latched \/ cpc = "take"}
  ELSE {consumer = "notified"}

\* Mutant of Wake: main does not wake the processor after a self-test.
WakeAfterWatchOnly ==
  /\ upc = "wake" /\ upc' = "halt" /\ raised' = "IDLE"
  /\ notified' \in (IF raised = "SELFTEST_DONE" THEN {notified} ELSE AfterWake)
  /\ UNCHANGED <<mailboxVars, propVars, cpc, evt, seen, s_last_seen_seq, reported, app,
                 stopped>>

Wake ==
  /\ upc = "wake" /\ upc' = "halt" /\ raised' = "IDLE"
  /\ notified' \in AfterWake
  /\ UNCHANGED <<mailboxVars, propVars, cpc, evt, seen, s_last_seen_seq, reported, app,
                 stopped>>

Ulp ==
  \/ Run \/ HonourAck \/ AckMode \/ AckStatus \/ Sense \/ Decide \/ WritePrev
  \/ WriteStatus \/ BumpSeq \/ SelftestIdle \/ Wake

-----------------------------------------------------------------------------
(* The consumer on the main processor.                                        *)

\* ulTaskNotifyTake clears the notification.
TakeNotification ==
  /\ consumer = "notified" /\ cpc = "take" /\ notified
  /\ cpc' = "status" /\ notified' = FALSE
  /\ UNCHANGED <<mailboxVars, propVars, upc, raised, evt, seen, s_last_seen_seq, reported,
                 app, stopped>>

\* Nothing of the main processor's memory outlives a deep sleep.
ChipReset ==
  /\ s_last_seen_seq' = 0 /\ s_ulp_started' = FALSE /\ callback' = FALSE
  /\ UNCHANGED <<consumer, switches, latched, prompt>>

\* hex4_ulp_sleep, the last step of the demo's loop.
Sleep ==
  /\ consumer \in Sleepers /\ cpc = "hold"
  /\ cpc' = "take"
  /\ UNCHANGED <<mailboxVars, propVars, upc, raised, evt, seen, notified, s_last_seen_seq,
                 reported, app, stopped>>

\* The coprocessor's wake-up ends the sleep: a light one returns, a deep one
\* restarts app_main, and both come to demo_handle_events.
WakeUp ==
  /\ consumer \in Sleepers /\ cpc = "take" /\ notified
  /\ cpc' = "status" /\ notified' = FALSE
  /\ IF consumer = "deep" THEN ChipReset ELSE UNCHANGED <<app, s_last_seen_seq>>
  /\ UNCHANGED <<mailboxVars, propVars, upc, raised, evt, seen, reported, stopped>>

\* A light sleep also ends by an interrupt of another source, a deep one by the
\* test key.
OtherWakeUp ==
  /\ consumer \in Sleepers /\ cpc = "take"
  /\ prompt => upc = "halt"
  /\ IF consumer = "deep" THEN cpc' = "test" /\ ChipReset
                           ELSE cpc' = "status" /\ UNCHANGED <<app, s_last_seen_seq>>
  /\ UNCHANGED <<mailboxVars, propVars, upc, raised, evt, seen, notified, reported, stopped>>

\* The test key starts the self-test again, and the loop is entered.
StartTest ==
  /\ cpc = "test" /\ cpc' = "runTest"
  /\ cmd' = [mode |-> "SELFTEST", ack |-> FALSE]
  /\ UNCHANGED <<status, evt_seq, quant_state, state_prev, cycle_count, propVars, upc, raised,
                 evt, seen, notified, s_last_seen_seq, reported, app, stopped>>

\* The first hex4_ulp_start after a restart resets the coprocessor, wherever it is.
RunUlp ==
  /\ cpc \in {"runTest", "runWatch"}
  /\ cpc' = IF cpc = "runTest" THEN "status" ELSE Resting
  /\ upc' = "halt" /\ raised' = "IDLE" /\ s_ulp_started' = TRUE
  /\ UNCHANGED <<mailboxVars, propVars, evt, seen, notified, s_last_seen_seq,
                 reported, consumer, callback, switches, latched, prompt, stopped>>

\* hex4_ulp_poll_event finds a number it has not seen.
PollSeq ==
  /\ consumer = "polling" /\ cpc = "take" /\ evt_seq # s_last_seen_seq
  /\ cpc' = "status" /\ s_last_seen_seq' = evt_seq
  /\ UNCHANGED <<mailboxVars, propVars, upc, raised, evt, seen, notified, reported,
                 app, stopped>>

\* hex4_ulp_handle_wakeup decodes the status.
ReadStatus ==
  /\ cpc = "status"
  /\ evt' = status
  /\ cpc' = IF consumer = "polling" /\ status = "IDLE" THEN "overflow" ELSE "dispatch"
  /\ UNCHANGED <<mailboxVars, propVars, upc, raised, seen, notified, s_last_seen_seq,
                 reported, app, stopped>>

\* Mutant of ReportOverflow: no event is answered, not that events were merged.
ReportNothing ==
  /\ cpc = "overflow" /\ cpc' = "dispatch"
  /\ UNCHANGED <<mailboxVars, propVars, upc, raised, evt, seen, notified, s_last_seen_seq,
                 reported, app, stopped>>

\* The poll reads the status a second time to tell merged events from none.
ReportOverflow ==
  /\ cpc = "overflow" /\ cpc' = "dispatch"
  /\ evt' = IF status = "IDLE" THEN "OVERFLOW" ELSE "IDLE"
  /\ UNCHANGED <<mailboxVars, propVars, upc, raised, seen, notified, s_last_seen_seq,
                 reported, app, stopped>>

\* hex4_ulp_start(WATCH), which also runs the coprocessor once in a life.
SelftestDone ==
  /\ evt = "SELFTEST_DONE"
  /\ cmd' = [mode |-> "WATCH", ack |-> FALSE]
  /\ cpc' = (IF s_ulp_started THEN Resting ELSE "runWatch")
  /\ UNCHANGED stopped

\* The level read now or a TC alarm stops the machine (the demo shows it) and is
\* acknowledged.
Alarm ==
  /\ \/ evt = "ALARM_JUMP" /\ stopped' = (stopped \/ quant_state = T2)
     \/ evt = "ALARM_TC" /\ stopped' = TRUE
  /\ cpc' = "ackcmd"
  /\ UNCHANGED cmd

\* A heartbeat and merged events change only the lamp, no event nothing.
NoAlarm ==
  /\ evt \in {"HEARTBEAT", "OVERFLOW", "IDLE"}
  /\ cpc' = Resting
  /\ UNCHANGED <<cmd, stopped>>

Dispatch ==
  /\ cpc = "dispatch"
  /\ SelftestDone \/ Alarm \/ NoAlarm
  /\ reported' = IF consumer = "polling" /\ evt # "IDLE" THEN s_last_seen_seq ELSE reported
  /\ evt' = "IDLE"
  /\ UNCHANGED <<status, evt_seq, quant_state, state_prev, cycle_count, propVars, upc, raised,
                 seen, notified, s_last_seen_seq, app>>

\* hex4_ulp_ack_alarm: the command, then the level copied from word to word.
AckCommand ==
  /\ cpc = "ackcmd" /\ cpc' = "ackread"
  /\ cmd' = [mode |-> "WATCH", ack |-> TRUE]
  /\ UNCHANGED <<status, evt_seq, quant_state, state_prev, cycle_count, propVars, upc, raised,
                 evt, seen, notified, s_last_seen_seq, reported, app, stopped>>

AckRead ==
  /\ cpc = "ackread" /\ cpc' = "ackwrite"
  /\ seen' = quant_state
  /\ UNCHANGED <<mailboxVars, propVars, upc, raised, evt, notified, s_last_seen_seq, reported,
                 app, stopped>>

AckWrite ==
  /\ cpc = "ackwrite" /\ cpc' = Resting
  /\ state_prev' = seen /\ seen' = T0
  /\ UNCHANGED <<cmd, status, evt_seq, quant_state, cycle_count, propVars, upc, raised, evt,
                 notified, s_last_seen_seq, reported, app, stopped>>

Cpu ==
  \/ TakeNotification \/ PollSeq \/ ReadStatus \/ ReportOverflow \/ Dispatch
  \/ AckCommand \/ AckRead \/ AckWrite
  \/ Sleep \/ WakeUp \/ StartTest \/ RunUlp

\* The application changes how it consumes events; whoever stops sleeping
\* starts with the events to come.  An application that does is not prompt.
SetSleepMode ==
  /\ switches < MaxSwitches /\ switches' = switches + 1
  /\ cpc = Resting /\ ~prompt /\ (consumer = "notified" => ~notified)
  /\ \E mode \in (Sleepers \cup {IF callback THEN "notified" ELSE "polling"}) \ {consumer} :
       /\ consumer' = mode
       /\ cpc' = Resting'
       /\ notified' = (notified /\ mode = "notified")
       /\ IF mode \in Sleepers THEN UNCHANGED s_last_seen_seq /\ reported' = 0
                               ELSE s_last_seen_seq' = evt_seq /\ reported' = evt_seq
  /\ UNCHANGED <<mailboxVars, propVars, upc, raised, evt, seen, callback, s_ulp_started,
                 latched, prompt, stopped>>

Next == Ulp \/ Cpu \/ OtherWakeUp \/ SetSleepMode

Spec == Init /\ [][Next]_vars

\* The timer keeps starting the coprocessor, also that of a prompt consumer which
\* other wake-ups keep from sleeping for long; the consumer's task keeps running.
FairSpec == Spec /\ SF_vars(Ulp) /\ WF_vars(Cpu)

-----------------------------------------------------------------------------
\* Where a run of the coprocessor is, as the mailbox shows it: the words an
\* application reads are those of UlpMailbox, whose steps are the writes to them.
Stage ==
  CASE upc \in {"halt", "ack", "mode", "clear", "sense"} -> "rest"
    [] upc = "status" -> IF raised = "SELFTEST_DONE" THEN "rest" ELSE "raise"
    [] upc \in {"feed", "prev"} -> "raise"
    [] upc = "seq" -> IF raised = "SELFTEST_DONE" THEN "retire" ELSE "wake"
    [] upc = "idle" -> "retire"
    [] upc = "wake" -> "wake"

Mailbox == INSTANCE UlpMailbox WITH
  Measured <- Levels, Ground <- T0, ulp_mode <- cmd.mode, stage <- Stage

-----------------------------------------------------------------------------

\* When a consumer that keeps up has nothing left to do, a level of T2 has been
\* answered with an abort since it was reached (ulp_evt_task, st == 2), for
\* every path of the level and every way of consuming events, a light sleep too.
T2Stops == prompt /\ upc = "halt" /\ CaughtUp /\ quant_state = T2 => stopped

\* The same of a consumer that may take longer than a watch period.
T2AlwaysStops ==
  (consumer = "notified" /\ upc = "halt" /\ CaughtUp /\ quant_state = T2) => stopped

\* A poll that finds no new number misses nothing: every event up to it was
\* answered by a poll that returned something, however many were merged, unless
\* the coprocessor is about to raise the next (hex4_ulp_poll_event).
PollMissesNothing ==
  consumer = "polling" /\ cpc = "take" /\ upc # "seq" /\ s_last_seen_seq = evt_seq
    => reported = evt_seq

\* What is measured is never uncertain and the pipeline adds no uncertainty: the
\* TC alarm can only come from a threshold configured to zero (watch_cycle).
MeasuringRaisesNoTC == status = "ALARM_TC" => prop.tc_threshold = 0

\* After the self-test a notified consumer, and one that sleeps lightly on
\* hardware that keeps wake-ups, gets the coprocessor to watch for good
\* (run_selftest writes its last command before it wakes the consumer).
WatchStarts ==
  <>[]((switches = 0 /\ (consumer = "notified" \/ (consumer = "light" /\ latched)))
         => cmd.mode = "WATCH")
=============================================================================
