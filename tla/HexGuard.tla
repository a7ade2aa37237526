------------------------------- MODULE HexGuard -------------------------------
(***************************************************************************)
(* The guard orchestrator (hex4_guard.c) with the tasks of the reference   *)
(* application (hex4_guard_demo_main.c) that share its state:              *)
(*   guard    receives frames, judges and executes them, replies, and runs *)
(*            the link-lost check between frames                           *)
(*   ulp_evt  turns notifications of the ULP coprocessor into aborts and   *)
(*            lamp colours                                                 *)
(*   main     repaints the lamp periodically                               *)
(* The UART task (Arrive, ForeignFrame), the coprocessor behind its        *)
(* mailbox (UlpMeasure, UlpReport) and the passing of time (GoQuiet) are   *)
(* the environment.  A step of a task is a stretch of code that touches    *)
(* shared state once; the tasks are not pinned to a core, so steps         *)
(* interleave freely.                                                      *)
(***************************************************************************)
EXTENDS GuardReplay, GuardState, Sequences

CONSTANTS
  Frames,        \* the command frames that may arrive
  Crcs,          \* fingerprints of their payloads
  QueueLen,      \* GUARD_FRAME_QUEUE_LEN
  LinkMonitored, \* link_lost_ms is not 0
  MaxFrames,     \* bound: frames that arrive
  MaxCycles,     \* bound: coprocessor cycles
  MaxRefreshes,  \* bound: lamp refreshes of the main task
  MaxLostReplies \* bound: replies whose JSON cannot be built

Actions == {"motor_run", "motor_stop", "ping"}
HasCallback == {"motor_run", "motor_stop"}     \* ping has fn = NULL
Colours == {"OFF", "GREEN", "YELLOW", "RED", "RED_BLINK", "ORANGE_BLINK"}
Measured == {"T0", "T1", "T2"}      \* the quantiser yields these only
Levels == Measured \cup {"TC"}
Statuses == {"IDLE", "SELFTEST_DONE", "HEARTBEAT", "ALARM_JUMP", "ALARM_TC"}
Layers == {"NONE", "INTEGRITY", "REPLAY", "ENCODING", "SELFTEST", "L3", "L4"}
Replies == [verdict : {"ALLOW", "DENY", "ABORTED"}, layer : Layers]

\* What a frame carries, reduced to what the judgement distinguishes:
\*   form    whether it parses (garbled), has a numeric seq (unnumbered), has
\*           the other mandatory fields (incomplete), or is complete
\*   params  names and values fit the action or event
\*   auth    no role key fits (tampered), the tag is not a tag (malformed)
\*   echo    the role field, if any, names the role of the key
\*   policy  guard_policy_check admits action, role and parameters
FrameType ==
  [seq : Seqs, crc : Crcs,
   form : {"garbled", "unnumbered", "incomplete", "complete"},
   action : STRING, param : 0 .. AnyParam, params : BOOLEAN,
   auth : {"good", "tampered", "malformed"}, echo : BOOLEAN, policy : BOOLEAN]

Tasks == {"guard", "ulp_evt", "main"}
AbortLabels == {"mark", "latch", "stop", "red"}
PaintLabels == {"check", "sample", "paint"}
GuardLabels == {"wait", "judge", "inject", "admit", "sense", "arm", "start",
                "running", "settle", "reply", "tick", "lost", "hold"} \cup AbortLabels
EvtLabels == {"take", "dispatch"} \cup AbortLabels \cup PaintLabels
MainLabels == {"sleep"} \cup PaintLabels
Bounds == {"frames", "cycles", "refreshes", "replies"}

ASSUME FramesAssumption == Frames # {} /\ Frames \subseteq FrameType
ASSUME QueueAssumption == QueueLen \in Nat /\ QueueLen >= 1
ASSUME BoundsAssumption ==
  /\ LinkMonitored \in BOOLEAN
  /\ {MaxFrames, MaxCycles, MaxRefreshes, MaxLostReplies} \subseteq Nat

VARIABLES
  pc,              \* where each task is
  queue,           \* s_frame_queue
  cur,             \* the frame the guard task handles
  out,             \* the verdict and layer it is about to reply
  window,          \* s_replay
  s_state,         \* guard_state.c
  s_abort_pending,
  s_abort_latched,
  s_selftest,
  led,             \* the lamp (guard_led.c)
  motor,           \* the machine moves: fn of motor_run runs and was not stopped
  silent,          \* link_lost_ms have passed since the last valid frame
  s_link_lost_fired,
  quant_state,     \* mailbox: the level the coprocessor measured last
  status,          \* mailbox: its latest event, overwritten by the next
  notified,        \* the task notification of ulp_evt is pending
  ulp_mode,        \* mailbox: cmd
  stage,           \* where the coprocessor is in a run
  evt,             \* the event ulp_evt handles
  lamp,            \* the colour a painting task has chosen
  runs,            \* history: how often a callback ran, per sequence number
  lost,            \* history: how often no reply could be built, per number
  hit,             \* history: an abort was marked since the guard task armed
  spent            \* how much of each bound is used up

guardVars == <<queue, cur, out, window, runs, lost, hit>>
stateVars == <<s_state, s_abort_pending, motor>>
linkVars == <<silent, s_link_lost_fired>>
mailboxVars == <<quant_state, status, notified, ulp_mode, stage>>
lampVars == <<led, lamp, evt>>
vars == <<pc, guardVars, stateVars, s_abort_latched, s_selftest, linkVars,
          mailboxVars, lampVars, spent>>

\* The coprocessor, as much of it as the application relies on.
Mailbox == INSTANCE UlpMailbox WITH Ground <- "T0"

PcOK ==
  /\ pc \in [Tasks -> GuardLabels \cup EvtLabels \cup MainLabels]
  /\ pc["guard"] \in GuardLabels
  /\ pc["ulp_evt"] \in EvtLabels
  /\ pc["main"] \in MainLabels

DataOK ==
  /\ queue \in Seq(Frames) /\ Len(queue) <= QueueLen
  /\ cur \in Frames
  /\ out \in Replies
  /\ window \in Windows(Crcs, Replies)
  /\ s_state \in States
  /\ s_abort_pending \in BOOLEAN /\ s_abort_latched \in BOOLEAN
  /\ s_selftest \in {"PENDING", "PASS", "FAIL"}
  /\ led \in Colours /\ lamp \in [{"ulp_evt", "main"} -> Colours]
  /\ motor \in BOOLEAN /\ silent \in BOOLEAN /\ s_link_lost_fired \in BOOLEAN
  /\ quant_state \in Levels /\ status \in Statuses /\ evt \in Statuses
  /\ notified \in BOOLEAN
  /\ ulp_mode \in {"SELFTEST", "IDLE", "WATCH"} /\ stage \in Mailbox!Stages
  /\ runs \in [Seqs -> Nat] /\ lost \in [Seqs -> Nat]
  /\ hit \in BOOLEAN
  /\ spent \in [Bounds -> Nat]

TypeOK == PcOK /\ DataOK

\* hex4_guard_init and hex4_guard_start have returned, the ULP is started in
\* self-test mode (app_main).
Init ==
  /\ pc = [t \in Tasks |-> CASE t = "guard" -> "wait"
                             [] t = "ulp_evt" -> "take"
                             [] t = "main" -> "sleep"]
  /\ queue = <<>>
  /\ cur = CHOOSE f \in Frames : TRUE
  /\ out = [verdict |-> "DENY", layer |-> "NONE"]
  /\ window = InitialWindow
  /\ s_state = g_gen_state_initial
  /\ s_abort_pending = FALSE
  /\ s_abort_latched = FALSE
  /\ s_selftest = "PENDING"
  /\ led = "ORANGE_BLINK"
  /\ motor = FALSE
  /\ silent = FALSE
  /\ s_link_lost_fired = FALSE
  /\ Mailbox!Init
  /\ evt = "IDLE"
  /\ lamp = [t \in {"ulp_evt", "main"} |-> "OFF"]
  /\ runs = [s \in Seqs |-> 0]
  /\ lost = [s \in Seqs |-> 0]
  /\ hit = FALSE
  /\ spent = [b \in Bounds |-> 0]

At(t, label) == pc[t] = label
Goto(t, label) == pc' = [pc EXCEPT ![t] = label]

Spend(bound) == spent' = [spent EXCEPT ![bound] = @ + 1]

-----------------------------------------------------------------------------
(* hex4_guard_report_abort, run by the guard task (link lost) or by ulp_evt.  *)

\* Where an abort marked now is still seen by the command in execution.
Armed == pc["guard"] \in {"start", "running", "settle"}

Mark(t) ==
  /\ At(t, "mark") /\ Goto(t, "latch")
  /\ s_abort_pending' = TRUE
  /\ hit' = (hit \/ Armed)
  /\ UNCHANGED <<queue, cur, out, window, runs, lost, s_state, motor, s_abort_latched,
                 s_selftest, linkVars, mailboxVars, lampVars, spent>>

\* The event is injected under s_state_lock.
Latch(t) ==
  /\ At(t, "latch") /\ Goto(t, "stop")
  /\ s_state' = NextState(s_state, "estop_release", AnyParam)
  /\ UNCHANGED <<guardVars, s_abort_pending, motor, s_abort_latched, s_selftest, linkVars,
                 mailboxVars, lampVars, spent>>

\* abort_fn stops the machine, concurrently with a running callback.
Stop(t) ==
  /\ At(t, "stop") /\ Goto(t, "red")
  /\ motor' = FALSE
  /\ UNCHANGED <<guardVars, s_state, s_abort_pending, s_abort_latched, s_selftest, linkVars,
                 mailboxVars, lampVars, spent>>

\* The lamp turns red; the guard task goes on to hold it, ulp_evt to make it
\* blink when the sensor itself has failed.
Red(t) ==
  /\ At(t, "red")
  /\ led' = "RED"
  /\ \/ t = "guard" /\ Goto(t, "hold") /\ UNCHANGED lamp
     \/ t = "ulp_evt" /\ evt # "ALARM_TC" /\ Goto(t, "take") /\ UNCHANGED lamp
     \/ /\ t = "ulp_evt" /\ evt = "ALARM_TC" /\ Goto(t, "paint")
        /\ lamp' = [lamp EXCEPT ![t] = "RED_BLINK"]
  /\ UNCHANGED <<guardVars, stateVars, s_abort_latched, s_selftest, linkVars,
                 mailboxVars, evt, spent>>

ReportAbort(t) == Mark(t) \/ Latch(t) \/ Stop(t) \/ Red(t)

-----------------------------------------------------------------------------
(* The guard task: hex4_guard_task and handle_cmd_frame.                      *)

\* The numbers a reply may be committed under.  An incomplete frame's number
\* is read from a JSON object that has just been freed: it is still there, or
\* the object is no longer taken for a number.
ReplySeqs(f) ==
  CASE f.form \in {"garbled", "unnumbered"} -> {0}
    [] f.form = "incomplete" -> {f.seq, 0}
    [] f.form = "complete" -> {f.seq}

\* Reply verdict v for layer l next.
Answer(v, l) ==
  /\ Goto("guard", "reply")
  /\ out' = [verdict |-> v, layer |-> l]

\* Mutant of Receive: the frame is peeked at and stays in the queue.
ReceivePeek ==
  /\ At("guard", "wait") /\ Goto("guard", "judge")
  /\ queue # <<>>
  /\ cur' = Head(queue)
  /\ s_abort_latched' = FALSE
  /\ UNCHANGED <<queue, out, window, runs, lost, hit, stateVars, s_selftest, linkVars,
                 mailboxVars, lampVars, spent>>

\* A frame comes off the queue: it releases the link-lost hold of the lamp.
Receive ==
  /\ At("guard", "wait") /\ Goto("guard", "judge")
  /\ queue # <<>>
  /\ cur' = Head(queue)
  /\ queue' = Tail(queue)
  /\ s_abort_latched' = FALSE
  /\ UNCHANGED <<out, window, runs, lost, hit, stateVars, s_selftest, linkVars, mailboxVars,
                 lampVars, spent>>

\* Mutant of ReceiveTimeout: the task waits for a frame without a timeout.
ReceiveForever == At("guard", "wait") /\ queue = <<>> /\ UNCHANGED vars

\* xQueueReceive times out after 50 ms.
ReceiveTimeout ==
  /\ At("guard", "wait") /\ Goto("guard", "tick")
  /\ queue = <<>>
  /\ UNCHANGED <<guardVars, stateVars, s_abort_latched, s_selftest, linkVars, mailboxVars,
                 lampVars, spent>>

\* Mutant of SelftestGate: only a failed self-test closes it.
SelftestGateOnFail(f) == s_selftest = "FAIL" /\ f.action # "ping"

\* Until the coprocessor's self-test has passed only a query goes through.
SelftestGate(f) == s_selftest # "PASS" /\ f.action # "ping"

\* Mutant of Authentic: the role field is not compared with the key that fits.
AuthenticAnyRole(f) == f.auth = "good"

Authentic(f) == f.auth = "good" /\ f.echo

\* The checks before the state machine, in the code's order; NONE lets f pass.
RefusalLayer(f) ==
  IF f.form # "complete" THEN "ENCODING"
  ELSE IF IsStale(window, f.seq, f.crc) THEN "REPLAY"
  ELSE IF SelftestGate(f) THEN "SELFTEST"
  ELSE IF f.action \notin Actions \cup CommandEvents THEN "L3"
  ELSE IF ~f.params \/ f.auth = "malformed" THEN "ENCODING"
  ELSE IF ~Authentic(f) THEN "INTEGRITY"
  ELSE "NONE"

\* A known number and fingerprint: the cached reply goes out again.
IsRetransmission(f) == f.form = "complete" /\ IsCached(window, f.seq, f.crc)

Judge ==
  /\ At("guard", "judge")
  /\ \/ IsRetransmission(cur) /\ Goto("guard", "tick") /\ UNCHANGED out
     \/ /\ ~IsRetransmission(cur) /\ RefusalLayer(cur) # "NONE"
        /\ Answer("DENY", RefusalLayer(cur))
     \/ /\ ~IsRetransmission(cur) /\ RefusalLayer(cur) = "NONE"
        /\ cur.action \in CommandEvents
        /\ Goto("guard", "inject") /\ UNCHANGED out
     \/ /\ ~IsRetransmission(cur) /\ RefusalLayer(cur) = "NONE"
        /\ cur.action \in Actions
        /\ Goto("guard", "admit") /\ UNCHANGED out
  /\ UNCHANGED <<queue, cur, window, runs, lost, hit, stateVars, s_abort_latched, s_selftest,
                 linkVars, mailboxVars, lampVars, spent>>

\* An event command drives the state machine under s_state_lock.
Inject ==
  /\ At("guard", "inject")
  /\ s_state' = NextState(s_state, cur.action, cur.param)
  /\ IF HasTransition(s_state, cur.action, cur.param)
     THEN Answer("ALLOW", "NONE")
     ELSE Answer("DENY", "L3")
  /\ UNCHANGED <<queue, cur, window, runs, lost, hit, s_abort_pending, motor, s_abort_latched,
                 s_selftest, linkVars, mailboxVars, lampVars, spent>>

\* Mutant of Admit: the state machine is not asked.
AdmitAnyState ==
  /\ At("guard", "admit")
  /\ IF cur.policy THEN Goto("guard", "sense") /\ UNCHANGED out ELSE Answer("DENY", "L3")
  /\ UNCHANGED <<queue, cur, window, runs, lost, hit, stateVars, s_abort_latched, s_selftest,
                 linkVars, mailboxVars, lampVars, spent>>

\* guard_state_allows under the lock, then the policy check.
Admit ==
  /\ At("guard", "admit")
  /\ IF Allows(s_state, cur.action) /\ cur.policy
     THEN Goto("guard", "sense") /\ UNCHANGED out
     ELSE Answer("DENY", "L3")
  /\ UNCHANGED <<queue, cur, window, runs, lost, hit, stateVars, s_abort_latched, s_selftest,
                 linkVars, mailboxVars, lampVars, spent>>

\* L4: the level in the mailbox now.
Sense ==
  /\ At("guard", "sense")
  /\ IF cur.action \in HasCallback /\ quant_state \in {"T2", "TC"}
     THEN Answer("DENY", "L4")
     ELSE Goto("guard", "arm") /\ UNCHANGED out
  /\ UNCHANGED <<queue, cur, window, runs, lost, hit, stateVars, s_abort_latched, s_selftest,
                 linkVars, mailboxVars, lampVars, spent>>

\* Mutant of Arm: an abort that came before the command stays pending.
ArmKeepsPending ==
  /\ At("guard", "arm")
  /\ hit' = FALSE
  /\ Goto("guard", IF cur.action \in HasCallback THEN "start" ELSE "settle")
  /\ UNCHANGED <<queue, cur, out, window, runs, lost, stateVars, s_abort_latched, s_selftest,
                 linkVars, mailboxVars, lampVars, spent>>

\* s_abort_pending is cleared just before the callback is called.
Arm ==
  /\ At("guard", "arm")
  /\ s_abort_pending' = FALSE
  /\ hit' = FALSE
  /\ Goto("guard", IF cur.action \in HasCallback THEN "start" ELSE "settle")
  /\ UNCHANGED <<queue, cur, out, window, runs, lost, s_state, motor, s_abort_latched,
                 s_selftest, linkVars, mailboxVars, lampVars, spent>>

\* The callback begins: of the two, only motor_run moves the machine.
Start ==
  /\ At("guard", "start") /\ Goto("guard", "running")
  /\ motor' = (cur.action = "motor_run")
  /\ runs' = [runs EXCEPT ![cur.seq] = @ + 1]
  /\ UNCHANGED <<queue, cur, out, window, lost, hit, s_state, s_abort_pending,
                 s_abort_latched, s_selftest, linkVars, mailboxVars, lampVars, spent>>

\* The callback returns.
Finish ==
  /\ At("guard", "running") /\ Goto("guard", "settle")
  /\ motor' = FALSE
  /\ UNCHANGED <<guardVars, s_state, s_abort_pending, s_abort_latched, s_selftest, linkVars,
                 mailboxVars, lampVars, spent>>

Settle ==
  /\ At("guard", "settle")
  /\ IF s_abort_pending THEN Answer("ABORTED", "L4") ELSE Answer("ALLOW", "NONE")
  /\ UNCHANGED <<queue, cur, window, runs, lost, hit, stateVars, s_abort_latched, s_selftest,
                 linkVars, mailboxVars, lampVars, spent>>

\* reply_and_commit: send, set the lamp, commit.
Reply ==
  /\ At("guard", "reply") /\ Goto("guard", "tick")
  /\ led' = IF out.verdict = "ALLOW" THEN "GREEN" ELSE "RED"
  /\ \E number \in ReplySeqs(cur) : window' = Commit(window, number, cur.crc, out)
  /\ UNCHANGED <<queue, cur, out, runs, lost, hit, stateVars, s_abort_latched, s_selftest,
                 linkVars, mailboxVars, lamp, evt, spent>>

\* reply_and_commit when the JSON cannot be built: nothing is sent and nothing
\* is committed.
LoseReply ==
  /\ At("guard", "reply") /\ Goto("guard", "tick")
  /\ spent["replies"] < MaxLostReplies /\ Spend("replies")
  /\ lost' = [lost EXCEPT ![cur.seq] = @ + 1]
  /\ UNCHANGED <<queue, cur, out, window, runs, hit, stateVars, s_abort_latched, s_selftest,
                 linkVars, mailboxVars, lampVars>>

\* guard_uart_tick decides whether the link is lost ...
Tick ==
  /\ At("guard", "tick")
  /\ Goto("guard", IF LinkMonitored /\ silent /\ ~s_link_lost_fired THEN "lost" ELSE "wait")
  /\ UNCHANGED <<guardVars, stateVars, s_abort_latched, s_selftest, linkVars, mailboxVars,
                 lampVars, spent>>

\* ... and only then records that it has reported it.
LinkLost ==
  /\ At("guard", "lost") /\ Goto("guard", "mark")
  /\ s_link_lost_fired' = TRUE
  /\ UNCHANGED <<guardVars, stateVars, s_abort_latched, s_selftest, silent, mailboxVars,
                 lampVars, spent>>

\* on_link_lost holds the lamp once report_abort has returned.
Hold ==
  /\ At("guard", "hold") /\ Goto("guard", "wait")
  /\ s_abort_latched' = TRUE
  /\ UNCHANGED <<guardVars, stateVars, s_selftest, linkVars, mailboxVars, lampVars, spent>>

GuardTask ==
  \/ Receive \/ ReceiveTimeout \/ Judge \/ Inject \/ Admit \/ Sense \/ Arm \/ Start
  \/ Finish \/ Settle \/ Reply \/ LoseReply \/ Tick \/ LinkLost \/ Hold
  \/ ReportAbort("guard")

-----------------------------------------------------------------------------
(* The ULP event task.                                                        *)

\* ulTaskNotifyTake, then hex4_ulp_handle_wakeup reads the status as it is now.
Take ==
  /\ At("ulp_evt", "take")
  /\ notified
  /\ notified' = FALSE
  /\ evt' = status
  /\ Goto("ulp_evt", IF status = "IDLE" THEN "take" ELSE "dispatch")
  /\ UNCHANGED <<guardVars, stateVars, s_abort_latched, s_selftest, linkVars, quant_state,
                 status, ulp_mode, stage, led, lamp, spent>>

\* The self-test trace matched or not; only a match opens execution and starts
\* the watch.
SelftestDone(passed) ==
  /\ At("ulp_evt", "dispatch") /\ Goto("ulp_evt", "paint")
  /\ evt = "SELFTEST_DONE"
  /\ s_selftest' = IF passed THEN "PASS" ELSE "FAIL"
  /\ ulp_mode' = IF passed THEN "WATCH" ELSE ulp_mode
  /\ lamp' = [lamp EXCEPT !["ulp_evt"] = IF passed THEN "GREEN" ELSE "RED_BLINK"]
  /\ UNCHANGED <<guardVars, stateVars, s_abort_latched, linkVars, quant_state, status,
                 notified, stage, led, evt, spent>>

\* An upward jump: T2 aborts, T1 warns.  The acknowledgement at the end of the
\* handler only concerns the coprocessor.
AlarmJump ==
  /\ At("ulp_evt", "dispatch")
  /\ evt = "ALARM_JUMP"
  /\ \/ quant_state = "T2" /\ Goto("ulp_evt", "mark") /\ UNCHANGED lamp
     \/ /\ quant_state # "T2" /\ Goto("ulp_evt", "paint")
        /\ lamp' = [lamp EXCEPT !["ulp_evt"] = IF quant_state = "T1" THEN "YELLOW" ELSE "GREEN"]
  /\ UNCHANGED <<guardVars, stateVars, s_abort_latched, s_selftest, linkVars, mailboxVars,
                 led, evt, spent>>

AlarmTc ==
  /\ At("ulp_evt", "dispatch") /\ Goto("ulp_evt", "mark")
  /\ evt = "ALARM_TC"
  /\ UNCHANGED <<guardVars, stateVars, s_abort_latched, s_selftest, linkVars, mailboxVars,
                 lampVars, spent>>

Heartbeat ==
  /\ At("ulp_evt", "dispatch") /\ Goto("ulp_evt", "check")
  /\ evt = "HEARTBEAT"
  /\ UNCHANGED <<guardVars, stateVars, s_abort_latched, s_selftest, linkVars, mailboxVars,
                 lampVars, spent>>

-----------------------------------------------------------------------------
(* Painting the lamp: by ulp_evt on a heartbeat, by the main task every 500ms. *)

ColourOf(level) == [T0 |-> "GREEN", T1 |-> "YELLOW", T2 |-> "RED", TC |-> "RED_BLINK"][level]

RestLabel(t) == IF t = "main" THEN "sleep" ELSE "take"

\* hex4_guard_abort_latched is asked first ...
CheckHold(t) ==
  /\ At(t, "check")
  /\ Goto(t, IF s_abort_latched THEN RestLabel(t) ELSE "sample")
  /\ UNCHANGED <<guardVars, stateVars, s_abort_latched, s_selftest, linkVars, mailboxVars,
                 lampVars, spent>>

\* ... then the level is read ...
Sample(t) ==
  /\ At(t, "sample") /\ Goto(t, "paint")
  /\ lamp' = [lamp EXCEPT ![t] = ColourOf(quant_state)]
  /\ UNCHANGED <<guardVars, stateVars, s_abort_latched, s_selftest, linkVars, mailboxVars,
                 led, evt, spent>>

\* ... and the lamp is set.
Paint(t) ==
  /\ At(t, "paint") /\ Goto(t, RestLabel(t))
  /\ led' = lamp[t]
  /\ UNCHANGED <<guardVars, stateVars, s_abort_latched, s_selftest, linkVars, mailboxVars,
                 lamp, evt, spent>>

Refresh(t) == CheckHold(t) \/ Sample(t) \/ Paint(t)

\* vTaskDelay of the main loop ends.
Wake ==
  /\ At("main", "sleep") /\ Goto("main", "check")
  /\ spent["refreshes"] < MaxRefreshes /\ Spend("refreshes")
  /\ UNCHANGED <<guardVars, stateVars, s_abort_latched, s_selftest, linkVars, mailboxVars,
                 lampVars>>

EvtTask ==
  \/ Take \/ (\E passed \in BOOLEAN : SelftestDone(passed)) \/ AlarmJump \/ AlarmTc \/ Heartbeat
  \/ ReportAbort("ulp_evt") \/ Refresh("ulp_evt")

MainTask == Wake \/ Refresh("main")

-----------------------------------------------------------------------------
(* The environment.                                                           *)

\* The UART task completes a command frame: on_frame queues it, or drops it
\* when the queue is full.
Arrive(f) ==
  /\ spent["frames"] < MaxFrames /\ Spend("frames")
  /\ silent' = FALSE
  /\ s_link_lost_fired' = FALSE
  /\ queue' = IF Len(queue) < QueueLen THEN Append(queue, f) ELSE queue
  /\ UNCHANGED <<pc, cur, out, window, runs, lost, hit, stateVars, s_abort_latched,
                 s_selftest, mailboxVars, lampVars>>

\* A valid frame of another type only counts as a sign of life.
ForeignFrame ==
  /\ spent["frames"] < MaxFrames /\ Spend("frames")
  /\ silent' = FALSE
  /\ s_link_lost_fired' = FALSE
  /\ UNCHANGED <<pc, guardVars, stateVars, s_abort_latched, s_selftest, mailboxVars,
                 lampVars>>

\* link_lost_ms pass without a frame.
GoQuiet ==
  /\ ~silent
  /\ silent' = TRUE
  /\ UNCHANGED <<pc, guardVars, stateVars, s_abort_latched, s_selftest, s_link_lost_fired,
                 mailboxVars, lampVars, spent>>

\* A run of the watch measures a level, ...
UlpMeasure(level) ==
  /\ spent["cycles"] < MaxCycles /\ Spend("cycles")
  /\ Mailbox!Measure(level)
  /\ UNCHANGED <<pc, guardVars, stateVars, s_abort_latched, s_selftest, linkVars, lampVars>>

\* ... and the rest of it, or the self-test, writes the event and raises the wake
\* interrupt.  ALARM_TC, which takes a threshold of the TC propagator that measured
\* levels can reach, is among the events because the event task handles it.
UlpReport ==
  /\ \/ Mailbox!Selftest \/ Mailbox!Retire \/ Mailbox!Forget \/ Mailbox!Wake
     \/ \E event \in Mailbox!Events : Mailbox!Raise(event)
  /\ UNCHANGED <<pc, guardVars, stateVars, s_abort_latched, s_selftest, linkVars, lampVars,
                 spent>>

Environment ==
  \/ \E f \in Frames : Arrive(f)
  \/ ForeignFrame
  \/ GoQuiet
  \/ \E level \in Measured : UlpMeasure(level)
  \/ UlpReport

Next == GuardTask \/ EvtTask \/ MainTask \/ Environment

Spec == Init /\ [][Next]_vars

\* The scheduler runs every task that is ready, and callbacks return; frames,
\* time and the coprocessor owe nothing.
Fairness == WF_vars(GuardTask) /\ WF_vars(EvtTask) /\ WF_vars(MainTask)

FairSpec == Spec /\ Fairness

-----------------------------------------------------------------------------

(* Properties.                                                                *)

\* LTL-ESTOP-1 of the constraint package: in the latched state no motion ever
\* executes.  (While an abort is between latching and abort_fn, the motion it
\* is about to stop does not count.)
NoMotionWhileLatched ==
  motor /\ s_state = "ESTOP_LATCH" => \E t \in Tasks : At(t, "stop")

\* What the code does guarantee: motions are granted outside the latch only,
\* one at a time, and the latch is never acknowledged over an outstanding one.
Contract == INSTANCE EstopContract WITH
  latched <- s_state = "ESTOP_LATCH",
  granted <- cur.action \in HasCallback /\ pc["guard"] \in {"sense", "arm", "start"},
  motion  <- motor

EstopHonoured == Contract!Spec

\* Only the guard task leaves the latch, and only for an operator_ack that
\* passed authentication, whatever aborts and mode switches race with it.
LatchReleasedOnlyByAck ==
  [][(s_state = "ESTOP_LATCH" /\ s_state' # "ESTOP_LATCH") =>
       /\ At("guard", "inject")
       /\ cur.action = "operator_ack" /\ cur.auth = "good" /\ cur.echo]_vars

\* A command is answered ABORTED exactly when an abort was marked between the
\* moment the guard task armed and the moment it settled: an abort during the
\* callback is never reported as ALLOW, an old one never as ABORTED.
AbortedIffHit ==
  (At("guard", "reply") /\ out.verdict # "DENY" /\ cur.action \in Actions)
    => (out.verdict = "ABORTED" <=> hit)

\* A callback runs only for a frame that passed every layer, after the
\* coprocessor's self-test has passed.
CallbackIsLicensed ==
  At("guard", "running") =>
    /\ cur.form = "complete" /\ cur.params /\ cur.auth = "good" /\ cur.echo /\ cur.policy
    /\ s_selftest = "PASS"

\* However often a command is retransmitted, its callback runs again only if
\* the device could not build the reply to the previous run.
RerunOnlyAfterLostReply == \A s \in Seqs : runs[s] <= 1 + lost[s]

\* A refusal other than REPLAY tells the host that the command never ran,
\* unless an earlier reply to it could not be built.
DenyMeansNeverRan ==
  (At("guard", "reply") /\ out.verdict = "DENY" /\ out.layer # "REPLAY"
     /\ cur.form = "complete" /\ lost[cur.seq] = 0) => runs[cur.seq] = 0

\* Why the above holds at every interleaving (the inductive invariant): what the
\* guard task has established about cur at each of its labels, ...
Licensed(f) == f.form = "complete" /\ f.params /\ f.auth = "good" /\ f.echo

JudgedInv ==
  /\ At("guard", "inject") => cur.action \in CommandEvents /\ Licensed(cur)
  /\ pc["guard"] \in {"admit", "sense", "arm", "start", "running"} =>
       /\ cur.action \in Actions /\ Licensed(cur)
       /\ cur.action # "ping" => s_selftest = "PASS"
  /\ pc["guard"] \in {"sense", "arm", "start", "running"} => cur.policy
  /\ pc["guard"] \in {"start", "running"} => cur.action \in HasCallback
  /\ At("guard", "settle") => cur.action \in Actions

\* ... that the machine moves only inside the callback, ...
MotorInv == motor => At("guard", "running")

\* ... that from arming to settling the flag is the history, ...
PendingInv == Armed => (hit <=> s_abort_pending)

\* ... and that the one self-test report is in one place at a time, so that a pass
\* is never taken back.
ReportComing == stage \in {"retire", "wake"} /\ status = "SELFTEST_DONE"
ReportPending == notified /\ status = "SELFTEST_DONE"
ReportHandled == At("ulp_evt", "dispatch") /\ evt = "SELFTEST_DONE"

SelftestInv ==
  /\ stage = "retire" => ulp_mode = "SELFTEST" /\ ReportComing
  /\ stage \in {"raise", "wake"} => ulp_mode # "SELFTEST"
  /\ ulp_mode = "SELFTEST" \/ ReportComing => ~notified /\ ~ReportHandled
  /\ ReportHandled => ~ReportPending
  /\ s_selftest # "PENDING" =>
       ulp_mode # "SELFTEST" /\ ~ReportComing /\ ~ReportPending /\ ~ReportHandled

\* guard_uart.h: the link-lost callback fires once and a valid frame re-arms
\* it, so with a frame inside the window it is armed.
FrameRearmsLinkLoss == ~silent => ~s_link_lost_fired

\* Every frame that was queued is eventually dealt with.
CommandsDrain == []<>(queue = <<>> /\ At("guard", "wait"))

\* Silence that has not been reported yet leads to the latch, or ends.
LinkLossLatches ==
  (LinkMonitored /\ silent /\ ~s_link_lost_fired) ~> (~silent \/ s_state = "ESTOP_LATCH")

=============================================================================
