----------------------------- MODULE HexGuardProofs -----------------------------
(***************************************************************************)
(* The guard tasks, proved for every set of frames, every queue length and *)
(* every bound: the generated transition table, the types, the stop that   *)
(* no event is late for, the lamp, the replies; and, for every set of      *)
(* frames whose numbers lie within half the sequence space, wherever that  *)
(* half begins (a host that numbers its commands one after the other keeps *)
(* to it between 2^31 of them), how often a callback runs for a number and *)
(* what a refusal says of it.                                              *)
(***************************************************************************)
EXTENDS HexGuard, GuardReplayProofs

-----------------------------------------------------------------------------
(* The generated transition table.                                           *)

\* The rows of the table: thirteen, each from a state or the wildcard, on an
\* event, to a state.
LEMMA TableRows ==
  /\ DOMAIN g_gen_state_trans = 1 .. 13
  /\ \A i \in 1 .. 13 :
       /\ g_gen_state_trans[i].from \in States \cup {AnyState}
       /\ g_gen_state_trans[i].event \in Events
       /\ g_gen_state_trans[i].to \in States
  BY DEF g_gen_state_trans, Row, States, Events, AnyState

\* guard_state_event takes the row that is first among the matching ones.
LEMMA FirstRowDecides ==
  ASSUME NEW s, NEW ev, NEW param, HasTransition(s, ev, param)
  PROVE  \E i \in MatchingRows(s, ev, param) :
           NextState(s, ev, param) = g_gen_state_trans[i].to
<1> DEFINE M == MatchingRows(s, ev, param)
<1>1. M \subseteq 1 .. 13 /\ M # {}
  BY TableRows DEF MatchingRows, HasTransition
<1>2. \E i \in M : \A j \in M : i <= j
  <2> DEFINE Low(k) == k \in M /\ \A j \in M : k <= j
  <2>1. ASSUME \A k \in 1 .. 13 : ~Low(k) PROVE FALSE
    BY <1>1, <2>1
  <2> QED BY <2>1, <1>1
<1> QED BY <1>2 DEF NextState, HasTransition

\* An injected event or a command never takes the machine out of its states.
LEMMA NextStateType ==
  ASSUME NEW s \in States, NEW ev, NEW param
  PROVE  NextState(s, ev, param) \in States
<1>1. CASE HasTransition(s, ev, param)
  BY <1>1, FirstRowDecides, TableRows DEF MatchingRows
<1>2. CASE ~HasTransition(s, ev, param)
  BY <1>2 DEF NextState
<1> QED BY <1>1, <1>2

\* The table is deterministic: where two rows match, they agree on the target,
\* so the order in which smt_compile.py emits the rows does not matter.
THEOREM TableDeterministic ==
  ASSUME NEW s \in States, NEW ev, NEW param,
         NEW i \in MatchingRows(s, ev, param), NEW j \in MatchingRows(s, ev, param)
  PROVE  g_gen_state_trans[i].to = g_gen_state_trans[j].to
<1>1. i \in 1 .. 13 /\ j \in 1 .. 13
  BY TableRows DEF MatchingRows
<1>2. /\ RowMatches(g_gen_state_trans[i], s, ev, param)
      /\ RowMatches(g_gen_state_trans[j], s, ev, param)
  BY DEF MatchingRows
<1> QED BY <1>1, <1>2 DEF RowMatches, g_gen_state_trans, Row, States, AnyState, AnyParam,
           ModeAuto, ModeManual, ModeCollab

\* The three stop events latch from every state, whatever parameter comes with
\* them: hex4_guard_report_abort cannot fail to latch.
THEOREM StopAlwaysLatches ==
  ASSUME NEW s \in States, NEW ev \in {"estop_release", "door_open", "collision"}, NEW param
  PROVE  HasTransition(s, ev, param) /\ NextState(s, ev, param) = "ESTOP_LATCH"
<1>1. \E i \in 1 .. 13 : /\ RowMatches(g_gen_state_trans[i], s, ev, param)
                         /\ g_gen_state_trans[i].to = "ESTOP_LATCH"
  BY DEF RowMatches, g_gen_state_trans, Row, AnyState, AnyParam
<1>2. PICK i \in MatchingRows(s, ev, param) : g_gen_state_trans[i].to = "ESTOP_LATCH"
  BY <1>1, TableRows DEF MatchingRows
<1>3. HasTransition(s, ev, param)
  BY <1>2 DEF HasTransition
<1> QED BY <1>2, <1>3, FirstRowDecides, TableDeterministic

\* Of all events only operator_ack leaves the latched state.
THEOREM OnlyAckLeavesLatch ==
  ASSUME NEW ev, NEW param, NextState("ESTOP_LATCH", ev, param) # "ESTOP_LATCH"
  PROVE  ev = "operator_ack"
<1>1. HasTransition("ESTOP_LATCH", ev, param)
  BY DEF NextState
<1>2. PICK i \in MatchingRows("ESTOP_LATCH", ev, param) :
               g_gen_state_trans[i].to # "ESTOP_LATCH"
  BY <1>1, FirstRowDecides
<1>3. i \in 1 .. 13 /\ RowMatches(g_gen_state_trans[i], "ESTOP_LATCH", ev, param)
  BY TableRows DEF MatchingRows
<1> QED BY <1>2, <1>3 DEF RowMatches, g_gen_state_trans, Row, AnyState

\* In the latched state neither action with a callback is allowed.
LEMMA LatchDeniesMotion ==
  ~Allows("ESTOP_LATCH", "motor_run") /\ ~Allows("ESTOP_LATCH", "motor_stop")
  BY DEF Allows, Denied

-----------------------------------------------------------------------------
(* The tasks.                                                                *)

\* The replay layer gets numbers and fingerprints of its own types.
LEMMA FrameFields ==
  ASSUME NEW f \in Frames
  PROVE  f.seq \in Seqs /\ f.crc \in Crcs
  BY FramesAssumption DEF FrameType

\* Whatever a reply is committed under (ReplySeqs: also the number read from the
\* freed JSON object) is a sequence number.
LEMMA ReplySeqsType ==
  ASSUME NEW f \in Frames
  PROVE  ReplySeqs(f) \subseteq Seqs
<1>1. f.seq \in Seqs /\ 0 \in Seqs
  BY FrameFields, HalfAssumption DEF Seqs
<1>2. f.form \in {"garbled", "unnumbered", "incomplete", "complete"}
  BY FramesAssumption DEF FrameType
<1> QED BY <1>1, <1>2 DEF ReplySeqs

\* The state that app_main leaves behind is well typed.
LEMMA TypeInit == Init => TypeOK
<1> SUFFICES ASSUME Init PROVE TypeOK
  OBVIOUS
<1>1. cur \in Frames
  BY FramesAssumption DEF Init
<1>2. window \in Windows(Crcs, Replies)
  BY InitialWindowType DEF Init
<1>3. PcOK
  BY DEF Init, PcOK, Tasks, GuardLabels, EvtLabels, MainLabels
<1>4. queue \in Seq(Frames) /\ Len(queue) <= QueueLen
  BY QueueAssumption DEF Init
<1>5. DataOK
  BY <1>1, <1>2, <1>4
     DEF Init, Mailbox!Init, Mailbox!Stages, DataOK, Replies, Layers, States,
         g_gen_state_initial, Colours, Levels, Measured,
         Statuses, Bounds
<1> QED BY <1>3, <1>5 DEF TypeOK

\* A task that goes to one of its labels leaves the others where they are.
LEMMA GuardGoes ==
  ASSUME PcOK, NEW l \in GuardLabels, Goto("guard", l)
  PROVE  PcOK' /\ pc'["guard"] = l /\ pc'["ulp_evt"] = pc["ulp_evt"] /\ pc'["main"] = pc["main"]
  BY DEF PcOK, Goto, Tasks

\* The same of the ULP event task.
LEMMA EvtGoes ==
  ASSUME PcOK, NEW l \in EvtLabels, Goto("ulp_evt", l)
  PROVE  PcOK' /\ pc'["ulp_evt"] = l /\ pc'["guard"] = pc["guard"] /\ pc'["main"] = pc["main"]
  BY DEF PcOK, Goto, Tasks

\* The same of the main task.
LEMMA MainGoes ==
  ASSUME PcOK, NEW l \in MainLabels, Goto("main", l)
  PROVE  PcOK' /\ pc'["main"] = l /\ pc'["guard"] = pc["guard"] /\ pc'["ulp_evt"] = pc["ulp_evt"]
  BY DEF PcOK, Goto, Tasks

\* A verdict sends the guard task to reply_and_commit, with that verdict.
LEMMA Answers ==
  ASSUME PcOK, NEW v \in {"ALLOW", "DENY", "ABORTED"}, NEW l \in Layers, Answer(v, l)
  PROVE  /\ PcOK' /\ out' \in Replies /\ out'.verdict = v
         /\ pc'["guard"] = "reply" /\ pc'["ulp_evt"] = pc["ulp_evt"] /\ pc'["main"] = pc["main"]
<1>1. "reply" \in GuardLabels
  BY DEF GuardLabels
<1>2. Goto("guard", "reply") /\ out' = [verdict |-> v, layer |-> l]
  BY DEF Answer
<1> QED BY <1>1, <1>2, GuardGoes DEF Replies

\* The layers written out, for the steps that name one.
LEMMA LayerNames == {"NONE", "INTEGRITY", "REPLAY", "ENCODING", "SELFTEST", "L3", "L4"} = Layers
  BY DEF Layers

\* Whatever the frame, the checks name a layer of a reply.
LEMMA RefusalLayerType == \A f : RefusalLayer(f) \in Layers
  BY DEF RefusalLayer, Layers

\* A step of the guard task moves no other task and leaves a reply in out.
LEMMA GuardMoves ==
  ASSUME TypeOK, GuardTask
  PROVE  /\ PcOK' /\ out' \in Replies
         /\ pc'["ulp_evt"] = pc["ulp_evt"] /\ pc'["main"] = pc["main"]
<1> USE DEF TypeOK
<1>0. out \in Replies
  BY DEF DataOK
<1>1. CASE Receive
  BY <1>0, <1>1, GuardGoes DEF Receive, GuardLabels
<1>2. CASE ReceiveTimeout
  BY <1>0, <1>2, GuardGoes DEF ReceiveTimeout, GuardLabels, guardVars
<1>3. CASE Judge
  <2>1. CASE Goto("guard", "tick") /\ UNCHANGED out
    BY <1>0, <2>1, GuardGoes DEF GuardLabels
  <2>2. CASE Answer("DENY", RefusalLayer(cur))
    BY <2>2, Answers, RefusalLayerType
  <2>3. CASE Goto("guard", "inject") /\ UNCHANGED out
    BY <1>0, <2>3, GuardGoes DEF GuardLabels
  <2>4. CASE Goto("guard", "admit") /\ UNCHANGED out
    BY <1>0, <2>4, GuardGoes DEF GuardLabels
  <2> QED BY <1>3, <2>1, <2>2, <2>3, <2>4 DEF Judge
<1>4. CASE Inject
  <2>1. CASE Answer("ALLOW", "NONE")
    BY <2>1, Answers, LayerNames
  <2>2. CASE Answer("DENY", "L3")
    BY <2>2, Answers, LayerNames
  <2> QED BY <1>4, <2>1, <2>2 DEF Inject
<1>5. CASE Admit
  <2>1. CASE Goto("guard", "sense") /\ UNCHANGED out
    BY <1>0, <2>1, GuardGoes DEF GuardLabels
  <2>2. CASE Answer("DENY", "L3")
    BY <2>2, Answers, LayerNames
  <2> QED BY <1>5, <2>1, <2>2 DEF Admit
<1>6. CASE Sense
  <2>1. CASE Goto("guard", "arm") /\ UNCHANGED out
    BY <1>0, <2>1, GuardGoes DEF GuardLabels
  <2>2. CASE Answer("DENY", "L4")
    BY <2>2, Answers, LayerNames
  <2> QED BY <1>6, <2>1, <2>2 DEF Sense
<1>7. CASE Arm
  BY <1>0, <1>7, GuardGoes DEF Arm, GuardLabels
<1>8. CASE Start
  BY <1>0, <1>8, GuardGoes DEF Start, GuardLabels
<1>9. CASE Finish
  BY <1>0, <1>9, GuardGoes DEF Finish, GuardLabels, guardVars
<1>10. CASE Settle
  <2>1. CASE Answer("ABORTED", "L4")
    BY <2>1, Answers, LayerNames
  <2>2. CASE Answer("ALLOW", "NONE")
    BY <2>2, Answers, LayerNames
  <2> QED BY <1>10, <2>1, <2>2 DEF Settle
<1>11. CASE Reply
  BY <1>0, <1>11, GuardGoes DEF Reply, GuardLabels
<1>12. CASE LoseReply
  BY <1>0, <1>12, GuardGoes DEF LoseReply, GuardLabels
<1>13. CASE Tick
  BY <1>0, <1>13, GuardGoes DEF Tick, GuardLabels, guardVars
<1>14. CASE LinkLost
  BY <1>0, <1>14, GuardGoes DEF LinkLost, GuardLabels, AbortLabels, guardVars
<1>15. CASE Hold
  BY <1>0, <1>15, GuardGoes DEF Hold, GuardLabels, guardVars
<1>16. CASE ReportAbort("guard")
  BY <1>0, <1>16, GuardGoes
     DEF ReportAbort, Mark, Latch, Stop, Red, GuardLabels, AbortLabels, guardVars
<1> QED BY <1>1, <1>2, <1>3, <1>4, <1>5, <1>6, <1>7, <1>8, <1>9, <1>10, <1>11, <1>12, <1>13,
           <1>14, <1>15, <1>16 DEF GuardTask

\* Spending one of a bound keeps the account's type.
LEMMA SpendType ==
  ASSUME spent \in [Bounds -> Nat], NEW b \in Bounds, Spend(b)
  PROVE  spent' \in [Bounds -> Nat]
  BY DEF Spend

\* The bounds written out.
LEMMA BoundNames == "frames" \in Bounds /\ "cycles" \in Bounds /\ "refreshes" \in Bounds
                      /\ "replies" \in Bounds
  BY DEF Bounds

\* What leaves the queue is a frame, and the queue gets shorter.
LEMMA TakeHead ==
  ASSUME queue \in Seq(Frames), queue # <<>>, Len(queue) <= QueueLen
  PROVE  Head(queue) \in Frames /\ Tail(queue) \in Seq(Frames) /\ Len(Tail(queue)) <= QueueLen
  BY QueueAssumption

\* A frame is queued only while there is room.
LEMMA PutLast ==
  ASSUME queue \in Seq(Frames), Len(queue) < QueueLen, NEW f \in Frames
  PROVE  Append(queue, f) \in Seq(Frames) /\ Len(Append(queue, f)) <= QueueLen
  BY QueueAssumption

\* hex4_guard_report_abort, in either task, keeps the data typed.
LEMMA AbortData ==
  ASSUME DataOK, NEW t \in Tasks, ReportAbort(t)
  PROVE  DataOK'
<1> USE DEF guardVars, stateVars, linkVars, mailboxVars, lampVars
<1>1. CASE Mark(t)
  BY <1>1 DEF Mark, DataOK
<1>2. CASE Latch(t)
  <2>1. s_state' \in States
    BY <1>2, NextStateType DEF Latch, DataOK
  <2> QED BY <1>2, <2>1 DEF Latch, DataOK
<1>3. CASE Stop(t)
  BY <1>3 DEF Stop, DataOK
<1>4. CASE Red(t)
  BY <1>4 DEF Red, DataOK, Colours
<1> QED BY <1>1, <1>2, <1>3, <1>4 DEF ReportAbort

\* So does every step of the guard task: the queue only shrinks, the reply is
\* committed into a well-formed window.
LEMMA GuardData ==
  ASSUME TypeOK, GuardTask
  PROVE  DataOK'
<1> USE DEF TypeOK, guardVars, stateVars, linkVars, mailboxVars, lampVars
<1>0. out' \in Replies
  BY GuardMoves
<1>1. CASE Receive
  <2>1. cur' \in Frames /\ queue' \in Seq(Frames) /\ Len(queue') <= QueueLen
    BY <1>1, TakeHead DEF Receive, DataOK
  <2> QED BY <1>1, <2>1 DEF Receive, DataOK
<1>2. CASE ReceiveTimeout
  BY <1>2 DEF ReceiveTimeout, DataOK
<1>3. CASE Judge
  BY <1>0, <1>3 DEF Judge, DataOK
<1>4. CASE Inject
  <2>1. s_state' \in States
    BY <1>4, NextStateType DEF Inject, DataOK
  <2> QED BY <1>0, <1>4, <2>1 DEF Inject, DataOK
<1>5. CASE Admit
  BY <1>0, <1>5 DEF Admit, DataOK
<1>6. CASE Sense
  BY <1>0, <1>6 DEF Sense, DataOK
<1>7. CASE Arm
  BY <1>7 DEF Arm, DataOK
<1>8. CASE Start
  BY <1>8, FrameFields DEF Start, DataOK
<1>9. CASE Finish
  BY <1>9 DEF Finish, DataOK
<1>10. CASE Settle
  BY <1>0, <1>10 DEF Settle, DataOK
<1>11. CASE Reply
  <2>1. PICK number \in ReplySeqs(cur) : window' = Commit(window, number, cur.crc, out)
    BY <1>11 DEF Reply
  <2>2. window' \in Windows(Crcs, Replies)
    BY <2>1, ReplySeqsType, FrameFields, CommitType DEF DataOK
  <2>3. led' \in Colours
    BY <1>11 DEF Reply, Colours
  <2> QED BY <1>11, <2>2, <2>3 DEF Reply, DataOK
<1>12. CASE LoseReply
  BY <1>12, FrameFields, SpendType, BoundNames DEF LoseReply, DataOK
<1>13. CASE Tick
  BY <1>13 DEF Tick, DataOK
<1>14. CASE LinkLost
  BY <1>14 DEF LinkLost, DataOK
<1>15. CASE Hold
  BY <1>15 DEF Hold, DataOK
<1>16. CASE ReportAbort("guard")
  BY <1>16, AbortData DEF Tasks
<1> QED BY <1>1, <1>2, <1>3, <1>4, <1>5, <1>6, <1>7, <1>8, <1>9, <1>10, <1>11, <1>12, <1>13,
           <1>14, <1>15, <1>16 DEF GuardTask

\* The lamp tasks: whoever repaints stays within its labels and the colours.
LEMMA RefreshData ==
  ASSUME DataOK, NEW t \in {"ulp_evt", "main"}, Refresh(t)
  PROVE  DataOK'
<1> USE DEF guardVars, stateVars, linkVars, mailboxVars, lampVars
<1>1. CASE CheckHold(t)
  BY <1>1 DEF CheckHold, DataOK
<1>2. CASE Sample(t)
  <2>1. ColourOf(quant_state) \in Colours
    BY DEF DataOK, ColourOf, Levels, Measured, Colours
  <2> QED BY <1>2, <2>1 DEF Sample, DataOK
<1>3. CASE Paint(t)
  BY <1>3 DEF Paint, DataOK
<1> QED BY <1>1, <1>2, <1>3 DEF Refresh

\* A step of the ULP event task stays within its labels and moves no other task.
LEMMA EvtMoves ==
  ASSUME PcOK, EvtTask
  PROVE  PcOK' /\ pc'["guard"] = pc["guard"] /\ pc'["main"] = pc["main"]
<1> USE DEF EvtLabels, AbortLabels, PaintLabels
<1>1. CASE Take
  BY <1>1, EvtGoes DEF Take
<1>2. CASE \E passed \in BOOLEAN : SelftestDone(passed)
  BY <1>2, EvtGoes DEF SelftestDone
<1>3. CASE AlarmJump
  BY <1>3, EvtGoes DEF AlarmJump
<1>4. CASE AlarmTc
  BY <1>4, EvtGoes DEF AlarmTc
<1>5. CASE Heartbeat
  BY <1>5, EvtGoes DEF Heartbeat
<1>6. CASE ReportAbort("ulp_evt")
  BY <1>6, EvtGoes DEF ReportAbort, Mark, Latch, Stop, Red
<1>7. CASE Refresh("ulp_evt")
  BY <1>7, EvtGoes DEF Refresh, CheckHold, Sample, Paint, RestLabel
<1> QED BY <1>1, <1>2, <1>3, <1>4, <1>5, <1>6, <1>7 DEF EvtTask

\* The ULP event task writes levels, events and colours only.
LEMMA EvtData ==
  ASSUME DataOK, EvtTask
  PROVE  DataOK'
<1> USE DEF guardVars, stateVars, linkVars, mailboxVars, lampVars
<1>1. CASE Take
  BY <1>1 DEF Take, DataOK
<1>2. CASE \E passed \in BOOLEAN : SelftestDone(passed)
  BY <1>2 DEF SelftestDone, DataOK, Colours
<1>3. CASE AlarmJump
  BY <1>3 DEF AlarmJump, DataOK, Colours
<1>4. CASE AlarmTc
  BY <1>4 DEF AlarmTc, DataOK
<1>5. CASE Heartbeat
  BY <1>5 DEF Heartbeat, DataOK
<1>6. CASE ReportAbort("ulp_evt")
  BY <1>6, AbortData DEF Tasks
<1>7. CASE Refresh("ulp_evt")
  BY <1>7, RefreshData
<1> QED BY <1>1, <1>2, <1>3, <1>4, <1>5, <1>6, <1>7 DEF EvtTask

\* A step of the lamp refresh moves only the main task.
LEMMA MainMoves ==
  ASSUME PcOK, MainTask
  PROVE  PcOK' /\ pc'["guard"] = pc["guard"] /\ pc'["ulp_evt"] = pc["ulp_evt"]
<1> USE DEF MainLabels, PaintLabels
<1>1. CASE Wake
  BY <1>1, MainGoes DEF Wake
<1>2. CASE Refresh("main")
  BY <1>2, MainGoes DEF Refresh, CheckHold, Sample, Paint, RestLabel
<1> QED BY <1>1, <1>2 DEF MainTask

\* The lamp refresh writes colours only.
LEMMA MainData ==
  ASSUME DataOK, MainTask
  PROVE  DataOK'
<1> USE DEF guardVars, stateVars, linkVars, mailboxVars, lampVars
<1>1. CASE Wake
  BY <1>1, SpendType, BoundNames DEF Wake, DataOK
<1>2. CASE Refresh("main")
  BY <1>2, RefreshData
<1> QED BY <1>1, <1>2 DEF MainTask

\* The environment moves no task.
LEMMA EnvironmentPc == Environment => UNCHANGED pc
  BY DEF Environment, Arrive, ForeignFrame, GoQuiet, UlpMeasure, UlpReport

\* Frames that arrive, silence and the coprocessor's reports are well typed.
LEMMA EnvironmentData ==
  ASSUME DataOK, Environment
  PROVE  DataOK'
<1> USE DEF guardVars, stateVars, linkVars, mailboxVars, lampVars
<1>1. ASSUME NEW f \in Frames, Arrive(f) PROVE DataOK'
  <2>1. queue' \in Seq(Frames) /\ Len(queue') <= QueueLen
    BY <1>1, PutLast DEF Arrive, DataOK
  <2>2. spent' \in [Bounds -> Nat]
    BY <1>1, SpendType, BoundNames DEF Arrive, DataOK
  <2> QED BY <1>1, <2>1, <2>2 DEF Arrive, DataOK
<1>2. CASE ForeignFrame
  <2>1. spent' \in [Bounds -> Nat]
    BY <1>2, SpendType, BoundNames DEF ForeignFrame, DataOK
  <2> QED BY <1>2, <2>1 DEF ForeignFrame, DataOK
<1>3. CASE GoQuiet
  BY <1>3 DEF GoQuiet, DataOK
<1>4. ASSUME NEW level \in Measured, UlpMeasure(level) PROVE DataOK'
  <2>1. spent' \in [Bounds -> Nat]
    BY <1>4, SpendType, BoundNames DEF UlpMeasure, DataOK
  <2> QED BY <1>4, <2>1 DEF UlpMeasure, Mailbox!Measure, Mailbox!Stages, Levels, DataOK
<1>5. CASE UlpReport
  <2>1. CASE Mailbox!Selftest
    BY <1>5, <2>1 DEF UlpReport, Mailbox!Selftest, Mailbox!Stages, Statuses, DataOK
  <2>2. CASE Mailbox!Retire
    BY <1>5, <2>2 DEF UlpReport, Mailbox!Retire, Mailbox!Stages, DataOK
  <2>3. CASE Mailbox!Forget
    BY <1>5, <2>3 DEF UlpReport, Mailbox!Forget, Statuses, DataOK
  <2>4. CASE Mailbox!Wake
    BY <1>5, <2>4 DEF UlpReport, Mailbox!Wake, Mailbox!Stages, DataOK
  <2>5. ASSUME NEW event \in Mailbox!Events, Mailbox!Raise(event) PROVE DataOK'
    <3>1. status' \in Statuses /\ stage' \in Mailbox!Stages
      BY <2>5 DEF Mailbox!Raise, Mailbox!Events, Mailbox!Stages, Statuses
    <3> QED BY <1>5, <2>5, <3>1 DEF UlpReport, Mailbox!Raise, DataOK
  <2> QED BY <1>5, <2>1, <2>2, <2>3, <2>4, <2>5 DEF UlpReport
<1> QED BY <1>1, <1>2, <1>3, <1>4, <1>5 DEF Environment

\* TypeOK is inductive.
LEMMA TypeNext == TypeOK /\ [Next]_vars => TypeOK'
<1> SUFFICES ASSUME TypeOK, [Next]_vars PROVE TypeOK'
  OBVIOUS
<1> USE DEF TypeOK
<1>1. CASE GuardTask
  BY <1>1, GuardMoves, GuardData
<1>2. CASE EvtTask
  BY <1>2, EvtMoves, EvtData
<1>3. CASE MainTask
  BY <1>3, MainMoves, MainData
<1>4. CASE Environment
  <2>1. PcOK'
    BY <1>4, EnvironmentPc DEF PcOK
  <2> QED BY <1>4, <2>1, EnvironmentData
<1>5. CASE UNCHANGED vars
  BY <1>5 DEF PcOK, DataOK, vars, guardVars, stateVars, linkVars, mailboxVars, lampVars
<1> QED BY <1>1, <1>2, <1>3, <1>4, <1>5 DEF Next

\* Every task stays within its labels, the queue within its length, the replay
\* record within its ring.
THEOREM TypeCorrect == Spec => []TypeOK
  BY TypeInit, TypeNext, PTL DEF Spec

-----------------------------------------------------------------------------
(* The self-test report is handled once.                                      *)

\* Only the coprocessor's start-up and the handling of its report concern the
\* self-test gate.
LEMMA SelftestFrame ==
  ASSUME SelftestInv, UNCHANGED <<status, notified, ulp_mode, stage, evt, s_selftest>>,
         pc'["ulp_evt"] = pc["ulp_evt"]
  PROVE  SelftestInv'
  BY DEF SelftestInv, ReportComing, ReportPending, ReportHandled, At

\* The guard task never touches the self-test result nor its report.
LEMMA SelftestGuard ==
  ASSUME TypeOK, SelftestInv, GuardTask
  PROVE  SelftestInv' /\ s_selftest' = s_selftest
<1>1. UNCHANGED <<status, notified, ulp_mode, stage, evt, s_selftest>>
  BY DEF GuardTask, Receive, ReceiveTimeout, Judge, Inject, Admit, Sense, Arm, Start, Finish,
         Settle, Reply, LoseReply, Tick, LinkLost, Hold, ReportAbort, Mark, Latch, Stop, Red,
         mailboxVars, lampVars
<1> QED BY <1>1, GuardMoves, SelftestFrame

\* The ULP event task takes the report at most once, and never takes a pass back.
LEMMA SelftestEvt ==
  ASSUME TypeOK, SelftestInv, EvtTask
  PROVE  SelftestInv' /\ (s_selftest = "PASS" => s_selftest' = "PASS")
<1> USE DEF SelftestInv, ReportComing, ReportPending, ReportHandled, At, mailboxVars, lampVars
<1>0. PcOK
  BY DEF TypeOK
<1>1. CASE Take
  <2>1. pc'["ulp_evt"] = IF status = "IDLE" THEN "take" ELSE "dispatch"
    BY <1>0, <1>1, EvtGoes DEF Take, EvtLabels
  <2> QED BY <1>1, <2>1 DEF Take
<1>2. ASSUME NEW passed \in BOOLEAN, SelftestDone(passed)
      PROVE  SelftestInv' /\ (s_selftest = "PASS" => s_selftest' = "PASS")
  <2>1. pc'["ulp_evt"] = "paint"
    BY <1>0, <1>2, EvtGoes DEF SelftestDone, EvtLabels, PaintLabels
  <2> QED BY <1>2, <2>1 DEF SelftestDone
<1>3. CASE AlarmJump \/ AlarmTc \/ Heartbeat
  <2>1. pc'["ulp_evt"] # "dispatch"
    BY <1>0, <1>3, EvtGoes DEF AlarmJump, AlarmTc, Heartbeat, EvtLabels, AbortLabels, PaintLabels
  <2> QED BY <1>3, <2>1 DEF AlarmJump, AlarmTc, Heartbeat
<1>4. CASE ReportAbort("ulp_evt")
  <2>1. pc'["ulp_evt"] # "dispatch"
    BY <1>0, <1>4, EvtGoes DEF ReportAbort, Mark, Latch, Stop, Red, EvtLabels, AbortLabels, PaintLabels
  <2> QED BY <1>4, <2>1 DEF ReportAbort, Mark, Latch, Stop, Red
<1>5. CASE Refresh("ulp_evt")
  <2>1. pc'["ulp_evt"] # "dispatch"
    BY <1>0, <1>5, EvtGoes
       DEF Refresh, CheckHold, Sample, Paint, RestLabel, EvtLabels, PaintLabels
  <2> QED BY <1>5, <2>1 DEF Refresh, CheckHold, Sample, Paint
<1> QED BY <1>1, <1>2, <1>3, <1>4, <1>5 DEF EvtTask

\* The main task does not concern the self-test.
LEMMA SelftestMain ==
  ASSUME TypeOK, SelftestInv, MainTask
  PROVE  SelftestInv' /\ s_selftest' = s_selftest
<1>1. UNCHANGED <<status, notified, ulp_mode, stage, evt, s_selftest>>
  BY DEF MainTask, Wake, Refresh, CheckHold, Sample, Paint, mailboxVars, lampVars
<1> QED BY <1>1, MainMoves, SelftestFrame DEF TypeOK

\* The coprocessor reports its self-test once, as it is started in that mode once.
LEMMA SelftestEnvironment ==
  ASSUME SelftestInv, Environment
  PROVE  SelftestInv' /\ s_selftest' = s_selftest
<1> USE DEF SelftestInv, ReportComing, ReportPending, ReportHandled, At, mailboxVars, lampVars
<1>1. ASSUME NEW level \in Measured, UlpMeasure(level)
      PROVE  SelftestInv' /\ s_selftest' = s_selftest
  BY <1>1 DEF UlpMeasure, Mailbox!Measure
<1>2. CASE UlpReport
  <2>1. UNCHANGED <<pc, evt, s_selftest>>
    BY <1>2 DEF UlpReport
  <2>2. CASE Mailbox!Selftest
    BY <2>1, <2>2 DEF Mailbox!Selftest
  <2>3. CASE Mailbox!Retire
    BY <2>1, <2>3 DEF Mailbox!Retire
  <2>4. CASE Mailbox!Forget
    BY <2>1, <2>4 DEF Mailbox!Forget
  <2>5. CASE Mailbox!Wake
    BY <2>1, <2>5 DEF Mailbox!Wake
  <2>6. ASSUME NEW event \in Mailbox!Events, Mailbox!Raise(event)
        PROVE  SelftestInv' /\ s_selftest' = s_selftest
    BY <2>1, <2>6 DEF Mailbox!Raise, Mailbox!Events
  <2> QED BY <1>2, <2>2, <2>3, <2>4, <2>5, <2>6 DEF UlpReport
<1>3. CASE (\E f \in Frames : Arrive(f)) \/ ForeignFrame \/ GoQuiet
  BY <1>3 DEF Arrive, ForeignFrame, GoQuiet
<1> QED BY <1>1, <1>2, <1>3 DEF Environment

-----------------------------------------------------------------------------
(* What the guard task has established at each of its labels.                 *)

ExecInv == JudgedInv /\ MotorInv /\ PendingInv /\ AbortedIffHit

\* A frame that no layer refuses passed every check before the state machine.
LEMMA NotRefused ==
  ASSUME NEW f, RefusalLayer(f) = "NONE"
  PROVE  /\ Licensed(f)
         /\ f.action \in Actions \cup CommandEvents
         /\ f.action # "ping" => s_selftest = "PASS"
  BY DEF RefusalLayer, Licensed, SelftestGate, Authentic

\* An event command (inject) is never executed as an action, nor the reverse.
LEMMA EventsAreNoActions == Actions \cap CommandEvents = {}
  BY DEF Actions, CommandEvents

\* The steps of the guard task.
LEMMA ExecGuard ==
  ASSUME TypeOK, SelftestInv, ExecInv, GuardTask
  PROVE  ExecInv'
<1> USE DEF ExecInv, JudgedInv, MotorInv, PendingInv, AbortedIffHit, Armed, At, Licensed,
            guardVars, stateVars
<1>0. PcOK
  BY DEF TypeOK
<1>1. CASE Receive \/ ReceiveTimeout
  <2>1. pc'["guard"] \in {"judge", "tick"}
    BY <1>0, <1>1, GuardGoes DEF Receive, ReceiveTimeout, GuardLabels
  <2> QED BY <1>1, <2>1 DEF Receive, ReceiveTimeout
<1>2. CASE Judge
  <2>1. CASE Goto("guard", "tick") /\ UNCHANGED out
    BY <1>0, <1>2, <2>1, GuardGoes DEF Judge, GuardLabels
  <2>2. CASE Answer("DENY", RefusalLayer(cur))
    <3>1. pc'["guard"] = "reply" /\ out'.verdict = "DENY"
      BY <1>0, <2>2, Answers, RefusalLayerType
    <3> QED BY <1>2, <3>1 DEF Judge
  <2>3. CASE RefusalLayer(cur) = "NONE" /\ cur.action \in CommandEvents /\ Goto("guard", "inject")
    <3>1. pc'["guard"] = "inject"
      BY <1>0, <2>3, GuardGoes DEF GuardLabels
    <3> QED BY <1>2, <2>3, <3>1, NotRefused DEF Judge
  <2>4. CASE RefusalLayer(cur) = "NONE" /\ cur.action \in Actions /\ Goto("guard", "admit")
    <3>1. pc'["guard"] = "admit"
      BY <1>0, <2>4, GuardGoes DEF GuardLabels
    <3> QED BY <1>2, <2>4, <3>1, NotRefused DEF Judge
  <2> QED BY <1>2, <2>1, <2>2, <2>3, <2>4 DEF Judge
<1>3. CASE Inject
  <2>1. pc'["guard"] = "reply"
    BY <1>0, <1>3, Answers, LayerNames DEF Inject
  <2> QED BY <1>3, <2>1, EventsAreNoActions DEF Inject
<1>4. CASE Admit
  <2>1. CASE cur.policy /\ Goto("guard", "sense")
    <3>1. pc'["guard"] = "sense"
      BY <1>0, <2>1, GuardGoes DEF GuardLabels
    <3> QED BY <1>4, <2>1, <3>1 DEF Admit
  <2>2. CASE Answer("DENY", "L3")
    <3>1. pc'["guard"] = "reply" /\ out'.verdict = "DENY"
      BY <1>0, <2>2, Answers, LayerNames
    <3> QED BY <1>4, <3>1 DEF Admit
  <2> QED BY <1>4, <2>1, <2>2 DEF Admit
<1>5. CASE Sense
  <2>1. CASE Goto("guard", "arm")
    <3>1. pc'["guard"] = "arm"
      BY <1>0, <2>1, GuardGoes DEF GuardLabels
    <3> QED BY <1>5, <3>1 DEF Sense
  <2>2. CASE Answer("DENY", "L4")
    <3>1. pc'["guard"] = "reply" /\ out'.verdict = "DENY"
      BY <1>0, <2>2, Answers, LayerNames
    <3> QED BY <1>5, <3>1 DEF Sense
  <2> QED BY <1>5, <2>1, <2>2 DEF Sense
<1>6. CASE Arm
  <2>1. pc'["guard"] = IF cur.action \in HasCallback THEN "start" ELSE "settle"
    BY <1>0, <1>6, GuardGoes DEF Arm, GuardLabels
  <2> QED BY <1>6, <2>1 DEF Arm
<1>7. CASE Start
  <2>1. pc'["guard"] = "running"
    BY <1>0, <1>7, GuardGoes DEF Start, GuardLabels
  <2> QED BY <1>7, <2>1 DEF Start
<1>8. CASE Finish
  <2>1. pc'["guard"] = "settle"
    BY <1>0, <1>8, GuardGoes DEF Finish, GuardLabels
  <2> QED BY <1>8, <2>1 DEF Finish
<1>9. CASE Settle
  <2>1. CASE s_abort_pending /\ Answer("ABORTED", "L4")
    <3>1. pc'["guard"] = "reply" /\ out'.verdict = "ABORTED"
      BY <1>0, <2>1, Answers, LayerNames
    <3> QED BY <1>9, <2>1, <3>1 DEF Settle
  <2>2. CASE ~s_abort_pending /\ Answer("ALLOW", "NONE")
    <3>1. pc'["guard"] = "reply" /\ out'.verdict = "ALLOW"
      BY <1>0, <2>2, Answers, LayerNames
    <3> QED BY <1>9, <2>2, <3>1 DEF Settle
  <2> QED BY <1>9, <2>1, <2>2 DEF Settle
<1>10. CASE Reply \/ LoseReply
  <2>1. pc'["guard"] = "tick"
    BY <1>0, <1>10, GuardGoes DEF Reply, LoseReply, GuardLabels
  <2> QED BY <1>10, <2>1 DEF Reply, LoseReply
<1>11. CASE Tick \/ LinkLost \/ Hold
  <2>1. pc'["guard"] \in {"lost", "wait", "mark"}
    BY <1>0, <1>11, GuardGoes DEF Tick, LinkLost, Hold, GuardLabels, AbortLabels
  <2> QED BY <1>11, <2>1 DEF Tick, LinkLost, Hold
<1>12. CASE ReportAbort("guard")
  <2>1. pc'["guard"] \in {"latch", "stop", "red", "hold"}
    BY <1>0, <1>12, GuardGoes DEF ReportAbort, Mark, Latch, Stop, Red, GuardLabels, AbortLabels
  <2> QED BY <1>12, <2>1 DEF ReportAbort, Mark, Latch, Stop, Red
<1> QED BY <1>1, <1>2, <1>3, <1>4, <1>5, <1>6, <1>7, <1>8, <1>9, <1>10, <1>11, <1>12
        DEF GuardTask

\* The steps of everyone else: an abort may be marked, the machine stopped, and
\* the self-test gate opened.
LEMMA ExecOthers ==
  ASSUME ExecInv, pc'["guard"] = pc["guard"], UNCHANGED <<cur, out>>,
         s_selftest = "PASS" => s_selftest' = "PASS",
         motor' = motor \/ motor' = FALSE,
         \/ UNCHANGED <<s_abort_pending, hit>>
         \/ s_abort_pending' = TRUE /\ hit' = (hit \/ Armed)
  PROVE  ExecInv'
<1> USE DEF ExecInv, At
<1>1. JudgedInv'
  BY DEF JudgedInv, Licensed
<1>2. MotorInv'
  BY DEF MotorInv
<1>3. PendingInv'
  BY DEF PendingInv, Armed
<1>4. AbortedIffHit'
  <2>1. pc["guard"] = "reply" => (hit' <=> hit)
    BY DEF Armed
  <2> QED BY <2>1 DEF AbortedIffHit
<1> QED BY <1>1, <1>2, <1>3, <1>4

\* The ULP event task may mark an abort or stop the machine, nothing else.
LEMMA ExecEvt ==
  ASSUME TypeOK, SelftestInv, ExecInv, EvtTask
  PROVE  ExecInv'
<1>1. /\ UNCHANGED <<cur, out>>
      /\ motor' = motor \/ motor' = FALSE
      /\ \/ UNCHANGED <<s_abort_pending, hit>>
         \/ s_abort_pending' = TRUE /\ hit' = (hit \/ Armed)
  BY DEF EvtTask, Take, SelftestDone, AlarmJump, AlarmTc, Heartbeat, ReportAbort, Mark, Latch,
         Stop, Red, Refresh, CheckHold, Sample, Paint, guardVars, stateVars
<1> QED BY <1>1, EvtMoves, SelftestEvt, ExecOthers DEF TypeOK

\* The lamp refresh concerns no execution.
LEMMA ExecMain ==
  ASSUME TypeOK, SelftestInv, ExecInv, MainTask
  PROVE  ExecInv'
<1>1. UNCHANGED <<cur, out, motor, s_abort_pending, hit>>
  BY DEF MainTask, Wake, Refresh, CheckHold, Sample, Paint, guardVars, stateVars
<1> QED BY <1>1, MainMoves, SelftestMain, ExecOthers DEF TypeOK

\* Neither do arriving frames, silence and the coprocessor.
LEMMA ExecEnvironment ==
  ASSUME SelftestInv, ExecInv, Environment
  PROVE  ExecInv'
<1>1. UNCHANGED <<cur, out, motor, s_abort_pending, hit>>
  BY DEF Environment, Arrive, ForeignFrame, GoQuiet, UlpMeasure, UlpReport, guardVars, stateVars
<1> QED BY <1>1, EnvironmentPc, SelftestEnvironment, ExecOthers

\* The inductive invariant of the tasks.
IInv == TypeOK /\ SelftestInv /\ ExecInv

\* The inductive invariant holds when the tasks start.
LEMMA InvInit == Init => IInv
<1> SUFFICES ASSUME Init PROVE IInv
  OBVIOUS
<1>1. pc["guard"] = "wait" /\ pc["ulp_evt"] = "take"
  BY DEF Init, Tasks
<1>2. SelftestInv
  BY <1>1 DEF Init, Mailbox!Init, SelftestInv, ReportComing, ReportPending, ReportHandled, At
<1>3. ExecInv
  BY <1>1 DEF Init, ExecInv, JudgedInv, MotorInv, PendingInv, AbortedIffHit, Armed, At
<1> QED BY <1>2, <1>3, TypeInit DEF IInv

\* Every step of every task and of the environment preserves it.
LEMMA InvNext == IInv /\ [Next]_vars => IInv'
<1> SUFFICES ASSUME IInv, [Next]_vars PROVE IInv'
  OBVIOUS
<1> USE DEF IInv
<1>1. CASE GuardTask
  BY <1>1, TypeNext, SelftestGuard, ExecGuard DEF Next
<1>2. CASE EvtTask
  BY <1>2, TypeNext, SelftestEvt, ExecEvt DEF Next
<1>3. CASE MainTask
  BY <1>3, TypeNext, SelftestMain, ExecMain DEF Next
<1>4. CASE Environment
  BY <1>4, TypeNext, SelftestEnvironment, ExecEnvironment DEF Next
<1>5. CASE UNCHANGED vars
  BY <1>5, TypeNext, ExecOthers, SelftestFrame
     DEF vars, guardVars, stateVars, mailboxVars, lampVars
<1> QED BY <1>1, <1>2, <1>3, <1>4, <1>5 DEF Next

\* The inductive invariant: at each label of handle_cmd_frame, what the guard task
\* has established about the frame, the machine and the abort flag.
THEOREM Invariant == Spec => []IInv
  BY InvInit, InvNext, PTL DEF Spec

\* A callback runs only for a frame that every layer passed, with the
\* coprocessor's self-test passed.
THEOREM LicensedExecution == Spec => []CallbackIsLicensed
<1>1. IInv => CallbackIsLicensed
  BY DEF IInv, ExecInv, JudgedInv, Licensed, HasCallback, CallbackIsLicensed, At
<1> QED BY <1>1, Invariant, PTL

\* The verdict ABORTED is given exactly to commands that an abort hit.
THEOREM AbortsAreReported == Spec => []AbortedIffHit
<1>1. IInv => AbortedIffHit
  BY DEF IInv, ExecInv
<1> QED BY <1>1, Invariant, PTL

-----------------------------------------------------------------------------
(* The emergency stop.                                                        *)

\* Only two steps write s_state: an injected command and an abort.
LEMMA StateWriters ==
  ASSUME [Next]_vars, s_state' # s_state
  PROVE  Inject \/ Latch("guard") \/ Latch("ulp_evt")
<1> USE DEF stateVars
<1>1. CASE GuardTask
  BY <1>1 DEF GuardTask, Receive, ReceiveTimeout, Judge, Admit, Sense, Arm, Start, Finish,
     Settle, Reply, LoseReply, Tick, LinkLost, Hold, ReportAbort, Mark, Stop, Red
<1>2. CASE EvtTask
  BY <1>2 DEF EvtTask, Take, SelftestDone, AlarmJump, AlarmTc, Heartbeat, ReportAbort, Mark,
     Stop, Red, Refresh, CheckHold, Sample, Paint
<1>3. CASE MainTask
  BY <1>3 DEF MainTask, Wake, Refresh, CheckHold, Sample, Paint
<1>4. CASE Environment
  BY <1>4 DEF Environment, Arrive, ForeignFrame, GoQuiet, UlpMeasure, UlpReport
<1>5. CASE UNCHANGED vars
  BY <1>5 DEF vars
<1> QED BY <1>1, <1>2, <1>3, <1>4, <1>5 DEF Next

\* An abort always latches, in whatever state it finds the machine.
LEMMA LatchSets ==
  ASSUME TypeOK, NEW t, Latch(t)
  PROVE  s_state' = "ESTOP_LATCH"
  BY StopAlwaysLatches DEF Latch, TypeOK, DataOK

\* The latch is left only by an operator_ack that passed authentication, in the
\* guard task, whatever aborts and mode switches race with it.
THEOREM LatchHolds == Spec => LatchReleasedOnlyByAck
<1>1. ASSUME IInv, [Next]_vars, s_state = "ESTOP_LATCH", s_state' # "ESTOP_LATCH"
      PROVE  /\ At("guard", "inject")
             /\ cur.action = "operator_ack" /\ cur.auth = "good" /\ cur.echo
  <2>1. Inject
    BY <1>1, StateWriters, LatchSets DEF IInv
  <2>2. At("guard", "inject") /\ Licensed(cur)
    BY <1>1, <2>1 DEF Inject, IInv, ExecInv, JudgedInv
  <2>3. cur.action = "operator_ack"
    BY <1>1, <2>1, OnlyAckLeavesLatch DEF Inject
  <2> QED BY <2>2, <2>3 DEF Licensed
<1> QED BY <1>1, Invariant, PTL DEF Spec, LatchReleasedOnlyByAck

\* What the contract of the emergency stop sees of the state machine.
Latched == s_state = "ESTOP_LATCH"

\* A step that neither admits nor starts nor withdraws a motion is a trip, a
\* halt, or invisible.
LEMMA ContractFrame ==
  ASSUME UNCHANGED cur,
         pc["guard"] \in {"sense", "arm", "start"} <=> pc'["guard"] \in {"sense", "arm", "start"},
         \/ s_state' = s_state /\ motor' = motor
         \/ s_state' = s_state /\ motor' = FALSE
         \/ s_state' = "ESTOP_LATCH" /\ motor' = motor
  PROVE  [Contract!Next]_(Contract!vars)
  BY DEF Contract!Next, Contract!vars, Contract!Trip, Contract!Halt, HasCallback

\* Every step of the guard task is a step of the contract, or invisible to it.
LEMMA ContractGuard ==
  ASSUME IInv, GuardTask
  PROVE  [Contract!Next]_(Contract!vars)
<1> USE DEF IInv, At, guardVars, stateVars
<1>0. PcOK
  BY DEF TypeOK
<1>1. CASE Receive
  <2>1. pc["guard"] = "wait" /\ pc'["guard"] = "judge"
    BY <1>0, <1>1, GuardGoes DEF Receive, GuardLabels
  <2> QED BY <1>1, <2>1 DEF Receive, Contract!vars
<1>2. CASE Inject
  <2>1. pc["guard"] = "inject" /\ pc'["guard"] = "reply"
    BY <1>0, <1>2, Answers, LayerNames DEF Inject
  <2>2. ~motor
    BY <2>1 DEF ExecInv, MotorInv
  <2>3. motor' = motor /\ UNCHANGED cur
    BY <1>2 DEF Inject
  <2>4. CASE Latched <=> Latched'
    BY <2>1, <2>3, <2>4 DEF Latched, Contract!vars
  <2>5. CASE Latched /\ ~Latched'
    BY <2>1, <2>2, <2>3, <2>5 DEF Latched, Contract!Next, Contract!Acknowledge
  <2>6. CASE ~Latched /\ Latched'
    BY <2>1, <2>3, <2>6 DEF Latched, Contract!Next, Contract!Trip
  <2> QED BY <2>4, <2>5, <2>6
<1>3. CASE Admit
  <2>1. pc["guard"] = "admit" /\ UNCHANGED <<cur, s_state, motor>>
    BY <1>3 DEF Admit
  <2>2. ~motor /\ cur.action \in Actions
    BY <2>1 DEF ExecInv, MotorInv, JudgedInv
  <2>3. CASE Allows(s_state, cur.action) /\ Goto("guard", "sense")
    <3>1. pc'["guard"] = "sense"
      BY <1>0, <2>3, GuardGoes DEF GuardLabels
    <3>2. CASE cur.action \in HasCallback
      <4>1. ~Latched
        BY <2>3, <3>2, LatchDeniesMotion DEF Latched, HasCallback
      <4> QED BY <2>1, <2>2, <3>1, <3>2, <4>1 DEF Latched, Contract!Next, Contract!Grant
    <3>3. CASE cur.action \notin HasCallback
      BY <2>1, <3>1, <3>3 DEF Contract!vars
    <3> QED BY <3>2, <3>3
  <2>4. CASE Answer("DENY", "L3")
    <3>1. pc'["guard"] = "reply"
      BY <1>0, <2>4, Answers, LayerNames
    <3> QED BY <2>1, <3>1 DEF Contract!vars
  <2> QED BY <1>3, <2>3, <2>4 DEF Admit
<1>4. CASE Sense
  <2>1. pc["guard"] = "sense" /\ UNCHANGED <<cur, s_state, motor>>
    BY <1>4 DEF Sense
  <2>2. CASE Goto("guard", "arm")
    <3>1. pc'["guard"] = "arm"
      BY <1>0, <2>2, GuardGoes DEF GuardLabels
    <3> QED BY <2>1, <3>1, ContractFrame
  <2>3. CASE cur.action \in HasCallback /\ Answer("DENY", "L4")
    <3>1. pc'["guard"] = "reply"
      BY <1>0, <2>3, Answers, LayerNames
    <3> QED BY <2>1, <2>3, <3>1 DEF Contract!Next, Contract!Withdraw
  <2> QED BY <1>4, <2>2, <2>3 DEF Sense
<1>5. CASE Arm
  <2>1. pc["guard"] = "arm" /\ UNCHANGED <<cur, s_state, motor>>
    BY <1>5 DEF Arm
  <2>2. pc'["guard"] = IF cur.action \in HasCallback THEN "start" ELSE "settle"
    BY <1>0, <1>5, GuardGoes DEF Arm, GuardLabels
  <2> QED BY <2>1, <2>2 DEF Contract!vars
<1>6. CASE Start
  <2>1. pc["guard"] = "start" /\ UNCHANGED <<cur, s_state>> /\ motor' = (cur.action = "motor_run")
    BY <1>6 DEF Start
  <2>2. pc'["guard"] = "running"
    BY <1>0, <1>6, GuardGoes DEF Start, GuardLabels
  <2>3. ~motor /\ cur.action \in HasCallback
    BY <2>1 DEF ExecInv, MotorInv, JudgedInv
  <2>4. CASE cur.action = "motor_run"
    BY <2>1, <2>2, <2>3, <2>4 DEF Contract!Next, Contract!Start
  <2>5. CASE cur.action # "motor_run"
    <3>1. motor' = FALSE /\ motor = FALSE
      BY <2>1, <2>3, <2>5 DEF TypeOK, DataOK
    <3> QED BY <2>1, <2>2, <2>3, <3>1 DEF Contract!Next, Contract!Withdraw
  <2> QED BY <2>4, <2>5
<1>7. CASE ReceiveTimeout \/ Judge \/ Finish \/ Settle \/ Reply \/ LoseReply \/ Tick \/ LinkLost
             \/ Hold
  <2>1. /\ pc["guard"] \in {"wait", "judge", "running", "settle", "reply", "tick", "lost", "hold"}
        /\ UNCHANGED <<cur, s_state>> /\ (motor' = motor \/ motor' = FALSE)
    BY <1>7 DEF ReceiveTimeout, Judge, Finish, Settle, Reply, LoseReply, Tick, LinkLost, Hold
  <2>2. pc'["guard"] \notin {"sense", "arm", "start"}
    <3>1. CASE Judge
      <4>1. CASE Answer("DENY", RefusalLayer(cur))
        BY <1>0, <4>1, Answers, RefusalLayerType
      <4>2. CASE Goto("guard", "tick") \/ Goto("guard", "inject") \/ Goto("guard", "admit")
        BY <1>0, <4>2, GuardGoes DEF GuardLabels
      <4> QED BY <3>1, <4>1, <4>2 DEF Judge
    <3>2. CASE Settle
      BY <1>0, <3>2, Answers, LayerNames DEF Settle
    <3>3. CASE ReceiveTimeout \/ Finish \/ Reply \/ LoseReply \/ Tick \/ LinkLost \/ Hold
      BY <1>0, <3>3, GuardGoes
         DEF ReceiveTimeout, Finish, Reply, LoseReply, Tick, LinkLost, Hold, GuardLabels, AbortLabels
    <3> QED BY <1>7, <3>1, <3>2, <3>3
  <2> QED BY <2>1, <2>2, ContractFrame
<1>8. CASE ReportAbort("guard")
  <2>1. /\ pc["guard"] \in AbortLabels /\ UNCHANGED cur
        /\ \/ s_state' = s_state /\ motor' = motor
           \/ s_state' = s_state /\ motor' = FALSE
           \/ s_state' = "ESTOP_LATCH" /\ motor' = motor
    BY <1>8, LatchSets DEF ReportAbort, Mark, Latch, Stop, Red, AbortLabels
  <2>2. pc'["guard"] \in {"latch", "stop", "red", "hold"}
    BY <1>0, <1>8, GuardGoes DEF ReportAbort, Mark, Latch, Stop, Red, GuardLabels, AbortLabels
  <2> QED BY <2>1, <2>2, ContractFrame DEF AbortLabels
<1> QED BY <1>1, <1>2, <1>3, <1>4, <1>5, <1>6, <1>7, <1>8 DEF GuardTask

\* The ULP event task can only trip the latch or halt a motion.
LEMMA ContractEvt ==
  ASSUME IInv, EvtTask
  PROVE  [Contract!Next]_(Contract!vars)
<1>1. pc'["guard"] = pc["guard"]
  BY EvtMoves DEF IInv, TypeOK
<1>2. CASE ReportAbort("ulp_evt")
  <2>1. /\ UNCHANGED cur
        /\ \/ s_state' = s_state /\ motor' = motor
           \/ s_state' = s_state /\ motor' = FALSE
           \/ s_state' = "ESTOP_LATCH" /\ motor' = motor
    BY <1>2, LatchSets DEF IInv, ReportAbort, Mark, Latch, Stop, Red, guardVars, stateVars
  <2> QED BY <1>1, <2>1, ContractFrame
<1>3. CASE ~ReportAbort("ulp_evt")
  <2>1. UNCHANGED <<cur, s_state, motor>>
    BY <1>3 DEF EvtTask, Take, SelftestDone, AlarmJump, AlarmTc, Heartbeat, Refresh, CheckHold,
       Sample, Paint, guardVars, stateVars
  <2> QED BY <1>1, <2>1, ContractFrame
<1> QED BY <1>2, <1>3

\* The contract does not see the lamp refresh, the environment and stuttering.
LEMMA ContractOthers ==
  ASSUME IInv, MainTask \/ Environment \/ UNCHANGED vars
  PROVE  [Contract!Next]_(Contract!vars)
<1>1. pc'["guard"] = pc["guard"]
  BY MainMoves, EnvironmentPc DEF IInv, TypeOK, vars
<1>2. UNCHANGED <<cur, s_state, motor>>
  BY DEF MainTask, Wake, Refresh, CheckHold, Sample, Paint, Environment, Arrive, ForeignFrame,
     GoQuiet, UlpMeasure, UlpReport, vars, guardVars, stateVars
<1> QED BY <1>1, <1>2, ContractFrame

\* The tasks implement the contract of the emergency stop: motions are granted
\* outside the latch only and one at a time, and the latch is acknowledged only
\* when neither a grant nor a motion is outstanding.
THEOREM StopContract == Spec => EstopHonoured
<1>1. Init => Contract!Init
  BY DEF Init, Contract!Init, g_gen_state_initial, Tasks
<1>2. IInv /\ [Next]_vars => [Contract!Next]_(Contract!vars)
  BY ContractGuard, ContractEvt, ContractOthers DEF Next
<1> QED BY <1>1, <1>2, Invariant, PTL DEF Spec, EstopHonoured, Contract!Spec

-----------------------------------------------------------------------------
(* The mailbox.                                                              *)

\* Whatever else happens leaves the mailbox alone.
LEMMA MailboxAlone ==
  ASSUME \/ GuardTask \/ MainTask \/ UNCHANGED vars
         \/ AlarmJump \/ AlarmTc \/ Heartbeat \/ ReportAbort("ulp_evt") \/ Refresh("ulp_evt")
         \/ (\E f \in Frames : Arrive(f)) \/ ForeignFrame \/ GoQuiet
  PROVE  UNCHANGED mailboxVars
  BY DEF GuardTask, Receive, ReceiveTimeout, Judge, Inject, Admit, Sense, Arm, Start, Finish,
         Settle, Reply, LoseReply, Tick, LinkLost, Hold, ReportAbort, Mark, Latch, Stop, Red,
         MainTask, Wake, Refresh, CheckHold, Sample, Paint, AlarmJump, AlarmTc, Heartbeat,
         Arrive, ForeignFrame, GoQuiet, vars, mailboxVars

\* A step of the guard application or of its coprocessor is one the contract of the
\* mailbox allows, or leaves the mailbox alone.
LEMMA MailboxStep ==
  ASSUME IInv, [Next]_vars
  PROVE  [Mailbox!Next]_(Mailbox!vars)
<1>1. ASSUME UNCHANGED mailboxVars PROVE [Mailbox!Next]_(Mailbox!vars)
  BY <1>1 DEF mailboxVars, Mailbox!vars
<1>2. CASE Take
  BY <1>2 DEF Take, Mailbox!Next, Mailbox!Take
<1>3. ASSUME NEW passed \in BOOLEAN, SelftestDone(passed)
      PROVE  [Mailbox!Next]_(Mailbox!vars)
  <2>1. ulp_mode # "SELFTEST"
    BY <1>3 DEF IInv, SelftestInv, ReportHandled, SelftestDone
  <2> QED BY <1>3, <2>1 DEF SelftestDone, Mailbox!Next, Mailbox!Watch, Mailbox!vars
<1>4. ASSUME NEW level \in Measured, UlpMeasure(level) PROVE Mailbox!Next
  BY <1>4 DEF UlpMeasure, Mailbox!Next, Mailbox!Coprocessor
<1>5. CASE UlpReport
  BY <1>5 DEF UlpReport, Mailbox!Next, Mailbox!Coprocessor
<1> QED BY <1>1, <1>2, <1>3, <1>4, <1>5, MailboxAlone DEF Next, EvtTask, Environment

\* The guard application keeps the contract of the mailbox (UlpMailbox): it takes the
\* wake-ups it was given, and starts the watch only once the coprocessor has taken
\* its self-test command away.  The coprocessor keeps it too: CoprocessorKeepsMailbox.
THEOREM GuardKeepsMailbox == Spec => Mailbox!Spec
<1>1. Init => Mailbox!Init
  BY DEF Init
<1>2. IInv /\ [Next]_vars => [Mailbox!Next]_(Mailbox!vars)
  BY MailboxStep
<1> QED BY <1>1, <1>2, Invariant, PTL DEF Spec, Mailbox!Spec

-----------------------------------------------------------------------------
(* How often a callback runs for a number.                                   *)

\* The numbers a commit may be made under.
Numbers == {f.seq : f \in Frames} \cup {0}

\* They lie within half the sequence space from base on.
NumbersNear(base) == \A s \in Numbers : SeqDiff(s, base) < Half

\* The callback has been called for cur and the reply is not out yet.
Ran ==
  /\ pc["guard"] \in {"running", "settle", "reply"}
  /\ cur.action \in HasCallback
  /\ At("guard", "reply") => out.verdict # "DENY"

\* cur has not been executed, and a refusal of it will say so.
Unrun ==
  \/ pc["guard"] \in {"inject", "admit", "sense", "arm", "start"}
  \/ /\ At("guard", "reply") /\ cur.form = "complete"
     /\ out.verdict = "DENY" /\ out.layer # "REPLAY"

\* The number has been counted on: it is refused by now, or is the one being executed.
Known(s) == ~IsFresh(window, s) \/ (Ran /\ s = cur.seq)

\* Numbers are only counted while they are fresh; a number that is not fresh
\* any more, or is being executed, has one run that no lost reply excuses.
RerunInv ==
  /\ window.last_seq \in Numbers
  /\ Unrun => IsFresh(window, cur.seq)
  /\ Ran => cur.form = "complete"
  /\ \A s \in Seqs : s \in Numbers \/ runs[s] = 0
  /\ \A s \in Numbers : runs[s] <= lost[s] + (IF Known(s) THEN 1 ELSE 0)

\* Numbers of frames are numbers of the sequence space.
LEMMA NumbersType == Numbers \subseteq Seqs
  BY FrameFields, HalfAssumption DEF Numbers, Seqs

\* Whatever number a reply is committed under is one of them.
LEMMA ReplyNumbers ==
  ASSUME NEW f \in Frames
  PROVE  ReplySeqs(f) \subseteq Numbers
<1>1. f.form \in {"garbled", "unnumbered", "incomplete", "complete"}
  BY FramesAssumption DEF FrameType
<1> QED BY <1>1 DEF ReplySeqs, Numbers

\* Within half the space fresh means ahead: the window moves one way only.
LEMMA FreshMeansAhead ==
  ASSUME NEW base \in Seqs, NEW a \in Seqs, NEW b \in Seqs,
         SeqDiff(a, base) < Half, SeqDiff(b, base) < Half
  PROVE  SeqDiff(a, b) \in 1 .. (Half - 1) <=> SeqDiff(a, base) > SeqDiff(b, base)
  BY HalfAssumption DEF Seqs, SeqDiff

\* No commit makes a number fresh again, and its own number is not fresh after it.
LEMMA CommitForgetsNothing ==
  ASSUME NEW base \in Seqs, NumbersNear(base), NEW w \in Windows(Crcs, Replies),
         w.last_seq \in Numbers, NEW n \in Numbers, NEW s \in Numbers, NEW crc, NEW reply
  PROVE  /\ Commit(w, n, crc, reply).last_seq \in Numbers
         /\ ~IsFresh(w, s) => ~IsFresh(Commit(w, n, crc, reply), s)
         /\ ~IsFresh(Commit(w, n, crc, reply), n)
<1> DEFINE after == Commit(w, n, crc, reply)
<1>1. /\ after.last_seq = IF IsFresh(w, n) THEN n ELSE w.last_seq
      /\ after.valid /\ ~IsFresh(after, n)
  BY CommitMoves, NumbersType
<1>2. ASSUME ~IsFresh(w, s), IsFresh(after, s) PROVE FALSE
  <2> DEFINE Pos(x) == SeqDiff(x, base)
  <2>1. w.valid /\ ~(SeqDiff(s, w.last_seq) \in 1 .. (Half - 1))
    BY <1>2 DEF IsFresh
  <2>2. SeqDiff(s, after.last_seq) \in 1 .. (Half - 1)
    BY <1>1, <1>2 DEF IsFresh
  <2>3. CASE IsFresh(w, n)
    <3>1. SeqDiff(n, w.last_seq) \in 1 .. (Half - 1) /\ after.last_seq = n
      BY <1>1, <2>1, <2>3 DEF IsFresh
    <3>2. Pos(n) > Pos(w.last_seq) /\ Pos(s) > Pos(n) /\ ~(Pos(s) > Pos(w.last_seq))
      BY <2>1, <2>2, <3>1, FreshMeansAhead, NumbersType DEF NumbersNear
    <3>3. Pos(n) \in Int /\ Pos(s) \in Int /\ Pos(w.last_seq) \in Int
      <4>1. Pos(n) \in Seqs /\ Pos(s) \in Seqs /\ Pos(w.last_seq) \in Seqs
        BY NumbersType, SeqDiffType
      <4> HIDE DEF Pos
      <4> QED BY <4>1, HalfAssumption DEF Seqs
    <3> HIDE DEF Pos
    <3> QED BY <3>2, <3>3
  <2>4. CASE ~IsFresh(w, n)
    BY <1>1, <2>1, <2>2, <2>4
  <2> QED BY <2>3, <2>4
<1> QED BY <1>1, <1>2

\* Nothing has run when the guard starts.
LEMMA RerunInit == Init => RerunInv
<1> SUFFICES ASSUME Init PROVE RerunInv
  OBVIOUS
<1>1. pc["guard"] = "wait" /\ window.last_seq = 0
  BY DEF Init, Tasks, InitialWindow
<1>2. \A s \in Seqs : runs[s] = 0 /\ lost[s] = 0
  BY DEF Init
<1> QED BY <1>1, <1>2, NumbersType DEF RerunInv, Unrun, Ran, Known, At, Numbers

\* What the invariant speaks of changes only in the guard task.
LEMMA RerunFrame ==
  ASSUME RerunInv, pc'["guard"] = pc["guard"], UNCHANGED <<cur, out, window, runs, lost>>
  PROVE  RerunInv'
<1>1. (Ran' <=> Ran) /\ (Unrun' <=> Unrun)
  BY DEF Ran, Unrun, At
<1> QED BY <1>1 DEF RerunInv, Known

\* A step of the guard task that counts nothing: what it was sure of stays so.
LEMMA RerunStep ==
  ASSUME TypeOK, RerunInv, UNCHANGED <<window, runs, lost>>, Ran => Ran' /\ cur' = cur,
         Unrun' => IsFresh(window, cur'.seq), Ran' => cur'.form = "complete"
  PROVE  RerunInv'
<1>1. \A s \in Numbers : Known(s) => Known(s)'
  BY DEF Known
<1>2. \A s \in Numbers : runs[s] \in Nat /\ lost[s] \in Nat
  BY NumbersType DEF TypeOK, DataOK
<1>3. \A s \in Numbers : runs'[s] <= lost'[s] + (IF Known(s)' THEN 1 ELSE 0)
  BY <1>1, <1>2 DEF RerunInv
<1> QED BY <1>3 DEF RerunInv

\* Every step of the guard task keeps the count of runs.
LEMMA RerunGuard ==
  ASSUME NEW base \in Seqs, NumbersNear(base), TypeOK, JudgedInv, RerunInv, GuardTask
  PROVE  RerunInv'
<1> USE DEF Ran, Unrun, At, guardVars
<1>0. PcOK /\ DataOK /\ cur \in Frames
  BY DEF TypeOK, DataOK
<1>1. CASE Receive \/ ReceiveTimeout \/ Tick \/ LinkLost \/ Hold \/ ReportAbort("guard")
  <2>1. /\ pc["guard"] \notin {"running", "settle", "reply"}
        /\ pc'["guard"] \notin {"running", "settle", "reply",
                                "inject", "admit", "sense", "arm", "start"}
        /\ UNCHANGED <<window, runs, lost>>
    BY <1>0, <1>1, GuardGoes
       DEF Receive, ReceiveTimeout, Tick, LinkLost, Hold, ReportAbort, Mark, Latch, Stop, Red,
           GuardLabels, AbortLabels
  <2> QED BY <2>1, RerunStep
<1>2. CASE Judge
  <2>0. pc["guard"] = "judge" /\ UNCHANGED <<cur, window, runs, lost>>
    BY <1>2 DEF Judge
  <2>1. CASE IsRetransmission(cur) /\ Goto("guard", "tick")
    <3>1. pc'["guard"] = "tick"
      BY <1>0, <2>1, GuardGoes DEF GuardLabels
    <3> QED BY <2>0, <3>1, RerunStep
  <2>2. CASE ~IsRetransmission(cur) /\ Answer("DENY", RefusalLayer(cur))
    <3>1. pc'["guard"] = "reply" /\ out' = [verdict |-> "DENY", layer |-> RefusalLayer(cur)]
      BY <1>0, <2>2, Answers, RefusalLayerType DEF Answer
    <3>2. Unrun' => cur.form = "complete" /\ RefusalLayer(cur) # "REPLAY"
      BY <2>0, <3>1
    <3>3. Unrun' => IsFresh(window, cur.seq)
      BY <2>2, <3>2 DEF IsRetransmission, RefusalLayer, IsStale
    <3> QED BY <2>0, <3>1, <3>3, RerunStep
  <2>3. CASE /\ ~IsRetransmission(cur) /\ RefusalLayer(cur) = "NONE"
             /\ Goto("guard", "inject") \/ Goto("guard", "admit")
    <3>1. pc'["guard"] \in {"inject", "admit"}
      BY <1>0, <2>3, GuardGoes DEF GuardLabels
    <3>2. IsFresh(window, cur.seq)
      BY <2>3 DEF IsRetransmission, RefusalLayer, IsStale
    <3> QED BY <2>0, <3>1, <3>2, RerunStep
  <2> QED BY <1>2, <2>1, <2>2, <2>3 DEF Judge
<1>3. CASE Inject \/ Admit \/ Sense \/ Arm
  <2>1. /\ pc["guard"] \in {"inject", "admit", "sense", "arm"}
        /\ UNCHANGED <<cur, window, runs, lost>>
    BY <1>3 DEF Inject, Admit, Sense, Arm
  <2>2. IsFresh(window, cur.seq)
    BY <2>1 DEF RerunInv
  <2>3. Ran' => cur.form = "complete"
    BY <2>1 DEF JudgedInv, Licensed
  <2>4. ~Ran
    BY <2>1
  <2> QED BY <2>1, <2>2, <2>3, <2>4, RerunStep
<1>4. CASE Start
  <2>1. /\ pc["guard"] = "start" /\ pc'["guard"] = "running"
        /\ UNCHANGED <<cur, window, lost>> /\ runs' = [runs EXCEPT ![cur.seq] = @ + 1]
    BY <1>0, <1>4, GuardGoes DEF Start, GuardLabels
  <2>2. IsFresh(window, cur.seq) /\ ~Ran /\ cur.form = "complete" /\ cur.action \in HasCallback
    BY <2>1 DEF RerunInv, JudgedInv, Licensed
  <2>3. cur.seq \in Numbers /\ cur.seq \in Seqs
    BY <1>0, FrameFields DEF Numbers
  <2>4. runs \in [Seqs -> Nat] /\ lost \in [Seqs -> Nat]
    BY <1>0 DEF DataOK
  <2>5. ASSUME NEW s \in Numbers
        PROVE  runs'[s] <= lost'[s] + (IF Known(s)' THEN 1 ELSE 0)
    <3>0. s \in Seqs /\ runs[s] \in Nat /\ lost[s] \in Nat
      BY <2>4, NumbersType
    <3>1. CASE s = cur.seq
      <4>1. runs[s] <= lost[s]
        BY <2>2, <3>0, <3>1 DEF RerunInv, Known
      <4>2. Known(s)' /\ runs'[s] = runs[s] + 1 /\ lost'[s] = lost[s]
        BY <2>1, <2>2, <2>4, <3>0, <3>1 DEF Known
      <4> QED BY <3>0, <4>1, <4>2
    <3>2. CASE s # cur.seq
      <4>1. (Known(s)' <=> Known(s)) /\ runs'[s] = runs[s] /\ lost'[s] = lost[s]
        BY <2>1, <2>4, <3>0, <3>2 DEF Known
      <4> QED BY <4>1 DEF RerunInv
    <3> QED BY <3>1, <3>2
  <2>6. \A s \in Seqs : s \in Numbers \/ runs'[s] = 0
    BY <2>1, <2>3, <2>4 DEF RerunInv
  <2>7. ~Unrun' /\ cur'.form = "complete" /\ window'.last_seq \in Numbers
    BY <2>1, <2>2 DEF RerunInv
  <2> QED BY <2>5, <2>6, <2>7 DEF RerunInv
<1>5. CASE Finish \/ Settle
  <2>1. /\ pc["guard"] \in {"running", "settle"} /\ UNCHANGED <<cur, window, runs, lost>>
        /\ \/ pc'["guard"] = "settle"
           \/ pc'["guard"] = "reply" /\ out'.verdict # "DENY"
    <3>1. CASE Finish
      BY <1>0, <3>1, GuardGoes DEF Finish, GuardLabels
    <3>2. CASE Settle
      BY <1>0, <3>2, Answers, LayerNames DEF Settle
    <3> QED BY <1>5, <3>1, <3>2
  <2>2. (Ran' <=> Ran) /\ ~Unrun'
    BY <2>1
  <2> QED BY <2>1, <2>2, RerunStep DEF RerunInv
<1>6. CASE Reply
  <2>1. /\ pc["guard"] = "reply" /\ pc'["guard"] = "tick" /\ UNCHANGED <<cur, runs, lost>>
        /\ \E number \in ReplySeqs(cur) : window' = Commit(window, number, cur.crc, out)
    BY <1>0, <1>6, GuardGoes DEF Reply, GuardLabels
  <2>2. PICK number \in ReplySeqs(cur) : window' = Commit(window, number, cur.crc, out)
    BY <2>1
  <2>3. number \in Numbers /\ window.last_seq \in Numbers /\ window \in Windows(Crcs, Replies)
    BY <1>0, ReplyNumbers DEF RerunInv, DataOK
  <2>4. /\ window'.last_seq \in Numbers /\ ~IsFresh(window', number)
        /\ \A s \in Numbers : ~IsFresh(window, s) => ~IsFresh(window', s)
    BY <2>2, <2>3, CommitForgetsNothing
  <2>5. Ran => number = cur.seq
    BY <2>2 DEF RerunInv, ReplySeqs
  <2>6. \A s \in Numbers : Known(s) => Known(s)'
    BY <2>4, <2>5 DEF Known
  <2>7. \A s \in Numbers : runs'[s] <= lost'[s] + (IF Known(s)' THEN 1 ELSE 0)
    <3>1. \A s \in Numbers : runs[s] \in Nat /\ lost[s] \in Nat
      BY <1>0, NumbersType DEF DataOK
    <3> QED BY <2>1, <2>6, <3>1 DEF RerunInv
  <2> QED BY <2>1, <2>4, <2>7 DEF RerunInv
<1>7. CASE LoseReply
  <2>1. /\ pc["guard"] = "reply" /\ pc'["guard"] = "tick" /\ UNCHANGED <<cur, window, runs>>
        /\ lost' = [lost EXCEPT ![cur.seq] = @ + 1]
    BY <1>0, <1>7, GuardGoes DEF LoseReply, GuardLabels
  <2>2. runs \in [Seqs -> Nat] /\ lost \in [Seqs -> Nat]
    BY <1>0 DEF DataOK
  <2>3. ASSUME NEW s \in Numbers
        PROVE  runs'[s] <= lost'[s] + (IF Known(s)' THEN 1 ELSE 0)
    <3>0. s \in Seqs /\ runs[s] \in Nat /\ lost[s] \in Nat
      BY <2>2, NumbersType
    <3>1. CASE s = cur.seq
      <4>1. runs'[s] = runs[s] /\ lost'[s] = lost[s] + 1
        BY <2>1, <2>2, <3>0, <3>1
      <4>2. runs[s] <= lost[s] + 1
        BY <3>0 DEF RerunInv
      <4> QED BY <3>0, <4>1, <4>2
    <3>2. CASE s # cur.seq
      <4>1. runs'[s] = runs[s] /\ lost'[s] = lost[s]
        BY <2>1, <2>2, <3>0, <3>2
      <4>2. Known(s)' <=> Known(s)
        BY <2>1, <3>2 DEF Known
      <4> QED BY <4>1, <4>2 DEF RerunInv
    <3> QED BY <3>1, <3>2
  <2> QED BY <2>1, <2>3 DEF RerunInv
<1> QED BY <1>1, <1>2, <1>3, <1>4, <1>5, <1>6, <1>7 DEF GuardTask

\* So does every step of the system.
LEMMA RerunNext ==
  ASSUME NEW base \in Seqs, NumbersNear(base), IInv, RerunInv, [Next]_vars
  PROVE  RerunInv'
<1> USE DEF IInv, ExecInv
<1>1. CASE GuardTask
  BY <1>1, RerunGuard
<1>2. CASE EvtTask
  <2>1. UNCHANGED <<cur, out, window, runs, lost>>
    BY <1>2 DEF EvtTask, Take, SelftestDone, AlarmJump, AlarmTc, Heartbeat, ReportAbort, Mark,
                Latch, Stop, Red, Refresh, CheckHold, Sample, Paint, guardVars
  <2> QED BY <1>2, <2>1, EvtMoves, RerunFrame DEF TypeOK
<1>3. CASE MainTask
  <2>1. UNCHANGED <<cur, out, window, runs, lost>>
    BY <1>3 DEF MainTask, Wake, Refresh, CheckHold, Sample, Paint, guardVars
  <2> QED BY <1>3, <2>1, MainMoves, RerunFrame DEF TypeOK
<1>4. CASE Environment
  <2>1. UNCHANGED <<cur, out, window, runs, lost>>
    BY <1>4 DEF Environment, Arrive, ForeignFrame, GoQuiet, UlpMeasure, UlpReport, guardVars
  <2> QED BY <1>4, <2>1, EnvironmentPc, RerunFrame
<1>5. CASE UNCHANGED vars
  BY <1>5, RerunFrame DEF vars, guardVars
<1> QED BY <1>1, <1>2, <1>3, <1>4, <1>5 DEF Next

\* With the invariant of HexGuardProofs it is inductive.
LEMMA RerunInvariant ==
  ASSUME NEW base \in Seqs, NumbersNear(base)
  PROVE  Spec => [](IInv /\ RerunInv)
<1>1. Init => RerunInv
  BY RerunInit
<1>2. IInv /\ RerunInv /\ [Next]_vars => RerunInv'
  BY RerunNext
<1> QED BY <1>1, <1>2, Invariant, PTL DEF Spec

\* However a command is lost, repeated or reordered, and whatever the tasks do
\* meanwhile, its callback runs once, and once more for each reply that could not
\* be built.
THEOREM RunsOncePerReply ==
  ASSUME NEW base \in Seqs, NumbersNear(base)
  PROVE  Spec => []RerunOnlyAfterLostReply
<1>1. IInv /\ RerunInv => RerunOnlyAfterLostReply
  <2> SUFFICES ASSUME IInv, RerunInv, NEW s \in Seqs PROVE runs[s] <= 1 + lost[s]
    BY DEF RerunOnlyAfterLostReply
  <2>1. runs[s] \in Nat /\ lost[s] \in Nat
    BY DEF IInv, TypeOK, DataOK
  <2> QED BY <2>1 DEF RerunInv
<1> QED BY <1>1, RerunInvariant, PTL

\* A refusal that is not "stale" tells the host that the command never ran, unless
\* an earlier reply to it could not be built.
THEOREM RefusalMeansUnrun ==
  ASSUME NEW base \in Seqs, NumbersNear(base)
  PROVE  Spec => []DenyMeansNeverRan
<1>1. IInv /\ RerunInv => DenyMeansNeverRan
  <2> SUFFICES ASSUME IInv, RerunInv, At("guard", "reply"), out.verdict = "DENY",
                      out.layer # "REPLAY", cur.form = "complete", lost[cur.seq] = 0
               PROVE  runs[cur.seq] = 0
    BY DEF DenyMeansNeverRan
  <2>1. cur.seq \in Numbers /\ runs[cur.seq] \in Nat
    BY FrameFields DEF IInv, TypeOK, DataOK, Numbers
  <2>2. ~Known(cur.seq)
    BY DEF RerunInv, Unrun, Known, Ran
  <2> QED BY <2>1, <2>2 DEF RerunInv
<1> QED BY <1>1, RerunInvariant, PTL

=============================================================================
