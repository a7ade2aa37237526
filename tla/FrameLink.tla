------------------------------ MODULE FrameLink ------------------------------
(***************************************************************************)
(* The receiving side of the command link (guard_uart.c with the parser of *)
(* guard_frame.c): the UART task feeds the bytes it reads to the parser,   *)
(* the guard task's periodic tick watches for gaps inside a frame and for  *)
(* a lost link, and the main task brings both up.  The two tasks share the *)
(* parser, two 64-bit times and a flag without any lock and may run on     *)
(* two cores, so accesses to them are steps of their own; the body of one  *)
(* case of the parser's switch is one step, and so is the handing out of a *)
(* frame.  A 64-bit time is stored and loaded as two words: a load that    *)
(* falls into a store may see one word of each (Mixed).  Frames the host   *)
(* sent may lose a byte or gain one on the line.  The parser may write     *)
(* past its array: what the device does from then on is undefined, and the *)
(* model stops there.                                                      *)
(***************************************************************************)
EXTENDS GuardFrame, FiniteSets

CONSTANTS
  Frames,     \* the frames the host may send: records [type, payload]
  Noise,      \* bytes the line may insert
  FrameGap,   \* frame_gap_ms, in units of the clock
  LinkLost,   \* link_lost_ms, in units of the clock
  Word,       \* how many time units the low word of a time counts
  Cuts,       \* bound: how many bytes a read may find, when it does not find all
  QueueLen,   \* GUARD_FRAME_QUEUE_LEN
  MaxSent,    \* bound: frames the host sends
  OnlyFirst,  \* bound: frames the host sends as its first or not at all
  MaxFaults,  \* bound: bytes the line loses or inserts
  MaxTime     \* bound: the clock

ASSUME FramesAssumption ==
  \A f \in Frames : /\ f \in [type : {CMD, REPLY}, payload : Seq(Bytes)]
                    /\ Len(f.payload) \in 0 .. MaxPayload
ASSUME TimesAssumption == {FrameGap, LinkLost, Word} \subseteq Nat \ {0}
ASSUME NoiseAssumption == Noise \subseteq Bytes
ASSUME BoundsAssumption == {QueueLen, MaxSent, MaxFaults, MaxTime} \subseteq Nat

VARIABLES
  clock,      \* esp_timer_get_time
  boot,       \* how far app_main has come: "off", "uart" or "running"
  sent,       \* history: the frames the host has sent
  faults,     \* how many bytes the line has lost or inserted
  line,       \* the bytes on the line and in the driver's buffer
  uart,       \* the UART task: its label and its local variables
  rx,         \* s_rx
  lastByte,   \* s_last_byte_us
  lastFrame,  \* s_last_frame_us
  fired,      \* s_link_lost_fired
  guard,      \* the guard task: its label and the time it read
  queue,      \* s_frame_queue
  ghost       \* history, for the properties

vars == <<clock, boot, sent, faults, line, uart, rx, lastByte, lastFrame, fired,
          guard, queue, ghost>>

device == <<boot, uart, rx, lastByte, lastFrame, fired, guard, queue>>
shared == <<rx, lastByte, lastFrame, fired, queue>>

Times == 0 .. MaxTime
\* A byte on the line: byte number pos of the frame number of, or noise (0).
LineBytes == [val : Bytes, of : 0 .. MaxSent, pos : Nat]
Items == [type : Bytes, payload : Seq(Bytes), disturbed : BOOLEAN]

UartLabels == {"wait", "fetch", "body", "dataDone", "compare", "stamp", "rearm",
               "handOver", "stampByte", "endChunk", "overrun"}
GuardLabels == {"receive", "gap", "resetGap", "loss", "fire", "report"}

Uarts == [pc : UartLabels, chunk : Seq(LineBytes), st : ParserStates,
          type : Bytes, len : Nat, now : Times]
Guards == [pc : GuardLabels, now : Times]

IdleUart == [pc |-> "wait", chunk |-> <<>>, st |-> "SYNC0", type |-> 0, len |-> 0, now |-> 0]
IdleGuard == [pc |-> "receive", now |-> 0]
\* History.  run: the frame whose bytes the parser has been fed one after the
\* other from its first, with no frame begun and not cleared since, and how many
\* of them.  disturbed: the guard task has cleared the parser under the UART
\* task's hands since a byte was last fed to it in SYNC0.  acceptedAt: when the
\* last frame was accepted.  reported: the link has been reported lost since then.
\* crossed: a frame was being accepted while this tick ran; before: when the last
\* one before it was.  torn: the tick's last load of a time was mixed.
Fresh(t) == [run |-> <<0, 0>>, disturbed |-> FALSE, acceptedAt |-> t,
             before |-> t, reported |-> FALSE, torn |-> FALSE, crossed |-> FALSE]
Ghosts == [run : Nat \X Nat, disturbed : BOOLEAN, acceptedAt : Times, before : Times,
           reported : BOOLEAN, torn : BOOLEAN, crossed : BOOLEAN]

TypeOK ==
  /\ clock \in Times
  /\ boot \in {"off", "uart", "running"}
  /\ sent \in Seq(Frames) /\ Len(sent) <= MaxSent
  /\ faults \in 0 .. MaxFaults
  /\ line \in Seq(LineBytes)
  /\ uart \in Uarts
  /\ rx \in Parsers /\ Len(rx.payload) <= MaxPayload
  /\ lastByte \in Times /\ lastFrame \in Times
  /\ fired \in BOOLEAN
  /\ guard \in Guards
  /\ queue \in Seq(Items) /\ Len(queue) <= QueueLen
  /\ ghost \in Ghosts

Off ==
  [boot |-> "off", uart |-> IdleUart, rx |-> Cleared, last |-> 0, fired |-> FALSE,
   guard |-> IdleGuard, queue |-> <<>>]

Init ==
  /\ clock = 0 /\ boot = "off" /\ sent = <<>> /\ faults = 0 /\ line = <<>>
  /\ uart = IdleUart /\ rx = Cleared
  /\ lastByte = 0 /\ lastFrame = 0 /\ fired = FALSE
  /\ guard = IdleGuard /\ queue = <<>>
  /\ ghost = Fresh(0)

-----------------------------------------------------------------------------
(* The environment. *)

\* The timer counts from the start of the chip.
PassTime ==
  /\ boot # "off" /\ clock < MaxTime
  /\ clock' = clock + 1
  /\ UNCHANGED <<device, sent, faults, line, ghost>>

\* guard_uart_send, guard_cmd.py: the bytes of each frame.
Packed == [f \in Frames |-> Pack(f.type, f.payload)]

\* Bytes that reach a device whose driver is not installed are lost.
Send(f) ==
  /\ Len(sent) < MaxSent /\ (f \in OnlyFirst => sent = <<>>)
  /\ sent' = Append(sent, f)
  /\ line' = IF boot = "off" THEN line
             ELSE line \o [i \in DOMAIN Packed[f] |->
                            [val |-> Packed[f][i], of |-> Len(sent'), pos |-> i]]
  /\ UNCHANGED <<clock, device, faults, ghost>>

LoseByte ==
  /\ faults < MaxFaults /\ line # <<>>
  /\ faults' = faults + 1
  /\ line' = Tail(line)
  /\ UNCHANGED <<clock, device, sent, ghost>>

InsertByte(b) ==
  /\ faults < MaxFaults /\ boot # "off"
  /\ faults' = faults + 1
  /\ line' = <<[val |-> b, of |-> 0, pos |-> 0]>> \o line
  /\ UNCHANGED <<clock, device, sent, ghost>>

-----------------------------------------------------------------------------
(* The main task. *)

\* guard_uart_init: the driver, the parser and the times; then the UART task.
UartInit ==
  /\ boot = "off"
  /\ boot' = "uart"
  /\ rx' = Cleared
  /\ lastByte' = clock /\ lastFrame' = clock
  /\ fired' = FALSE
  /\ ghost' = Fresh(clock)
  /\ UNCHANGED <<clock, sent, faults, line, uart, guard, queue>>

\* hex4_guard_start: the queue, then the guard task.
GuardStart ==
  /\ boot = "uart"
  /\ boot' = "running"
  /\ UNCHANGED <<clock, sent, faults, line, uart, guard, shared, ghost>>

-----------------------------------------------------------------------------
(* The UART task: guard_uart_task and guard_uart_feed. *)

uartOnly == <<clock, boot, sent, faults, guard>>

\* uart_read_bytes: whatever the driver holds so far.
Read ==
  /\ uart.pc = "wait"
  /\ \E n \in (Cuts \cup {Len(line)}) \cap (1 .. Len(line)) :
       /\ uart' = [uart EXCEPT !.pc = "fetch", !.chunk = SubSeq(line, 1, n)]
       /\ line' = SubSeq(line, n + 1, Len(line))
  /\ UNCHANGED <<uartOnly, shared, ghost>>

\* The next byte of the chunk, or the end of the loop.
NextByte(u) ==
  [IdleUart EXCEPT !.chunk = Tail(u.chunk),
                   !.pc = IF Len(u.chunk) = 1 THEN "stampByte" ELSE "fetch"]

\* The switch reads the parser's state.
Fetch ==
  /\ uart.pc = "fetch"
  /\ uart' = [uart EXCEPT !.pc = "body", !.st = rx.state]
  /\ LET b == Head(uart.chunk)
         inOrder == b.pos = ghost.run[2] + 1 /\ (b.of = ghost.run[1] \/ b.pos = 1)
     IN  ghost' = [ghost EXCEPT
           !.run = IF b.pos = 1 THEN (IF rx.state \in {"SYNC0", "SYNC1"} THEN <<b.of, 1>> ELSE <<0, 0>>)
                   ELSE IF b.of # 0 /\ inOrder THEN <<b.of, b.pos>> ELSE <<0, 0>>,
           !.disturbed = @ /\ rx.state # "SYNC0"]
  /\ UNCHANGED <<uartOnly, line, shared>>

Body ==
  /\ uart.pc = "body" /\ ~Overruns(uart.st, rx)
  /\ rx' = FeedByte(uart.st, rx, Head(uart.chunk).val)
  /\ uart' = IF uart.st = "DATA" THEN [uart EXCEPT !.pc = "dataDone"]
             ELSE IF uart.st = "CRC1" THEN [uart EXCEPT !.pc = "compare"]
             ELSE NextByte(uart)
  /\ UNCHANGED <<uartOnly, line, lastByte, lastFrame, fired, queue, ghost>>

\* The payload byte is written past the array, into what lies behind s_rx.
Overrun ==
  /\ uart.pc = "body" /\ Overruns(uart.st, rx)
  /\ uart' = [uart EXCEPT !.pc = "overrun"]
  /\ UNCHANGED <<uartOnly, line, shared, ghost>>

TestDone ==
  /\ uart.pc = "dataDone"
  /\ rx' = DataDone(rx)
  /\ uart' = NextByte(uart)
  /\ UNCHANGED <<uartOnly, line, lastByte, lastFrame, fired, queue, ghost>>

\* A frame whose CRC holds: its type and length are handed out with it, and
\* the time is read.
Accept ==
  /\ uart.pc = "compare" /\ CrcHolds(rx)
  /\ uart' = [uart EXCEPT !.pc = "stamp", !.type = rx.type, !.len = rx.len, !.now = clock]
  /\ ghost' = [ghost EXCEPT !.acceptedAt = clock,
                            !.before = IF ghost.crossed THEN @ ELSE ghost.acceptedAt,
                            !.reported = FALSE, !.crossed = TRUE]
  /\ UNCHANGED <<uartOnly, line, shared>>

Discard ==
  /\ uart.pc = "compare" /\ ~CrcHolds(rx)
  /\ uart' = NextByte(uart)
  /\ UNCHANGED <<uartOnly, line, shared, ghost>>

\* Mutant of Stamp: the time of the frame is not kept.
StampWithoutStore ==
  /\ uart.pc = "stamp"
  /\ uart' = [uart EXCEPT !.pc = "rearm"]
  /\ UNCHANGED <<uartOnly, line, shared, ghost>>

\* The store of s_last_frame_us ends, and the link is armed again.
Stamp ==
  /\ uart.pc = "stamp"
  /\ lastFrame' = uart.now
  /\ uart' = [uart EXCEPT !.pc = "rearm"]
  /\ UNCHANGED <<uartOnly, line, rx, lastByte, fired, queue, ghost>>

\* Mutant of Rearm: the flag stays set.
RearmWithoutClear ==
  /\ uart.pc = "rearm"
  /\ uart' = [uart EXCEPT !.pc = "handOver"]
  /\ UNCHANGED <<uartOnly, line, shared, ghost>>

Rearm ==
  /\ uart.pc = "rearm"
  /\ fired' = FALSE
  /\ uart' = [uart EXCEPT !.pc = "handOver"]
  /\ UNCHANGED <<uartOnly, line, rx, lastByte, lastFrame, queue, ghost>>

\* on_frame: what the parser's buffer holds by now is copied; a frame that is
\* not a command is dropped, and so is one the queue has no room for.
Item ==
  [type |-> uart.type,
   payload |-> [i \in 1 .. uart.len |-> IF i <= Len(rx.payload) THEN rx.payload[i] ELSE 0],
   disturbed |-> ghost.disturbed]

\* Mutant of Enqueue: the bound of the queue is ignored.
EnqueueWithoutBound(q) == Append(q, Item)

Enqueue(q) == IF Len(q) < QueueLen THEN Append(q, Item) ELSE q

HandOver ==
  /\ uart.pc = "handOver"
  /\ uart.type = CMD => boot = "running"
  /\ queue' = IF uart.type = CMD THEN Enqueue(queue) ELSE queue
  /\ uart' = NextByte(uart)
  /\ UNCHANGED <<uartOnly, line, rx, lastByte, lastFrame, fired, ghost>>

\* xQueueSend on a queue that does not exist yet: FreeRTOS asserts and the chip
\* restarts; what the driver had buffered is gone.
Panic ==
  /\ uart.pc = "handOver" /\ uart.type = CMD /\ boot = "uart"
  /\ boot' = Off.boot /\ uart' = Off.uart /\ rx' = Off.rx
  /\ lastByte' = Off.last /\ lastFrame' = Off.last /\ fired' = Off.fired
  /\ guard' = Off.guard /\ queue' = Off.queue
  /\ line' = <<>> /\ clock' = 0
  /\ ghost' = Fresh(0)
  /\ UNCHANGED <<sent, faults>>

\* The time of the last byte is read once the whole chunk has been fed ...
StampByte ==
  /\ uart.pc = "stampByte"
  /\ uart' = [uart EXCEPT !.pc = "endChunk", !.now = clock]
  /\ UNCHANGED <<uartOnly, line, shared, ghost>>

\* ... and its store ends.
EndChunk ==
  /\ uart.pc = "endChunk"
  /\ lastByte' = uart.now
  /\ uart' = IdleUart
  /\ UNCHANGED <<uartOnly, line, rx, lastFrame, fired, queue, ghost>>

UartTask ==
  Read \/ Fetch \/ Body \/ Overrun \/ TestDone \/ Accept \/ Discard \/ Stamp \/ Rearm
  \/ HandOver \/ Panic \/ StampByte \/ EndChunk

-----------------------------------------------------------------------------
(* The guard task: its loop and guard_uart_tick. *)

guardOnly == <<clock, boot, sent, faults, line, uart, lastByte, lastFrame>>

\* What a load of a time sees while new is being stored over old.
Mixed(old, new) ==
  {old, new, (Word * (old \div Word)) + (new % Word), (Word * (new \div Word)) + (old % Word)}

SeenFrameTimes == IF uart.pc = "stamp" THEN Mixed(lastFrame, uart.now) ELSE {lastFrame}
SeenByteTimes == IF uart.pc = "endChunk" THEN Mixed(lastByte, uart.now) ELSE {lastByte}

GoTo(label) == guard' = [guard EXCEPT !.pc = label]

\* A frame is taken from the queue and handled, or the wait times out; then the
\* tick reads the clock.
Tick ==
  /\ boot = "running" /\ guard.pc = "receive"
  /\ queue' = IF queue = <<>> THEN queue ELSE Tail(queue)
  /\ guard' = [pc |-> "gap", now |-> clock]
  /\ LET crossed == uart.pc \in {"stamp", "rearm"}
     IN  ghost' = [ghost EXCEPT !.torn = FALSE, !.crossed = crossed,
                                !.before = IF crossed THEN @ ELSE 0]
  /\ UNCHANGED <<guardOnly, rx, fired>>

\* Mutant of CheckGap: the gap inside a frame is not watched.
CheckGapSkipped ==
  /\ guard.pc = "gap"
  /\ GoTo("loss")
  /\ UNCHANGED <<guardOnly, rx, fired, queue, ghost>>

CheckGap ==
  /\ guard.pc = "gap"
  /\ \E t \in SeenByteTimes :
       /\ GoTo(IF guard.now - t > FrameGap /\ rx.state # "SYNC0" THEN "resetGap" ELSE "loss")
       /\ ghost' = [ghost EXCEPT !.torn = t \notin {lastByte, uart.now}]
  /\ UNCHANGED <<guardOnly, rx, fired, queue>>

\* guard_frame_rx_init on the shared parser.
ClearParser ==
  /\ rx' = Cleared
  /\ ghost' = [ghost EXCEPT !.run = <<0, 0>>, !.disturbed = @ \/ uart.pc # "wait",
                            !.reported = @ \/ guard.pc = "report"]

ResetGap ==
  /\ guard.pc = "resetGap"
  /\ ClearParser
  /\ GoTo("loss")
  /\ UNCHANGED <<guardOnly, fired, queue>>

CheckLoss ==
  /\ guard.pc = "loss"
  /\ \E t \in SeenFrameTimes :
       /\ GoTo(IF guard.now - t > LinkLost /\ ~fired THEN "fire" ELSE "receive")
       /\ ghost' = [ghost EXCEPT !.torn = t \notin {lastFrame, uart.now}]
  /\ UNCHANGED <<guardOnly, rx, fired, queue>>

Fire ==
  /\ guard.pc = "fire"
  /\ fired' = TRUE
  /\ GoTo("report")
  /\ UNCHANGED <<guardOnly, rx, queue, ghost>>

\* The parser is cleared and on_link_lost is called.
Report ==
  /\ guard.pc = "report"
  /\ ClearParser
  /\ GoTo("receive")
  /\ UNCHANGED <<guardOnly, fired, queue>>

GuardTask == Tick \/ CheckGap \/ ResetGap \/ CheckLoss \/ Fire \/ Report

-----------------------------------------------------------------------------

Environment ==
  PassTime \/ (\E f \in Frames : Send(f)) \/ LoseByte \/ (\E b \in Noise : InsertByte(b))

MainTask == UartInit \/ GuardStart

Defined == uart.pc # "overrun"

Next == Environment \/ (Defined /\ (MainTask \/ UartTask \/ GuardTask))

Spec == Init /\ [][Next]_vars

-----------------------------------------------------------------------------

\* guard_uart.h:34, on_link_lost means no valid frame in the window: a report
\* follows more than LinkLost without an accepted frame, or such a silence ended
\* by a frame while the tick ran, or the tick saw a mixed time.
LossReportIsEarned ==
  guard.pc = "report" =>
    \/ guard.now - ghost.acceptedAt > LinkLost
    \/ ghost.crossed /\ guard.now - ghost.before > LinkLost
    \/ ghost.torn

\* No silence goes unreported: when a tick that began more than LinkLost after
\* the last accepted frame is over, the link has been reported lost since that
\* frame, however the tick and the UART task interleaved.  Only a tick that ran
\* while the frame was still being accepted may leave it to the next.
SilenceIsReported ==
  (boot = "running" /\ guard.pc = "receive" /\ guard.now - ghost.acceptedAt > LinkLost)
    => ghost.reported \/ ghost.crossed

\* What reaches the guard task is a frame the host sent, byte for byte, unless
\* the guard task cleared the parser under the UART task's hands.
QueuedFramesWereSent ==
  \A i \in DOMAIN queue :
    queue[i].disturbed
      \/ [type |-> queue[i].type, payload |-> queue[i].payload] \in ToSet(sent)

\* All bytes of a frame have been fed, the last of them in the current step.
WholeFrameFed ==
  /\ ghost.run[1] # 0
  /\ ghost.run[2] = Len(Packed[sent[ghost.run[1]]])

\* Resynchronisation (guard_frame.h:49, no rubbish loses the synchronisation for
\* good): a frame with a payload, all of whose bytes were fed in order, starting with
\* a parser that was searching the magic and with no clearing in between, is accepted
\* whatever noise and whatever other frames came before it.  A frame without a
\* payload never is: the parser takes its CRC and all that follows for payload.
WholeFramesAreAccepted ==
  [][(WholeFrameFed /\ sent[ghost.run[1]].payload # <<>>
        /\ uart.pc \in {"body", "dataDone", "compare"}
        /\ uart'.pc # uart.pc) => uart'.pc \in {"dataDone", "compare", "stamp"}]_vars

\* guard_frame.c:135, a declared length is held against the array: whatever noise
\* comes and however the guard task clears the parser under the UART task's hands,
\* the array is only overrun under a length of 0, which no count of bytes received
\* ever equals (line 146): an empty frame's, or the one a clearing leaves between the
\* switch and the case of GF_LEN1.
OnlyEmptyFramesOverrun == uart.pc = "overrun" => rx.len = 0

\* A frame whose rest never comes does not swallow the next: the tick's check,
\* more than FrameGap after the last chunk, leaves the parser searching before a
\* new chunk is read, unless its load of the time was mixed.
QuietLineResyncs ==
  (guard.pc = "loss" /\ uart.pc = "wait" /\ guard.now - lastByte > FrameGap)
    => rx.state = "SYNC0" \/ ghost.torn

\* guard_uart.c:128, a gap between the bytes of a frame drops the rest of it: the
\* parser is not cleared for a gap under a frame whose bytes came without one
\* (checked where a read finds all bytes of a frame).
GapResetIsEarned ==
  guard.pc = "resetGap" => uart.pc = "wait" \/ ghost.run[1] = 0

=============================================================================
