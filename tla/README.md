# A TLA+ model of the HEX4 guard

The repository builds a safety monitor for a machine: an ESP32-S3 receives
numbered, authenticated JSON commands over a UART, judges each one in layers
(encoding, replay, self-test, state machine and policy, sensor level) and only
then calls the motion callback, while an ultra-low-power coprocessor watches a
sensor in ternary logic and can abort at any time. This directory models its
concurrent and protocol parts in TLA+, checks them with TLC and proves theorems
about them with TLAPS.

Paths below are relative to the repository's root; `GUARD` stands for
`esp32s3_hex4_guard/components/hex4_guard`, `ULP` for
`esp32s3_hex4_ulp/components/hex4_ulp`, `DEMO` for
`esp32s3_hex4_guard/project/main/hex4_guard_demo_main.c`.

## 1. The system

| Component | State | Operations | Talks to |
|---|---|---|---|
| Guard orchestrator, `GUARD/hex4_guard.c` | frame queue (8), `s_abort_pending`, `s_abort_latched`, `s_selftest`, the replay record | `handle_cmd_frame`, `hex4_guard_report_abort`, `on_link_lost`, `hex4_guard_task` | everything below |
| Replay window, `GUARD/guard_replay.c` | `valid`, `last_seq`, ring of cached replies | `check`, `commit` | called by the guard task only |
| Safety state machine, `GUARD/guard_state.c` and its generated table | `s_state` | `event`, `allows` | under `s_state_lock`, from two tasks |
| UART link, `GUARD/guard_uart.c`, `guard_frame.c` | parser state, times of the last byte and the last frame, `s_link_lost_fired` | `feed` (UART task), `tick` (guard task) | hands frames to the queue |
| Reference application, `DEMO` | the lamp colour it chose | ULP event task, lamp refresh | mailbox, orchestrator, lamp |
| ULP watch, `ULP/ulp/hex4_ulp_main.c`, `ULP/hex4_ulp_app.c` | mailbox: `cmd`, `status`, `evt_seq`, `quant_state`, `state_prev`, TC statistics | `run_selftest`, `watch_cycle`; `handle_wakeup`, `ack_alarm`, `poll_event`, `sleep`, `set_sleep_mode` | wakes the event task by interrupt, or the processor |
| ULP demo, `esp32s3_hex4_ulp/project/main/hex4_demo_main.c` | lamp colour; in deep sleep nothing survives but the mailbox | the event loop, the test key | ULP watch |
| L3 policy, `GUARD/guard_policy.c`, `guard_permissions.c` | none | permission and parameter checks | called by the guard task |
| Authentication and encoding, `guard_verify.c`, `guard_crypto.c`, `guard_cmd.c`, `guard_reply.c` | none | data in, data out | called by the guard task |
| Lamp driver, `GUARD/guard_led.c` | colour, phase | `set`, `tick` | written by three tasks |
| HEX4 core, `clib/`, `hdl/rtl/core/` | pipeline registers (RTL), TC statistics | 17 ternary operations by look-up table | ULP program |
| Constraint toolchain, `esp32s3_hex4_guard/tools/smt_*.py` | none | loads a package, verifies it, generates the tables of the state machine and the policy | offline; the firmware runs its output |
| Host scripts, `esp32s3_hex4_guard/tools/guard_*.py` | next number | send, ping, keep-alive | UART |

Four tasks and an interrupt share this state, on two cores and without
priorities that would order them: the UART task (priority 5) fills the queue;
the guard task (6) takes a frame or times out after 50 ms, handles it, runs the
link-lost check and the lamp tick; the ULP event task (5) is notified by the
coprocessor's interrupt; the main task refreshes the lamp every 500 ms. The
guard task itself runs the abort when the link is lost.

What is hard here: an abort races with a command between every two checks; two
tasks drive the state machine; the lamp is painted by three tasks; commands are
lost, repeated and reordered while 32-bit numbers wrap; a reply may not be
built after the command has run; the link-lost flag is cleared in one task and
set in another; the parser is fed by one task and cleared by another; 64-bit
times are read in two halves on a 32-bit chip; the mailbox keeps only the latest
event; a processor that sleeps deeply forgets everything else; tables that were
proved correct are cut to the fields of the firmware and attached by hand.

What makes each part correct: the orchestrator executes a command only when all
layers passed, only once unless its reply could not be built, tells the host the truth about it, and never
releases the latch without an acknowledgement; the window never lets a number
in twice and gives a retransmission the reply it had; the state machine is
deterministic and stops always latch; silence on the link ends in the latch and
rubbish on it never becomes a command or stops the synchronisation; the firmware
admits what the verified package admits, if its numbers fit; the watch loses no jump; the look-up
tables are the ternary operations they stand for.

## 2. Modules

| Module | Models | Kind |
|---|---|---|
| `GuardState` | generated transition table and its interpreter | pure operators |
| `GuardReplay` | `guard_replay.c` on the replay record, with wrapping numbers | pure operators |
| `ReplayWindow` | the record under arbitrary traffic, every frame one step | component |
| `ReplayHost` | the record with a numbering, retransmitting host and a lossy link, across a restart of the device | composition |
| `HexGuard` | the guard, ULP event and main tasks at the grain of shared accesses; UART task, coprocessor and time as environment | composition of all |
| `UlpMailbox` | what the coprocessor and a notified application owe each other over the mailbox, word by word | abstract specification |
| `EstopContract` | what the guard owes about the emergency stop, without tasks or frames | abstract specification |
| `GuardReplayProofs` | lemmas on the operators of the window and the ring | proofs |
| `Hex4Core` | the C library of the ternary core: tables, unpacking, dispatch | pure operators |
| `TcPropagator` | `hex4_tc_propagator.c`, its counter and alarm | component |
| `TernaryCoreLite` | the Verilog core, clocked, against `Hex4Core`, with a `TcPropagator` fed by it | composition |
| `UlpWatch` | the ULP program, the mailbox and its consumer, awake or sleeping, word by word | composition with `Hex4Core`, `TcPropagator` |
| `GuardFrame` | the frame format: CRC, packing, the incremental parser | pure operators |
| `FrameLink` | the UART task, the guard task's tick and the start-up over a disturbed line of bytes | component |
| `GuardPolicy` | parameter definitions, gates and roles as `guard_policy.c` judges them | pure operators |
| `ConstraintTool` | package, verifier, generator, and the firmware that runs the tables | composition with `GuardPolicy` |
| `ConstraintPackage` | `demo_collab.yaml` and the tables committed for it | data, against `GuardState` |
| `ReplayWindowProofs`, `ReplayHostProofs`, `HexGuardProofs` (with the state machine), `TernaryCoreProofs` (with the propagator), `UlpWatchProofs`, `FrameLinkProofs`, `ConstraintToolProofs` | theorems of the specifications | proofs |
| `MCReplayWindow`, `MCReplayHost`, `MCHexGuard`, `MCTernaryCoreLite`, `MCUlpWatch`, `MCFrameLink`, `MCConstraintTool` | frames, names and thresholds for TLC | model checking |

`HexGuard` uses `GuardState` for `s_state` and `GuardReplay` for `s_replay`; it
implements `EstopContract` (`EstopHonoured`). Its coprocessor is that of
`UlpMailbox`, and its event task keeps the other half of that contract; `UlpWatch`
with a notified consumer implements the same contract, so that what is proved of
the guard tasks holds of the program the coprocessor runs. `ConstraintToolProofs`
extends `ConstraintPackage`, so that the committed package is proved about too.

### How HexGuard follows the code

A step is a stretch of code that touches shared state once. The path of a frame
through `handle_cmd_frame` is a sequence of labels of the guard task:

    wait -> judge -> (inject | admit -> sense -> arm -> start -> running -> settle) -> reply -> tick -> wait

- `Receive` takes a frame and releases the hold of the lamp (`s_abort_latched`).
- `Judge` is everything that reads only the frame, the replay record and the
  self-test result: parsing, replay, self-test gate, action look-up, parameter
  and authentication checks, in the code's order (`RefusalLayer`). A cached
  reply goes back at once.
- `Inject` is an event command under `s_state_lock`; `Admit` is
  `guard_state_allows` under the lock and then the policy; `Sense` reads the
  mailbox level; `Arm` clears `s_abort_pending`; `Start` and `Finish` are the
  call and the return of the callback; `Settle` reads `s_abort_pending`.
- `Reply` is `reply_and_commit`; `LoseReply` is the same when the JSON cannot
  be built, where the code returns before it commits.
- `Tick` and `LinkLost` are the check and the set of `s_link_lost_fired` in
  `guard_uart_tick`; then come the four steps of `hex4_guard_report_abort`
  (`Mark`, `Latch`, `Stop`, `Red`) and `Hold`, the last line of `on_link_lost`.

The ULP event task takes the notification and reads the status as it is then
(`Take`), and dispatches: `SelftestDone`, `AlarmJump`, `AlarmTc`, `Heartbeat`.
The coprocessor writes the mailbox word by word, as `UlpMailbox` lets it:
`Selftest`, `Retire` and `Wake` are the report of the self-test, its `cmd = IDLE`
and the interrupt; a run of the watch may clear the event (`Forget`, an honoured
acknowledgement), measures a level (`UlpMeasure`), writes the event about it
(`Raise`) and wakes the application. The interrupt handler
only notifies; the event task reads the mailbox later, when the next run may
already have changed the level but not yet the event.
An alarm runs the same four steps of `report_abort` in that task. Lamp
refreshes of both tasks are three steps: ask for the hold, read the level, set
the colour.

Data is abstracted to what the judgement distinguishes: a frame says whether it
parses, has its fields, fits its schema, whether a role key fits and names the
role, and whether the policy admits it; the 16-bit fingerprint of a payload is
a model value. The number of an incomplete frame is read from a JSON object
that was freed two lines before (`hex4_guard.c:131-133`): its value is a choice
between the number, still in the freed memory, and 0, what the code uses when
the object is no longer a number (`ReplySeqs`).

### How the watch and the core follow the code

`UlpWatch` has one label per access of the coprocessor to a word that the main
processor writes or branches on. A run of `main` in watch mode (`watch_cycle`) is

    halt -> ack -> (mode -> clear ->) sense -> feed -> (prev ->) status -> (seq -> wake ->) halt

and in self-test mode (`run_selftest`) `halt -> status -> seq -> idle -> wake ->
halt`, whose last write is `cmd = IDLE`. `Decide` reads `state_prev` once, after
the pipeline and the propagator, and takes the branches in the code's order
(`Verdict`). The consumer is the handler of the guard's `ulp_evt_task`, either
notified by the interrupt or around `hex4_ulp_poll_event`: the number, the
status, the status again when it was IDLE, then the dispatch. `ack_alarm` is
three steps: the command, the read of `quant_state`, the write of `state_prev`.
The self-test passes here; its comparison is a table against itself.

A consumer that sleeps is the event loop of the demo: it handles what it was
woken for, holds the console (`hold`), and calls `hex4_ulp_sleep` (`Sleep`).
`Wake` of the coprocessor ends the sleep (`WakeUp`); so do other interrupts and
the test key (`OtherWakeUp`). A deep sleep ends in a restart: `ChipReset` is
what the memory of the application is then, `StartTest` and `RunUlp` are
`hex4_ulp_start` after it, whose first call in a life also starts the
coprocessor from its beginning. Whether the hardware keeps a wake-up that comes
while the processor is still awake is not in the code: `latched` is chosen at
first and stays. `SetSleepMode` is `hex4_ulp_set_sleep_mode`.


`TernaryCoreLite` holds the tables of the Verilog source in its own packing and
registers what the multiplexer gives at each enabled edge; `Hex4Core` holds the
tables of the C source in theirs. The propagator is fed the registered flag and
valid bit, one edge later. `Reference` is the third, independent definition:
arithmetic modulo three with carry and borrow, minimum, maximum, order, and TC
absorbing everything.

### How FrameLink follows the code

The line is a sequence of bytes, each tagged for the properties with the frame
it belongs to; it may lose one or gain one. `Read` is `uart_read_bytes`, which
returns all there is or an arbitrary cut of it. For each byte the UART task
reads the parser's state (`Fetch`), runs one case of the switch (`Body`), then
the completion test (`TestDone`) or the comparison of the CRCs (`Accept`,
`Discard`). An accepted frame has its time stored (`Stamp`), the detector
armed (`Rearm`) and is handed over (`HandOver`, or `Panic` when the queue does
not exist yet); after the chunk the time of the last byte is stored (`StampByte`,
`EndChunk`). The guard task takes a frame and reads the clock (`Tick`), then
checks the gap (`CheckGap`, `ResetGap`) and the loss (`CheckLoss`, `Fire`,
`Report`). Nothing locks what they share. A 64-bit time is two words, and a load
during a store may see one of each (`Mixed`). `GuardFrame` keeps the real CRC
and the real values of the bytes, so that a payload can look like a header. Its
exclusive or is built from halves down to single bits (`Xor16`), and a word that
the code assembles with `|` from two bytes that do not overlap is their sum, so
that the prover can follow both.

### How ConstraintTool follows the code

A package is what `load_constraints` returns. `Compile` is the whole of
`smt_compile.py`: every check of `smt_verify.py` in turn (`ValuesOk`,
`StateMachineOk`, `LtlOk`, a bounded model check over the sets of steps a path
of `Depth` may take) and the refusals of the generator (`Emittable`). The
solver's questions are quantifiers over the same bounded domain `0 .. Vmax`.
`Install` attaches one generated definition to each parameter of `motor_run`,
which the code leaves to whoever writes `guard_permissions.c`: any of several is
possible. Then events run the generated rows (`Event`, `guard_state_event`) and
commands are judged as `hex4_guard.c` does after authentication (`Command`): the
mapping of the parameters, the state, the role, the definitions, the gates.

## 3. What TLC checks

| Run | Question | Distinct states |
|---|---|---|
| `replay_window` | Can any traffic make a recently accepted number fresh again? Does the cache serve exactly the recent replies? | 27,865 |
| `replay_host` | Is a retransmitting host safe across the wrap, a restart of the device and a reply that cannot be built? In one life of the device, what was answered is not judged again, nothing issued before it is judged after it, and each retransmission of it is answered with its reply. | 764,431 |
| `guard` | Verdicts, licences, re-runs, and the emergency stop as a refinement, at every interleaving with aborts | 2,799,947 |
| `guard_live` | Does the queue drain, does silence end in the latch? | 469,601 |
| `core` | Do the Verilog core, the C library and ternary arithmetic agree on every operation, after every other? Does the propagator alarm when and only when it should? | 26,361 |
| `ulp` | Is every rise to T2 answered, is no polled event missed, does the watch start, awake or asleep? | 907,117 |
| `link` | Is what is queued what was sent, is silence reported and only silence, does rubbish ever stop the parser, and what overruns its array? | 5,834,240 |
| `policy` | Does the firmware admit exactly what the verified package admits, and keep its formulas? Are the committed tables what the tool generates? | 922,566 |
| `guard_lost_abort` | violation, finding 1 | |
| `guard_rearm` | violation, finding 2 | |
| `ulp_slow_ack` | violation, finding 3 | |
| `link_quiet_reset` | violation, finding 4 | |

The properties, in words, stand above their definitions. The ones a reader
should know:

- `AbortedIffHit`: a command is answered ABORTED exactly when an abort was
  marked between arming and settling.
- `EstopHonoured`: motions are granted outside the latch only and one at a
  time, and the latch is acknowledged only when no grant or motion is
  outstanding. A grant given before the stop trips may still start. That is
  weaker than the documented "no motion while latched", which the code does not
  keep (finding 1), and it is all the code promises.
- `LatchReleasedOnlyByAck`: no race of aborts, mode switches and
  acknowledgements leaves the latch otherwise.
- `RerunOnlyAfterLostReply`, `DenyMeansNeverRan`: a callback runs once for a
  number, except after a reply that could not be built; a refusal (other than
  "stale") means it never ran.
- `FreshNotRecentlyAccepted`, `CacheServesRecentReplies`: the window and the cache,
  about the numbers that were committed.
- `AnsweredNotJudgedAgain`, `AnsweredNotOvertaken`, `RetransmissionGetsItsReply`: what
  a host may rely on for a command the device has answered since it started.
  They say nothing of a command that was judged and whose reply could not be
  built: `hex4_guard.c:91-95` returns before the commit, so that it leaves no trace
  in the window. It may be judged again, or after a later one, or be answered
  DENY_REPLAY although it ran (section 5).
- `T2Stops`: with a consumer that keeps up, whenever the coprocessor rests at T2
  an abort has been reported since the level rose to it, on every path of the
  level, through heartbeats, merged events and acknowledgements. Without that
  proviso it fails (finding 3).
- `PollMissesNothing`: every event number a poll has seen was answered by a poll
  that returned an event or "merged".
- `WatchStarts`: a consumer that is notified, or sleeps lightly on hardware that
  keeps wake-ups, gets the coprocessor to watch for good.
- `LossReportIsEarned`, `SilenceIsReported`: the two halves of "on_link_lost
  means silence". Each names the only tick that may be wrong: one that saw a time
  in two halves may report too early, one during which a frame was accepted may
  report the silence before it or leave the next to its successor.
- `QueuedFramesWereSent`, `WholeFramesAreAccepted`, `QuietLineResyncs`: no
  rubbish becomes a command unless the parser was cleared under the UART task's
  hands; a whole frame with a payload that meets a searching parser is accepted;
  a frame whose rest never comes does not swallow the next one after a quiet gap.
- `OnlyEmptyFramesOverrun`: a payload byte is stored without a look at the size of the
  array (`guard_frame.c:144`); that it stays inside rests on the limit on the declared
  length and on the test `got == len`, while the other task may clear the parser
  between any two steps. Only a length of 0 defeats it (section 5).
- `AdmittedMeetsPackage`, `RefusedBreaksPackage`: equivalence of the firmware's
  judgement and the package's meaning, as formulas on the values and not as
  tables. The premises `BucketsInOrder` and `NumbersFit` are what the tool leaves to the
  author: the order of the buckets, and numbers that the 32-bit and 8-bit fields of
  the tables can hold (section 5). The second is about commands within the verified domain (`WithinDomain`), for
  attachments in which a parameter that others refer to has its ENUM
  (`RefsAttached`): without it the firmware refuses all that refer to it.
- `NoRowIsShadowed`, `LtlHoldsAtRuntime`: the verifier's answers carry over to
  the state machine that runs: unambiguous rows, formulas beyond the bounded
  depth, for parameters that fit 16 bits (`ParamsFit`).
- `CommittedTablesAreGenerated`: the files in the repository are current.
- `BitExact`, `ValidMeansReference`: the core's registers are bit for bit what
  the C function returns, and a valid result is that of the last edge and means
  what it should.

### Bounds

- Sequence space: `2 * Half` stands for 2^32. Six numbers in `replay_window`,
  eight in `guard` and twelve in `replay_host` are enough to wrap, and have
  differences on both sides of the sign. The theorems cover every `Half`. After a
  restart the window starts from the first number it sees, which may be
  `Resendable + Window - 1` behind the newest: less than `Half`.
- `MaxLostReplies = 1` in `replay_host`: one reply, to a verdict or to a refusal, that
  cannot be built, at any point.
- Ring: two slots in `replay_window`, so that a third commit evicts; five in
  `replay_host`. There a host may still resend its latest `Resendable = 3`
  commands: between a command's judgement and its last retransmission at most
  two newer ones can be judged and two older ones be refused as stale, each
  taking a slot, so that `Depth >= 2 * Resendable - 1` keeps every
  retransmission idempotent. With the code's depth of 16 that makes eight
  commands, not the sixteen the documentation speaks of (section 5).
  `MaxCommands = 7` from `Base = 9` wraps at the third command and leaves four
  after it, with one restart of the device at any point.
- `guard`: two frames out of two motions with different numbers, an
  acknowledgement that shares the number of a motion, and one that claims another
  role; one measurement of the coprocessor, one lost reply. That is enough for an
  abort from the sensor and one from the link to meet a motion, an
  acknowledgement after it, and a retransmission of either. `RerunOnly...` is
  about numbers within half the sequence space, which two frames do not leave.
- `guard_live`: a stop and a mode switch that lacks mandatory fields, one frame of
  them, one refresh and one measurement. Mode switches that change the state are
  in `policy`, and in the theorems, which hold for all frames. Bounds of the
  environment (`MaxFrames` ...) only limit how often
  it acts; tasks are never bounded except by the lamp refreshes.
- `core`: nothing is cut but the propagator's byte, which saturates at 3: all 32
  opcodes, all operands, thresholds of 0, inside and at the limit. The theorems
  cover every limit.
- `ulp`: four events, a heartbeat every second cycle, thresholds 0 (where every
  cycle alarms) and 3; consumers that start notified, polling or sleeping
  lightly, prompt or not, and one change of the mode, through which a deep sleep
  is reached too. Four events are the end of the self-test and three of the
  watch: a jump, a heartbeat over it, and what follows. The bound stops the
  coprocessor, so that deadlock is not checked there.
- `link`: two frames of one payload byte, whose value is the first magic byte, or as
  the first of them an empty frame (`OnlyFirst`: what matters is what follows it,
  which the parser takes for its payload); an array of two bytes (`MaxPayload = 2`),
  which the trailer and the head behind an empty frame overrun; one byte lost or inserted (another first magic byte, the one that re-enters the
  search); reads that find everything or six bytes, which cuts a frame inside its
  payload; times up to 4 with a low word of 2, so that halves tear, and limits of
  1. The bounds on time and frames stop the system: deadlock is not checked.
- `policy`: nineteen packages, the committed one and variations of it that follow
  `tests/test_smt_compile.py` and each check of the verifier; nine are accepted,
  among them lower bounds, a parameter without RANGE, ten states in a row, where
  the depth of the bounded check matters, ranges with negative limits and an
  interlock with 256 values, which the C fields cut. `Word = 2^20` stands for 2^32
  (TLC's integers end before); objects have numbers just below it, where negative
  limits end up. Without `NumbersFit` in their premises both properties fail on
  these. Objects take the values at each
  limit and beyond it. A refused package stops: deadlock is not checked.
- `QueueLen = 2` stands for 8. With two frames the queue does not overflow in
  these runs; a dropped frame is in the model (`Arrive`) and in the theorems,
  which hold for every length.

### Fairness

In `HexGuard`, `FairSpec` assumes weak fairness of each task: the FreeRTOS scheduler runs every
task that stays ready (they block at least once per round), and the callbacks
return. Frames, time and the coprocessor owe nothing: no fairness is assumed of
`Arrive`, `GoQuiet`, `UlpMeasure` or `UlpReport`.

In `UlpWatch`, `FairSpec` assumes strong fairness of the coprocessor, which its
timer keeps starting however often the consumer is busy in between, and weak
fairness of the consumer's task. A consumer is `prompt` when it has finished
before the next run starts, which is what `ULP/README.md:186` asks for
("消费速率应高于事件速率", consume faster than events come). Initial states have
consumers that are and that are not; one that sleeps deeply is not, because it
holds the console for seconds after each restart, and the hardware of a prompt one
keeps its wake-ups. `ReplayHost`, `FrameLink` and `ConstraintTool` state safety
only.

## 4. What is proved

All theorems hold for every value of the constants under the named assumptions,
which TLC evaluates in every run:

- `HalfAssumption`, `CacheMaxAssumption`, `SeqCacheDepthAssumption`,
  `QueueAssumption`, `BoundsAssumption`, `TimesAssumption`, `PeriodAssumption`,
  `BaseAssumption`: depths, lengths, limits and bounds are natural numbers, and
  the queue has a place;
- `CountMaxAssumption`, `ThresholdsAssumption`: the propagator's limit is at least
  1 and thresholds do not exceed it (both are bytes);
- `FramesAssumption`, `NoiseAssumption`, `MaxPayloadAssumption`,
  `ConsumersAssumption`: frames are commands or replies whose payload is of bytes,
  possibly none and not more than fit the parser's buffer; noise is bytes; there is
  a consumer;
- `ResendableAssumption`: what the host may still retransmit and what it may have
  outstanding fit into half the sequence space, which is 2^31 in the code;
- `PackagesAssumption`, `ObjectsAssumption`: what `load_constraints` and the JSON
  check guarantee of a package and of a parameter object: numbers are integers
  of any sign and size, those of a command are below `Word`, the initial state and the targets of transitions are declared
  (`smt_dsl.py:333-335`, `362-363`), a package has finitely many states;
- `WordAssumption`, `UnsetAssumption`: a word is wider than 17 bits, and the absent
  parameter of a transition is no number.

### The guard and its state machine (`HexGuardProofs`)

- `TableDeterministic`, `StopAlwaysLatches`, `OnlyAckLeavesLatch`: the generated
  table. The argument names the first matching row (`FirstRowDecides`).
- The inductive invariant of the tasks is
  `IInv == TypeOK /\ SelftestInv /\ JudgedInv /\ MotorInv /\ PendingInv /\ AbortedIffHit`:
  what each label of the guard task has established about the frame it holds;
  that the machine moves only inside the callback; that from arming to settling
  the abort flag equals the history; and, since a licence established at
  `judge` is used at `running`, that a passed self-test is never taken back,
  because its report is under way exactly once (`SelftestInv`), from the word that
  announces it (`ReportComing`) to the task that handles it. From it follow
  `TypeCorrect`, `LicensedExecution` (`CallbackIsLicensed`), `AbortsAreReported`
  (`AbortedIffHit`), `LatchHolds` (`LatchReleasedOnlyByAck`) and `StopContract`:
  every step of the tasks maps to a step or a stutter of `EstopContract`.
- `GuardKeepsMailbox`: the guard application keeps the contract of the mailbox
  (`Spec => Mailbox!Spec`): it takes only wake-ups it was given and starts the watch
  only when the coprocessor has taken the self-test's command away. The second is
  what `SelftestInv` is needed for: the start is in the handling of a report, and
  while the command is SELFTEST no report is pending or handled.
- `RunsOncePerReply` (`RerunOnlyAfterLostReply`) and `RefusalMeansUnrun`
  (`DenyMeansNeverRan`). `RerunInv` counts: a number that is no longer fresh, or is
  being executed, has at most one run that no lost reply excuses; a fresh one has
  none. It is preserved because no commit makes a number fresh again
  (`CommitForgetsNothing`), which is true only while the window moves one way: the
  theorems carry the premise `NumbersNear(base)`, that all frame numbers, and the 0
  under which an unnumbered frame is committed, lie within half the sequence space
  from some `base` on. Over more than 2^31 numbers a number may come round again,
  and the code promises nothing.

### The replay window and the host (`GuardReplayProofs`, `ReplayWindowProofs`, `ReplayHostProofs`)

- `GuardReplayProofs` holds the lemmas: the modular difference, its additivity,
  and what a commit keeps and moves.
- The window: `TypeCorrect`, `WindowRemembers`, `NoSecondJudgement`, `CacheIsExact`.
  "Fresh numbers were not accepted recently" is not inductive: it says nothing
  about numbers that are not fresh now. The strengthening `WindowInv` says the
  window knows the exact distance to each number accepted within half the
  space; a fresh commit adds its advance to all of them, and modular differences
  add up (`SeqDiffAdds`). The wrap is the case where the sum reaches `2 * Half`.
  `CacheIsExact` (`CacheServesRecentReplies`) rests on `RingInv`: the k-th of the
  recent commits is in the slot that the ring index and its age determine, and
  every used slot is one of these. A commit overwrites the slot of the oldest
  and shifts the others' ages by one (`RecentMoves`). That `cache_find` finds a
  lowest slot if there is one (`FirstSlotFound`) is the well-foundedness of `<`.
- The host: `TypeCorrect`, `AnsweredOnce` (`AnsweredNotJudgedAgain`) and
  `AnsweredInOrder` (`AnsweredNotOvertaken`), with any number of replies that cannot
  be built. The window alone promises something
  about half the sequence space; that the host stays within it is `HostInv`:
  what the host issued after the last answered command is either unconfirmed (at
  most `Window` of them) or was confirmed by an earlier life of the device (fewer
  than `Resendable`, because the first command a restarted device answers is one
  that may still be retransmitted). The two together stay below `Half`
  (`HostStaysNear`, by counting sets), so that "fresh" to the device is "later" to
  the host (`FreshMeansLater`), across the wrap of the wire numbers
  (`RemaindersApart`).
- `RetransmissionsGetTheirReply` (`RetransmissionGetsItsReply`), under the premise
  `RingSuffices`: `2 * Resendable - 1 <= Depth`, and the ring, the window and the
  history of the host together stay within the sequence space. While a command can
  be retransmitted, every commit is for another command less than `Resendable` away
  from it, and each of them takes one slot at most once: a full ring of younger
  commits would hold more commands than there are (`Survives`, by counting). Two
  commands in the ring never share a wire number, because the host cannot run a
  sequence space ahead of what the ring still holds (`HeldNear`). With the code's 16
  slots the premise is true of a host that resends its last eight commands.

### The ternary core and the watch (`TernaryCoreProofs`, `UlpWatchProofs`)

- The propagator: the count lies between the current streak of TC results and the TC
  results since the last acknowledgement, and the flags are functions of it
  (`PropInvariant`). From the two bounds follow `EveryStreakAlarms` and
  `EveryAlarmIsEarned`, for every saturation limit and every threshold up to it,
  and `FlagsAgree` (the agreement of its flags, which is only proved).
- The Verilog core: `CoreTypeCorrect`, `HardwareIsBitExact` (`BitExact`: the
  multiplexer and the C dispatch agree on all opcodes and operands, case by case
  over the tables) and `ValidResultsAreReference`. `CoreFeedsPropagator`: every
  edge of the core is a step of the propagator or a stutter, so that
  `CoreAlarms` carries what is proved of the propagator over to the core.
- The watch: `UlpTypeCorrect`, then three strengthenings. `CertainInv`: the
  propagator counts nothing, because no measured level comes out of the pipeline
  uncertain, hence `OnlyZeroThresholdAlarms` (`MeasuringRaisesNoTC`). `PollInv`: a
  number that was polled has its answer, or a higher number comes, hence
  `EveryEventIsPolled` (`PollMissesNothing`).
  `PromptInv`: for a consumer that keeps up, where it can be while the coprocessor
  is at each label (`PromptPlaces`), and what the level now, the level before and
  the event under way then say of each other (`PromptLevels`), hence
  `EveryT2Stops` (`T2Stops`).
- `CoprocessorKeepsMailbox`: with a consumer that stays notified, as the guard's
  is, every step of the program and of that consumer is a step of the contract
  `UlpMailbox` or leaves its words alone. The abstract place of the coprocessor
  (`Stage`) is a function of its label and the event under way; `ContractInv` says
  in which order the command, the report and the wake-up of the self-test are, and
  that a jump is above the ground level. The hypothesis is needed: a consumer that
  polls may start the watch before the self-test's command is gone (section 5).
  With `GuardKeepsMailbox` the two sides meet in one specification, whose
  measurements and events are any the program of `UlpWatch` may produce.

### The link (`FrameLinkProofs`)

- `LinkTypeCorrect`: in particular that the parser's words stay within sixteen bits,
  for which exclusive or, shift and CRC are bounded from single bits upwards
  (`Xor1Type` to `CrcType`).
- `OnlyEmptyFramesEverOverrun` (`OnlyEmptyFramesOverrun`): while the parser takes payload,
  whatever was cleared in between, what it has got stays below a declared length
  that is not 0, and that is at most the array's size.
- `LossReportsAreEarned`, `SilenceAlwaysReported`, `QuietLineAlwaysResyncs` rest on
  `TimeInv`: no time is ahead of the clock; a stored time is that of the last
  accepted frame or about to be; a decision to report, once taken, is right or one
  of the two named races, and stays so whatever is accepted before the report; the
  flag is set only by a report that was made or is under way.
- `WholeFramesAlwaysAccepted` (`WholeFramesAreAccepted`), for payloads of every
  length from 1 to the size of the array, on a link that may carry empty frames too. `FrameInv` says that each byte on the line and in the chunk is noise or
  the byte of a sent frame it is tagged as, and how far the parser has followed the
  frame whose bytes came in order (`FollowsFrame`): its state, the length, the
  number of bytes stored, and that its CRC register is what the loop of
  `guard_crc16` has computed after as many bytes (`Register`). One lemma per part of
  the frame shows that its byte takes the parser on (`FeedsFirst`, `FeedsHead`,
  `FeedsPayload`, `StoredOn`, `FeedsCrc`), from where each part lies in
  the packed frame (`FrameBytes`). That the loop runs to any length (`LoopRuns`) and
  keeps sixteen bits (`RegisterType`) are arguments about a least counterexample
  (`LeastNat`), in place of an induction.
- `WholeFramesIntact` (`WholeFramesArriveIntact`): such a frame is not only accepted;
  what the guard task gets, several steps of both tasks later, is its type and
  every byte of its payload, if it is a command, the queue has room and the parser was
  not cleared in between. `HeldInv` says what the buffer holds of the frame after
  each byte, and that its type and length are kept up to the copy of `on_frame`
  (`CopyWhole`).
- `QueuedFramesAreSent` (`QueuedFramesWereSent`), under the premise
  `[]NoFalseFrame`: bytes that pass the CRC without being a frame fed whole, under a
  parser nobody cleared, are one the host sent. Without a premise the property is
  not true for every value of the constants: with enough lost and inserted bytes
  sixteen bits collide, and a payload may hold the bytes of a frame, which a quiet
  gap in the middle of the outer frame exposes. The premise is about bits; what the
  theorem adds is that no interleaving of the tasks after the comparison turns an
  accepted frame into another one.
- `CrcSeesOneByte`: strings of bytes of equal length that differ in one byte have
  different CRCs. The step of the loop is one to one in its register and in its
  byte (`CrcInjective`: the polynomial is odd, so that a shifted register shows by its
  parity whether it went in; `ShiftInjective`), so that the registers stay apart once
  they are (`RegistersDiffer`). It is a fact of
  `guard_crc16` and not a part of `QueuedFramesAreSent`: a lost byte shifts all that
  follow.

### The constraint tool (`ConstraintToolProofs`)

- `ToolTypeCorrect`. What is installed came out of a passed verification and is what the
  generator makes of the package, its conversions included (`TablesAreVerified`, the
  invariant the others rest on).
- `RowsAreUnambiguous` (`NoRowIsShadowed`): a wildcard of the package becomes a
  wildcard of the table, and rows that match the same input come from transitions
  that `Overlap` would have refused.
- `AdmittedCommandsMeetThePackage` (`AdmittedMeetsPackage`), for every attached entry and
  every interlock. Numbers that fit are written as they are (`EmitFits`, `GatesFit`;
  for a bound of combine2, `BoundsFit`: it is at most `Vmax`). The verifier compares a
  bound with its formula up to `Vmax` only, while a command may carry any number;
  beyond the domain the argument is monotonicity (`ProductGrows`: the product
  grows with the value), so that an upper bound refuses what is larger and a lower
  bound admits it rightly (`BoundIsSafe`).
- `RefusedCommandsBreakThePackage` (`RefusedBreaksPackage`): within the domain the
  solver's bound is exact, not only safe (`BoundIsExact`), so that each ground of a
  refusal is a broken constraint (`SatisfiedMeansPass`).
- `VerifiedFormulasHold` (`LtlHoldsAtRuntime`): the bounded check looks at the states
  that paths of `Depth` steps reach; a path of as many steps as there are states
  meets one twice (`VisitedCloses`, by counting), so that the set it looked at is
  closed under the transitions (`VisitedClosed`) and the running machine never leaves
  it (`RunStep`). The row that runs leads where the verifier's transition does
  (`SuccessorIsTarget`).
- `CommittedTablesFollow` (`CommittedTablesAreGenerated`): the transition table, the
  gates and the definitions that the repository commits are what the generator
  makes of `demo_collab`, whatever else is verified and installed with it. The table
  of speeds is computed: for each load of the ENUM, the largest speed the energy
  formula admits (`DemoBound`, `DemoBounds`); rows and gates are compared
  entry by entry (`DemoRows`, `DemoGates`, `DemoAttached`).
- The premises `BucketsInOrder`, `NumbersFit`, `RefsAttached`, `WithinDomain` and
  `ParamsFit` stand in the properties.

### Only model-checked

- `CommandsDrain`, `LinkLossLatches` and `WatchStarts`: liveness is out of the prover's reach.
- That the premise `NoFalseFrame` of `QueuedFramesAreSent` holds: `link` shows
  `QueuedFramesWereSent` without it for one disturbed byte.
- What a recursive definition computes (the CRC of given bytes, the meaning of a
  package's formulas as a whole) is not computed in proofs; they use how one step
  follows from the one before.
- The four runs that expect a violation have no theorem, nor have the observations
  below.

## 5. Findings

1. **A motion may start in the latched state** (`guard_lost_abort`). An abort
   after `guard_state_allows` and before the callback latches, stops a machine
   that does not move yet, and the callback starts it; if the abort came before
   `s_abort_pending = false` (`hex4_guard.c:379`), it is forgotten and the reply
   is ALLOW. `demo_collab.yaml:119` states `G(!(ESTOP_LATCH & allow_motion))`.
2. **A frame may fail to re-arm the link-lost detector** (`guard_rearm`).
   `guard_uart_tick` checks the flag and then sets it, `guard_uart_feed` clears
   it from another task in between; the next silence is then not reported, until
   another frame has come. `guard_uart.h:49` says a valid frame re-arms it.
3. **A slow acknowledgement hides a rise to T2** (`ulp_slow_ack`).
   `hex4_ulp_ack_alarm` copies the level as it is now into `state_prev`
   (`hex4_ulp_app.c:260`). When the next cycle has measured T2 and not compared
   it yet, the comparison sees no rise: no jump is raised, and nothing stops the
   machine while the level stays at T2. It takes a consumer that is late by a
   watch period. `esp32s3_hex4_guard/README.md:161` says crossing into T2 is an
   emergency stop.
4. **The tick may clear the parser under a healthy frame** (`link_quiet_reset`).
   `guard_uart_feed` notes the time of the last byte after the whole chunk
   (`guard_uart.c:119`). After a quiet line the first chunk of a frame moves the
   parser while that time is still old; a tick in between sees a state other than
   SYNC0 and an old time, and drops the frame. `guard_uart.c:128` says that a gap
   between the bytes of a frame drops the rest of it; there was none. The host's
   retransmission repairs it.

Observations that no run stands for:

- A refusal of a stale frame is committed and takes a slot of the ring
  (`hex4_guard.c:151-156`), although `guard_replay.h:76` says commit is for FRESH
  commands only: stale frames evict replies the design document promises to keep.
  `replay_host` shows how many retransmissions stay idempotent nevertheless.
- A lamp refresh that asked `hex4_guard_abort_latched` before the hold was set
  paints over the red lamp after it (`DEMO:193-212`, against `hex4_guard.h:98`).
- `run_selftest` raises `evt_seq` before it writes `cmd = IDLE`
  (`hex4_ulp_main.c:40-42`). A poll in between returns SELFTEST_DONE, its caller
  starts the watch, and the late write cancels it. With the interrupt, which
  comes after the write, it does not happen (`WatchStarts`).
- On hardware that does not keep a wake-up given to a processor still awake, the
  demo may fall asleep just after the end of the self-test and the watch never
  starts: `hex4_ulp_sleep` does not look at the mailbox before it sleeps.
- The test key starts a self-test and then handles the status it finds: an old
  alarm there is acknowledged with `cmd = WATCH`, which takes the requested
  self-test back (`hex4_demo_main.c:175,194`).
- After a restart of the device a command it had judged is judged again when it
  is the first to arrive: nothing is persisted. The properties of `ReplayHost` are
  about one life of the device.
- A command whose reply cannot be built (`guard_reply.c:27`, `65`, `70`) has been
  judged, and may have run, but is not committed (`hex4_guard.c:91-95`, against the
  comment of line 70 that all replies enter the cache). Its retransmission is judged,
  and runs, again; once a later command was answered it is refused as a replay
  instead. With two such replies commands are judged out of order. `HexGuard` counts
  the runs (`RerunOnlyAfterLostReply`).
- A frame with a declared length of 0 is never accepted: the first byte of its CRC is
  stored as payload, `got == len` never holds, and the parser takes whatever follows
  for payload, past the end of `payload[480]` (`guard_frame.c:144-146`), until the tick
  clears it after a quiet gap. `guard_frame_pack` builds such frames and
  `test_guard_protocol.c:147-151` packs one; `guard_frame.h:49` says rubbish never
  loses the synchronisation for good. The tick makes one out of other frames too, by
  clearing the parser between the switch and the case of `GF_LEN1`. What a write past
  the array does is undefined: `FrameLink` stops at it (`Overrun`).
- A frame complete before `hex4_guard_start` has created the queue hits FreeRTOS'
  assertion and restarts the chip (`Panic`; `hex4_guard.c:450`).
- A damaged head that announces more bytes swallows the frames behind it, up to
  the announced length or a quiet gap; `WholeFramesAreAccepted` therefore starts
  with a searching parser.
- The verifier compares buckets and ENUM as sets, the firmware takes the position
  (`smt_verify.py:148`); a transition parameter of 65535 becomes the wildcard, a
  larger one is cut (`smt_codegen.py:162`). `BucketsInOrder` and `ParamsFit` name
  what the author must keep to.
- The generator prints numbers as unsigned into fields of 32 and 8 bits without a
  check (`smt_codegen.py:52`, `57`, `97`, `129-133`), and the loader takes any integer
  (`smt_dsl.py:250`, `256`, `287`). A RANGE of -90 to 250 refuses every value, one of
  -90 to -10 admits the values 4294967206 to 4294967286, an interlock with 256 values
  denies nothing, and beyond 255 interlocks their number is cut.
  `smt_verify.py:14-15` calls the equivalence of these tables trivial ("直通", passed
  through). `NumbersFit` names what the author must keep to.
- A package without any interlock gets no `g_gen_action_gates` (`smt_codegen.py:258`,
  `273`), whose number `guard_policy.c:114` needs: such a firmware does not build
  (`Install`).
- The bounded model check gives an event with a parameter only the values of its
  ENUM; a formula G(p -> q) without X that holds ends in an IndexError and one that fails
  is refused (`smt_verify.py:427-431`), so no package with such a formula passes.
- `smt_compile.py --check` tests only that the generated files exist. That
  they are current is `CommittedTablesAreGenerated`.
- The gain of FIT_SCALE is the first operand in both tables, the second in the
  white paper (`docs/HEX4-Truth扩展运算技术白皮书.md:238-243`) and in the comment
  above the Verilog table. `Reference` follows the tables.
- A TC alarm cannot come from the watched level, which is T0, T1 or T2 and whose
  pipeline adds no uncertainty (`MeasuringRaisesNoTC`), unless the threshold is
  configured to 0, when every cycle alarms.
- A poll may report one event twice or two as one: the number is read before
  the status. None is lost altogether (`PollMissesNothing`).

## 6. What is not modelled, and why

- Statistics, diagnostic fields of replies, logs: nothing depends on them.
- Keys, MACs, JSON and the canonical encoding: functions of data; their outcome
  is a field of a frame. The demo's callbacks are reduced to whether the
  machine moves.
- Blinking phases and the lamp's waveform: output. The colour is in `HexGuard`, because
  three tasks set it between the steps that matter, but no property speaks of it:
  what the code promises of it, it does not keep (section 5).
- In `FrameLink` one case of the parser's switch (`Body`) is one step, although it
  writes several fields, and so are the comparison of the CRCs, the hand-out of type
  and length and the reading of the clock (`Accept`): a clearing by the tick falls
  before or after them. The test `got == len`, the time, the flag and the copy of the
  payload are steps of their own.
- `HexGuard` abstracts the link: a frame arrives whole and silence is a flag.
  `FrameLink` has the bytes and the times, and abstracts the handling of a frame
  to its removal from the queue. Sending a reply, and the driver, are no state.
- In `HexGuard` the coprocessor is environment, reduced to the contract
  `UlpMailbox`: any level may be measured and any event follow it, except a jump to
  the ground level. That this contains what the program of `UlpWatch` does is
  `CoprocessorKeepsMailbox`. The order of the branches, the period and the propagator are in
  `UlpWatch` only.
- In `UlpWatch`: the comparison of the self-test's trace, the error paths of
  `hex4_ulp_init` (they return before anything runs), changed thresholds (a level
  is any of three in each cycle, whatever they are), and a reset of the
  coprocessor in the middle of the propagator's update, which is one step.
- The propagator's lifetime totals and rate; the combinational variant of the
  Verilog core; the names of opcodes; the benchmark, which measures.
- The text of a package, of its expressions, of the generated files and of the
  report: `ConstraintTool` begins with what the parser returns and ends with the
  tables' contents.
- A restart of the device in `HexGuard`: nothing is persisted, so the state after
  it is an initial state; what the host sees of it is in `ReplayHost`.
- A number outside 32 bits is cast from double (`hex4_guard.c:138`), which is
  undefined; its outcome is some number, and frames carry any.
- Heap poisoning is off in the project's configuration, so the freed number of
  an incomplete frame is its old value or no number; other contents (the block
  reallocated by another task meanwhile) would be one more number, as a frame
  with that number would give.

## 7. Plan

Done: all modules of section 2. Next, in this order:

1. `FrameLink` shown to implement the arrivals of `HexGuard`'s environment, as
   `UlpWatch` does its mailbox.
2. The lamp driver: the colour and its phase, which the tick of one task advances
   while others set it.
3. The self-test's trace and the error paths of the coprocessor's start.

Theorems to come: the refinement of item 1, step by step; for `FrameLink`, that
an undisturbed line delivers commands in the order they were sent.
