# TLA+ models of the magnetic levitation controller

The repository holds the firmware of a magnetic levitation controller for the CH32X035 (`fw/`), the host tools that talk to it
over USB (`pc/`) and the board (`hw/`).  This directory models the parts whose correctness depends on the order of events or
on the edges of an arithmetic: the USB link in both directions, the command protocol, the host's end of it, the telemetry
stream from the device to the plot, the path from a host command to the power stage, the current loop, and the scheduler.

## The system

One core runs cooperative tasks from a scheduler; the USB interrupt preempts them, and the DMA writes beside them.  There are
no locks.  The host is a single thread on a serial port.

| Component | Source | State | Operations | Interacts by |
|---|---|---|---|---|
| USB CDC transmit path | `app/comms/usb_cdc.c`, `lib/fsusb.c` | transmit ring, endpoint 3 (length, buffer, toggle, ACK/NAK, busy), control endpoint (remaining length, errata flag) | `usb_cdc_tx_send`, `task_usb_cdc`, `USBFS_SendEndpoint`, `HandleInRequest`, `USBFS_IRQHandler` | shared state of tasks and interrupt; packets to the host |
| USB CDC receive path | `usb_cdc.c`, `fsusb.c` | receive ring | `HandleDataOut`, `usb_cdc_rx_available`, `usb_cdc_rx_read` | ring between interrupt and task |
| Binary protocol | `app/comms/protocol.c` | none between polls | `protocol_bridge_poll`, `_read_value`, `_write_value`, the replies | reads the receive ring; calls parameters; replies through the transmit ring |
| Parameters | `app/comms/parameters.c` | the value table | `parameters_init`, `_publish`, `_fetch`, `_find` | called by every task |
| Telemetry | `app/comms/telemetry.c`, `pc/telemetry.py` | frame number, dropped count; decoder buffer, last number, gaps, samples | `telemetry_capture`; `feed`, `discard`, `pause`, `resume` | called by the current control task; writes the transmit ring; read by the host |
| State machine | `app/system/fsm.c` | `state`, the GD_EN pin | `task_fsm` | reads `enable`; read by current control |
| Current control and PWM | `app/control/current_control.c`, `control_f16.c` | DMA ring and read index, measurements, controller, cached gains, TIM1 registers | `task_current_control`, `drain_adc_dma`, `pid_f16_run` | reads parameters and the state machine; publishes measurements |
| Scheduler | `lib/scheduler.c` | task table, CPU window | `scheduler_run`, `_add_task`, `_set_task_frequency`, `_start_task`, `_stop_task` | calls the tasks |
| Setpoint and temperature | `setpoint.c` | the temperature | `task_setpoint` | reads an ADC average, publishes a parameter |
| Position, LEDs, USB PD | `position_control.c`, `leds.c`, `usb_pd.c` | little or none | their tasks | parameters, pins |
| Host transport | `pc/transport.py`, `pc/cli.py` | port buffer, bytes received since the request | `drain_input_buffer`, `request`, `read_param`, `write_param`, `extract_reply_frame` | the byte stream; hands what it reads to the plot |

What is hard here: the interrupt runs between any two accesses of a task (each ring has one writer and one reader and no
lock; the endpoint is written by both); handshakes and bus resets are the host's to lose or to give, and commands come cut,
repeated or dropped; the DMA laps a reader that keeps no count; the byte stream to the host has no marks, carries three kinds
of message and is read in arbitrary parts, and an answer names its request only sometimes; the power stage is held by two
tasks, each with a period of its own, that look at a parameter written by a third; arithmetic is in 16.16 fixed point, 16-bit
timer registers and one-byte frame numbers.

## Modules

| Module | What it is |
|---|---|
| `BytePipe` | abstract: a pipe of bytes from the firmware to the host that loses some at a bus reset, which is counted, only, or at any time |
| `UsbCdc` | the transmit path with the USB interrupt, the control endpoint and the host; implements `BytePipe` |
| `UsbCdcProof` | theorems about it |
| `Parameters` | the parameter table: sizes, directions, wiping, publishing; used by the next two |
| `ParamStore` | abstract: a device that serves commands one by one, in order, from the table |
| `Protocol` | the receive ring, the interrupt that fills it and the parser that empties it; implements `ParamStore` |
| `ProtocolProof` | theorems about it |
| `Drive` | the state machine, the current control task, the PWM timer and the host's writes |
| `DriveProof` | theorems about it |
| `CurrentLoop` | the ADC's DMA ring, its reader, the PI controller and the temperature table |
| `CurrentLoopProof` | theorems about it |
| `Scheduler` | `scheduler_run` with the tick counter, and the operations a task may call |
| `SchedulerProof` | theorems about it |
| `HostPort` | the host's serial port, read in arbitrary parts, and the telemetry frame; used by the next two |
| `Transport` | requests of the host and how their answers are found |
| `TransportProof` | theorems about it |
| `Telemetry` | the decoder and the account of the live plot |
| `TelemetryProof` | theorems about it |
| `BasicFacts` | lemmas the proofs share: induction, recursive functions, remainders, parts of sequences |
| `MC...` | small instances of each for TLC |

A definition named `X_Suffix` is a faulty variant of `X`, kept beside it to show which property notices that fault; nothing
else uses it.  Variables under the words "an account" are not state of the program: they remember what happened so that a
property can speak of it, and no step of the program looks at them.

### UsbCdc

A task runs step by step, and the interrupt takes place between any two steps unless `USBFS_SendEndpoint` has masked it.
`pc` says where in `usb_cdc_tx_send` or `USBFS_SendEndpoint` the running task stands, and `msg` what it has still to queue.

* `TelemetryCapture`, `SendReply`: `telemetry_capture`, which asks whether the frame fits; `protocol_send_frame` and
  `protocol_log_write`, which do not.
* `TxCheck`, `TxStore`, `TxPublish`: the loop of `usb_cdc_tx_send`: test for a full ring, store, publish the head.
* `TaskUsbCdc`, `SendCheck`, `SendMask`, `SendArm`, `SendUnmask`: `task_usb_cdc` and `USBFS_SendEndpoint(3, 0)`.
* `IrqIn3`, `IrqIn0`, `IrqOut0`, `IrqSetup`, `IrqSetConfiguration`, `IrqBusReset`: the cases of `USBFS_IRQHandler`, each one
  step, as no other interrupt preempts it.
* `HostPoll`, `HostSetup`, `HostControl`, `HostBusReset`: the host.  They are not code of this repository; they follow from
  what `fsusb.c` expects of the hardware: the engine answers NAK while an interrupt flag is set (`USBFS_UC_INT_BUSY`), so at
  most one event waits; a packet with an unexpected toggle is discarded by the host; a lost handshake causes no event.

`USBFS_SetupReqLen` is counted in packets.  The early return -3 of `USBFS_SendEndpoint` is left out: a SETUP that is being
processed has its interrupt taken before the task goes on.

A request the device does not support goes to `sendstall` (`fsusb.c:284, 410, 439, 659-666`): the handler has stored its length in
`USBFS_SetupReqLen`, the host is answered with STALL and its transfer is over, so that no interrupt follows that would clear the
length.  This is the setup `"refused"`: any length is left, and the host stays at the stage `"refused"` until it makes another request
or resets the bus.  The errata flag, if the host gave up a request for this one, is left likewise.

### Parameters, ParamStore, Protocol

A parameter's value is the sequence of bytes it has on the wire, which is also how every format of the table is stored and
fetched.  `ParamStore` is what a host relies on: commands are answered in the order they were sent, each from the table as it
then is; a repeated command is just a second one.  It serves them in rounds: those that are there when a round begins, which is
what one poll takes.  A WRITE without data ends the round, and what is left of it is dropped unanswered (`protocol.c:282`); no
other command may be.  It says where that ends, too: the device may lose track (`Lose`) when more
bytes of commands wait than the ring holds or when a command comes in two parts, and then only the measured values are safe
(`Astray`), until nothing is left to serve.

* `HostSends`, `HandleDataOut`: a command in one packet or two; the interrupt puts a packet into the ring, drops what does not
  fit, and may get it again, since the OUT branch of endpoint 2 (`fsusb.c:257-263`) does not look at the toggle.
* `PollBegin`, `ReadByte`: `usb_cdc_rx_available` and the loop of `usb_cdc_rx_read`; the interrupt comes between any two bytes.
* `ParseList`, `ParseShort`, `ParseRead`, `ParseWriteMissing`, `ParseWrite`, `ParseOther`: the branches of the loop in
  `protocol_bridge_poll`, one turn each; `PollEnd` its end.  The transmit ring is `UsbCdc`'s; here a reply is what is handed to it.
* `TaskPublishes`: another task publishes a value, between two polls.
* `todo`, `taken`, `lost`: the account of commands that arrived, those of them in the frame, and whether the device is in step.

`Serves` maps the table to `store` and everything else by name.

### Drive

A task is one step, because tasks run to completion and nothing here is shared with the interrupt; the order of tasks is
left open, so that what holds here holds under any schedule.

* `FsmInit`, `FsmIdle`, `FsmControl`, `FsmReset`: the cases of `task_fsm`.  `FSM_FAULT` is unreachable: it is entered only if
  `parameters_fetch(PARAM_ID_ENABLE)` fails, which it cannot.
* `ControlLoop`, `ControlOff`: `task_current_control` in and out of the current-control state, each with `drain_adc_dma` (a new
  supply measurement or none) and `update_current_controller_parameters` (`Updated`, `Period`).
* `HostEnable`, `HostTune`: parameter writes, which `task_usb_cdc` executes.
* `fsmSince`, `ccSince` count the task runs since `enable` was last written.

The duty cycle is modelled at 0, 1/2 and 1 (in halves), the controller's output at its limits and 0; `Ticks`, `PeriodTicks`
and `Applied` compute real register values from real frequencies.

### CurrentLoop

`Drive` with the inside of `drain_adc_dma` and `pid_f16_run`, and without the timer.  The ring holds the number each sample has
since power-up, and `Value` says what the ADC read for it; so a property can tell whether a sample is the one it is taken for.

* `DmaWrites`: one conversion, at any time, also between two reads of the task; `written` stands for `CNTR`.
* `DrainBegin` reads the write position once; `DrainSample` adds one sample; `Control` is the rest of the task: `Averages`, then
  `NewIntegral` and `NewOut` (`pid_f16_run`), or the reset of the controller when the state machine is elsewhere.
* `FixAdd`, `FixSub`, `FixMul`, `Wrap`: `fix16.c` for a word of any size, with its rounding and the value it returns on overflow.
* `HostGains`: the host writes a gain, of either sign, and `update_current_controller_parameters` hands it to the next run; that the
  program keeps a copy of the last one, which may hide a change, is `Drive`'s subject.  `opposed` remembers that the integral
  comes from a run with gains of opposite signs: there the anti-windup of `pid_f16_run` does not bound it by the supply.
* `TaskSetpoint`, `Temperature`: `task_setpoint` with the table of the firmware; the fraction is in 64ths, which is what
  `fract << 10` is in 65536ths.
* `HostSetpoint`, `FsmSwitches`: what the other tasks change.
* `snap`, `base`, `overrun`, `right`: the account of a drain: the whole frames there when it began, the first of them it reads,
  whether the DMA has overwritten one of them unread, and whether every sample was the right one.

### Scheduler

One step is one turn of the loop in `scheduler_run`: the due task of the shortest period runs (`RunTask`), or none is due
(`IdleTurn`), and the end of the turn looks after the CPU window (`CloseTurn`).  A turn takes some ticks of the 32-bit counter,
up to `Cost` of the task.  `Calls` is what a task may do to the scheduler while it runs (`SetTaskFrequency`, `StopTask`,
`StartTask`); the tasks of this firmware do nothing of the kind, and `Undisturbed` restricts a property to their behaviour.
`owed` counts the ticks since a task was added, less a period for every run, without wrapping, and is what `last_tick` is
compared with; `ran` remembers the last turn.

### HostPort, Transport, Telemetry

`wire` holds the messages that have arrived at the port and have not been read.  A read takes some whole messages and perhaps a
part of the next (`Parts`, `Chunk`, `Advance`), so that the program sees bytes without marks.

* `Transport`: `DeviceAnswers` answers commands in their order, as `Protocol` has it, and may cut an answer where the transmit ring
  is full; `Request`, `Send`, `Receive`, `TimeOut`, `Finish` are `request` with the two calls of `drain_input_buffer`; `Extract` is
  `extract_reply_frame`, for WRITE `_extract_status_reply`.  `late`, `cut`, `torn` account for what was on its way
  when the command was sent and after, `begun` for where in the bytes received an answer with a value begins.
* `Telemetry`: `DeviceFrame` and `DeviceOther` send; `Read` is the console's loop, or a request that hands on what it reads;
  `Overlook` is what `reset_input_buffer` drops and what `list_params` does not hand on; `Scan` is `TelemetryDecoder.feed`, `Shown`
  and `Discarded` are `LiveTelemetryPlot.feed` and `discard` for one frame.  `expected` is found in another way, from
  the stream as a whole, byte by byte (`AllFrames`).

The exclusive or of the checksum is the constant `ByteXor`; the runs give it `^^` on the bits of a byte, and the proofs
need only that it maps bytes to bytes.

## Runs

| Run | Shows |
|---|---|
| `usb_stream` | the stream refines the lossy `BytePipe` (`InOrder`); frames are queued whole (`FramesWhole`) |
| `usb_link` | `TypeOK`; a busy endpoint has a packet to give (`BusyEnds`); accepted bytes are lost only where `USBFS_SendEndpoint` writes the length (`LostOnlyByArm`); queued bytes move on, unless the host's last request was refused (`QueueDrains`) |
| `usb_stall` | violated: after a refused request nothing is sent until the host makes another (`Flushes`) |
| `usb_lossless` | violated: accepted bytes are lost without a bus reset (`NothingLost`) |
| `protocol` | `TypeOK`; the device refines `ParamStore` (`Serves`); the host never changes a measured value (`MeasuredKept`); a command that arrived is answered (`Answers`) |
| `drive` | `TypeOK`, `GateLatency`, `BridgeLatency`, `CompareInRange`, `GainsTracked`; gate driver and bridge settle as the host asks (`EnableHonoured`) |
| `drive_zero` | violated: with no supply, an output of 0 is a full duty cycle (`ZeroCommandZeroVoltage`) |
| `loop` | `TypeOK`; every sample is taken for what it is (`WholeFrames`), none is skipped (`NoneSkipped`); the integral does not wind up, while set point, gains, supply and state machine change, unless the gains had opposite signs (`NoWindup`), and does move (`Integrates`); the temperature follows the reading (`TemperatureRises`) |
| `sched` | `TypeOK`; `last_tick` stands for the runs a task has had (`NeverAhead`); the most urgent task waits for one turn (`TopLatency`); no task falls a wrap behind (`NoRunForgotten`), and each is run again and again (`EveryTaskRuns`) |
| `transport` | `TypeOK`; a WRITE returns the answer to it, under stated conditions (`OwnAnswer`); a READ among frames, late and cut answers returns a value of its id, and its own if nothing older was on its way, unless bytes that are no answer look like one (`ValueOfId`), and does not overlook its answer (`AnswerSeen`) |
| `transport_ack` | violated: part of a telemetry frame is taken for an acknowledgement (`AckIsReal`) |
| `telemetry` | `TypeOK`; the decoder finds what is in the whole stream (`Decodes`); what is counted as missing is what was sent between a frame shown and the one found before it, wherever the frames found stand in what was sent (`Accounted`) |

Deadlock is checked in every run but the two of `Transport`, where a user who has made the last request, and a device that has
answered, may stop.

Bounds.

* `UsbCdc`: a ring of 3 or 4 slots and packets of 1 or 2 bytes: the ring wraps, fills and empties, holds more and
  less than a packet, and a frame is longer than what is free.  Bytes are told apart in `usb_stream`, so that order and
  repetition show; `usb_link` needs only their number.  `MaxControl` (control transfers the host starts and may abandon) is 2
  in `usb_link`, so that a refused request may follow an abandoned one, and `MaxReset` 1, so that a reset may come in the middle of
  either: together they reach every flag that gates sending.
* `Protocol`: bytes of four values, so that each of them is a command, an unknown byte or data; a ring of 8 slots, which two
  commands overfill; three parameters, one for each direction, one with a second identifier byte that is not 0; a list,
  reads and writes allowed and refused, too long, empty, and with data that looks like a command; `MaxSends` = 2 commands, each of
  them whole, in two parts, or twice.
* `Drive`: the gains 0 and 1 beside the initial one, and frequencies that are refused (24 MHz), wrapped (30 MHz) and truncated
  (200 Hz), the last two to a period that is negative as fix16; one press of the reset button.  Frequencies are below `MaxFreq` =
  2^30 - 1, so that `2U * frequency_hz` does not wrap.
* `CurrentLoop`: a ring of 3 frames and `MaxFrames` = 4, so that the DMA goes round it and laps a drain, and the controller runs
  any number of times between and after the frames; words of eight bits with two behind the point; three frames in turn, with
  the current in both directions and a supply that fails; two set points, which make errors of both signs, and a gain that
  turns the sign of either term.  The gains are such that `InRange` holds: TLC evaluates it (`NothingOverflows`).  The
  temperature table is the firmware's own, and the readings lie on an entry, between two and at the end.
* `Scheduler`: a second of 12 ticks and a counter of 22 values, so that a run goes through every phase of the periods 3, 6 and 12
  and through the wrap, which is not a multiple of the longest; the costs 1, 2 and 3 use at most 11 of 12 ticks, since what the
  tasks really take is not to be found in the repository.  One call (`MaxCalls`) stops, starts or slows down a task.
* `Transport`: bytes of sixteen values and frames of eight bytes; a payload and values that look like an acknowledgement and like an
  empty value of another id, as 80 01 00 00 does in the firmware, and one of more than four bytes, all of a size that is accepted
  (`MaxSize`, 32 in the code); answers cut behind three bytes; reads that end in two places of a message; two requests, so that an answer comes
  late; three frames, the number of which wraps.
* `Telemetry`: bytes of eight values and frames of six bytes; a payload whose end looks like half a sync word or, with the checksum,
  like a whole one; reads that end in two places of a message; three frames, the number of which wraps.

Fairness.  `UsbCdc`: a pending interrupt is taken (weak fairness); the interrupted task and `task_usb_cdc` go on if
interrupts leave them the core again and again (strong fairness, as each interrupt disables them); the host polls a
configured device, completes control transfers and configures a device after a reset, and some handshakes arrive.  Without
the host's part nothing could drain.  It need not make another request after one that was refused: no host must, and with that
fairness `Flushes` would hold.  `Protocol`: `task_usb_cdc` is called again and again and a poll it began ends (weak
fairness of `Poll`).  `Scheduler`: the loop goes on (`while (1)`), and a turn takes no more than its cost.  `Drive`: both tasks
are run again and again (weak fairness); the scheduler gives the core to the due task of the shortest period, so this asks
that the tasks do not use up the core.  Nothing is assumed of the host there.

## Proofs

The prover checks, for every value of the constants that satisfies the named assumptions of each module:

* `UsbCdcProof`: `TypeCorrect`, `BusyEndsCorrect`, `LostOnlyByArmCorrect` and `InOrderCorrect`, that is, the refinement of the lossy
  `BytePipe` by `UsbCdc` for every ring size, packet size and set of messages.  The argument: the undelivered bytes are those staged
  on the endpoint and not yet accepted by the host, followed by those between tail and head.  The inductive invariant says
  besides types that a store never hits a slot the host has still to get (the ring is not full while `pc` is `tx_store`), that
  a staged packet belongs to the front of the stream (toggles agree), and that busy means armed.  Each step then maps to a
  step of the pipe or to a stutter; the lemmas `Drain`, `Fill` and `Store` say what each does to the sequence.
  `FramesWholeCorrect` assumes `Marked`: the bytes of a frame differ from each other and from those of replies, so that a byte
  in the queue says which place of a frame it has (the firmware looks at no byte, so the assumption only labels them).  Its
  invariant adds that a frame being queued fits what is free, and that each byte of a frame stands behind its
  predecessor and before its successor, or before what is still to be queued.
* `ProtocolProof`: `TypeCorrect` and `MeasuredKeptCorrect`.  The invariant adds to the types that what the host is sending is made of
  bytes and that the frame with what is still to be read fits its buffer; of the parser it needs that a length byte stands
  before a payload that is all there.  `MeasuredKept` then follows from the two places that call `parameters_publish`.
  `ServesCorrect` is the refinement of `ParamStore`.  Its invariant `Linked` says that, unless the device has
  lost track, the bytes in frame, ring and on their way spell the commands still due, one behind the other, with a cut where a
  read has ended inside one (`Spells`).  Then what the parser finds at its position is the head of `todo`, a command that is
  only in part in the frame makes it lose track at `PollEnd` and nowhere else, and a packet dropped or repeated is one
  that `ParamStore` allows.
* `DriveProof`: `TypeCorrect`, `GateLatencyCorrect`, `BridgeLatencyCorrect`, `CompareCorrect` and `GainsCorrect`.  `GateLatency` is
  not inductive: `GateInv` adds where `task_fsm` stands one run after `enable` was written, and `BridgeInv` that the control task
  counts only after that.  `CompareInRange` rests on `TicksInPeriod`, a statement about `current_control_duty_to_ticks` for all
  duty cycles and periods.
* `CurrentLoopProof`: `WholeFramesCorrect` and `NoneSkippedCorrect`.  `RingInv` says which sample each slot of the ring holds (the
  last one the DMA wrote there), that the read index is the count of frames read modulo the length of the ring, and that the
  samples still to be read are not overwritten unless `overrun` says so.  The lemmas on `%` (`ModTurns`, `ModStep`, `ModDistance`)
  carry the indices round the ring.  `TypeCorrect` holds for every word, whatever overflows; `NoWindupCorrect` and
  `IntegratesCorrect` if `InRange` holds, that is, if no sum and product for a set point and the gains of the host leaves the word.
  `MeasureInv` bounds sums, averages and the measured supply and current by the greatest reading.  `TermSigns` is the step that needs
  gains of one sign: both terms then push the same way, so that an integral beyond the limit would be frozen.
  `TemperatureRisesCorrect` is for every table the entries of which do not fall (`LutAssumption`, which TLC evaluates for the
  table of the firmware): readings between the same two entries are compared by their fraction, readings on two
  sides of an entry by the entry.
* `SchedulerProof`: `TypeCorrect`, `NeverAheadCorrect` (tasks call for one another only) and `TopLatencyCorrect` (besides, `Margins`: no
  task takes longer than its period, and the counter is wide enough).  The lemma `Account` says that reducing
  `now` and `last_tick` modulo the width of the counter keeps their difference equal, modulo the width, to what is owed; `NotDue`
  turns that into a bound, as long as less than a wrap is owed, which `TopLatency` itself supplies: the conjunction is inductive.
  `NoRunForgottenCorrect` is for the tasks of this firmware, which do not call the scheduler, if the core is not
  overloaded: `SharedOut` asks for a weight of each task such that its cost times the sum of the weights is at most its
  weight times its period (and that the counter is wide enough for it), which TLC evaluates for the instance.  The inductive
  invariant is on the weighted sum of what all tasks owe, which no turn raises above `Limit`: a run takes at least as much off
  it as the ticks that pass add to it.
* `TelemetryProof`: `DecodesCorrect`, `AccountedCorrect` and `TypeCorrect`, for every sync word, size of frame, checksum operation,
  messages and ways to read them.  `DecodeInv` says that the decoder's buffer is the end of what the account keeps of the stream,
  and that no sync word begins in what it has dropped (`KeptUp`); the lemma `Finds` shows that a scan of such a buffer finds what
  a search of the stream finds, and leaves such a buffer again.  `PlotInv` says that the last number is that of the last frame
  found and that `missing` sums the gaps less 1 of the frames shown; `SentInv` that the numbers of the frames sent follow each
  other modulo `Base`.  A gap of less than a round then tells how many frames were sent between two places.
* `TransportProof`: `TypeCorrect`, `OwnAnswerCorrect`, `ValueOfIdCorrect` and `AnswerSeenCorrect`, from `TransportAssumption` alone: it
  gives frames, commands and values their types and sizes and says that `CMD_REPLY` is neither 0, nor 1, nor the first sync byte.
  Nothing is assumed of what frames and values contain.
  `OwnInv` says of a WRITE that all but one of the messages at
  the port are frames, that this one, or the next the device sends, is the answer, and that what was received is frames one
  after the other (`Quiet`), or these and the first byte of the answer (`Half`).  The search of `_extract_status_reply` comes past
  such frames (`Skips`): it finds nothing in the one and in the other (`NoStatus`) and the answer as soon as it stands behind
  them (`TheStatus`).  Where a read ends inside a frame the argument breaks, as the code does in `transport_ack`.
  `ValueInv` is about READ.  Each member of `begun` is an answer that stands in what was received from its place on (`StandsAt`), all of it
  or as far as has been read, the rest of it being the first message at the port (`Stands`).  A place where an object of the id is found is then
  either that of an answer, and the object is this answer (`ValueFound`), or a `Lookalike`; the longest one does not matter.  If nothing
  older was on its way, all members are the device's own answer.  `AnswerSeen` is the other direction: an answer that has
  been read to its end has a place at which `ObjectStarts` finds it.

Induction over the data goes through `BasicFacts`: a set of natural numbers has a least member (from `WFMin`), so that a
counterexample at n has none before it (`Climb`); and a recursive function is the function its equation describes because one
that satisfies it exists, which is shown the same way (`Ascent`, `Descent`).  No theorem of the library that takes an operator is
needed for that.

Only model-checked: `QueueDrains`, `Answers`, `EnableHonoured` and `EveryTaskRuns` are liveness
under fairness, which the prover does not do; the violations are counterexamples, which need no proof.

## Disagreements found

Four runs end in a violation, each of a statement made in the code (quoted in `PROJECT.json`, `findings`):

* accepted bytes are lost when `task_usb_cdc` arms an endpoint already staged (`usb_lossless`);
* a refused request leaves `USBFS_SetupReqLen` set, and nothing is sent until the host makes another (`usb_stall`);
* division by a supply of 0 turns an output of 0 into a full duty cycle (`drive_zero`);
* the bytes of a telemetry frame that has arrived in part are taken for the acknowledgement of a WRITE (`transport_ack`).

Seen while modelling, without a run of its own:

* `current_control.c:51`: the copies of the gains start at 0, so that a gain of 0 never reaches the controller unless another was
  written before.  `GainsTracked` allows that and nothing else.
* `transport.py:298`: the search for the value of a READ skips no frame, and the bytes of one are returned as the value where they
  look like it.  `ValueOfId` says that this is the only way, and fails without its premise.
* `transport.py:280`: a READ that the device refuses waits until its time is out, as no status is looked for; the branch of
  `read_param` for a refusal (`transport.py:491`) is never reached.
* `telemetry.py:159` and `164`: the plot counts each frame twice, so that frames in a row are two periods apart on an axis labelled
  in seconds.  `Shown` in `Telemetry` counts as the code does.
* `fsusb.c:1000-1002`: the send window is tested before the interrupt is masked, against the comment "This prevents sending
  while ep0 is receiving".
* `current_control.c:226`: "PWM switching frequency updated" is logged for a frequency whose period does not fit `ATRLR`, too.
* `scheduler.c:86`: a task that lowers its own frequency is charged the new period for the run it is in and then runs at every
  turn.  No task does.
* `transport.py:217-220` says that drained bytes "aren't lost"; those that come between the last look at `in_waiting` and
  `reset_input_buffer` are, and `list_params` hands none on.
* `current_control.c:268-279` and `291-294`: comments name the ADC channels in another order than `pinout.h`; the order of the
  frame, documented at lines 26-33, and the reader agree with `pinout.h`.
* `telemetry.h:10` describes another layout than the streamed `i_fb,i_sp,v_out,duty_a` of `telemetry.c:12`.

## Not modelled

Of the code, about two thirds of the lines are vendored headers and start-up code (`ch32x03xhw.h`, `ch32fun.c`, `ch32fun.h`,
`usb_defines.h`, `usbpd.h`, `fsusb.h`): registers, descriptors and constants without behaviour of this program.  They are why the
map covers only a small share of all lines, although it covers most of the firmware's own that change state.

Also left out: the USB descriptors, line coding and suspend; the set-up of pins, timer and ADC; the functions of `fix16.c` that
nothing here calls; LEDs (display only); the USB PD functions (empty); position control (no control law yet); the text of log
lines; on the host the number formats, the catalog and the answer to LIST, the command line and the drawing; the hardware design.
`Drive` and `CurrentLoop` overlap in `task_current_control` and are not composed: `Drive` allows every value the loop can give by
sign, so that what it says of gate and bridge holds for the loop as well.  Time is counted in task runs there, not in ticks.

What could follow: the assumption of `Drive` and `Protocol` that their tasks are run again and again, derived from `Scheduler`;
LIST in `Transport`.
