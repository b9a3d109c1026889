# A verification project for the keyword-detection accelerator

The repository is a keyword spotter in two halves. An FPGA design (`rtl/`) receives
MFCC frames over a UART, keeps the last 64 in a ring, runs a small quantised
convolutional network over a window of 32 frames every 8 frames, smooths the
results in time and reports detections as packets. A C host (`host/`) computes the
frames, drives the protocol and checks the device against a bit-exact reference.

This directory holds TLA+ models of it, the TLC configurations that check them and
proofs for the TLA+ proof system.

## Inventory

| Component | State it keeps | Operations | Talks to |
|---|---|---|---|
| Packet decoder (`packet_decoder.sv`) | byte FSM, running CRC, header fields, inter-byte timer | consume a byte, time out, dispatch (commit a frame, run a command, report an error) | RX FIFO (pop), feature buffer (speculative bytes, commit), register file (command and error strobes) |
| Feature buffer (`feature_buffer.sv`, `circular_buffer_controller.sv`, `feature_memory.sv`) | write slot, saturating frame count, newest frame number, memory | write a byte, commit, clear | decoder, scheduler, convolution |
| Window scheduler (`window_scheduler.sv`) | stride credit, first-window flag, issued window | count a commit, issue, drop, clear | buffer state in, start strobe out, `engine_busy` back |
| Engines (`conv1d_engine.sv`, `pooling_engine.sv`, `classifier.sv`) | FSM, loop counters, the RAM behind each | start, run, done strobe | each done starts the next |
| Temporal smoothing (`temporal_smoothing.sv`, `confidence_accumulator.sv`) | logit history and sums, vote history, run length, debounce | reset sweep, fold an update, scan, evaluate | classifier in, detection out |
| Register file (`register_file.sv`) | streaming enable, clear strobes, one pending response | run a command, latch an error, serve payload bytes | decoder, encoder arbiter, everything that is cleared |
| Event queue, arbiter, encoder (`keyword_detector.sv`, `kws_core.sv`, `packet_encoder.sv`) | one pending event, owner of the encoder, byte FSM | latch a detection, grant, emit bytes, stall | smoother, register file, TX FIFO |
| UART and FIFOs (`uart_rx.sv`, `uart_tx.sv`, `uart_fifo.sv`) | bit and cell counters, samples, ring pointers | sample a line, shift a byte out, push, pop | pins, decoder, encoder |
| Statistics, interrupt | counters, snapshot, pulse stretcher | count, copy, clear | all strobes |
| Host protocol library (`protocol.c`) | parser state | build, feed a byte, decode an event | serial port |
| Host reference model (`ref_model.c`) | smoother state | infer, smoothing step | streaming client, hardware test |
| Host streaming client (`main.c`, `stats.c`, `serial.c`) | connection, command awaited, send times, reference ring, frame being filled | open, handshake, wait, send a frame, poll, reconnect, shut down | device, reference model, audio source |
| Hardware test (`hwtest.c`) and core bench (`tb_kws_core.cpp`) | step of the script, mirror of the reference, expected events | ask and wait, send a frame, drain, compare | device |
| Audio and features (`audio.c`, `mfcc.c`, `featurize.c`) | file position, microphone buffers, pre-emphasis, FFT array, record counts | read, frame, transform, crop, stretch, mix, write records | streaming client, training |
| Configuration, logging, model and training tools | files | | |

What is hard about it: everything in the core happens on one clock, so a strobe
that arrives in the one cycle in which its receiver looks elsewhere is lost without a
trace; frames keep arriving while a window is read from the same ring; a START or
RESET may fall into any cycle of an inference; payload bytes are stored before their
CRC is known; bytes on the link may be lost or corrupted and the two ends must
find their way back to packet boundaries; replies and events reach the host late, out of
step with what it waits for, or not at all, from a board that may be unplugged, power-cycled or
exchanged; operands of the engines arrive two cycles behind the counters that address them. What must hold of each component:

- buffer and scheduler: windows land on the stride grid of their session, whole, in
  order, and an overrun of the ring is reported;
- engines and smoothing: every window started is decided, with its own data, and
  a detection carries the frame number of its window;
- restart: nothing of an old session reaches a new one, and no stage is stranded;
- decoder: only a complete packet with a good CRC changes anything, and it always
  returns to hunting;
- response path: a packet on the wire is one packet, and a request is answered once;
- UART: a byte arrives as it was sent, once, under drift and glitches;
- host: it agrees with the device on framing, on which reply belongs to which
  command, and on which frames make a window; it comes back after any loss and stops when told;
- hardware test: no false alarm, no false pass;
- front end: each frame is made of the right samples, live as in training.

`PROJECT.json` lists the hazards behind these at their lines.

## Modules

| Module | Models |
|---|---|
| `KwsPkg` | geometry constants, their elaboration-time assertions, ring pointer arithmetic |
| `FeatureBuffer` | the ring: pointers and which frame each slot holds |
| `WindowScheduler` | the scheduler, register by register |
| `EngineChain` | convolution, pooling, classifier, hand-off, accumulator and smoother control |
| `StreamCore` | the wiring of the three with the streaming bits of the register file and the clear fan-out; the clock edge; fairness; invariants, liveness and the refinement mapping |
| `WindowSchedule` | the abstract schedule: which window is due when |
| `StreamCore_proofs` | its proofs |
| `Packets` | the wire format both ends share, with an ideal checksum |
| `PacketDecoder` | the byte FSM of the decoder, one action per state, and its timer |
| `HostParser` | `kws_parser_feed`, one action per case |
| `DecoderLink` | a sender, a faulty line, the decoder and the ring slot it writes; what must hold of them |
| `ParserPair` | decoder and host parser on one byte stream, with the values of the TLC instance |
| `DecoderLink_proofs` | proofs about the link and the pair of parsers |
| `PacketEncoder` | requests and the bytes of a packet, by provenance; the encoder's FSM, state by state |
| `Requesters` | `keyword_detector.sv`; the response side of `register_file.sv` and the statistics snapshot |
| `FifoLevel` | a FIFO of which only the fill is known, for the TX FIFO |
| `ResponsePath` | the wiring of these in `kws_core.sv`: arbiter, pump, clears, `uart_tx`; the environment; the properties |
| `ResponsePath_proofs` | proofs of its flow controls and of what its packets carry |
| `UartFifo`, `BoundedQueue` | `uart_fifo.sv` with its memory, and what a FIFO promises |
| `Uart` | `uart_rx.sv` and `uart_tx.sv`, one step per clock |
| `UartBench` | the driver and the monitor of `tb_util.h` at the other end of the line, and the three benches |
| `UartBench_proofs` | proofs of the transmitter, the receiver and the FIFO, refinement included |
| `KwsMath` | the argmax that device and host both use |
| `Layers` | the layers of `ref_model.c`, and the requantization of device and host |
| `ConvEngine`, `PoolEngine`, `Classifier` | the engines register by register, with their ROMs |
| `Inference` | the three in series with their RAMs, resets, and the reference they are compared with |
| `Fft` | the transform of `mfcc.c` in place |
| `MCArithmetic` | TLC instance of `Inference`, `Fft` and a sweep of the requantization |
| `TemporalSmoothing` | accumulator and decision rule with real logits, per clock edge |
| `HostSmoother` | `kws_smooth_init` and `kws_smooth_step` |
| `SmoothingPair` | both on the same results, the properties, and values for TLC |
| `SmoothingPair_proofs` | proofs of these properties |
| `Device` | the accelerator as a host sees it: whole packets in, whole packets out |
| `HostSession` | the streaming client, a device and a faulty link |
| `HostSession_proofs` | proofs about its replies and its commands, and that client and device keep in step |
| `HwTest` | the hardware test and its twin in the core's bench |
| `HwTest_proofs` | proofs that it raises no false alarm and gives no false pass |
| `Frames` | which samples a frame is made of; the WAV readers |
| `LiveLoop` | the sampling side of `main.c` with the three sources of `audio.c` |
| `Featurize` | the training featurizer |
| `FrontEnd` | the last two with their properties, and values for TLC |
| `FrontEnd_proofs` | proofs of these properties |

How they compose:

    StreamCore  = FeatureBuffer + WindowScheduler + EngineChain   =>  WindowSchedule
    DecoderLink = sender + line + PacketDecoder + one ring slot
    ParserPair  = PacketDecoder + HostParser on one stream
    ResponsePath = Requesters + PacketEncoder + FifoLevel
    UartFifo                                                      =>  BoundedQueue
    UartBench   = driver + Uart + monitor; UartFifo
    Inference   = ConvEngine + PoolEngine + Classifier            against Layers
    SmoothingPair = TemporalSmoothing + HostSmoother
    HostSession = client + link + Device;  HwTest = script + link + Device
    FrontEnd    = LiveLoop; Featurize, both over Frames

### How the streaming path corresponds to the code

One step of `StreamCore` is one rising clock edge. `Edge(write, frame, cmd)` gives
every register its next value from the wires of the cycle before the edge, as the
non-blocking assignments do; the wires (`IssueNow`, `EngineBusy`, `ClrStream`, ...)
are operators. The three actions of `Next` are what the decoder can present in a cycle:
nothing or a speculative payload byte (`QuietCycle`), a CRC-good frame
(`FrameCycle`), a command (`CommandCycle`). The engine reset is asynchronous and
comes from a registered pulse, so engine registers are cleared by the edge
that sets `clr_pulse` and held by the next one: `EngineReset` is true for both.

Data are abstracted to provenance. A frame is its serial number; a slot of the ring
holds a serial or `TORN`; every buffer between two stages carries the frame
number of the window it was computed from, or `MIXED` when it holds parts of two
windows or is no longer read. This is what the properties are about: which frames
a result was made from, not its value. A running stage may finish on any edge, so
the loop counters of the engines are gone and every inference time is covered.
Two details are dropped: the window's timestamp, which travels with its frame number, and
the value of a detection, which is nondeterministic.

Three facts about the environment restrict the inputs. They are guards in `FrameCycle`
and `CommandCycle`:

- two packet strobes are never in adjacent cycles (a packet is at least 18 bytes);
- no frame is accepted during the 40-cycle history sweep after a reset (a feature
  packet is 58 bytes, each of at least two cycles);
- at most `MAX_LAG` frames are accepted between the issue of a window and its decision.
  As delivered an inference takes about 1.4 ms and a frame about 5 ms on the
  wire, so `MAX_LAG = 1`. The proofs are for every `MAX_LAG`.

### How the decoder and the host parser correspond to the code

A step of `DecoderLink` is one clock edge of `packet_decoder.sv`: `ByteEdge(b)` if the
FIFO delivers a byte on it, `IdleEdge` if not. Each state of the FSM is an action
(`Hunt`, `TakeVer`, ... `TakeCrcH`), named for the byte it takes. `out` is the dispatch
strobe the edge raised, `wr` the speculative write; the ring slot takes that write one edge
later, as the RAM does. `HostParser` does the same for the cases of `kws_parser_feed`;
a call is atomic.

Abstractions. The CRC is ideal: a checksum byte carries the half and the very body it
was computed over, and matches no other body, so that "good CRC" means
"these are the bytes that were sent"; the properties ask what the FSM makes of that, not how
strong sixteen bits are. A checksum byte reads as 0 and so never as a SOF; other bytes may.
The timestamp, which nothing depends on, is gone; TIMESTAMP
and FRAME_NUM have `FIELD_BYTES` bytes. The host's packet fields are what its checksum ran
over and are not kept twice. The pacing of the byte pump is any.

The line. `Send` puts a packet on an empty line, also packets with a foreign version, an
unknown type or a length that is wrong for its type; `Lose`, `Garble` and `Noise` are its
faults; between any two bytes any number of `Wait` edges may pass, so every relation
of a byte to the timeout occurs. The history variables (`log`, `intact`, `expect`,
`quiet`, `last`, and `split` of the pair) are read by the properties only.

### How the response path corresponds to the code

A step of `ResponsePath` is again one clock edge of `kws_core.sv`. Each edge is a
`NoCommandCycle` or a `CommandCycle` (a command, with or without a clear, or a decoder error);
in either a detection may arrive and `uart_tx` may end its stop bit. `ArbEdge`, `EncEdge`,
`PumpEdge`, `LevelEdge`, `EvtEdge` and the register file's edges are the always blocks of
those names. The event queue is held by `EngineReset` and the rest is not, which is where
`response_event` comes from.

A command or detection is its serial number, and a byte is what it was read from: which
field, which index, of which command or detection. A checksum byte carries the bytes the CRC ran over. So
`Packet(r)` can say of every byte on the wire where it should come from. The length follows
from the type, as in `register_file.sv`. The TX FIFO is only its level here; that a FIFO
hands out what it was given is shown of `UartFifo`. `uart_tx` is busy for some time.

The environment is in the guards of the two actions: the smoother is in reset while
`clr_pulse` is up and detects nothing then; commands are not in adjacent cycles. A command may
come before the previous response is complete and a detection before the previous event is,
but the history variables `piped` and `overlapped` remember it: the properties that need the
protocol's one command in flight, or the debounce between detections, say so, and after such
an event only `MAX_PIPELINED` commands are accepted. `n_cmd`, `n_evt`, `open`, `wrote`,
`spoiled` and `last_*` are history too.

### How the UART and the FIFOs correspond to the code

`UartFifo` is the whole of `uart_fifo.sv`: a write and a read in any cycle, also both and
also on a full or empty FIFO, level and pointers as separate registers. The first read of a
cell nobody wrote returns whatever the memory holds.

`Uart` has the receiver and the transmitter with every register, one step per clock: the two-flop
synchroniser, the majority of three samples, half a bit to the middle of the start bit, a
start bit that was a glitch, a framing error. A byte is a sequence of `DATA_BITS` bits.
`UartBench` puts `UartBfm` of `tb_util.h` at the other end, driver and monitor, as the
benches `tb_uart_rx`, `tb_uart_tx` and `tb_fifo` do; a behaviour is one of the three benches.
What the benches' driver does not do, it does here: its byte may be up to `DRIFT` clocks longer or shorter,
one clock of it may be inverted (in the start and data bits; a stop bit is the bench's own case of a break),
pulses of up to half a bit come on the idle line, and breaks. How far the clock may run off is
`ToleranceAssumption`: what half a cell leaves after the second sample and the three clocks the receiver is behind.

### How the engines correspond to the code

`Layers` is `ref_model.c`: `kws_requant`, `kws_ref_conv1d`, `kws_ref_pool`, `kws_ref_infer`, as
functions over small tensors, and `activation_unit.sv` as it does the same on bits.
`ConvEngine`, `PoolEngine` and `Classifier` are the three FSMs with all their counters, address
registers, accumulators and write ports, one step per edge. Memories and ROMs answer on the edge after
the one that registers the address, so an operand is used two edges after its counter: that is
where an engine goes wrong. The ROM contents are constants laid out as the RTL indexes them.
`Inference` wires them as `kws_core.sv` does. The outside world writes a
window into the ring, at any of the given bases, and issues it while the engines are idle. Cells it does not
write keep `JUNK` or an older window. The engine reset may fall on any edge and clears the engines, but
neither the RAMs nor the registers that read them.

`Fft` is `fft` of `mfcc.c`, one loop iteration per step, over the integers modulo a prime instead of
complex doubles: the algorithm uses ring operations and a root of unity only, so addresses, order and
twiddles are the code's and the arithmetic is exact.

### How the smoother corresponds to the code

`TemporalSmoothing` is `temporal_smoothing.sv` with `confidence_accumulator.sv` inside, one
step per clock edge: the RAM with its registered write and one-cycle read, the reset sweep,
the serial fold, the scan and the decision. Logits are integers here. `clear_i` is tied to 0
and `en_i` to 1 as in `kws_core.sv`. The RAM powers up with anything and no
reset clears it. `Update` needs `~Busy`: `kws_core.sv` issues a window only when
`engine_busy`, which includes the smoother's busy, is low. The winner that comes with the logits is their argmax,
as the classifier computes it. `SmoothingPair` lets the reference take its step when
the device decides, as `tb_smoothing.cpp` does; `recent` and `calm` are history.
`SmoothingAssumption` lets a sum hold `DEPTH` logits and fit the `int16_t` of the host; as delivered ten bits hold four of eight.

### How the two hosts correspond to the code

`Device` is the accelerator between decoder and encoder as a host sees it: a record, and operators that
say what a whole packet does to it (`Receive`), what its engine decides (`Decide`) and what it answers. It has one response
latch: a command before the answer has gone overtakes the payload, as in `register_file.sv` (`Overtaken`).
A frame is its number, a window a sequence of frames, and whether the k-th
window of a session detects is a constant (`FIRING`).

`HostSession` is `main.c`: `Open` to `Succeed` and `Fail` are `connect_and_start` with its three
PINGs, RESET, READ_VERSION with the geometry check and START; `WaitOther`, `WaitMatch` and
`WaitTimeout` are `wait_for`, which hands events on, drops other packets, and drops the rest of the chunk
behind the reply it waited for; `SendFrame`, `Count`, `Poll`, `AfterPoll` are the loop body with the
reference check `RefCheck`, the statistics and `pump_rx`; `Shutdown` is the end of `main`. `Sigint` sets
`g_stop` in any state. `Unplug` kills the port: the board goes on, restarts, or is replaced by one with
another model. The geometry check compares bytes 4, 5, 7, 8 and 9 of the version reply and not the stride, so `geometry` is
whether these agree, and the strides are two constants: `WINDOW_STRIDE` of the board, `REF_STRIDE` of `ref_check`, a literal there.
At the start the device may still be streaming for a client that died, and an event of
that session may be on its way; it is reported like any other if its frame number is past the warm-up. Time is not counted: a wait gives up when nothing is to come any more, or, as a fault, before
the reply has come. `id`, `own`, `late`, `hw`, `ref`, `dev_wins`, `ref_wins` and `polls` are history.

`HwTest` is the acceptance scenario, which is written twice: `HwScript` is `hwtest.c`, `BenchScript`
is `tb_kws_core.cpp`. A script is data, a sequence of steps; the actions are the functions both files
share (ask and wait, send a frame, drain, compare, reset the mirror). Packets are lost
and replies come too late on the board only. The bench keeps what it read behind a reply, the board's client drops it.
An event is compared in all its fields. The window and the count of the model stand for class, confidence and votes of the C;
as no two detections have one frame number, that comparison alone already decides.

### How the front end corresponds to the code

A sample is the set of positions it was made from, silence the empty set. So a
mixed or stretched sample remembers all its sources, and uninitialised memory is an origin of its own (`Junk`).
`Frames` has the frame with its pre-emphasis predecessor and the two WAV readers with their chunk walk;
`LiveLoop` primes a frame and refills it hop by hop from a file, the Windows microphone with its ring of
buffers, or the synthetic source; `Featurize` takes one manifest line per step in its modes, with
offset, crop, jitter, stretch and noise, every random draw being a choice.

## Runs

| Run | Bounds | Shows |
|---|---|---|
| `streaming` | ring 8, window 4, stride 3, `MAX_LAG` 2, 9 frames, restarts anywhere; 19 000 states | the running window is intact, no strobe is lost, detections belong to their window and session; the path implements `WindowSchedule`; every issued window is decided or discarded by a restart |
| `slow_engine` | ring 8, window 2, stride 2, `MAX_LAG` 7, 9 frames, restarts up to frame 3; 360 000 | the ring really overruns here, never before a drop; no commit is lost to the grid; the inductive invariant |
| `arithmetic` | window 5 of 3 coefficients, 2 taps, 4 channels on 2 lanes, pooling by 2, 3 classes, 4-bit data, 10-bit accumulators; 3 windows at 2 bases, 2 issues, 1 reset, both pooling modes; 237 000 | every layer of the engines is the reference's, also after a reset at any edge; an inference ends; requantisation rounds; the FFT is the transform |
| `smoothing` | 3 classes, history 4, vectors of 3-bit logits, vote minimum 2, run 2, debounce 3, saturation 3; resets anywhere; 1 100 000 | each sum is that of the last results and of nothing else; it detects exactly under its six conditions; it is the host's reference |
| `link` | 2 packets of 6 kinds, 1 fault, timeout 2, one-byte fields, payload up to 3, 4 byte values; 1 780 000 | only whole packets dispatch, once and in order; one met while hunting is never lost; a committed slot holds its payload; silence ends every packet; writes stay in the slot; the host parser stays at the same byte unless a foreign version byte or a timeout parts them |
| `response` | header 2, 5 statistics words of 2 bytes, version 3, event 3, TX FIFO 4; 3 commands, 2 detections at any distance, 2 commands when pipelined; clears anywhere; 293 000 | every response is whole, in order and answered; an event is whole unless a clear fell into it; a snapshot is complete before it is read; no byte is popped into a busy UART; no byte is refused |
| `response_event` | as `response`, 1 command, 1 detection | a violation: a clear between request and grant leaves the grant without its event |
| `uart` | 16 clocks per bit, bytes of 6 bits, 4 bytes, drift of 4 clocks, 1 disturbed clock, pulses of 1, 3 and 9; FIFO of depth 4 with 3 values; 120 000 | bytes arrive as they were driven, once, both ways; the FIFO is a bounded queue |
| `session` | window 2, stride 2, 4 frames, 1 poll, 2 packets in flight, 2 faults, latency ring 2; SIGINT anywhere; 900 000 | replies are taken for what they answer; client and device infer the same windows and report the same events, but for one of an earlier run; the device stops at an orderly exit; the client returns or stops |
| `session_flight` | as `session`, 3 frames, no fault | a violation: a poll and the STOP behind it are in flight together |
| `hwtest` | window 3, stride 2, 8 frames in each session, frames 1 and 4 corrupt, 3 packets in flight, 2 faults; both scripts; 84 000 | the test raises no false alarm and gives no false pass |
| `frontend` | frames of 5, hop 2; 18 files; clips of 14; 3 microphone buffers of 4, 25 samples; 5 command lines, 100 and more manifests; 20 000 | live frames are those of the file; the microphone keeps its order; training records are of one clip under a true header |

A property of a run is often a conjunction of named parts: `PacketsWhole` is `TypeOK`, `ResponseWhole`, `EventWhole`,
`Framed` and `SnapshotReady`; `InStep` of the session is its types, `StreamsInStep`,
`StreamsToOwnModel`, `WindowsAgree`, `EventsAgree`, `LatencyOfOwnFrame`; `RepliesAreOwn` is
`StartIsOwn`, `EachReplyIsOwn`, `InFlightRule`; `RecordsAreTrue` is `RecordsAreOfOneClip`, `WholeIsTheSignal`,
`HeaderTrue`. The parts are definitions of their own, each with its comment.

Why the bounds are enough. The ring has to be a power of two and at least two windows.
Nine frames wrap the pointer of an 8-slot ring and give a session
two windows, or a restart after the wrap. A stride that does not divide the ring
makes the window base wrap at different places. `slow_engine` allows seven
frames into one inference while six overrun its ring; its ring, window and
stride satisfy `OverrunMargin` as the delivered geometry does (32 > 17). The bounds
`MAX_FRAMES` and `LAST_RESTART` only stop behaviours; `MAX_LAG` is the timing.

In the engines every loop has at least two iterations: two lane groups, two taps, three coefficients, two pooled rows, three classes. The base 13 makes a window wrap in the ring of 16. The second issue finds the RAMs and the registers full
of the first, with the other pooling mode or after a reset. The three windows include all equal, where all classes
tie, and both extremes of the data. The requantiser is swept over every accumulator of its width.
The transform has three levels of butterflies and every signal of two values.

On the link, two packets and one fault give every pair of a broken packet and the
one after it, and a false start inside the first that runs into the second: with one-byte
fields a packet is six to nine bytes, so a false packet of up to nine spans
the boundary. The SOF code is also a payload value and a legal length, and the
largest legal length is one more than a feature's. A timeout of two edges lets a pause be
shorter, equal and longer.

On the response path, five words are the most that `SnapshotAssumption` admits with a header of
two bytes: the copy must have ended when the first payload byte is
sampled, and with `HDR_BYTES + 3` words it ends just then. The delivered 16 words and 13
header bytes are at the same limit. A packet is longer than the TX FIFO, so the encoder stalls in
every state. Three commands and two detections let a response wait behind an event, an
event behind a response, and a clear fall into both.

The UART's 16 clocks per bit (104 as delivered) are enough for three samples in the middle of a bit to be
clear of both edges. A drift of four clocks in a byte of eight cells is 3 %, more than the 2 % that `uart_rx.sv` budgets.
Four clocks, and nine for a pulse, are also the most that `ToleranceAssumption` allows at 16 clocks a bit: with five, or ten, TLC
finds a byte that is read wrong. As delivered it allows 48 clocks in a byte (the model's driver spends a clock of it in each cell, ten in all).

The history of the smoother has its delivered depth; the logits include both extremes of their
width, so that the sums reach theirs, and ties. The run counter saturates
above the minimum run and the debounce is longer than the history takes to turn over a
winner.

In a session two faults are enough for a loss and the loss of its repair, for a late answer in a handshake after
a replug, or for a second unplugging; four frames give two windows, and two slots of the latency ring wrap. The scenario's eight frames give two windows in the first session,
where two are corrupt, and three in the second. In the front end the files are empty, shorter than a frame, aligned and not aligned to the hop, as long as a clip and longer,
mono, stereo, cut short, of odd length, with other chunks and of formats the readers refuse.

Fairness. `streaming`: the clock runs (`WF` of `QuietCycle`) and each
running stage eventually finishes: the engine FSMs only move forward through
bounded loop counters and no state waits for anything, which `InferenceEnds` shows of the engines themselves under
nothing but a running clock. It does not say that a packet ever
arrives. `response`: `WF` of `NoCommandCycle(TRUE)`: edges keep coming, and `uart_tx`
ends the byte it is sending, as a free-running bit counter does, which `EveryByteArrives` shows under the clock alone.
`session`: the device, the client and the return of an unplugged port are weakly fair, nothing is asked of faults or
of SIGINT; an operating system schedules a runnable process, the core is clocked, and without the port's return `Reconnects` is
not what the code promises. The other runs check safety and state no fairness.

The refinements. `WindowSchedule` counts frames and windows of a session and says that
window k ends with frame WINDOW_LEN + k * WINDOW_STRIDE. The mapping
takes a session to be fresh from the edge that raises `ClrStream`, and a window as
issued on the edge that raises `issue_o`. It holds for nominal timing only: a slow
engine issues late or drops, and `CreditConserved` is what remains then. `BoundedQueue` is what the FIFO promises.

## What is proved

`StreamCore_proofs`, for all constants that satisfy `GeometryAssumption` (the
elaboration-time assertions of the code) and `EnvironmentAssumption`:

- `TypeCorrect`: every register keeps its range;
- `RingInvariant`: `RingInv` is invariant at any engine speed;
- `DebtStaysBounded`: the credit never exceeds two strides, so its eight bits suffice (`DebtBounded`, a part of `RingInv`);
- `OverrunIsReported`: if the ring is deeper than a window plus two strides plus one
  frame, no window under the convolution is overwritten before a drop was counted;
- `CreditIsConserved`: `CreditConserved` at any engine speed, from `CreditInv`;
- at nominal timing (`NominalTiming`: an inference ends before the next window is due),
  `StartsAreTaken` (`NoStartLost`), `WindowStaysWhole` (`WindowIntact`), `DetectsItsWindow`
  (`DetectAttribution`), and `PathKeepsSchedule`: the path implements the safety half of
  `WindowSchedule`, each edge being one of its steps or a stutter.

The argument. `OverrunReported` is not inductive: it says what the ring holds when the
convolution runs, not why. `RingInv` says that the slots behind the write pointer hold
the session's frames newest first (`RingContents`), that the issued and the latched
window name their place relative to the pointer (`IssuedWindow`, `LatchedWindow`), and
that while no drop has been seen the frames since the latched window number at most the
credit plus one. With the credit at most two strides, the writer is then at most
2 * WINDOW_STRIDE + 1 slots past the window, short of wrapping on to it. The `plus one`
is a frame that is committed on the very edge of an issue, or just after the first.

At nominal timing the credit never exceeds the frames committed behind the window in the
chain (`WorkPace`), and these stay short of a stride. So nothing falls due while a window
is in the chain (`DuePace`), and at most one is there, in one stage or strobe (`OneWindow`);
a clear pulse finds the smoother in its sweep and the schedule restarted (`ResetPace`).
`PaceInv` joins the four. On it rests `Provenance`, which says that every buffer a
stage will still read belongs to the window last issued. `FirstInv` and `CreditInv`, which
need no timing, pin the first window and the credit account, and with `SchedInv` (no drop,
and the last window ends with the frame its number says) give the step of the refinement.

`DecoderLink_proofs`, for all constants that satisfy `ProtocolAssumption`,
`TimeoutAssumption` and `LinkAssumption`, and so for
the real field width, payload bound and timeout and for any number of faults.
`LinkAssumption` says that packets are made of bytes, that no payload is longer than `MAX_PAYLOAD`
(`kws_pkt_build` refuses a longer one, `protocol.c:28`) and that packet numbers fit one byte, so that
two packets never share a number:

- `WritesStayInSlot`: `IndexInRange`, the one assertion in `packet_decoder.sv`;
- `SilenceEndsPacket`: `HuntsAfterSilence`;
- `DispatchesAreAuthentic`: `Authentic`, type correctness included;
- `CommitsAreWhole`: `CommittedWhole`;
- `IntactIsDispatched`: `IntactDispatched`;
- `ParsersInLockStep`: `LockStep` of decoder and host parser.

The argument. The checksum register of the model holds the bytes it folded, and `DecInv` says
that every other register is a function of them: how many there are is told by the state and
the two counters (`Position`), and type, length, number and the two error flags are what stands at their
place among them (`Noted`). `SlotInv` adds that coefficient i of the slot is byte i of the
payload folded so far, so what an aborted packet left is gone by the time of a commit. A good
checksum therefore says that the bytes folded are the body of a packet that was sent, since a checksum
byte carries what it was computed from (`SumsInv`: those on the line were computed from the packet in flight)
and the fields then give its verdict (`NotedVerdict`). `OrderInv` says that while bytes of a packet are
on the line, what was dispatched last was sent before it. `IntactInv` is the other direction: as
long as the packet in flight met no fault, the decoder stands exactly where the sender does. `TimerInv` says that in every state but HUNT
the timer equals the silence so far and is short of the timeout. For the pair, `Mirror` says
that until they part the parser has the decoder's state, and in each state the decoder's folded bytes,
length and counter; `Octets` that the line carries bytes, which the masks of the C code need.

`ResponsePath_proofs`, for any FIFO deeper than two, any packet sizes that `SnapshotAssumption` allows, any pipelining and
overlapping:

- `TxNeverOverflows`: `NoTxOverflow`, the assertion in `kws_core.sv`. The encoder's write is
  registered, so the level it looked at is one edge old. `FlowInv` adds what is needed: a
  write on its way finds at least two free entries, so it cannot fill the FIFO, and
  the level never reaches the depth;
- `EveryPopIsTaken`: `PoppedByteIsTaken`. `PumpInv` says that a byte that arrives also finds the
  in-flight flag set, which stops the pump for the cycle in which `uart_tx` takes it;
- `PacketsAreWhole`: `PacketsWhole`, that is type correctness, `ResponseWhole`, `EventWhole`, `Framed` and `SnapshotReady`;
- `ResponsesInOrder`: `AnsweredInOrder`.

The last two rest on `PathInv`, which has four layers. `EncInv`: in each state of the encoder the
length of what it wrote, and of what its checksum covers, is known (`Progress`), and what is there is
the header of the latched descriptor and a checksum of the rest (`Contents`); this gives `Framed`
whatever host and smoother do. `ArbInv`, `OneCommand` and `OneEvent` say who is served: the arbiter waits
exactly while the encoder is active, and to a host with one command in flight the registers that the payload is
read from are those of the newest command until its packet has ended. That needs
the request to be down while the packet is sent, or a second packet would follow the first. `CopyInv` says that the copy of the statistics stays
ahead of the encoder, word by word: it starts with the request, the encoder
has the header to send first, and `SnapshotAssumption` makes the header long enough for the copy to
end. The margin is zero, as the bounds say. `LoadInv` joins them: the payload so far is that of the request, unless it
changed on the way.

`UartBench_proofs`, for any depth and any set of words, and for any bit time of at least 16 clocks and any width of a byte:

- `LevelMatchesPointers`: the registers keep their ranges and the level is the distance of the pointers;
- `FifoIsQueue`: the FIFO implements `BoundedQueue`. The refinement mapping reads the queue from
  the memory, from the read pointer on; the lemmas say what that sequence does when a word is
  written behind it or the pointer moves, and the step proof has a case for each of read,
  write, both and neither;
- `SendsAsTaken`: `SentAsTaken`, the monitor of the bench reads every byte as the transmitter took it.
  `TxInv` says how the two are in phase: in every cell the monitor's counter stands half a cell and a
  clock behind the transmitter's (`Phase`), so it samples in the cell that it counts; what is left in the
  transmitter's shift register is the rest of the byte (`Drives`), and what the monitor has
  is its beginning (`Collects`);
- `ReceivesAsDriven`: `ReceivedAsDriven` with `BenchTypeOK` and `BreaksAreNoticed`, for every drift, pulse, gap and disturbed clock that
  `BenchAssumption` and `ToleranceAssumption` admit. `LineInv` lists what the two ends can be at: between bytes, a start bit in the
  synchroniser, in a byte, after its last sample, in a pulse or a break and after one. In a byte the receiver's clock
  count (`RxClock`) is the driver's (`Driven`, drift included) less three, and from that `SamplesItsCell`: the level sampled was driven in the
  cell that the receiver is counting. `Disturbed` counts what differs from the byte in the synchroniser and in the samples: at most one, as the next clock
  is disturbed only if none was yet, so the majority is right (`MajorityIsRight`). A fast sender begins the next
  byte while the receiver still decides on the last one (`Deciding`), and is in time for its start bit. A break ends no frame with a high stop bit before
  it is noticed, and whatever the receiver makes of the rest is over before the line is used again (`Left`).

`SmoothingPair_proofs`, for any number of classes, any widths with room for the sums, any depth up to 15, any threshold, vote minimum, run, debounce
and saturation, any targets and logits, and resets anywhere:

- `SumsAreOfRecent`: `SumsOfRecent`, type correctness included;
- `Mirrors`: `MirrorsReference`, the decisions of device and host are the same;
- `DetectsAsPromised`: `DetectsExactly`.

The argument. The device folds a result in over many edges and the host in one step, so `MirrorInv` compares the device with `Target`: the
reference as it will be when it has taken the result under way (`Host!Folded`). `FoldInv` says how far the device has got. Of the classes before
the one at work, sums and memory are those of the target, of the others still those of the reference; the memory is read as if the write in its registered port
were done (`Ram`), and no write is under way when a read is (`Control`), which is why no read is stale. During the sweep after a reset the memory is
zero up to the address reached, also behind a write that the reset found under way. `Knows` says that the target holds the last `DEPTH` results, each in its slot, zeroes where
none was, and their sums, so that the winner's votes in the ring are the results that support it (`Support`, by a bijection of slots and results), and that
nothing older is in it. The sum over results is a function of how many there are; that it moves with a window, and its range, are shown by descent to a least counterexample
(`Induct`), which needs no operator as a parameter. `DecisionInv` says that the scan has found the lowest best of the averages so far.

`MirrorInv` gives the first two properties and not the third, which speaks of results as far back as the run is long, and these the device no longer holds: it has
a counter. `RunInv` says what the counter means: the last so many results decided hold the conditions with the winner of the last one, and the result before these did
not, or there was none, or it was a detection. It also says that the debounce counter is what is left of `DEBOUNCE` since the last detection.
Both histories of the model are cut to the length that matters (`RECENT_MAX`, `CALM_MAX`), so the invariant says it up to `MIN_CONSEC` only.

`HostSession_proofs`, for any window, stride and ring, any number of frames, polls and faults, and a SIGINT anywhere:

- `TakesOwnReplies`: `RepliesAreOwn`;
- `StopsTheDevice`: `StoppedAtExit`, with `StreamsInStep` and `StreamsToOwnModel` of `InStep`;
- `KeepsInStep`: `InStep`, that is type correctness, these two, `WindowsAgree`, `EventsAgree`
  and `LatencyOfOwnFrame`. `WindowsAgree` and `EventsAgree` ask that both sides have one stride (`SameStride`) and that there was no fault, and
  `EventsAgree` allows one event of an earlier run ahead of the others.

The argument. A reply of some type is due when its command is on the line, the response latch holds it
or it is on its way back (`Due`); nothing but a write makes one due (`NothingNew`), and a write makes all others old. `NewestLast`
says that nothing follows the newest command, so when the client reads its reply, nothing else
is due. On that rest the facts per step of the client: `HandshakeInv`, which holds whatever timed out
too early (the version reply sweeps the link before START, and a failed handshake sleeps until it is empty),
`PromptInv` while no wait gave up too early, and `PollInv` for the number of commands under way. `StopInv` says which commands
can be on the line: behind an acknowledged START only polls, behind a STOP nothing that starts the device again; and the
device streams when the acknowledgement of the newest START is on its way.

`WindowsAgree` and `EventsAgree` compare two histories that grow at different times, so the invariant (`StepInv`) says of each side
alone where it is. `Win(k)` is the k-th window of a session; `DevWindows` and `RefWindows` say that the windows either side has decided
are the first so many of these. How many follows from the number of frames it has counted, and is determined by it (`CountedOnce`);
`FlowInv` says that the frames the client has handed over and the device has not committed are on the line, in order and ahead of a STOP. `EventsRead` says that
the events read are those of the first r windows and the rest are under way in order. So once the line is quiet the two counts of frames are equal,
hence those of windows, hence the lists of events (`ListsOnce`: a list is determined by the windows it covers). `Overheard` says that the client has reported nothing before
the session but at most the one event of an earlier run, and `Heard` that this one stays the first.
`LatencyInv` needs no good link: a slot of the ring of send times holds the newest frame that maps to it (`Holds`, from `OwnSlots`:
numbers less than the ring apart have different remainders), and no event on its way carries a number that was not sent, but
for one of an earlier run that is read before the session begins.

`HwTest_proofs`, for both scripts, any window, stride and set of windows that fire, any number of frames and corrupted ones:

- `AgreedAtPass`: `PassMeansAgreed`, whatever the line loses, and wherever;
- `NeverAnAlarm`: `NoFalseAlarm`, on a line that loses nothing.

Of the constants `ScenarioAssumption` says two things beyond their types. A window is longer than one frame, for the board may hold one
from before the test, and a window of one frame would fire before the test has begun (`kws_pkg.sv` has 32). And some window that fires ends within the intact
frames of the first session, as the test demands a detection of the device (`hwtest.c` reports an error without one).

The argument. `PassInv` speaks of both sides as long as no error is noted; from the first error on the test cannot pass. The two sessions lie at known places of
either script (`ScriptIs`), and the invariant has a part for a session and one for the rest. In a session (`SessionInv`): on the line are the frames sent last
(`Carried`), and the device has committed no more frames than the reference has, ended no more windows and detected no more of those that fire (`Flow`, `Windowed`, `Behind`). The detections
handled are the same on both sides, and those the host has not read are on their way in order (`Matched`, `Coming`): a detection that is lost leaves a gap, so the next one read differs in its
number from the one expected and is noted, or none comes and the count at the end is short. That the frame numbers of the two agree follows from the comparison, not from the invariant,
since after a loss the device has another window than the reference. Out of a session (`CalmInv`): all detections are matched, no inference is under way, and on the line is at most the
command asked for or its reply, with the frame sent after the STOP before it; or one of these was lost (`Lost`) and only the wait's end is left, which is an error. So each session begins with an empty line.

`AlarmInv` is what `NoFalseAlarm` needs: as long as nothing was lost no error is noted and each side is exact. The n-th frame committed is the n-th intact one (`Nth`), so that the device's window
and the reference's ring hold the same frames under their different indexing (`WindowExact`, `RingExact`: a shift register and a ring addressed by remainder), each detection is the one that is due for its window (`Due`, `EventsExact`), none is missing on
the way (`UpExact`), and the counters are those the script is told to expect at each place (`StatsExact`, `Told`).

`FrontEnd_proofs`, for any frame and hop, any number and size of buffers, any set of files and manifests, and any options and draws:

- `MicIsHeardInOrder`: `MicInOrder`;
- `LiveSendsTheSignal`: `LiveIsTheSignal`, type correctness included;
- `RecordsHoldTheirClips`: `RecordsAreTrue`.

Of the constants they assume that a hop is shorter than a frame, that there is a buffer and it holds a sample, that a window fits into a clip and a frame into a
clip and into the static buffer, that the data chunk claims and has a number of bytes (a `uint32_t` and what the file system says), and that a line of the manifest
names a file with two integers (`sscanf` of `"%d %439s %ld"`).

The argument. Driver and reader share no lock, only the flag of each buffer, so the invariant speaks of the ring from the buffer being read on: `RingOrder` says
that the first so many are done and full, the next is being filled, the others are empty and at the driver in this order. `ChainInv`
adds what is recorded: the numbers in a buffer, from one buffer to the next and up to the one heard last follow each other but for
losses. `NextIs` ties that to the reader: what it read last is followed by what stands at its offset, at the start of the next buffer, or, if the ring is
empty, only by losses so far; a round of `mic_read` takes from there, a sample that is heard meanwhile changes nothing of it. `MicInv` then says that what is
assembled of the next frame (`Seen`) is a piece of what was heard up to that point, whether primed, shifted or half read. For a file, `WavInv` counts: as long as the
file has a whole frame more, frame k ends where the k-th frame of the file ends (`FrameEnd`) and the position is there; after that the position is at its end and
one frame at most is short (`Short`). `SentInv` carries the overlap from each frame to the frame assembled next, which is what pre-emphasis
needs. For the featurizer, `FeatInv` says of the records what `CutFrom` says of one line: each is cut from its own clip at some start within it; for whole mode
the quotient of C gives `WholeRecordFacts`: if the file is a frame long, all its frames end within what was read of it, and not in what the buffer held before.

Model-checked only:

- `LayersMatch`, `RequantRounds`, `FftIsTransform`: they compare what recursive definitions compute over all their inputs, which is out of the
  prover's reach (the modules of the engines also use RECURSIVE operators);
- liveness (`InferenceCompletes`, `InferenceEnds`, `CommandAnswered`, `EveryByteArrives`, `ReturnsOrStops`, and that `ImplementsSchedule`
  issues every window that falls due), which the prover cannot show.

## Where the code and its comments differ

Two runs show it:

- `response_event`: `keyword_detector.sv` says its queue holds a request until it is granted. A START or RESET
  clears the queue but not the arbiter, so one in the cycle before the grant leaves a grant without an
  event: the encoder sends an EVT packet of cleared registers with a good CRC. Later in the packet the same
  clear zeroes the rest of the payload; `EventWhole` names this exception as `spoiled`.
- `session_flight`: `protocol.md` says the host sends one command at a time and awaits the response, and
  `register_file.sv` relies on it ("the host library enforces it"). The streaming loop does not wait for its
  statistics polls, so the STOP at the end of the loop can overtake the last of them. `InFlightRule` is what holds: apart from polls,
  one command is in flight.

Seen on the way, with no run of their own. Core:

- `protocol.c` calls its parser a mirror of the decoder with the "same resync rules", so
  that the two "can never disagree about framing". They do in two places: a foreign
  version byte (the host hunts at once, the decoder reads the packet to its end
  and reports it) and the inter-byte timeout (the host has none). `LockStep` shows that
  these are the only two: up to such a byte or timeout they agree through every fault.
- `packet_decoder.sv` says it always relocks on the next packet boundary after a structural
  violation. A payload byte with the SOF code opens a false packet that can run past that
  boundary and take the next packet with it, which `tb_decoder.cpp` allows for. What does
  hold is `IntactDispatched` with `HuntsAfterSilence`: after a pause of one timeout the next
  packet is received.
- `ResponseWhole` needs the host to wait. The register file serves the payload live under a header that was
  latched earlier, so a second command before the end of a response gives a packet
  with the type of one and the payload of the other. `Framed` is what remains.
- The margin that `statistics_counters.sv` claims for its snapshot is zero (see the bounds).
- The comment in `kws_ref.h` gives the defaults as threshold 25 and one consecutive result; `ref_model.c`
  and `kws_pkg.sv` use 30 and 2.
- The documentation calls the smoother two-phase and not an explicit FSM; it has the states
  IDLE, SCAN and EVAL.

Streaming client:

- The header of `main.c` says the reference runs the device's schedule. It places windows by the absolute frame number while the device counts
  from its START, so after a reconnect, or a lost frame, the two infer different windows; the
  smoother of the reference is not restarted either. `WindowsAgree` therefore stops at the first fault.
- The reference check counts an agreement for every event the reference predicts, whether or not the device reported it; nothing
  is compared. `EventsAgree` is the comparison the header speaks of.
- `protocol.md` has the host refuse a board when bytes 4 to 9 of the version reply disagree with its weights. The client does not compare
  byte 6, the stride, and `ref_check` has a literal 8, so a board of another stride is accepted and infers other windows. Hence `WindowsAgree`
  and `EventsAgree` have the condition `SameStride`. Without it `OneSchedule` is false: with `WINDOW_STRIDE` 1 and `REF_STRIDE` 2 TLC
  refutes it at the second window, with no fault.
- SIGINT may leave the device streaming: in the handshake after START, and during a reconnect. The final statistics
  are not waited for then.
- An event of an earlier client that arrives during the handshake is reported as one of this run; `EventsAgree` names it as its exception.
- An answer that arrives after its wait gave up is dropped in the sleep of a failed handshake, but between the three PINGs it
  is taken for that of the next PING, which is harmless; `EachReplyIsOwn` allows it by `late`.
- `mic_read` waits without looking at `g_stop`, so a stopped microphone holds the client.

Front end:

- `featurize.c` says it computes features exactly as the live host. Live streaming sends one frame more when a file is not aligned to the hop,
  with the tail of the frame before it; and from a file shorter than a frame one whose rest was never written.
- In whole mode a file a little shorter than a frame gives one frame all the same (C division truncates towards zero), which ends in samples of the
  file before. The header has the frame count of the last file only.
- A noise recording of exactly one clip (32001 bytes of data pass the length check) makes `featurize.c` take a remainder by zero, and a `--stats` run that accepts no clip divides
  by zero; `FeaturizeAssumption` keeps them out.
- The chunk walk of the WAV readers does not skip the pad byte of an odd `fmt ` chunk.

Hardware test: it has the stride 8 as a literal. A bench flags an unsolicited packet at its next wait; the model flags it at once.

## Not modelled, and the plan

- Reset synchroniser, timestamp divider, board top: free-running or constant.
- The interrupt's pulse stretcher and the statistics counters that no host compares: independent saturating counters.
- The byte pump between RX FIFO and decoder: any pacing is allowed instead.
- Mel filters, cepstrum and normalisation of `mfcc.c`: floating point without control. So is the ALSA source of `audio.c`, which
  blocks in the library.
- `config.c`, `log.c`, option parsing: parsing and formatting.
- The training tools: they produce the constants of the ROMs.

Of the conv engine's cycle count, which a comment gives as a formula, nothing is claimed: the run shows only that it ends.

What is left to prove is the arithmetic of the engines and of the FFT, named above with the reason, and liveness.
