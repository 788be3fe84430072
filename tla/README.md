# Verification of nesemud

nesemud is a NES emulator that runs as a daemon (Go). The emulated console
produces 60 pictures and 48,000 audio samples per second; three output paths
carry them away: an HLS stream and a WebRTC stream (both through FFmpeg), and a
synthesized NTSC RF signal that leaves as DIFI packets over UDP and over
WebSockets. This directory holds TLA+ models of the parts of the program that
have state, concurrency or timing worth a proof, the TLC configurations that
check them, and theorems that TLAPS proves for every value of the constants.

`PROJECT.json` is the machine-readable index: it lists the components, the runs,
the theorems, for each definition the source lines it stands for (`map`), for
each property a plausible bug that breaks it (`mutants`), the hazards the
properties are for, and the disagreements found (`findings`).

    tlc -workers 2 -config MCRelay.cfg MCRelay     # one run
    tlapm RF_proofs.tla                            # the proofs of one module

## 1. Inventory

### How the parts interact

```
 HTTP handlers ──┐                         ┌─> HLSStreamer ──pipes──> FFmpeg ─> files <── nesd-record-hls
 (api/server.go) │  Console.mu             │
                 v                         ├─> WebRTCStreamer ─pipes─> FFmpeg ─UDP─> peers
 frameLoop ─> Console.StepFrame ─ frame ───┤
 (daemon.go)  CPU ─ bus ─ PPU, APU, board  └─> rfstream.Streamer.WriteFrame
                                                 │ inputQueue (64)
                                                 v
                                             synthesizeLoop ── frames (2) ──> sendLoop ─> UDP
                                                 ^───────── framePool (3) ──────┘ │
                                                                                  v
                                                     webSocketRelay.publishPacket ─> queues ─> handlers
```

`daemon.Run` starts the streamers, serves HTTP and runs `frameLoop`, which per
frame steps the console, copies picture and sound out of it (three critical
sections of `Console.mu`) and hands them to the three `WriteFrame`s. At the end
deferred calls stop RF, WebRTC and HLS in that order. HTTP handlers call the
console (load, reset, pause, peek, poke, step, simulate),
`WebRTCStreamer.Answer` and `Streamer.ServeWebSocket`. `nesd-record-hls` is a
program of its own that records clips of an HLS stream.

### Components

| Component (source under `src/internal`) | State | Operations | What makes it hard | What makes it correct | Status |
|---|---|---|---|---|---|
| RF WebSocket relay (`rfstream/websocket.go`) | clients, partial bundle, cached control packets, per client a queue and a `done` channel | `publishPacket`, `addClient`, `removeClient`, `closeAll`, the HTTP handler | publisher, handlers, readers and `closeAll` interleave; slow or mute peers | gapless stream or cut off, limits hold, handlers end | modelled: `WebSocketRelay`, `TransportContract` |
| RF input and synthesis cadence (`rfstream/streamer.go`, `synthesizer.go`) | bounded queue, `rfInputBuffer`, output counter, pool of IQ buffers | `WriteFrame`, `append`, `synthesizeLoop`, recycling | drop-oldest against a concurrent receiver; rates 1001/1000 and 8008/5 | right pictures and samples in each RF frame whatever was dropped | modelled: `RFInput` |
| RF sender (`rfstream/streamer.go`, `difi.go`) | carry, sample clock, sequence counters, pending loss | `sendLoop` and what it calls | every UDP write may be lost or fatal; frames are no multiple of a packet | contiguous samples, losses reported, cadence without drift | modelled: `RFSender` |
| RF streamer lifecycle (`rfstream/streamer.go`) | fields of `Streamer` per generation, contexts, sockets | `Start`, `Stop`, `run`, `ServeWebSocket`, workers' ends | callers race, workers die by themselves, `Stop` waits | generations never mix, `Stop` returns | modelled: `RFLifecycle` |
| RF waveform and DIFI bit layout (`synthesizer.go`, `difi.go`) | oscillator phases | synthesis, encoding | floating point | spectra and bits | not modelled |
| HLS streamer (`streaming/hls.go`) | `frameCh`, two queues, counters, FFmpeg | `Start`, `WriteFrame`, `Stop`, pump, writers | `Stop` waits holding the mutex the pump needs; FFmpeg dies | newest kept, frames accounted for, `Stop` returns | modelled: `HLSStreamer` |
| WebRTC streamer (`streaming/webrtc.go`) | two queues, two FFmpegs, peers | `Start`, `WriteFrame`, `Stop`, `Answer`, writers, forwarders, watchers, callbacks | everybody reports through one mutex that `Stop` and `WriteFrame` hold while they wait | newest kept, open peers found, calls return | modelled: `WebRTCStreamer` |
| HLS clip recorder (`recording/hls_recorder.go`, `cmd/nesd-record-hls`) | the clip in memory, sidecar and manifest files, FFmpeg | `RecordClip`, `UpdateClipMetadata`, `waitForCommand` | the manifest is read, changed and renamed by several recordings; crashes in between; FFmpeg will not die | every clip listed once, never ahead of its sidecar; a stopped recording returns | modelled: `HLSRecorder` |
| Console: interrupts and clocks (`nes/console.go`, `cpu.go`, `ppu.go`, `apu.go`) | NMI and IRQ latches and delays, deferred PPU writes, stolen cycles | one turn of `StepFrame` or `StepInstruction` | cycles are charged at six places | lockstep of clocks, interrupt latencies | modelled: `ConsoleStep` |
| Console: operations (`nes/console.go`) | cartridge, replay and cursor, pause, controllers, last frame and sound | load, reset, pause, set controllers, peek, poke, step, snapshots | three critical sections a frame; failing frames; state that outlives a load | a replay plays whole, picture and sound are one frame's | modelled: `Console` |
| FM2 replay, simulation (`nes/fm2.go`, `simulate.go`, `clone.go`) | cursor, copies of the console | parse, next, clone, simulate | the console goes on meanwhile | each sequence starts from the state at the request | partly: `Console` (the syntax of FM2 is left out) |
| CPU bus and controllers (`nes/memory.go`, `types.go`) | RAM, strobe, shift registers | read, write | `Peek` shifts the register under a read lock | the game reads the buttons as latched | partly: `Controllers` (address decoding is left out) |
| Cartridge and mappers (`nes/cartridge.go`, bank tables of `ppu.go`) | bank registers, modes, serial port, line counters | writes, scanline clocks, reset | registers wider than ROMs, tables kept twice, counters at their ends | fetches stay in the ROM and agree, IRQs on their line | partly: `Cartridge` |
| PPU (`nes/ppu.go`) | registers, address and toggle, line states | register access, dots, the second drawing | mid-frame writes, shared toggle, a record of limited size | each pixel shows what was in force | partly: `PPUScroll`, `PPULineStates`, the clock in `ConsoleStep`, bank tables in `Cartridge` |
| APU (`nes/apu.go`) | frame sequencer, channels, DMC | register access, cycles | delayed `$4017`, DMC restarts, units clocked in any order | clocks and interrupts when due, samples whole, counters as programmed | partly: `APUFrame`, `APUDMC`, `APUChannel` |
| Daemon (`daemon/daemon.go`) | the frame clock | `Run`, `frameLoop` | a period that divides no second; a loop that is late | no drift, bounded bursts | partly: `FrameClock`; the loop's sections in `Console`, shutdown in the streamers' modules |
| HTTP API, web page (`api`) | `validationMu` | handlers | any order of calls | — | partly: each handler that reaches the console is an action of `Console` |
| CPU instruction set (`nes/cpu.go`) | registers | 256 opcodes | none: a table of byte functions | nestest | not modelled |
| Configuration, validation suites, commands, scripts | — | — | — | — | not modelled: pure input, test harnesses, start-up |

The behaviours that a unit test hardly reaches are listed one by one, at their
lines and with the properties that cover them, under `hazards`.

## 2. The modules

| Module | Stands for |
|---|---|
| `TransportContract` | what the DIFI WebSocket transport promises a receiver; instantiated and refined by `WebSocketRelay` |
| `WebSocketRelay` | `websocket.go` |
| `RFInput` | `WriteFrame` … `synthesizeLoop`; hands frames to the sender through two channels, whose far ends are an action each |
| `RFSender` | `sendLoop` … `sendUDPPacket` |
| `RFLifecycle` | `Start`, `Stop`, `run`, `ServeWebSocket`, the locks of the workers; calls the relay's `addClient`, `removeClient` and `closeAll` per generation |
| `HLSStreamer`, `WebRTCStreamer` | `hls.go`, `webrtc.go` |
| `HLSRecorder` | `hls_recorder.go` and the main function that drives it |
| `ConsoleStep` | the loop body of `StepFrame`/`StepInstruction` with PPU clock, vblank, DMC stalls and the IRQ level |
| `Console` | the console's operations as API handlers, frame loop and simulation call them |
| `Controllers` | the controller port of `memory.go` |
| `FrameClock` | the deadlines of `frameLoop` |
| `Cartridge` | `cartridge.go`, the scanline of `ppu.go` and the renderer's copy of the bank registers |
| `PPUScroll` | `$2000`, `$2002`, `$2005`, `$2006`, `$2007` and the dots, as they move `tempAddr` and `vramAddr` |
| `PPULineStates` | how writes in mid-frame reach the second drawing of the frame |
| `APUFrame`, `APUDMC`, `APUChannel` | frame sequencer, sample channel, and the units of a channel the sequencer clocks |
| `MCRelay`, `MCRF` (with `MCRFInput`), `MCLifecycle`, `MCHLS`, `MCHLSStop`, `MCManifest`, `MCWebRTC`, `MCConsole`, `MCConsoleStep`, `MCDevices` | instances for TLC |
| `RF_proofs` (of `RFSender` and `RFInput`), `RFLifecycle_proofs`, `WebSocketRelay_proofs`, `HLS_proofs` (of `HLSStreamer` and `HLSRecorder`), `WebRTC_proofs`, `Console_proofs` (of `ConsoleStep`, `Console`, `Controllers` and `FrameClock`), `Devices_proofs` (of `Cartridge` and the PPU's and APU's modules) | theorems |
| `Induction_proofs` | induction over numbers and folds over sequences, for the other proofs |

The grain of the concurrent modules follows the locks of the code: a section
under a mutex is one action; each channel operation outside, and each operation
that may wait, is an action of its own. A `select` is one action per branch,
and a `default` branch is guarded by the others being impossible. Names of variables and actions
are the code's where TLA+ allows it.

* **WebSocketRelay.** `PublishPacket`, `AddClient`, `RejectClient`,
  `RemoveClient` and `CloseAll` are the critical sections of `relay.mu`;
  `OnHangup`, `OnDone`, `OnBundle` are the branches of the handler's `select`;
  `WriteSucceeds`/`WriteFails` end a network write; `ReaderReturns` is the
  goroutine that reads until the peer leaves; `CloseNext` closes a connection
  outside the lock. A packet is its number, a bundle the sequence of its
  packets. `received` and `joined` are histories.
* **RFInput.** `queue`, `video`, `audio`, `audioHead`, `nextSequence`,
  `outputFrame` are the code's; a picture is the number of the frame it shows,
  an audio sample the number of the frame it came with. The three channel
  operations of a `WriteFrame` that finds the queue full are three actions
  with the synthesizer in between.
* **RFSender.** The places of `sendLoop` are `pc`; an IQ sample is its position
  in the stream; each send has the outcomes delivered, dropped (the
  `EAGAIN`/`ENOBUFS` branch) and fatal. `udp` is the history of a receiver:
  what it saw last and what it missed since.
* **RFLifecycle.** A generation is what one `Start` makes. `Streamer`'s fields
  hold the number of the generation they belong to, which is what lets a
  property say that a worker never sees the fields of a later one.
* **HLSStreamer** and **WebRTCStreamer.** `Stop` (and WebRTC's `WriteFrame`)
  hold the mutex while they wait, so they are several steps in which no
  other section of the mutex can run; that is the subject of their liveness
  properties.
* **HLSRecorder.** `place` is where `RecordClip` and `main` are: waiting for
  FFmpeg, in the grace after a SIGTERM, writing the sidecar, waiting for the
  manifest's mutex, having read it, about to rename. Reading, writing, failing
  and a crash of the process in between are actions; a crash frees the mutex
  and keeps the files. The mutex belongs to the process (`ProcessOf`).
* **ConsoleStep.** `at` names the places of the loop body (the table is in the
  module). An instruction is what it does to the rest: cycles, the I flag it
  leaves, an acknowledgement, a store to PPUCTRL or PPUMASK. `behind`, `owed`,
  `since`, `held`, `entered` are histories for the properties.
* **Console.** A machine is its ROM and the list of what was done to it since
  its last reset (the buttons of each frame, pokes): two machines in the same
  state computed the same frames. Each operation under `Console.mu` is one
  action; the frame loop is three of them, and a simulation one per copy.
  `StepFrame` runs what is left of a PPU frame, and the picture is drawn on the
  way into the vblank, so `pastVBlank` says where an instruction that failed has
  left the machine: the step after it draws, or only finishes the frame.
  `failed` is the history of the steps that ended in such an error.
* **Controllers.** `PeekLoads`/`PeekStores` split the read-modify-write of the
  shift register that two API readers can race on under the read lock.
* **FrameClock.** Time advances by any amount; `frameDeadline`, the wait, the
  catch-up and the restart of the clock are the loop's.
* **Cartridge.** One operator per board says which bank a window shows; one
  action per kind of register write; three line counters. `CaptureState` is
  the copy the renderer takes at the start of a line and `SlotOfState` its own
  table, to be compared with the cartridge's.
* **PPUScroll.** An address is a record of the fields the code cuts out of its
  bits. `Dot` advances it as `step` does; the property compares the tile each
  dot shows with a reference that computes it from the scroll in force.
* **PPULineStates.** A state of the registers is the number of writes that led
  to it. `captureLineState`, `recordCurrentLineState` with its delay, capacity
  and order, the invalidation of later lines and `renderFrame` are followed;
  what a pixel looks like is not.
* **APUFrame, APUDMC, APUChannel.** One `stepCycle` each, and the register
  writes between any two. Histories count the cycles since the sequence
  started and those the frame interrupt has gone unacknowledged, the bytes of the
  sample fetched, the quarter frames since a start.

## 3. The runs

| Run | Checks | States | Shows |
|---|---|---|---|
| `relay` | `LimitsHold` `ImplementsContract` | 151,755 | three connections compete for two slots; the relay implements the contract |
| `relay_live` | `NoSilentSkip` `ServedOrTold` `HandlersEnd` | 284,120 | with `closeAll` in mid-stream: no gap, no forgotten handler, no stale preamble |
| `rf` | `QueueSound` `BuffersConserved` `OutputFaithful` `Drains` `StreamContinuous` `LossesTold` `Cadence` | 263,717 | each RF frame holds the right pictures and samples for every pattern of drops; every pattern of delivered, dropped and fatal writes |
| `rf_lifecycle` | `OwnGeneration` `StopMeansStopped` `GenerationsEnd` | 67,840 | two callers, two generations, a viewer, a sender that fails |
| `hls` | `FramesKept` `StopEndsOrMeetsPump` `ManifestSound` `StoppedReturns` | 250,969 | pump, writers, a dying FFmpeg, restarts; two recordings and a crash |
| `webrtc` | `NewestLast` `OpenPeersListed` `CallsReturn` | 202,037 | queues, encoders, one offer, `Stop` |
| `console` | `TypeOK` `Lockstep` `NMIFaithful` `IRQFaithful` `ReplayFaithful` `PairsMatch` `SimulationFromBase` `ReadsFollowLatch` `ClockSound` | 1,786,133 | the console's step, its operations, a controller port and the frame clock |
| `devices` | `FetchesSound` `SerialPort` `IRQOnItsLine` `SampleSound` `NoGapInSample` `SequencerInStep` `ChannelSound` `PictureFollowsWrites` `ScrollSound` | 534,638 | thirteen boards, three parts of the APU, two of the PPU |
| `rf_orphan`, `hls_stop`, `console_lost_nmi`, `manifest_lost` | `AllClientsClosed`, `StopReturns`, `VBlankQueuesNMI`, `ManifestKeeps`: violated | | the findings of section 6 |

Each property is stated in words in front of its definition. The ones a reader
should look at first: `ImplementsContract` (a receiver gets p+1, p+2, … from its
registration on until it is cut off), `OutputFaithful` (sound and picture are
those of the emulator's clock whatever was dropped), `OwnGeneration` (a worker
that outlives `Stop` never uses the next generation's relay or socket),
`LossesTold` (a receiver learns of every lost packet), `Lockstep` and
`IRQFaithful` (cycle accounting and interrupt sampling), `ScrollSound` (the walk
of the address comes to the same as the arithmetic on the scroll written),
`NoGapInSample`, `PairsMatch` and `ManifestSound`.

A module has no run for its types alone: its type invariant is the first
conjunct of one of its properties (`LimitsHold`, `QueueSound`, `FramesKept`,
`SampleSound`, `ClockSound`, …), with the parts that make up one statement next
to it, each named and commented on its own.

`ImplementsContract` is a refinement: `WebSocketRelay` instantiates `TransportContract`
with `sent <- published`, the status from `clients`, and `heard` from the
bundles received after the preamble, flattened.

### Runs with several parts

`MCRF`, `MCHLS`, `MCConsole` and `MCDevices` put modules side by side that
share no variable, with a variable `part` that says which of them a behaviour
exercises; the others rest in their initial state. The reachable states are the
sum of the parts', so nothing is lost against a run for each, and a property
that mentions one part's variables says of the others only that their initial
state is sound. `MCHLS` and `MCRF` carry the fairness of both parts over.

What one part tells another there is an input that may come at any time, which
is more than the program does: a fetch stall or an IRQ line in `ConsoleStep`, a
quarter frame in `APUChannel`, a register write in every device. Where a part
relies on another, the property of the other says so: `StallBounded` of
`APUDMC` is what `ConsoleStep` assumes by `MaxFetches`.

### Bounds and why they are enough

| Module | Bound | Real value | Why the small one shows the cases |
|---|---|---|---|
| WebSocketRelay | 3 clients on 2 slots (2 on 1 in `relay_live`), queue 1, bundle of 2 packets or 6 bytes, 4 or 5 packets, one `closeAll` | limits named `webSocketMax…` | the limit is reached and raced for, queues overflow, bundles close by size and by count, a control packet is refreshed; the safety properties and the refinement are proved for all values |
| RFInput | queue 2, channel 2, pool 3, 5/4 fields, 15/2 samples, compaction at 14, 12 frames | 64, 2, 3, 1001/1000, 8008/5, 4096 | a frame is skipped in every second RF frame, slices alternate, compaction happens mid-stream; proved for all values, and for the real rates there are theorems of their own |
| RFSender | frame 7, packet 3, contexts every 5, versions every 11, counter modulo 4, 4 frames | 477,750; 356, 360 or 1820; 1,431,818; 14,318,181; 16 | no length divides another, carries of 0, 1 and 2 samples, the counters wrap; proved for all values |
| RFLifecycle | 2 callers, 1 viewer, 2 starts | — | a generation can be overtaken by the next; a third only repeats that; proved for all values |
| HLSStreamer | channels of 1, 3 frames, 2 starts | 8 | full and empty at once is the extreme case of making room; proved for all values |
| HLSRecorder | 2 recordings in one process, 1 crash (two processes and none in `manifest_lost`) | — | one is between any two steps of the other's read, extend and rename; proved for all values while the mutex is shared |
| WebRTCStreamer | channels of 1, 2 frames, 1 offer | 8 | as for HLS; proved for all values |
| ConsoleStep | 29 dots, vblank at 19, instructions of 2 and 5 cycles, entry 7, stall 4, 2 fetches | 341·262, 241·341+1, 2…8, 7, 4, 2 | 29 is prime, so every instruction meets every dot; proved for all values |
| Console | one ROM, replay of 2 inputs, requests of 2 sequences, 3 frames, 3 calls | — | a replay is injected, interrupted, reset and loaded over; a call fits into each gap of the loop and of a simulation; loading the same ROM anew is loading another, as nothing looks into it; proved for all values |
| Controllers | 3 buttons, 2 handlers, 2 reads past the end | 8 | two readers race at every button; proved for all values |
| FrameClock | second of 8 units, 3 frames, catch-up 2, until 40 | 10^9 ns, 60, 12 | 3 does not divide 8; stalls below, at and above the limit; proved for all values |
| Cartridge | a board of each kind, 3 bytes, 2 bank writes, counters to 2, frames of 4 lines | 255 values, 262 lines | ROM sizes are no powers of two, bytes lie below, at and beyond their ends; counters overflow and reload within a frame; proved for all values |
| APUDMC | rates 1 and 2, bytes of 2 bits, samples of 1 and 3 bytes at the end of the address space, instructions of 4 cycles | 54…428, 8, 1…4081, 8 | an instruction is as long as a byte takes at the fastest rate, the limit of `DMCAssumption`; addresses wrap; proved for all values |
| APUFrame | steps 3, 5, 6, 9 and 11, write delay 2, 23 cycles | 3729, 7457, 11186, 14915, 18641 | the parities of the program's steps, two rounds of the long sequence; proved for all values |
| APUChannel | lengths 1, 3; periods 0, 1; reloads 0, 2; decay 2; timers of 2+2 bits; 7 quarter frames | table, 0…15, 0…127, 15, 11 bits | each counter is loaded, runs out and is reloaded while it runs; sweeps reach both ends; proved for all values |
| PPULineStates | 2 lines of 6 columns in tiles of 2, delays 0, 2, 4, 3 segments, 3 writes | 240 × 256, 8, 0/8/16, capacity of the source, — | a write in each dot of a line, past its end, before and after capture, out of order; three writes in one line need a fourth segment, which takes the place of the third; proved for all values |
| PPUScroll | 3 × 2 tiles of 2 × 2 dots, 4 rows in the address, 3 accesses | 32 × 30 of 8 × 8, 32 | every carry of the address, rows beyond the nametable, each access in each dot; proved for all values |

"Proved for all values" is of the safety and action properties; the liveness of these
modules is checked within the bounds only.

`BanksOrCounters` (a state constraint of `MCDevices`) explores bank registers
and line counters one at a time; no action reads the one and writes the
other. `PeersOrEviction` (of `MCWebRTC`) likewise explores the second frame,
which makes room in a full channel, without an offer: no step of the media
reads a variable of the peers, and no fairness but `ForgetPeer`'s is theirs.
The run `relay` uses symmetry of connections and a view that forgets what a
finished connection was sent; `relay_live` uses neither. `CHECK_DEADLOCK FALSE`
is set where the model may stop because the emulator, the feed or the
callers promise nothing further, or where `Stop` may wait for ever (section 6).

### Fairness and why the code justifies it

* **Goroutines run.** Weak fairness on the steps of a started goroutine that
  has a ready step: handlers, synthesizer, sender, pump, writers, a recording
  (`Goroutine`), `Stop` once called. Go's scheduler is preemptive and a mutex
  is handed to a starved waiter.
* **`select` is random.** Strong fairness where a ready branch competes with
  others that keep being ready: the relay's `OnHangup` and the sender's end in
  `RFLifecycle`. The Go specification has `select` pick uniformly.
* **Writes end.** A WebSocket write has a five-second deadline; a write to
  FFmpeg ends when FFmpeg reads or dies. WebRTC's video write is fair only
  while somebody reads FFmpeg's own output (`Drained`).
* **FFmpeg ends** when its context is done or its input closes, as far as the
  streamers are concerned. The recorder's may ignore SIGTERM:
  `StoppedReturns` rests on the stop timeout alone.
* **Nothing else.** No further frame, request, packet, `closeAll`, `Start`,
  `Stop`, interrupt or reading peer is promised. The console and its devices
  have safety properties only.

## 4. What is proved

The theorems hold for every value of the constants that satisfies the
assumption of the module, and for behaviours of any length. TLC has checked
each invariant on the small instance.

**`RF_proofs`**, first from `SenderAssumption` (a packet has samples, a frame and
each interval is at least one packet long, the modulus is positive):

| Theorem | States |
|---|---|
| `SenderTypes` | types, sequence numbers within their field included |
| `StreamIsContinuous` | the packets hold the synthesized stream without gap or repetition |
| `LossIsReported`, `NumbersTellLosses`, `LossesAreTold` | a context that arrives carries the loss indicator exactly if there was a loss since the one before; sequence numbers move by the packets lost plus one, modulo the field |
| `CadenceIsKept` | one context and one version per interval of the sample clock |

The argument has three layers. `StreamInv` says where in the stream each
buffer lies (`Layout`): packet, carry and the rest of the frame are adjacent and
end at `produced`. It is needed because `StreamContinuous` alone says nothing of
lengths while a packet is being cut. `WireInv` relates the sender's counters and
its pending loss to what the receiver has seen (`Numbering`, `Losses`): the
loss flag is pending exactly while there is a loss no delivered context told.
`CadenceInv` (`Clocks`) bounds the two deadlines by the sample clock from both
sides, so that exactly one context is sent per interval; from it the division
in `Cadence` follows with a lemma on quotients.

Then, from `InputAssumption`:
`QueueHoldsNewest` (the queue holds consecutive frames, newest last, and none is
older than what the synthesizer has, so the late-frame branch of `append` is
dead code), `WriteFrameNeverWaits` (the second send, made with the mutex held,
finds room) and `QueueIsSound`, which joins them. The invariant is the two
properties and the types of the queue. `NoBufferIsLost`: every IQ buffer is in
exactly one place, so recycling one never blocks; its invariant (`BufferInv`)
names the set of buffers in the sequences.

`OutputIsFaithful`: each RF frame has the pictures and the sound of its place in
time, whatever the queue dropped. `OutputInv` is inductive. `GapInv` tells the
frames that were dropped from those still to come; `AudioInv` says that the
buffer is the emulator's sound from `Base` on, silence for dropped frames
included; `VideoInv` that the pictures kept are the ones shown, and that
compaction keeps all that are still needed. RF frames already made rest on
history that the property reads in every later state: `Settled` says that what
they read can no longer be dropped (`SamePast`).

With the program's own rates (`ProgramRates`: 1001/1000 and 8008/5):
`AudioSlices` (slices have 1601 or 1602 samples, five of them 8008),
`FieldSteps` (the source frame advances by one or two per field) and
`SoundFollowsPicture` (they are cut from the same input frames for ever, no
drift).

**`RFLifecycle_proofs`**, from `LifecycleAssumption`: `WorkersKeepToTheirOwn` and
`StopHasStopped`. `GenerationInStep` follows one generation: `Streamer`'s fields
are its own from `Start` until its `run` takes the lock to clean up, and its
workers have ended and its socket is closed before that. `FieldsInStep` says
the fields belong to one generation together, `StopInStep` whom a `Stop` waits
for. Viewers are apart (`ViewersTyped`): no worker reads what they write.

**`WebSocketRelay_proofs`**, from `RelayAssumption` (no single packet fills a
bundle, so one publish flushes at most once; a context and a version fit one
bundle): `EveryClientIsServedOrTold` and `NothingIsSkipped`. What a connection
was sent (received, being written, queued) is `Chained`: an opening of at most
one bundle, then packets that follow one another. The property alone is not
inductive, as it says nothing of the bundle still being filled: `Streams` adds
that the chain with the partial bundle behind it reaches the last packet
published, and ends with a chain where a connection has been cut off; `Cached`
says that the control packets a newcomer gets are the latest since the last
`closeAll`.

`RelayKeepsItsLimits`: clients, queues, packets and bytes of a bundle stay within
their limits. `LimitsInv` asks that every bundle sent and queued and the one being
filled `Fits`, and that the running count `pendingBytes` is the size of the
bundle, which is a sum over its packets (see `Induction_proofs`); a packet is
added only after a flush that makes room, and by the assumption one packet, or a
preamble, always finds room in an empty bundle.

`RelayImplementsContract`: the relay implements `TransportContract`, in which a
connection hears the packets from its opening on in order, or is closed. The
mapping flattens what a connection was sent; `HeardInv` says that it is nothing
for one that never got in and stays behind `published` for one that did, and with
`RelayInv` that gives `HearsInOrder`, the range of packets heard. Then each action
of the relay is a step of the contract or leaves the mapped state alone.

**`HLS_proofs`**, from `HLSAssumption`: `StreamKeepsFrames`, for all capacities,
frames and restarts. `StreamTypes` is the type invariant without the bounds of
the counters, which follow from `Drops` (what the pump has thrown out for the
frame in its hands, and the sums) and `Accounting`; `Phases` says where the pump
can be beside `Stop`. `OrderInv` cuts each pipe into what FFmpeg has heard, what
the writer holds, the queue, the pump's hands and the frame channel, each below
the next (`Chain`), and keeps the newest frame passed on in the first three while
the writer lives: after the last select of `enqueueLatest` it cannot be missing,
as the pump alone fills the queue (`Phases`: before the retry there is room).

From `RecorderAssumption`: `ManifestIsSound`, for
recordings that take the same mutex (`SharedProcess`, an explicit hypothesis;
`manifest_lost` shows that it is needed). `Exclusive`: who has read the manifest
holds the mutex, and his copy is the file. `Once` and `Entered`: each recording
has at most one entry, none before its first write, and keeps it. `Backed` and
`Carried`: an entry says no more than the sidecar, which says what the
recording carries.

**`WebRTC_proofs`**, from `WebRTCAssumption`: `PeersAreListed` and
`NewestStaysLast`. `PeersInv` adds to the property where a peer is in `Answer`:
it has no connection before its offer, is not in the map while candidates are
gathered, and a notice of its end is about a closed connection; so the map loses
none that is open. `OrderInv` puts what FFmpeg has heard, what the writer holds
and the queue of each medium in order (`InOrder`), and says that the last of these
(`Last`) is the newest frame offered unless the send of this medium is still
awaited in the running `WriteFrame`. That send holds the mutex, so there is one.

**`Console_proofs`**, for the step from `StepAssumption` (no single advance spans a
PPU frame): `StepTypes`, `ClocksInLockstep`, `NMIsAreFaithful`,
`IRQsAreFaithful`. The inductive invariant is `TypeOK` with
`Clocks` (what APU and PPU owe at every place of the loop, not only at the
boundary), `Stores` (a deferred write exists only between execution and
landing), `Stolen` (stall cycles are bounded by the fetches), `Queued`, `Mask`
and `Taken` (what the latency counters mean at each place). One step per action.

For the parts around it: `PortHandsOutLatch` (`PortInv`: the register is that of
the latch after the program's reads and at most as many more as there were peeks,
and what a racing peek has loaded is one of those), `FramesArePaired`
(`PairsInv`: each step by which the last picture, or the one in the loop's hands,
is `Behind` the sound ended in an error or followed one; the machine is past the
vblank at a call only if the last step failed there) and `ClockKeepsBeat`
(`ClockInv`, with `BurstInv`: where the n-th last frame of a burst lies against
now; the rounding of deadlines is bounded by lemmas on quotients,
`CatchUpFrames` says how many frames fit into the limit).

`ReplayIsFaithful`: the inputs of an injected replay are handed out in order, each
once, over pauses, failing frames, resets and loads, and no client's buttons get in
between before the next reset or load. `Followed` relates the
replay, the frames run since and the cursor; the frames are those of a history
that also holds pokes, filtered out by a fold. `SimulationStartsFromBase`: every
sequence of a simulation is run from the state at the request. `SimSound` says
that each result is what the inputs make of the base (`RunOf`), a prefix of it if
the sequence was stopped, and that the one at work is at some frame of its own run
(`AtWork`); the live console is not in it, which is the point.

**`Devices_proofs`**, for the APU: `SequencerKeepsStep` (`SequencerInStep` is
inductive; `IRQFollowsEnd` says when the frame interrupt is there and when not), `SamplesAreWhole` and `SamplesHaveNoGap`, from `DMCAssumption` (an
instruction is no longer than a byte takes at the fastest rate, which the table
of rates fulfils). `DMCInv` is `Whole` (the bytes fetched and remaining make up
the sample) and `Budget`: the charge since the console last took it is bounded by
the bits shifted since. Its core is arithmetic: two bytes are at least
`Spacing` cycles a bit apart, `Reach` is the cycle of the last bit.
`ChannelKeepsTime`, from `ChannelAssumption` (a timer has fifteen bits at most):
`LevelInv` gives level and divider of an envelope as quotient and remainder of
the quarter frames since it settled, and the linear counter as a difference;
the signs and bounds of a sweep follow for all timers.

For the boards, from `CartridgeAssumption`:
`IRQsAreOnTheirLine`: `CounterInv` says what each
board's counter has counted. MMC3's is the latch it was loaded with less the
clocks since, MMC5's the lines of the picture begun and those a reset kept out,
VRC's the dots since the load in turns of the prescaler (`Dots`), which an
acknowledgement rounds down. `IRQOnItsLine` compares the flag with these
histories and is not inductive without it. `PortHoldsBits`: `PortInv` lists the
five fillings of MMC1's port with the value of the shift register in each.
`FetchesStayInROM`: no fetch leaves the ROM, for every size of it. The type
invariant (`BankInv`) is inductive; that each window it allows is in the ROM
is arithmetic, one lemma per kind of board (`WindowsInROM` for the program,
`SlotsInROM` for the pictures): a bank number is cut to the number of banks, or
its low bit is dropped where banks go in pairs.

For the PPU: `ScrollArrives`, from `ScrollAssumption` and `ScrollInputs`. The address
walks over tiles while the property speaks of the world's dots, so `ColumnHolds` and
`RowHolds` translate: the column at a dot is that of the scroll and `Ahead`, the
tiles fetched in advance, modulo the width of two screens (`Same`), the row that
of the line. Nothing is known while the picture is off, between the end of a line
and the copy, or before the pre-render line has loaded the address (`ColumnKnown`,
`RowKnown`). `HighLoaded` keeps the first half of a pair of writes to `$2006`.
`PictureIsTheOneDrawn`, from `LineStatesAssumption`: the second drawing shows, in each
column, the registers as they were when it was drawn first. `Follows` says what
the segments of a line are: the last one is the newest state, each begins where
some write was to show, and with room for all of them segment j stands for the
writes between the state before and its own (`WritesKept`).

**`Induction_proofs`** has what the others need in place of the library's induction
theorems, whose operator parameter no installed prover can instantiate:
`LeastNumber`, every nonempty set of numbers has a least element, proved from the
library's well-foundedness of strict inclusion on finite sets; with it a claim on
all lengths is proved on its shortest counterexample. `FoldExists` shows that a
function defined by recursion along a sequence exists, `FoldsAgree` that two of them
agree as long as their sequences do. The bytes of a bundle, flattened bundles, the
frames of a history and the segments of a line rest on these.

**Beyond this prover**: liveness under fairness (`HandlersEnd`, `Drains`,
`GenerationsEnd`, `StopEndsOrMeetsPump`, `StoppedReturns`, `CallsReturn`) and
`ENABLED`. These six are model-checked; every other property of a passing run
is stated by a theorem. No module of this project declares a RECURSIVE operator.

## 5. What is not modelled

* The RF waveform and the bit layout of DIFI packets (floating point, bit
  fields without state); the 4-bit counters and slice lengths are.
* The opcode table of the CPU: byte functions without interleavings, covered by
  nestest. What an instruction does to the other parts (cycles, stores,
  interrupt masks) is in `ConsoleStep`.
* Of the PPU: sprites, palettes and the composition of pixels. Of the APU: duty
  and noise sequences, mixing, filters. Data without control, covered by
  pictures and recordings.
* In `Cartridge`: contents and protection of PRG-RAM, CHR-RAM writes, MMC5's
  multiplier, extended RAM and fill mode. Boards that switch 32 KiB are assumed
  to have ROMs of whole units of that; `LoadINES` does not check it.
* In `ConsoleStep`: the sources of the IRQ line are one level that may rise in
  any cycle; their counters are in `Cartridge`, `APUFrame` and `APUDMC`.
* In `Console`: what a frame computes. Two machines that were reset and then
  given the same inputs are the same machine, which is the emulator's
  determinism and is not shown here.
* The syntax of FM2 files, of requests and of configuration; base64 and frame
  headers of the WebSocket handshake; the web page; statistics other than the
  ones properties speak of; wording of errors; the validation suites.
* In `HLSRecorder`: two recordings that start in the same second share a file
  name and FFmpeg overwrites the first (`-y`); the model gives each its own.
* Time, outside `FrameClock`: a deadline is a step that may come at any moment.

## 6. Findings

Four runs refute what the repository says of itself.

1. **A viewer can be orphaned** (`rf_orphan`, `AllClientsClosed`,
   `streamer.go:238`). `ServeWebSocket` reads the relay under the lock and
   registers with it after the upgrade. A `Stop` in between has already run
   `closeAll`; the connection registers with a relay nobody publishes to and
   stays. `doc/progress-2026-07-19-issue-5-difi-wss.md:25` says all are closed.
2. **`HLSStreamer.Stop` can wait for ever** (`hls_stop`, `StopReturns`,
   `hls.go:146`). It waits for the pump with the mutex held; the pump takes the
   mutex to count the frame it has just passed on. `StopEndsOrMeetsPump`, in the
   passing run, says that nothing else keeps it.
3. **A vblank can lose its NMI** (`console_lost_nmi`, `VBlankQueuesNMI`,
   `console.go:492`). The seven cycles of an interrupt entry are applied to the
   PPU with the NMI edge thrown away.
4. **A clip can be lost from the manifest** (`manifest_lost`, `ManifestKeeps`,
   `hls_recorder.go:139`). The mutex that guards the manifest is the process's;
   two `nesd-record-hls` with the same directory both extend the manifest they
   read, and the later rename drops the clip of the other. `README.md:33` calls
   it cumulative.

### Noted while modelling

With no statement of the repository to hold against it:

* **WebRTC.** `Stop` waits with the mutex held for watchers that need it to
  report (`webrtc.go:168`, `:476`, `:395`); if the context is not yet done when
  it is called it always meets the exits it causes itself. `CallsReturn` says that
  nothing else keeps it. `forwardAudio` reads `audioConn` without the lock.
  A peer that fails while `Answer` gathers candidates may be registered after
  its only notice and stay listed.
* **Recorder.** `exec.CommandContext` kills FFmpeg as soon as the context is
  done, in a race with the SIGTERM and the stop timeout that are meant to let
  it finish its MP4 (`hls_recorder.go:239`); and a clip killed this way is listed
  without `ffmpeg_error`, as the wait returns the context's error.
* **Second drawing.** A write at dot 1 of a visible line invalidates the line
  captured there; one between the last visible line and the vblank invalidates
  all of them, so `renderFrame` draws the whole frame with the registers at
  vblank. `PictureFollowsWrites` excludes these (`lost`). Segments recorded in
  mid-line take the address two tiles ahead as it is (`ppu.go:289`), so the rest
  of a line written to at certain dots shifts by a tile against what was drawn
  live (see `doc/development-schedule.md:67`).
* **Boards.** MMC1's 8 KiB CHR mode multiplies the 4 KiB bank number by 8 KiB
  (`cartridge.go:244`). VRC's prescaler is stepped by three once per visible
  scanline, not per CPU cycle (`ppu.go:309`, `cartridge.go:1144`), so its
  interrupts come about a hundred times too rarely; `IRQOnItsLine` states the
  code's unit. `vrcCHRHigh << 4` is computed in a byte.
* **Sweeps.** Pulse 2 subtracts in ones' complement, pulse 1 in two's; the
  hardware has it the other way round. `ChannelSound` states the code's.
* **Reset and load.** `Console.Reset` leaves the cartridge untouched, mapper
  registers, PRG-RAM and MMC5's line counter included, also when a replay is
  injected; with it stays a `$81` that a test ROM has left in its status byte.
  `LoadROM` keeps pause, replay and cursor of the ROM before
  (`console.go:24`). A reset draws a fallback picture and keeps the old sound; the
  loop of a paused console sends the same sound again.
* **Picture and sound after an error.** An instruction that fails pauses the console
  where it is in the PPU frame, with the sound of the step filled up
  (`console.go:134`, `:155`). Before the vblank the old picture goes out with that
  sound. Past it, the step after `SetPaused(false)` runs only the rest of the
  frame: it counts a frame, takes an input of the replay and fills the sound again,
  but draws nothing (`ppu.go:290`), so picture N goes out with sound N+1.
  `PairsMatch` names these steps, and says that nothing else parts the two.
* **Reads that change.** `Peek` holds the read lock while the registers it reads
  have side effects (`console.go:90`); `ReadsFollowLatch` says how far that goes
  for the controllers.
* **Simulations** of a paused console do nothing and report success.
* **Clock.** `frameDeadline` multiplies the frame number by 10^9 in 64 bits,
  which overflows after about 4.9 years at 60 Hz.

## 7. Plan

Done: the RF path from the emulator's frames to the receivers, HLS, WebRTC and
the recorder; the console's step, its operations, the controller port and the
frame clock; boards, APU and PPU as far as they have control; every safety and
action property of a passing run as a theorem. Left, in this order:

1. The composition of `APUFrame`, `APUDMC` and `Cartridge`'s counters with
   `ConsoleStep`, whose IRQ level and stalls they would drive. `StallBounded`
   is the part of it that is stated and proved.
2. Sprites: evaluation and the sprite-0 hit, whose dot depends on the line's
   segments.
