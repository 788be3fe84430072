------------------------------- MODULE Console -------------------------------
(***************************************************************************)
(* The operations of the console (internal/nes/console.go), as the HTTP    *)
(* handlers (internal/api/server.go), the frame loop of the daemon         *)
(* (internal/daemon/daemon.go) and the simulation of input sequences       *)
(* (internal/nes/simulate.go) call them.  Each takes Console.mu, so each   *)
(* is one action; the loop and a simulation are several, and other calls   *)
(* come in between.                                                        *)
(*                                                                         *)
(* The machine is the ROM and what was done to it since the last reset: the*)
(* buttons of each frame, and pokes.  Pictures and sound are the number of *)
(* the frame they were made in.                                            *)
(***************************************************************************)
EXTENDS Integers, Sequences, SequencesExt

CONSTANTS
  ROMs,
  Buttons,   \* states of a controller
  Released,  \* Buttons{}
  Replays,   \* replays, each a non-empty sequence of [p1, p2]
  Requests,  \* simulation requests, each a sequence of sequences of buttons
  FramesPerInput,
  MaxSteps,  \* bound: frames emulated
  MaxCalls   \* bound: API calls that change more than the pause

Frame == [p1 : Buttons, p2 : Buttons]

ASSUME ConsoleAssumption ==
  /\ Released \in Buttons
  /\ \A replay \in Replays : replay \in Seq(Frame) /\ replay /= << >>
  /\ \A request \in Requests : request \in Seq(Seq(Buttons)) /\ request /= << >>
  /\ {FramesPerInput, MaxSteps, MaxCalls} \subseteq Nat \ {0}

VARIABLES
  cart, worn,    \* the ROM, and whether its cartridge has run before the last reset
  ran,           \* what was done to the machine since the last reset
  frameCount, paused, replay, cursor,
  controller,    \* controllerP1 and controllerP2
  lastFrame,     \* [by, step]: drawn by a frame, or by a reset
  audioSamples,  \* the step that filled it
  pastVBlank,    \* ppu.scanline: past the vblank of the PPU frame it is in
  loop,          \* frameLoop: [at, frame, audio]
  sim,           \* a request being simulated
  steps, calls,  \* bounds: frames emulated, and calls
  given,         \* history: inputs of the replay handed out since it was injected
  injected,      \* history: neither reset nor ROM load since then
  failed         \* history: the steps that ended in a CPU error

machineVars == <<cart, worn, ran, frameCount, replay, cursor, controller, injected>>
outputVars == <<lastFrame, audioSamples, pastVBlank>>
consoleVars == <<machineVars, paused, outputVars, loop, sim, steps, calls, given, failed>>

NoCart == "none"
Poked == [poked |-> TRUE]
NoSim == [at |-> "idle"]
Idle == [p1 |-> Released, p2 |-> Released]

ConsoleInit ==
  /\ cart = NoCart /\ worn = FALSE /\ ran = << >>
  /\ frameCount = 0 /\ paused = FALSE /\ replay = << >> /\ cursor = 0 /\ controller = Idle
  /\ lastFrame = [by |-> "reset", step |-> 0] /\ audioSamples = 0 /\ pastVBlank = FALSE
  /\ loop = [at |-> "step"] /\ sim = NoSim
  /\ steps = 0 /\ calls = 0
  /\ given = << >> /\ injected = FALSE /\ failed = {}

-----------------------------------------------------------------------------
(* API calls.                                                              *)

Call == calls < MaxCalls /\ calls' = calls + 1

\* resetLocked.  The cartridge, the pause, the replay and the sound are not its business.
ResetLocked ==
  /\ ran' = << >> /\ frameCount' = 0 /\ controller' = Idle
  /\ lastFrame' = [by |-> "reset", step |-> steps] /\ pastVBlank' = FALSE
  /\ UNCHANGED <<paused, audioSamples, loop, sim, steps, failed>>

\* A new cartridge; the replay of the one before goes on.
LoadROMContent(rom) ==
  /\ Call /\ ResetLocked
  /\ cart' = rom /\ worn' = FALSE
  /\ injected' = FALSE
  /\ UNCHANGED <<replay, cursor, given>>

\* Mutant: the cursor of the replay before is kept.
LoadFM2ContentAtCursor(r) ==
  /\ Call /\ ResetLocked
  /\ replay' = r
  /\ worn' = (worn \/ ran /= << >>)
  /\ given' = << >> /\ injected' = TRUE
  /\ UNCHANGED <<cart, cursor>>

LoadFM2Content(r) ==
  /\ Call /\ ResetLocked
  /\ replay' = r /\ cursor' = 0
  /\ worn' = (worn \/ ran /= << >>)
  /\ given' = << >> /\ injected' = TRUE
  /\ UNCHANGED cart

ResetConsole ==
  /\ Call /\ ResetLocked
  /\ worn' = (worn \/ ran /= << >>)
  /\ injected' = FALSE
  /\ UNCHANGED <<cart, replay, cursor, given>>

\* A paused console stays paused over loads and resets.
SetPaused(p) ==
  /\ paused' = p
  /\ UNCHANGED <<machineVars, outputVars, loop, sim, steps, calls, given, failed>>

SetController(player, b) ==
  /\ Call /\ controller' = [controller EXCEPT ![player] = b]
  /\ UNCHANGED <<cart, worn, ran, frameCount, replay, cursor, injected, paused, outputVars, loop,
                 sim, steps, given, failed>>

\* A write to memory.
PokeRAM ==
  /\ Call /\ ran' = Append(ran, Poked)
  /\ UNCHANGED <<cart, worn, frameCount, replay, cursor, controller, injected, paused, outputVars,
                 loop, sim, steps, given, failed>>

-----------------------------------------------------------------------------
(* The frame loop of the daemon: StepFrame, SnapshotFrame, SnapshotAudio   *)
(* and the streamers, with the lock released in between.                   *)

Playing == cursor < Len(replay)
Input == IF Playing THEN replay[cursor + 1] ELSE controller

\* The replay's buttons for this frame, if there are any left.
TakeInput ==
  /\ controller' = Input
  /\ cursor' = IF Playing THEN cursor + 1 ELSE cursor
  /\ given' = IF Playing THEN Append(given, replay[cursor + 1]) ELSE given

\* The picture after a step that reaches the vblank or does not: the PPU draws on its way
\* into the vblank, and without a cartridge the step draws the fallback at its end.
Picture(reached) ==
  IF cart = NoCart \/ (reached /\ ~pastVBlank) THEN [by |-> "frame", step |-> steps + 1]
  ELSE lastFrame

\* What there is left of the PPU frame is run, all of it unless an instruction has failed.
RunFrame ==
  /\ steps < MaxSteps /\ ~paused
  /\ TakeInput
  /\ steps' = steps + 1
  /\ ran' = Append(ran, Input) /\ frameCount' = frameCount + 1
  /\ lastFrame' = Picture(TRUE) /\ pastVBlank' = FALSE
  /\ audioSamples' = steps + 1
  /\ UNCHANGED <<paused, failed>>

\* The memory of a console without a cartridge is all BRK until somebody writes to it.
CanFail(rom, done) == rom /= NoCart \/ \E i \in DOMAIN done : done[i] = Poked

\* An instruction fails, before or after the vblank: the console pauses where it is in the
\* PPU frame, its sound goes on to the end of the step.
RunFailingFrame ==
  /\ steps < MaxSteps /\ ~paused /\ CanFail(cart, ran)
  /\ TakeInput
  /\ steps' = steps + 1
  /\ ran' = Append(ran, Input) /\ UNCHANGED frameCount
  /\ pastVBlank' \in IF pastVBlank THEN {TRUE} ELSE BOOLEAN
  /\ lastFrame' = Picture(pastVBlank')
  /\ audioSamples' = steps + 1
  /\ paused' = TRUE /\ failed' = failed \union {steps + 1}

\* Mutant: a paused console samples its sound all the same.
RunPausedSampling ==
  /\ paused /\ steps < MaxSteps
  /\ steps' = steps + 1 /\ audioSamples' = steps + 1
  /\ UNCHANGED <<controller, cursor, given, ran, frameCount, lastFrame, pastVBlank, paused,
                 failed>>

RunPaused ==
  /\ paused
  /\ UNCHANGED <<controller, cursor, given, steps, ran, frameCount, outputVars, paused, failed>>

StepFrame ==
  /\ loop.at = "step"
  /\ RunFrame \/ RunFailingFrame \/ RunPaused
  /\ loop' = [at |-> "frame"]
  /\ UNCHANGED <<cart, worn, replay, injected, sim, calls>>

SnapshotFrame ==
  /\ loop.at = "frame"
  /\ loop' = [at |-> "audio", frame |-> lastFrame]
  /\ UNCHANGED <<machineVars, paused, outputVars, sim, steps, calls, given, failed>>

SnapshotAudio ==
  /\ loop.at = "audio"
  /\ loop' = [at |-> "write", frame |-> loop.frame, audio |-> audioSamples]
  /\ UNCHANGED <<machineVars, paused, outputVars, sim, steps, calls, given, failed>>

\* The pair goes to the streamers; the timer starts the next turn.
WriteFrames ==
  /\ loop.at = "write"
  /\ loop' = [at |-> "step"]
  /\ UNCHANGED <<machineVars, paused, outputVars, sim, steps, calls, given, failed>>

-----------------------------------------------------------------------------
(* A simulation: one at a time here, as they share nothing.                *)

\* The console is copied under its lock, without its replay.
SimulateInputSequences(request) ==
  /\ Call /\ sim = NoSim
  /\ sim' = [at |-> "sequence", request |-> request, results |-> << >>, ran |-> << >>,
             base |-> [ran |-> ran, paused |-> paused, p2 |-> controller.p2, cart |-> cart],
             stopped |-> {}]
  /\ UNCHANGED <<machineVars, paused, outputVars, loop, steps, given, failed>>

\* The sequence that is simulated now.
Current == sim.request[Len(sim.results) + 1]

\* Mutant: the next sequence goes on where the last one ended.
StartSequenceThere ==
  /\ sim.at = "sequence"
  /\ sim' = [sim EXCEPT !.at = "run", !.ran = IF sim.results = << >> THEN sim.base.ran ELSE @]
  /\ UNCHANGED <<machineVars, paused, outputVars, loop, steps, calls, given, failed>>

\* Each sequence starts from its own copy; one without inputs ends the request.
StartSequence ==
  /\ sim.at = "sequence"
  /\ sim' = IF Current = << >> THEN NoSim
            ELSE [sim EXCEPT !.at = "run", !.ran = sim.base.ran]
  /\ UNCHANGED <<machineVars, paused, outputVars, loop, steps, calls, given, failed>>

\* What is left of the current sequence after what has been run of it.
Input2Go == Len(sim.ran) - Len(sim.base.ran) < FramesPerInput * Len(Current)

NextInput ==
  [p1 |-> Current[1 + (Len(sim.ran) - Len(sim.base.ran)) \div FramesPerInput],
   p2 |-> sim.base.p2]

\* A frame of the copy.
SimulateFrame ==
  /\ sim.at = "run" /\ Input2Go /\ ~sim.base.paused
  /\ sim' = [sim EXCEPT !.ran = Append(@, NextInput)]
  /\ UNCHANGED <<machineVars, paused, outputVars, loop, steps, calls, given, failed>>

\* The memory asked for is read once the frames are done, or the copy is paused: it was
\* when it was taken, or an instruction failed.
EndSequence ==
  /\ sim.at = "run"
  /\ LET broken == Input2Go /\ ~sim.base.paused
         results == Append(sim.results, sim.ran)
     IN /\ broken => CanFail(sim.base.cart, sim.base.ran) /\ sim.ran /= sim.base.ran
        /\ sim' = [sim EXCEPT !.results = results,
                     !.stopped = IF broken THEN @ \union {Len(results)} ELSE @,
                     !.at = IF Len(results) = Len(sim.request) THEN "done" ELSE "sequence"]
  /\ UNCHANGED <<machineVars, paused, outputVars, loop, steps, calls, given, failed>>

\* The response is sent.
Respond ==
  /\ sim.at = "done" /\ sim' = NoSim
  /\ UNCHANGED <<machineVars, paused, outputVars, loop, steps, calls, given, failed>>

ConsoleNext ==
  \/ \E rom \in ROMs : LoadROMContent(rom)
  \/ \E r \in Replays : LoadFM2Content(r)
  \/ ResetConsole
  \/ \E p \in BOOLEAN : SetPaused(p)
  \/ \E player \in {"p1", "p2"}, b \in Buttons : SetController(player, b)
  \/ PokeRAM
  \/ StepFrame
  \/ SnapshotFrame
  \/ SnapshotAudio
  \/ WriteFrames
  \/ \E request \in Requests : SimulateInputSequences(request)
  \/ StartSequence
  \/ SimulateFrame
  \/ EndSequence
  \/ Respond

ConsoleSpec == ConsoleInit /\ [][ConsoleNext]_consoleVars

-----------------------------------------------------------------------------
ConsoleTypeOK ==
  /\ cart \in ROMs \union {NoCart} /\ worn \in BOOLEAN
  /\ ran \in Seq(Frame \union {Poked})
  /\ frameCount \in 0 .. Len(ran)
  /\ paused \in BOOLEAN /\ replay \in Replays \union {<< >>} /\ cursor \in 0 .. Len(replay)
  /\ controller \in Frame
  /\ lastFrame \in [by : {"frame", "reset"}, step : 0 .. steps] /\ audioSamples \in 0 .. steps
  /\ pastVBlank \in BOOLEAN /\ failed \subseteq 1 .. steps
  /\ steps \in 0 .. MaxSteps /\ calls \in 0 .. MaxCalls

\* The inputs of the frames among what was done to the machine.
FramesOf(done) ==
  LET upTo[n \in 0 .. Len(done)] ==
        IF n = 0 THEN << >>
        ELSE IF done[n] = Poked THEN upTo[n - 1] ELSE Append(upTo[n - 1], done[n])
  IN upTo[Len(done)]

\* An injected replay starts from its first frame on a machine that was reset, each of its
\* inputs is handed out once and in order over pauses, failing frames, resets and ROM loads,
\* and until the next reset or ROM load no button a client sets gets in between.
ReplayFaithful ==
  /\ ConsoleTypeOK
  /\ given = SubSeq(replay, 1, cursor)
  /\ injected =>
       /\ cursor = IF Len(FramesOf(ran)) < Len(replay) THEN Len(FramesOf(ran)) ELSE Len(replay)
       /\ SubSeq(FramesOf(ran), 1, cursor) = given

\* The daemon's loop hands out a picture with the sound of the same step, whatever calls
\* come between its three sections; a picture drawn by a reset stands for the step before.
\* Only CPU errors part them: each step by which the picture is behind the sound ended in
\* one, or finished the PPU frame that one had left past its vblank, and the second whole
\* step after an error brings them together again.
PairsMatch ==
  loop.at = "write" =>
    /\ loop.frame.step <= loop.audio
    /\ \A k \in loop.frame.step + 1 .. loop.audio : k \in failed \/ k - 1 \in failed

\* A sequence is simulated from the state the console was in when the request was taken,
\* with its own inputs alone, whatever the live console and the sequences before it did.
\* On a paused copy it does nothing.
Expected(i) ==
  LET frames == IF sim.base.paused THEN 0 ELSE FramesPerInput * Len(sim.request[i])
  IN sim.base.ran \o [f \in 1 .. frames |->
       [p1 |-> sim.request[i][1 + (f - 1) \div FramesPerInput], p2 |-> sim.base.p2]]

SimulationFromBase ==
  sim /= NoSim => \A i \in DOMAIN sim.results :
    IF i \in sim.stopped THEN IsPrefix(sim.results[i], Expected(i))
    ELSE sim.results[i] = Expected(i)
=============================================================================
