----------------------------- MODULE ConsoleStep -----------------------------
(***************************************************************************)
(* One emulated instruction: the loop body of StepFrame and                *)
(* StepInstruction in internal/nes/console.go, with the interrupt latency  *)
(* of the console, the interrupt entries of cpu.go, the vertical blank of  *)
(* ppu.go and the cycle stealing of the APU's sample channel.              *)
(*                                                                         *)
(* Console.mu is held from one boundary to the next; the phases of `at'    *)
(* are the places in the code where a subsystem is brought forward or an   *)
(* interrupt is considered.  An instruction is what it does to the rest:   *)
(* its cycles, the I flag it leaves, whether it acknowledges the interrupt *)
(* line, what it stores into PPUCTRL or PPUMASK.  The IRQ lines of mapper  *)
(* and APU are one level that may rise in any cycle; the dots of a PPU     *)
(* frame are counted from 0.                                               *)
(***************************************************************************)
EXTENDS Integers

CONSTANTS
  FrameDots,          \* dots of a full PPU frame: 341 * 262
  VBlankDot,          \* the dot that starts vertical blank: 241 * 341 + 1
  InstructionCycles,  \* CPU cycles an instruction may take: 2 .. 8
  EntryCycles,        \* cycles of an interrupt entry: 7
  StallCycles,        \* cycles a sample fetch steals from the CPU: 4
  MaxFetches          \* fetches between two boundaries: 2, the first two of a
                      \* sample follow at once, then one every 432 cycles

\* A store to a PPU register is an absolute or indirect one.
StoreCycles == {n \in InstructionCycles : n >= 4}

ASSUME StepAssumption ==
  /\ InstructionCycles \subseteq Nat \ {0, 1}
  /\ EntryCycles \in Nat \ {0} /\ StallCycles \in Nat \ {0} /\ MaxFetches \in Nat
  /\ FrameDots \in Nat /\ VBlankDot \in 1 .. FrameDots - 2
  \* No advance spans a frame.
  /\ \A n \in InstructionCycles \union {EntryCycles, StallCycles * MaxFetches} :
       3 * n < FrameDots - 1

VARIABLES
  at,          \* the next step, see Phases
  maskI,       \* cpu.P & flagI
  prevI,       \* prevP & flagI: the flag when the instruction began
  nmiPending, nmiDelay,    \* nmiPending, nmiDelayInstr
  irqDelay, irqLatency,    \* irqDelayInstr, irqMaskLatency
  line,        \* cart.irqPending() or apu.irqPending()
  store,       \* pendingPPUWrites: "none", or the control bits it leaves
  stall,       \* apu.pendingCPUStallCycles
  fetches,     \* sample fetches since the last completed instruction
  dot, odd,    \* position of the PPU in its frame, frameID % 2
  control,     \* PPUCTRL's NMI bit, and rendering from PPUMASK
  behind,      \* history: CPU cycles the APU and the PPU still have to run
  owed,        \* history: a vblank began with NMI enabled since the last NMI
  since,       \* history: instructions begun since an NMI was queued
  held,        \* history: the line was up at the boundary and stayed so
  entered      \* history: an IRQ was entered since the boundary

cpuVars == <<maskI, prevI, nmiPending, nmiDelay, irqDelay, irqLatency, line>>
busVars == <<store, stall, fetches, dot, odd, control>>
historyVars == <<behind, owed, since, held, entered>>
vars == <<at, cpuVars, busVars, historyVars>>

(***************************************************************************)
(*   boundary  serviceQueuedNMIIfReady, at the top of the loop             *)
(*   execute   cpu.Step and noteIRQMaskTransitions                         *)
(*   early     advanceSubsystems(cpuCycles-1)        \                     *)
(*   writes    the deferred PPU writes                } of an instruction  *)
(*   late      advanceSubsystems(1)                  /  that stores        *)
(*   whole     advanceSubsystems(cpuCycles) of any other instruction       *)
(*   stall     one turn of applyAPUDrivenStall                             *)
(*   earlyIRQ, finalIRQ   serviceQueuedIRQIfReady, in advanceSubsystems or *)
(*             applyAPUDrivenStall                                         *)
(*   finish    finishInstructionBoundary                                   *)
(***************************************************************************)
Phases == {"boundary", "execute", "early", "earlyIRQ", "writes", "late", "whole",
           "finalIRQ", "stall", "finish"}

NoStore == [kind |-> "none"]
Control == [nmi : BOOLEAN, rendering : BOOLEAN]
Off == [nmi |-> FALSE, rendering |-> FALSE]
InStep == [apu |-> 0, ppu |-> 0]

Init ==
  /\ at = "boundary"
  /\ maskI = TRUE /\ prevI = TRUE
  /\ nmiPending = FALSE /\ nmiDelay = 0 /\ irqDelay = 0 /\ irqLatency = 0
  /\ line = FALSE
  /\ store = NoStore /\ stall = 0 /\ fetches = 0
  /\ dot = 0 /\ odd = FALSE /\ control = Off
  /\ behind = InStep /\ owed = FALSE /\ since = 0 /\ held = FALSE /\ entered = FALSE

-----------------------------------------------------------------------------
(* The subsystems.                                                         *)

\* ppu.step.  While rendering, every second frame lacks its last dot, unless the
\* PPU already stands there.
FrameEnd ==
  IF control.rendering /\ odd /\ dot < FrameDots - 1 THEN FrameDots - 1 ELSE FrameDots

FrameEnds(n) == dot + 3 * n >= FrameEnd

\* Mutant: the frame does not end.
DotAfterEndless(n) == dot + 3 * n

DotAfter(n) == IF FrameEnds(n) THEN dot + 3 * n - FrameEnd ELSE dot + 3 * n

VBlankBegins(n) ==
  \/ dot < VBlankDot /\ VBlankDot <= dot + 3 * n
  \/ FrameEnds(n) /\ VBlankDot <= DotAfter(n)

RaisesNMI(n) == control.nmi /\ VBlankBegins(n)

StepPPU(n) ==
  /\ dot' = DotAfter(n)
  /\ odd' = IF FrameEnds(n) THEN ~odd ELSE odd

\* apu.StepCycles: each fetch of a sample byte asks for a stall.
StepAPU ==
  \E k \in 0 .. MaxFetches - fetches :
    fetches' = fetches + k /\ stall' = stall + k * StallCycles

\* Timers of mapper and APU may raise the line; only the program lowers it.
RaiseLine == line' \in {line, TRUE}

\* A vblank with NMI enabled, seen from outside.
NoteVBlank(n) == owed' = (owed \/ (control.nmi /\ VBlankBegins(n)))

\* Mutant: no latency.
QueueNMIAtOnce == nmiPending' = TRUE /\ since' = 0 /\ UNCHANGED nmiDelay

\* queueNMIInterrupt
QueueNMI ==
  /\ nmiPending' = TRUE /\ since' = 0
  /\ nmiDelay' = IF nmiDelay < 1 THEN 1 ELSE nmiDelay

\* PPU and lines over n cycles, in advanceSubsystems and applyAPUDrivenStall.
Run(n) ==
  /\ StepPPU(n) /\ RaiseLine /\ NoteVBlank(n)
  /\ \/ RaisesNMI(n) /\ QueueNMI
     \/ ~RaisesNMI(n) /\ UNCHANGED <<nmiPending, nmiDelay, since>>

\* advanceSubsystems, up to the interrupt line
Advance(n) ==
  /\ Run(n) /\ StepAPU
  /\ behind' = [apu |-> behind.apu - n, ppu |-> behind.ppu - n]

\* Mutant: an entry is charged to the CPU alone.
AdvanceEntryUnclocked ==
  /\ behind' = [apu |-> behind.apu + EntryCycles, ppu |-> behind.ppu + EntryCycles]
  /\ UNCHANGED <<dot, odd, line, stall, fetches, owed, since>>

\* The seven cycles the CPU has just spent on an entry, and
\* advanceInterruptEntryCycles: what the PPU returns is thrown away.
AdvanceEntry ==
  /\ StepPPU(EntryCycles) /\ StepAPU /\ RaiseLine /\ NoteVBlank(EntryCycles)
  /\ UNCHANGED <<behind, since>>

-----------------------------------------------------------------------------
(* The instruction.                                                        *)

Go(from, to) == at = from /\ at' = to

\* serviceQueuedNMIIfReady
NoNMI ==
  /\ Go("boundary", "execute") /\ ~nmiPending
  /\ held' = line
  /\ UNCHANGED <<cpuVars, busVars, behind, owed, since, entered>>

DelayNMI ==
  /\ Go("boundary", "execute") /\ nmiPending /\ nmiDelay > 0
  /\ nmiDelay' = nmiDelay - 1
  /\ held' = line
  /\ UNCHANGED <<maskI, prevI, nmiPending, irqDelay, irqLatency, line, busVars, behind,
                 owed, since, entered>>

EnterNMI ==
  /\ Go("boundary", "execute") /\ nmiPending /\ nmiDelay = 0
  /\ nmiPending' = FALSE
  /\ maskI' = TRUE
  /\ StepPPU(EntryCycles) /\ StepAPU /\ RaiseLine
  \* The NMI that is entered pays for the vblank that queued it.
  /\ owed' = RaisesNMI(EntryCycles)
  /\ since' = 0
  /\ held' = line'
  /\ UNCHANGED <<prevI, nmiDelay, irqDelay, irqLatency, store, control, behind, entered>>

\* Mutant: unmasking takes effect at once.
NoteIRQMaskNoDelay(flag) ==
  /\ prevI' = maskI /\ maskI' = flag
  /\ irqLatency' = IF ~maskI /\ flag /\ irqLatency < 1 THEN 1 ELSE irqLatency
  /\ UNCHANGED irqDelay

\* noteIRQMaskTransitions; `flag' is the I flag the instruction leaves.
NoteIRQMask(flag) ==
  /\ prevI' = maskI /\ maskI' = flag
  /\ irqDelay' = IF maskI /\ ~flag /\ irqDelay < 1 THEN 1 ELSE irqDelay
  /\ irqLatency' = IF ~maskI /\ flag /\ irqLatency < 1 THEN 1 ELSE irqLatency

\* cpu.Step adds n cycles that the others have not run yet.
Execute(n, flag) ==
  /\ NoteIRQMask(flag)
  /\ behind' = [apu |-> behind.apu + n, ppu |-> behind.ppu + n]
  /\ since' = IF nmiPending THEN since + 1 ELSE since
  /\ UNCHANGED <<nmiPending, nmiDelay, stall, fetches, dot, odd, control, owed, entered>>

\* CLI, SEI, PLP, RTI, BRK, and everything that leaves the I flag alone.
ExecutePlain(n) ==
  /\ Go("execute", "whole")
  /\ \E flag \in BOOLEAN : Execute(n, flag)
  /\ UNCHANGED <<line, store, held>>

\* A read or a store that acknowledges the sources of the line.
ExecuteAcknowledge(n) ==
  /\ Go("execute", "whole")
  /\ line' = FALSE /\ held' = FALSE
  /\ Execute(n, maskI)
  /\ UNCHANGED store

\* A store to a PPU register is deferred.
ExecuteStore(n, value) ==
  /\ Go("execute", "early")
  /\ store' = value
  /\ Execute(n, maskI)
  /\ UNCHANGED <<line, held>>

\* An unsupported opcode pauses the console: nothing was charged, nothing is
\* advanced.  Unpaused, it goes on with the next instruction.
ExecuteFails ==
  /\ Go("execute", "boundary")
  /\ since' = IF nmiPending THEN since + 1 ELSE since
  /\ held' = FALSE
  /\ UNCHANGED <<cpuVars, busVars, behind, owed, entered>>

-----------------------------------------------------------------------------
(* advanceInstructionEffects.                                              *)

AdvanceEarly ==
  /\ Go("early", "earlyIRQ")
  /\ Advance(behind.ppu - 1)
  /\ UNCHANGED <<maskI, prevI, irqDelay, irqLatency, store, control, held, entered>>

WritePPU ==
  /\ Go("writes", "late")
  /\ control' = store
  /\ store' = NoStore
  /\ UNCHANGED <<cpuVars, stall, fetches, dot, odd, historyVars>>

AdvanceLate ==
  /\ Go("late", "finalIRQ")
  /\ Advance(1)
  /\ UNCHANGED <<maskI, prevI, irqDelay, irqLatency, store, control, held, entered>>

AdvanceWhole ==
  /\ Go("whole", "finalIRQ")
  /\ Advance(behind.ppu)
  /\ UNCHANGED <<maskI, prevI, irqDelay, irqLatency, store, control, held, entered>>

\* One turn of applyAPUDrivenStall: the CPU waits, the others run.
Stall ==
  /\ Go("stall", "finalIRQ") /\ stall > 0
  /\ Run(stall)
  \* consumeCPUStallCycles; fetches during the stall ask for the next turn
  /\ \E k \in 0 .. MaxFetches - fetches :
       fetches' = fetches + k /\ stall' = k * StallCycles
  /\ UNCHANGED <<maskI, prevI, irqDelay, irqLatency, store, control, behind, held, entered>>

NoStall ==
  /\ Go("stall", "finish") /\ stall = 0
  /\ UNCHANGED <<cpuVars, busVars, historyVars>>

\* serviceQueuedIRQIfReady, CPU.IRQ and CPU.IRQForced
After == IF at = "earlyIRQ" THEN "writes" ELSE "stall"

IRQReady == line /\ irqDelay = 0 /\ (irqLatency > 0 \/ ~maskI)

EnterIRQ ==
  /\ at \in {"earlyIRQ", "finalIRQ"} /\ at' = After
  /\ IRQReady
  /\ maskI' = TRUE
  /\ AdvanceEntry
  /\ entered' = TRUE
  /\ UNCHANGED <<prevI, nmiPending, nmiDelay, irqDelay, irqLatency, store, control, held>>

NoIRQ ==
  /\ at \in {"earlyIRQ", "finalIRQ"} /\ at' = After
  /\ ~IRQReady
  /\ UNCHANGED <<cpuVars, busVars, historyVars>>

\* finishInstructionBoundary
Finish ==
  /\ Go("finish", "boundary")
  /\ irqDelay' = IF irqDelay > 0 THEN irqDelay - 1 ELSE irqDelay
  /\ irqLatency' = IF irqLatency > 0 THEN irqLatency - 1 ELSE irqLatency
  /\ fetches' = 0
  /\ held' = FALSE /\ entered' = FALSE
  /\ UNCHANGED <<maskI, prevI, nmiPending, nmiDelay, line, store, stall, dot, odd,
                 control, behind, owed, since>>

-----------------------------------------------------------------------------
(* Calls that get the mutex between two instructions.                      *)

\* resetLocked; a mapper keeps its interrupt line up.
Reset ==
  /\ at = "boundary"
  /\ maskI' = TRUE
  /\ nmiPending' = FALSE /\ nmiDelay' = 0 /\ irqDelay' = 0 /\ irqLatency' = 0
  /\ line' \in {line, FALSE}
  /\ stall' = 0 /\ fetches' = 0 /\ dot' = 0 /\ odd' = FALSE /\ control' = Off
  /\ owed' = FALSE /\ since' = 0
  /\ UNCHANGED <<at, prevI, store, behind, held, entered>>

\* Poke writes through the bus at once, Peek of $4015 acknowledges.
Poke ==
  /\ at = "boundary"
  /\ control' \in Control
  /\ line' \in {line, FALSE}
  /\ UNCHANGED <<at, maskI, prevI, nmiPending, nmiDelay, irqDelay, irqLatency, store,
                 stall, fetches, dot, odd, historyVars>>

Instruction ==
  \/ NoNMI \/ DelayNMI \/ EnterNMI
  \/ \E n \in InstructionCycles : ExecutePlain(n)
  \/ \E n \in StoreCycles : ExecuteAcknowledge(n)
  \/ \E n \in StoreCycles, value \in Control : ExecuteStore(n, value)
  \/ ExecuteFails
  \/ AdvanceEarly \/ WritePPU \/ AdvanceLate \/ AdvanceWhole
  \/ EnterIRQ \/ NoIRQ \/ Stall \/ NoStall \/ Finish

Next == Instruction \/ Reset \/ Poke

Spec == Init /\ [][Next]_vars

-----------------------------------------------------------------------------
(* Properties.                                                             *)

\* Type invariant.
TypeOK ==
  /\ at \in Phases
  /\ maskI \in BOOLEAN /\ prevI \in BOOLEAN
  /\ nmiPending \in BOOLEAN /\ nmiDelay \in {0, 1}
  /\ irqDelay \in {0, 1} /\ irqLatency \in {0, 1} /\ line \in BOOLEAN
  /\ store \in Control \union {NoStore}
  /\ fetches \in 0 .. MaxFetches /\ stall \in 0 .. StallCycles * MaxFetches
  /\ dot \in 0 .. FrameDots - 1 /\ odd \in BOOLEAN /\ control \in Control
  /\ behind \in [apu : Int, ppu : Int]
  /\ owed \in BOOLEAN /\ since \in {0, 1} /\ held \in BOOLEAN /\ entered \in BOOLEAN

\* CPU, PPU and APU run in lockstep: at a boundary nobody owes a cycle whatever
\* entries, stalls and splits there were (console.go:360-417, 487-504), and a
\* deferred PPU write lands with exactly one cycle to go.
Lockstep ==
  /\ at \in {"boundary", "finish", "stall"} => behind = InStep
  /\ at = "writes" => behind = [apu |-> 1, ppu |-> 1]

\* No NMI without its vblank: what is queued was raised by a vblank that began
\* with NMI enabled and for which none was entered yet.
NMIOnlyForVBlank == nmiPending => owed

\* An NMI is entered after exactly one more instruction
\* (doc/development-schedule.md:77).
NMILatency == [][EnterNMI => since = 1]_vars

\* NMIs come from a vblank alone and one instruction after it (console.go:437-454).
NMIFaithful == []NMIOnlyForVBlank /\ NMILatency

\* An IRQ is entered only if the instruction began with interrupts enabled: the
\* instruction after CLI still runs, that of SEI does not protect itself
\* (doc/progress-2026-03-31-irq-sampling.md).
IRQOnlyWhenOpen == entered => ~prevI

\* An IRQ is not missed: if interrupts were enabled when the instruction began and
\* the line was up all the time, it was entered before the next.
IRQNotMissed == at = "finish" /\ held /\ ~prevI => entered

\* The gate that the instruction found at its start decides, both ways
\* (console.go:456-476).
IRQFaithful == IRQOnlyWhenOpen /\ IRQNotMissed

\* Every vblank that begins with NMI enabled is queued
\* (doc/progress-2026-03-07-compat-step2.md:8).
VBlankQueuesNMI == owed => nmiPending
=============================================================================
