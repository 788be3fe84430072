------------------------------- MODULE APUDMC -------------------------------
(***************************************************************************)
(* The sample channel of the APU (internal/nes/apu.go): its registers, the *)
(* output unit that shifts a byte out bit by bit, and the reader that      *)
(* fetches the next byte from the cartridge and charges the CPU four       *)
(* cycles for it.  One step of stepCycle is one action; the console takes  *)
(* the charged cycles away at the end of each instruction.                 *)
(*                                                                         *)
(* What the bytes are, and the level they move, is left out.               *)
(***************************************************************************)
EXTENDS Integers

CONSTANTS
  Rates,          \* dmcRateTable: 54 .. 428
  BitsPerByte,    \* 8
  SampleAddrs,    \* bound: the addresses $4012 stands for: $C000 + 64 * value
  AddrTop,        \* $FFFF
  AddrWrap,       \* $8000
  SampleLengths,  \* bound: the lengths $4013 stands for: 16 * value + 1
  FetchStall,     \* cycles the CPU is held up by a fetch: 4
  Instruction     \* bound: cycles between two looks of the console at the charge

ASSUME DMCAssumption ==
  /\ Rates \subseteq Nat
  /\ BitsPerByte \in Nat \ {0}
  /\ AddrTop \in Nat /\ AddrWrap \in 0 .. AddrTop /\ SampleAddrs \subseteq AddrWrap .. AddrTop
  /\ SampleLengths \subseteq 1 .. AddrTop - AddrWrap + 1
  /\ FetchStall \in Nat
  /\ Instruction \in Nat
  /\ \A r \in Rates : Instruction <= BitsPerByte * (r + 1)

VARIABLES
  irqEnable, irqPending, loop, rateIdx,
  sampleAddrReg, sampleLenReg,
  currentAddr, bytesRemain,
  bufferEmpty, silence, bitsRemain, timerValue,
  stall,   \* pendingCPUStallCycles
  sample,  \* history: [at, length], what restartDMC read from the registers
  taken,   \* history: bytes of it fetched since
  waited   \* history: cycles since the console last took the charge

dmcRegisters == <<irqEnable, loop, rateIdx, sampleAddrReg, sampleLenReg>>
readerVars == <<currentAddr, bytesRemain, sample, taken>>
outputVars == <<bufferEmpty, silence, bitsRemain, timerValue>>
dmcVars == <<dmcRegisters, irqPending, readerVars, outputVars, stall, waited>>

\* rateIdx stands for the entry of dmcRateTable it selects; zero registers stand for
\* the slowest rate, the lowest address and the shortest sample.
DMCInit ==
  /\ irqEnable = FALSE /\ irqPending = FALSE /\ loop = FALSE
  /\ rateIdx \in Rates /\ \A r \in Rates : r <= rateIdx
  /\ sampleAddrReg \in SampleAddrs /\ \A a \in SampleAddrs : sampleAddrReg <= a
  /\ sampleLenReg \in SampleLengths /\ \A n \in SampleLengths : sampleLenReg <= n
  /\ currentAddr = 0 /\ bytesRemain = 0
  /\ bufferEmpty = TRUE /\ silence = TRUE /\ bitsRemain = BitsPerByte /\ timerValue = 0
  /\ stall = 0
  /\ sample = [at |-> 0, length |-> 0] /\ taken = 0 /\ waited = 0

-----------------------------------------------------------------------------
(* Registers.                                                              *)

\* $4010: a program that gives up the interrupt acknowledges it; the timer starts over.
WriteRate(enable, again, rate) ==
  /\ irqEnable' = enable /\ irqPending' = (irqPending /\ enable)
  /\ loop' = again /\ rateIdx' = rate /\ timerValue' = rate
  /\ UNCHANGED <<sampleAddrReg, sampleLenReg, readerVars, bufferEmpty, silence, bitsRemain,
                 stall, waited>>

\* $4012 and $4013 are read when a sample starts.
WriteSample(at, length) ==
  /\ sampleAddrReg' = at /\ sampleLenReg' = length
  /\ UNCHANGED <<irqEnable, loop, rateIdx, irqPending, readerVars, outputVars, stall, waited>>

\* A sample starts: what the reader holds then.
RestartDMC ==
  /\ currentAddr' = sampleAddrReg
  /\ bytesRemain' = sampleLenReg
  /\ sample' = [at |-> sampleAddrReg, length |-> sampleLenReg]
  /\ taken' = 0

\* $4015: a channel that plays goes on; one that is switched off forgets its bytes.
WriteDMCControl(on) ==
  /\ irqPending' = FALSE
  /\ \/ ~on /\ bytesRemain' = 0 /\ UNCHANGED <<currentAddr, sample, taken>>
     \/ on /\ bytesRemain = 0 /\ RestartDMC
     \/ on /\ bytesRemain > 0 /\ UNCHANGED readerVars
  /\ UNCHANGED <<dmcRegisters, outputVars, stall, waited>>

-----------------------------------------------------------------------------
(* A CPU cycle.  The reader runs before the timer and once more after a    *)
(* tick, so it is written as a function of the channel: what it holds      *)
(* after the reader has run is Served(ch).                                 *)

Channel == [currentAddr |-> currentAddr, bytesRemain |-> bytesRemain, sample |-> sample,
            taken |-> taken, bufferEmpty |-> bufferEmpty, silence |-> silence,
            bitsRemain |-> bitsRemain, irqPending |-> irqPending, stall |-> stall]

NextAddr(a) == IF a = AddrTop THEN AddrWrap ELSE a + 1

\* serviceDMCReader: the last byte starts the sample over or raises the interrupt.
Fetched(ch) ==
  LET last == ch.bytesRemain = 1
      read == [ch EXCEPT !.bufferEmpty = FALSE, !.stall = @ + FetchStall]
  IN IF last /\ loop
     THEN [read EXCEPT !.currentAddr = sampleAddrReg, !.bytesRemain = sampleLenReg,
                       !.sample = [at |-> sampleAddrReg, length |-> sampleLenReg], !.taken = 0]
     ELSE [read EXCEPT !.currentAddr = NextAddr(@), !.bytesRemain = @ - 1, !.taken = @ + 1,
                       !.irqPending = @ \/ (last /\ irqEnable)]

\* Mutant: the reader does not look whether the buffer is full.
ServedAlways(ch) == IF ch.bytesRemain > 0 THEN Fetched(ch) ELSE ch

Served(ch) == IF ch.bytesRemain > 0 /\ ch.bufferEmpty THEN Fetched(ch) ELSE ch

\* tickDMC without its call of the reader: the last bit of a byte asks for the next.
ShiftedOut(ch) ==
  IF ch.bitsRemain > 1 THEN [ch EXCEPT !.bitsRemain = @ - 1]
  ELSE [ch EXCEPT !.bitsRemain = BitsPerByte, !.silence = ch.bufferEmpty, !.bufferEmpty = TRUE]

\* Mutant: the reader runs only after a tick.
AfterCycleLateReader == IF timerValue = 0 THEN Served(ShiftedOut(Channel)) ELSE Channel

AfterCycle == IF timerValue = 0 THEN Served(ShiftedOut(Served(Channel))) ELSE Served(Channel)

DMCCycle ==
  /\ waited < Instruction /\ waited' = waited + 1
  /\ timerValue' = IF timerValue = 0 THEN rateIdx ELSE timerValue - 1
  /\ currentAddr' = AfterCycle.currentAddr /\ bytesRemain' = AfterCycle.bytesRemain
  /\ sample' = AfterCycle.sample /\ taken' = AfterCycle.taken
  /\ bufferEmpty' = AfterCycle.bufferEmpty /\ silence' = AfterCycle.silence
  /\ bitsRemain' = AfterCycle.bitsRemain
  /\ irqPending' = AfterCycle.irqPending
  /\ stall' = AfterCycle.stall
  /\ UNCHANGED dmcRegisters

\* The console takes the charge (applyAPUDrivenStallLocked).
ConsumeCPUStallCycles ==
  /\ stall' = 0 /\ waited' = 0
  /\ UNCHANGED <<dmcRegisters, irqPending, readerVars, outputVars>>

DMCNext ==
  \/ \E enable, again \in BOOLEAN, rate \in Rates : WriteRate(enable, again, rate)
  \/ \E at \in SampleAddrs, length \in SampleLengths : WriteSample(at, length)
  \/ \E on \in BOOLEAN : WriteDMCControl(on)
  \/ DMCCycle
  \/ ConsumeCPUStallCycles

DMCSpec == DMCInit /\ [][DMCNext]_dmcVars

-----------------------------------------------------------------------------
(* Properties.                                                             *)

\* Type invariant.
DMCTypeOK ==
  /\ irqEnable \in BOOLEAN /\ irqPending \in BOOLEAN /\ loop \in BOOLEAN /\ rateIdx \in Rates
  /\ sampleAddrReg \in SampleAddrs /\ sampleLenReg \in SampleLengths
  /\ currentAddr \in 0 .. AddrTop /\ bytesRemain \in Nat
  /\ bufferEmpty \in BOOLEAN /\ silence \in BOOLEAN
  /\ bitsRemain \in 1 .. BitsPerByte /\ timerValue \in Nat
  /\ stall \in Nat /\ waited \in 0 .. Instruction
  /\ sample.at \in 0 .. AddrTop /\ sample.length \in Nat /\ taken \in Nat

\* The address of a sample's byte, counted from 0: behind the last address of the
\* cartridge comes its first.
ByteAt(k) ==
  LET room == AddrTop - sample.at
  IN IF k <= room THEN sample.at + k ELSE AddrWrap + (k - room - 1)

\* However the registers are rewritten while a sample plays, and across the end of
\* the address space: the bytes fetched are the ones the registers named when it
\* started, in order, none skipped, and the interrupt tells of a sample that was
\* fetched whole and that the program still wants to hear of.
SampleWhole ==
  /\ bytesRemain > 0 => taken + bytesRemain = sample.length /\ currentAddr = ByteAt(taken)
  /\ irqPending => irqEnable /\ bytesRemain = 0 /\ taken = sample.length

\* The output unit never falls silent inside a sample: whenever a byte is shifted out
\* and there is another, the reader has put it into the buffer in time, also when the
\* program restarts the channel on the last bit of the sample before.
NoGapInSample == [][silence' /\ ~silence => bytesRemain = 0]_dmcVars

\* Between two looks of the console at the charge there are never more than two
\* fetches, one that finds the buffer empty and one behind a tick: what the console's
\* step assumes of it (ConsoleStep, MaxFetches).
StallBounded == stall <= 2 * FetchStall

\* The sample player: it plays the whole sample, stalls the CPU within the console's
\* assumption, and its registers stay in their widths.
SampleSound == DMCTypeOK /\ SampleWhole /\ StallBounded
=============================================================================
