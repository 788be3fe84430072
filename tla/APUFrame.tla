------------------------------ MODULE APUFrame ------------------------------
(***************************************************************************)
(* The frame sequencer of the APU (internal/nes/apu.go): it clocks the     *)
(* envelopes and the linear counter by the quarter frame, the length       *)
(* counters and the sweeps by the half frame, and raises the frame         *)
(* interrupt at the end of its four-step sequence.  A write to $4017       *)
(* inhibits the interrupt at once and changes the sequence two or three    *)
(* cycles later.  The units it clocks are in APUChannel.                   *)
(***************************************************************************)
EXTENDS Integers

CONSTANTS
  Step,        \* <<3729, 7457, 11186, 14915>>: cycles of the steps of the short sequence
  LongEnd,     \* 18641: cycle of the last step of the long one
  WriteDelay,  \* 2
  MaxAge       \* bound: cycles a sequence is followed

ASSUME FrameAssumption ==
  /\ Step \in [1 .. 4 -> Nat]
  /\ 0 < Step[1] /\ Step[1] < Step[2] /\ Step[2] < Step[3] /\ Step[3] < Step[4]
  /\ LongEnd \in Nat /\ Step[3] < LongEnd
  /\ WriteDelay \in Nat /\ WriteDelay % 2 = 0 /\ WriteDelay > 0
  /\ MaxAge \in Nat

VARIABLES
  frameCounterCycle,
  frameCounter5Step,
  frameIRQ,
  frameIRQInhibit,
  frameCounterWriteDelay,
  frameCounterWriteValue,  \* whether the write that waits asks for the long sequence
  cpuCycleParity,
  age,                     \* history: cycles since the sequence was started
  quarters,                \* history: quarter frames clocked since
  halves,                  \* history: half frames clocked since
  unacknowledged           \* history: cycles of this sequence since the interrupt was acknowledged
                           \* or inhibited, more than its age if it has not been

pending == <<frameCounterWriteDelay, frameCounterWriteValue>>
history == <<age, quarters, halves, unacknowledged>>
sequencerVars == <<frameCounterCycle, frameCounter5Step, frameIRQ, frameIRQInhibit, pending,
          cpuCycleParity, history>>

SequencerInit ==
  /\ frameCounterCycle = 0 /\ frameCounter5Step = FALSE
  /\ frameIRQ = FALSE /\ frameIRQInhibit = FALSE
  /\ frameCounterWriteDelay = 0 /\ frameCounterWriteValue = FALSE
  /\ cpuCycleParity = FALSE
  /\ age = 0 /\ quarters = 0 /\ halves = 0 /\ unacknowledged = 0

-----------------------------------------------------------------------------
\* Mutant: the effect comes after the same delay on every cycle.
DelayOfWriteFixed == WriteDelay

DelayOfWrite == IF cpuCycleParity THEN WriteDelay + 1 ELSE WriteDelay

\* $4017; the interrupt is inhibited at once, and one that is pending forgotten.
WriteFrameCounter(long, inhibit) ==
  /\ frameIRQ' = (frameIRQ /\ ~inhibit)
  /\ frameIRQInhibit' = inhibit
  /\ frameCounterWriteValue' = long
  /\ frameCounterWriteDelay' = DelayOfWrite
  /\ unacknowledged' = IF inhibit THEN 0 ELSE unacknowledged
  /\ UNCHANGED <<frameCounterCycle, frameCounter5Step, cpuCycleParity, age, quarters, halves>>

\* Reading $4015, and writing it, acknowledges the frame interrupt.
Acknowledge ==
  /\ frameIRQ' = FALSE /\ unacknowledged' = 0
  /\ UNCHANGED <<frameCounterCycle, frameCounter5Step, frameIRQInhibit, pending,
                 cpuCycleParity, age, quarters, halves>>

\* clockFrameCounter: what the sequence does on its cycle c.
End == IF frameCounter5Step THEN LongEnd ELSE Step[4]
QuarterAt(c) == c \in {Step[1], Step[2], Step[3], End}
HalfAt(c) == c \in {Step[2], End}

\* stepCycle: the sequence takes its step, then a write whose delay is over starts
\* the sequence anew, the long one with a clock of all units.
SequencerCycle ==
  LET c == frameCounterCycle + 1
      restarts == frameCounterWriteDelay = 1
      clocks(b) == IF b THEN 1 ELSE 0
  IN /\ age < MaxAge
     /\ frameIRQ' = (frameIRQ \/ (~frameCounter5Step /\ c = End /\ ~frameIRQInhibit))
     /\ frameCounterWriteDelay' =
          IF frameCounterWriteDelay > 0 THEN frameCounterWriteDelay - 1 ELSE 0
     /\ frameCounter5Step' = IF restarts THEN frameCounterWriteValue ELSE frameCounter5Step
     /\ frameCounterCycle' = IF restarts \/ c >= End THEN 0 ELSE c
     /\ cpuCycleParity' = ~cpuCycleParity
     /\ age' = IF restarts THEN 0 ELSE age + 1
     /\ quarters' = IF restarts THEN clocks(frameCounterWriteValue)
                                ELSE quarters + clocks(QuarterAt(c))
     /\ halves' = IF restarts THEN clocks(frameCounterWriteValue)
                              ELSE halves + clocks(HalfAt(c))
     /\ unacknowledged' = IF frameIRQInhibit THEN 0 ELSE IF restarts THEN 1 ELSE unacknowledged + 1
     /\ UNCHANGED <<frameIRQInhibit, frameCounterWriteValue>>

SequencerNext ==
  \/ \E long, inhibit \in BOOLEAN : WriteFrameCounter(long, inhibit)
  \/ Acknowledge
  \/ SequencerCycle

SequencerSpec == SequencerInit /\ [][SequencerNext]_sequencerVars

-----------------------------------------------------------------------------
(* Properties.                                                             *)

\* Type invariant.
SequencerTypeOK ==
  /\ frameCounterCycle \in 0 .. End - 1 /\ frameCounter5Step \in BOOLEAN
  /\ frameIRQ \in BOOLEAN /\ frameIRQInhibit \in BOOLEAN
  /\ frameCounterWriteDelay \in 0 .. WriteDelay + 1 /\ frameCounterWriteValue \in BOOLEAN
  /\ cpuCycleParity \in BOOLEAN
  /\ age \in 0 .. MaxAge /\ quarters \in Nat /\ halves \in Nat
  /\ unacknowledged \in 0 .. age + 1

Odd(n) == n % 2 = 1

\* A sequence is always started on the same phase of the pulse channels' clock: a
\* write waits two or three cycles for it, a second write in the meantime too, and
\* no cycle of the sequence ever leaves the phase.
InPhase ==
  /\ cpuCycleParity <=> Odd(age)
  /\ frameCounterWriteDelay > 0 => (cpuCycleParity <=> Odd(frameCounterWriteDelay))

\* Steps of the running sequence by its cycle c.
StepCount(c) == IF c >= End THEN 4 ELSE IF c >= Step[3] THEN 3 ELSE IF c >= Step[2] THEN 2
                ELSE IF c >= Step[1] THEN 1 ELSE 0

\* What the units have been clocked with since the sequence started depends on its
\* age alone: four quarters and two halves in each round, and one of both at the
\* start of the long one, however often $4017 is written while it runs.
ClocksByAge ==
  LET start == IF frameCounter5Step THEN 1 ELSE 0
      rounds == age \div End
  IN /\ frameCounterCycle = age % End
     /\ quarters = start + 4 * rounds + StepCount(age % End)
     /\ halves = start + 2 * rounds + StepCount(age % End) \div 2

\* An inhibited interrupt stays away until a write allows it again.
InhibitHolds == frameIRQ => ~frameIRQInhibit

\* The interrupt is there if and only if a short sequence has come to its end since it was
\* last acknowledged or inhibited: the one that runs, unless nothing of the kind has
\* happened since it started; then one from before may still be waiting as well.
IRQFollowsEnd ==
  /\ unacknowledged <= age =>
       (frameIRQ <=> /\ ~frameCounter5Step
                     /\ (age - unacknowledged) \div End < age \div End)
  /\ unacknowledged > age => (~frameCounter5Step /\ age >= End => frameIRQ)

\* The sequencer keeps its rhythm from the write that last started it, whatever parity that
\* write met: every tick and interrupt falls where the age of the write puts it.
SequencerInStep ==
  SequencerTypeOK /\ InPhase /\ ClocksByAge /\ InhibitHolds /\ IRQFollowsEnd
=============================================================================
