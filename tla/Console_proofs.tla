--------------------------- MODULE Console_proofs ---------------------------
(***************************************************************************)
(* Proofs about the console: its step, its operations, the controller port *)
(* and the clock of the frame loop, for every length of a frame, of        *)
(* instructions, of entries and of stalls, every ROM, replay, request,     *)
(* width of a controller, frame rate and number of callers.                *)
(***************************************************************************)
EXTENDS ConsoleStep, Console, Controllers, FrameClock, Induction_proofs, SequenceTheorems, TLAPS

-----------------------------------------------------------------------------
(* The step: clocks in lockstep, NMI and IRQ latency.                      *)
(*                                                                         *)
(* The inductive invariant is Inv.  Clocks says what `behind' is in every  *)
(* phase, Queued ties the NMI latency to the instructions begun, Mask ties *)
(* the two IRQ latencies to the I flag before and after the instruction,   *)
(* Taken says from which phase on a held line must have been served.       *)

Same(n) == [apu |-> n, ppu |-> n]

\* What the subsystems lag behind the CPU in each phase.
Clocks ==
  /\ at = "early" => \E n \in StoreCycles : behind = Same(n)
  /\ at = "whole" => \E n \in InstructionCycles : behind = Same(n)
  /\ at \in {"earlyIRQ", "writes", "late"} => behind = Same(1)
  /\ at \in {"boundary", "execute", "finalIRQ", "stall", "finish"} => behind = Same(0)

\* A store waits until it is made.
Stores == at \in {"early", "earlyIRQ", "writes"} => store \in Control

\* Stolen cycles come from the fetches since the last completed instruction.
StolenCycles ==
  stall \in Nat /\ fetches \in 0 .. MaxFetches /\ stall <= StallCycles * fetches

Stolen ==
  /\ StolenCycles
  /\ at = "finish" => stall = 0

\* The latency of a queued NMI and the instructions begun since.
Queued ==
  /\ nmiPending => owed
  /\ nmiPending /\ at # "execute" => since + nmiDelay = 1
  /\ nmiPending /\ at = "execute" => since = 0 /\ nmiDelay = 0

\* Delay and latency say how the instruction changed the I flag; an entry hides it.
Mask ==
  /\ at \in {"boundary", "execute"} =>
       irqDelay = 0 /\ irqLatency = 0 /\ ~entered
  /\ at \notin {"boundary", "execute"} =>
       /\ irqLatency > 0 => ~prevI
       /\ prevI /\ ~maskI => irqDelay > 0
       /\ irqDelay > 0 => prevI
       /\ ~prevI /\ maskI => irqLatency > 0 \/ entered
       /\ entered => ~prevI

\* A line that was up at the boundary and stayed so is served by the last look.
Taken ==
  /\ held => line
  /\ at = "boundary" => ~held
  /\ at \in {"stall", "finish"} /\ held /\ ~prevI => entered

Inv == TypeOK /\ Clocks /\ Stores /\ Stolen /\ Queued /\ Mask /\ Taken

\* What PPU and lines do in an advance: they raise the line or leave it, and
\* queue an NMI only for a vblank that counts.
LEMMA RunEffects ==
  ASSUME NEW n, Run(n), line \in BOOLEAN, owed \in BOOLEAN
  PROVE  /\ line' \in BOOLEAN /\ (line => line')
         /\ owed' \in BOOLEAN /\ (owed => owed')
         /\ \/ /\ nmiPending' /\ owed' /\ since' = 0
               /\ nmiDelay' = IF nmiDelay < 1 THEN 1 ELSE nmiDelay
            \/ UNCHANGED <<nmiPending, nmiDelay, since>>
PROOF
  <1>1. line' \in BOOLEAN /\ (line => line')
    <2>1. line' = line \/ line' = TRUE
      BY DEF Run, RaiseLine
    <2>2. QED BY <2>1, Zenon
  <1>2. owed' = (owed \/ (control.nmi /\ VBlankBegins(n)))
    BY DEF Run, NoteVBlank
  <1>3. owed' \in BOOLEAN /\ (owed => owed')
    BY <1>2, Zenon
  <1>4. CASE RaisesNMI(n) /\ QueueNMI
    <2>1. owed'
      BY <1>2, <1>4, Zenon DEF RaisesNMI
    <2>2. QED BY <1>1, <1>3, <1>4, <2>1 DEF QueueNMI
  <1>5. CASE ~RaisesNMI(n) /\ UNCHANGED <<nmiPending, nmiDelay, since>>
    BY <1>1, <1>3, <1>5, Zenon
  <1>6. QED BY <1>4, <1>5, Zenon DEF Run

\* Stolen cycles stay within those of the fetches.
LEMMA Fetches ==
  ASSUME StolenCycles, NEW k \in 0 .. MaxFetches - fetches,
         fetches' = fetches + k, stall' \in {stall + k * StallCycles, k * StallCycles}
  PROVE  StolenCycles'
PROOF
  <1> USE StepAssumption DEF StolenCycles
  <1>1. k \in Nat /\ fetches \in Nat /\ StallCycles \in Nat /\ MaxFetches \in Nat
    OBVIOUS
  <1>2. k * StallCycles \in Nat
    BY <1>1
  <1>3. StallCycles * (fetches + k) = StallCycles * fetches + k * StallCycles
    BY <1>1
  <1>4. StallCycles * fetches \in Nat
    BY <1>1
  <1>5. QED BY <1>1, <1>2, <1>3, <1>4

\* Nothing is stolen when nothing was fetched.
LEMMA NoneStolen == stall' = 0 /\ fetches' = 0 => StolenCycles'
  BY StepAssumption DEF StolenCycles

\* The APU's fetches of one advance.
LEMMA APUFetches ==
  ASSUME StolenCycles, StepAPU
  PROVE  StolenCycles'
PROOF
  <1>1. PICK k \in 0 .. MaxFetches - fetches :
          fetches' = fetches + k /\ stall' = stall + k * StallCycles
    BY DEF StepAPU
  <1>2. QED BY <1>1, Fetches

\* Every phase leaves the lag the next one expects.
LEMMA ClocksStep ==
  ASSUME Inv, [Next]_vars
  PROVE  Clocks'
PROOF
  <1> USE DEF cpuVars, busVars, historyVars, Inv, Clocks, Same, StoreCycles, Go, InStep, TypeOK
  <1>1. CASE NoNMI
      BY <1>1 DEF NoNMI
  <1>2. CASE DelayNMI
      BY <1>2 DEF DelayNMI
  <1>3. CASE EnterNMI
      BY <1>3 DEF EnterNMI
  <1>4. ASSUME NEW n \in InstructionCycles, ExecutePlain(n) PROVE Clocks'
      BY <1>4, StepAssumption DEF ExecutePlain, Execute, NoteIRQMask
  <1>5. ASSUME NEW n \in StoreCycles, ExecuteAcknowledge(n) PROVE Clocks'
      BY <1>5, StepAssumption DEF ExecuteAcknowledge, Execute, NoteIRQMask
  <1>6. ASSUME NEW n \in StoreCycles, NEW value \in Control, ExecuteStore(n, value) PROVE Clocks'
      BY <1>6, StepAssumption DEF ExecuteStore, Execute, NoteIRQMask
  <1>7. CASE ExecuteFails
      BY <1>7 DEF ExecuteFails
  <1>8. CASE AdvanceEarly
      BY <1>8 DEF AdvanceEarly, Advance, Run, QueueNMI
  <1>9. CASE WritePPU
      BY <1>9 DEF WritePPU
  <1>10. CASE AdvanceLate
      BY <1>10 DEF AdvanceLate, Advance, Run, QueueNMI
  <1>11. CASE AdvanceWhole
      BY <1>11 DEF AdvanceWhole, Advance, Run, QueueNMI
  <1>12. CASE EnterIRQ
      BY <1>12 DEF EnterIRQ, AdvanceEntry, IRQReady, After
  <1>13. CASE NoIRQ
      BY <1>13 DEF NoIRQ, IRQReady, After
  <1>14. CASE Stall
      BY <1>14 DEF Stall, Run, QueueNMI
  <1>15. CASE NoStall
      BY <1>15 DEF NoStall
  <1>16. CASE Finish
      BY <1>16 DEF Finish
  <1>17. CASE Reset
      BY <1>17 DEF Reset
  <1>18. CASE Poke
      BY <1>18 DEF Poke
  <1>19. CASE UNCHANGED vars
      BY <1>19 DEF vars
  <1>20. QED
    BY <1>1, <1>2, <1>3, <1>4, <1>5, <1>6, <1>7, <1>8, <1>9, <1>10, <1>11, <1>12, <1>13,
       <1>14, <1>15, <1>16, <1>17, <1>18, <1>19
    DEF Next, Instruction

\* The store to make is there until it is made.
LEMMA StoresStep ==
  ASSUME Inv, [Next]_vars
  PROVE  Stores'
PROOF
  <1> USE DEF cpuVars, busVars, historyVars, Inv, Stores, Go, TypeOK, StoreCycles
  <1>1. CASE NoNMI
      BY <1>1 DEF NoNMI
  <1>2. CASE DelayNMI
      BY <1>2 DEF DelayNMI
  <1>3. CASE EnterNMI
      BY <1>3 DEF EnterNMI
  <1>4. ASSUME NEW n \in InstructionCycles, ExecutePlain(n) PROVE Stores'
      BY <1>4 DEF ExecutePlain, Execute, NoteIRQMask
  <1>5. ASSUME NEW n \in StoreCycles, ExecuteAcknowledge(n) PROVE Stores'
      BY <1>5 DEF ExecuteAcknowledge, Execute, NoteIRQMask
  <1>6. ASSUME NEW n \in StoreCycles, NEW value \in Control, ExecuteStore(n, value) PROVE Stores'
      BY <1>6 DEF ExecuteStore, Execute, NoteIRQMask
  <1>7. CASE ExecuteFails
      BY <1>7 DEF ExecuteFails
  <1>8. CASE AdvanceEarly
      BY <1>8 DEF AdvanceEarly, Advance, Run, QueueNMI
  <1>9. CASE WritePPU
      BY <1>9 DEF WritePPU
  <1>10. CASE AdvanceLate
      BY <1>10 DEF AdvanceLate, Advance, Run, QueueNMI
  <1>11. CASE AdvanceWhole
      BY <1>11 DEF AdvanceWhole, Advance, Run, QueueNMI
  <1>12. CASE EnterIRQ
      BY <1>12 DEF EnterIRQ, AdvanceEntry, IRQReady, After
  <1>13. CASE NoIRQ
      BY <1>13 DEF NoIRQ, IRQReady, After
  <1>14. CASE Stall
      BY <1>14 DEF Stall, Run, QueueNMI
  <1>15. CASE NoStall
      BY <1>15 DEF NoStall
  <1>16. CASE Finish
      BY <1>16 DEF Finish
  <1>17. CASE Reset
      BY <1>17 DEF Reset
  <1>18. CASE Poke
      BY <1>18 DEF Poke
  <1>19. CASE UNCHANGED vars
      BY <1>19 DEF vars
  <1>20. QED
    BY <1>1, <1>2, <1>3, <1>4, <1>5, <1>6, <1>7, <1>8, <1>9, <1>10, <1>11, <1>12, <1>13,
       <1>14, <1>15, <1>16, <1>17, <1>18, <1>19
    DEF Next, Instruction

\* Latency and instructions begun stay in step.
LEMMA QueuedStep ==
  ASSUME Inv, [Next]_vars
  PROVE  Queued'
PROOF
  <1> USE DEF cpuVars, busVars, historyVars, Inv, Queued, Go, TypeOK, NoteVBlank, RaisesNMI
  <1>1. CASE NoNMI
      BY <1>1 DEF NoNMI
  <1>2. CASE DelayNMI
      BY <1>2 DEF DelayNMI
  <1>3. CASE EnterNMI
      BY <1>3 DEF EnterNMI
  <1>4. ASSUME NEW n \in InstructionCycles, ExecutePlain(n) PROVE Queued'
      BY <1>4 DEF ExecutePlain, Execute, NoteIRQMask
  <1>5. ASSUME NEW n \in StoreCycles, ExecuteAcknowledge(n) PROVE Queued'
      BY <1>5 DEF ExecuteAcknowledge, Execute, NoteIRQMask
  <1>6. ASSUME NEW n \in StoreCycles, NEW value \in Control, ExecuteStore(n, value) PROVE Queued'
      BY <1>6 DEF ExecuteStore, Execute, NoteIRQMask
  <1>7. CASE ExecuteFails
      BY <1>7 DEF ExecuteFails
  <1>8. CASE AdvanceEarly
      BY <1>8, RunEffects DEF AdvanceEarly, Advance
  <1>9. CASE WritePPU
      BY <1>9 DEF WritePPU
  <1>10. CASE AdvanceLate
      BY <1>10, RunEffects DEF AdvanceLate, Advance
  <1>11. CASE AdvanceWhole
      BY <1>11, RunEffects DEF AdvanceWhole, Advance
  <1>12. CASE EnterIRQ
      BY <1>12 DEF EnterIRQ, AdvanceEntry, IRQReady, After
  <1>13. CASE NoIRQ
      BY <1>13 DEF NoIRQ, IRQReady, After
  <1>14. CASE Stall
      BY <1>14, RunEffects DEF Stall
  <1>15. CASE NoStall
      BY <1>15 DEF NoStall
  <1>16. CASE Finish
      BY <1>16 DEF Finish
  <1>17. CASE Reset
      BY <1>17 DEF Reset
  <1>18. CASE Poke
      BY <1>18 DEF Poke
  <1>19. CASE UNCHANGED vars
      BY <1>19 DEF vars
  <1>20. QED
    BY <1>1, <1>2, <1>3, <1>4, <1>5, <1>6, <1>7, <1>8, <1>9, <1>10, <1>11, <1>12, <1>13,
       <1>14, <1>15, <1>16, <1>17, <1>18, <1>19
    DEF Next, Instruction

\* The latencies describe the change of the I flag.
LEMMA MaskStep ==
  ASSUME Inv, [Next]_vars
  PROVE  Mask'
PROOF
  <1> USE DEF cpuVars, busVars, historyVars, Inv, Mask, Go, TypeOK
  <1>1. CASE NoNMI
      BY <1>1 DEF NoNMI
  <1>2. CASE DelayNMI
      BY <1>2 DEF DelayNMI
  <1>3. CASE EnterNMI
      BY <1>3 DEF EnterNMI
  <1>4. ASSUME NEW n \in InstructionCycles, ExecutePlain(n) PROVE Mask'
      BY <1>4 DEF ExecutePlain, Execute, NoteIRQMask
  <1>5. ASSUME NEW n \in StoreCycles, ExecuteAcknowledge(n) PROVE Mask'
      BY <1>5 DEF ExecuteAcknowledge, Execute, NoteIRQMask
  <1>6. ASSUME NEW n \in StoreCycles, NEW value \in Control, ExecuteStore(n, value) PROVE Mask'
      BY <1>6 DEF ExecuteStore, Execute, NoteIRQMask
  <1>7. CASE ExecuteFails
      BY <1>7 DEF ExecuteFails
  <1>8. CASE AdvanceEarly
      BY <1>8 DEF AdvanceEarly, Advance, Run, QueueNMI
  <1>9. CASE WritePPU
      BY <1>9 DEF WritePPU
  <1>10. CASE AdvanceLate
      BY <1>10 DEF AdvanceLate, Advance, Run, QueueNMI
  <1>11. CASE AdvanceWhole
      BY <1>11 DEF AdvanceWhole, Advance, Run, QueueNMI
  <1>12. CASE EnterIRQ
      BY <1>12 DEF EnterIRQ, AdvanceEntry, IRQReady, After
  <1>13. CASE NoIRQ
      BY <1>13 DEF NoIRQ, IRQReady, After
  <1>14. CASE Stall
      BY <1>14 DEF Stall, Run, QueueNMI
  <1>15. CASE NoStall
      BY <1>15 DEF NoStall
  <1>16. CASE Finish
      BY <1>16 DEF Finish
  <1>17. CASE Reset
      BY <1>17 DEF Reset
  <1>18. CASE Poke
      BY <1>18 DEF Poke
  <1>19. CASE UNCHANGED vars
      BY <1>19 DEF vars
  <1>20. QED
    BY <1>1, <1>2, <1>3, <1>4, <1>5, <1>6, <1>7, <1>8, <1>9, <1>10, <1>11, <1>12, <1>13,
       <1>14, <1>15, <1>16, <1>17, <1>18, <1>19
    DEF Next, Instruction

\* The last look at the line serves what was held.
LEMMA TakenStep ==
  ASSUME Inv, [Next]_vars
  PROVE  Taken'
PROOF
  <1> USE DEF cpuVars, busVars, historyVars, Inv, Taken, Mask, Go, TypeOK, RaiseLine
  <1>1. CASE NoNMI
      BY <1>1 DEF NoNMI
  <1>2. CASE DelayNMI
      BY <1>2 DEF DelayNMI
  <1>3. CASE EnterNMI
      BY <1>3 DEF EnterNMI
  <1>4. ASSUME NEW n \in InstructionCycles, ExecutePlain(n) PROVE Taken'
      BY <1>4 DEF ExecutePlain, Execute, NoteIRQMask
  <1>5. ASSUME NEW n \in StoreCycles, ExecuteAcknowledge(n) PROVE Taken'
      BY <1>5 DEF ExecuteAcknowledge, Execute, NoteIRQMask
  <1>6. ASSUME NEW n \in StoreCycles, NEW value \in Control, ExecuteStore(n, value) PROVE Taken'
      BY <1>6 DEF ExecuteStore, Execute, NoteIRQMask
  <1>7. CASE ExecuteFails
      BY <1>7 DEF ExecuteFails
  <1>8. CASE AdvanceEarly
      BY <1>8, RunEffects DEF AdvanceEarly, Advance
  <1>9. CASE WritePPU
      BY <1>9 DEF WritePPU
  <1>10. CASE AdvanceLate
      BY <1>10, RunEffects DEF AdvanceLate, Advance
  <1>11. CASE AdvanceWhole
      BY <1>11, RunEffects DEF AdvanceWhole, Advance
  <1>12. CASE EnterIRQ
      BY <1>12 DEF EnterIRQ, AdvanceEntry, IRQReady, After
  <1>13. CASE NoIRQ
      BY <1>13 DEF NoIRQ, IRQReady, After
  <1>14. CASE Stall
      BY <1>14, RunEffects DEF Stall
  <1>15. CASE NoStall
      BY <1>15 DEF NoStall
  <1>16. CASE Finish
      BY <1>16 DEF Finish
  <1>17. CASE Reset
      BY <1>17 DEF Reset
  <1>18. CASE Poke
      BY <1>18 DEF Poke
  <1>19. CASE UNCHANGED vars
      BY <1>19 DEF vars
  <1>20. QED
    BY <1>1, <1>2, <1>3, <1>4, <1>5, <1>6, <1>7, <1>8, <1>9, <1>10, <1>11, <1>12, <1>13,
       <1>14, <1>15, <1>16, <1>17, <1>18, <1>19
    DEF Next, Instruction

\* Only fetches steal cycles, and Finish finds none left.
LEMMA StolenStep ==
  ASSUME Inv, [Next]_vars
  PROVE  Stolen'
PROOF
  <1> USE DEF cpuVars, busVars, historyVars, Inv, Stolen, Go
  <1>1. CASE NoNMI
      BY <1>1 DEF NoNMI, StolenCycles
  <1>2. CASE DelayNMI
      BY <1>2 DEF StolenCycles, DelayNMI
  <1>3. CASE EnterNMI
      BY <1>3, APUFetches DEF EnterNMI
  <1>4. ASSUME NEW n \in InstructionCycles, ExecutePlain(n) PROVE Stolen'
      BY <1>4 DEF StolenCycles, ExecutePlain, Execute, NoteIRQMask
  <1>5. ASSUME NEW n \in StoreCycles, ExecuteAcknowledge(n) PROVE Stolen'
      BY <1>5 DEF StolenCycles, ExecuteAcknowledge, Execute, NoteIRQMask
  <1>6. ASSUME NEW n \in StoreCycles, NEW value \in Control, ExecuteStore(n, value) PROVE Stolen'
      BY <1>6 DEF StolenCycles, ExecuteStore, Execute, NoteIRQMask
  <1>7. CASE ExecuteFails
      BY <1>7 DEF StolenCycles, ExecuteFails
  <1>8. CASE AdvanceEarly
      BY <1>8, APUFetches DEF AdvanceEarly, Advance
  <1>9. CASE WritePPU
      BY <1>9 DEF StolenCycles, WritePPU
  <1>10. CASE AdvanceLate
      BY <1>10, APUFetches DEF AdvanceLate, Advance
  <1>11. CASE AdvanceWhole
      BY <1>11, APUFetches DEF AdvanceWhole, Advance
  <1>12. CASE EnterIRQ
      BY <1>12, APUFetches DEF EnterIRQ, AdvanceEntry, IRQReady, After
  <1>13. CASE NoIRQ
      BY <1>13 DEF StolenCycles, NoIRQ, IRQReady, After
  <1>14. CASE Stall
      BY <1>14, Fetches DEF Stall
  <1>15. CASE NoStall
      BY <1>15 DEF NoStall, StolenCycles
  <1>16. CASE Finish
      BY <1>16, NoneStolen DEF StolenCycles, Finish
  <1>17. CASE Reset
      BY <1>17, NoneStolen DEF Reset
  <1>18. CASE Poke
      BY <1>18 DEF StolenCycles, Poke
  <1>19. CASE UNCHANGED vars
      BY <1>19 DEF vars, StolenCycles
  <1>20. QED
    BY <1>1, <1>2, <1>3, <1>4, <1>5, <1>6, <1>7, <1>8, <1>9, <1>10, <1>11, <1>12, <1>13,
       <1>14, <1>15, <1>16, <1>17, <1>18, <1>19
    DEF Next, Instruction

\* The position of the PPU stays in its frame if the advance is shorter than it.
LEMMA DotStays ==
  ASSUME TypeOK, NEW n \in Nat, 3 * n < FrameDots - 1, StepPPU(n)
  PROVE  dot' \in 0 .. FrameDots - 1 /\ odd' \in BOOLEAN
PROOF
  <1>1. FrameDots \in Nat /\ FrameEnd \in {FrameDots - 1, FrameDots} /\ dot < FrameEnd
    BY StepAssumption DEF TypeOK, FrameEnd
  <1>2. dot' \in 0 .. FrameDots - 1
    <2>1. CASE FrameEnds(n)
      BY <1>1, <2>1 DEF TypeOK, StepPPU, DotAfter, FrameEnds
    <2>2. CASE ~FrameEnds(n)
      BY <1>1, <2>2 DEF TypeOK, StepPPU, DotAfter, FrameEnds
    <2>3. QED BY <2>1, <2>2
  <1>3. odd' \in BOOLEAN
    BY DEF TypeOK, StepPPU
  <1>4. QED BY <1>2, <1>3

\* The same for what an advance does to the rest.
LEMMA RunTypes ==
  ASSUME TypeOK, NEW n \in Nat, 3 * n < FrameDots - 1, Run(n)
  PROVE  /\ dot' \in 0 .. FrameDots - 1 /\ odd' \in BOOLEAN
         /\ line' \in BOOLEAN /\ owed' \in BOOLEAN
         /\ nmiPending' \in BOOLEAN /\ nmiDelay' \in {0, 1} /\ since' \in {0, 1}
PROOF
  <1>1. StepPPU(n)
    BY DEF Run
  <1>2. dot' \in 0 .. FrameDots - 1 /\ odd' \in BOOLEAN
    BY <1>1, DotStays
  <1>3. line \in BOOLEAN /\ owed \in BOOLEAN /\ nmiPending \in BOOLEAN
        /\ nmiDelay \in {0, 1} /\ since \in {0, 1}
    BY DEF TypeOK
  <1>4. line' \in BOOLEAN /\ owed' \in BOOLEAN
    BY <1>3, RunEffects
  <1>5. CASE QueueNMI
    BY <1>2, <1>3, <1>4, <1>5 DEF QueueNMI
  <1>6. CASE UNCHANGED <<nmiPending, nmiDelay, since>>
    BY <1>2, <1>3, <1>4, <1>6
  <1>7. QED BY <1>5, <1>6 DEF Run

\* No advance of the loop is longer than a frame.
LEMMA AdvancesFit ==
  ASSUME Inv
  PROVE  /\ at = "early" => behind.ppu - 1 \in Nat /\ 3 * (behind.ppu - 1) < FrameDots - 1
         /\ at = "whole" => behind.ppu \in Nat /\ 3 * behind.ppu < FrameDots - 1
         /\ at = "stall" => stall \in Nat /\ 3 * stall < FrameDots - 1
         /\ 3 * 1 < FrameDots - 1
         /\ EntryCycles \in Nat /\ 3 * EntryCycles < FrameDots - 1
PROOF
  <1>1. FrameDots \in Nat /\ EntryCycles \in Nat \ {0} /\ 3 * EntryCycles < FrameDots - 1
    BY StepAssumption
  <1>2. ASSUME NEW n \in InstructionCycles
        PROVE  n \in Nat /\ n > 1 /\ 3 * n < FrameDots - 1
    BY StepAssumption
  <1>3. at = "early" => behind.ppu - 1 \in Nat /\ 3 * (behind.ppu - 1) < FrameDots - 1
    BY <1>1, <1>2 DEF Inv, Clocks, Same, StoreCycles
  <1>4. at = "whole" => behind.ppu \in Nat /\ 3 * behind.ppu < FrameDots - 1
    BY <1>1, <1>2 DEF Inv, Clocks, Same
  <1>5. stall \in Nat /\ 3 * stall < FrameDots - 1
    <2>1. stall \in Nat /\ stall <= StallCycles * MaxFetches
      BY DEF Inv, TypeOK
    <2>2. 3 * (StallCycles * MaxFetches) < FrameDots - 1 /\ StallCycles * MaxFetches \in Nat
      BY StepAssumption
    <2>3. QED BY <1>1, <2>1, <2>2
  <1>6. 3 * 1 < FrameDots - 1
    BY <1>1
  <1>7. QED BY <1>1, <1>3, <1>4, <1>5, <1>6

\* Instructions take a whole number of cycles.
LEMMA Integral ==
  /\ \A n \in InstructionCycles : n \in Int
  /\ \A n \in StoreCycles : n \in Int
PROOF
  <1>1. InstructionCycles \subseteq Nat \ {0, 1}
    BY StepAssumption, Zenon
  <1>2. QED BY <1>1 DEF StoreCycles

\* The type invariant without the two products.
RestOK ==
  /\ at \in Phases
  /\ maskI \in BOOLEAN /\ prevI \in BOOLEAN
  /\ nmiPending \in BOOLEAN /\ nmiDelay \in {0, 1}
  /\ irqDelay \in {0, 1} /\ irqLatency \in {0, 1} /\ line \in BOOLEAN
  /\ store \in Control \union {NoStore}
  /\ dot \in 0 .. FrameDots - 1 /\ odd \in BOOLEAN /\ control \in Control
  /\ behind \in [apu : Int, ppu : Int]
  /\ owed \in BOOLEAN /\ since \in {0, 1} /\ held \in BOOLEAN /\ entered \in BOOLEAN

\* What is stolen stays within the bound on the fetches.
LEMMA StallBounded ==
  ASSUME Stolen'
  PROVE  stall' \in 0 .. StallCycles * MaxFetches /\ fetches' \in 0 .. MaxFetches
PROOF
  <1>1. StallCycles \in Nat /\ MaxFetches \in Nat
    BY StepAssumption
  <1>2. fetches' \in 0 .. MaxFetches /\ stall' \in Nat /\ stall' <= StallCycles * fetches'
    BY DEF Stolen, StolenCycles
  <1>3. PICK rest \in Nat, done \in Nat : done = fetches' /\ MaxFetches = done + rest
    BY <1>1, <1>2
  <1>4. StallCycles * (done + rest) = StallCycles * done + StallCycles * rest
    BY <1>1
  <1>5. StallCycles * done \in Nat /\ StallCycles * rest \in Nat
    BY <1>1
  <1>6. StallCycles * done <= StallCycles * (done + rest)
    BY <1>4, <1>5
  <1>7. stall' \in Nat /\ stall' <= StallCycles * done
    BY <1>2, <1>3
  <1>8. StallCycles * (done + rest) = StallCycles * MaxFetches
    BY <1>3, Zenon
  <1>9. stall' <= StallCycles * (done + rest) /\ StallCycles * (done + rest) \in Nat
    BY <1>4, <1>5, <1>6, <1>7
  <1>10. QED BY <1>2, <1>7, <1>8, <1>9

\* Type correctness is preserved.
LEMMA TypesStep ==
  ASSUME Inv, [Next]_vars
  PROVE  TypeOK'
PROOF
  <1>0. RestOK /\ Clocks /\ Stores
      BY DEF Inv, TypeOK, RestOK
  <1>a. Queued
      BY DEF Inv
  <1>b. TypeOK
      BY DEF Inv
  <1>c. 0 \in 0 .. FrameDots - 1
      BY StepAssumption
  <1> SUFFICES RestOK'
      BY StolenStep, StallBounded DEF TypeOK, RestOK
  <1> USE <1>0 DEF cpuVars, busVars, historyVars, RestOK, Go, Phases
  <1>1. CASE NoNMI
      BY <1>1 DEF NoNMI
  <1>2. CASE DelayNMI
      BY <1>2 DEF DelayNMI
  <1>3. CASE EnterNMI
      BY <1>3, DotStays, AdvancesFit, <1>b DEF EnterNMI, RaiseLine, RaisesNMI
  <1>4. ASSUME NEW n \in InstructionCycles, ExecutePlain(n) PROVE RestOK'
      BY <1>4, <1>a, Integral DEF ExecutePlain, Execute, NoteIRQMask, Queued
  <1>5. ASSUME NEW n \in StoreCycles, ExecuteAcknowledge(n) PROVE RestOK'
      <2>1. line' \in BOOLEAN /\ held' \in BOOLEAN
        BY <1>5, Zenon DEF ExecuteAcknowledge
      <2>2. QED BY <2>1, <1>5, <1>a, Integral DEF ExecuteAcknowledge, Execute, NoteIRQMask, Queued
  <1>6. ASSUME NEW n \in StoreCycles, NEW value \in Control, ExecuteStore(n, value) PROVE RestOK'
      BY <1>6, <1>a, Integral DEF ExecuteStore, Execute, NoteIRQMask, Queued
  <1>7. CASE ExecuteFails
      <2>1. held' \in BOOLEAN
        BY <1>7, Zenon DEF ExecuteFails
      <2>2. QED BY <2>1, <1>7, <1>a DEF ExecuteFails, Queued
  <1>8. CASE AdvanceEarly
      BY <1>8, AdvancesFit, RunTypes, <1>b DEF AdvanceEarly, Advance
  <1>9. CASE WritePPU
      BY <1>9 DEF WritePPU, Stores
  <1>10. CASE AdvanceLate
      BY <1>10, AdvancesFit, RunTypes, <1>b DEF AdvanceLate, Advance
  <1>11. CASE AdvanceWhole
      BY <1>11, AdvancesFit, RunTypes, <1>b DEF AdvanceWhole, Advance
  <1>12. CASE EnterIRQ
      BY <1>12, DotStays, AdvancesFit, <1>b
      DEF EnterIRQ, AdvanceEntry, IRQReady, After, RaiseLine, NoteVBlank
  <1>13. CASE NoIRQ
      BY <1>13 DEF NoIRQ, IRQReady, After, RaiseLine, NoteVBlank
  <1>14. CASE Stall
      BY <1>14, AdvancesFit, RunTypes, <1>b DEF Stall
  <1>15. CASE NoStall
      BY <1>15 DEF NoStall
  <1>16. CASE Finish
      <2>1. held' \in BOOLEAN /\ entered' \in BOOLEAN
        BY <1>16, Zenon DEF Finish
      <2>2. QED BY <2>1, <1>16 DEF Finish
  <1>17. CASE Reset
      <2>1. line' \in BOOLEAN /\ owed' \in BOOLEAN /\ nmiPending' \in BOOLEAN /\ odd' \in BOOLEAN
        BY <1>17, Zenon DEF Reset
      <2>2. QED BY <2>1, <1>17, <1>c DEF Reset, Off, Control
  <1>18. CASE Poke
      <2>1. line' \in BOOLEAN
        BY <1>18, Zenon DEF Poke
      <2>2. QED BY <2>1, <1>18 DEF Poke
  <1>19. CASE UNCHANGED vars
      BY <1>19 DEF vars
  <1>20. QED
    BY <1>1, <1>2, <1>3, <1>4, <1>5, <1>6, <1>7, <1>8, <1>9, <1>10, <1>11, <1>12, <1>13,
       <1>14, <1>15, <1>16, <1>17, <1>18, <1>19
    DEF Next, Instruction

-----------------------------------------------------------------------------
\* Init establishes the invariant.
LEMMA InvInit == Init => Inv
PROOF
  <1> SUFFICES ASSUME Init PROVE Inv
    OBVIOUS
  <1>1. TypeOK
    <2>1. 0 \in 0 .. FrameDots - 1 /\ 0 \in 0 .. MaxFetches
      BY StepAssumption
    <2>2. fetches = 0 /\ stall = 0 /\ 0 \in 0 .. StallCycles * MaxFetches
      <3>1. StallCycles \in Nat /\ MaxFetches \in Nat
        BY StepAssumption
      <3>2. StallCycles * MaxFetches \in Nat
        BY <3>1
      <3>3. QED BY <3>2 DEF Init
    <2>3. RestOK
      <3>1. /\ maskI \in BOOLEAN /\ prevI \in BOOLEAN /\ nmiPending \in BOOLEAN
            /\ line \in BOOLEAN /\ odd \in BOOLEAN /\ owed \in BOOLEAN
            /\ held \in BOOLEAN /\ entered \in BOOLEAN
        BY Zenon DEF Init
      <3>2. /\ nmiDelay \in {0, 1} /\ irqDelay \in {0, 1} /\ irqLatency \in {0, 1}
            /\ since \in {0, 1} /\ dot \in 0 .. FrameDots - 1
            /\ at \in Phases /\ store \in Control \union {NoStore}
        BY <2>1, Zenon DEF Init, Phases
      <3>3. control \in Control /\ behind \in [apu : Int, ppu : Int]
        <4>1. Off \in Control /\ InStep \in [apu : Int, ppu : Int]
          BY DEF Off, Control, InStep
        <4>2. QED BY <4>1, Zenon DEF Init
      <3>4. QED BY <3>1, <3>2, <3>3, Zenon DEF RestOK
    <2>4. QED BY <2>1, <2>2, <2>3, Zenon DEF TypeOK, RestOK
  <1>2. Clocks /\ Stores /\ Queued /\ Mask /\ Taken
    BY DEF Init, Clocks, Stores, Queued, Mask, Taken, InStep, Same
  <1>3. Stolen
    BY StepAssumption DEF Init, Stolen, StolenCycles
  <1>4. QED BY <1>1, <1>2, <1>3, Zenon DEF Inv

\* Every step keeps it.
LEMMA InvStep == Inv /\ [Next]_vars => Inv'
  BY TypesStep, ClocksStep, StoresStep, StolenStep, QueuedStep, MaskStep, TakenStep, Zenon
     DEF Inv

\* The invariant holds in every run.
LEMMA InvHolds == Spec => []Inv
  BY InvInit, InvStep, PTL DEF Spec

\* Type correctness of the console's step, the position of the PPU within its
\* frame included, for every frame length and every mix of instructions.
THEOREM StepTypes == Spec => []TypeOK
PROOF
  <1>1. Inv => TypeOK
    BY DEF Inv
  <1>2. QED BY <1>1, InvHolds, PTL

\* CPU, PPU and APU run in lockstep through splits, entries and stalls
\* (console.go:360-417, 487-504).
THEOREM ClocksInLockstep == Spec => []Lockstep
PROOF
  <1>1. Inv => Lockstep
    BY DEF Inv, Clocks, Lockstep, Same, InStep
  <1>2. QED BY <1>1, InvHolds, PTL

\* No NMI is queued without a vblank that began with NMI enabled
\* (ppu.go:296-298, console.go:437-454).
THEOREM NMINeedsVBlank == Spec => []NMIOnlyForVBlank
PROOF
  <1>1. Inv => NMIOnlyForVBlank
    BY DEF Inv, Queued, NMIOnlyForVBlank
  <1>2. QED BY <1>1, InvHolds, PTL

\* An NMI is entered after exactly one more instruction (console.go:444-454).
THEOREM NMIHasLatency == Spec => NMILatency
PROOF
  <1>1. Inv => (EnterNMI => since = 1)
    BY DEF Inv, TypeOK, Queued, EnterNMI, Go
  <1>2. Inv /\ [Next]_vars => [EnterNMI => since = 1]_vars
    BY <1>1
  <1>3. QED BY <1>2, InvHolds, PTL DEF Spec, NMILatency

\* An IRQ is entered only if the instruction began with interrupts enabled
\* (console.go:456-476).
THEOREM IRQNeedsOpenGate == Spec => []IRQOnlyWhenOpen
PROOF
  <1>1. Inv => IRQOnlyWhenOpen
    BY DEF Inv, Mask, IRQOnlyWhenOpen
  <1>2. QED BY <1>1, InvHolds, PTL

\* A line that stays up while interrupts are enabled is served before the next
\* instruction (console.go:378-385, 456-465).
THEOREM IRQIsServed == Spec => []IRQNotMissed
PROOF
  <1>1. Inv => IRQNotMissed
    BY DEF Inv, Taken, IRQNotMissed
  <1>2. QED BY <1>1, InvHolds, PTL

\* NMIs are entered for a vblank alone, one instruction after it.
THEOREM NMIsAreFaithful == Spec => NMIFaithful
  BY NMINeedsVBlank, NMIHasLatency, PTL DEF NMIFaithful

\* IRQs are entered only through an open gate, and always through one.
THEOREM IRQsAreFaithful == Spec => []IRQFaithful
PROOF
  <1>1. IRQOnlyWhenOpen /\ IRQNotMissed => IRQFaithful
    BY DEF IRQFaithful
  <1>2. QED BY <1>1, IRQNeedsOpenGate, IRQIsServed, PTL

-----------------------------------------------------------------------------
(* The controller port.                                                    *)

Register == [1 .. Width -> {0, 1}]

LEMMA AfterNone ==
  ASSUME NEW b \in Register PROVE AfterRead(b, 0) = b
BY ControllersAssumption, SMT DEF Register, AfterRead, ControllersAssumption

\* A shift is one read more.
LEMMA ShiftReads ==
  ASSUME NEW b, NEW n \in Nat PROVE Shifted(AfterRead(b, n)) = AfterRead(b, n + 1)
<1> DEFINE R == AfterRead(b, n)
<1>1. ASSUME NEW i \in 1 .. Width
      PROVE (IF i < Width THEN R[i + 1] ELSE 1) = IF i + (n + 1) <= Width THEN b[i + (n + 1)] ELSE 1
  <2>1. CASE i < Width
    <3>1. i + 1 \in 1 .. Width /\ (i + 1) + n = i + (n + 1)
      BY <2>1, ControllersAssumption DEF ControllersAssumption
    <3> QED
      BY <2>1, <3>1 DEF AfterRead
  <2>2. CASE ~(i < Width)
    BY <2>2, ControllersAssumption DEF ControllersAssumption
  <2> QED
    BY <2>1, <2>2
<1> QED
  BY <1>1 DEF Shifted, AfterRead

LEMMA AfterReadType ==
  ASSUME NEW b \in Register, NEW n \in Nat PROVE AfterRead(b, n) \in Register
BY ControllersAssumption, SMT DEF Register, AfterRead, ControllersAssumption

LEMMA ShiftedType ==
  ASSUME NEW r \in Register PROVE Shifted(r) \in Register
BY ControllersAssumption, SMT DEF Register, Shifted, ControllersAssumption

\* A register is what n reads of the program and at most k others left of the buttons b.
ReadAtMost(r, b, n, k) == \E j \in 0 .. k : r = AfterRead(b, n + j)

\* A register a handler has read and not yet stored has been shifted less often than the
\* peeks begun; no frame runs meanwhile.
PortInv ==
  /\ PortTypeOK /\ latched \in Register
  /\ peek \in [Handlers -> Register \union {None}]
  /\ ReadAtMost(shift, latched, taken, peeked)
  /\ \A h \in Handlers :
       peek[h] /= None => ~framing /\ peeked > 0 /\ ReadAtMost(peek[h], latched, taken, peeked - 1)

LEMMA PortStart == PortInit => PortInv
<1> SUFFICES ASSUME PortInit PROVE PortInv
  OBVIOUS
<1>1. buttons \in Register
  BY SMT DEF PortInit, Register
<1>2. shift = AfterRead(latched, taken + 0)
  BY <1>1, AfterNone DEF PortInit
<1>3. /\ taken = 0 /\ peeked = 0 /\ latched = buttons
      /\ peek \in [Handlers -> Register \union {None}] /\ \A h \in Handlers : peek[h] = None
  BY DEF PortInit
<1>4. taken \in 0 .. Width + MaxReads /\ peeked \in 0 .. MaxReads
  BY <1>3, ControllersAssumption DEF ControllersAssumption
<1>5. PortTypeOK
  BY <1>1, <1>3, <1>4 DEF PortInit, PortTypeOK, Register
<1>6. ReadAtMost(shift, latched, taken, peeked)
  BY <1>2, <1>3 DEF ReadAtMost
<1> QED
  BY <1>1, <1>3, <1>5, <1>6 DEF PortInv

\* After a latch the register is the buttons.
LEMMA PortLatched ==
  ASSUME PortInv, NEW b \in Register, Latch(b), Free \/ framing, buttons' \in Register,
         strobe' \in BOOLEAN, framing' \in BOOLEAN, peek' = peek
  PROVE  PortInv'
<1>1. \A h \in Handlers : peek[h] = None
  BY DEF PortInv, Free
<1>2. shift' = AfterRead(latched', taken' + 0)
  BY AfterNone DEF Latch
<1>3. PortTypeOK'
  BY ControllersAssumption DEF PortInv, PortTypeOK, Latch, Register, ControllersAssumption
<1>4. latched' \in Register /\ peek' \in [Handlers -> Register \union {None}] /\ peeked' = 0
  BY DEF PortInv, Latch
<1> QED
  BY <1>1, <1>2, <1>3, <1>4 DEF PortInv, ReadAtMost

LEMMA PortKeeps == PortInv /\ [PortNext]_portVars => PortInv'
<1> SUFFICES ASSUME PortInv, [PortNext]_portVars PROVE PortInv'
  OBVIOUS
<1>0. CASE UNCHANGED portVars
  BY <1>0 DEF portVars, PortInv, PortTypeOK, ReadAtMost
<1>1. CASE \E b \in States : SetControllerState(b)
  <2>1. buttons' \in Register
    BY <1>1, ControllersAssumption DEF SetControllerState, Register, ControllersAssumption
  <2>2. UNCHANGED <<strobe, shift, framing, peek, latched, taken, peeked>>
    BY <1>1 DEF SetControllerState
  <2>3. PortTypeOK'
    BY <2>1, <2>2 DEF PortInv, PortTypeOK, Register
  <2> QED
    BY <2>2, <2>3 DEF PortInv, ReadAtMost
<1>2. CASE FrameBegins
  <2>1. CASE \E b \in States : buttons' = b /\ Latch(b)
    <3> PICK b \in States : buttons' = b /\ Latch(b)
      BY <2>1
    <3>1. b \in Register
      BY ControllersAssumption DEF Register, ControllersAssumption
    <3> QED
      BY <1>2, <3>1, PortLatched DEF FrameBegins, PortInv, PortTypeOK
  <2>2. CASE UNCHANGED <<buttons, shift, latched, taken, peeked>>
    BY <1>2, <2>2 DEF FrameBegins, Free, PortInv, PortTypeOK, ReadAtMost
  <2> QED
    BY <1>2, <2>1, <2>2 DEF FrameBegins
<1>3. CASE FrameEndsHere
  BY <1>3 DEF FrameEndsHere, PortInv, PortTypeOK, ReadAtMost
<1>4. CASE \E on \in BOOLEAN : WriteControllerStrobe(on)
  <2>1. buttons \in Register
    BY DEF PortInv, PortTypeOK, Register
  <2> QED
    BY <1>4, <2>1, PortLatched DEF WriteControllerStrobe, PortInv, PortTypeOK
<1>5. CASE ReadControllerPort
  <2>1. PICK k \in 0 .. peeked : shift = AfterRead(latched, taken + k)
    BY DEF PortInv, ReadAtMost
  <2>2. taken \in Nat /\ peeked \in Nat
    BY DEF PortInv, PortTypeOK
  <2>3. shift' = AfterRead(latched, (taken + k) + 1)
    BY <1>5, <2>1, <2>2, ShiftReads DEF ReadControllerPort
  <2>4. (taken + k) + 1 = taken' + k
    BY <1>5, <2>2 DEF ReadControllerPort
  <2>5. ReadAtMost(shift', latched', taken', peeked')
    BY <1>5, <2>3, <2>4 DEF ReadControllerPort, ReadAtMost
  <2>6. shift' \in Register
    BY <1>5, ShiftedType DEF ReadControllerPort, PortInv, PortTypeOK, Register
  <2>7. PortTypeOK'
    BY <1>5, <2>6, ControllersAssumption
    DEF ReadControllerPort, PortInv, PortTypeOK, Register, ControllersAssumption
  <2> QED
    BY <1>5, <2>5, <2>7 DEF ReadControllerPort, PortInv
<1>6. ASSUME NEW h \in Handlers, PeekLoads(h) PROVE PortInv'
  <2>1. PortTypeOK'
    BY <1>6, ControllersAssumption
    DEF PeekLoads, PortInv, PortTypeOK, Register, ControllersAssumption
  <2>2. shift \in Register /\ peeked \in Nat /\ peeked' = peeked + 1
    BY <1>6 DEF PeekLoads, PortInv, PortTypeOK, Register
  <2>3. ReadAtMost(shift', latched', taken', peeked')
    BY <1>6, <2>2 DEF PeekLoads, PortInv, ReadAtMost
  <2>4. ASSUME NEW i \in Handlers, peek'[i] /= None
        PROVE ~framing' /\ peeked' > 0 /\ ReadAtMost(peek'[i], latched', taken', peeked' - 1)
    <3>1. CASE i = h
      <4>1. peek'[i] = shift
        BY <1>6, <3>1 DEF PeekLoads, PortInv
      <4>2. peeked' - 1 = peeked
        BY <2>2
      <4> QED
        BY <1>6, <2>2, <4>1, <4>2 DEF PeekLoads, PortInv
    <3>2. CASE i /= h
      <4>1. peek'[i] = peek[i]
        BY <1>6, <3>2 DEF PeekLoads, PortInv
      <4>2. /\ ~framing /\ peeked > 0 /\ ReadAtMost(peek[i], latched, taken, peeked - 1)
            /\ UNCHANGED <<framing, latched, taken>>
        BY <1>6, <2>4, <4>1 DEF PeekLoads, PortInv
      <4>3. 0 .. peeked - 1 \subseteq 0 .. peeked' - 1 /\ peeked' > 0
        BY <2>2, <4>2
      <4> QED
        BY <4>1, <4>2, <4>3 DEF ReadAtMost
    <3> QED
      BY <3>1, <3>2
  <2> QED
    BY <1>6, <2>1, <2>2, <2>3, <2>4 DEF PeekLoads, PortInv
<1>7. ASSUME NEW h \in Handlers, PeekStores(h) PROVE PortInv'
  <2>1. peeked \in Nat /\ taken \in Nat /\ ~framing /\ peeked > 0
    BY <1>7 DEF PeekStores, PortInv, PortTypeOK
  <2>2. PICK k \in 0 .. peeked - 1 : peek[h] = AfterRead(latched, taken + k)
    BY <1>7 DEF PeekStores, PortInv, ReadAtMost
  <2>3. shift' = AfterRead(latched, (taken + k) + 1)
    BY <1>7, <2>1, <2>2, ShiftReads DEF PeekStores
  <2>4. (taken + k) + 1 = taken + (k + 1) /\ k + 1 \in 0 .. peeked
    BY <2>1
  <2>5. ReadAtMost(shift', latched', taken', peeked')
    BY <1>7, <2>3, <2>4 DEF PeekStores, ReadAtMost
  <2>6. shift' \in Register
    BY <1>7, ShiftedType DEF PeekStores, PortInv, Register
  <2>7. PortTypeOK'
    BY <1>7, <2>6 DEF PeekStores, PortInv, PortTypeOK, Register
  <2>8. \A i \in Handlers : peek'[i] /= None => peek'[i] = peek[i]
    BY <1>7 DEF PeekStores, PortInv
  <2>9. \A i \in Handlers : peek'[i] /= None =>
          ~framing' /\ peeked' > 0 /\ ReadAtMost(peek'[i], latched', taken', peeked' - 1)
    BY <1>7, <2>1, <2>8 DEF PeekStores, PortInv
  <2> QED
    BY <1>7, <2>5, <2>7, <2>9 DEF PeekStores, PortInv
<1> QED
  BY <1>0, <1>1, <1>2, <1>3, <1>4, <1>5, <1>6, <1>7 DEF PortNext

\* Reads of the port (readControllerPort, latchControllers, Peek under the read lock) hand
\* out the latched buttons in order, for every width and any number of racing handlers.
THEOREM PortHandsOutLatch == PortSpec => []ReadsFollowLatch
<1>1. PortInv => ReadsFollowLatch
  BY DEF PortInv, ReadsFollowLatch, ReadAtMost
<1> QED
  BY PortStart, PortKeeps, <1>1, PTL DEF PortSpec

-----------------------------------------------------------------------------
(* Pictures and sound.                                                     *)

\* A picture is behind the sound by steps that ended in an error or followed one.
Behind(frame, sound) ==
  /\ frame.step \in Nat /\ frame.step <= sound
  /\ \A k \in frame.step + 1 .. sound : k \in failed \/ k - 1 \in failed

\* The PPU is past the vblank between two steps only if the last one failed there.
PairsInv ==
  /\ steps \in Nat /\ audioSamples = steps
  /\ pastVBlank => steps \in failed
  /\ loop.at \in {"step", "frame", "audio", "write"}
  /\ Behind(lastFrame, audioSamples)
  /\ loop.at = "audio" => Behind(loop.frame, audioSamples)
  /\ loop.at = "write" => Behind(loop.frame, loop.audio)

LEMMA PairsKeep == PairsInv /\ [ConsoleNext]_consoleVars => PairsInv'
<1> SUFFICES ASSUME PairsInv, [ConsoleNext]_consoleVars PROVE PairsInv'
  OBVIOUS
<1> USE DEF PairsInv
<1>1. ASSUME UNCHANGED <<outputVars, loop, steps, failed>> PROVE PairsInv'
  BY <1>1 DEF outputVars, Behind
<1>2. ASSUME ResetLocked PROVE PairsInv'
  BY <1>2 DEF ResetLocked, Behind
<1>3. CASE StepFrame
  <2>1. loop' = [at |-> "frame"]
    BY <1>3 DEF StepFrame
  <2>2. CASE RunPaused
    BY <2>1, <2>2 DEF RunPaused, outputVars, Behind
  <2>3. ASSUME steps' = steps + 1, audioSamples' = steps + 1, pastVBlank' => steps + 1 \in failed',
               failed \subseteq failed', NEW reached \in BOOLEAN, lastFrame' = Picture(reached),
               steps + 1 \in failed' \/ reached
        PROVE  PairsInv'
    <3>1. CASE lastFrame' = [by |-> "frame", step |-> steps + 1]
      BY <2>1, <2>3, <3>1 DEF Behind
    <3>2. CASE lastFrame' = lastFrame /\ (steps + 1 \in failed' \/ pastVBlank)
      <4>1. \A k \in lastFrame.step + 1 .. steps + 1 :
              k \in lastFrame.step + 1 .. steps \/ k = steps + 1
        BY DEF Behind
      <4>2. steps + 1 \in failed' \/ (steps + 1) - 1 \in failed'
        BY <2>3, <3>2
      <4>3. \A k \in lastFrame.step + 1 .. steps + 1 : k \in failed' \/ k - 1 \in failed'
        BY <2>3, <4>1, <4>2 DEF Behind
      <4>4. lastFrame.step \in Nat /\ lastFrame.step <= steps + 1
        BY DEF Behind
      <4> QED
        BY <2>1, <2>3, <3>2, <4>3, <4>4 DEF Behind
    <3> QED
      BY <2>3, <3>1, <3>2 DEF Picture
  <2>4. CASE RunFrame
    BY <2>3, <2>4 DEF RunFrame
  <2>5. CASE RunFailingFrame
    <3>1. pastVBlank' \in BOOLEAN /\ failed' = failed \union {steps + 1}
      BY <2>5 DEF RunFailingFrame
    <3> QED
      BY <2>3, <2>5, <3>1 DEF RunFailingFrame
  <2> QED
    BY <1>3, <2>2, <2>4, <2>5 DEF StepFrame
<1>4. CASE SnapshotFrame
  BY <1>4 DEF SnapshotFrame, outputVars, Behind
<1>5. CASE SnapshotAudio
  BY <1>5 DEF SnapshotAudio, outputVars, Behind
<1>6. CASE WriteFrames
  BY <1>6 DEF WriteFrames, outputVars, Behind
<1>7. CASE \/ \E rom \in ROMs : LoadROMContent(rom)
           \/ \E r \in Replays : LoadFM2Content(r)
           \/ ResetConsole
  BY <1>2, <1>7 DEF LoadROMContent, LoadFM2Content, ResetConsole
<1>8. CASE \/ \E p \in BOOLEAN : SetPaused(p)
           \/ \E player \in {"p1", "p2"}, b \in Buttons : SetController(player, b)
           \/ PokeRAM
  BY <1>1, <1>8 DEF SetPaused, SetController, PokeRAM
<1>9. CASE \/ \E request \in Requests : SimulateInputSequences(request)
           \/ StartSequence \/ SimulateFrame \/ EndSequence \/ Respond
  BY <1>1, <1>9 DEF SimulateInputSequences, StartSequence, SimulateFrame, EndSequence, Respond
<1>10. CASE UNCHANGED consoleVars
  BY <1>1, <1>10 DEF consoleVars
<1> QED
  BY <1>3, <1>4, <1>5, <1>6, <1>7, <1>8, <1>9, <1>10 DEF ConsoleNext

\* The frame loop (daemon.go, frameLoop) hands out the picture and the sound of one step over
\* calls between its three critical sections, and a picture is behind the sound only by steps
\* that a CPU error cut short or that finished the frame it had left past its vblank, for
\* every ROM, replay and client.
THEOREM FramesArePaired == ConsoleSpec => []PairsMatch
<1>1. ConsoleInit => PairsInv
  BY DEF ConsoleInit, PairsInv, Behind
<1>2. PairsInv => PairsMatch
  BY DEF PairsInv, PairsMatch, Behind
<1> QED
  BY <1>1, <1>2, PairsKeep, PTL DEF ConsoleSpec

-----------------------------------------------------------------------------
(* The clock of the frame loop.                                            *)

\* Whole units of e shares of which m make one.
LEMMA Quotient ==
  ASSUME NEW m \in Nat \ {0}, NEW e \in Int
  PROVE  /\ e \div m \in Int
         /\ (e \div m) * m <= e /\ e < (e \div m) * m + m
         /\ e >= 0 => e \div m >= 0
OBVIOUS

LEMMA Scales ==
  ASSUME NEW m \in Nat \ {0}, NEW p \in Int, NEW q \in Int, p <= q
  PROVE  p * m <= q * m
<1>1. (q - p) * m >= 0
  BY SMT
<1> QED
  BY <1>1, SMT

\* What is less in shares is not more in units, and back.
LEMMA ScalesBack ==
  ASSUME NEW m \in Nat \ {0}, NEW p \in Int, NEW q \in Int, p * m < q * m
  PROVE  p < q
<1>1. SUFFICES ASSUME q <= p PROVE FALSE
  OBVIOUS
<1> QED
  BY <1>1, Scales

Share(n) == (n * Second) \div TargetFPS

\* Deadlines come one after the other, at least a unit and at most a second apart.
LEMMA ShareSteps ==
  ASSUME NEW n \in Nat
  PROVE  /\ Share(n) \in Nat
         /\ Share(n + 1) > Share(n) /\ Share(n + 1) <= Share(n) + Second
<1> DEFINE S == Second
           T == TargetFPS
           e == n * S
<1>1. S \in Nat \ {0} /\ T \in Nat \ {0} /\ T <= S
  BY ClockAssumption DEF ClockAssumption
<1>2. e \in Nat /\ (n + 1) * S = e + S
  BY <1>1, SMT
<1> HIDE DEF e
<1> DEFINE d == e \div T
           f == (e + S) \div T
<1>3. /\ d \in Int /\ d * T <= e /\ e < d * T + T /\ d >= 0
      /\ f \in Int /\ f * T <= e + S /\ e + S < f * T + T
  BY <1>1, <1>2, Quotient
<1> HIDE DEF d, f
<1>4. d * T < f * T
  BY <1>1, <1>2, <1>3, SMT
<1>5. S + T <= (S + 1) * T
  BY <1>1, SMT
<1>6. (d + S + 1) * T = d * T + (S + 1) * T
  BY <1>1, <1>3, SMT
<1>7. f * T < (d + S + 1) * T
  BY <1>1, <1>2, <1>3, <1>5, <1>6, SMT
<1>8. d < f /\ f < d + S + 1
  BY <1>1, <1>3, <1>4, <1>7, ScalesBack
<1>9. d = Share(n) /\ f = Share(n + 1)
  BY <1>2 DEF d, f, e, Share
<1> QED
  BY <1>1, <1>3, <1>8, <1>9, SMT

\* Frames whose deadlines are no further apart than the loop catches up are that many.
LEMMA CatchUpFrames ==
  ASSUME NEW a \in Nat, NEW b \in Nat,
         Share(a) - Share(b) <= (MaxCatchUp * Second) \div TargetFPS
  PROVE  a <= b + MaxCatchUp
<1> DEFINE S == Second
           T == TargetFPS
           M == MaxCatchUp
           ea == a * S
           eb == b * S
           em == M * S
<1>1. S \in Nat \ {0} /\ T \in Nat \ {0} /\ T <= S /\ M \in Nat
  BY ClockAssumption DEF ClockAssumption
<1>2. ea \in Nat /\ eb \in Nat /\ em \in Nat
  BY <1>1, SMT
<1> DEFINE da == ea \div T
           db == eb \div T
           dm == em \div T
<1>3. da - db <= dm
  BY DEF Share
<1> HIDE DEF ea, eb, em
<1>4. /\ da \in Int /\ da * T <= ea /\ ea < da * T + T
      /\ db \in Int /\ db * T <= eb /\ eb < db * T + T
      /\ dm \in Int /\ dm * T <= em /\ em < dm * T + T
  BY <1>1, <1>2, Quotient
<1> HIDE DEF da, db, dm
<1>5. da * T <= (dm + db) * T /\ (dm + db) * T = dm * T + db * T
  BY <1>1, <1>3, <1>4, Scales, SMT
<1>6. ea < em + eb + T
  BY <1>1, <1>2, <1>4, <1>5, SMT
<1>7. ea < em + eb + S
  BY <1>1, <1>2, <1>6, SMT
<1>8. em + eb + S = (M + b + 1) * S
  BY <1>1, SMT DEF em, eb
<1>9. a * S < (M + b + 1) * S
  BY <1>7, <1>8 DEF ea
<1>10. a < M + b + 1
  BY <1>1, <1>9, ScalesBack
<1> QED
  BY <1>1, <1>10

CatchUp == (MaxCatchUp * Second) \div TargetFPS

\* The frames begun at this moment: the deadline of the one after the first of them is no
\* further behind than the loop catches up, unless the clock has just been started over.
BurstInv ==
  /\ BurstBounded
  /\ stage = "wait" /\ burst > 0 =>
       \/ wake > now
       \/ /\ frameNumber >= burst
          /\ now - FrameDeadline(clockStart, frameNumber - burst + 1) <= CatchUp
  /\ stage = "work" /\ burst > 1 =>
       /\ frameNumber + 1 >= burst
       /\ now - FrameDeadline(clockStart, frameNumber - burst + 2) <= CatchUp

ClockInv ==
  /\ ClockTypeOK
  /\ now <= MaxTime
  /\ FrameDeadline(clockStart, frameNumber) <= wake
  /\ wake > FrameDeadline(clockStart, frameNumber) => wake <= now
  /\ stage = "work" => now >= wake
  /\ BurstInv

\* The timer keeps the beat: a deadline is the frame's share of the time, less than a unit
\* short.
LEMMA BeatKept == ClockInv => OnTheBeat
<1> SUFFICES ASSUME ClockInv PROVE OnTheBeat
  OBVIOUS
<1> DEFINE T == TargetFPS
           e == frameNumber * Second
           w == wake - clockStart
           d == e \div T
           n == now - clockStart
<1>1. T \in Nat \ {0} /\ e \in Int
  BY ClockAssumption, SMT DEF ClockAssumption, ClockInv, ClockTypeOK
<1>2. w \in Int /\ n \in Int
  BY DEF ClockInv, ClockTypeOK
<1>3. d \in Int /\ d * T <= e /\ e < d * T + T
  BY <1>1, Quotient
<1>4. FrameDeadline(clockStart, frameNumber) = clockStart + d
  BY DEF FrameDeadline
<1>5. d <= w /\ (wake > now => w = d) /\ (stage = "work" => n >= w)
  BY <1>3, <1>4, ClockAssumption DEF ClockInv, ClockTypeOK, ClockAssumption
<1> HIDE DEF d, e, w, n
<1>6. d * T <= w * T
  BY <1>1, <1>2, <1>3, <1>5, Scales
<1>7. stage = "work" => d * T <= n * T
  <2>1. stage = "work" => d <= n
    BY <1>2, <1>3, <1>5
  <2> QED
    BY <1>1, <1>2, <1>3, <2>1, Scales
<1>8. w * T \in Int /\ n * T \in Int /\ d * T \in Int
  BY <1>1, <1>2, <1>3, SMT
<1>9. w * T > e - T
  BY <1>1, <1>3, <1>6, <1>8
<1>10. wake > now => w * T <= e
  BY <1>3, <1>5
<1>11. stage = "work" => n * T > e - T
  BY <1>1, <1>3, <1>7, <1>8
<1> QED
  BY <1>9, <1>10, <1>11 DEF OnTheBeat, w, e, n

LEMMA ClockStarts == ClockInit => ClockInv
<1> SUFFICES ASSUME ClockInit PROVE ClockInv
  OBVIOUS
<1>1. Share(0) = 0 /\ Share(1) \in Nat /\ Share(1) > 0 /\ Share(1) <= Second
  <2>1. Share(0) = 0
    BY ClockAssumption, Z3 DEF ClockAssumption, Share
  <2> QED
    BY <2>1, ShareSteps, ClockAssumption DEF ClockAssumption
<1>2. wake = Share(1) /\ FrameDeadline(clockStart, frameNumber) = Share(1)
  BY <1>1 DEF ClockInit, FrameDeadline, Share
<1> QED
  BY <1>1, <1>2, ClockAssumption
  DEF ClockInit, ClockInv, ClockTypeOK, BurstInv, BurstBounded, ClockAssumption

\* The next deadline of a loop that is not far behind, or of one that starts over.
LEMMA FrameEndsInTime == ClockInv /\ EndFrame => ClockInv'
<1> SUFFICES ASSUME ClockInv, EndFrame PROVE ClockInv'
  OBVIOUS
<1> DEFINE next == FrameDeadline(clockStart, frameNumber + 1)
<1>0. /\ Second \in Nat \ {0} /\ MaxTime \in Nat /\ MaxCatchUp \in Nat
      /\ now \in Nat /\ now <= MaxTime /\ clockStart \in 0 .. now
      /\ frameNumber \in Nat \ {0} /\ burst \in Nat /\ wake \in Nat
      /\ stage = "work" /\ stage' = "wait" /\ now' = now /\ burst' = burst /\ now >= wake
      /\ BurstBounded
  BY ClockAssumption
  DEF ClockAssumption, ClockInv, ClockTypeOK, EndFrame, BurstInv
<1>1. /\ next \in Nat
      /\ FrameDeadline(clockStart, frameNumber) < next
      /\ next <= FrameDeadline(clockStart, frameNumber) + Second
      /\ FrameDeadline(clockStart, frameNumber) <= wake
  <2>1. /\ next = clockStart + Share(frameNumber + 1)
        /\ FrameDeadline(clockStart, frameNumber) = clockStart + Share(frameNumber)
    BY DEF FrameDeadline, Share
  <2>2. /\ Share(frameNumber) \in Nat /\ Share(frameNumber + 1) \in Nat
        /\ Share(frameNumber + 1) > Share(frameNumber)
        /\ Share(frameNumber + 1) <= Share(frameNumber) + Second
    BY <1>0, ShareSteps
  <2> QED
    BY <1>0, <2>1, <2>2 DEF ClockInv
<1>2. BurstBounded'
  BY <1>0 DEF BurstBounded
<1>3. CASE FarBehind(next)
  <2>1. clockStart' = now /\ frameNumber' = 1 /\ wake' = Timer(FrameDeadline(now, 1))
    BY <1>3 DEF EndFrame
  <2>2. Share(0) = 0 /\ Share(1) \in Nat /\ Share(1) > 0 /\ Share(1) <= Second
    <3>1. Share(0) = 0
      BY ClockAssumption, Z3 DEF ClockAssumption, Share
    <3> QED
      BY <3>1, ShareSteps, <1>0
  <2>3. FrameDeadline(now, 1) = now + Share(1)
    BY DEF FrameDeadline, Share
  <2>4. wake' = now + Share(1) /\ FrameDeadline(clockStart', frameNumber') = now + Share(1)
    BY <1>0, <2>1, <2>2, <2>3 DEF Timer
  <2>5. wake' > now' /\ wake' <= MaxTime + Second
    BY <1>0, <2>2, <2>4
  <2>6. ClockTypeOK'
    BY <1>0, <2>1, <2>2, <2>4, <2>5 DEF ClockTypeOK
  <2>7. FrameDeadline(clockStart, frameNumber)' = FrameDeadline(clockStart', frameNumber')
    BY DEF FrameDeadline
  <2> QED
    BY <1>0, <1>2, <2>2, <2>4, <2>5, <2>6, <2>7 DEF ClockInv, BurstInv
<1>4. CASE ~FarBehind(next)
  <2>1. frameNumber' = frameNumber + 1 /\ wake' = Timer(next) /\ clockStart' = clockStart
    BY <1>4 DEF EndFrame, FarBehind
  <2>2. FrameDeadline(clockStart, frameNumber)' = next
    BY <2>1 DEF FrameDeadline
  <2>3. /\ next <= wake' /\ (wake' > next => wake' <= now)
        /\ wake' \in Nat /\ wake' <= MaxTime + Second
    <3>1. FrameDeadline(clockStart, frameNumber) \in Nat
      BY <1>0, ShareSteps DEF FrameDeadline, Share
    <3> HIDE DEF next
    <3>2. next <= MaxTime + Second
      BY <1>0, <1>1, <3>1
    <3> QED
      BY <1>0, <1>1, <2>1, <3>2 DEF Timer
  <2>4. ClockTypeOK'
    BY <1>0, <2>1, <2>3 DEF ClockTypeOK
  <2>5. burst' > 0 => frameNumber' >= burst' /\
        now' - FrameDeadline(clockStart', frameNumber' - burst' + 1) <= CatchUp
    <3>1. CASE burst = 1
      <4>1. frameNumber' - burst' + 1 = frameNumber + 1
        BY <1>0, <2>1, <3>1
      <4>2. now - next <= CatchUp
        <5>1. CatchUp \in Int
          BY <1>0, ClockAssumption, Quotient, SMT DEF CatchUp, ClockAssumption
        <5> QED
          BY <1>0, <1>1, <1>4, <5>1 DEF FarBehind, CatchUp
      <4> QED
        BY <1>0, <2>1, <3>1, <4>1, <4>2
    <3>2. CASE burst > 1
      <4>1. frameNumber' - burst' + 1 = frameNumber - burst + 2
        BY <1>0, <2>1
      <4> QED
        BY <1>0, <2>1, <3>2, <4>1 DEF ClockInv, BurstInv
    <3> QED
      BY <1>0, <3>1, <3>2
  <2>6. BurstInv'
    BY <1>0, <1>2, <2>5 DEF BurstInv, FrameDeadline, CatchUp
  <2> QED
    BY <1>0, <2>2, <2>3, <2>4, <2>6 DEF ClockInv
<1> QED
  BY <1>3, <1>4

LEMMA FrameBeginsInTime == ClockInv /\ BeginFrame => ClockInv'
<1> SUFFICES ASSUME ClockInv, BeginFrame PROVE ClockInv'
  OBVIOUS
<1>0. /\ Second \in Nat \ {0} /\ MaxTime \in Nat /\ MaxCatchUp \in Nat
      /\ now \in Nat /\ clockStart \in 0 .. now
      /\ frameNumber \in Nat \ {0} /\ burst \in Nat /\ wake \in Nat
      /\ stage = "wait" /\ stage' = "work" /\ burst' = burst + 1 /\ now >= wake
      /\ UNCHANGED <<now, clockStart, frameNumber, wake>>
  BY ClockAssumption DEF ClockAssumption, ClockInv, ClockTypeOK, BeginFrame
<1>1. ClockTypeOK'
  BY <1>0 DEF ClockInv, ClockTypeOK
<1>2. burst > 0 => /\ frameNumber' + 1 >= burst'
                   /\ frameNumber' - burst' + 2 = frameNumber - burst + 1
                   /\ now' - FrameDeadline(clockStart', frameNumber - burst + 1) <= CatchUp
  BY <1>0 DEF ClockInv, BurstInv
<1>3. BurstBounded'
  <2>1. CASE burst = 0
    BY <1>0, <2>1 DEF BurstBounded
  <2>2. CASE burst > 0
    <3> DEFINE b == frameNumber - burst + 1
    <3>1. b \in Nat
      BY <1>0, <1>2, <2>2
    <3>2. now - FrameDeadline(clockStart, b) <= CatchUp
      BY <1>0, <1>2, <2>2
    <3>3. FrameDeadline(clockStart, frameNumber) <= now
      <4>1. FrameDeadline(clockStart, frameNumber) \in Int
        BY <1>0, ShareSteps DEF FrameDeadline, Share
      <4> QED
        BY <1>0, <4>1 DEF ClockInv
    <3>4. /\ FrameDeadline(clockStart, frameNumber) = clockStart + Share(frameNumber)
          /\ FrameDeadline(clockStart, b) = clockStart + Share(b)
      BY DEF FrameDeadline, Share
    <3>5. Share(frameNumber) \in Nat /\ Share(b) \in Nat
      BY <1>0, <3>1, ShareSteps
    <3>6. CatchUp \in Int
      BY <1>0, ClockAssumption, Quotient, SMT DEF CatchUp, ClockAssumption
    <3> HIDE DEF b
    <3>7. Share(frameNumber) - Share(b) <= CatchUp
      BY <1>0, <3>2, <3>3, <3>4, <3>5, <3>6
    <3>8. frameNumber <= b + MaxCatchUp
      BY <1>0, <3>1, <3>7, CatchUpFrames DEF CatchUp
    <3> QED
      BY <1>0, <3>8 DEF BurstBounded, b
  <2> QED
    BY <1>0, <2>1, <2>2
<1>4. BurstInv'
  <2>1. (CatchUp' = CatchUp) /\ FrameDeadline(clockStart', frameNumber' - burst' + 2)
          = FrameDeadline(clockStart, frameNumber' - burst' + 2)
    BY <1>0 DEF CatchUp
  <2> QED
    BY <1>0, <1>2, <1>3, <2>1 DEF BurstInv, FrameDeadline, CatchUp
<1> QED
  BY <1>0, <1>1, <1>4 DEF ClockInv, FrameDeadline

LEMMA ClockKeeps == ClockInv /\ [ClockNext]_clockVars => ClockInv'
<1> SUFFICES ASSUME ClockInv, [ClockNext]_clockVars PROVE ClockInv'
  OBVIOUS
<1>1. CASE Tick
  <2>1. /\ now \in Nat /\ now' = now + 1 /\ now' <= MaxTime /\ burst' = 0 /\ wake \in Nat
        /\ UNCHANGED <<clockStart, frameNumber, stage, wake>>
        /\ MaxCatchUp \in Nat /\ MaxTime \in Nat /\ Second \in Nat
    BY <1>1, ClockAssumption DEF Tick, ClockInv, ClockTypeOK, ClockAssumption
  <2>2. ClockTypeOK'
    BY <2>1 DEF ClockInv, ClockTypeOK
  <2>3. BurstInv'
    BY <2>1 DEF BurstInv, BurstBounded
  <2>4. FrameDeadline(clockStart, frameNumber)' = FrameDeadline(clockStart, frameNumber)
    BY <2>1 DEF FrameDeadline
  <2> QED
    BY <2>1, <2>2, <2>3, <2>4 DEF ClockInv
<1>2. CASE BeginFrame
  BY <1>2, FrameBeginsInTime
<1>3. CASE EndFrame
  BY <1>3, FrameEndsInTime
<1>4. CASE Stop
  BY <1>4 DEF Stop, ClockInv, ClockTypeOK, BurstInv, BurstBounded, FrameDeadline, CatchUp
<1>5. CASE Stopped \/ UNCHANGED clockVars
  BY <1>5
  DEF Stopped, clockVars, ClockInv, ClockTypeOK, BurstInv, BurstBounded, FrameDeadline, CatchUp
<1> QED
  BY <1>1, <1>2, <1>3, <1>4, <1>5 DEF ClockNext

\* The daemon's frame loop (frameDeadline, frameWait, limitFrameClock) neither drifts nor
\* bursts, for every frame rate and catch-up limit and delays of any length.
THEOREM ClockKeepsBeat == ClockSpec => []ClockSound
<1>1. ClockInv => ClockSound
  BY BeatKept DEF ClockInv, BurstInv, ClockSound
<1> QED
  BY ClockStarts, ClockKeeps, <1>1, PTL DEF ClockSpec

-----------------------------------------------------------------------------
(* The frames among what was done to the machine.                          *)

Deed == Frame \union {Poked}

\* A poke is no frame.
LEMMA PokedIsNoFrame == Poked \notin Frame
<1> SUFFICES ASSUME Poked \in Frame PROVE FALSE
  OBVIOUS
<1>1. DOMAIN Poked = {"p1", "p2"}
  BY DEF Frame
<1>2. DOMAIN Poked = {"poked"}
  BY DEF Poked
<1> QED
  BY <1>1, <1>2

AddFrame == [frames \in Seq(Frame) |->
              [e \in Deed |-> IF e = Poked THEN frames ELSE Append(frames, e)]]

\* FramesOf collects, deed by deed.
LEMMA FramesFold ==
  ASSUME NEW done \in Seq(Deed)
  PROVE  \E upto : /\ upto \in [0 .. Len(done) -> Seq(Frame)]
                   /\ IsFold(upto, <<>>, AddFrame, done) /\ FramesOf(done) = upto[Len(done)]
<1> DEFINE body(f) == [n \in 0 .. Len(done) |->
                         IF n = 0 THEN <<>>
                         ELSE IF done[n] = Poked THEN f[n - 1] ELSE Append(f[n - 1], done[n])]
           chosen == CHOOSE f : f = body(f)
<1>1. AddFrame \in [Seq(Frame) -> [Deed -> Seq(Frame)]] /\ <<>> \in Seq(Frame)
  <2>1. ASSUME NEW frames \in Seq(Frame), NEW e \in Deed
        PROVE (IF e = Poked THEN frames ELSE Append(frames, e)) \in Seq(Frame)
    BY AppendProperties DEF Deed
  <2> QED
    BY <2>1 DEF AddFrame
<1>2. Len(done) \in Nat /\ \A n \in 1 .. Len(done) : done[n] \in Deed
  BY ElementOfSeq, LenProperties
<1>3. PICK upto \in [0 .. Len(done) -> Seq(Frame)] : IsFold(upto, <<>>, AddFrame, done)
  BY <1>1, FoldExists
<1>4. ASSUME NEW n \in 0 .. Len(done) PROVE upto[n] = body(upto)[n]
  <2>1. CASE n = 0
    BY <1>3, <2>1 DEF IsFold
  <2>2. CASE n # 0
    <3>1. n \in 1 .. Len(done) /\ n - 1 \in 0 .. Len(done)
      BY <1>2, <2>2
    <3>2. upto[n - 1] \in Seq(Frame)
      BY <1>3, <3>1
    <3>3. upto[n] = AddFrame[upto[n - 1]][done[n]]
      BY <1>3, <3>1 DEF IsFold
    <3>4. AddFrame[upto[n - 1]][done[n]] =
            IF done[n] = Poked THEN upto[n - 1] ELSE Append(upto[n - 1], done[n])
      BY <1>2, <3>1, <3>2 DEF AddFrame
    <3> QED
      BY <2>2, <3>3, <3>4
  <2> QED
    BY <2>1, <2>2
<1>5. upto = body(upto)
  BY <1>3, <1>4
<1>6. chosen = body(chosen)
  <2> HIDE DEF body
  <2> QED
    BY <1>5
<1>7. FramesOf(done) = chosen[Len(done)]
  BY DEF FramesOf
<1> HIDE DEF chosen
<1> DEFINE Bad == {n \in 0 .. Len(done) : chosen[n] # upto[n]}
<1>8. Bad = {}
  <2> SUFFICES ASSUME Bad # {} PROVE FALSE
    OBVIOUS
  <2>1. PICK n \in Bad : \A k \in Bad : n <= k
    <3>1. Bad \in SUBSET Nat
      OBVIOUS
    <3> HIDE DEF Bad
    <3> QED
      BY <3>1, LeastNumber
  <2>2. CASE n = 0
    BY <1>4, <1>6, <2>1, <2>2
  <2>3. CASE n # 0
    <3>1. n - 1 \in 0 .. Len(done) /\ n - 1 \notin Bad /\ n \in 0 .. Len(done)
      BY <2>1, <2>3
    <3>2. chosen[n - 1] = upto[n - 1]
      BY <3>1
    <3>3. chosen[n] = body(chosen)[n]
      BY <1>6, Zenon
    <3> QED
      BY <1>4, <2>1, <3>1, <3>2, <3>3
  <2> QED
    BY <2>2, <2>3
<1>9. upto[Len(done)] = chosen[Len(done)]
  <2>1. Len(done) \in 0 .. Len(done)
    BY <1>2
  <2> QED
    BY <1>8, <2>1
<1> QED
  BY <1>3, <1>7, <1>9

LEMMA FramesOfNone == FramesOf(<<>>) = <<>>
<1>1. <<>> \in Seq(Deed) /\ Len(<<>>) = 0
  BY EmptySeq
<1>2. PICK f : /\ f \in [0 .. Len(<<>>) -> Seq(Frame)]
              /\ IsFold(f, <<>>, AddFrame, <<>>) /\ FramesOf(<<>>) = f[Len(<<>>)]
  BY <1>1, FramesFold
<1> QED
  BY <1>1, <1>2 DEF IsFold

\* One more deed: a frame is collected, a poke is not.
LEMMA FramesOfAppend ==
  ASSUME NEW done \in Seq(Deed), NEW e \in Deed
  PROVE  /\ FramesOf(done) \in Seq(Frame)
         /\ e = Poked => FramesOf(Append(done, e)) = FramesOf(done)
         /\ e \in Frame => FramesOf(Append(done, e)) = Append(FramesOf(done), e)
<1> DEFINE t == Append(done, e)
<1>1. /\ t \in Seq(Deed) /\ Len(done) \in Nat /\ Len(t) = Len(done) + 1 /\ t[Len(done) + 1] = e
      /\ \A i \in 1 .. Len(done) : done[i] = t[i]
  BY AppendProperties
<1> HIDE DEF t
<1>2. PICK f : /\ f \in [0 .. Len(done) -> Seq(Frame)]
              /\ IsFold(f, <<>>, AddFrame, done) /\ FramesOf(done) = f[Len(done)]
  BY FramesFold
<1>3. PICK g : /\ g \in [0 .. Len(t) -> Seq(Frame)]
              /\ IsFold(g, <<>>, AddFrame, t) /\ FramesOf(t) = g[Len(t)]
  BY <1>1, FramesFold
<1>4. f[Len(done)] = g[Len(done)]
  <2>1. \A i \in 0 .. Len(done) : f[i] = g[i]
    <3>1. Len(done) <= Len(done) /\ Len(done) <= Len(t) /\ Len(t) \in Nat
      BY <1>1
    <3>2. IsFold(f, <<>>, AddFrame, done) /\ IsFold(g, <<>>, AddFrame, t)
      BY <1>2, <1>3
    <3>3. Len(done) \in Nat /\ \A i \in 1 .. Len(done) : done[i] = t[i]
      BY <1>1
    <3> QED
      BY <3>1, <3>2, <3>3, FoldsAgree
  <2> QED
    BY <1>1, <2>1
<1>5. g[Len(t)] = AddFrame[g[Len(done)]][e]
  <2>1. Len(t) \in 1 .. Len(t) /\ Len(t) - 1 = Len(done) /\ t[Len(t)] = e
    BY <1>1
  <2> QED
    BY <1>3, <2>1 DEF IsFold
<1>6. f[Len(done)] \in Seq(Frame) /\ g[Len(done)] = f[Len(done)]
  <2>1. Len(done) \in 0 .. Len(done)
    BY <1>1
  <2> QED
    BY <1>2, <1>4, <2>1
<1>7. g[Len(t)] = IF e = Poked THEN FramesOf(done) ELSE Append(FramesOf(done), e)
  BY <1>2, <1>5, <1>6 DEF AddFrame
<1>8. e \in Frame => e # Poked
  BY PokedIsNoFrame
<1> QED
  BY <1>2, <1>3, <1>6, <1>7, <1>8 DEF t

-----------------------------------------------------------------------------
(* A replay.                                                               *)

\* One more element of a beginning.
LEMMA BeginningGrows ==
  ASSUME NEW S, NEW r \in Seq(S), NEW c \in Nat, c < Len(r)
  PROVE  /\ c + 1 \in 0 .. Len(r) /\ r[c + 1] \in S /\ SubSeq(r, 1, c) \in Seq(S)
         /\ SubSeq(r, 1, c + 1) = Append(SubSeq(r, 1, c), r[c + 1])
<1>1. Len(r) \in Nat /\ c + 1 \in 1 .. Len(r) /\ 1 \in 1 .. Len(r) /\ c + 1 \in 1 .. Len(r)
  BY LenProperties
<1>2. r[c + 1] \in S
  BY <1>1, ElementOfSeq
<1>3. SubSeq(r, 1, c) \in Seq(S)
  <2>1. \A i \in 1 .. c : r[i] \in S
    BY <1>1, ElementOfSeq
  <2> QED
    BY <2>1, SubSeqProperties
<1>4. SubSeq(r, 1, c + 1) = SubSeq(r, 1, (c + 1) - 1) \o <<r[c + 1]>>
  BY <1>1, SubSeqRecursiveSecond
<1>5. (c + 1) - 1 = c
  OBVIOUS
<1>6. Append(SubSeq(r, 1, c), r[c + 1]) = SubSeq(r, 1, c) \o <<r[c + 1]>>
  BY <1>2, <1>3, AppendIsConcat
<1> QED
  BY <1>1, <1>2, <1>3, <1>4, <1>5, <1>6

\* What begins a sequence begins a longer one.
LEMMA BeginningStays ==
  ASSUME NEW S, NEW r \in Seq(S), NEW e \in S, NEW c \in 0 .. Len(r)
  PROVE  SubSeq(Append(r, e), 1, c) = SubSeq(r, 1, c)
<1>1. /\ Append(r, e) \in Seq(S) /\ Len(Append(r, e)) = Len(r) + 1 /\ Len(r) \in Nat
      /\ \A i \in 1 .. Len(r) : Append(r, e)[i] = r[i]
  BY AppendProperties, LenProperties
<1> DEFINE t == Append(r, e)
<1>2. c \in Int /\ \A i \in 1 .. c : t[i] \in S /\ r[i] \in S /\ t[i] = r[i]
  BY <1>1, ElementOfSeq
<1> HIDE DEF t
<1>3. /\ SubSeq(t, 1, c) \in Seq(S) /\ SubSeq(r, 1, c) \in Seq(S)
      /\ Len(SubSeq(t, 1, c)) = Len(SubSeq(r, 1, c))
      /\ Len(SubSeq(t, 1, c)) = c
      /\ \A i \in 1 .. c - 1 + 1 : SubSeq(t, 1, c)[i] = t[1 + i - 1]
      /\ \A i \in 1 .. c - 1 + 1 : SubSeq(r, 1, c)[i] = r[1 + i - 1]
  <2>1. \A i \in 1 .. c : t[i] \in S
    BY <1>2
  <2>2. \A i \in 1 .. c : r[i] \in S
    BY <1>2
  <2>3. c \in 0 .. Len(r) /\ Len(r) \in Nat
    BY <1>1
  <2> QED
    BY <1>2, <2>1, <2>2, <2>3, SubSeqProperties
<1>4. \A i \in 1 .. Len(SubSeq(t, 1, c)) : SubSeq(t, 1, c)[i] = SubSeq(r, 1, c)[i]
  BY <1>2, <1>3
<1>5. SubSeq(t, 1, c) = SubSeq(r, 1, c)
  BY <1>3, <1>4, SeqEqual
<1> QED
  BY <1>5 DEF t

\* What is between the replay r, the frames f run since it was injected and the cursor.
Followed(r, f, cur, out) ==
  /\ cur = IF Len(f) < Len(r) THEN Len(f) ELSE Len(r)
  /\ SubSeq(f, 1, cur) = out

LEMMA Follows ==
  ASSUME NEW r \in Seq(Frame), NEW f \in Seq(Frame), NEW cur \in 0 .. Len(r), NEW x \in Frame,
         Followed(r, f, cur, SubSeq(r, 1, cur)), cur < Len(r) => x = r[cur + 1]
  PROVE  /\ cur < Len(r) => Followed(r, Append(f, x), cur + 1, SubSeq(r, 1, cur + 1))
         /\ ~(cur < Len(r)) => Followed(r, Append(f, x), cur, SubSeq(r, 1, cur))
<1>1. Len(r) \in Nat /\ Len(f) \in Nat /\ Len(Append(f, x)) = Len(f) + 1 /\ cur \in Nat
  BY AppendProperties, LenProperties
<1>2. ASSUME cur < Len(r)
      PROVE  Followed(r, Append(f, x), cur + 1, SubSeq(r, 1, cur + 1))
  <2>1. cur = Len(f) /\ cur + 1 = IF Len(f) + 1 < Len(r) THEN Len(f) + 1 ELSE Len(r)
    BY <1>1, <1>2 DEF Followed
  <2>2. SubSeq(Append(f, x), 1, Len(f) + 1) = Append(f, x)
    BY <1>1, AppendProperties, SubSeqFull
  <2>3. SubSeq(f, 1, Len(f)) = f
    BY SubSeqFull
  <2>4. f = SubSeq(r, 1, cur)
    BY <2>1, <2>3 DEF Followed
  <2>5. SubSeq(r, 1, cur + 1) = Append(SubSeq(r, 1, cur), r[cur + 1])
    BY <1>1, <1>2, BeginningGrows
  <2>6. SubSeq(r, 1, cur + 1) = Append(f, x)
    BY <1>2, <2>4, <2>5
  <2> QED
    BY <1>1, <2>1, <2>2, <2>6 DEF Followed
<1>3. ASSUME ~(cur < Len(r)) PROVE Followed(r, Append(f, x), cur, SubSeq(r, 1, cur))
  <2>1. cur = Len(r) /\ cur \in 0 .. Len(f) /\ ~(Len(f) + 1 < Len(r))
    BY <1>1, <1>3 DEF Followed
  <2>2. SubSeq(Append(f, x), 1, cur) = SubSeq(f, 1, cur)
    BY <2>1, BeginningStays
  <2> QED
    BY <1>1, <2>1, <2>2 DEF Followed
<1> QED
  BY <1>2, <1>3

\* What a step does to the replay and to what was run.
LEMMA ReplaySteps ==
  ASSUME [ConsoleNext]_consoleVars
  PROVE  \/ UNCHANGED <<ran, replay, cursor, given, injected>>
         \/ injected' = FALSE /\ UNCHANGED <<replay, cursor, given>>
         \/ \E r \in Replays : LoadFM2Content(r)
         \/ ran' = Append(ran, Poked) /\ UNCHANGED <<replay, cursor, given, injected>>
         \/ TakeInput /\ ran' = Append(ran, Input) /\ UNCHANGED <<replay, injected>>
<1>1. CASE UNCHANGED consoleVars
  BY <1>1 DEF consoleVars, machineVars
<1>2. CASE ResetConsole \/ \E rom \in ROMs : LoadROMContent(rom)
  BY <1>2 DEF ResetConsole, LoadROMContent
<1>3. CASE \E r \in Replays : LoadFM2Content(r)
  BY <1>3
<1>4. CASE \E p \in BOOLEAN : SetPaused(p)
  BY <1>4 DEF SetPaused, machineVars
<1>5. CASE \E player \in {"p1", "p2"}, b \in Buttons : SetController(player, b)
  BY <1>5 DEF SetController
<1>6. CASE PokeRAM
  BY <1>6 DEF PokeRAM
<1>7. CASE StepFrame
  BY <1>7 DEF StepFrame, RunFrame, RunFailingFrame, RunPaused
<1>8. CASE SnapshotFrame \/ SnapshotAudio \/ WriteFrames
  BY <1>8 DEF SnapshotFrame, SnapshotAudio, WriteFrames, machineVars
<1>9. CASE \E request \in Requests : SimulateInputSequences(request)
  BY <1>9 DEF SimulateInputSequences, machineVars
<1>10. CASE StartSequence \/ SimulateFrame \/ EndSequence \/ Respond
  BY <1>10 DEF StartSequence, SimulateFrame, EndSequence, Respond, machineVars
<1> QED
  BY <1>1, <1>2, <1>3, <1>4, <1>5, <1>6, <1>7, <1>8, <1>9, <1>10 DEF ConsoleNext

LEMMA ReplayIsSeq ==
  ASSUME replay \in Replays \union {<<>>} PROVE replay \in Seq(Frame)
<1>1. <<>> \in Seq(Frame)
  BY EmptySeq
<1> QED
  BY <1>1, ConsoleAssumption DEF ConsoleAssumption

LEMMA InputIsFrame ==
  ASSUME ConsoleTypeOK
  PROVE  /\ Input \in Frame /\ Input \in Deed /\ Poked \in Deed
         /\ ran \in Seq(Deed) /\ replay \in Seq(Frame)
<1>1. replay \in Seq(Frame)
  BY ReplayIsSeq DEF ConsoleTypeOK
<1>2. Playing => replay[cursor + 1] \in Frame
  <2> SUFFICES ASSUME Playing PROVE replay[cursor + 1] \in Frame
    OBVIOUS
  <2>1. cursor + 1 \in 1 .. Len(replay)
    BY <1>1, LenProperties DEF Playing, ConsoleTypeOK
  <2> QED
    BY <1>1, <2>1, ElementOfSeq
<1> QED
  BY <1>1, <1>2 DEF ConsoleTypeOK, Input, Deed

LEMMA BoundsAreNumbers == MaxSteps \in Nat /\ MaxCalls \in Nat /\ FramesPerInput \in Nat \ {0}
BY ConsoleAssumption DEF ConsoleAssumption

\* The types of what ResetLocked sets and of what a frame changes.
LEMMA ConsoleTypesStep == ConsoleTypeOK /\ [ConsoleNext]_consoleVars => ConsoleTypeOK'
<1> SUFFICES ASSUME ConsoleTypeOK, [ConsoleNext]_consoleVars PROVE ConsoleTypeOK'
  OBVIOUS
<1> USE DEF ConsoleTypeOK, Deed
<1>a. Idle \in Frame /\ Len(<<>>) = 0 /\ <<>> \in Seq(Deed) /\ steps \in Nat
  BY ConsoleAssumption, EmptySeq DEF ConsoleAssumption, Idle, Frame
<1>b. ASSUME ResetLocked
      PROVE  /\ ran' \in Seq(Deed) /\ frameCount' \in 0 .. Len(ran') /\ controller' \in Frame
             /\ lastFrame' \in [by : {"frame", "reset"}, step : 0 .. steps']
             /\ pastVBlank' \in BOOLEAN /\ UNCHANGED <<paused, audioSamples, steps, failed>>
  <2>1. /\ ran' = <<>> /\ frameCount' = 0 /\ controller' = Idle
        /\ lastFrame' = [by |-> "reset", step |-> steps] /\ pastVBlank' = FALSE
        /\ UNCHANGED <<paused, audioSamples, steps, failed>>
    BY <1>b DEF ResetLocked
  <2>2. lastFrame' \in [by : {"frame", "reset"}, step : 0 .. steps']
    <3>1. steps \in 0 .. steps /\ steps' = steps
      BY <1>a, <2>1
    <3> QED
      BY <2>1, <3>1
  <2>3. ran' \in Seq(Deed) /\ frameCount' \in 0 .. Len(ran') /\ controller' \in Frame
    BY <1>a, <2>1
  <2> QED
    BY <2>1, <2>2, <2>3
<1>c. Call => calls' \in 0 .. MaxCalls
  BY BoundsAreNumbers DEF Call
<1>1. CASE UNCHANGED consoleVars
  BY <1>1 DEF consoleVars, machineVars, outputVars
<1>2. CASE ResetConsole \/ \E rom \in ROMs : LoadROMContent(rom)
  BY <1>2, <1>b, <1>c DEF ResetConsole, LoadROMContent
<1>3. CASE \E r \in Replays : LoadFM2Content(r)
  <2> PICK r \in Replays : LoadFM2Content(r)
    BY <1>3
  <2>1. 0 \in 0 .. Len(r)
    BY ConsoleAssumption, LenProperties DEF ConsoleAssumption
  <2> QED
    BY <1>b, <1>c, <2>1 DEF LoadFM2Content
<1>4. CASE \E p \in BOOLEAN : SetPaused(p)
  BY <1>4 DEF SetPaused, machineVars, outputVars
<1>5. CASE \E player \in {"p1", "p2"}, b \in Buttons : SetController(player, b)
  BY <1>5, <1>c DEF SetController, outputVars, Frame
<1>6. CASE PokeRAM
  <2>1. Append(ran, Poked) \in Seq(Deed) /\ Len(Append(ran, Poked)) = Len(ran) + 1
        /\ Len(ran) \in Nat
    BY InputIsFrame, AppendProperties, LenProperties
  <2> QED
    BY <1>6, <1>c, <2>1 DEF PokeRAM, outputVars
<1>7. CASE StepFrame
  <2>1. /\ Append(ran, Input) \in Seq(Deed) /\ Len(Append(ran, Input)) = Len(ran) + 1
        /\ Len(ran) \in Nat /\ Input \in Frame
    BY InputIsFrame, AppendProperties, LenProperties
  <2>2. CASE RunPaused
    BY <1>7, <2>2 DEF StepFrame, RunPaused, outputVars
  <2>3. ASSUME TakeInput, UNCHANGED replay
        PROVE  controller' \in Frame /\ cursor' \in 0 .. Len(replay')
    <3>1. Len(replay) \in Nat
      BY InputIsFrame, LenProperties
    <3> QED
      BY <2>1, <2>3, <3>1 DEF TakeInput, Playing
  <2>4. ASSUME steps < MaxSteps, steps' = steps + 1, audioSamples' = steps + 1,
               NEW reached \in BOOLEAN, lastFrame' = Picture(reached),
               failed' \subseteq failed \union {steps + 1}
        PROVE  /\ steps' \in 0 .. MaxSteps /\ audioSamples' \in 0 .. steps'
               /\ lastFrame' \in [by : {"frame", "reset"}, step : 0 .. steps']
               /\ failed' \subseteq 1 .. steps'
    <3>1. steps' \in 0 .. MaxSteps /\ \A n \in 0 .. steps : n \in 0 .. steps'
      BY <1>a, <2>4, BoundsAreNumbers
    <3>2. lastFrame \in [by : {"frame", "reset"}, step : 0 .. steps']
      BY <3>1
    <3>3. [by |-> "frame", step |-> steps + 1] \in [by : {"frame", "reset"}, step : 0 .. steps']
      BY <1>a, <2>4
    <3>4. failed' \subseteq 1 .. steps' /\ audioSamples' \in 0 .. steps'
      BY <1>a, <2>4
    <3> QED
      BY <2>4, <3>1, <3>2, <3>3, <3>4 DEF Picture
  <2>5. CASE RunFrame
    <3>1. ran' \in Seq(Deed) /\ frameCount' \in 0 .. Len(ran')
      BY <2>1, <2>5 DEF RunFrame
    <3>2. /\ steps' \in 0 .. MaxSteps /\ audioSamples' \in 0 .. steps'
          /\ lastFrame' \in [by : {"frame", "reset"}, step : 0 .. steps']
          /\ failed' \subseteq 1 .. steps'
      BY <2>4, <2>5 DEF RunFrame
    <3> QED
      BY <1>7, <2>3, <2>5, <3>1, <3>2 DEF RunFrame, StepFrame
  <2>6. CASE RunFailingFrame
    <3>1. ran' \in Seq(Deed) /\ frameCount' \in 0 .. Len(ran') /\ pastVBlank' \in BOOLEAN
      <4>1. ran' = Append(ran, Input) /\ frameCount' = frameCount /\ pastVBlank' \in BOOLEAN
        BY <2>6 DEF RunFailingFrame
      <4> QED
        BY <2>1, <4>1
    <3>2. /\ steps' \in 0 .. MaxSteps /\ audioSamples' \in 0 .. steps'
          /\ lastFrame' \in [by : {"frame", "reset"}, step : 0 .. steps']
          /\ failed' \subseteq 1 .. steps'
      BY <2>4, <2>6, <3>1 DEF RunFailingFrame
    <3> QED
      BY <1>7, <2>3, <2>6, <3>1, <3>2 DEF RunFailingFrame, StepFrame
  <2> QED
    BY <1>7, <2>2, <2>5, <2>6 DEF StepFrame
<1>8. CASE SnapshotFrame \/ SnapshotAudio \/ WriteFrames
  BY <1>8 DEF SnapshotFrame, SnapshotAudio, WriteFrames, machineVars, outputVars
<1>9. CASE \E request \in Requests : SimulateInputSequences(request)
  BY <1>9, <1>c DEF SimulateInputSequences, machineVars, outputVars
<1>10. CASE StartSequence \/ SimulateFrame \/ EndSequence \/ Respond
  BY <1>10 DEF StartSequence, SimulateFrame, EndSequence, Respond, machineVars, outputVars
<1> QED
  BY <1>1, <1>2, <1>3, <1>4, <1>5, <1>6, <1>7, <1>8, <1>9, <1>10 DEF ConsoleNext

LEMMA ReplayKeeps == ReplayFaithful /\ [ConsoleNext]_consoleVars => ReplayFaithful'
<1> SUFFICES ASSUME ReplayFaithful, [ConsoleNext]_consoleVars PROVE ReplayFaithful'
  OBVIOUS
<1>1. ConsoleTypeOK /\ ConsoleTypeOK'
  BY ConsoleTypesStep DEF ReplayFaithful
<1>2. /\ ran \in Seq(Deed) /\ replay \in Seq(Frame) /\ Input \in Frame
      /\ Input \in Deed /\ Poked \in Deed /\ cursor \in 0 .. Len(replay)
  BY <1>1, InputIsFrame DEF ConsoleTypeOK
<1>3. FramesOf(ran) \in Seq(Frame) /\ FramesOf(Append(ran, Poked)) = FramesOf(ran)
  BY <1>2, FramesOfAppend
<1>4. FramesOf(Append(ran, Input)) = Append(FramesOf(ran), Input)
  BY <1>2, FramesOfAppend
<1>5. /\ given = SubSeq(replay, 1, cursor)
      /\ injected => Followed(replay, FramesOf(ran), cursor, given)
  BY DEF ReplayFaithful, Followed
<1>6. SUFFICES /\ given' = SubSeq(replay', 1, cursor')
               /\ injected' => Followed(replay', FramesOf(ran'), cursor', given')
  BY <1>1 DEF ReplayFaithful, Followed
<1>7. CASE UNCHANGED <<ran, replay, cursor, given, injected>>
  BY <1>5, <1>7
<1>8. CASE injected' = FALSE /\ UNCHANGED <<replay, cursor, given>>
  BY <1>5, <1>8
<1>9. CASE \E r \in Replays : LoadFM2Content(r)
  <2> PICK r \in Replays : LoadFM2Content(r)
    BY <1>9
  <2>1. /\ ran' = <<>> /\ replay' = r /\ cursor' = 0 /\ given' = <<>>
    BY DEF LoadFM2Content, ResetLocked
  <2>2. SubSeq(r, 1, 0) = <<>> /\ SubSeq(<<>>, 1, 0) = <<>>
    BY SubSeqEmpty
  <2>3. r \in Seq(Frame) /\ r # <<>> /\ Len(r) \in Nat \ {0} /\ Len(<<>>) = 0
    BY ConsoleAssumption, EmptySeq DEF ConsoleAssumption
  <2>4. Followed(r, <<>>, 0, <<>>)
    BY <2>2, <2>3 DEF Followed
  <2> QED
    BY <2>1, <2>2, <2>4, FramesOfNone
<1>10. CASE ran' = Append(ran, Poked) /\ UNCHANGED <<replay, cursor, given, injected>>
  BY <1>3, <1>5, <1>10
<1>11. CASE TakeInput /\ ran' = Append(ran, Input) /\ UNCHANGED <<replay, injected>>
  <2>1. Playing <=> cursor < Len(replay)
    BY DEF Playing
  <2>2. cursor < Len(replay) => Input = replay[cursor + 1]
    BY DEF Playing, Input
  <2>3. injected =>
          /\ cursor < Len(replay) =>
               Followed(replay, Append(FramesOf(ran), Input), cursor + 1,
                        SubSeq(replay, 1, cursor + 1))
          /\ ~(cursor < Len(replay)) =>
               Followed(replay, Append(FramesOf(ran), Input), cursor, SubSeq(replay, 1, cursor))
    BY <1>2, <1>3, <1>5, <2>2, Follows
  <2>4. CASE Playing
    <3>1. cursor' = cursor + 1 /\ given' = Append(given, replay[cursor + 1])
      BY <1>11, <2>4 DEF TakeInput
    <3>2. given' = SubSeq(replay, 1, cursor + 1)
      BY <1>2, <1>5, <2>1, <2>4, <3>1, BeginningGrows
    <3> QED
      BY <1>4, <1>11, <2>1, <2>3, <2>4, <3>1, <3>2
  <2>5. CASE ~Playing
    <3>1. cursor' = cursor /\ given' = given
      BY <1>11, <2>5 DEF TakeInput
    <3> QED
      BY <1>4, <1>5, <1>11, <2>1, <2>3, <2>5, <3>1
  <2> QED
    BY <2>4, <2>5
<1> QED
  BY <1>7, <1>8, <1>9, <1>10, <1>11, ReplaySteps

\* A replay plays whole: takeInput hands out its inputs once and in order over pauses, errors,
\* resets and loads, and until the next reset or load they are all the machine is given.
THEOREM ReplayIsFaithful == ConsoleSpec => []ReplayFaithful
<1>1. ConsoleInit => ReplayFaithful
  <2> SUFFICES ASSUME ConsoleInit PROVE ReplayFaithful
    OBVIOUS
  <2>1. Len(<<>>) = 0 /\ <<>> \in Seq(Frame \union {Poked}) /\ SubSeq(<<>>, 1, 0) = <<>>
    BY EmptySeq, SubSeqEmpty
  <2>2. Idle \in Frame
    BY ConsoleAssumption DEF ConsoleAssumption, Idle, Frame
  <2>3. ConsoleTypeOK
    <3>1. /\ cart = NoCart /\ worn = FALSE /\ ran = <<>> /\ frameCount = 0 /\ paused = FALSE
          /\ replay = <<>> /\ cursor = 0 /\ controller = Idle
          /\ lastFrame = [by |-> "reset", step |-> 0]
          /\ audioSamples = 0 /\ steps = 0 /\ calls = 0 /\ pastVBlank = FALSE /\ failed = {}
      BY DEF ConsoleInit
    <3>2. lastFrame \in [by : {"frame", "reset"}, step : 0 .. steps]
      BY <3>1
    <3>3. ran \in Seq(Frame \union {Poked}) /\ Len(ran) = 0 /\ Len(replay) = 0
      BY <2>1, <3>1
    <3>4. /\ frameCount \in 0 .. Len(ran) /\ cursor \in 0 .. Len(replay)
          /\ steps \in 0 .. MaxSteps /\ calls \in 0 .. MaxCalls /\ audioSamples \in 0 .. steps
      BY <3>1, <3>3, BoundsAreNumbers
    <3>5. cart \in ROMs \union {NoCart} /\ worn \in BOOLEAN /\ paused \in BOOLEAN
          /\ replay \in Replays \union {<<>>} /\ controller \in Frame
          /\ pastVBlank \in BOOLEAN /\ failed \subseteq 1 .. steps
      BY <2>2, <3>1
    <3> QED
      BY <3>2, <3>3, <3>4, <3>5 DEF ConsoleTypeOK
  <2>4. replay = <<>> /\ cursor = 0 /\ given = <<>> /\ injected = FALSE
    BY DEF ConsoleInit
  <2> QED
    BY <2>1, <2>3, <2>4 DEF ReplayFaithful
<1> QED
  BY <1>1, ReplayKeeps, PTL DEF ConsoleSpec

-----------------------------------------------------------------------------
(* A simulation.                                                           *)

Base == [ran : Seq(Deed), paused : BOOLEAN, p2 : Buttons, cart : ROMs \union {NoCart}]

Simulation ==
  [at : {"sequence", "run", "done"}, request : Seq(Seq(Buttons)), results : Seq(Seq(Deed)),
   ran : Seq(Deed), base : Base, stopped : SUBSET Nat]

\* The frame f of a sequence, and the first k of them on a base.
FrameOf(base, inputs, f) == [p1 |-> inputs[1 + (f - 1) \div FramesPerInput], p2 |-> base.p2]
RunOf(base, inputs, k) == base.ran \o [f \in 1 .. k |-> FrameOf(base, inputs, f)]

\* The frames of a sequence, on a copy that runs.
FramesIn(inputs) == FramesPerInput * Len(inputs)
Whole(base, inputs) == IF base.paused THEN 0 ELSE FramesIn(inputs)

LEMMA FramesInType == ASSUME NEW inputs \in Seq(Buttons) PROVE FramesIn(inputs) \in Nat
<1>1. Len(inputs) \in Nat /\ FramesPerInput \in Nat
  BY ConsoleAssumption, LenProperties DEF ConsoleAssumption
<1> QED
  BY <1>1, SMT DEF FramesIn

\* Every frame of a sequence has an input.
LEMMA FrameHasInput ==
  ASSUME NEW base \in Base, NEW inputs \in Seq(Buttons), NEW f \in 1 .. FramesIn(inputs)
  PROVE  FrameOf(base, inputs, f) \in Frame
<1> DEFINE q == (f - 1) \div FramesPerInput
<1>1. FramesPerInput \in Nat \ {0} /\ Len(inputs) \in Nat /\ f - 1 \in Int /\ f - 1 >= 0
  <2>1. FramesIn(inputs) \in Nat
    BY FramesInType
  <2> QED
    BY <2>1, ConsoleAssumption, LenProperties DEF ConsoleAssumption
<1>2. /\ q \in Int /\ q >= 0 /\ q * FramesPerInput <= f - 1
  BY <1>1, Quotient
<1> HIDE DEF q
<1>3. q * FramesPerInput < Len(inputs) * FramesPerInput
  <2>1. f - 1 < FramesIn(inputs) /\ FramesIn(inputs) \in Int
    BY FramesInType
  <2>2. FramesIn(inputs) = Len(inputs) * FramesPerInput
    BY <1>1, SMT DEF FramesIn
  <2> DEFINE a == q * FramesPerInput
             b == Len(inputs) * FramesPerInput
  <2>3. a <= f - 1 /\ b = FramesIn(inputs) /\ a \in Int
    BY <1>1, <1>2, <2>2
  <2> HIDE DEF a, b
  <2>4. a < b
    BY <2>1, <2>3, <1>1
  <2> QED
    BY <2>4 DEF a, b
<1>4. q < Len(inputs)
  BY <1>1, <1>2, <1>3, ScalesBack
<1>5. 1 + q \in 1 .. Len(inputs)
  BY <1>1, <1>2, <1>4
<1>6. inputs[1 + q] \in Buttons
  BY <1>5, ElementOfSeq
<1> QED
  BY <1>6 DEF FrameOf, Frame, Base, q

LEMMA RunType ==
  ASSUME NEW base \in Base, NEW inputs \in Seq(Buttons), NEW k \in 0 .. FramesIn(inputs)
  PROVE  /\ RunOf(base, inputs, k) \in Seq(Deed)
         /\ Len(RunOf(base, inputs, k)) = Len(base.ran) + k /\ Len(base.ran) \in Nat
         /\ \A i \in 1 .. Len(base.ran) + k :
              RunOf(base, inputs, k)[i] =
                IF i <= Len(base.ran) THEN base.ran[i] ELSE FrameOf(base, inputs, i - Len(base.ran))
<1> DEFINE tail == [f \in 1 .. k |-> FrameOf(base, inputs, f)]
<1>0. FramesIn(inputs) \in Nat
  BY FramesInType
<1>1. \A f \in 1 .. k : FrameOf(base, inputs, f) \in Deed
  BY <1>0, FrameHasInput DEF Deed
<1>2. tail \in Seq(Deed) /\ Len(tail) = k /\ \A f \in 1 .. k : tail[f] = FrameOf(base, inputs, f)
  BY <1>0, <1>1
<1>3. base.ran \in Seq(Deed) /\ Len(base.ran) \in Nat
  BY LenProperties DEF Base
<1> HIDE DEF tail
<1>4. /\ base.ran \o tail \in Seq(Deed) /\ Len(base.ran \o tail) = Len(base.ran) + Len(tail)
      /\ \A i \in 1 .. Len(base.ran) + Len(tail) :
           (base.ran \o tail)[i] =
             IF i <= Len(base.ran) THEN base.ran[i] ELSE tail[i - Len(base.ran)]
  BY <1>2, <1>3, ConcatProperties
<1>5. RunOf(base, inputs, k) = base.ran \o tail
  BY DEF RunOf, tail
<1>6. ASSUME NEW i \in 1 .. Len(base.ran) + k, ~(i <= Len(base.ran))
      PROVE  tail[i - Len(base.ran)] = FrameOf(base, inputs, i - Len(base.ran))
  <2>1. i - Len(base.ran) \in 1 .. k
    BY <1>0, <1>3, <1>6
  <2> QED
    BY <1>2, <2>1
<1> QED
  BY <1>2, <1>3, <1>4, <1>5, <1>6

LEMMA RunStarts == ASSUME NEW base \in Base, NEW inputs PROVE RunOf(base, inputs, 0) = base.ran
<1>1. [f \in 1 .. 0 |-> FrameOf(base, inputs, f)] = <<>>
  OBVIOUS
<1>2. base.ran \in Seq(Deed)
  BY DEF Base
<1> QED
  BY <1>1, <1>2, ConcatEmptySeq DEF RunOf

LEMMA RunGrows ==
  ASSUME NEW base \in Base, NEW inputs \in Seq(Buttons), NEW k \in Nat, k < FramesIn(inputs)
  PROVE  Append(RunOf(base, inputs, k), FrameOf(base, inputs, k + 1)) = RunOf(base, inputs, k + 1)
<1> DEFINE r == RunOf(base, inputs, k)
           t == RunOf(base, inputs, k + 1)
           e == FrameOf(base, inputs, k + 1)
           n == Len(base.ran)
<1>1. /\ k \in 0 .. FramesIn(inputs) /\ k + 1 \in 0 .. FramesIn(inputs)
      /\ k + 1 \in 1 .. FramesIn(inputs)
  BY FramesInType
<1>2. /\ r \in Seq(Deed) /\ Len(r) = n + k /\ n \in Nat
      /\ \A i \in 1 .. n + k : r[i] = IF i <= n THEN base.ran[i] ELSE FrameOf(base, inputs, i - n)
  BY <1>1, RunType
<1>3. /\ t \in Seq(Deed) /\ Len(t) = n + (k + 1)
      /\ \A i \in 1 .. n + (k + 1) :
           t[i] = IF i <= n THEN base.ran[i] ELSE FrameOf(base, inputs, i - n)
  BY <1>1, RunType
<1>4. e \in Deed
  BY <1>1, FrameHasInput DEF Deed
<1> HIDE DEF r, t, n
<1>5. /\ Append(r, e) \in Seq(Deed) /\ Len(Append(r, e)) = Len(r) + 1
      /\ \A i \in 1 .. Len(r) : Append(r, e)[i] = r[i]
      /\ Append(r, e)[Len(r) + 1] = e
  BY <1>2, <1>4, AppendProperties
<1>6. ASSUME NEW i \in 1 .. Len(Append(r, e)) PROVE Append(r, e)[i] = t[i]
  <2>1. CASE i = n + (k + 1)
    <3>1. i = Len(r) + 1 /\ i \in 1 .. n + (k + 1) /\ ~(i <= n) /\ i - n = k + 1
      BY <1>2, <2>1
    <3> QED
      BY <1>3, <1>5, <3>1
  <2>2. CASE i # n + (k + 1)
    <3>1. i \in 1 .. n + k /\ i \in 1 .. n + (k + 1) /\ i \in 1 .. Len(r)
      BY <1>2, <1>5, <2>2
    <3> QED
      BY <1>2, <1>3, <1>5, <3>1
  <2> QED
    BY <2>1, <2>2
<1>7. Len(Append(r, e)) = Len(t)
  BY <1>2, <1>3, <1>5
<1>8. Append(r, e) = t
  BY <1>3, <1>5, <1>6, <1>7, SeqEqual
<1> QED
  BY <1>8 DEF r, t

LEMMA RunBegins ==
  ASSUME NEW base \in Base, NEW inputs \in Seq(Buttons), NEW k \in Nat, NEW j \in Nat,
         k <= j, j <= FramesIn(inputs)
  PROVE  IsPrefix(RunOf(base, inputs, k), RunOf(base, inputs, j))
<1> DEFINE r == RunOf(base, inputs, k)
           t == RunOf(base, inputs, j)
           n == Len(base.ran)
<1>1. k \in 0 .. FramesIn(inputs) /\ j \in 0 .. FramesIn(inputs)
  BY FramesInType
<1>2. /\ r \in Seq(Deed) /\ Len(r) = n + k /\ n \in Nat
      /\ \A i \in 1 .. n + k : r[i] = IF i <= n THEN base.ran[i] ELSE FrameOf(base, inputs, i - n)
  BY <1>1, RunType
<1>3. /\ t \in Seq(Deed) /\ Len(t) = n + j
      /\ \A i \in 1 .. n + j : t[i] = IF i <= n THEN base.ran[i] ELSE FrameOf(base, inputs, i - n)
  BY <1>1, RunType
<1> HIDE DEF r, t, n
<1>4. \A i \in 1 .. Len(r) : r[i] = t[i] /\ t[i] \in Deed
  <2>1. \A i \in 1 .. Len(r) : i \in 1 .. n + k /\ i \in 1 .. n + j /\ i \in 1 .. Len(t)
    BY <1>2, <1>3
  <2>2. \A i \in 1 .. Len(t) : t[i] \in Deed
    BY <1>3, ElementOfSeq
  <2> QED
    BY <1>2, <1>3, <2>1, <2>2
<1>5. Len(r) \in Int /\ Len(r) \in Nat /\ Len(r) <= Len(t)
  BY <1>2, <1>3
<1>6. /\ SubSeq(t, 1, Len(r)) \in Seq(Deed)
      /\ Len(SubSeq(t, 1, Len(r))) = IF 1 <= Len(r) THEN Len(r) - 1 + 1 ELSE 0
      /\ \A i \in 1 .. Len(r) - 1 + 1 : SubSeq(t, 1, Len(r))[i] = t[1 + i - 1]
  BY <1>4, <1>5, SubSeqProperties
<1>7. SubSeq(t, 1, Len(r)) = r
  <2>1. Len(SubSeq(t, 1, Len(r))) = Len(r)
    BY <1>5, <1>6
  <2>2. \A i \in 1 .. Len(SubSeq(t, 1, Len(r))) : SubSeq(t, 1, Len(r))[i] = r[i]
    BY <1>4, <1>5, <1>6, <2>1
  <2> QED
    BY <1>2, <1>6, <2>1, <2>2, SeqEqual
<1>8. SubSeq(r, 1, Len(r)) = r
  BY <1>2, SubSeqFull
<1> QED
  BY <1>5, <1>7, <1>8 DEF IsPrefix, r, t

\* What a finished sequence came to, and how far the one at work has come.
ResultSound(s, i) ==
  LET whole == RunOf(s.base, s.request[i], Whole(s.base, s.request[i]))
  IN IF i \in s.stopped THEN IsPrefix(s.results[i], whole) ELSE s.results[i] = whole

AtWork(s) ==
  LET inputs == s.request[Len(s.results) + 1]
  IN \E k \in 0 .. Whole(s.base, inputs) : s.ran = RunOf(s.base, inputs, k)

SimSound(s) ==
  /\ s \in Simulation
  /\ Len(s.results) <= Len(s.request)
  /\ s.at # "done" => Len(s.results) < Len(s.request)
  /\ s.stopped \subseteq 1 .. Len(s.results)
  /\ s.at = "run" => AtWork(s)
  /\ \A i \in 1 .. Len(s.results) : ResultSound(s, i)

SimInv == sim # NoSim => SimSound(sim)

LEMMA SimImplies == SimInv => SimulationFromBase
<1> SUFFICES ASSUME SimInv, sim # NoSim, NEW i \in DOMAIN sim.results
             PROVE  IF i \in sim.stopped THEN IsPrefix(sim.results[i], Expected(i))
                    ELSE sim.results[i] = Expected(i)
  BY DEF SimulationFromBase
<1>1. i \in 1 .. Len(sim.results) /\ ResultSound(sim, i)
  BY LenProperties DEF SimInv, SimSound, Simulation
<1>2. Expected(i) = RunOf(sim.base, sim.request[i], Whole(sim.base, sim.request[i]))
  BY DEF Expected, RunOf, Whole, FramesIn, FrameOf
<1> QED
  BY <1>1, <1>2 DEF ResultSound

\* The inputs of the sequence at work.
LEMMA CurrentInputs ==
  ASSUME SimSound(sim), sim.at # "done"
  PROVE  /\ Current = sim.request[Len(sim.results) + 1] /\ Current \in Seq(Buttons)
         /\ sim.base \in Base /\ sim.base.ran \in Seq(Deed) /\ Len(sim.base.ran) \in Nat
         /\ FramesIn(Current) \in Nat /\ Whole(sim.base, Current) \in 0 .. FramesIn(Current)
         /\ Len(sim.results) \in Nat /\ Len(sim.request) \in Nat
<1>1. sim \in Simulation /\ Len(sim.results) < Len(sim.request)
  BY DEF SimSound
<1>2. sim.request \in Seq(Seq(Buttons)) /\ sim.results \in Seq(Seq(Deed)) /\ sim.base \in Base
  BY <1>1 DEF Simulation
<1>3. Len(sim.results) \in Nat /\ Len(sim.request) \in Nat
  BY <1>2, LenProperties
<1>4. Len(sim.results) + 1 \in 1 .. Len(sim.request)
  BY <1>1, <1>3
<1>5. sim.request[Len(sim.results) + 1] \in Seq(Buttons)
  BY <1>2, <1>4, ElementOfSeq
<1>6. FramesIn(Current) \in Nat
  BY <1>5, FramesInType DEF Current
<1>7. sim.base.ran \in Seq(Deed)
  BY <1>2 DEF Base
<1>8. Len(sim.base.ran) \in Nat
  BY <1>7, LenProperties
<1> QED
  BY <1>2, <1>3, <1>5, <1>6, <1>7, <1>8 DEF Current, Whole

\* A frame of the copy is the next one of its sequence.
LEMMA CopyGoesOn ==
  ASSUME SimInv, SimulateFrame PROVE SimInv'
<1>1. SimSound(sim) /\ sim.at = "run" /\ AtWork(sim) /\ ~sim.base.paused
  BY DEF SimInv, SimSound, SimulateFrame, NoSim
<1> DEFINE done == Len(sim.ran) - Len(sim.base.ran)
<1>2. /\ Current = sim.request[Len(sim.results) + 1] /\ Current \in Seq(Buttons)
      /\ sim.base \in Base /\ FramesIn(Current) \in Nat
      /\ Whole(sim.base, Current) = FramesIn(Current)
  BY <1>1, CurrentInputs DEF Whole
<1>3. PICK k \in 0 .. FramesIn(Current) : sim.ran = RunOf(sim.base, Current, k)
  BY <1>1, <1>2 DEF AtWork
<1>4. Len(sim.ran) = Len(sim.base.ran) + k /\ Len(sim.base.ran) \in Nat /\ k \in Nat
  <2>1. /\ Len(RunOf(sim.base, Current, k)) = Len(sim.base.ran) + k
        /\ Len(sim.base.ran) \in Nat
    BY <1>2, RunType
  <2> QED
    BY <1>2, <1>3, <2>1
<1>5. done = k
  BY <1>4
<1>6. k < FramesIn(Current)
  BY <1>5 DEF SimulateFrame, Input2Go, FramesIn
<1>7. NextInput = FrameOf(sim.base, Current, k + 1)
  <2>1. (k + 1) - 1 = done
    BY <1>4, <1>5
  <2> QED
    BY <2>1 DEF NextInput, FrameOf
<1>8. Append(sim.ran, NextInput) = RunOf(sim.base, Current, k + 1)
  BY <1>2, <1>3, <1>4, <1>6, <1>7, RunGrows
<1>9. k + 1 \in 0 .. FramesIn(Current)
  BY <1>2, <1>4, <1>6
<1>10. RunOf(sim.base, Current, k + 1) \in Seq(Deed)
  BY <1>2, <1>9, RunType
<1>11. sim' = [sim EXCEPT !.ran = RunOf(sim.base, Current, k + 1)]
  BY <1>8 DEF SimulateFrame
<1> DEFINE r == RunOf(sim.base, Current, k + 1)
           s == [sim EXCEPT !.ran = r]
<1> SUFFICES SimSound(s)
  BY <1>11 DEF SimInv
<1> HIDE DEF r
<1>12. /\ s \in Simulation /\ s.at = sim.at /\ s.request = sim.request /\ s.results = sim.results
       /\ s.ran = r /\ s.base = sim.base /\ s.stopped = sim.stopped
  <2>1. r \in Seq(Deed) /\ sim \in Simulation
    BY <1>1, <1>10 DEF r, SimSound
  <2> QED
    BY <2>1 DEF Simulation
<1> HIDE DEF s
<1>13. AtWork(s)
  BY <1>2, <1>9, <1>12 DEF AtWork, r
<1>14. \A i \in 1 .. Len(s.results) : ResultSound(s, i)
  <2>1. \A i \in 1 .. Len(sim.results) : ResultSound(sim, i)
    BY <1>1 DEF SimSound
  <2> QED
    BY <1>12, <2>1 DEF ResultSound
<1> QED
  BY <1>1, <1>12, <1>13, <1>14 DEF SimSound

\* A sequence ends whole, or stopped by a failing instruction.
LEMMA CopyEnds ==
  ASSUME SimInv, EndSequence PROVE SimInv'
<1>1. SimSound(sim) /\ sim.at = "run" /\ AtWork(sim) /\ sim \in Simulation
  BY DEF SimInv, SimSound, EndSequence, NoSim
<1> DEFINE whole == Whole(sim.base, Current)
           broken == Input2Go /\ ~sim.base.paused
           results == Append(sim.results, sim.ran)
           stopped == IF broken THEN sim.stopped \union {Len(results)} ELSE sim.stopped
           n == Len(sim.results)
           s == [sim EXCEPT !.results = results, !.stopped = stopped,
                   !.at = IF Len(results) = Len(sim.request) THEN "done" ELSE "sequence"]
<1>2. /\ Current = sim.request[n + 1] /\ Current \in Seq(Buttons)
      /\ sim.base \in Base /\ FramesIn(Current) \in Nat /\ whole \in 0 .. FramesIn(Current)
      /\ n \in Nat /\ Len(sim.request) \in Nat /\ n < Len(sim.request)
  BY <1>1, CurrentInputs DEF SimSound
<1>3. PICK k \in 0 .. whole : sim.ran = RunOf(sim.base, Current, k)
  BY <1>1, <1>2 DEF AtWork
<1>4. k \in Nat /\ k \in 0 .. FramesIn(Current) /\ k <= whole /\ whole \in Nat
      /\ whole <= FramesIn(Current)
  BY <1>2, <1>3
<1>5. /\ Len(sim.ran) = Len(sim.base.ran) + k /\ Len(sim.base.ran) \in Nat
      /\ sim.ran \in Seq(Deed)
  <2>1. /\ RunOf(sim.base, Current, k) \in Seq(Deed)
        /\ Len(RunOf(sim.base, Current, k)) = Len(sim.base.ran) + k
        /\ Len(sim.base.ran) \in Nat
    BY <1>2, <1>4, RunType
  <2> QED
    BY <1>3, <2>1
<1>6. Input2Go <=> k < FramesIn(Current)
  BY <1>5 DEF Input2Go, FramesIn
<1>7. ~broken => k = whole
  BY <1>2, <1>4, <1>6 DEF Whole
<1>8. IsPrefix(sim.ran, RunOf(sim.base, Current, whole))
  BY <1>2, <1>3, <1>4, RunBegins
<1>9. /\ results \in Seq(Seq(Deed)) /\ Len(results) = n + 1 /\ results[n + 1] = sim.ran
      /\ \A i \in 1 .. n : results[i] = sim.results[i]
  <2>1. sim.results \in Seq(Seq(Deed))
    BY <1>1 DEF Simulation
  <2> QED
    BY <1>5, <2>1, AppendProperties
<1>10. sim' = s
  BY DEF EndSequence
<1> SUFFICES SimSound(s)
  BY <1>10 DEF SimInv
<1>11. /\ stopped \subseteq 1 .. n + 1 /\ (n + 1 \in stopped <=> broken)
       /\ \A i \in 1 .. n : i \in stopped <=> i \in sim.stopped
  <2>1. sim.stopped \subseteq 1 .. n
    BY <1>1 DEF SimSound
  <2>2. Len(results) = n + 1 /\ n + 1 \notin 1 .. n /\ n \in Nat
    BY <1>2, <1>9
  <2> HIDE DEF results, n, broken
  <2> QED
    BY <2>1, <2>2
<1> HIDE DEF results, stopped, broken
<1>12. /\ s \in Simulation /\ s.request = sim.request /\ s.results = results
       /\ s.base = sim.base /\ s.stopped = stopped
       /\ s.at = IF Len(results) = Len(sim.request) THEN "done" ELSE "sequence"
  <2>1. stopped \in SUBSET Nat
    BY <1>2, <1>11
  <2> QED
    BY <1>1, <1>9, <2>1 DEF Simulation
<1> HIDE DEF s, n, whole
<1>13. ASSUME NEW i \in 1 .. n + 1 PROVE ResultSound(s, i)
  <2>1. CASE i = n + 1
    <3>1. results[i] = sim.ran /\ s.request[i] = Current /\ (i \in stopped <=> broken)
      BY <1>2, <1>9, <1>11, <1>12, <2>1
    <3>2. CASE broken
      BY <1>8, <1>12, <3>1, <3>2 DEF ResultSound, whole
    <3>3. CASE ~broken
      BY <1>3, <1>7, <1>12, <3>1, <3>3 DEF ResultSound, whole
    <3> QED
      BY <3>2, <3>3
  <2>2. CASE i # n + 1
    <3>1. i \in 1 .. n
      BY <1>2, <2>2
    <3>2. ResultSound(sim, i)
      BY <1>1, <3>1 DEF SimSound, n
    <3> QED
      BY <1>9, <1>11, <1>12, <3>1, <3>2 DEF ResultSound
  <2> QED
    BY <2>1, <2>2
<1>14. Len(s.results) <= Len(s.request) /\ (s.at # "done" => Len(s.results) < Len(s.request))
  BY <1>2, <1>9, <1>12
<1> QED
  BY <1>9, <1>11, <1>12, <1>13, <1>14 DEF SimSound

\* A copy starts where the base is.
LEMMA CopyStarts ==
  ASSUME SimInv, StartSequence PROVE SimInv'
<1>1. CASE Current = <<>>
  BY <1>1 DEF StartSequence, SimInv
<1>2. CASE Current # <<>>
  <2>1. SimSound(sim) /\ sim.at = "sequence" /\ sim \in Simulation
    BY DEF SimInv, SimSound, StartSequence, NoSim
  <2>2. /\ Current = sim.request[Len(sim.results) + 1] /\ sim.base \in Base
        /\ sim.base.ran \in Seq(Deed) /\ FramesIn(Current) \in Nat
        /\ Whole(sim.base, Current) \in 0 .. FramesIn(Current)
    BY <2>1, CurrentInputs
  <2> DEFINE s == [sim EXCEPT !.at = "run", !.ran = sim.base.ran]
  <2>3. sim' = s
    BY <1>2 DEF StartSequence
  <2>4. /\ s \in Simulation /\ s.request = sim.request /\ s.results = sim.results
        /\ s.base = sim.base /\ s.stopped = sim.stopped /\ s.at = "run" /\ s.ran = sim.base.ran
    BY <2>1, <2>2 DEF Simulation
  <2> SUFFICES SimSound(s)
    BY <2>3 DEF SimInv
  <2> HIDE DEF s
  <2>5. AtWork(s)
    <3>1. s.ran = RunOf(s.base, Current, 0)
      BY <2>2, <2>4, RunStarts
    <3>2. 0 \in 0 .. Whole(s.base, Current)
      BY <2>2, <2>4
    <3>3. Current = s.request[Len(s.results) + 1]
      BY <2>2, <2>4
    <3> QED
      BY <3>1, <3>2, <3>3 DEF AtWork
  <2>6. \A i \in 1 .. Len(s.results) : ResultSound(s, i)
    <3>1. \A i \in 1 .. Len(sim.results) : ResultSound(sim, i)
      BY <2>1 DEF SimSound
    <3> QED
      BY <2>4, <3>1 DEF ResultSound
  <2> QED
    BY <2>1, <2>4, <2>5, <2>6 DEF SimSound
<1> QED
  BY <1>1, <1>2

LEMMA RequestTaken ==
  ASSUME ConsoleTypeOK, NEW request \in Requests, SimulateInputSequences(request)
  PROVE  SimInv'
<1> DEFINE base == [ran |-> ran, paused |-> paused, p2 |-> controller.p2, cart |-> cart]
           s == [at |-> "sequence", request |-> request, results |-> <<>>, ran |-> <<>>,
                 base |-> base, stopped |-> {}]
<1>1. sim' = s
  BY DEF SimulateInputSequences
<1>2. base \in Base
  BY DEF Base, ConsoleTypeOK, Deed, Frame
<1>3. request \in Seq(Seq(Buttons)) /\ request # <<>>
  BY ConsoleAssumption DEF ConsoleAssumption
<1>4. Len(request) \in Nat \ {0} /\ Len(<<>>) = 0
  BY <1>3, EmptySeq
<1>5. s \in Simulation
  <2>1. <<>> \in Seq(Seq(Deed)) /\ <<>> \in Seq(Deed)
    BY EmptySeq
  <2> HIDE DEF base
  <2> QED
    BY <1>2, <1>3, <2>1 DEF Simulation
<1> HIDE DEF base
<1>6. SimSound(s)
  BY <1>4, <1>5 DEF SimSound
<1> HIDE DEF s
<1> QED
  BY <1>1, <1>6 DEF SimInv

LEMMA SimKeeps == ConsoleTypeOK /\ SimInv /\ [ConsoleNext]_consoleVars => SimInv'
<1> SUFFICES ASSUME ConsoleTypeOK, SimInv, [ConsoleNext]_consoleVars PROVE SimInv'
  OBVIOUS
<1>1. CASE UNCHANGED sim
  BY <1>1 DEF SimInv
<1>2. CASE \E request \in Requests : SimulateInputSequences(request)
  BY <1>2, RequestTaken
<1>3. CASE StartSequence \/ SimulateFrame \/ EndSequence
  BY <1>3, CopyStarts, CopyGoesOn, CopyEnds
<1>4. CASE Respond
  BY <1>4 DEF Respond, SimInv
<1>5. CASE (\E r \in Replays : LoadFM2Content(r)) \/ (\E rom \in ROMs : LoadROMContent(rom))
           \/ ResetConsole
  BY <1>1, <1>5 DEF LoadFM2Content, LoadROMContent, ResetConsole, ResetLocked
<1>6. CASE (\E p \in BOOLEAN : SetPaused(p)) \/ PokeRAM
           \/ \E player \in {"p1", "p2"}, b \in Buttons : SetController(player, b)
  BY <1>1, <1>6 DEF SetPaused, PokeRAM, SetController
<1>7. CASE StepFrame \/ SnapshotFrame \/ SnapshotAudio \/ WriteFrames
  BY <1>1, <1>7 DEF StepFrame, SnapshotFrame, SnapshotAudio, WriteFrames
<1>8. CASE UNCHANGED consoleVars
  BY <1>1, <1>8 DEF consoleVars
<1> QED
  BY <1>2, <1>3, <1>4, <1>5, <1>6, <1>7, <1>8 DEF ConsoleNext

\* A sequence is simulated from the console as it was when the request was taken, with its own
\* inputs alone: SimulateInputSequences clones under the lock, and each sequence a copy anew.
THEOREM SimulationStartsFromBase == ConsoleSpec => []SimulationFromBase
<1>1. ConsoleInit => SimInv
  BY DEF ConsoleInit, SimInv
<1>2. ReplayFaithful => ConsoleTypeOK
  BY DEF ReplayFaithful
<1> QED
  BY <1>1, <1>2, SimKeeps, SimImplies, ReplayIsFaithful, PTL DEF ConsoleSpec
=============================================================================
