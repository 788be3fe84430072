--------------------------- MODULE Devices_proofs ---------------------------
(***************************************************************************)
(* Proofs about the devices, for every value of their constants: the APU's *)
(* frame sequencer, sample channel and channels; the line counters of the  *)
(* boards, MMC1's port and the banks that are fetched from; the PPU's      *)
(* scroll registers and the record of a frame's line states.               *)
(***************************************************************************)
EXTENDS APUDMC, APUFrame, APUChannel, Cartridge, PPULineStates, PPUScroll, SequenceTheorems,
        FiniteSetTheorems, Induction_proofs, TLAPS

-----------------------------------------------------------------------------
(* Quotients and remainders.                                               *)

LEMMA DivMod ==
  ASSUME NEW m \in Nat \ {0}, NEW x \in Int
  PROVE  /\ x \div m \in Int /\ x % m \in 0 .. m - 1
         /\ x = m * (x \div m) + (x % m)
OBVIOUS

\* A number has one remainder, and one quotient.
LEMMA DivModUnique ==
  ASSUME NEW m \in Nat \ {0}, NEW p \in Int, NEW q \in Int,
         NEW r \in 0 .. m - 1, NEW s \in 0 .. m - 1, m * p + r = m * q + s
  PROVE  p = q /\ r = s
<1>1. m * (p - q) = s - r
  BY SMT
<1>2. CASE p - q >= 1
  <2>1. m * (p - q) >= m
    BY <1>2, SMT
  <2> QED
    BY <1>1, <2>1
<1>3. CASE p - q <= -1
  <2>1. m * (p - q) <= -m
    BY <1>3, SMT
  <2> QED
    BY <1>1, <2>1
<1>4. CASE p = q
  BY <1>1, <1>4
<1> QED
  BY <1>2, <1>3, <1>4

\* One more: the remainder goes up, or starts over in the next round.
LEMMA DivModNext ==
  ASSUME NEW m \in Nat \ {0}, NEW x \in Nat
  PROVE  /\ (x % m) + 1 < m => (x + 1) % m = (x % m) + 1 /\ (x + 1) \div m = x \div m
         /\ (x % m) + 1 >= m => /\ (x % m) + 1 = m
                              /\ (x + 1) % m = 0 /\ (x + 1) \div m = x \div m + 1
<1> DEFINE p == x \div m
           r == x % m
           q == (x + 1) \div m
           s == (x + 1) % m
<1>1. /\ p \in Int /\ r \in 0 .. m - 1 /\ x = m * p + r
      /\ q \in Int /\ s \in 0 .. m - 1 /\ x + 1 = m * q + s
  BY DivMod
<1> HIDE DEF p, r, q, s
<1>2. CASE r + 1 < m
  <2>1. r + 1 \in 0 .. m - 1 /\ m * q + s = m * p + (r + 1)
    BY <1>1, <1>2
  <2>2. q = p /\ s = r + 1
    BY <1>1, <2>1, DivModUnique
  <2> QED
    BY <1>1, <1>2, <2>2 DEF p, r, q, s
<1>3. CASE r + 1 >= m
  <2>1. r + 1 = m /\ p + 1 \in Int /\ 0 \in 0 .. m - 1
    BY <1>1, <1>3
  <2>2. m * (p + 1) = m * p + m
    BY <1>1
  <2>3. m * q + s = m * (p + 1) + 0
    BY <1>1, <2>1, <2>2
  <2>4. q = p + 1 /\ s = 0
    BY <1>1, <2>1, <2>3, DivModUnique
  <2> QED
    BY <1>1, <1>3, <2>1, <2>4 DEF p, r, q, s
<1> QED
  BY <1>1, <1>2, <1>3 DEF r

\* The quotient grows with the number.
LEMMA DivMonotone ==
  ASSUME NEW m \in Nat \ {0}, NEW x \in Int, NEW y \in Int, x <= y
  PROVE  x \div m <= y \div m
<1> DEFINE p == x \div m
           r == x % m
           q == y \div m
           s == y % m
<1>1. /\ p \in Int /\ r \in 0 .. m - 1 /\ x = m * p + r
      /\ q \in Int /\ s \in 0 .. m - 1 /\ y = m * q + s
  BY DivMod
<1> HIDE DEF p, r, q, s
<1>2. SUFFICES ASSUME p > q PROVE FALSE
  BY <1>1 DEF p, q
<1>3. p - q \in Nat /\ p - q >= 1
  BY <1>1, <1>2
<1>4. m * (p - q) >= m
  BY <1>3, SMT
<1>5. m * (p - q) = (x - y) + (s - r)
  BY <1>1, SMT
<1> QED
  BY <1>1, <1>4, <1>5

LEMMA DivModZero ==
  ASSUME NEW m \in Nat \ {0}
  PROVE  0 % m = 0 /\ 0 \div m = 0
OBVIOUS

LEMMA ModOfSmall ==
  ASSUME NEW m \in Nat \ {0}
  PROVE  /\ \A x \in 0 .. m - 1 : x % m = x
         /\ (-1) % m = m - 1
<1>1. ASSUME NEW x \in 0 .. m - 1 PROVE x % m = x
  BY SMT
<1>2. (-1) % m = m - 1
  <2> DEFINE q == (-1) \div m
             r == (-1) % m
  <2>1. q \in Int /\ r \in 0 .. m - 1 /\ -1 = m * q + r
    BY DivMod
  <2> HIDE DEF q, r
  <2>2. m - 1 \in 0 .. m - 1 /\ -1 \in Int /\ m * (-1) = -m
    BY SMT
  <2>3. m * q + r = m * (-1) + (m - 1)
    BY <2>1, <2>2
  <2>4. r = m - 1
    BY <2>1, <2>2, <2>3, DivModUnique
  <2> QED
    BY <2>4 DEF r
<1> QED
  BY <1>1, <1>2

\* Odd and even take turns.
LEMMA OddFlips ==
  ASSUME NEW n \in Nat
  PROVE  /\ Odd(n + 1) <=> ~Odd(n)
         /\ n > 0 => (Odd(n - 1) <=> ~Odd(n))
BY DEF Odd

-----------------------------------------------------------------------------
(* The frame sequencer.                                                    *)

\* The four steps lie in one round, whichever sequence runs.
LEMMA Steps ==
  /\ Step[1] \in Nat /\ Step[2] \in Nat /\ Step[3] \in Nat /\ End \in Nat \ {0}
  /\ 0 < Step[1] /\ Step[1] < Step[2] /\ Step[2] < Step[3] /\ Step[3] < End
<1>1. /\ Step[1] \in Nat /\ Step[2] \in Nat /\ Step[3] \in Nat /\ Step[4] \in Nat
  BY FrameAssumption
<1> QED
  BY <1>1, FrameAssumption DEF End

LEMMA SequencerStarts == SequencerInit => SequencerInStep
<1> SUFFICES ASSUME SequencerInit PROVE SequencerInStep
  OBVIOUS
<1> USE DEF SequencerInit
<1>1. SequencerTypeOK
  <2>1. /\ frameCounter5Step \in BOOLEAN /\ frameIRQ \in BOOLEAN /\ frameIRQInhibit \in BOOLEAN
        /\ frameCounterWriteValue \in BOOLEAN /\ cpuCycleParity \in BOOLEAN
    BY Zenon
  <2>2. /\ 0 \in 0 .. End - 1 /\ 0 \in 0 .. WriteDelay + 1 /\ 0 \in 0 .. MaxAge /\ 0 \in Nat
        /\ 0 \in 0 .. 0 + 1
    BY Steps, FrameAssumption
  <2> QED
    BY <2>1, <2>2, Zenon DEF SequencerTypeOK
<1>2. InPhase
  <2>1. ~Odd(0) /\ ~(0 > 0)
    BY DEF Odd
  <2> QED
    BY <2>1, Zenon DEF InPhase
<1>3. ClocksByAge
  <2>1. 0 % End = 0 /\ 0 \div End = 0 /\ StepCount(0) = 0
    BY Steps, DivModZero DEF StepCount
  <2> QED
    BY <2>1 DEF ClocksByAge
<1>4. InhibitHolds
  BY DEF InhibitHolds
<1>5. IRQFollowsEnd
  <2>1. ~((age - unacknowledged) \div End < age \div End) /\ ~frameIRQ
    BY Steps, DivModZero
  <2>2. ~(unacknowledged > age)
    OBVIOUS
  <2> QED
    BY <2>1, <2>2, Zenon DEF IRQFollowsEnd
<1> QED
  BY <1>1, <1>2, <1>3, <1>4, <1>5 DEF SequencerInStep

\* A cycle of the sequence, before a write takes effect.
LEMMA CycleCounts ==
  ASSUME NEW c \in 0 .. End - 1
  PROVE  /\ c + 1 < End =>
              /\ StepCount(c + 1) = StepCount(c) + (IF QuarterAt(c + 1) THEN 1 ELSE 0)
              /\ StepCount(c + 1) \div 2
                   = StepCount(c) \div 2 + (IF HalfAt(c + 1) THEN 1 ELSE 0)
         /\ c + 1 = End =>
              /\ 4 + StepCount(0) = StepCount(c) + (IF QuarterAt(c + 1) THEN 1 ELSE 0)
              /\ 2 + (StepCount(0) \div 2)
                   = StepCount(c) \div 2 + (IF HalfAt(c + 1) THEN 1 ELSE 0)
<1>1. c \in Int
  BY Steps
<1>2. StepCount(c) = IF c >= Step[3] THEN 3 ELSE IF c >= Step[2] THEN 2
                     ELSE IF c >= Step[1] THEN 1 ELSE 0
  BY Steps DEF StepCount
<1>3. StepCount(0) = 0
  BY Steps DEF StepCount
<1>4. 0 \div 2 = 0 /\ 1 \div 2 = 0 /\ 2 \div 2 = 1 /\ 3 \div 2 = 1
  OBVIOUS
<1>5. ASSUME c + 1 < End
      PROVE  StepCount(c + 1) = IF c + 1 >= Step[3] THEN 3 ELSE IF c + 1 >= Step[2] THEN 2
                                ELSE IF c + 1 >= Step[1] THEN 1 ELSE 0
  BY <1>1, <1>5, Steps DEF StepCount
<1>6. QuarterAt(c + 1) <=> c + 1 \in {Step[1], Step[2], Step[3], End}
  BY DEF QuarterAt
<1>7. HalfAt(c + 1) <=> c + 1 \in {Step[2], End}
  BY DEF HalfAt
<1>8. CASE c + 1 < End
  <2>1. CASE c + 1 < Step[1]
    BY <1>1, <1>2, <1>4, <1>5, <1>6, <1>7, <1>8, <2>1, Steps
  <2>2. CASE c + 1 >= Step[1] /\ c + 1 < Step[2]
    BY <1>1, <1>2, <1>4, <1>5, <1>6, <1>7, <1>8, <2>2, Steps
  <2>3. CASE c + 1 >= Step[2] /\ c + 1 < Step[3]
    BY <1>1, <1>2, <1>4, <1>5, <1>6, <1>7, <1>8, <2>3, Steps
  <2>4. CASE c + 1 >= Step[3]
    BY <1>1, <1>2, <1>4, <1>5, <1>6, <1>7, <1>8, <2>4, Steps
  <2> QED
    BY <1>1, <2>1, <2>2, <2>3, <2>4, Steps
<1>9. CASE c + 1 = End
  <2>1. StepCount(c) = 3
    BY <1>1, <1>2, <1>9, Steps
  <2> QED
    BY <1>3, <1>4, <1>6, <1>7, <1>9, <2>1, Steps
<1> QED
  BY <1>1, <1>8, <1>9, Steps

\* Right after an acknowledgement no interrupt is due.
LEMMA NothingOwed ==
  ASSUME SequencerTypeOK', unacknowledged' = 0, ~frameIRQ'
  PROVE  IRQFollowsEnd'
<1>1. age' \in Nat /\ End' \in Nat \ {0}
  BY FrameAssumption DEF End, SequencerTypeOK
<1>2. ASSUME NEW n \in Nat PROVE n - 0 = n /\ ~(0 > n) /\ ~(n \div End' < n \div End')
  <2>1. n \div End' \in Int
    BY <1>1, DivMod
  <2> QED
    BY <2>1
<1>3. /\ ~(unacknowledged' > age')
      /\ ~((age' - unacknowledged') \div End' < age' \div End')
  BY <1>1, <1>2, Zenon
<1> QED
  BY <1>3, Zenon DEF IRQFollowsEnd

LEMMA CycleInStep ==
  ASSUME SequencerInStep, SequencerCycle
  PROVE  SequencerInStep'
<1> USE DEF SequencerInStep
<1> DEFINE c == frameCounterCycle + 1
           restarts == frameCounterWriteDelay = 1
<1>1. /\ frameCounterCycle \in 0 .. End - 1 /\ age \in Nat /\ End \in Nat \ {0}
      /\ age < MaxAge /\ MaxAge \in Nat /\ WriteDelay \in Nat
      /\ frameCounterWriteDelay \in 0 .. WriteDelay + 1
      /\ quarters \in Nat /\ halves \in Nat /\ unacknowledged \in 0 .. age + 1
  BY Steps, FrameAssumption DEF SequencerTypeOK, SequencerCycle
<1>2. /\ cpuCycleParity' = ~cpuCycleParity
      /\ frameCounterWriteDelay' =
           IF frameCounterWriteDelay > 0 THEN frameCounterWriteDelay - 1 ELSE 0
      /\ frameIRQ' = (frameIRQ \/ (~frameCounter5Step /\ c = End /\ ~frameIRQInhibit))
      /\ unacknowledged' =
           IF frameIRQInhibit THEN 0 ELSE IF restarts THEN 1 ELSE unacknowledged + 1
      /\ UNCHANGED <<frameIRQInhibit, frameCounterWriteValue>>
  BY DEF SequencerCycle
<1>3. ASSUME restarts
      PROVE  /\ frameCounter5Step' = frameCounterWriteValue
             /\ frameCounterCycle' = 0 /\ age' = 0
             /\ quarters' = IF frameCounterWriteValue THEN 1 ELSE 0
             /\ halves' = IF frameCounterWriteValue THEN 1 ELSE 0
  BY <1>3 DEF SequencerCycle
<1>4. ASSUME ~restarts
      PROVE  /\ frameCounter5Step' = frameCounter5Step /\ End' = End
             /\ frameCounterCycle' = IF c >= End THEN 0 ELSE c
             /\ age' = age + 1
             /\ quarters' = quarters + (IF QuarterAt(c) THEN 1 ELSE 0)
             /\ halves' = halves + (IF HalfAt(c) THEN 1 ELSE 0)
  BY <1>4 DEF SequencerCycle, End
<1>5. End' \in Nat \ {0} /\ StepCount(0)' = 0
  BY Steps, FrameAssumption DEF End, StepCount
<1>6. SequencerTypeOK'
  <2>1. /\ frameIRQ' \in BOOLEAN /\ frameIRQInhibit' \in BOOLEAN
        /\ frameCounterWriteValue' \in BOOLEAN /\ cpuCycleParity' \in BOOLEAN
        /\ frameCounter5Step' \in BOOLEAN
    BY <1>2, <1>3, <1>4, Zenon DEF SequencerTypeOK
  <2>2. frameCounterWriteDelay' \in 0 .. WriteDelay + 1
    BY <1>1, <1>2
  <2>3. CASE restarts
    <3>1. frameCounterCycle' \in 0 .. End' - 1
      <4>1. frameCounterCycle' = 0 /\ End' \in Nat /\ End' > 0
        BY <1>3, <1>5, <2>3
      <4>2. ASSUME NEW e \in Nat, e > 0 PROVE 0 \in 0 .. e - 1
        BY <4>2
      <4> QED
        BY <4>1, <4>2, Zenon
    <3>2. age' \in 0 .. MaxAge
      BY <1>1, <1>3, <2>3
    <3>3. quarters' \in Nat /\ halves' \in Nat /\ unacknowledged' \in 0 .. age' + 1
      BY <1>2, <1>3, <2>3
    <3> QED
      BY <2>1, <2>2, <3>1, <3>2, <3>3 DEF SequencerTypeOK
  <2>4. CASE ~restarts
    <3>1. frameCounterCycle' \in 0 .. End' - 1 /\ age' \in 0 .. MaxAge
      BY <1>1, <1>4, <2>4
    <3>2. quarters' \in Nat /\ halves' \in Nat /\ unacknowledged' \in 0 .. age' + 1
      BY <1>1, <1>2, <1>4, <2>4
    <3> QED
      BY <2>1, <2>2, <3>1, <3>2 DEF SequencerTypeOK
  <2> QED
    BY <2>3, <2>4
<1>7. InPhase'
  <2>1. CASE restarts
    <3>1. Odd(frameCounterWriteDelay) /\ frameCounterWriteDelay > 0 /\ ~Odd(0) /\ ~(0 > 0)
      BY <2>1 DEF Odd
    <3>2. cpuCycleParity
      BY <3>1, Zenon DEF InPhase
    <3>3. ~cpuCycleParity' /\ age' = 0 /\ frameCounterWriteDelay' = 0
      <4>1. frameCounterWriteDelay' = 0
        BY <1>2, <2>1
      <4> QED
        BY <1>2, <1>3, <2>1, <3>2, <4>1, Zenon
    <3>4. ~Odd(age') /\ ~(frameCounterWriteDelay' > 0)
      BY <3>1, <3>3
    <3> QED
      BY <3>3, <3>4, Zenon DEF InPhase, Odd
  <2>2. CASE ~restarts
    <3>1. Odd(age + 1) <=> ~Odd(age)
      BY <1>1, OddFlips
    <3>2. age' = age + 1
      BY <1>4, <2>2
    <3>3. frameCounterWriteDelay' > 0 =>
            /\ frameCounterWriteDelay > 0
            /\ Odd(frameCounterWriteDelay') <=> ~Odd(frameCounterWriteDelay)
      BY <1>1, <1>2, OddFlips
    <3>4. cpuCycleParity' <=> Odd(age')
      BY <1>2, <3>1, <3>2, Zenon DEF InPhase
    <3>5. frameCounterWriteDelay' > 0 => (cpuCycleParity' <=> Odd(frameCounterWriteDelay'))
      BY <1>2, <3>3, Zenon DEF InPhase
    <3> QED
      BY <3>4, <3>5, Zenon DEF InPhase, Odd
  <2> QED
    BY <2>1, <2>2
<1>8. ClocksByAge'
  <2>1. CASE restarts
    <3>1. age' % End' = 0 /\ age' \div End' = 0
      BY <1>3, <1>5, <2>1, DivModZero
    <3>2. StepCount(age % End)' = 0 /\ 0 \div 2 = 0
      BY <1>5, <3>1 DEF StepCount
    <3>3. frameCounterCycle' = (age % End)'
      BY <1>3, <2>1, <3>1
    <3> DEFINE start == IF frameCounterWriteValue THEN 1 ELSE 0
    <3>4. quarters' = start + 4 * 0 + 0 /\ halves' = start + 2 * 0 + 0 /\ start \in Nat
      BY <1>3, <2>1
    <3>5. start = (IF frameCounter5Step THEN 1 ELSE 0)'
      BY <1>3, <2>1
    <3> HIDE DEF start
    <3> QED
      BY <3>1, <3>2, <3>3, <3>4, <3>5 DEF ClocksByAge
  <2>2. CASE ~restarts
    <3> DEFINE r == age % End
               q == age \div End
               start == IF frameCounter5Step THEN 1 ELSE 0
    <3>1. /\ r = frameCounterCycle /\ q \in Int
          /\ quarters = start + 4 * q + StepCount(r)
          /\ halves = start + 2 * q + StepCount(r) \div 2
      BY <1>1, DivMod DEF ClocksByAge
    <3>2. c >= End => c = End
      BY <1>1
    <3>3. /\ c < End => (age + 1) % End = c /\ (age + 1) \div End = q
          /\ c >= End => (age + 1) % End = 0 /\ (age + 1) \div End = q + 1
      BY <1>1, <3>1, DivModNext
    <3>4. \A n : StepCount(n)' = StepCount(n)
      BY <1>4, <2>2, Zenon DEF StepCount
    <3>5. StepCount(r) \in 0 .. 4 /\ StepCount(c) \in 0 .. 4 /\ StepCount(0) = 0
      BY Steps DEF StepCount
    <3>6. CASE c < End
      <4>1. /\ StepCount(c) = StepCount(r) + (IF QuarterAt(c) THEN 1 ELSE 0)
            /\ StepCount(c) \div 2 = StepCount(r) \div 2 + (IF HalfAt(c) THEN 1 ELSE 0)
        BY <1>1, <3>1, <3>6, CycleCounts
      <4>2. frameCounterCycle' = age' % End'
        BY <1>1, <1>4, <2>2, <3>3, <3>6
      <4>3. /\ quarters' = start + 4 * q + StepCount(c)
            /\ halves' = start + 2 * q + StepCount(c) \div 2
        <5> HIDE DEF r, q, start
        <5>1. start \in Nat /\ StepCount(r) \div 2 \in Int /\ StepCount(c) \div 2 \in Int
          BY <3>5 DEF start
        <5> QED
          BY <1>4, <2>2, <3>1, <3>5, <4>1, <5>1
      <4>4. /\ (age % End)' = c /\ (age \div End)' = q
            /\ (IF frameCounter5Step THEN 1 ELSE 0)' = start
        BY <1>4, <2>2, <3>3, <3>6
      <4>5. StepCount(age % End)' = StepCount(c)
        BY <1>4, <2>2, <4>4 DEF StepCount
      <4> HIDE DEF start, q
      <4> QED
        BY <4>2, <4>3, <4>4, <4>5 DEF ClocksByAge
    <3>7. CASE c >= End
      <4>1. /\ 4 = StepCount(r) + (IF QuarterAt(c) THEN 1 ELSE 0)
            /\ 2 = StepCount(r) \div 2 + (IF HalfAt(c) THEN 1 ELSE 0)
        BY <1>1, <3>1, <3>2, <3>5, <3>7, CycleCounts
      <4>2. frameCounterCycle' = age' % End'
        BY <1>1, <1>4, <2>2, <3>3, <3>7
      <4>3. /\ quarters' = start + 4 * (q + 1) + 0
            /\ halves' = start + 2 * (q + 1) + 0
        <5> HIDE DEF r, q, start
        <5>1. start \in Nat /\ StepCount(r) \div 2 \in Int
          BY <3>5 DEF start
        <5> QED
          BY <1>4, <2>2, <3>1, <3>5, <4>1, <5>1
      <4>4. /\ (age % End)' = 0 /\ (age \div End)' = q + 1
            /\ (IF frameCounter5Step THEN 1 ELSE 0)' = start
        BY <1>4, <2>2, <3>3, <3>7
      <4>5. StepCount(age % End)' = 0 /\ 0 \div 2 = 0
        BY <1>5, <4>4 DEF StepCount
      <4> HIDE DEF start, q
      <4> QED
        BY <4>2, <4>3, <4>4, <4>5 DEF ClocksByAge
    <3> QED
      BY <1>1, <3>6, <3>7
  <2> QED
    BY <2>1, <2>2
<1>9. InhibitHolds'
  BY <1>2 DEF InhibitHolds
<1>10. IRQFollowsEnd'
  <2>1. CASE frameIRQInhibit
    <3>1. unacknowledged' = 0 /\ ~frameIRQ'
      BY <1>2, <2>1 DEF InhibitHolds
    <3> QED
      BY <1>6, <3>1, NothingOwed
  <2>2. CASE ~frameIRQInhibit /\ restarts
    <3>1. unacknowledged' = 1 /\ age' = 0
      BY <1>2, <1>3, <2>2
    <3>2. ~(unacknowledged' <= age') /\ ~(age' >= End')
      BY <1>5, <3>1
    <3> QED
      BY <3>2, Zenon DEF IRQFollowsEnd
  <2>3. CASE ~frameIRQInhibit /\ ~restarts
    <3> DEFINE d == age - unacknowledged
    <3>1. /\ unacknowledged' = unacknowledged + 1 /\ age' = age + 1 /\ End' = End
          /\ frameCounter5Step' = frameCounter5Step
          /\ frameIRQ' = (frameIRQ \/ (~frameCounter5Step /\ c = End))
      BY <1>2, <1>4, <2>3
    <3>2. d \in Int /\ age' - unacknowledged' = d
      BY <1>1, <3>1
    <3>3. /\ frameCounterCycle = age % End /\ age \div End \in Int
      BY <1>1, DivMod DEF ClocksByAge
    <3>4. /\ c < End => (age + 1) \div End = age \div End
          /\ c >= End => c = End /\ (age + 1) \div End = age \div End + 1
      BY <1>1, <3>3, DivModNext
    <3>5. CASE unacknowledged <= age
      <4>1. /\ d \div End \in Int /\ d \div End <= age \div End
        <5>1. d <= age /\ d \in Int /\ age \in Int
          BY <1>1, <3>5
        <5> HIDE DEF d
        <5> QED
          BY <1>1, <5>1, DivMod, DivMonotone
      <4>2. frameIRQ <=> ~frameCounter5Step /\ d \div End < age \div End
        BY <3>5, Zenon DEF IRQFollowsEnd
      <4>3. ~(unacknowledged' > age')
        BY <1>1, <3>1, <3>5
      <4>4. CASE c < End
        <5>1. ~(c = End) /\ (d \div End < (age + 1) \div End <=> d \div End < age \div End)
          BY <1>1, <3>4, <4>4
        <5>2. frameIRQ' <=> ~frameCounter5Step' /\ d \div End' < age' \div End'
          BY <3>1, <4>2, <5>1, Zenon
        <5> QED
          BY <3>2, <4>3, <5>2, Zenon DEF IRQFollowsEnd
      <4>5. CASE c >= End
        <5>1. c = End /\ d \div End < (age + 1) \div End
          BY <3>3, <3>4, <4>1, <4>5
        <5>2. frameIRQ' <=> ~frameCounter5Step' /\ d \div End' < age' \div End'
          BY <3>1, <4>2, <5>1, Zenon
        <5> QED
          BY <3>2, <4>3, <5>2, Zenon DEF IRQFollowsEnd
      <4> QED
        BY <1>1, <4>4, <4>5
    <3>6. CASE unacknowledged > age
      <4>1. ~(unacknowledged' <= age')
        BY <1>1, <3>1, <3>6
      <4>2. age' >= End' => age >= End \/ c = End
        <5>1. SUFFICES ASSUME age + 1 >= End, ~(age >= End) PROVE c = End
          BY <3>1
        <5>2. age \in 0 .. End - 1 /\ age + 1 = End
          BY <1>1, <5>1
        <5>3. age % End = age
          BY <1>1, <5>2, ModOfSmall
        <5> QED
          BY <3>3, <5>2, <5>3
      <4>3. ~frameCounter5Step /\ age >= End => frameIRQ
        BY <3>6, Zenon DEF IRQFollowsEnd
      <4>4. ~frameCounter5Step' /\ age' >= End' => frameIRQ'
        BY <3>1, <4>2, <4>3, Zenon
      <4> QED
        BY <4>1, <4>4, Zenon DEF IRQFollowsEnd
    <3> QED
      BY <1>1, <3>5, <3>6
  <2> QED
    BY <2>1, <2>2, <2>3
<1> QED
  BY <1>6, <1>7, <1>8, <1>9, <1>10

LEMMA SequencerSteps ==
  ASSUME SequencerInStep, [SequencerNext]_sequencerVars
  PROVE  SequencerInStep'
<1> USE DEF SequencerInStep
<1>1. ASSUME NEW long \in BOOLEAN, NEW inhibit \in BOOLEAN, WriteFrameCounter(long, inhibit)
      PROVE  SequencerInStep'
  <2>1. UNCHANGED <<frameCounterCycle, frameCounter5Step, cpuCycleParity, age, quarters, halves>>
    BY <1>1 DEF WriteFrameCounter, history
  <2>2. End' = End /\ \A n : StepCount(n)' = StepCount(n)
    BY <2>1 DEF End, StepCount
  <2>3. frameCounterWriteDelay' \in 1 .. WriteDelay + 1
        /\ (cpuCycleParity <=> Odd(frameCounterWriteDelay'))
    <3>1. ~Odd(WriteDelay) /\ Odd(WriteDelay + 1)
      BY FrameAssumption DEF Odd
    <3>2. WriteDelay \in 1 .. WriteDelay + 1 /\ WriteDelay + 1 \in 1 .. WriteDelay + 1
      BY FrameAssumption
    <3>3. frameCounterWriteDelay' = IF cpuCycleParity THEN WriteDelay + 1 ELSE WriteDelay
      BY <1>1 DEF WriteFrameCounter, DelayOfWrite
    <3>4. CASE cpuCycleParity
      BY <3>1, <3>2, <3>3, <3>4, Zenon
    <3>5. CASE ~cpuCycleParity
      BY <3>1, <3>2, <3>3, <3>5, Zenon
    <3> QED
      BY <3>4, <3>5, Zenon
  <2>4. SequencerTypeOK'
    <3>1. /\ frameCounterWriteDelay' \in 0 .. WriteDelay + 1
          /\ unacknowledged' \in 0 .. age' + 1
      BY <1>1, <2>1, <2>3 DEF WriteFrameCounter, SequencerTypeOK
    <3>2. frameIRQ' \in BOOLEAN /\ frameIRQInhibit' \in BOOLEAN
          /\ frameCounterWriteValue' \in BOOLEAN
      BY <1>1, Zenon DEF SequencerTypeOK, WriteFrameCounter
    <3> QED
      BY <2>1, <2>2, <3>1, <3>2 DEF SequencerTypeOK
  <2>5. InPhase'
    BY <2>1, <2>3, Zenon DEF InPhase, Odd
  <2>6. ClocksByAge'
    BY <2>1, <2>2 DEF ClocksByAge
  <2>7. InhibitHolds'
    BY <1>1 DEF InhibitHolds, WriteFrameCounter
  <2>8. IRQFollowsEnd'
    <3>1. CASE inhibit
      <4>1. unacknowledged' = 0 /\ ~frameIRQ'
        BY <1>1, <3>1 DEF WriteFrameCounter
      <4> QED
        BY <2>4, <4>1, NothingOwed
    <3>2. CASE ~inhibit
      <4>1. unacknowledged' = unacknowledged /\ frameIRQ' = frameIRQ
        BY <1>1, <3>2 DEF WriteFrameCounter, SequencerTypeOK
      <4> QED
        BY <2>1, <2>2, <4>1, Zenon DEF IRQFollowsEnd
    <3> QED
      BY <3>1, <3>2
  <2> QED
    BY <2>4, <2>5, <2>6, <2>7, <2>8
<1>2. CASE Acknowledge \/ UNCHANGED sequencerVars
  <2>1. /\ UNCHANGED <<frameCounterCycle, frameCounter5Step, cpuCycleParity, age, quarters, halves,
                       frameIRQInhibit, frameCounterWriteDelay, frameCounterWriteValue>>
    BY <1>2 DEF Acknowledge, sequencerVars, pending, history
  <2>2. End' = End /\ \A n : StepCount(n)' = StepCount(n)
    BY <2>1 DEF End, StepCount
  <2>3. frameIRQ' \in BOOLEAN /\ InhibitHolds'
    <3>1. CASE Acknowledge
      BY <2>1, <3>1 DEF InhibitHolds, Acknowledge
    <3>2. CASE UNCHANGED sequencerVars
      BY <2>1, <3>2 DEF InhibitHolds, sequencerVars, SequencerTypeOK
    <3> QED
      BY <1>2, <3>1, <3>2
  <2>7. unacknowledged' \in 0 .. age' + 1
    <3>1. unacknowledged' \in {0, unacknowledged} /\ age' = age /\ age \in Nat
      BY <1>2, <2>1 DEF Acknowledge, sequencerVars, history, SequencerTypeOK
    <3> QED
      BY <3>1 DEF SequencerTypeOK
  <2>5. SequencerTypeOK'
    BY <2>1, <2>2, <2>3, <2>7 DEF SequencerTypeOK
  <2>6. InPhase'
    BY <2>1, Zenon DEF InPhase, Odd
  <2>4. ClocksByAge'
    BY <2>1, <2>2 DEF ClocksByAge
  <2>8. IRQFollowsEnd'
    <3>1. CASE Acknowledge
      <4>1. unacknowledged' = 0 /\ ~frameIRQ'
        BY <3>1 DEF Acknowledge
      <4> QED
        BY <2>5, <4>1, NothingOwed
    <3>2. CASE UNCHANGED sequencerVars
      <4>1. unacknowledged' = unacknowledged /\ frameIRQ' = frameIRQ
        BY <3>2 DEF sequencerVars, history
      <4> QED
        BY <2>1, <2>2, <4>1, Zenon DEF IRQFollowsEnd
    <3> QED
      BY <1>2, <3>1, <3>2
  <2> QED
    BY <2>3, <2>4, <2>5, <2>6, <2>8
<1>3. CASE SequencerCycle
  BY <1>3, CycleInStep
<1> QED
  BY <1>1, <1>2, <1>3 DEF SequencerNext

\* The frame sequencer (clockFrameCounter, clockFrameCounterWriteDelay, $4017) keeps its
\* rhythm from the write that last started it, for every length of its sequences.
THEOREM SequencerKeepsStep == SequencerSpec => []SequencerInStep
<1>1. SequencerInit => SequencerInStep
  BY SequencerStarts
<1>2. SequencerInStep /\ [SequencerNext]_sequencerVars => SequencerInStep'
  BY SequencerSteps
<1> QED
  BY <1>1, <1>2, PTL DEF SequencerSpec

-----------------------------------------------------------------------------
(* The sample channel.                                                     *)

ChannelType ==
  [currentAddr : 0 .. AddrTop, bytesRemain : Nat, sample : [at : 0 .. AddrTop, length : Nat],
   taken : Nat, bufferEmpty : BOOLEAN, silence : BOOLEAN, bitsRemain : 1 .. BitsPerByte,
   irqPending : BOOLEAN, stall : Nat]

\* The address of byte k of a sample.
ByteOf(s, k) ==
  IF k <= AddrTop - s.at THEN s.at + k ELSE AddrWrap + (k - (AddrTop - s.at) - 1)

\* SampleWhole of a channel, with what a sample that is being read satisfies.
Whole(ch) ==
  /\ ch \in ChannelType
  /\ ch.bytesRemain > 0 =>
       /\ ch.sample.at >= AddrWrap /\ ch.sample.length <= AddrTop - AddrWrap + 1
       /\ ch.taken + ch.bytesRemain = ch.sample.length
       /\ ch.currentAddr = ByteOf(ch.sample, ch.taken)
  /\ ch.irqPending => irqEnable /\ ch.bytesRemain = 0 /\ ch.taken = ch.sample.length

\* The cycles charged, and those of a fetch that may come at any time, are those of n
\* fetches.
Charged(ch, n) == ch.stall + (IF ch.bufferEmpty THEN FetchStall ELSE 0) <= n * FetchStall

RegistersOK ==
  /\ irqEnable \in BOOLEAN /\ loop \in BOOLEAN /\ rateIdx \in Rates
  /\ sampleAddrReg \in SampleAddrs /\ sampleLenReg \in SampleLengths

\* The next byte's address, behind the last one the first of the cartridge.
LEMMA NextByte ==
  ASSUME NEW s \in [at : 0 .. AddrTop, length : Nat], NEW k \in Nat,
         s.at >= AddrWrap, s.length <= AddrTop - AddrWrap + 1, k + 1 < s.length
  PROVE  NextAddr(ByteOf(s, k)) = ByteOf(s, k + 1) /\ NextAddr(ByteOf(s, k)) \in 0 .. AddrTop
<1>1. AddrTop \in Nat /\ AddrWrap \in 0 .. AddrTop
  BY DMCAssumption DEF DMCAssumption
<1>2. s.at \in 0 .. AddrTop /\ s.length \in Nat
  OBVIOUS
<1> DEFINE room == AddrTop - s.at
<1>3. CASE k < room
  BY <1>1, <1>2, <1>3, SMT DEF NextAddr, ByteOf
<1>4. CASE k = room
  BY <1>1, <1>2, <1>4, SMT DEF NextAddr, ByteOf
<1>5. CASE k > room
  BY <1>1, <1>2, <1>5, SMT DEF NextAddr, ByteOf
<1> QED
  BY <1>1, <1>2, <1>3, <1>4, <1>5

\* A channel whose reader has moved on or started over, and one whose output unit took
\* the byte, is a channel.
LEMMA ReadOnType ==
  ASSUME NEW ch \in ChannelType, NEW c \in Nat, NEW a \in 0 .. AddrTop, NEW b \in Nat,
         NEW t \in Nat, NEW q \in BOOLEAN
  PROVE  [ch EXCEPT !.bufferEmpty = FALSE, !.stall = c, !.currentAddr = a, !.bytesRemain = b,
            !.taken = t, !.irqPending = q] \in ChannelType
BY DEF ChannelType

LEMMA ReadAgainType ==
  ASSUME NEW ch \in ChannelType, NEW c \in Nat, NEW a \in 0 .. AddrTop, NEW b \in Nat,
         NEW p \in [at : 0 .. AddrTop, length : Nat]
  PROVE  [ch EXCEPT !.bufferEmpty = FALSE, !.stall = c, !.currentAddr = a, !.bytesRemain = b,
            !.sample = p, !.taken = 0] \in ChannelType
BY DEF ChannelType

LEMMA ShiftedType ==
  ASSUME NEW ch \in ChannelType, NEW e \in BOOLEAN, NEW b \in 1 .. BitsPerByte
  PROVE  [ch EXCEPT !.bitsRemain = b, !.silence = e, !.bufferEmpty = TRUE] \in ChannelType
BY DEF ChannelType

\* What a fetch leaves.
LEMMA FetchKeepsWhole ==
  ASSUME NEW ch, Whole(ch), RegistersOK, ch.bytesRemain > 0
  PROVE  /\ Whole(Fetched(ch))
         /\ Fetched(ch).stall = ch.stall + FetchStall
         /\ Fetched(ch).bufferEmpty = FALSE
         /\ Fetched(ch).silence = ch.silence /\ Fetched(ch).bitsRemain = ch.bitsRemain
<1>0. /\ AddrTop \in Nat /\ AddrWrap \in 0 .. AddrTop /\ FetchStall \in Nat
      /\ SampleAddrs \subseteq AddrWrap .. AddrTop
      /\ SampleLengths \subseteq 1 .. AddrTop - AddrWrap + 1
  BY DMCAssumption DEF DMCAssumption
<1>1. /\ ch \in ChannelType /\ ch.sample \in [at : 0 .. AddrTop, length : Nat]
      /\ ch.sample.at >= AddrWrap /\ ch.sample.length <= AddrTop - AddrWrap + 1
      /\ ch.taken + ch.bytesRemain = ch.sample.length /\ ch.taken \in Nat
      /\ ch.currentAddr = ByteOf(ch.sample, ch.taken)
      /\ ch.bytesRemain \in Nat \ {0} /\ ch.irqPending = FALSE
  BY DEF Whole, ChannelType
<1> DEFINE again == [at |-> sampleAddrReg, length |-> sampleLenReg]
           told == ch.irqPending \/ (ch.bytesRemain = 1 /\ irqEnable)
           looped == [ch EXCEPT !.bufferEmpty = FALSE, !.stall = @ + FetchStall,
                        !.currentAddr = sampleAddrReg, !.bytesRemain = sampleLenReg,
                        !.sample = again, !.taken = 0]
           plain == [ch EXCEPT !.bufferEmpty = FALSE, !.stall = @ + FetchStall,
                       !.currentAddr = NextAddr(@), !.bytesRemain = @ - 1, !.taken = @ + 1,
                       !.irqPending = told]
<1>2. CASE ch.bytesRemain = 1 /\ loop
  <2>1. Fetched(ch) = looped
    BY <1>1, <1>2 DEF Fetched, ChannelType
  <2>2. /\ looped.currentAddr = sampleAddrReg /\ looped.bytesRemain = sampleLenReg
        /\ looped.sample = again /\ looped.taken = 0 /\ looped.irqPending = FALSE
        /\ looped.stall = ch.stall + FetchStall /\ looped.bufferEmpty = FALSE
        /\ looped.silence = ch.silence /\ looped.bitsRemain = ch.bitsRemain
    BY <1>1 DEF ChannelType
  <2>3. /\ sampleAddrReg \in AddrWrap .. AddrTop
        /\ sampleLenReg \in 1 .. AddrTop - AddrWrap + 1
    BY <1>0 DEF RegistersOK
  <2>4. looped \in ChannelType
    <3>1. again \in [at : 0 .. AddrTop, length : Nat] /\ ch.stall + FetchStall \in Nat
      BY <1>0, <1>1, <2>3 DEF ChannelType
    <3>2. sampleAddrReg \in 0 .. AddrTop /\ sampleLenReg \in Nat
      BY <1>0, <2>3
    <3> HIDE DEF again
    <3> QED
      BY <1>1, <3>1, <3>2, ReadAgainType
  <2>5. ByteOf(again, 0) = sampleAddrReg
    BY <1>0, <2>3 DEF ByteOf
  <2> HIDE DEF looped
  <2>6. Whole(looped)
    BY <1>0, <2>2, <2>3, <2>4, <2>5 DEF Whole
  <2> QED
    BY <2>1, <2>2, <2>6
<1>3. CASE ~(ch.bytesRemain = 1 /\ loop)
  <2>1. Fetched(ch) = plain
    BY <1>1, <1>3 DEF Fetched, ChannelType
  <2>2. /\ plain.currentAddr = NextAddr(ch.currentAddr) /\ plain.bytesRemain = ch.bytesRemain - 1
        /\ plain.sample = ch.sample /\ plain.taken = ch.taken + 1
        /\ plain.irqPending = (ch.irqPending \/ (ch.bytesRemain = 1 /\ irqEnable))
        /\ plain.stall = ch.stall + FetchStall /\ plain.bufferEmpty = FALSE
        /\ plain.silence = ch.silence /\ plain.bitsRemain = ch.bitsRemain
    BY <1>1 DEF ChannelType
  <2>3. NextAddr(ch.currentAddr) \in 0 .. AddrTop
    BY <1>0, <1>1 DEF NextAddr, ChannelType
  <2>4. plain.irqPending \in BOOLEAN
    BY <2>2, <1>1 DEF RegistersOK
  <2>5. plain \in ChannelType
    <3>1. ch.taken + 1 \in Nat /\ ch.bytesRemain - 1 \in Nat /\ ch.stall + FetchStall \in Nat
      BY <1>0, <1>1 DEF ChannelType
    <3>2. told \in BOOLEAN
      BY <1>1 DEF RegistersOK
    <3> HIDE DEF told
    <3> QED
      BY <1>1, <2>3, <3>1, <3>2, ReadOnType
  <2>6. ch.bytesRemain > 1 => NextAddr(ch.currentAddr) = ByteOf(ch.sample, ch.taken + 1)
    BY <1>1, NextByte
  <2> HIDE DEF plain
  <2>7. plain.bytesRemain > 0 =>
          /\ plain.sample.at >= AddrWrap /\ plain.sample.length <= AddrTop - AddrWrap + 1
          /\ plain.taken + plain.bytesRemain = plain.sample.length
          /\ plain.currentAddr = ByteOf(plain.sample, plain.taken)
    BY <1>1, <2>2, <2>6
  <2>8. plain.irqPending =>
          irqEnable /\ plain.bytesRemain = 0 /\ plain.taken = plain.sample.length
    <3>1. plain.irqPending => irqEnable /\ ch.bytesRemain = 1
      BY <1>1, <2>2
    <3>2. ch.bytesRemain = 1 => plain.bytesRemain = 0 /\ plain.taken = plain.sample.length
      BY <1>1, <2>2
    <3> QED
      BY <3>1, <3>2
  <2> QED
    BY <2>1, <2>2, <2>5, <2>7, <2>8 DEF Whole
<1> QED
  BY <1>2, <1>3

\* The reader leaves the buffer full if there is a byte, and moves what it costs from the
\* fetch to come to the charge.
LEMMA ReaderServes ==
  ASSUME NEW ch, Whole(ch), RegistersOK
  PROVE  /\ Whole(Served(ch))
         /\ \A n \in Nat : Charged(ch, n) => Charged(Served(ch), n)
         /\ ch.bytesRemain > 0 => Served(ch).bufferEmpty = FALSE
         /\ Served(ch).silence = ch.silence /\ Served(ch).bitsRemain = ch.bitsRemain
<1>0. FetchStall \in Nat /\ ch.stall \in Nat /\ ch.bufferEmpty \in BOOLEAN
  BY DMCAssumption DEF DMCAssumption, Whole, ChannelType
<1>1. CASE ch.bytesRemain > 0 /\ ch.bufferEmpty
  <2>1. Served(ch) = Fetched(ch)
    BY <1>1 DEF Served
  <2>2. /\ Fetched(ch).stall = ch.stall + FetchStall /\ Fetched(ch).bufferEmpty = FALSE
        /\ Whole(Fetched(ch)) /\ Fetched(ch).silence = ch.silence
        /\ Fetched(ch).bitsRemain = ch.bitsRemain
    BY <1>1, FetchKeepsWhole
  <2>3. ASSUME NEW n \in Nat, Charged(ch, n) PROVE Charged(Fetched(ch), n)
    <3>1. ch.stall + FetchStall <= n * FetchStall
      BY <1>1, <2>3 DEF Charged
    <3>2. Fetched(ch).stall + 0 <= n * FetchStall
      BY <1>0, <2>2, <3>1
    <3> QED
      BY <2>2, <3>2 DEF Charged
  <2> QED
    BY <2>1, <2>2, <2>3
<1>2. CASE ~(ch.bytesRemain > 0 /\ ch.bufferEmpty)
  <2>1. Served(ch) = ch
    BY <1>2 DEF Served
  <2> QED
    BY <1>0, <1>2, <2>1
<1> QED
  BY <1>1, <1>2

\* A tick: only the last bit of a byte empties the buffer.
LEMMA TickShifts ==
  ASSUME NEW ch, Whole(ch)
  PROVE  LET out == ShiftedOut(ch)
         IN /\ Whole(out)
            /\ ch.bitsRemain > 1 => out.bufferEmpty = ch.bufferEmpty /\ out.silence = ch.silence
                                    /\ out.bitsRemain = ch.bitsRemain - 1
            /\ ch.bitsRemain = 1 => out.silence = ch.bufferEmpty /\ out.bitsRemain = BitsPerByte
            /\ out.stall = ch.stall
<1>0. ch \in ChannelType /\ BitsPerByte \in Nat \ {0} /\ ch.bitsRemain \in 1 .. BitsPerByte
  BY DMCAssumption DEF DMCAssumption, Whole, ChannelType
<1>1. CASE ch.bitsRemain > 1
  <2> DEFINE out == [ch EXCEPT !.bitsRemain = @ - 1]
  <2>1. out = ShiftedOut(ch)
    BY <1>1 DEF ShiftedOut
  <2>2. /\ out \in ChannelType /\ out.bitsRemain = ch.bitsRemain - 1
        /\ out.bufferEmpty = ch.bufferEmpty /\ out.silence = ch.silence /\ out.stall = ch.stall
        /\ out.bytesRemain = ch.bytesRemain /\ out.sample = ch.sample /\ out.taken = ch.taken
        /\ out.currentAddr = ch.currentAddr /\ out.irqPending = ch.irqPending
    BY <1>0, <1>1 DEF ChannelType
  <2> HIDE DEF out
  <2>3. Whole(out)
    BY <2>2 DEF Whole
  <2> QED
    BY <1>1, <2>1, <2>2, <2>3
<1>2. CASE ch.bitsRemain = 1
  <2> DEFINE out == [ch EXCEPT !.bitsRemain = BitsPerByte, !.silence = ch.bufferEmpty,
                       !.bufferEmpty = TRUE]
  <2>1. out = ShiftedOut(ch)
    BY <1>2 DEF ShiftedOut
  <2>2. /\ out \in ChannelType /\ out.bitsRemain = BitsPerByte
        /\ out.silence = ch.bufferEmpty /\ out.stall = ch.stall
        /\ out.bytesRemain = ch.bytesRemain /\ out.sample = ch.sample /\ out.taken = ch.taken
        /\ out.currentAddr = ch.currentAddr /\ out.irqPending = ch.irqPending
    <3>1. ch.bufferEmpty \in BOOLEAN /\ BitsPerByte \in 1 .. BitsPerByte
      BY <1>0 DEF ChannelType
    <3>2. out \in ChannelType
      BY <1>0, <3>1, ShiftedType
    <3> QED
      BY <1>0, <3>2 DEF ChannelType
  <2> HIDE DEF out
  <2>3. Whole(out)
    BY <2>2 DEF Whole
  <2> QED
    BY <1>2, <2>1, <2>2, <2>3
<1> QED
  BY <1>0, <1>1, <1>2

\* Ticks of the timer a window of the console is sure not to hold more of than a byte has
\* bits: rounded up, so that every rate keeps at least this distance.
Spacing == (Instruction + BitsPerByte - 1) \div BitsPerByte

LEMMA SpacingBounds ==
  /\ Spacing \in Nat /\ Instruction <= BitsPerByte * Spacing
  /\ \A r \in Rates : r \in Nat /\ Spacing <= r + 1
<1> DEFINE B == BitsPerByte
           S == Spacing
           e == Instruction + B - 1
<1>1. /\ B \in Nat \ {0} /\ Instruction \in Nat /\ Rates \subseteq Nat
      /\ \A r \in Rates : Instruction <= B * (r + 1)
  BY DMCAssumption DEF DMCAssumption
<1>2. S \in Int /\ e % B \in 0 .. B - 1 /\ e = B * S + (e % B)
  <2>1. e \in Int /\ B \in Nat \ {0}
    BY <1>1
  <2>2. S = e \div B
    BY DEF Spacing
  <2> HIDE DEF e, S
  <2> QED
    BY <2>1, <2>2, DivMod
<1>3. B * S \in Int /\ B * (S + 1) = B * S + B
  BY <1>1, <1>2, SMT
<1> HIDE DEF S
<1>4. Instruction <= B * S
  BY <1>1, <1>2, <1>3
<1>5. S >= 0
  <2>1. CASE S <= -1
    <3>1. B * S <= -B
      BY <1>1, <1>2, <2>1, SMT
    <3> QED
      BY <1>1, <1>3, <1>4, <3>1
  <2> QED
    BY <1>2, <2>1
<1>6. ASSUME NEW r \in Rates PROVE S <= r + 1
  <2>1. CASE S >= r + 2
    <3>1. r \in Nat
      BY <1>1
    <3>2. B * S >= B * (r + 2)
      <4>1. B * (S - (r + 2)) >= 0
        BY <1>1, <1>2, <2>1, <3>1, SMT
      <4> QED
        BY <1>1, <1>2, <3>1, <4>1, SMT
    <3>3. B * (r + 2) = B * (r + 1) + B /\ B * (r + 1) \in Int
      BY <1>1, <3>1, SMT
    <3>4. Instruction <= B * (r + 1)
      BY <1>1
    <3> QED
      BY <1>1, <1>2, <1>3, <3>2, <3>3, <3>4
  <2> QED
    BY <1>1, <1>2, <2>1
<1> QED
  BY <1>1, <1>2, <1>4, <1>5, <1>6 DEF S

\* Cycles the channel needs at least until the last bit of its byte is out, whatever
\* rates are written until then.
Reach(left, t) == (left - 1) * Spacing + (IF t + 1 <= Spacing THEN t + 1 ELSE Spacing)

\* A second fetch that is possible follows a tick of this window: another last bit is
\* further away than the window is long.
Budget(ch, t, w) ==
  /\ Charged(ch, 2)
  /\ Charged(ch, 1) \/ Reach(ch.bitsRemain, t) + w > BitsPerByte * Spacing

DMCInv ==
  /\ RegistersOK /\ Whole(Channel)
  /\ timerValue \in Nat /\ waited \in 0 .. Instruction
  /\ Budget(Channel, timerValue, waited)

LEMMA DMCInvSound == DMCInv => SampleSound
<1> SUFFICES ASSUME DMCInv PROVE SampleSound
  OBVIOUS
<1>1. /\ Channel \in ChannelType
      /\ Channel.currentAddr = currentAddr /\ Channel.bytesRemain = bytesRemain
      /\ Channel.sample = sample /\ Channel.taken = taken /\ Channel.bufferEmpty = bufferEmpty
      /\ Channel.silence = silence /\ Channel.bitsRemain = bitsRemain
      /\ Channel.irqPending = irqPending /\ Channel.stall = stall
  BY DEF DMCInv, Whole, Channel
<1>2. DMCTypeOK
  BY <1>1 DEF DMCInv, DMCTypeOK, RegistersOK, ChannelType
<1>3. SampleWhole
  BY <1>1 DEF DMCInv, Whole, SampleWhole, ByteOf, ByteAt
<1>4. StallBounded
  <2>1. Channel.stall + (IF Channel.bufferEmpty THEN FetchStall ELSE 0) <= 2 * FetchStall
    BY DEF DMCInv, Budget, Charged
  <2> QED
    BY <1>1, <2>1, DMCAssumption DEF DMCAssumption, StallBounded, ChannelType
<1> QED
  BY <1>2, <1>3, <1>4 DEF SampleSound

LEMMA DMCStarts == DMCInit => DMCInv
<1> SUFFICES ASSUME DMCInit PROVE DMCInv
  OBVIOUS
<1>0. /\ AddrTop \in Nat /\ FetchStall \in Nat /\ BitsPerByte \in Nat \ {0}
      /\ Instruction \in Nat
  BY DMCAssumption DEF DMCAssumption
<1>1. /\ Channel \in ChannelType /\ Channel.bytesRemain = 0 /\ Channel.irqPending = FALSE
      /\ Channel.stall = 0
  <2>1. /\ currentAddr = 0 /\ bytesRemain = 0 /\ sample = [at |-> 0, length |-> 0] /\ taken = 0
        /\ bufferEmpty = TRUE /\ silence = TRUE /\ bitsRemain = BitsPerByte
        /\ irqPending = FALSE /\ stall = 0
    BY DEF DMCInit
  <2>2. sample \in [at : 0 .. AddrTop, length : Nat] /\ bitsRemain \in 1 .. BitsPerByte
    BY <1>0, <2>1
  <2> QED
    BY <1>0, <2>1, <2>2 DEF Channel, ChannelType
<1>2. Whole(Channel)
  BY <1>1 DEF Whole
<1>3. Charged(Channel, 1) /\ Charged(Channel, 2)
  BY <1>0, <1>1 DEF Charged
<1>4. RegistersOK
  BY DEF DMCInit, RegistersOK
<1>5. timerValue \in Nat /\ waited \in 0 .. Instruction
  BY <1>0 DEF DMCInit
<1> QED
  BY <1>2, <1>3, <1>4, <1>5 DEF DMCInv, Budget

\* A write of a rate or a wait of the console never shortens the way to the last bit.
LEMMA ReachOfRate ==
  ASSUME NEW left \in 1 .. BitsPerByte, NEW t \in Nat, NEW r \in Rates
  PROVE  /\ Reach(left, r) = (left - 1) * Spacing + Spacing
         /\ Reach(left, t) \in Int /\ Reach(left, r) \in Int /\ Reach(left, t) <= Reach(left, r)
<1>1. BitsPerByte \in Nat \ {0}
  BY DMCAssumption DEF DMCAssumption
<1>2. (left - 1) * Spacing \in Int
  BY <1>1, SpacingBounds, SMT
<1>3. r \in Nat /\ Spacing <= r + 1 /\ Spacing \in Nat
  BY SpacingBounds
<1> QED
  BY <1>1, <1>2, <1>3 DEF Reach

LEMMA DMCCycleKeeps == DMCInv /\ DMCCycle => DMCInv' /\ (silence' /\ ~silence => bytesRemain = 0)
<1> SUFFICES ASSUME DMCInv, DMCCycle
             PROVE  DMCInv' /\ (silence' /\ ~silence => bytesRemain = 0)
  OBVIOUS
<1>0. /\ BitsPerByte \in Nat \ {0} /\ Instruction \in Nat /\ FetchStall \in Nat
      /\ Spacing \in Nat /\ Instruction <= BitsPerByte * Spacing /\ rateIdx \in Rates
      /\ rateIdx \in Nat /\ timerValue \in Nat /\ waited \in 0 .. Instruction
      /\ waited < Instruction /\ waited' = waited + 1 /\ RegistersOK /\ Whole(Channel)
      /\ Charged(Channel, 2)
      /\ timerValue' = IF timerValue = 0 THEN rateIdx ELSE timerValue - 1
  BY DMCAssumption, SpacingBounds
  DEF DMCAssumption, DMCInv, DMCCycle, RegistersOK, Budget
<1> DEFINE first == Served(Channel)
           out == ShiftedOut(first)
<1>1. /\ Whole(first) /\ first.silence = silence /\ first.bitsRemain = bitsRemain
      /\ Charged(first, 2) /\ (Charged(Channel, 1) => Charged(first, 1))
      /\ bytesRemain > 0 => first.bufferEmpty = FALSE
  <2>1. /\ Channel.silence = silence /\ Channel.bitsRemain = bitsRemain
        /\ Channel.bytesRemain = bytesRemain
    BY DEF Channel
  <2> HIDE DEF first
  <2> QED
    BY <1>0, <2>1, ReaderServes DEF first
<1>2. /\ AfterCycle = IF timerValue = 0 THEN Served(out) ELSE first
  BY DEF AfterCycle
<1>3. bitsRemain \in 1 .. BitsPerByte /\ bytesRemain \in Nat /\ silence \in BOOLEAN
  BY <1>0 DEF Whole, Channel, ChannelType
<1> DEFINE far == Reach(bitsRemain, timerValue) + waited > BitsPerByte * Spacing
<1>4. Charged(first, 1) \/ far
  BY <1>1 DEF DMCInv, Budget, Channel
<1> HIDE DEF first
<1>5. /\ Whole(AfterCycle)
      /\ Budget(AfterCycle, timerValue', waited')
      /\ AfterCycle.silence /\ ~silence => bytesRemain = 0
  <2>1. CASE timerValue > 0
    <3>1. AfterCycle = first /\ timerValue' = timerValue - 1
      BY <1>0, <1>2, <2>1
    <3>2. far => Reach(bitsRemain, timerValue') + waited' > BitsPerByte * Spacing
      <4>1. (bitsRemain - 1) * Spacing \in Int /\ BitsPerByte * Spacing \in Int
        BY <1>0, <1>3, SMT
      <4> QED
        BY <1>0, <2>1, <3>1, <4>1 DEF Reach
    <3> QED
      BY <1>1, <1>4, <3>1, <3>2 DEF Budget
  <2>2. CASE timerValue = 0
    <3>1. AfterCycle = Served(out) /\ timerValue' = rateIdx
      BY <1>0, <1>2, <2>2
    <3>2. Whole(out) /\ out.stall = first.stall
      BY <1>1, TickShifts
    <3>3. Whole(AfterCycle) /\ AfterCycle.silence = out.silence
          /\ AfterCycle.bitsRemain = out.bitsRemain
          /\ (Charged(out, 1) => Charged(AfterCycle, 1))
          /\ (Charged(out, 2) => Charged(AfterCycle, 2))
      <4> HIDE DEF out
      <4> QED
        BY <1>0, <3>1, <3>2, ReaderServes
    <3>4. CASE bitsRemain > 1
      <4>1. /\ out.bufferEmpty = first.bufferEmpty /\ out.silence = silence
            /\ out.bitsRemain = bitsRemain - 1
        BY <1>1, <3>4, TickShifts
      <4>2. Charged(out, 2) /\ (Charged(first, 1) => Charged(out, 1))
        <5> HIDE DEF out
        <5> QED
          BY <1>1, <3>2, <4>1 DEF Charged
      <4> HIDE DEF out
      <4>3. far => Reach(bitsRemain - 1, timerValue') + waited' > BitsPerByte * Spacing
        <5>1. /\ (bitsRemain - 1) * Spacing \in Int /\ BitsPerByte * Spacing \in Int
              /\ (bitsRemain - 2) * Spacing \in Int
              /\ (bitsRemain - 2) * Spacing + Spacing = (bitsRemain - 1) * Spacing
          BY <1>0, <1>3, SMT
        <5>2. /\ bitsRemain - 1 \in 1 .. BitsPerByte
              /\ (bitsRemain - 1) - 1 = bitsRemain - 2
          BY <1>0, <1>3, <3>4
        <5>3. Reach(bitsRemain - 1, timerValue') = (bitsRemain - 2) * Spacing + Spacing
          BY <1>0, <3>1, <5>2, ReachOfRate
        <5>4. Reach(bitsRemain, timerValue) <= (bitsRemain - 1) * Spacing + 1
          BY <1>0, <2>2, <5>1 DEF Reach
        <5>5. Reach(bitsRemain, timerValue) \in Int
          BY <1>0, <1>3, ReachOfRate
        <5> QED
          BY <1>0, <5>1, <5>3, <5>4, <5>5
      <4> QED
        BY <1>4, <3>3, <4>1, <4>2, <4>3 DEF Budget
    <3>5. CASE bitsRemain = 1
      <4>1. out.silence = first.bufferEmpty /\ out.bitsRemain = BitsPerByte
        BY <1>1, <3>5, TickShifts
      <4>2. ~far
        <5>1. Reach(bitsRemain, timerValue) <= 1 /\ Reach(bitsRemain, timerValue) \in Int
          <6>1. (1 - 1) * Spacing = 0
            BY <1>0, SMT
          <6> QED
            BY <1>0, <2>2, <3>5, <6>1 DEF Reach
        <5>2. BitsPerByte * Spacing \in Int
          BY <1>0, SMT
        <5> QED
          BY <1>0, <5>1, <5>2
      <4>3. Charged(first, 1)
        BY <1>4, <4>2
      <4>4. Charged(out, 2)
        <5>1. first.stall \in Nat /\ first.bufferEmpty \in BOOLEAN
          BY <1>1 DEF Whole, ChannelType
        <5>2. first.stall <= FetchStall
          BY <1>0, <4>3, <5>1 DEF Charged
        <5>3. out.stall \in Nat /\ out.stall <= FetchStall
          BY <3>2, <5>1, <5>2
        <5> HIDE DEF out
        <5> QED
          BY <1>0, <5>3 DEF Charged
      <4> HIDE DEF out
      <4>5. Reach(BitsPerByte, timerValue') + waited' > BitsPerByte * Spacing
        <5>1. Reach(BitsPerByte, timerValue') = (BitsPerByte - 1) * Spacing + Spacing
          BY <1>0, <3>1, ReachOfRate
        <5>2. /\ (BitsPerByte - 1) * Spacing + Spacing = BitsPerByte * Spacing
              /\ BitsPerByte * Spacing \in Int
          BY <1>0, SMT
        <5> QED
          BY <1>0, <5>1, <5>2
      <4>6. bytesRemain > 0 => out.silence = FALSE
        BY <1>1, <4>1
      <4> QED
        BY <1>3, <3>3, <4>1, <4>4, <4>5, <4>6 DEF Budget
    <3> QED
      BY <1>3, <3>4, <3>5
  <2> QED
    BY <1>0, <2>1, <2>2
<1>6. Channel' = AfterCycle
  <2>1. AfterCycle \in ChannelType
    BY <1>5 DEF Whole
  <2> HIDE DEF AfterCycle
  <2>2. Channel' = [currentAddr |-> AfterCycle.currentAddr, bytesRemain |-> AfterCycle.bytesRemain,
                    sample |-> AfterCycle.sample, taken |-> AfterCycle.taken,
                    bufferEmpty |-> AfterCycle.bufferEmpty, silence |-> AfterCycle.silence,
                    bitsRemain |-> AfterCycle.bitsRemain, irqPending |-> AfterCycle.irqPending,
                    stall |-> AfterCycle.stall]
    BY DEF DMCCycle, Channel
  <2> QED
    BY <2>1, <2>2 DEF ChannelType
<1>7. UNCHANGED dmcRegisters
  BY DEF DMCCycle
<1>8. RegistersOK' /\ timerValue' \in Nat /\ waited' \in 0 .. Instruction
  BY <1>0, <1>7 DEF RegistersOK, dmcRegisters
<1>9. Whole(Channel)'
  <2>1. \A ch : Whole(ch) => Whole(ch)'
    BY <1>7 DEF Whole, dmcRegisters
  <2> QED
    BY <1>5, <1>6, <1>7 DEF Whole, dmcRegisters
<1>10. Budget(Channel, timerValue, waited)'
  BY <1>5, <1>6 DEF Budget, Charged, Reach
<1>11. silence' = AfterCycle.silence
  BY DEF DMCCycle
<1> QED
  BY <1>5, <1>8, <1>9, <1>10, <1>11 DEF DMCInv

\* The registers and the console.
LEMMA DMCWritesKeep ==
  ASSUME DMCInv,
         \/ \E enable, again \in BOOLEAN, rate \in Rates : WriteRate(enable, again, rate)
         \/ \E at \in SampleAddrs, length \in SampleLengths : WriteSample(at, length)
         \/ \E on \in BOOLEAN : WriteDMCControl(on)
         \/ ConsumeCPUStallCycles
         \/ UNCHANGED dmcVars
  PROVE  DMCInv' /\ silence' = silence
<1> USE DEF dmcVars, dmcRegisters, readerVars, outputVars
<1>0. /\ Channel \in ChannelType
      /\ currentAddr \in 0 .. AddrTop /\ bytesRemain \in Nat
      /\ sample \in [at : 0 .. AddrTop, length : Nat] /\ taken \in Nat
      /\ bufferEmpty \in BOOLEAN /\ silence \in BOOLEAN /\ bitsRemain \in 1 .. BitsPerByte
      /\ irqPending \in BOOLEAN /\ stall \in Nat /\ FetchStall \in Nat
      /\ Instruction \in Nat /\ BitsPerByte \in Nat \ {0}
      /\ timerValue \in Nat /\ waited \in 0 .. Instruction
  BY DMCAssumption DEF DMCInv, Whole, Channel, ChannelType, DMCAssumption
<1>1. CASE \E enable, again \in BOOLEAN, rate \in Rates : WriteRate(enable, again, rate)
  <2> PICK enable \in BOOLEAN, again \in BOOLEAN, rate \in Rates : WriteRate(enable, again, rate)
    BY <1>1
  <2>1. /\ irqEnable' = enable /\ irqPending' = (irqPending /\ enable) /\ loop' = again
        /\ rateIdx' = rate /\ timerValue' = rate
        /\ UNCHANGED <<sampleAddrReg, sampleLenReg, readerVars, bufferEmpty, silence,
                       bitsRemain, stall, waited>>
    BY DEF WriteRate
  <2>2. RegistersOK' /\ timerValue' \in Nat /\ waited' \in 0 .. Instruction
    BY <1>0, <2>1, SpacingBounds DEF DMCInv, RegistersOK
  <2>3. Channel' \in ChannelType
    BY <1>0, <2>1 DEF Channel, ChannelType
  <2>4. Whole(Channel)'
    BY <2>1, <2>3 DEF DMCInv, Whole, Channel
  <2>5. Reach(bitsRemain, timerValue) <= Reach(bitsRemain, timerValue')
        /\ Reach(bitsRemain, timerValue) \in Int /\ Reach(bitsRemain, timerValue') \in Int
    BY <1>0, <2>1, ReachOfRate
  <2>6. BitsPerByte * Spacing \in Int
    BY <1>0, SpacingBounds, SMT
  <2>7. Budget(Channel, timerValue, waited)'
    BY <1>0, <2>1, <2>5, <2>6 DEF DMCInv, Budget, Charged, Channel, Reach
  <2> QED
    BY <2>1, <2>2, <2>4, <2>7 DEF DMCInv
<1>2. CASE \E at \in SampleAddrs, length \in SampleLengths : WriteSample(at, length)
  <2>1. RegistersOK'
    BY <1>2 DEF WriteSample, DMCInv, RegistersOK
  <2>2. Channel' = Channel /\ UNCHANGED <<irqEnable, timerValue, waited>> /\ silence' = silence
    BY <1>2 DEF WriteSample, Channel
  <2> QED
    BY <2>1, <2>2 DEF DMCInv, Whole, Budget, Charged, Reach
<1>3. CASE \E on \in BOOLEAN : WriteDMCControl(on)
  <2>1. /\ irqPending' = FALSE /\ UNCHANGED <<dmcRegisters, outputVars, stall, waited>>
        /\ \/ bytesRemain' = 0 /\ UNCHANGED <<currentAddr, sample, taken>>
           \/ /\ currentAddr' = sampleAddrReg /\ bytesRemain' = sampleLenReg
              /\ sample' = [at |-> sampleAddrReg, length |-> sampleLenReg] /\ taken' = 0
           \/ UNCHANGED readerVars
    BY <1>3 DEF WriteDMCControl, RestartDMC
  <2>2. /\ AddrTop \in Nat /\ AddrWrap \in 0 .. AddrTop
        /\ sampleAddrReg \in AddrWrap .. AddrTop /\ sampleLenReg \in 1 .. AddrTop - AddrWrap + 1
    BY DMCAssumption DEF DMCAssumption, DMCInv, RegistersOK
  <2>3. /\ currentAddr' \in 0 .. AddrTop /\ bytesRemain' \in Nat
        /\ sample' \in [at : 0 .. AddrTop, length : Nat] /\ taken' \in Nat
    BY <1>0, <2>1, <2>2
  <2>4. Channel' \in ChannelType
    BY <1>0, <2>1, <2>3 DEF Channel, ChannelType
  <2>5. bytesRemain' > 0 =>
          /\ sample'.at >= AddrWrap /\ sample'.length <= AddrTop - AddrWrap + 1
          /\ taken' + bytesRemain' = sample'.length
          /\ currentAddr' = ByteOf(sample', taken')
    BY <1>0, <2>1, <2>2 DEF DMCInv, Whole, Channel, ByteOf
  <2>6. Whole(Channel)'
    BY <2>1, <2>4, <2>5 DEF Whole, Channel
  <2>7. RegistersOK' /\ Budget(Channel, timerValue, waited)'
    BY <2>1 DEF DMCInv, RegistersOK, Budget, Charged, Reach, Channel
  <2> QED
    BY <1>0, <2>1, <2>6, <2>7 DEF DMCInv
<1>4. CASE ConsumeCPUStallCycles
  <2>1. stall' = 0 /\ waited' = 0 /\ UNCHANGED <<dmcRegisters, irqPending, readerVars, outputVars>>
    BY <1>4 DEF ConsumeCPUStallCycles
  <2>2. Channel' \in ChannelType
    BY <1>0, <2>1 DEF Channel, ChannelType
  <2>3. RegistersOK' /\ Whole(Channel)'
    BY <2>1, <2>2 DEF DMCInv, RegistersOK, Whole, Channel
  <2>4. Charged(Channel, 1)' /\ Charged(Channel, 2)'
    BY <1>0, <2>1 DEF Charged, Channel
  <2> QED
    BY <1>0, <2>1, <2>3, <2>4 DEF DMCInv, Budget
<1>5. CASE UNCHANGED dmcVars
  BY <1>5 DEF DMCInv, RegistersOK, Whole, Budget, Charged, Reach, Channel
<1> QED
  BY <1>1, <1>2, <1>3, <1>4, <1>5

\* The sample player (serviceDMCReader, tickDMC, restartDMC) plays the bytes the registers
\* named, all of them and in order, and never charges the CPU more than two fetches at
\* once, for every rate table, sample and length of an instruction.
THEOREM SamplesAreWhole == DMCSpec => []SampleSound
<1>1. DMCInv /\ [DMCNext]_dmcVars => DMCInv'
  BY DMCCycleKeeps, DMCWritesKeep DEF DMCNext
<1> QED
  BY DMCStarts, DMCInvSound, <1>1, PTL DEF DMCSpec

\* Between the bytes of a sample the output unit never falls silent (tickDMC with the
\* reader before and behind it), for every rate, also while samples are restarted.
THEOREM SamplesHaveNoGap == DMCSpec => NoGapInSample
<1>1. DMCInv /\ [DMCNext]_dmcVars => DMCInv'
  BY DMCCycleKeeps, DMCWritesKeep DEF DMCNext
<1>2. DMCInv /\ [DMCNext]_dmcVars => [silence' /\ ~silence => bytesRemain = 0]_dmcVars
  <2>1. DMCInv /\ DMCCycle => (silence' /\ ~silence => bytesRemain = 0)
    BY DMCCycleKeeps
  <2> QED
    BY <2>1, DMCWritesKeep DEF DMCNext
<1> QED
  BY DMCStarts, <1>1, <1>2, PTL DEF DMCSpec, NoGapInSample

-----------------------------------------------------------------------------
(* The interrupt counters of the boards.                                   *)

IRQTypes ==
  /\ irq \in [latch : 0 .. CounterTop, counter : 0 .. CounterTop, reload : BOOLEAN,
              enable : BOOLEAN, ack : BOOLEAN, prescaler : 0 .. Period, pending : BOOLEAN]
  /\ line \in 0 .. Lines - 1 /\ loaded \in 0 .. CounterTop /\ since \in Nat

\* The lines of the picture begun in this frame.
Shown == IF Visible THEN line ELSE VisibleLines

\* Dots of VRC's counter since it was loaded with l: it is at c, and so is its prescaler at p.
Dots(c, l, p) == Period * (c - l) + (Period - p)

\* What each board's counter has counted.
CounterInv ==
  /\ irq.pending => irq.enable
  /\ Mapper = 4 => irq.counter = loaded - since
  /\ Mapper = 5 => irq.counter = (since + Shown) % (CounterTop + 1)
  /\ Mapper \in VRC => /\ irq.prescaler > 0
                       /\ since = Dots(irq.counter, loaded, irq.prescaler)

IRQInv == IRQTypes /\ CounterInv

\* The action of IRQOnItsLine.
RaisedWhenDue ==
  IF Clocked THEN irq'.pending <=> (irq.pending \/ (irq.enable /\ Due))
             ELSE irq'.pending => irq.pending

LEMMA Numbers ==
  /\ CounterTop \in Nat /\ VisibleLines \in 1 .. CounterTop + 1
  /\ Lines \in Nat /\ Lines > VisibleLines /\ Period \in Nat /\ Period > 3
BY CartridgeAssumption DEF CartridgeAssumption

LEMMA IRQStart == Init => IRQInv
<1> SUFFICES ASSUME Init PROVE IRQInv
  OBVIOUS
<1>1. /\ irq = [latch |-> 0, counter |-> 0, reload |-> FALSE, enable |-> FALSE, ack |-> FALSE,
                prescaler |-> IF Mapper \in VRC THEN Period ELSE 0, pending |-> FALSE]
      /\ line = 0 /\ loaded = 0 /\ since = 0
  BY DEF Init
<1>2. IRQTypes
  BY <1>1, Numbers DEF IRQTypes
<1>4. Shown = 0 /\ (since + Shown) % (CounterTop + 1) = 0
  <2>1. Shown = 0
    BY <1>1, Numbers DEF Shown, Visible
  <2>2. CounterTop + 1 \in Nat \ {0}
    BY Numbers
  <2> QED
    BY <1>1, <2>1, <2>2, DivModZero
<1>3. Mapper \in VRC => since = Dots(irq.counter, loaded, irq.prescaler)
  <2>1. Dots(0, 0, Period) = 0
    BY Numbers DEF Dots
  <2> QED
    BY <1>1, <2>1
<1> QED
  BY <1>1, <1>2, <1>3, <1>4, Numbers DEF IRQInv, CounterInv

\* A line is followed by another one.
LEMMA LinesMove == ASSUME IRQTypes PROVE NextLine \in 0 .. Lines - 1 /\ NextLine # line
<1>1. Lines \in Nat /\ Lines > 1 /\ line \in 0 .. Lines - 1
  BY Numbers DEF IRQTypes
<1> QED
  BY <1>1 DEF NextLine

LEMMA QuietKeeps ==
  ASSUME IRQInv, UNCHANGED board, UNCHANGED irqVars PROVE IRQInv' /\ RaisedWhenDue
BY LinesMove DEF IRQInv, IRQTypes, CounterInv, Shown, Visible, Mapper, irqVars, RaisedWhenDue,
   Clocked

\* Dots rounded down to whole turns of the prescaler.
LEMMA DotsRounded ==
  ASSUME NEW c \in Nat, NEW l \in Nat, NEW p \in 1 .. Period, NEW d \in Nat, d = Dots(c, l, p)
  PROVE  d - (d % Period) = Dots(c, l, Period) /\ d - (d % Period) \in Nat
<1> DEFINE q == d \div Period
           r == d % Period
<1>0. Period \in Nat \ {0} /\ d \in Int
  BY Numbers
<1>1. q \in Int /\ r \in 0 .. Period - 1 /\ d = Period * q + r /\ Period \in Nat \ {0}
  BY <1>0, DivMod
<1>2. Period - p \in 0 .. Period - 1 /\ c - l \in Int /\ d = Period * (c - l) + (Period - p)
  BY Numbers DEF Dots
<1> HIDE DEF q, r
<1>3. q = c - l /\ r = Period - p
  BY <1>1, <1>2, DivModUnique
<1>4. Dots(c, l, Period) = Period * (c - l)
  BY <1>1 DEF Dots
<1>5. d - r = Period * q /\ Period * q \in Int
  BY <1>1
<1>6. q >= 0
  <2>1. q < 0 => Period * q <= -Period
    BY <1>1
  <2> QED
    BY <1>1, <2>1
<1>7. Period * q >= 0
  BY <1>1, <1>6
<1> QED
  BY <1>3, <1>4, <1>5, <1>7 DEF r

\* Registers that set up an interrupt or take it back.
RegisterWrite ==
  \/ WriteLatch \/ MMC3AskReload \/ MMC3Disable \/ MMC3Enable
  \/ MMC5Enable \/ MMC5Status \/ VRCControl \/ VRCAcknowledge

LEMMA RegistersKeep == ASSUME IRQInv, RegisterWrite PROVE IRQInv' /\ RaisedWhenDue
<1> USE Numbers DEF IRQInv, IRQTypes, CounterInv, SetIRQ, NotLoaded
<1>1. UNCHANGED <<board, line>> /\ ~Clocked /\ Shown' = Shown /\ Mapper' = Mapper
  BY LinesMove DEF RegisterWrite, WriteLatch, MMC3AskReload, MMC3Disable, MMC3Enable, MMC5Enable,
     MMC5Status, VRCControl, VRCAcknowledge, Clocked, Mapper, Shown, Visible
<1>2. CASE WriteLatch
  BY <1>1, <1>2 DEF WriteLatch, RaisedWhenDue
<1>3. CASE MMC3AskReload \/ MMC3Disable \/ MMC3Enable
  BY <1>1, <1>3 DEF MMC3AskReload, MMC3Disable, MMC3Enable, RaisedWhenDue, VRC
<1>4. CASE MMC5Enable \/ MMC5Status
  BY <1>1, <1>4 DEF MMC5Enable, MMC5Status, RaisedWhenDue, VRC
<1>5. CASE VRCControl
  <2>1. \A l \in Nat : Dots(l, l, Period) = 0
    BY DEF Dots
  <2> QED
    <3>1. /\ Mapper \in VRC /\ Mapper \notin {4, 5}
          /\ irq.latch \in Nat /\ irq.latch \in 0 .. CounterTop
          /\ Dots(irq.latch, irq.latch, Period) = 0
      BY <1>5, <2>1 DEF VRCControl, VRC
    <3>2. PICK on \in BOOLEAN, ack \in BOOLEAN :
            LET new == [irq EXCEPT !.enable = on, !.ack = ack, !.pending = FALSE] IN
            IF on THEN /\ SetIRQ([new EXCEPT !.counter = irq.latch, !.prescaler = Period])
                       /\ loaded' = irq.latch /\ since' = 0
                  ELSE SetIRQ(new) /\ NotLoaded
      BY <1>5 DEF VRCControl
    <3>3. CASE on
      <4>1. /\ irq' = [latch |-> irq.latch, counter |-> irq.latch, reload |-> irq.reload,
                       enable |-> TRUE, ack |-> ack, prescaler |-> Period, pending |-> FALSE]
            /\ loaded' = irq.latch /\ since' = 0
        BY <3>2, <3>3
      <4> QED
        BY <1>1, <3>1, <4>1 DEF RaisedWhenDue
    <3>4. CASE ~on
      BY <1>1, <3>1, <3>2, <3>4 DEF RaisedWhenDue
    <3> QED
      BY <3>3, <3>4
<1>6. CASE VRCAcknowledge
  <2>1. /\ Mapper \in VRC /\ Mapper \notin {4, 5}
        /\ since = Dots(irq.counter, loaded, irq.prescaler)
        /\ irq.counter \in Nat /\ loaded \in Nat /\ irq.prescaler \in 1 .. Period /\ since \in Nat
    BY <1>6 DEF VRCAcknowledge, VRC
  <2>2. /\ since - (since % Period) = Dots(irq.counter, loaded, Period)
        /\ since - (since % Period) \in Nat
    BY <2>1, DotsRounded
  <2>3. /\ irq' = [latch |-> irq.latch, counter |-> irq.counter, reload |-> irq.reload,
                   enable |-> irq.ack, ack |-> irq.ack, prescaler |-> Period, pending |-> FALSE]
        /\ loaded' = loaded /\ since' = since - (since % Period)
    BY <1>6 DEF VRCAcknowledge
  <2> HIDE DEF SetIRQ
  <2> QED
    BY <1>1, <2>1, <2>2, <2>3 DEF RaisedWhenDue
<1> QED
  BY <1>2, <1>3, <1>4, <1>5, <1>6 DEF RegisterWrite

LEMMA MMC3LineKeeps == ASSUME IRQInv, MMC3Line PROVE IRQInv' /\ RaisedWhenDue
<1> USE Numbers DEF IRQInv, IRQTypes, CounterInv
<1>1. Mapper = 4 /\ Mapper' = Mapper /\ line' = NextLine /\ NextLine \in 0 .. Lines - 1
  BY LinesMove DEF MMC3Line, Mapper
<1>2. CASE UNCHANGED <<irq, loaded, since>>
  BY <1>1, <1>2 DEF RaisedWhenDue, Clocked, VRC
<1>3. CASE MMC3Clock
  <2> DEFINE reload == irq.counter = 0 \/ irq.reload
             counter == IF reload THEN irq.latch ELSE irq.counter - 1
  <2>1. /\ irq' = [latch |-> irq.latch, counter |-> counter, reload |-> FALSE,
                   enable |-> irq.enable, ack |-> irq.ack, prescaler |-> irq.prescaler,
                   pending |-> irq.pending \/ (counter = 0 /\ irq.enable)]
        /\ loaded' = (IF reload THEN irq.latch ELSE loaded)
        /\ since' = (IF reload THEN 0 ELSE since + 1)
    BY <1>3 DEF MMC3Clock
  <2>2. counter \in 0 .. CounterTop /\ counter = loaded' - since'
    BY <1>1, <2>1
  <2>3. loaded' \in 0 .. CounterTop /\ since' \in Nat
    BY <2>1
  <2> HIDE DEF counter, reload
  <2>4. IRQInv'
    BY <1>1, <2>1, <2>2, <2>3 DEF VRC
  <2>5. Due <=> counter = 0
    BY <1>1, <2>2, <2>3 DEF Due
  <2> QED
    <3>1. irq'.pending <=> (irq.pending \/ (irq.enable /\ Due))
      BY <2>1, <2>5
    <3>2. ~Clocked => irq' = irq
      BY <1>1 DEF Clocked
    <3> HIDE DEF IRQInv
    <3> QED
      BY <2>4, <3>1, <3>2 DEF RaisedWhenDue
<1> QED
  BY <1>2, <1>3 DEF MMC3Line

LEMMA NextModulo ==
  ASSUME NEW m \in Nat \ {0}, NEW x \in Nat PROVE (x + 1) % m = ((x % m) + 1) % m
<1>1. x % m \in 0 .. m - 1
  BY DivMod
<1>2. CASE (x % m) + 1 < m
  <2>1. ((x % m) + 1) % m = (x % m) + 1
    BY <1>1, <1>2
  <2> QED
    BY <1>2, <2>1, DivModNext
<1>3. CASE (x % m) + 1 >= m
  <2>1. (x % m) + 1 = m /\ (x + 1) % m = 0
    BY <1>3, DivModNext
  <2>2. m % m = 0
    OBVIOUS
  <2> QED
    BY <2>1, <2>2
<1> QED
  BY <1>1, <1>2, <1>3

LEMMA MMC5LineKeeps == ASSUME IRQInv, MMC5Line PROVE IRQInv' /\ RaisedWhenDue
<1> USE Numbers DEF IRQInv, IRQTypes, CounterInv
<1>1. Mapper = 5 /\ Mapper' = Mapper /\ line' = NextLine /\ NextLine \in 0 .. Lines - 1
  BY LinesMove DEF MMC5Line, Mapper
<1>2. CASE Visible
  <2>1. NextLine = line + 1 /\ NextLine # 0 /\ since' = since /\ loaded' = loaded
    BY <1>2 DEF MMC5Line, NextLine, Visible
  <2>2. irq.counter = (since + line) % (CounterTop + 1) /\ since + line \in Nat
    BY <1>1, <1>2 DEF Shown, Visible
  <2>3. (since + (line + 1)) % (CounterTop + 1) = (irq.counter + 1) % (CounterTop + 1)
    <3>1. CounterTop + 1 \in Nat \ {0} /\ since + (line + 1) = (since + line) + 1
      OBVIOUS
    <3> QED
      BY <2>2, <3>1, NextModulo
  <2>4. irq' = [latch |-> irq.latch, counter |-> (irq.counter + 1) % (CounterTop + 1),
                reload |-> irq.reload, enable |-> irq.enable, ack |-> irq.ack,
                prescaler |-> irq.prescaler,
                pending |-> irq.pending \/ (irq.counter = irq.latch /\ irq.enable)]
    BY <1>2 DEF MMC5Line
  <2>5. (irq.counter + 1) % (CounterTop + 1) \in 0 .. CounterTop
    OBVIOUS
  <2>6. Shown' = line + 1
    BY <1>1, <1>2, <2>1 DEF Shown, Visible
  <2>7. IRQInv'
    <3> DEFINE next == (irq.counter + 1) % (CounterTop + 1)
    <3>1. next \in 0 .. CounterTop /\ next = (since' + Shown') % (CounterTop + 1)
      BY <2>1, <2>3, <2>5, <2>6
    <3>2. irq'.counter = next /\ irq' \in [latch : 0 .. CounterTop, counter : 0 .. CounterTop,
            reload : BOOLEAN, enable : BOOLEAN, ack : BOOLEAN, prescaler : 0 .. Period,
            pending : BOOLEAN]
      BY <2>4, <2>5
    <3>3. irq'.pending => irq'.enable
      BY <2>4
    <3> HIDE DEF next
    <3> QED
      BY <1>1, <2>1, <3>1, <3>2, <3>3 DEF VRC
  <2>8. Due <=> irq.counter = irq.latch
    BY <1>1, <1>2, <2>2 DEF Due
  <2> QED
    BY <1>1, <2>4, <2>7, <2>8 DEF RaisedWhenDue, Clocked
<1>3. CASE ~Visible
  <2>1. ~Due
    BY <1>1, <1>3 DEF Due
  <2>2. CASE NextLine = 0
    <3>1. irq' = [irq EXCEPT !.counter = 0] /\ since' = 0 /\ loaded' = loaded
      BY <1>3, <2>2 DEF MMC5Line
    <3>2. Shown' = 0 /\ 0 % (CounterTop + 1) = 0
      BY <1>1, <2>2 DEF Shown, Visible
    <3> QED
      BY <1>1, <2>1, <2>2, <3>1, <3>2 DEF RaisedWhenDue, VRC
  <2>3. CASE NextLine # 0
    <3>1. irq' = irq /\ since' = since /\ loaded' = loaded
      BY <1>3, <2>3 DEF MMC5Line
    <3>2. Shown' = Shown
      BY <1>1, <1>3, <2>3 DEF Shown, Visible, NextLine
    <3> QED
      BY <1>1, <2>1, <3>1, <3>2 DEF RaisedWhenDue, VRC
  <2> QED
    BY <2>2, <2>3
<1> QED
  BY <1>2, <1>3

\* The dots counted when VRC's counter turns.
LEMMA DotsTop ==
  ASSUME NEW c \in 0 .. CounterTop, NEW l \in 0 .. CounterTop, NEW p \in 1 .. Period
  PROVE  LET d == Dots(c, l, p) IN
         /\ d \in Int
         /\ d + 3 >= Period * (CounterTop + 1 - l) <=> p <= 3 /\ c = CounterTop
         /\ Dots(c, l, p - 3) = d + 3
         /\ Dots(c + 1, l, p - 3 + Period) = d + 3
         /\ c = CounterTop => d + 3 - Period * (CounterTop + 1 - l) = 3 - p
         /\ \A k \in Nat : Dots(k, k, p - 3 + Period) = 3 - p
<1> DEFINE top == Period * (CounterTop - c)
           turns == Period * (c - l)
<1>1. /\ top \in Int /\ turns \in Int /\ Dots(c, l, p) = turns + (Period - p)
      /\ Period * (CounterTop + 1 - l) = turns + top + Period
  BY Numbers DEF Dots
<1>2. IF c = CounterTop THEN top = 0 ELSE top >= Period
  BY Numbers
<1>3. Period * (c + 1 - l) = turns + Period
  BY Numbers
<1>4. \A k \in Nat : Period * (k - k) = 0
  BY Numbers
<1> HIDE DEF top, turns
<1>5. Dots(c, l, p - 3) = turns + (Period - (p - 3))
  BY DEF Dots, turns
<1>6. Dots(c + 1, l, p - 3 + Period) = turns + Period + (Period - (p - 3 + Period))
  BY <1>3 DEF Dots
<1>7. \A k \in Nat : Dots(k, k, p - 3 + Period) = 3 - p
  BY <1>4, Numbers DEF Dots
<1> QED
  BY <1>1, <1>2, <1>5, <1>6, <1>7, Numbers

LEMMA VRCLineKeeps == ASSUME IRQInv, VRCLine PROVE IRQInv' /\ RaisedWhenDue
<1> USE Numbers DEF IRQInv, IRQTypes, CounterInv
<1>1. /\ Mapper \in VRC /\ Mapper' = Mapper /\ Mapper \notin {4, 5}
      /\ line' = NextLine /\ NextLine \in 0 .. Lines - 1
  BY LinesMove DEF VRCLine, Mapper, VRC
<1>2. CASE UNCHANGED <<irq, loaded, since>>
  BY <1>1, <1>2 DEF RaisedWhenDue, Clocked
<1>3. CASE VRCClock /\ irq.enable
  <2> DEFINE over == irq.prescaler - 3 <= 0
             wraps == over /\ irq.counter = CounterTop
  <2>1. /\ irq' = [latch |-> irq.latch,
                   counter |-> IF wraps THEN irq.latch
                               ELSE IF over THEN irq.counter + 1 ELSE irq.counter,
                   reload |-> irq.reload, enable |-> irq.enable, ack |-> irq.ack,
                   prescaler |-> IF over THEN irq.prescaler - 3 + Period ELSE irq.prescaler - 3,
                   pending |-> irq.pending \/ wraps]
        /\ loaded' = IF wraps THEN irq.latch ELSE loaded
        /\ since' = IF wraps THEN since + 3 - Period * (CounterTop + 1 - loaded) ELSE since + 3
    BY <1>3 DEF VRCClock
  <2> HIDE DEF over, wraps
  <2>2. /\ irq.counter \in 0 .. CounterTop /\ irq.latch \in 0 .. CounterTop
        /\ irq.prescaler \in 1 .. Period
        /\ since = Dots(irq.counter, loaded, irq.prescaler)
        /\ over <=> irq.prescaler <= 3
        /\ wraps <=> irq.prescaler <= 3 /\ irq.counter = CounterTop
    BY <1>1 DEF over, wraps
  <2>3. Due <=> wraps
    <3>1. Due <=> since + 3 >= Period * (CounterTop + 1 - loaded)
      BY <1>1 DEF Due
    <3> QED
      BY <2>2, <3>1, DotsTop
  <2>4. /\ wraps => since' = Dots(irq.latch, irq.latch, irq.prescaler - 3 + Period)
        /\ ~wraps /\ over => since' = Dots(irq.counter + 1, loaded, irq.prescaler - 3 + Period)
        /\ ~over => since' = Dots(irq.counter, loaded, irq.prescaler - 3)
        /\ since' \in Nat
    <3>1. /\ irq.counter = CounterTop
               => since + 3 - Period * (CounterTop + 1 - loaded) = 3 - irq.prescaler
          /\ Dots(irq.counter, loaded, irq.prescaler - 3) = since + 3
          /\ Dots(irq.counter + 1, loaded, irq.prescaler - 3 + Period) = since + 3
      <4> DEFINE c == irq.counter
                 p == irq.prescaler
      <4>1. c \in 0 .. CounterTop /\ loaded \in 0 .. CounterTop /\ p \in 1 .. Period
            /\ since = Dots(c, loaded, p)
        BY <2>2
      <4> HIDE DEF c, p
      <4>2. /\ c = CounterTop => since + 3 - Period * (CounterTop + 1 - loaded) = 3 - p
            /\ Dots(c, loaded, p - 3) = since + 3
            /\ Dots(c + 1, loaded, p - 3 + Period) = since + 3
        BY <4>1, DotsTop
      <4> QED
        BY <4>2 DEF c, p
    <3>4. Dots(irq.latch, irq.latch, irq.prescaler - 3 + Period) = 3 - irq.prescaler
      BY <2>2, DotsTop
    <3>2. CASE wraps
      BY <2>1, <2>2, <3>1, <3>2, <3>4
    <3>3. CASE ~wraps
      BY <2>1, <2>2, <3>1, <3>3, <3>4
    <3> QED
      BY <3>2, <3>3
  <2>5. IRQInv'
    <3>1. /\ irq'.counter \in 0 .. CounterTop /\ loaded' \in 0 .. CounterTop
          /\ irq'.prescaler \in 1 .. Period /\ since' \in Nat
          /\ since' = Dots(irq'.counter, loaded', irq'.prescaler)
      <4>1. CASE wraps
        BY <2>1, <2>2, <2>4, <4>1
      <4>2. CASE ~wraps /\ over
        BY <2>1, <2>2, <2>4, <4>2
      <4>3. CASE ~over
        BY <2>1, <2>2, <2>4, <4>3
      <4> QED
        BY <4>1, <4>2, <4>3
    <3>2. /\ irq' = [latch |-> irq.latch, counter |-> irq'.counter, reload |-> irq.reload,
                     enable |-> irq.enable, ack |-> irq.ack, prescaler |-> irq'.prescaler,
                     pending |-> irq.pending \/ wraps]
          /\ wraps \in BOOLEAN
      BY <2>1 DEF wraps
    <3>3. irq' \in [latch : 0 .. CounterTop, counter : 0 .. CounterTop, reload : BOOLEAN,
                    enable : BOOLEAN, ack : BOOLEAN, prescaler : 0 .. Period, pending : BOOLEAN]
      BY <3>1, <3>2
    <3>4. irq'.pending => irq'.enable
      BY <1>3, <2>1
    <3> QED
      BY <1>1, <3>1, <3>3, <3>4
  <2> QED
    <3>1. irq'.pending <=> (irq.pending \/ (irq.enable /\ Due))
      BY <1>3, <2>1, <2>3
    <3>2. ~Clocked => irq' = irq
      BY <1>1 DEF Clocked
    <3> QED
      BY <2>5, <3>1, <3>2 DEF RaisedWhenDue
<1> QED
  BY <1>2, <1>3 DEF VRCLine, VRCClock

LEMMA OthersKeep == ASSUME IRQInv, PlainLine \/ Reset PROVE IRQInv' /\ RaisedWhenDue
<1> USE Numbers DEF IRQInv, IRQTypes, CounterInv
<1>1. CASE PlainLine
  BY <1>1, LinesMove DEF PlainLine, Mapper, RaisedWhenDue, Clocked
<1>2. CASE Reset
  <2>1. line' = 0 /\ irq' = irq /\ loaded' = loaded /\ Mapper' = Mapper /\ Shown' = 0
    BY <1>2 DEF Reset, Mapper, Shown, Visible
  <2>2. CASE Mapper # 5
    BY <1>2, <2>1, <2>2 DEF Reset, RaisedWhenDue, Clocked
  <2>3. CASE Mapper = 5
    <3>1. since' = irq.counter
      BY <1>2, <2>3 DEF Reset, Shown
    <3>2. (irq.counter + 0) % (CounterTop + 1) = irq.counter
      OBVIOUS
    <3>3. Clocked => ~Visible
      BY <2>1 DEF Clocked, NextLine, Visible
    <3> QED
      BY <2>1, <2>3, <3>1, <3>2, <3>3 DEF RaisedWhenDue, Due, VRC
  <2> QED
    BY <2>2, <2>3
<1> QED
  BY <1>1, <1>2

LEMMA IRQKeeps == IRQInv /\ [Next]_vars => IRQInv' /\ [RaisedWhenDue]_vars
<1> SUFFICES ASSUME IRQInv, [Next]_vars PROVE IRQInv' /\ [RaisedWhenDue]_vars
  OBVIOUS
<1>1. CASE UNCHANGED vars
  BY <1>1, QuietKeeps DEF vars
<1>2. CASE WriteOneRegister \/ WriteMapper33 \/ WriteMapper75 \/ WriteMMC3Banks
           \/ WriteVRCBanks \/ WriteMMC5Banks
  BY <1>2, QuietKeeps DEF WriteOneRegister, WriteMapper33, WriteMapper75, WriteMMC3Banks,
     WriteVRCBanks, WriteMMC5Banks, BankWrite
<1>3. CASE MMC1Reset \/ \E b \in 0 .. 1 : MMC1Bit(b) \/ (\E r \in 0 .. 3 : MMC1Load(r, b))
  BY <1>3, QuietKeeps DEF MMC1Reset, MMC1Bit, MMC1Load
<1>4. CASE RegisterWrite
  BY <1>4, RegistersKeep
<1>5. CASE MMC3Line \/ MMC5Line \/ VRCLine \/ PlainLine \/ Reset
  BY <1>5, MMC3LineKeeps, MMC5LineKeeps, VRCLineKeeps, OthersKeep
<1> QED
  BY <1>1, <1>2, <1>3, <1>4, <1>5 DEF Next, RegisterWrite

\* The counters of MMC3, MMC5 and VRC (Cartridge.mmc3ClockIRQ, mmc5ClockScanline,
\* vrcClockIRQ) raise their interrupt with the clock at which it is due and only then,
\* whatever the program writes and acknowledges and whenever it resets the console.
THEOREM IRQsAreOnTheirLine == Spec => IRQOnItsLine
<1>1. IRQInv => (irq.pending => irq.enable)
  BY DEF IRQInv, CounterInv
<1> QED
  BY <1>1, IRQStart, IRQKeeps, PTL DEF Spec, IRQOnItsLine, RaisedWhenDue

-----------------------------------------------------------------------------
(* The bits in MMC1's port.                                                *)

\* The bits taken so far, above them the marker.
PortInv ==
  Mapper = 1 =>
    \/ bits = <<>> /\ shift = 16
    \/ \E a \in 0 .. 1 : bits = <<a>> /\ shift = 8 * (1 + 2 * a)
    \/ \E a, b \in 0 .. 1 : bits = <<a, b>> /\ shift = 4 * (1 + 2 * (a + 2 * b))
    \/ \E a, b, c \in 0 .. 1 : bits = <<a, b, c>> /\ shift = 2 * (1 + 2 * (a + 2 * b + 4 * c))
    \/ \E a, b, c, d \in 0 .. 1 :
         bits = <<a, b, c, d>> /\ shift = 1 + 2 * (a + 2 * b + 4 * c + 8 * d)

LEMMA Powers == 2 ^ 0 = 1 /\ 2 ^ 1 = 2 /\ 2 ^ 2 = 4 /\ 2 ^ 3 = 8 /\ 2 ^ 4 = 16
OBVIOUS

\* The marker comes down to the lowest bit with the fourth bit, and the fifth is the
\* highest of the value.
LEMMA MarkerMoves ==
  ASSUME PortInv, Mapper = 1, NEW e \in 0 .. 1
  PROVE  /\ Len(bits) <= 4 /\ shift = 2 ^ (4 - Len(bits)) * (1 + 2 * Value(bits))
         /\ Len(bits) = 4 => Shifted(e) = Value(Append(bits, e))
         /\ shift % 2 = 0 /\ bits' = Append(bits, e) /\ shift' = Shifted(e) => PortInv'
<1> DEFINE Goal ==
             /\ Len(bits) <= 4 /\ shift = 2 ^ (4 - Len(bits)) * (1 + 2 * Value(bits))
             /\ Len(bits) = 4 => Shifted(e) = Value(Append(bits, e))
             /\ shift % 2 = 0 /\ bits' = Append(bits, e) /\ shift' = Shifted(e) => PortInv'
<1>1. ASSUME bits = <<>>, shift = 16
     PROVE  Goal
  <2>1. Len(bits) = 0 /\ Append(bits, e) = <<e>> /\ Value(bits) = 0
    <3>1. Append(<<>>, e) = <<e>>
      OBVIOUS
    <3>2. Value(<<>>) = 0
      BY <1>1, Powers DEF Value
    <3>3. Len(bits) = 0
      BY <1>1
    <3> QED
      BY <1>1, <3>1, <3>2, <3>3
  <2>2. Shifted(e) = 8 * (1 + 2 * e)
    BY <1>1 DEF Shifted
  <2>3. bits' = Append(bits, e) /\ shift' = Shifted(e) => PortInv'
    BY <2>1, <2>2 DEF PortInv
  <2> QED
    BY <1>1, <2>1, <2>2, <2>3, Powers
<1>2. ASSUME NEW a \in 0 .. 1,
            bits = <<a>>, shift = 8 * (1 + 2 * a)
     PROVE  Goal
  <2>1. Len(bits) = 1 /\ Append(bits, e) = <<a, e>> /\ Value(bits) = a
    <3>1. Append(<<a>>, e) = <<a, e>>
      <4> DEFINE s == Append(<<a>>, e)
                 t == <<a, e>>
      <4>1. s \in Seq(0 .. 1) /\ t \in Seq(0 .. 1) /\ Len(s) = Len(t)
        BY <1>2
      <4>2. \A i \in 1 .. Len(s) : s[i] = t[i]
        OBVIOUS
      <4> HIDE DEF s, t
      <4>3. s = t
        BY <4>1, <4>2
      <4> QED
        BY <4>3 DEF s, t
    <3>2. Value(<<a>>) = a
      BY <1>2, Powers DEF Value
    <3>3. Len(bits) = 1
      BY <1>2
    <3> QED
      BY <1>2, <3>1, <3>2, <3>3
  <2>2. Shifted(e) = 4 * (1 + 2 * (a + 2 * e))
    BY <1>2 DEF Shifted
  <2>3. bits' = Append(bits, e) /\ shift' = Shifted(e) => PortInv'
    BY <2>1, <2>2 DEF PortInv
  <2> QED
    BY <1>2, <2>1, <2>2, <2>3, Powers
<1>3. ASSUME NEW a \in 0 .. 1, NEW b \in 0 .. 1,
            bits = <<a, b>>, shift = 4 * (1 + 2 * (a + 2 * b))
     PROVE  Goal
  <2>1. Len(bits) = 2 /\ Append(bits, e) = <<a, b, e>> /\ Value(bits) = a + 2 * b
    <3>1. Append(<<a, b>>, e) = <<a, b, e>>
      <4> DEFINE s == Append(<<a, b>>, e)
                 t == <<a, b, e>>
      <4>1. s \in Seq(0 .. 1) /\ t \in Seq(0 .. 1) /\ Len(s) = Len(t)
        BY <1>3
      <4>2. \A i \in 1 .. Len(s) : s[i] = t[i]
        OBVIOUS
      <4> HIDE DEF s, t
      <4>3. s = t
        BY <4>1, <4>2
      <4> QED
        BY <4>3 DEF s, t
    <3>2. Value(<<a, b>>) = a + 2 * b
      BY <1>3, Powers DEF Value
    <3>3. Len(bits) = 2
      BY <1>3
    <3> QED
      BY <1>3, <3>1, <3>2, <3>3
  <2>2. Shifted(e) = 2 * (1 + 2 * (a + 2 * b + 4 * e))
    BY <1>3 DEF Shifted
  <2>3. bits' = Append(bits, e) /\ shift' = Shifted(e) => PortInv'
    BY <2>1, <2>2 DEF PortInv
  <2> QED
    BY <1>3, <2>1, <2>2, <2>3, Powers
<1>4. ASSUME NEW a \in 0 .. 1, NEW b \in 0 .. 1, NEW c \in 0 .. 1,
            bits = <<a, b, c>>, shift = 2 * (1 + 2 * (a + 2 * b + 4 * c))
     PROVE  Goal
  <2>1. Len(bits) = 3 /\ Append(bits, e) = <<a, b, c, e>> /\ Value(bits) = a + 2 * b + 4 * c
    <3>1. Append(<<a, b, c>>, e) = <<a, b, c, e>>
      <4> DEFINE s == Append(<<a, b, c>>, e)
                 t == <<a, b, c, e>>
      <4>1. s \in Seq(0 .. 1) /\ t \in Seq(0 .. 1) /\ Len(s) = Len(t)
        BY <1>4
      <4>2. \A i \in 1 .. Len(s) : s[i] = t[i]
        OBVIOUS
      <4> HIDE DEF s, t
      <4>3. s = t
        BY <4>1, <4>2
      <4> QED
        BY <4>3 DEF s, t
    <3>2. Value(<<a, b, c>>) = a + 2 * b + 4 * c
      BY <1>4, Powers DEF Value
    <3>3. Len(bits) = 3
      BY <1>4
    <3> QED
      BY <1>4, <3>1, <3>2, <3>3
  <2>2. Shifted(e) = 1 + 2 * (a + 2 * b + 4 * c + 8 * e)
    BY <1>4 DEF Shifted
  <2>3. bits' = Append(bits, e) /\ shift' = Shifted(e) => PortInv'
    BY <2>1, <2>2 DEF PortInv
  <2> QED
    BY <1>4, <2>1, <2>2, <2>3, Powers
<1>5. ASSUME NEW a \in 0 .. 1, NEW b \in 0 .. 1, NEW c \in 0 .. 1, NEW d \in 0 .. 1,
            bits = <<a, b, c, d>>, shift = 1 + 2 * (a + 2 * b + 4 * c + 8 * d)
     PROVE  Goal
  <2>1. /\ Len(bits) = 4 /\ Append(bits, e) = <<a, b, c, d, e>>
        /\ Value(bits) = a + 2 * b + 4 * c + 8 * d
    <3>1. Append(<<a, b, c, d>>, e) = <<a, b, c, d, e>>
      <4> DEFINE s == Append(<<a, b, c, d>>, e)
                 t == <<a, b, c, d, e>>
      <4>1. s \in Seq(0 .. 1) /\ t \in Seq(0 .. 1) /\ Len(s) = Len(t)
        BY <1>5
      <4>2. \A i \in 1 .. Len(s) : s[i] = t[i]
        OBVIOUS
      <4> HIDE DEF s, t
      <4>3. s = t
        BY <4>1, <4>2
      <4> QED
        BY <4>3 DEF s, t
    <3>2. Value(<<a, b, c, d>>) = a + 2 * b + 4 * c + 8 * d
      BY <1>5, Powers DEF Value
    <3>3. Len(bits) = 4
      BY <1>5
    <3> QED
      BY <1>5, <3>1, <3>2, <3>3
  <2>2. Shifted(e) = a + 2 * b + 4 * c + 8 * d + 16 * e /\ shift % 2 = 1
    BY <1>5 DEF Shifted
  <2>3. Value(Append(bits, e)) = a + 2 * b + 4 * c + 8 * d + 16 * e
    <3>1. Value(<<a, b, c, d, e>>) = a + 2 * b + 4 * c + 8 * d + 16 * e
      BY <1>5, Powers DEF Value
    <3> QED
      BY <2>1, <3>1
  <2> QED
    BY <1>5, <2>1, <2>2, <2>3, Powers
<1> HIDE DEF Goal
<1>6. Goal
  BY <1>1, <1>2, <1>3, <1>4, <1>5 DEF PortInv
<1> QED
  BY <1>6 DEF Goal

LEMMA PortKeeps == PortInv /\ [Next]_vars => PortInv'
<1> SUFFICES ASSUME PortInv, [Next]_vars PROVE PortInv'
  OBVIOUS
<1>1. CASE UNCHANGED <<board, serialVars>>
  BY <1>1 DEF PortInv, Mapper, serialVars
<1>2. CASE MMC1Reset \/ \E b \in 0 .. 1, r \in 0 .. 3 : MMC1Load(r, b)
  <2>1. shift' = 16 /\ bits' = <<>>
    BY <1>2 DEF MMC1Reset, MMC1Load
  <2> QED
    BY <2>1 DEF PortInv
<1>3. ASSUME NEW e \in 0 .. 1, MMC1Bit(e) PROVE PortInv'
  <2>1. Mapper = 1 /\ Mapper' = 1 /\ shift % 2 = 0 /\ shift' = Shifted(e) /\ bits' = Append(bits, e)
    BY <1>3 DEF MMC1Bit, Mapper
  <2> QED
    BY <2>1, MarkerMoves
<1>4. CASE WriteOneRegister \/ WriteMapper33 \/ WriteMapper75
           \/ WriteMMC3Banks \/ WriteVRCBanks \/ WriteMMC5Banks
  BY <1>1, <1>4 DEF WriteOneRegister, WriteMapper33, WriteMapper75, WriteMMC3Banks,
     WriteVRCBanks, WriteMMC5Banks, BankWrite
<1>5. CASE WriteLatch \/ MMC3AskReload \/ MMC3Disable \/ MMC3Enable
           \/ MMC5Enable \/ MMC5Status \/ VRCControl \/ VRCAcknowledge
  BY <1>1, <1>5 DEF WriteLatch, MMC3AskReload, MMC3Disable, MMC3Enable, MMC5Enable,
     MMC5Status, VRCControl, VRCAcknowledge, SetIRQ
<1>6. CASE MMC3Line \/ MMC5Line \/ VRCLine \/ PlainLine \/ Reset
  BY <1>1, <1>6 DEF MMC3Line, MMC5Line, VRCLine, PlainLine, Reset
<1>7. CASE UNCHANGED vars
  BY <1>1, <1>7 DEF vars
<1>8. CASE Next
  BY <1>2, <1>3, <1>4, <1>5, <1>6, <1>8 DEF Next
<1> QED
  BY <1>7, <1>8

\* The bits in MMC1's shift register (Cartridge.mmc1Write) are those written
\* since it was last reset or filled, in their order behind its marker, and the fifth
\* write makes a value of these and its own; for every board and every order of writes.
THEOREM PortHoldsBits == Spec => []SerialPort
<1>1. Init => PortInv
  <2>1. Init => shift = 16 /\ bits = <<>>
    BY DEF Init
  <2> QED
    BY <2>1 DEF PortInv
<1>2. PortInv => SerialPort
  BY MarkerMoves DEF SerialPort
<1> QED
  BY <1>1, <1>2, PortKeeps, PTL DEF Spec

-----------------------------------------------------------------------------
(* A sound channel: its length, its level and its sweep.                   *)

LEMMA ShiftPowers == \A s \in 0 .. 7 : 2 ^ s \in Nat \ {0}
<1> SUFFICES ASSUME NEW s \in 0 .. 7 PROVE 2 ^ s \in Nat \ {0}
  OBVIOUS
<1>1. \/ s = 0 \/ s = 1 \/ s = 2 \/ s = 3 \/ s = 4 \/ s = 5 \/ s = 6 \/ s = 7
  OBVIOUS
<1>2. /\ 2 ^ 0 \in Nat \ {0} /\ 2 ^ 1 \in Nat \ {0} /\ 2 ^ 2 \in Nat \ {0} /\ 2 ^ 3 \in Nat \ {0}
      /\ 2 ^ 4 \in Nat \ {0} /\ 2 ^ 5 \in Nat \ {0} /\ 2 ^ 6 \in Nat \ {0} /\ 2 ^ 7 \in Nat \ {0}
  OBVIOUS
<1> QED
  BY <1>1, <1>2

LEMMA ChannelNumbers ==
  /\ DecayTop \in Nat \ {0} /\ LowSize \in Nat \ {0} /\ HighSize \in Nat \ {0}
  /\ MinTimer \in Nat \ {0} /\ MaxTicks \in Nat
  /\ LowSize * HighSize \in Nat \ {0} /\ TimerTop \in Nat
<1>1. /\ DecayTop \in Nat \ {0} /\ LowSize \in Nat \ {0} /\ HighSize \in Nat \ {0}
      /\ MinTimer \in Nat \ {0} /\ MaxTicks \in Nat
  BY ChannelAssumption, SMT DEF ChannelAssumption
<1>2. LowSize * HighSize \in Nat \ {0}
  BY <1>1, SMT
<1> DEFINE size == LowSize * HighSize
<1>3. size \in Nat \ {0} /\ TimerTop = size - 1
  BY <1>2 DEF TimerTop
<1> HIDE DEF size
<1>4. TimerTop \in Nat
  BY <1>3
<1> QED
  BY <1>1, <1>2, <1>4

LEMMA TimersFit == TimerTop + TimerTop + 1 < 65536
<1> DEFINE size == LowSize * HighSize
<1>1. size \in Nat \ {0} /\ TimerTop = size - 1
  BY ChannelNumbers DEF TimerTop
<1>2. size <= 32768
  BY ChannelAssumption, SMT DEF ChannelAssumption
<1> HIDE DEF size
<1> QED
  BY <1>1, <1>2, SMT

\* What a low byte or high bits make of a timer stays within its bits.
LEMMA TimerParts ==
  ASSUME NEW t \in 0 .. TimerTop
  PROVE  /\ \A low \in 0 .. LowSize - 1 : LowSize * (t \div LowSize) + low \in 0 .. TimerTop
         /\ \A high \in 0 .. HighSize - 1 : LowSize * high + (t % LowSize) \in 0 .. TimerTop
<1>1. ASSUME NEW q \in 0 .. HighSize - 1, NEW low \in 0 .. LowSize - 1
      PROVE  LowSize * q + low \in 0 .. TimerTop
  <2>1. LowSize * q >= 0 /\ LowSize * q \in Int
    BY ChannelNumbers, SMT
  <2>2. LowSize * q <= LowSize * (HighSize - 1)
    <3>1. LowSize * ((HighSize - 1) - q) >= 0
      BY ChannelNumbers, SMT
    <3> QED
      BY <3>1, ChannelNumbers, SMT
  <2>3. LowSize * (HighSize - 1) = LowSize * HighSize - LowSize
    BY ChannelNumbers, SMT
  <2> DEFINE a == LowSize * q
             size == LowSize * HighSize
             b == LowSize * (HighSize - 1)
  <2>4. /\ a >= 0 /\ a \in Int /\ a <= b /\ b = size - LowSize /\ TimerTop = size - 1
        /\ LowSize \in Nat /\ size \in Nat
    BY <2>1, <2>2, <2>3, ChannelNumbers DEF TimerTop
  <2> HIDE DEF a, b, size
  <2>5. a + low \in 0 .. TimerTop
    BY <2>4
  <2> QED
    BY <2>5 DEF a
<1> DEFINE q == t \div LowSize
           r == t % LowSize
<1>2. q \in Int /\ r \in 0 .. LowSize - 1 /\ t = LowSize * q + r
  BY ChannelNumbers, DivMod
<1> HIDE DEF q, r
<1>3. q \in 0 .. HighSize - 1
  <2>1. ASSUME q <= -1 PROVE FALSE
    <3>1. LowSize * q <= -LowSize
      BY <1>2, <2>1, ChannelNumbers, SMT
    <3> QED
      BY <1>2, <3>1, ChannelNumbers
  <2>2. ASSUME q >= HighSize PROVE FALSE
    <3>1. LowSize * q >= LowSize * HighSize
      <4>1. LowSize * (q - HighSize) >= 0
        BY <1>2, <2>2, ChannelNumbers, SMT
      <4> QED
        BY <1>2, <4>1, ChannelNumbers, SMT
    <3> QED
      BY <1>2, <3>1, ChannelNumbers DEF TimerTop
  <2> QED
    BY <1>2, <2>1, <2>2, ChannelNumbers
<1> QED
  BY <1>1, <1>2, <1>3 DEF q, r

\* The step of a sweep is no more than the timer.
LEMMA SweepStep ==
  ASSUME NEW t \in 0 .. TimerTop, NEW s \in Shifts \union {0}
  PROVE  t \div (2 ^ s) \in 0 .. t
<1>1. s \in 0 .. 7
  BY ChannelAssumption DEF ChannelAssumption
<1> DEFINE m == 2 ^ s
           d == t \div m
           r == t % m
<1>2. m \in Nat \ {0}
  BY <1>1, ShiftPowers
<1> HIDE DEF m
<1>3. d \in Int /\ r \in 0 .. m - 1 /\ t = m * d + r /\ t \in Nat
  BY <1>2, ChannelNumbers, DivMod
<1> HIDE DEF d, r
<1>4. d >= 0
  <2>1. ASSUME d <= -1 PROVE FALSE
    <3>1. m * d <= -m
      BY <1>2, <1>3, <2>1, SMT
    <3> QED
      BY <1>2, <1>3, <3>1
  <2> QED
    BY <1>3, <2>1
<1>5. d <= m * d
  BY <1>2, <1>3, <1>4, SMT
<1>6. d <= t
  <2> DEFINE x == m * d
  <2>1. d <= x /\ t = x + r /\ x \in Int
    BY <1>2, <1>3, <1>5
  <2> HIDE DEF x
  <2> QED
    BY <1>2, <1>3, <2>1
<1> QED
  BY <1>3, <1>4, <1>6 DEF d, m

\* The sixteen bits of the second computation are enough for both ends.
LEMMA SweepSigns == ChannelTypeOK => SweepAgrees
<1> SUFFICES ASSUME ChannelTypeOK, sweep.shift > 0, timer >= MinTimer
             PROVE  Muted <=> SweepTarget \notin 0 .. TimerTop
  BY DEF SweepAgrees
<1> DEFINE d == timer \div (2 ^ sweep.shift)
           c == IF kind = "pulse2" THEN 1 ELSE 0
           M == 65536
<1>1. timer \in 0 .. TimerTop /\ sweep.shift \in Shifts \union {0} /\ sweep.negate \in BOOLEAN
  BY DEF ChannelTypeOK
<1>2. d \in 0 .. timer /\ c \in 0 .. 1 /\ TimerTop \in Nat
  BY <1>1, SweepStep, ChannelNumbers
<1>3. M \in Nat \ {0} /\ TimerTop + TimerTop + 1 < M
  BY TimersFit, SMT
<1>4. /\ SweepTarget = IF sweep.negate THEN timer - d - c ELSE timer + d
      /\ SampledTarget = (IF sweep.negate THEN timer - d - c ELSE timer + d) % M
  BY DEF SweepTarget, SampledTarget
<1> HIDE DEF d, c, M
<1>5. /\ \A x \in 0 .. M - 1 : x % M = x
      /\ (-1) % M = M - 1
  BY <1>3, ModOfSmall
<1>6. Muted <=> SampledTarget > TimerTop
  BY <1>1, <1>2, ChannelNumbers DEF Muted
<1> DEFINE t == SweepTarget
<1>7. t \in Int /\ t >= -1 /\ t <= TimerTop + TimerTop /\ SampledTarget = t % M
  <2>1. CASE sweep.negate
    BY <1>1, <1>2, <1>4, <2>1
  <2>2. CASE ~sweep.negate
    BY <1>1, <1>2, <1>4, <2>2
  <2> QED
    BY <2>1, <2>2
<1> HIDE DEF t
<1>8. CASE t = -1
  <2>1. SampledTarget = M - 1
    BY <1>5, <1>7, <1>8
  <2> QED
    BY <1>2, <1>3, <1>6, <1>8, <2>1 DEF t
<1>9. CASE t # -1
  <2>1. t \in 0 .. M - 1
    BY <1>2, <1>3, <1>7, <1>9
  <2>2. SampledTarget = t
    BY <1>5, <1>7, <2>1
  <2> QED
    BY <1>2, <1>6, <2>1, <2>2 DEF t
<1> QED
  BY <1>8, <1>9

\* The level q quarter frames after an envelope of period p started.
LevelOf(p, wraps, q) ==
  LET fallen == q \div (p + 1)
  IN IF wraps THEN DecayTop - (fallen % (DecayTop + 1))
     ELSE IF fallen < DecayTop THEN DecayTop - fallen ELSE 0

\* What the divider of the envelope stands at.
DividerOf(p, q) == p - (q % (p + 1))

LEMMA EnvelopeStarts ==
  ASSUME NEW p \in Nat, NEW wraps \in BOOLEAN
  PROVE  LevelOf(p, wraps, 0) = DecayTop /\ DividerOf(p, 0) = p
<1>1. 0 \div (p + 1) = 0 /\ 0 % (p + 1) = 0 /\ 0 % (DecayTop + 1) = 0
  <2>1. p + 1 \in Nat \ {0} /\ DecayTop + 1 \in Nat \ {0}
    BY ChannelNumbers
  <2> QED
    BY <2>1, DivModZero
<1> QED
  BY <1>1, ChannelNumbers DEF LevelOf, DividerOf

\* One quarter frame more: the divider counts down, or it starts over and the level falls.
LEMMA EnvelopeFalls ==
  ASSUME NEW p \in Nat, NEW wraps \in BOOLEAN, NEW q \in Nat
  PROVE  /\ LevelOf(p, wraps, q) \in 0 .. DecayTop /\ DividerOf(p, q) \in 0 .. p
         /\ DividerOf(p, q) > 0 => /\ DividerOf(p, q + 1) = DividerOf(p, q) - 1
                                   /\ LevelOf(p, wraps, q + 1) = LevelOf(p, wraps, q)
         /\ DividerOf(p, q) = 0 =>
              /\ DividerOf(p, q + 1) = p
              /\ LevelOf(p, wraps, q + 1) =
                   IF LevelOf(p, wraps, q) > 0 THEN LevelOf(p, wraps, q) - 1
                   ELSE IF wraps THEN DecayTop ELSE 0
<1> DEFINE f == q \div (p + 1)
           r == q % (p + 1)
           g == (q + 1) \div (p + 1)
           s == (q + 1) % (p + 1)
           D == DecayTop
<1>1. p + 1 \in Nat \ {0} /\ D + 1 \in Nat \ {0} /\ D \in Nat \ {0}
  BY ChannelNumbers
<1>2. /\ f \in Nat /\ r \in 0 .. p /\ g \in Int /\ s \in Int
      /\ r + 1 < p + 1 => s = r + 1 /\ g = f
      /\ r + 1 >= p + 1 => s = 0 /\ g = f + 1
  <2>1. f >= 0
    BY <1>1
  <2>2. f \in Int /\ r \in 0 .. (p + 1) - 1 /\ g \in Int /\ s \in 0 .. (p + 1) - 1
    BY <1>1, DivMod
  <2>3. /\ r + 1 < p + 1 => s = r + 1 /\ g = f
        /\ r + 1 >= p + 1 => s = 0 /\ g = f + 1
    BY <1>1, DivModNext
  <2> HIDE DEF f, r, g, s
  <2> QED
    BY <2>1, <2>2, <2>3
<1>3. /\ LevelOf(p, wraps, q) = IF wraps THEN D - (f % (D + 1)) ELSE IF f < D THEN D - f ELSE 0
      /\ LevelOf(p, wraps, q + 1) = IF wraps THEN D - (g % (D + 1)) ELSE IF g < D THEN D - g ELSE 0
      /\ DividerOf(p, q) = p - r /\ DividerOf(p, q + 1) = p - s
  BY DEF LevelOf, DividerOf
<1> HIDE DEF f, r, g, s, D
<1>4. /\ f % (D + 1) \in 0 .. D
      /\ (f % (D + 1)) + 1 < D + 1 => (f + 1) % (D + 1) = (f % (D + 1)) + 1
      /\ (f % (D + 1)) + 1 >= D + 1 => (f + 1) % (D + 1) = 0
  <2>1. f % (D + 1) \in 0 .. (D + 1) - 1
    BY <1>1, <1>2, DivMod
  <2>2. /\ (f % (D + 1)) + 1 < D + 1 => (f + 1) % (D + 1) = (f % (D + 1)) + 1
        /\ (f % (D + 1)) + 1 >= D + 1 => (f + 1) % (D + 1) = 0
    BY <1>1, <1>2, DivModNext
  <2> QED
    BY <1>1, <2>1, <2>2
<1> DEFINE x == f % (D + 1)
           y == (f + 1) % (D + 1)
<1>5. /\ x \in 0 .. D /\ (x + 1 < D + 1 => y = x + 1) /\ (x + 1 >= D + 1 => y = 0)
      /\ LevelOf(p, wraps, q) = IF wraps THEN D - x ELSE IF f < D THEN D - f ELSE 0
      /\ g = f => LevelOf(p, wraps, q + 1) = LevelOf(p, wraps, q)
      /\ g = f + 1 => LevelOf(p, wraps, q + 1) =
                         IF wraps THEN D - y ELSE IF f + 1 < D THEN D - (f + 1) ELSE 0
  BY <1>3, <1>4
<1> HIDE DEF x, y
<1>6. LevelOf(p, wraps, q) \in 0 .. D /\ DividerOf(p, q) \in 0 .. p
  BY <1>1, <1>2, <1>3, <1>5
<1>7. DividerOf(p, q) > 0 => /\ DividerOf(p, q + 1) = DividerOf(p, q) - 1
                            /\ LevelOf(p, wraps, q + 1) = LevelOf(p, wraps, q)
  BY <1>2, <1>3, <1>5
<1>8. ASSUME DividerOf(p, q) = 0
      PROVE  /\ DividerOf(p, q + 1) = p
             /\ LevelOf(p, wraps, q + 1) = IF LevelOf(p, wraps, q) > 0 THEN LevelOf(p, wraps, q) - 1
                                          ELSE IF wraps THEN D ELSE 0
  <2>1. s = 0 /\ g = f + 1
    BY <1>2, <1>3, <1>8
  <2>2. CASE wraps
    <3>1. LevelOf(p, wraps, q) = D - x /\ LevelOf(p, wraps, q + 1) = D - y /\ x \in 0 .. D
      BY <1>5, <2>1, <2>2
    <3>2. DividerOf(p, q + 1) = p
      BY <1>2, <1>3, <2>1
    <3>3. D - y = IF D - x > 0 THEN (D - x) - 1 ELSE D
      BY <1>1, <1>5
    <3>4. LevelOf(p, wraps, q + 1) =
            IF LevelOf(p, wraps, q) > 0 THEN LevelOf(p, wraps, q) - 1 ELSE D
      BY <3>1, <3>3
    <3> QED
      BY <2>2, <3>2, <3>4
  <2>3. CASE ~wraps
    BY <1>1, <1>2, <1>3, <1>5, <2>1, <2>3
  <2> QED
    BY <2>2, <2>3
<1> QED
  BY <1>6, <1>7, <1>8 DEF D

\* What the counters of a level stand at since it was started.
LevelInv ==
  settled >= 0 =>
    IF kind = "triangle"
    THEN linear.count = IF settled < linear.reload THEN linear.reload - settled ELSE 0
    ELSE /\ env.decay = LevelOf(env.period, env.loop, settled)
         /\ env.divider = DividerOf(env.period, settled)

ChannelInv == ChannelTypeOK /\ NotesLast /\ LevelInv

LEMMA ChannelInvSound == ChannelInv => ChannelSound
<1> SUFFICES ASSUME ChannelInv PROVE ChannelSound
  OBVIOUS
<1>1. LevelsKeepTime
  BY DEF ChannelInv, LevelInv, LevelsKeepTime, Level, LevelOf
<1> QED
  BY <1>1, SweepSigns DEF ChannelInv, ChannelSound

LEMMA ChannelStarts == ChannelInit => ChannelInv
<1> SUFFICES ASSUME ChannelInit PROVE ChannelInv
  OBVIOUS
<1>1. NotesLast /\ LevelInv
  BY DEF ChannelInit, NotesLast, LevelInv
<1>2. env \in [period : Periods \union {0}, loop : BOOLEAN, start : BOOLEAN,
               divider : Periods \union Nat, decay : 0 .. DecayTop]
  BY ChannelNumbers DEF ChannelInit
<1>3. linear \in [control : BOOLEAN, reload : Reloads \union {0}, count : Nat, flag : BOOLEAN]
  BY DEF ChannelInit
<1>4. sweep \in [enabled : BOOLEAN, period : Periods \union {0}, negate : BOOLEAN,
                 shift : Shifts \union {0}, reload : BOOLEAN, divider : Nat]
  BY DEF ChannelInit
<1>5. /\ kind \in Kinds /\ sweeping \in BOOLEAN /\ enabled \in BOOLEAN /\ lengthHalt \in BOOLEAN
      /\ lengthCount \in Nat /\ noteLength \in Nat /\ counted \in Nat
  BY DEF ChannelInit
<1>7. timer \in 0 .. TimerTop
  BY ChannelNumbers DEF ChannelInit
<1>6. settled \in -1 .. MaxTicks
  BY ChannelNumbers DEF ChannelInit
<1> QED
  BY <1>1, <1>2, <1>3, <1>4, <1>5, <1>6, <1>7 DEF ChannelInv, ChannelTypeOK

\* A register write or a half frame that leaves levels and types of levels alone.
LevelType ==
  /\ env \in [period : Periods \union {0}, loop : BOOLEAN, start : BOOLEAN,
              divider : Periods \union Nat, decay : 0 .. DecayTop]
  /\ linear \in [control : BOOLEAN, reload : Reloads \union {0}, count : Nat, flag : BOOLEAN]
  /\ settled \in -1 .. MaxTicks

LengthType ==
  /\ enabled \in BOOLEAN /\ lengthHalt \in BOOLEAN
  /\ lengthCount \in Nat /\ noteLength \in Nat /\ counted \in Nat

SweepType ==
  /\ sweep \in [enabled : BOOLEAN, period : Periods \union {0}, negate : BOOLEAN,
                shift : Shifts \union {0}, reload : BOOLEAN, divider : Nat]
  /\ timer \in 0 .. TimerTop

LEMMA ChannelParts ==
  ChannelInv <=> /\ kind \in Kinds /\ sweeping \in BOOLEAN
                 /\ LengthType /\ LevelType /\ SweepType /\ NotesLast /\ LevelInv
BY DEF ChannelInv, ChannelTypeOK, LengthType, LevelType, SweepType

LEMMA LengthsStay == LengthType /\ NotesLast /\ UNCHANGED lengthVars => LengthType' /\ NotesLast'
BY DEF LengthType, NotesLast, lengthVars

LEMMA LevelsStay ==
  LevelType /\ LevelInv /\ UNCHANGED <<kind, levelVars>> => LevelType' /\ LevelInv'
<1> SUFFICES ASSUME LevelType, LevelInv, UNCHANGED <<kind, levelVars>> PROVE LevelType' /\ LevelInv'
  OBVIOUS
<1>1. UNCHANGED <<kind, env, linear, settled>>
  BY DEF levelVars
<1> QED
  BY <1>1 DEF LevelType, LevelInv

LEMMA SweepsStay == SweepType /\ UNCHANGED sweepVars => SweepType'
BY DEF SweepType, sweepVars

LEMMA ChannelConstants ==
  /\ Lengths \subseteq Nat \ {0} /\ Periods \subseteq Nat /\ Reloads \subseteq Nat
  /\ Lows \subseteq 0 .. LowSize - 1
  /\ \A p \in Periods \union {0} : p \in Nat
  /\ \A p \in Periods \union Nat : p \in Nat
  /\ \A r \in Reloads \union {0} : r \in Nat
<1>1. /\ Lengths \subseteq Nat \ {0} /\ Periods \subseteq Nat /\ Reloads \subseteq Nat
      /\ Lows \subseteq 0 .. LowSize - 1
  BY ChannelAssumption, SMT DEF ChannelAssumption
<1> QED
  BY <1>1

LEMMA ChannelWritesKeep ==
  ASSUME ChannelInv,
         \/ \E halt \in BOOLEAN, p \in (IF kind = "triangle" THEN Reloads ELSE Periods) :
              WriteVolume(halt, p)
         \/ \E on, negate \in BOOLEAN, p \in Periods, s \in Shifts : WriteSweep(on, p, negate, s)
         \/ \E low \in Lows : WriteTimerLow(low)
         \/ \E length \in Lengths, high \in 0 .. HighSize - 1 : WriteLength(length, high)
         \/ \E on \in BOOLEAN : WriteEnable(on)
  PROVE  ChannelInv'
<1>0. /\ kind \in Kinds /\ sweeping \in BOOLEAN
      /\ LengthType /\ LevelType /\ SweepType /\ NotesLast /\ LevelInv
  BY ChannelParts
<1> SUFFICES /\ kind' \in Kinds /\ sweeping' \in BOOLEAN
             /\ LengthType' /\ LevelType' /\ SweepType' /\ NotesLast' /\ LevelInv'
  BY DEF ChannelInv, ChannelTypeOK, LengthType, LevelType, SweepType
<1>1. ASSUME NEW halt \in BOOLEAN, NEW p \in (IF kind = "triangle" THEN Reloads ELSE Periods),
             WriteVolume(halt, p)
      PROVE  /\ kind' \in Kinds /\ sweeping' \in BOOLEAN
             /\ LengthType' /\ LevelType' /\ SweepType' /\ NotesLast' /\ LevelInv'
  <2>1. UNCHANGED <<kind, sweeping>> /\ UNCHANGED sweepVars /\ settled' = -1
    BY <1>1 DEF WriteVolume
  <2>2. LengthType' /\ NotesLast'
    BY <1>0, <1>1 DEF WriteVolume, LengthType, NotesLast
  <2>3. LevelInv'
    BY <2>1 DEF LevelInv
  <2>4. LevelType'
    <3>1. settled' \in -1 .. MaxTicks
      BY <2>1, ChannelNumbers
    <3>2. CASE kind = "triangle"
      BY <1>0, <1>1, <3>1, <3>2 DEF WriteVolume, LevelType
    <3>3. CASE kind # "triangle"
      BY <1>0, <1>1, <3>1, <3>3 DEF WriteVolume, LevelType
    <3> QED
      BY <3>2, <3>3
  <2> QED
    BY <1>0, <2>1, <2>2, <2>3, <2>4, SweepsStay
<1>2. ASSUME NEW on \in BOOLEAN, NEW negate \in BOOLEAN, NEW p \in Periods, NEW s \in Shifts,
             WriteSweep(on, p, negate, s)
      PROVE  /\ kind' \in Kinds /\ sweeping' \in BOOLEAN
             /\ LengthType' /\ LevelType' /\ SweepType' /\ NotesLast' /\ LevelInv'
  <2>1. SweepType'
    BY <1>0, <1>2 DEF WriteSweep, SweepType
  <2> QED
    BY <1>0, <1>2, <2>1, LengthsStay, LevelsStay DEF WriteSweep
<1>3. ASSUME NEW low \in Lows, WriteTimerLow(low)
      PROVE  /\ kind' \in Kinds /\ sweeping' \in BOOLEAN
             /\ LengthType' /\ LevelType' /\ SweepType' /\ NotesLast' /\ LevelInv'
  <2>1. low \in 0 .. LowSize - 1 /\ timer \in 0 .. TimerTop
    BY <1>0, ChannelConstants DEF SweepType
  <2>2. timer' \in 0 .. TimerTop /\ sweep' = sweep
    BY <1>3, <2>1, TimerParts DEF WriteTimerLow
  <2>3. SweepType'
    BY <1>0, <2>2 DEF SweepType
  <2> QED
    BY <1>0, <1>3, <2>3, LengthsStay, LevelsStay DEF WriteTimerLow
<1>4. ASSUME NEW length \in Lengths, NEW high \in 0 .. HighSize - 1, WriteLength(length, high)
      PROVE  /\ kind' \in Kinds /\ sweeping' \in BOOLEAN
             /\ LengthType' /\ LevelType' /\ SweepType' /\ NotesLast' /\ LevelInv'
  <2>1. length \in Nat /\ timer \in 0 .. TimerTop
    BY <1>0, ChannelConstants DEF SweepType
  <2>2. LengthType' /\ NotesLast'
    BY <1>0, <1>4, <2>1 DEF WriteLength, LengthType, NotesLast
  <2>3. timer' \in 0 .. TimerTop
    BY <1>4, <2>1, TimerParts DEF WriteLength
  <2>4. SweepType'
    BY <1>0, <1>4, <2>3 DEF WriteLength, SweepType
  <2>5. /\ env' \in {env, [env EXCEPT !.start = TRUE]}
        /\ linear' \in {linear, [linear EXCEPT !.flag = TRUE]}
        /\ UNCHANGED <<settled, kind>>
    BY <1>4 DEF WriteLength
  <2>6. LevelType'
    BY <1>0, <2>5 DEF LevelType
  <2>7. /\ env'.decay = env.decay /\ env'.divider = env.divider /\ env'.period = env.period
        /\ env'.loop = env.loop /\ linear'.count = linear.count /\ linear'.reload = linear.reload
    BY <1>0, <2>5 DEF LevelType
  <2>8. LevelInv'
    BY <1>0, <2>5, <2>7 DEF LevelInv
  <2> QED
    BY <1>0, <1>4, <2>2, <2>4, <2>6, <2>8 DEF WriteLength
<1>5. ASSUME NEW on \in BOOLEAN, WriteEnable(on)
      PROVE  /\ kind' \in Kinds /\ sweeping' \in BOOLEAN
             /\ LengthType' /\ LevelType' /\ SweepType' /\ NotesLast' /\ LevelInv'
  <2>1. UNCHANGED <<kind, sweeping, lengthHalt>> /\ UNCHANGED sweepVars /\ enabled' = on
    BY <1>5 DEF WriteEnable
  <2>2. SweepType'
    BY <1>0, <2>1, SweepsStay
  <2>3. LengthType' /\ NotesLast'
    BY <1>0, <1>5 DEF WriteEnable, LengthType, NotesLast
  <2>4. CASE UNCHANGED levelVars
    BY <1>0, <2>1, <2>2, <2>3, <2>4, LevelsStay
  <2>5. CASE linear' = [linear EXCEPT !.count = 0] /\ settled' = -1 /\ env' = env
    <3>1. LevelType'
      <4>1. settled' \in -1 .. MaxTicks
        BY <2>5, ChannelNumbers
      <4> QED
        BY <1>0, <2>5, <4>1 DEF LevelType
    <3>2. LevelInv'
      BY <2>5 DEF LevelInv
    <3> QED
      BY <1>0, <2>1, <2>2, <2>3, <3>1, <3>2
  <2> QED
    BY <1>5, <2>4, <2>5 DEF WriteEnable, levelVars
<1> QED
  BY <1>1, <1>2, <1>3, <1>4, <1>5

LEMMA HalfFrameKeeps == ChannelInv /\ TickHalfFrame => ChannelInv'
<1> SUFFICES ASSUME ChannelInv, TickHalfFrame PROVE ChannelInv'
  OBVIOUS
<1>0. /\ kind \in Kinds /\ sweeping \in BOOLEAN
      /\ LengthType /\ LevelType /\ SweepType /\ NotesLast /\ LevelInv
  BY ChannelParts
<1>1. UNCHANGED <<kind, sweeping>> /\ UNCHANGED levelVars
  BY DEF TickHalfFrame
<1>2. LengthType' /\ NotesLast'
  BY <1>0 DEF TickHalfFrame, LengthType, NotesLast
<1>3. SweepType'
  <2>1. CASE UNCHANGED sweepVars
    BY <1>0, <2>1, SweepsStay
  <2>2. CASE /\ timer' = Swept
             /\ sweep' = IF sweep.reload \/ sweep.divider = 0
                         THEN [sweep EXCEPT !.divider = sweep.period, !.reload = FALSE]
                         ELSE [sweep EXCEPT !.divider = @ - 1]
    <3>1. timer' \in 0 .. TimerTop
      BY <1>0, <2>2 DEF Swept, SweepType
    <3>2. sweep.period \in Nat
      BY <1>0, ChannelConstants DEF SweepType
    <3>3. CASE sweep.reload \/ sweep.divider = 0
      BY <1>0, <2>2, <3>1, <3>2, <3>3 DEF SweepType
    <3>4. CASE ~(sweep.reload \/ sweep.divider = 0)
      BY <1>0, <2>2, <3>1, <3>4 DEF SweepType
    <3> QED
      BY <3>3, <3>4
  <2> QED
    BY <2>1, <2>2 DEF TickHalfFrame
<1>4. LevelType' /\ LevelInv'
  BY <1>0, <1>1, LevelsStay
<1> QED
  BY <1>0, <1>1, <1>2, <1>3, <1>4
  DEF ChannelInv, ChannelTypeOK, LengthType, LevelType, SweepType

LEMMA QuarterFrameKeeps == ChannelInv /\ TickQuarterFrame => ChannelInv'
<1> SUFFICES ASSUME ChannelInv, TickQuarterFrame PROVE ChannelInv'
  OBVIOUS
<1>0. /\ kind \in Kinds /\ sweeping \in BOOLEAN
      /\ LengthType /\ LevelType /\ SweepType /\ NotesLast /\ LevelInv
  BY ChannelParts
<1>1. UNCHANGED <<kind, sweeping>> /\ UNCHANGED sweepVars /\ UNCHANGED lengthVars
  BY DEF TickQuarterFrame
<1>2. SweepType' /\ LengthType' /\ NotesLast'
  BY <1>0, <1>1, SweepsStay, LengthsStay
<1>3. settled' \in -1 .. MaxTicks /\ settled \in -1 .. MaxTicks
      /\ (~Starting /\ settled' >= 0 => settled >= 0 /\ settled' = settled + 1)
  BY <1>0, ChannelNumbers DEF TickQuarterFrame, LevelType
<1>4. CASE kind = "triangle"
  <2>1. linear' = ClockTriangleLinear(linear) /\ env' = env
    BY <1>4 DEF TickQuarterFrame
  <2>2. linear.reload \in Nat /\ linear.count \in Nat /\ linear.flag \in BOOLEAN
        /\ linear.control \in BOOLEAN
    BY <1>0, ChannelConstants DEF LevelType
  <2>3. LevelType'
    <3>1. (IF linear.flag THEN linear.reload
           ELSE IF linear.count > 0 THEN linear.count - 1 ELSE 0) \in Nat
      BY <2>2
    <3>2. linear' = [linear EXCEPT
                       !.count = IF linear.flag THEN linear.reload
                                 ELSE IF linear.count > 0 THEN linear.count - 1 ELSE 0,
                       !.flag = linear.flag /\ linear.control]
      BY <2>1 DEF ClockTriangleLinear
    <3>3. linear' \in [control : BOOLEAN, reload : Reloads \union {0}, count : Nat, flag : BOOLEAN]
      BY <1>0, <2>2, <3>1, <3>2 DEF LevelType
    <3> QED
      BY <1>0, <1>3, <2>1, <3>3 DEF LevelType
  <2>4. /\ linear'.reload = linear.reload
        /\ linear'.count = IF linear.flag THEN linear.reload
                           ELSE IF linear.count > 0 THEN linear.count - 1 ELSE 0
    BY <1>0, <2>1 DEF LevelType, ClockTriangleLinear
  <2>5. LevelInv'
    <3>1. CASE linear.flag
      <4>1. settled' = 0
        BY <1>4, <3>1 DEF TickQuarterFrame, Starting
      <4> QED
        BY <1>1, <1>4, <2>2, <2>4, <3>1, <4>1 DEF LevelInv
    <3>2. CASE ~linear.flag
      <4> SUFFICES ASSUME settled' >= 0
                   PROVE  linear'.count = IF settled' < linear'.reload
                                          THEN linear'.reload - settled' ELSE 0
        BY <1>1, <1>4 DEF LevelInv
      <4>1. settled >= 0 /\ settled' = settled + 1
        BY <1>3, <1>4, <3>2 DEF Starting
      <4>2. linear.count = IF settled < linear.reload THEN linear.reload - settled ELSE 0
        BY <1>0, <1>4, <4>1 DEF LevelInv
      <4> QED
        BY <1>3, <2>2, <2>4, <3>2, <4>1, <4>2
    <3> QED
      BY <3>1, <3>2
  <2> QED
    BY <1>0, <1>1, <1>2, <2>3, <2>5
    DEF ChannelInv, ChannelTypeOK, LengthType, LevelType, SweepType
<1>5. CASE kind # "triangle"
  <2>1. env' = ClockEnvelope(env) /\ linear' = linear
    BY <1>5 DEF TickQuarterFrame
  <2>2. /\ env.period \in Nat /\ env.divider \in Nat /\ env.decay \in 0 .. DecayTop
        /\ env.start \in BOOLEAN /\ env.loop \in BOOLEAN
    BY <1>0, ChannelConstants DEF LevelType
  <2>3. CASE env.start
    <3>1. env' = [env EXCEPT !.start = FALSE, !.decay = DecayTop, !.divider = env.period]
      BY <2>1, <2>3 DEF ClockEnvelope
    <3>2. LevelType'
      <4>1. DecayTop \in 0 .. DecayTop /\ env.period \in Periods \union Nat
        BY <2>2, ChannelNumbers
      <4>2. env' \in [period : Periods \union {0}, loop : BOOLEAN, start : BOOLEAN,
                      divider : Periods \union Nat, decay : 0 .. DecayTop]
        BY <1>0, <3>1, <4>1 DEF LevelType
      <4> QED
        BY <1>0, <1>3, <2>1, <4>2 DEF LevelType
    <3>3. settled' = 0
      BY <1>5, <2>3 DEF TickQuarterFrame, Starting
    <3>4. /\ env'.decay = DecayTop /\ env'.divider = env.period /\ env'.period = env.period
          /\ env'.loop = env.loop
      BY <1>0, <3>1 DEF LevelType
    <3>5. LevelInv'
      BY <1>1, <1>5, <2>2, <3>3, <3>4, EnvelopeStarts DEF LevelInv
    <3> QED
      BY <1>0, <1>1, <1>2, <3>2, <3>5
      DEF ChannelInv, ChannelTypeOK, LengthType, LevelType, SweepType
  <2>4. CASE ~env.start
    <3>1. env' = IF env.divider > 0 THEN [env EXCEPT !.divider = @ - 1]
                 ELSE [env EXCEPT !.divider = env.period,
                         !.decay = IF @ > 0 THEN @ - 1 ELSE IF env.loop THEN DecayTop ELSE 0]
      BY <2>1, <2>2, <2>4 DEF ClockEnvelope
    <3>2. LevelType'
      <4>1. CASE env.divider > 0
        BY <1>0, <1>3, <2>1, <2>2, <3>1, <4>1 DEF LevelType
      <4>2. CASE ~(env.divider > 0)
        <5>1. (IF env.decay > 0 THEN env.decay - 1 ELSE IF env.loop THEN DecayTop ELSE 0)
                \in 0 .. DecayTop
          BY <2>2, ChannelNumbers
        <5> QED
          BY <1>0, <1>3, <2>1, <2>2, <3>1, <4>2, <5>1 DEF LevelType
      <4> QED
        BY <4>1, <4>2
    <3>3. /\ env'.period = env.period /\ env'.loop = env.loop
          /\ env.divider > 0 => env'.divider = env.divider - 1 /\ env'.decay = env.decay
          /\ ~(env.divider > 0) =>
               /\ env'.divider = env.period
               /\ env'.decay = IF env.decay > 0 THEN env.decay - 1
                               ELSE IF env.loop THEN DecayTop ELSE 0
      BY <1>0, <3>1 DEF LevelType
    <3>4. LevelInv'
      <4> DEFINE p == env.period
                 wraps == env.loop
                 q == settled
      <4> SUFFICES ASSUME settled' >= 0
                   PROVE  /\ env'.decay = LevelOf(p, wraps, settled')
                          /\ env'.divider = DividerOf(p, settled')
        BY <1>1, <1>5, <3>3 DEF LevelInv
      <4>1. q \in Nat /\ settled' = q + 1 /\ p \in Nat /\ wraps \in BOOLEAN
        BY <1>3, <1>5, <2>2, <2>4 DEF Starting
      <4>2. env.decay = LevelOf(p, wraps, q) /\ env.divider = DividerOf(p, q)
        BY <1>0, <1>5, <4>1 DEF LevelInv
      <4>3. /\ DividerOf(p, q) \in 0 .. p
            /\ DividerOf(p, q) > 0 => /\ DividerOf(p, q + 1) = DividerOf(p, q) - 1
                                      /\ LevelOf(p, wraps, q + 1) = LevelOf(p, wraps, q)
            /\ DividerOf(p, q) = 0 =>
                 /\ DividerOf(p, q + 1) = p
                 /\ LevelOf(p, wraps, q + 1) =
                      IF LevelOf(p, wraps, q) > 0 THEN LevelOf(p, wraps, q) - 1
                      ELSE IF wraps THEN DecayTop ELSE 0
        BY <4>1, EnvelopeFalls
      <4>4. CASE env.divider > 0
        BY <3>3, <4>1, <4>2, <4>3, <4>4
      <4>5. CASE ~(env.divider > 0)
        <5>1. DividerOf(p, q) = 0
          BY <4>1, <4>2, <4>3, <4>5
        <5> QED
          BY <3>3, <4>1, <4>2, <4>3, <4>5, <5>1
      <4> QED
        BY <4>4, <4>5
    <3> QED
      BY <1>0, <1>1, <1>2, <3>2, <3>4
      DEF ChannelInv, ChannelTypeOK, LengthType, LevelType, SweepType
  <2> QED
    BY <2>2, <2>3, <2>4
<1> QED
  BY <1>4, <1>5

LEMMA ChannelKeeps == ChannelInv /\ [ChannelNext]_channelVars => ChannelInv'
<1> SUFFICES ASSUME ChannelInv, [ChannelNext]_channelVars PROVE ChannelInv'
  OBVIOUS
<1>1. CASE TickHalfFrame
  BY <1>1, HalfFrameKeeps
<1>2. CASE TickQuarterFrame
  BY <1>2, QuarterFrameKeeps
<1>3. CASE UNCHANGED channelVars
  <2>1. /\ kind \in Kinds /\ sweeping \in BOOLEAN
        /\ LengthType /\ LevelType /\ SweepType /\ NotesLast /\ LevelInv
    BY ChannelParts
  <2>2. /\ UNCHANGED <<kind, sweeping>> /\ UNCHANGED lengthVars /\ UNCHANGED levelVars
        /\ UNCHANGED sweepVars
    BY <1>3 DEF channelVars
  <2>3. LengthType' /\ NotesLast' /\ LevelType' /\ LevelInv' /\ SweepType'
    BY <2>1, <2>2, LengthsStay, LevelsStay, SweepsStay
  <2> QED
    BY <2>1, <2>2, <2>3 DEF ChannelInv, ChannelTypeOK, LengthType, LevelType, SweepType
<1>4. CASE ~(TickHalfFrame \/ TickQuarterFrame \/ UNCHANGED channelVars)
  BY <1>4, ChannelWritesKeep DEF ChannelNext
<1> QED
  BY <1>1, <1>2, <1>3, <1>4

\* A note lasts for its length, an envelope or linear counter left alone keeps time, and the two
\* places of apu.go that compute where a sweep goes agree, in whatever order writes to the
\* registers and clocks of the sequencer come.
THEOREM ChannelKeepsTime == ChannelSpec => []ChannelSound
<1> QED
  BY ChannelStarts, ChannelKeeps, ChannelInvSound, PTL DEF ChannelSpec

-----------------------------------------------------------------------------
(* The address registers of the PPU.                                       *)

LEMMA ScrollNumbers ==
  /\ TileDots \in Nat \ {0} /\ Cols \in Nat \ {0} /\ Rows \in Nat \ {0} /\ LowRows \in Nat \ {0}
  /\ Height \in Nat \ {0} /\ MaxWrites \in Nat \ {0} /\ AllRows \in Nat \ {0}
  /\ PrefetchAt \in Nat \ {0} /\ LineDots \in Nat \ {0} /\ ScrollLines \in Nat \ {0}
  /\ CopyFrom \in Nat \ {0} /\ CopyTo \in Nat \ {0}
  /\ Rows < AllRows /\ Height < ScrollLines /\ TileDots >= 2
BY ScrollAssumption DEF ScrollAssumption

\* The dots of a line: the picture, the two copies and the prefetch, in this order.
LEMMA ScrollDots ==
  /\ Width \in Nat \ {0} /\ Width % TileDots = 0 /\ Width \div TileDots = Cols
  /\ Width + 1 < PrefetchAt /\ PrefetchAt + 2 * TileDots <= LineDots
  /\ Width + 1 < CopyFrom /\ CopyFrom <= CopyTo /\ CopyTo < LineDots
<1>1. TileDots \in Nat \ {0} /\ Cols \in Nat \ {0}
  BY ScrollNumbers
<1>2. Width = TileDots * Cols + 0 /\ Width \in Nat \ {0}
  BY <1>1, SMT DEF Width
<1>3. /\ Width \div TileDots \in Int /\ Width % TileDots \in 0 .. TileDots - 1
      /\ Width = TileDots * (Width \div TileDots) + (Width % TileDots)
  <2>1. Width \in Int
    BY <1>2
  <2> QED
    BY <1>1, <2>1, DivMod
<1>4. Cols = Width \div TileDots /\ 0 = Width % TileDots
  <2>1. Cols \in Int /\ 0 \in 0 .. TileDots - 1
    BY <1>1
  <2> QED
    BY <1>1, <1>2, <1>3, <2>1, DivModUnique
<1> QED
  BY <1>2, <1>4, ScrollAssumption DEF ScrollAssumption

\* What one field loads of the rows, the other does not touch.
LEMMA RowParts ==
  ASSUME NEW high \in Nat, high < AllRows \div LowRows, NEW low \in 0 .. LowRows - 1
  PROVE  /\ LowRows * high + low \in 0 .. AllRows - 1
         /\ (LowRows * high + low) \div LowRows = high
         /\ (LowRows * high + low) % LowRows = low
<1> DEFINE n == LowRows * high + low
           rows == AllRows \div LowRows
<1>1. /\ LowRows \in Nat \ {0} /\ AllRows \in Nat \ {0} /\ AllRows % LowRows = 0
  BY ScrollNumbers, ScrollAssumption DEF ScrollAssumption
<1>2. LowRows * high \in Nat /\ n \in Nat
  BY <1>1, SMT
<1>3. n \div LowRows \in Int /\ n % LowRows \in 0 .. LowRows - 1
      /\ n = LowRows * (n \div LowRows) + (n % LowRows)
  <2>1. LowRows \in Nat \ {0} /\ n \in Int
    BY <1>1, <1>2
  <2> HIDE DEF n
  <2> QED
    BY <2>1, DivMod
<1>4. high = n \div LowRows /\ low = n % LowRows
  <2> DEFINE q == n \div LowRows
             r == n % LowRows
  <2>1. /\ LowRows * high + low = LowRows * q + r
        /\ LowRows \in Nat \ {0} /\ high \in Int /\ q \in Int /\ r \in 0 .. LowRows - 1
    BY <1>1, <1>3
  <2> HIDE DEF n, q, r
  <2>2. high = q /\ low = r
    BY <2>1, DivModUnique
  <2> QED
    BY <2>2 DEF q, r
<1>5. AllRows = LowRows * rows /\ rows \in Int
  BY <1>1, DivMod
<1> HIDE DEF rows
<1>6. high + 1 <= rows
  BY <1>5 DEF rows
<1>7. LowRows * (high + 1) <= LowRows * rows
  BY <1>1, <1>5, <1>6, SMT
<1>8. LowRows * (high + 1) = LowRows * high + LowRows
  BY <1>1, SMT
<1> QED
  BY <1>1, <1>2, <1>4, <1>5, <1>7, <1>8

LEMMA RowHalves ==
  ASSUME NEW row \in 0 .. AllRows - 1
  PROVE  /\ row \div LowRows \in Nat /\ row \div LowRows < AllRows \div LowRows
         /\ row % LowRows \in 0 .. LowRows - 1
         /\ row = LowRows * (row \div LowRows) + (row % LowRows)
<1> DEFINE rows == AllRows \div LowRows
           high == row \div LowRows
<1>1. LowRows \in Nat \ {0} /\ AllRows \in Nat \ {0} /\ AllRows % LowRows = 0
  BY ScrollNumbers, ScrollAssumption DEF ScrollAssumption
<1>2. high \in Int /\ row % LowRows \in 0 .. LowRows - 1
      /\ row = LowRows * high + (row % LowRows)
  BY <1>1, DivMod
<1>3. AllRows = LowRows * rows /\ rows \in Int
  BY <1>1, DivMod
<1> HIDE DEF rows, high
<1>4. high >= 0
  <2>1. SUFFICES ASSUME high <= -1 PROVE FALSE
    BY <1>2
  <2>2. LowRows * high <= -LowRows
    BY <1>1, <1>2, <2>1, SMT
  <2> QED
    BY <1>1, <1>2, <2>2
<1>5. high < rows
  <2>1. SUFFICES ASSUME high >= rows PROVE FALSE
    BY <1>2, <1>3
  <2>2. LowRows * high >= LowRows * rows
    BY <1>1, <1>2, <1>3, <2>1, SMT
  <2> QED
    BY <1>1, <1>2, <1>3, <2>2
<1> QED
  BY <1>2, <1>4, <1>5 DEF rows, high

LEMMA PackedNat == ASSUME NEW a \in Address PROVE Packed(a) \in Nat
<1>1. /\ a.coarseX \in Nat /\ a.coarseY \in Nat /\ a.fineY \in Nat
      /\ a.ntX \in Nat /\ a.ntY \in Nat /\ Cols \in Nat /\ AllRows \in Nat
  BY ScrollNumbers DEF Address
<1>2. a.ntX + 2 * (a.ntY + 2 * a.fineY) \in Nat
  BY <1>1
<1> DEFINE table == a.ntX + 2 * (a.ntY + 2 * a.fineY)
<1> HIDE DEF table
<1>3. AllRows * table \in Nat
  BY <1>1, <1>2, SMT DEF table
<1>4. a.coarseY + AllRows * table \in Nat
  BY <1>1, <1>3
<1> DEFINE rows == a.coarseY + AllRows * table
<1> HIDE DEF rows
<1>5. Cols * rows \in Nat
  BY <1>1, <1>4, SMT DEF rows
<1> QED
  BY <1>1, <1>5 DEF Packed, rows, table

LEMMA UnpackedAddress == ASSUME NEW n \in Nat PROVE Unpacked(n) \in Address
<1>1. Cols \in Nat \ {0} /\ AllRows \in Nat \ {0} /\ TileDots \in Nat \ {0}
  BY ScrollNumbers
<1>2. n % Cols \in 0 .. Cols - 1 /\ n \div Cols \in Int
  BY <1>1, DivMod
<1> DEFINE rows == n \div Cols
           table == rows \div AllRows
<1>3. rows % AllRows \in 0 .. AllRows - 1 /\ table \in Int
  BY <1>1, <1>2, DivMod
<1> HIDE DEF table
<1>4. table % 2 \in {0, 1} /\ (table \div 2) % 2 \in {0, 1} /\ table \div 4 \in Int
  BY <1>3
<1>5. (table \div 4) % TileDots \in 0 .. TileDots - 1
  BY <1>1, <1>4, DivMod
<1> HIDE DEF rows
<1> QED
  BY <1>2, <1>3, <1>4, <1>5 DEF Unpacked, Address, table, rows

LEMMA WalkAddress ==
  ASSUME NEW a \in Address
  PROVE  /\ IncrementCoarseX(a) \in Address /\ IncrementY(a) \in Address
         /\ ScrollTypeOK => CopyHorizontalBits(a) \in Address /\ CopyVerticalBits(a) \in Address
<1>0. /\ TileDots \in Nat /\ Cols \in Nat /\ AllRows \in Nat /\ Cols > 0 /\ TileDots > 0
      /\ AllRows > 0 /\ Rows \in Nat /\ Rows < AllRows
      /\ 0 \in 0 .. Cols - 1 /\ 0 \in 0 .. AllRows - 1 /\ 0 \in 0 .. TileDots - 1
      /\ 1 - a.ntX \in {0, 1} /\ 1 - a.ntY \in {0, 1}
  BY ScrollNumbers DEF Address
<1>1. IncrementCoarseX(a) \in Address
  <2>1. CASE a.coarseX = Cols - 1
    <3>1. IncrementCoarseX(a) = [a EXCEPT !.coarseX = 0, !.ntX = 1 - @]
      BY <2>1 DEF IncrementCoarseX
    <3> QED
      BY <1>0, <3>1 DEF Address
  <2>2. CASE a.coarseX # Cols - 1
    <3>1. a.coarseX + 1 \in 0 .. Cols - 1
      BY <1>0, <2>2 DEF Address
    <3> QED
      BY <1>0, <2>2, <3>1 DEF IncrementCoarseX, Address
  <2> QED
    BY <2>1, <2>2
<1>2. IncrementY(a) \in Address
  <2>0. a.fineY \in 0 .. TileDots - 1 /\ a.coarseY \in 0 .. AllRows - 1
    BY DEF Address
  <2>1. CASE a.fineY < TileDots - 1
    <3>1. a.fineY + 1 \in 0 .. TileDots - 1
      BY <1>0, <2>0, <2>1
    <3>2. IncrementY(a) = [a EXCEPT !.fineY = @ + 1]
      BY <1>0, <2>0, <2>1 DEF IncrementY
    <3> QED
      BY <3>1, <3>2 DEF Address
  <2>2. CASE a.fineY = TileDots - 1 /\ a.coarseY = Rows - 1
    <3>1. IncrementY(a) = [a EXCEPT !.fineY = 0, !.coarseY = 0, !.ntY = 1 - @]
      BY <1>0, <2>0, <2>2 DEF IncrementY
    <3> QED
      BY <1>0, <3>1 DEF Address
  <2>3. CASE a.fineY = TileDots - 1 /\ a.coarseY # Rows - 1 /\ a.coarseY = AllRows - 1
    <3>1. IncrementY(a) = [a EXCEPT !.fineY = 0, !.coarseY = 0]
      BY <1>0, <2>0, <2>3 DEF IncrementY
    <3> QED
      BY <1>0, <3>1 DEF Address
  <2>4. CASE a.fineY = TileDots - 1 /\ a.coarseY # Rows - 1 /\ a.coarseY # AllRows - 1
    <3>1. IncrementY(a) = [a EXCEPT !.fineY = 0, !.coarseY = @ + 1]
      BY <1>0, <2>0, <2>4 DEF IncrementY
    <3>2. a.coarseY + 1 \in 0 .. AllRows - 1
      BY <1>0, <2>0, <2>4
    <3> QED
      BY <1>0, <2>0, <3>1, <3>2 DEF Address
  <2> QED
    BY <1>0, <2>0, <2>1, <2>2, <2>3, <2>4
<1>3. ASSUME ScrollTypeOK PROVE CopyHorizontalBits(a) \in Address /\ CopyVerticalBits(a) \in Address
  BY <1>3 DEF ScrollTypeOK, CopyHorizontalBits, CopyVerticalBits, Address
<1> QED
  BY <1>1, <1>2, <1>3

LEMMA WalkedAddress ==
  ASSUME ScrollTypeOK, NEW dot \in Int PROVE Walked(vramAddr, dot) \in Address
BY WalkAddress DEF ScrollTypeOK, Walked

LEMMA OneAccess ==
  ASSUME writes \in 0 .. MaxWrites, Access
  PROVE  writes' \in 0 .. MaxWrites /\ scanline' = scanline /\ cycle' = cycle
BY ScrollNumbers DEF Access

\* Program and dots leave the registers within their fields, for every access and dot.
LEMMA ScrollTypesKept == ScrollTypeOK /\ ScrollNext => ScrollTypeOK'
<1> SUFFICES ASSUME ScrollTypeOK, ScrollNext PROVE ScrollTypeOK'
  OBVIOUS
<1>0. /\ tempAddr \in Address /\ vramAddr \in Address /\ fineX \in 0 .. TileDots - 1
      /\ addrLatch \in BOOLEAN /\ down \in BOOLEAN /\ rendering \in BOOLEAN
      /\ scanline \in 0 .. ScrollLines - 1 /\ cycle \in 0 .. LineDots - 1
      /\ writes \in 0 .. MaxWrites
  BY DEF ScrollTypeOK
<1>1. ASSUME NEW table \in Tables, NEW inRows \in BOOLEAN, WriteControl(table, inRows)
      PROVE  ScrollTypeOK'
  <2>1. table.x \in {0, 1} /\ table.y \in {0, 1}
    BY ScrollInputs
  <2>2. tempAddr' \in Address
    BY <1>0, <1>1, <2>1 DEF WriteControl, Address
  <2> QED
    BY <1>0, <1>1, <2>2, OneAccess DEF WriteControl, Access, ScrollTypeOK
<1>2. ASSUME NEW show \in BOOLEAN, WriteMask(show) PROVE ScrollTypeOK'
  BY <1>0, <1>2, OneAccess DEF WriteMask, Access, ScrollTypeOK
<1>3. CASE ReadStatus
  BY <1>0, <1>3, OneAccess DEF ReadStatus, Access, ScrollTypeOK
<1>4. ASSUME NEW s \in XScrolls, WriteScrollX(s) PROVE ScrollTypeOK'
  <2>1. s.coarse \in 0 .. Cols - 1 /\ s.fine \in 0 .. TileDots - 1
    BY ScrollInputs
  <2>2. tempAddr' \in Address
    BY <1>0, <1>4, <2>1 DEF WriteScrollX, Address
  <2> QED
    BY <1>0, <1>4, <2>1, <2>2, OneAccess DEF WriteScrollX, Access, ScrollTypeOK
<1>5. ASSUME NEW s \in YScrolls, WriteScrollY(s) PROVE ScrollTypeOK'
  <2>1. s.coarse \in 0 .. AllRows - 1 /\ s.fine \in 0 .. TileDots - 1
    BY ScrollInputs
  <2>2. tempAddr' \in Address
    BY <1>0, <1>5, <2>1 DEF WriteScrollY, Address
  <2> QED
    BY <1>0, <1>5, <2>1, <2>2, OneAccess DEF WriteScrollY, Access, ScrollTypeOK
<1>6. ASSUME NEW a \in Addresses, WriteAddressHigh(a) PROVE ScrollTypeOK'
  <2>1. a \in Address /\ a.coarseY \in 0 .. AllRows - 1 /\ tempAddr.coarseY \in 0 .. AllRows - 1
    BY <1>0, ScrollInputs DEF Address
  <2>2. /\ a.coarseY \div LowRows \in Nat /\ a.coarseY \div LowRows < AllRows \div LowRows
        /\ tempAddr.coarseY % LowRows \in 0 .. LowRows - 1
    BY <2>1, RowHalves
  <2>3. LowRows * (a.coarseY \div LowRows) + (tempAddr.coarseY % LowRows) \in 0 .. AllRows - 1
    BY <2>2, RowParts
  <2>4. a.fineY % (TileDots \div 2) \in 0 .. TileDots - 1
    <3>1. TileDots \div 2 \in Nat \ {0} /\ TileDots \div 2 <= TileDots /\ TileDots \in Nat
      BY ScrollNumbers
    <3> DEFINE half == TileDots \div 2
    <3> HIDE DEF half
    <3>2. a.fineY \in Int
      BY <2>1, <3>1 DEF Address
    <3>3. a.fineY % half \in 0 .. half - 1
      BY <3>1, <3>2, DivMod DEF half
    <3> QED
      BY <3>1, <3>3 DEF half
  <2> DEFINE row == LowRows * (a.coarseY \div LowRows) + (tempAddr.coarseY % LowRows)
             fine == a.fineY % (TileDots \div 2)
  <2>5. tempAddr' = [tempAddr EXCEPT !.fineY = fine, !.ntX = a.ntX, !.ntY = a.ntY,
                      !.coarseY = row]
    BY <1>0, <1>6 DEF WriteAddressHigh, HighOf, Address
  <2>6. row \in 0 .. AllRows - 1 /\ fine \in 0 .. TileDots - 1
    BY <2>3, <2>4
  <2> HIDE DEF row, fine
  <2>7. tempAddr' \in Address
    BY <1>0, <2>1, <2>5, <2>6 DEF Address
  <2> QED
    BY <1>0, <1>6, <2>7, OneAccess DEF WriteAddressHigh, Access, ScrollTypeOK
<1>7. ASSUME NEW a \in Addresses, WriteAddressLow(a) PROVE ScrollTypeOK'
  <2>1. a \in Address /\ a.coarseY \in 0 .. AllRows - 1 /\ tempAddr.coarseY \in 0 .. AllRows - 1
    BY <1>0, ScrollInputs DEF Address
  <2>2. /\ tempAddr.coarseY \div LowRows \in Nat
        /\ tempAddr.coarseY \div LowRows < AllRows \div LowRows
        /\ a.coarseY % LowRows \in 0 .. LowRows - 1
    BY <2>1, RowHalves
  <2> DEFINE row == LowRows * (tempAddr.coarseY \div LowRows) + (a.coarseY % LowRows)
  <2>3. row \in 0 .. AllRows - 1
    BY <2>2, RowParts
  <2>4. tempAddr' = [tempAddr EXCEPT !.coarseX = a.coarseX, !.coarseY = row]
    BY <1>0, <1>7 DEF WriteAddressLow, Address
  <2> HIDE DEF row
  <2>5. tempAddr' \in Address
    BY <1>0, <2>1, <2>3, <2>4 DEF Address
  <2> QED
    BY <1>0, <1>7, <2>5, OneAccess DEF WriteAddressLow, Access, ScrollTypeOK
<1>8. CASE AccessData
  <2>1. vramAddr' \in Address
    <3>1. Packed(vramAddr) + (IF down THEN Cols ELSE 1) \in Nat
      BY <1>0, PackedNat, ScrollNumbers
    <3> QED
      BY <1>8, <3>1, UnpackedAddress DEF AccessData
  <2> QED
    BY <1>0, <1>8, <2>1, OneAccess DEF AccessData, Access, ScrollTypeOK
<1>9. CASE Dot
  <2>1. vramAddr' \in Address
    BY <1>0, <1>9, WalkedAddress DEF Dot
  <2> QED
    BY <1>0, <1>9, <2>1, ScrollNumbers DEF Dot, ScrollTypeOK
<1>10. CASE StartNextFrame
  BY <1>0, <1>10, ScrollNumbers DEF StartNextFrame, scrollRegisters, ScrollTypeOK
<1> QED
  BY <1>1, <1>2, <1>3, <1>4, <1>5, <1>6, <1>7, <1>8, <1>9, <1>10 DEF ScrollNext

\* A pair of writes to $2006: what its first half loaded is still in tempAddr when the second
\* comes, for everything else that writes tempAddr begins or ends another pair.
HighLoaded ==
  synced.half = "second" =>
    /\ tempAddr.fineY = synced.high.fineY
    /\ tempAddr.ntX = synced.high.ntX /\ tempAddr.ntY = synced.high.ntY
    /\ tempAddr.coarseY \div LowRows = synced.high.rows

PairInv == ScrollTypeOK /\ PairInForce /\ HighLoaded

\* The address that a pair of writes leaves in vramAddr.
SetBy(a, p) ==
  /\ a.coarseX = p.coarseX /\ a.coarseY = p.coarseY /\ a.fineY = p.fineY
  /\ a.ntX = p.ntX /\ a.ntY = p.ntY

LEMMA PairFields ==
  ASSUME NEW a \in Address, NEW p
  PROVE  (\A field \in DOMAIN a : a[field] = p[field]) <=> SetBy(a, p)
<1>1. DOMAIN a = {"coarseX", "coarseY", "fineY", "ntX", "ntY"}
  BY DEF Address
<1> QED
  BY <1>1 DEF SetBy

LEMMA PairStarts == ScrollInit => PairInv
<1> SUFFICES ASSUME ScrollInit PROVE PairInv
  OBVIOUS
<1>1. ZeroAddress \in Address
  <2>1. 0 \in 0 .. Cols - 1 /\ 0 \in 0 .. AllRows - 1 /\ 0 \in 0 .. TileDots - 1
    BY ScrollNumbers
  <2> QED
    BY <2>1 DEF ZeroAddress, Address
<1>2. ScrollTypeOK
  <2>1. /\ 0 \in 0 .. TileDots - 1 /\ 0 \in 0 .. ScrollLines - 1 /\ 0 \in 0 .. LineDots - 1
        /\ 0 \in 0 .. MaxWrites
    BY ScrollNumbers
  <2> QED
    BY <1>1, <2>1 DEF ScrollInit, ScrollTypeOK
<1>3. synced.half = "none"
  BY DEF ScrollInit, None
<1> QED
  BY <1>2, <1>3 DEF ScrollInit, PairInv, PairInForce, HighLoaded

LEMMA PairKept == PairInv /\ ScrollNext => PairInv'
<1> SUFFICES ASSUME PairInv, ScrollNext PROVE PairInv'
  OBVIOUS
<1>0. ScrollTypeOK /\ PairInForce /\ HighLoaded /\ ScrollTypeOK'
  BY ScrollTypesKept DEF PairInv
<1>1. vramAddr \in Address /\ vramAddr' \in Address /\ tempAddr \in Address
  BY <1>0 DEF ScrollTypeOK
<1>2. None.half = "none" /\ Ready.half = "first"
  BY DEF None, Ready
<1>3. SUFFICES /\ synced'.half = "first" => ~addrLatch'
               /\ synced'.half = "second" => addrLatch'
               /\ pair' # None => SetBy(vramAddr', pair')
               /\ HighLoaded'
  BY <1>0, <1>1, PairFields DEF PairInv, PairInForce
<1>4. /\ synced.half = "first" => ~addrLatch
      /\ synced.half = "second" => addrLatch
      /\ pair # None => SetBy(vramAddr, pair)
  BY <1>0, <1>1, PairFields DEF PairInForce
<1>5. ASSUME UNCHANGED <<vramAddr, pair>> \/ pair' = None
      PROVE  pair' # None => SetBy(vramAddr', pair')
  BY <1>4, <1>5
<1>6. ASSUME synced' = None
      PROVE  /\ synced'.half = "first" => ~addrLatch'
             /\ synced'.half = "second" => addrLatch'
             /\ HighLoaded'
  BY <1>2, <1>6 DEF HighLoaded
<1>7. ASSUME UNCHANGED <<tempAddr, synced, addrLatch>>
      PROVE  /\ synced'.half = "first" => ~addrLatch'
             /\ synced'.half = "second" => addrLatch'
             /\ HighLoaded'
  BY <1>0, <1>4, <1>7 DEF HighLoaded
<1>8. ASSUME NEW table \in Tables, NEW inRows \in BOOLEAN, WriteControl(table, inRows) PROVE <1>3!1
  BY <1>5, <1>6, <1>8 DEF WriteControl
<1>9. ASSUME NEW show \in BOOLEAN, WriteMask(show) PROVE <1>3!1
  BY <1>5, <1>7, <1>9 DEF WriteMask
<1>10. CASE ReadStatus
  BY <1>2, <1>5, <1>10 DEF ReadStatus, HighLoaded
<1>11. ASSUME NEW s \in XScrolls, WriteScrollX(s) PROVE <1>3!1
  BY <1>5, <1>6, <1>11 DEF WriteScrollX
<1>12. ASSUME NEW s \in YScrolls, WriteScrollY(s) PROVE <1>3!1
  BY <1>5, <1>6, <1>12 DEF WriteScrollY
<1>13. ASSUME NEW a \in Addresses, WriteAddressHigh(a) PROVE <1>3!1
  <2>0. UNCHANGED <<vramAddr, pair>> /\ addrLatch'
    BY <1>13 DEF WriteAddressHigh
  <2>1. CASE synced = Ready
    <3>1. synced' = [half |-> "second", high |-> HighOf(a)]
      BY <1>13, <2>1 DEF WriteAddressHigh
    <3>2. /\ a.coarseY \in 0 .. AllRows - 1 /\ tempAddr.coarseY \in 0 .. AllRows - 1
      BY <1>1, ScrollInputs DEF Address
    <3> DEFINE rows == a.coarseY \div LowRows
               low == tempAddr.coarseY % LowRows
               fine == a.fineY % (TileDots \div 2)
    <3>3. rows \in Nat /\ rows < AllRows \div LowRows /\ low \in 0 .. LowRows - 1
      BY <3>2, RowHalves
    <3>4. /\ HighOf(a).rows = rows /\ HighOf(a).fineY = fine
          /\ HighOf(a).ntX = a.ntX /\ HighOf(a).ntY = a.ntY
      BY DEF HighOf
    <3> HIDE DEF rows, low, fine
    <3>5. (LowRows * rows + low) \div LowRows = rows
      BY <3>3, RowParts
    <3>6. tempAddr' = [tempAddr EXCEPT !.fineY = fine, !.ntX = a.ntX, !.ntY = a.ntY,
                        !.coarseY = LowRows * rows + low]
      BY <1>1, <1>13, <3>4 DEF WriteAddressHigh, Address, low
    <3> DEFINE row == LowRows * rows + low
    <3> HIDE DEF row
    <3>7. /\ tempAddr'.coarseY = row /\ tempAddr'.fineY = fine
          /\ tempAddr'.ntX = a.ntX /\ tempAddr'.ntY = a.ntY
      BY <1>1, <3>6 DEF Address, row
    <3>8. row \div LowRows = rows
      BY <3>5 DEF row
    <3>9. /\ synced'.half = "second" /\ synced'.high.rows = rows /\ synced'.high.fineY = fine
          /\ synced'.high.ntX = a.ntX /\ synced'.high.ntY = a.ntY
      BY <3>1, <3>4
    <3>10. HighLoaded'
      BY <3>7, <3>8, <3>9 DEF HighLoaded
    <3> QED
      BY <1>5, <2>0, <3>9, <3>10
  <2>2. CASE synced # Ready
    <3>1. synced' = None
      BY <1>13, <2>2 DEF WriteAddressHigh
    <3> QED
      BY <1>5, <1>6, <2>0, <3>1
  <2> QED
    BY <2>1, <2>2
<1>14. ASSUME NEW a \in Addresses, WriteAddressLow(a) PROVE <1>3!1
  <2>1. CASE synced.half = "second"
    <3> DEFINE row == LowRows * (tempAddr.coarseY \div LowRows) + (a.coarseY % LowRows)
               rowOfPair == LowRows * synced.high.rows + (a.coarseY % LowRows)
    <3>1. vramAddr' = [tempAddr EXCEPT !.coarseX = a.coarseX, !.coarseY = row]
      BY <1>1, <1>14 DEF WriteAddressLow, Address
    <3>2. pair' = [half |-> "both", coarseX |-> a.coarseX, ntX |-> synced.high.ntX,
                   ntY |-> synced.high.ntY, fineY |-> synced.high.fineY, coarseY |-> rowOfPair]
      BY <1>14, <2>1 DEF WriteAddressLow
    <3>3. row = rowOfPair
      BY <1>0, <2>1 DEF HighLoaded
    <3>4. /\ tempAddr.fineY = synced.high.fineY /\ tempAddr.ntX = synced.high.ntX
          /\ tempAddr.ntY = synced.high.ntY
      BY <1>0, <2>1 DEF HighLoaded
    <3> HIDE DEF row, rowOfPair
    <3>5. /\ vramAddr'.coarseX = a.coarseX /\ vramAddr'.coarseY = row
          /\ vramAddr'.fineY = tempAddr.fineY /\ vramAddr'.ntX = tempAddr.ntX
          /\ vramAddr'.ntY = tempAddr.ntY
      BY <1>1, <3>1 DEF Address
    <3>6. SetBy(vramAddr', pair')
      BY <3>2, <3>3, <3>4, <3>5 DEF SetBy
    <3>7. synced' = None
      BY <1>14 DEF WriteAddressLow
    <3> QED
      BY <1>6, <3>6, <3>7
  <2>2. CASE synced.half # "second"
    <3>1. pair' = None /\ synced' = None
      BY <1>14, <2>2 DEF WriteAddressLow
    <3> QED
      BY <1>5, <1>6, <3>1
  <2> QED
    BY <2>1, <2>2
<1>15. CASE AccessData
  <2>1. pair' = None /\ synced' = None
    BY <1>15 DEF AccessData
  <2> QED
    BY <1>5, <1>6, <2>1
<1>16. CASE Dot
  <2>1. UNCHANGED <<vramAddr, pair>> \/ pair' = None
    BY <1>16 DEF Dot
  <2>2. UNCHANGED <<tempAddr, synced, addrLatch>>
    BY <1>16 DEF Dot
  <2> QED
    BY <1>5, <1>7, <2>1, <2>2
<1>17. CASE StartNextFrame
  BY <1>5, <1>7, <1>17 DEF StartNextFrame, scrollRegisters
<1> QED
  BY <1>8, <1>9, <1>10, <1>11, <1>12, <1>13, <1>14, <1>15, <1>16, <1>17 DEF ScrollNext

-----------------------------------------------------------------------------
(* The scroll in force: the walk of the address as arithmetic.             *)

\* Equal columns of the four nametables, which repeat to the left and to the right.
Same(x, y) == \E k \in Int : x = y + k * WorldWidth

LEMMA SameSums ==
  ASSUME NEW x \in Int, NEW y \in Int, NEW z \in Int, NEW d \in Int, WorldWidth \in Int, Same(x, y)
  PROVE  Same(x + d, y + d) /\ (Same(y, z) => Same(x, z))
<1>1. PICK k \in Int : x = y + k * WorldWidth
  BY DEF Same
<1> DEFINE across == k * WorldWidth
<1>2. across \in Int /\ x = y + across
  BY <1>1, SMT
<1>3. Same(x + d, y + d)
  <2>1. x + d = (y + d) + across
    <3> HIDE DEF across
    <3> QED
      BY <1>2
  <2> QED
    BY <2>1 DEF Same
<1>4. ASSUME Same(y, z) PROVE Same(x, z)
  <2>1. PICK j \in Int : y = z + j * WorldWidth
    BY <1>4 DEF Same
  <2> DEFINE beyond == j * WorldWidth
             both == (k + j) * WorldWidth
  <2>2. both = across + beyond /\ beyond \in Int /\ y = z + beyond
    BY <2>1, SMT
  <2>3. x = z + both
    <3> HIDE DEF across, beyond, both
    <3> QED
      BY <1>2, <2>2
  <2>4. k + j \in Int
    OBVIOUS
  <2> QED
    BY <2>3, <2>4 DEF Same
<1> QED
  BY <1>3, <1>4

LEMMA SameRemainder ==
  ASSUME NEW x \in Int, NEW y \in Int, WorldWidth \in Nat \ {0}, Same(x, y)
  PROVE  x % WorldWidth = y % WorldWidth
<1>1. PICK k \in Int : x = y + k * WorldWidth
  BY DEF Same
<1> DEFINE p == x \div WorldWidth
           q == y \div WorldWidth
           r == x % WorldWidth
           s == y % WorldWidth
           m == WorldWidth
<1>2. /\ p \in Int /\ q \in Int /\ r \in 0 .. m - 1 /\ s \in 0 .. m - 1
      /\ x = m * p + r /\ y = m * q + s /\ m \in Nat \ {0}
  <2>1. WorldWidth \in Nat \ {0}
    OBVIOUS
  <2> QED
    BY <2>1, DivMod
<1> HIDE DEF p, q, r, s, m
<1> DEFINE n == q + k
<1>3. m * n = m * q + k * m /\ n \in Int
  BY <1>2, SMT
<1> HIDE DEF n
<1>4. m * p + r = m * n + s
  <2>1. x = y + k * m
    BY <1>1 DEF m
  <2> QED
    BY <1>2, <1>3, <2>1
<1>5. r = s
  BY <1>2, <1>3, <1>4, DivModUnique
<1> QED
  BY <1>5 DEF r, s

LEMMA SameAsItself == ASSUME NEW x \in Int, WorldWidth \in Int PROVE Same(x, x)
<1>1. x = x + 0 * WorldWidth
  BY SMT
<1> QED
  BY <1>1 DEF Same

\* Where an address points to: the column of its tile, and the row, in dots.
Across(a) == TileDots * a.coarseX + Width * a.ntX
DownTo(a) == TileDots * a.coarseY + a.fineY + Rows * TileDots * a.ntY

LEMMA WorldNumbers ==
  /\ WorldWidth = Width + Width /\ WorldWidth \in Nat \ {0}
  /\ Rows * TileDots \in Nat \ {0} /\ WorldHeight = Rows * TileDots + Rows * TileDots
  /\ WorldHeight \in Nat \ {0}
<1>1. Width \in Nat \ {0} /\ Rows \in Nat \ {0} /\ TileDots \in Nat \ {0}
  BY ScrollDots, ScrollNumbers
<1>2. WorldWidth = Width + Width /\ WorldWidth \in Nat \ {0}
  BY <1>1 DEF WorldWidth
<1> DEFINE tall == Rows * TileDots
<1>3. tall \in Nat \ {0}
  BY <1>1, SMT
<1>4. WorldHeight = 2 * tall
  BY <1>1, SMT DEF WorldHeight
<1> HIDE DEF tall
<1>5. WorldHeight = tall + tall /\ WorldHeight \in Nat \ {0}
  BY <1>3, <1>4
<1> QED
  BY <1>2, <1>3, <1>5 DEF tall

\* A tile's column, by its nametable.
LEMMA AcrossParts ==
  ASSUME NEW a \in Address
  PROVE  /\ TileDots * a.coarseX \in Nat /\ Across(a) \in 0 .. WorldWidth - TileDots
         /\ a.ntX = 0 => Across(a) = TileDots * a.coarseX
         /\ a.ntX = 1 => Across(a) = TileDots * a.coarseX + Width
<1>1. /\ TileDots \in Nat \ {0} /\ Cols \in Nat \ {0} /\ Width \in Nat \ {0}
      /\ a.coarseX \in 0 .. Cols - 1 /\ a.ntX \in {0, 1}
  BY ScrollNumbers, ScrollDots DEF Address
<1> DEFINE x == TileDots * a.coarseX
<1>2. x \in Nat /\ x <= TileDots * (Cols - 1)
  BY <1>1, SMT
<1>3. TileDots * (Cols - 1) = Width - TileDots
  BY <1>1, SMT DEF Width
<1>4. Width * 0 = 0 /\ Width * 1 = Width
  BY <1>1
<1>5. Across(a) = x + Width * a.ntX
  BY DEF Across
<1> HIDE DEF x
<1>6. /\ a.ntX = 0 => Across(a) = x
      /\ a.ntX = 1 => Across(a) = x + Width
  BY <1>1, <1>2, <1>4, <1>5
<1> QED
  BY <1>1, <1>2, <1>3, <1>6, WorldNumbers DEF x

\* One tile to the right, and one to the left.
LEMMA NextTile ==
  ASSUME NEW a \in Address
  PROVE  Same(Across(IncrementCoarseX(a)), Across(a) + TileDots)
<1>1. /\ TileDots \in Nat \ {0} /\ Cols \in Nat \ {0} /\ Width \in Nat \ {0}
      /\ a.coarseX \in 0 .. Cols - 1 /\ a.ntX \in {0, 1}
      /\ WorldWidth = Width + Width
  BY ScrollNumbers, ScrollDots, WorldNumbers DEF Address
<1> DEFINE b == IncrementCoarseX(a)
           x == TileDots * a.coarseX
           y == TileDots * b.coarseX
<1>2. b \in Address
  BY WalkAddress
<1>3. /\ x \in Nat /\ y \in Nat /\ Across(a) \in Int /\ Across(b) \in Int
      /\ a.ntX = 0 => Across(a) = x
      /\ a.ntX = 1 => Across(a) = x + Width
      /\ b.ntX = 0 => Across(b) = y
      /\ b.ntX = 1 => Across(b) = y + Width
  BY <1>1, <1>2, AcrossParts, WorldNumbers
<1>4. CASE a.coarseX = Cols - 1
  <2>1. b = [a EXCEPT !.coarseX = 0, !.ntX = 1 - @]
    BY <1>4 DEF IncrementCoarseX
  <2>2. b.coarseX = 0 /\ b.ntX = 1 - a.ntX
    BY <2>1 DEF Address
  <2>3. y = 0 /\ x = Width - TileDots
    BY <1>1, <1>4, <2>2, SMT DEF Width
  <2> HIDE DEF b, x, y
  <2>4. /\ a.ntX = 0 => Across(b) = Across(a) + TileDots
        /\ a.ntX = 1 => Across(b) = (Across(a) + TileDots) - WorldWidth
    BY <1>1, <1>3, <2>2, <2>3
  <2>5. 0 * WorldWidth = 0 /\ (-1) * WorldWidth = -WorldWidth
    BY <1>1
  <2>6. \/ Across(b) = (Across(a) + TileDots) + 0 * WorldWidth
        \/ Across(b) = (Across(a) + TileDots) + (-1) * WorldWidth
    BY <1>1, <1>3, <2>4, <2>5
  <2>7. 0 \in Int /\ -1 \in Int
    OBVIOUS
  <2>8. Same(Across(b), Across(a) + TileDots)
    BY <2>6, <2>7 DEF Same
  <2> QED
    BY <2>8 DEF b
<1>5. CASE a.coarseX # Cols - 1
  <2>1. b = [a EXCEPT !.coarseX = @ + 1]
    BY <1>5 DEF IncrementCoarseX
  <2>2. b.coarseX = a.coarseX + 1 /\ b.ntX = a.ntX
    BY <2>1 DEF Address
  <2>3. y = x + TileDots
    BY <1>1, <2>2, SMT
  <2> HIDE DEF b, x, y
  <2>4. Across(b) = Across(a) + TileDots
    BY <1>1, <1>3, <2>2, <2>3
  <2>5. Same(Across(b), Across(a) + TileDots)
    BY <1>1, <1>3, <2>4, SameAsItself
  <2> QED
    BY <2>5 DEF b
<1> QED
  BY <1>4, <1>5

LEMMA LastTile ==
  ASSUME NEW a \in Address
  PROVE  /\ Rewind(a) \in Address /\ DownTo(Rewind(a)) = DownTo(a)
         /\ Same(Across(Rewind(a)), Across(a) - TileDots)
<1>1. /\ TileDots \in Nat \ {0} /\ Cols \in Nat \ {0} /\ Width \in Nat \ {0}
      /\ a.coarseX \in 0 .. Cols - 1 /\ a.ntX \in {0, 1}
      /\ WorldWidth = Width + Width /\ 1 - a.ntX \in {0, 1} /\ Cols - 1 \in 0 .. Cols - 1
  BY ScrollNumbers, ScrollDots, WorldNumbers DEF Address
<1> DEFINE b == Rewind(a)
           x == TileDots * a.coarseX
           y == TileDots * b.coarseX
<1>4. CASE a.coarseX = 0
  <2>1. b = [a EXCEPT !.coarseX = Cols - 1, !.ntX = 1 - @]
    BY <1>4 DEF Rewind
  <2>2. /\ b.coarseX = Cols - 1 /\ b.ntX = 1 - a.ntX
        /\ b.coarseY = a.coarseY /\ b.fineY = a.fineY /\ b.ntY = a.ntY
    BY <2>1 DEF Address
  <2>3. b \in Address
    BY <1>1, <2>1 DEF Address
  <2>4. /\ x \in Nat /\ y \in Nat /\ Across(a) \in Int /\ Across(b) \in Int
        /\ a.ntX = 0 => Across(a) = x
        /\ a.ntX = 1 => Across(a) = x + Width
        /\ b.ntX = 0 => Across(b) = y
        /\ b.ntX = 1 => Across(b) = y + Width
    BY <1>1, <2>3, AcrossParts, WorldNumbers
  <2>5. x = 0 /\ y = Width - TileDots
    BY <1>1, <1>4, <2>2, SMT DEF Width
  <2>6. DownTo(b) = DownTo(a)
    BY <2>2 DEF DownTo
  <2> HIDE DEF b, x, y
  <2>7. /\ a.ntX = 0 => Across(b) = (Across(a) - TileDots) + WorldWidth
        /\ a.ntX = 1 => Across(b) = Across(a) - TileDots
    BY <1>1, <2>2, <2>4, <2>5
  <2>8. 0 * WorldWidth = 0 /\ 1 * WorldWidth = WorldWidth
    BY <1>1
  <2>9. \/ Across(b) = (Across(a) - TileDots) + 0 * WorldWidth
        \/ Across(b) = (Across(a) - TileDots) + 1 * WorldWidth
    BY <1>1, <2>4, <2>7, <2>8
  <2>10. 0 \in Int /\ 1 \in Int
    OBVIOUS
  <2>11. Same(Across(b), Across(a) - TileDots)
    BY <2>9, <2>10 DEF Same
  <2> QED
    BY <2>3, <2>6, <2>11 DEF b
<1>5. CASE a.coarseX # 0
  <2>1. b = [a EXCEPT !.coarseX = @ - 1]
    BY <1>5 DEF Rewind
  <2>2. /\ b.coarseX = a.coarseX - 1 /\ b.ntX = a.ntX
        /\ b.coarseY = a.coarseY /\ b.fineY = a.fineY /\ b.ntY = a.ntY
    BY <2>1 DEF Address
  <2>3. a.coarseX - 1 \in 0 .. Cols - 1
    BY <1>1, <1>5
  <2>4. b \in Address
    BY <2>1, <2>3 DEF Address
  <2>5. /\ x \in Nat /\ y \in Nat /\ Across(a) \in Int /\ Across(b) \in Int
        /\ a.ntX = 0 => Across(a) = x
        /\ a.ntX = 1 => Across(a) = x + Width
        /\ b.ntX = 0 => Across(b) = y
        /\ b.ntX = 1 => Across(b) = y + Width
    BY <1>1, <2>4, AcrossParts, WorldNumbers
  <2>6. y = x - TileDots
    BY <1>1, <2>2, SMT
  <2>7. DownTo(b) = DownTo(a)
    BY <2>2 DEF DownTo
  <2> HIDE DEF b, x, y
  <2>8. Across(b) = Across(a) - TileDots
    BY <1>1, <2>2, <2>5, <2>6
  <2>9. Same(Across(b), Across(a) - TileDots)
    BY <1>1, <2>5, <2>8, SameAsItself
  <2> QED
    BY <2>4, <2>7, <2>9 DEF b
<1> QED
  BY <1>4, <1>5

LEMMA DownParts ==
  ASSUME NEW a \in Address
  PROVE  /\ TileDots * a.coarseY \in Nat /\ DownTo(a) \in Nat
         /\ a.ntY = 0 => DownTo(a) = TileDots * a.coarseY + a.fineY
         /\ a.ntY = 1 => DownTo(a) = TileDots * a.coarseY + a.fineY + Rows * TileDots
         /\ a.coarseY < Rows => DownTo(a) \in 0 .. WorldHeight - 1
<1>1. /\ TileDots \in Nat \ {0} /\ Rows \in Nat \ {0} /\ Rows * TileDots \in Nat \ {0}
      /\ a.coarseY \in Nat /\ a.ntY \in {0, 1} /\ a.fineY \in 0 .. TileDots - 1
      /\ WorldHeight = Rows * TileDots + Rows * TileDots
  BY ScrollNumbers, WorldNumbers DEF Address
<1> DEFINE y == TileDots * a.coarseY
           tall == Rows * TileDots
<1>2. y \in Nat
  BY <1>1, SMT
<1>3. tall * 0 = 0 /\ tall * 1 = tall
  <2>1. tall \in Nat
    BY <1>1
  <2> HIDE DEF tall
  <2> QED
    BY <2>1
<1>4. DownTo(a) = y + a.fineY + tall * a.ntY
  BY DEF DownTo
<1>5. a.coarseY < Rows => y <= tall - TileDots
  <2>1. SUFFICES ASSUME a.coarseY < Rows PROVE y <= tall - TileDots
    OBVIOUS
  <2>2. TileDots * (Rows - 1) = tall - TileDots
    BY <1>1, SMT
  <2>3. a.coarseY <= Rows - 1
    BY <1>1, <2>1
  <2>4. y <= TileDots * (Rows - 1)
    BY <1>1, <2>3, SMT
  <2> HIDE DEF y, tall
  <2> QED
    BY <2>2, <2>4
<1>6. tall \in Nat \ {0} /\ WorldHeight = tall + tall
  BY <1>1
<1> HIDE DEF y, tall
<1>7. /\ a.ntY = 0 => DownTo(a) = y + a.fineY
      /\ a.ntY = 1 => DownTo(a) = y + a.fineY + tall
  BY <1>1, <1>2, <1>3, <1>4, <1>6
<1>8. DownTo(a) \in Nat /\ (a.coarseY < Rows => DownTo(a) \in 0 .. WorldHeight - 1)
  BY <1>1, <1>2, <1>5, <1>6, <1>7
<1> QED
  BY <1>2, <1>7, <1>8 DEF y, tall

\* One dot down, within the nametables.
LEMMA NextRow ==
  ASSUME NEW a \in Address, a.coarseY < Rows
  PROVE  /\ IncrementY(a).coarseY < Rows
         /\ DownTo(IncrementY(a)) = (DownTo(a) + 1) % WorldHeight
<1>1. /\ TileDots \in Nat \ {0} /\ Rows \in Nat \ {0} /\ AllRows \in Nat /\ Rows < AllRows
      /\ a.coarseY \in Nat /\ a.ntY \in {0, 1} /\ a.fineY \in 0 .. TileDots - 1
  BY ScrollNumbers DEF Address
<1> DEFINE b == IncrementY(a)
           x == TileDots * a.coarseY
           y == TileDots * b.coarseY
           tall == Rows * TileDots
<1>2. b \in Address
  BY WalkAddress
<1>3. /\ tall \in Nat \ {0} /\ WorldHeight = tall + tall /\ WorldHeight \in Nat \ {0}
      /\ x \in Nat /\ y \in Nat
      /\ DownTo(a) \in 0 .. WorldHeight - 1
      /\ a.ntY = 0 => DownTo(a) = x + a.fineY
      /\ a.ntY = 1 => DownTo(a) = x + a.fineY + tall
      /\ b.ntY = 0 => DownTo(b) = y + b.fineY
      /\ b.ntY = 1 => DownTo(b) = y + b.fineY + tall
  BY <1>2, DownParts, WorldNumbers
<1>4. b.coarseY < Rows => DownTo(b) \in 0 .. WorldHeight - 1
  BY <1>2, DownParts
<1>5. \A n \in 0 .. WorldHeight - 1 : n % WorldHeight = n
  BY <1>3, ModOfSmall
<1>6. CASE a.fineY < TileDots - 1 \/ a.coarseY # Rows - 1
  <2>1. /\ b.coarseY < Rows /\ b.ntY = a.ntY
        /\ \/ b.coarseY = a.coarseY /\ b.fineY = a.fineY + 1
           \/ b.coarseY = a.coarseY + 1 /\ b.fineY = 0 /\ a.fineY = TileDots - 1
    <3>1. CASE a.fineY < TileDots - 1
      <4>1. b = [a EXCEPT !.fineY = @ + 1]
        BY <1>1, <3>1 DEF IncrementY
      <4> QED
        BY <4>1 DEF Address
    <3>2. CASE a.fineY = TileDots - 1
      <4>1. a.coarseY # Rows - 1 /\ a.coarseY # AllRows - 1
        BY <1>1, <1>6, <3>2
      <4>2. b = [a EXCEPT !.fineY = 0, !.coarseY = @ + 1]
        BY <1>1, <3>2, <4>1 DEF IncrementY
      <4>3. /\ b.fineY = 0 /\ b.coarseY = a.coarseY + 1 /\ b.ntY = a.ntY
        BY <4>2 DEF Address
      <4>4. a.coarseY + 1 < Rows
        BY <1>1, <4>1
      <4> HIDE DEF b
      <4> QED
        BY <3>2, <4>3, <4>4
    <3> QED
      BY <1>1, <3>1, <3>2
  <2>2. b.coarseY = a.coarseY => y = x
    OBVIOUS
  <2>3. b.coarseY = a.coarseY + 1 => y = x + TileDots
    BY <1>1, SMT
  <2> HIDE DEF b, x, y, tall
  <2>4. DownTo(b) = DownTo(a) + 1
    BY <1>1, <1>3, <2>1, <2>2, <2>3
  <2>5. DownTo(a) + 1 \in 0 .. WorldHeight - 1
    BY <1>4, <2>1, <2>4
  <2> QED
    BY <1>5, <2>1, <2>4, <2>5 DEF b
<1>7. CASE a.fineY = TileDots - 1 /\ a.coarseY = Rows - 1
  <2>1. b = [a EXCEPT !.fineY = 0, !.coarseY = 0, !.ntY = 1 - @]
    BY <1>1, <1>7 DEF IncrementY
  <2>2. b.fineY = 0 /\ b.coarseY = 0 /\ b.ntY = 1 - a.ntY
    BY <2>1 DEF Address
  <2>3. y = 0 /\ x = tall - TileDots
    BY <1>1, <1>7, <2>2, SMT
  <2> HIDE DEF b, x, y, tall
  <2>4. /\ a.ntY = 0 => DownTo(a) + 1 = tall /\ DownTo(b) = tall
        /\ a.ntY = 1 => DownTo(a) + 1 = WorldHeight /\ DownTo(b) = 0
    BY <1>1, <1>3, <1>7, <2>2, <2>3
  <2>5. WorldHeight % WorldHeight = 0
    BY <1>3
  <2>6. DownTo(b) = (DownTo(a) + 1) % WorldHeight
    BY <1>1, <1>3, <1>5, <2>4, <2>5
  <2>7. b.coarseY < Rows
    BY <1>1, <2>2
  <2> QED
    BY <2>6, <2>7 DEF b
<1> QED
  BY <1>1, <1>6, <1>7

\* The tiles by which the walk is ahead of the line's first column.
Ahead(dot) ==
  IF dot < Width THEN 2 + (dot \div TileDots)
  ELSE IF dot < PrefetchAt THEN 0
  ELSE IF dot < PrefetchAt + 2 * TileDots - 1
       THEN (dot \div TileDots) - ((PrefetchAt - 1) \div TileDots)
  ELSE 2

\* The dots at which the walk goes on to the next tile.
NextTileAt(dot) ==
  /\ dot \in 1 .. Width \/ dot \in PrefetchAt .. PrefetchAt + 2 * TileDots - 1
  /\ dot % TileDots = 0

LEMMA DotsAhead ==
  ASSUME NEW dot \in Nat, dot < LineDots, dot + 1 # Width, dot # Width
  PROVE  /\ Ahead(dot) \in Int /\ Ahead(dot + 1) \in Int
         /\ Ahead(dot + 1) = Ahead(dot) + (IF NextTileAt(dot + 1) THEN 1 ELSE 0)
<1> DEFINE T == TileDots
           p == PrefetchAt - 1
           q(n) == n \div T
           r(n) == n % T
<1>1. /\ T \in Nat \ {0} /\ p \in Nat /\ PrefetchAt = p + 1 /\ Width \in Nat \ {0}
      /\ Width < p /\ p + 1 + 2 * T <= LineDots
  BY ScrollNumbers, ScrollDots
<1>2. \A n \in Nat : /\ q(n) \in Int /\ r(n) \in Int
                     /\ q(n + 1) = q(n) + (IF r(n + 1) = 0 THEN 1 ELSE 0)
  <2>1. SUFFICES ASSUME NEW n \in Nat
                 PROVE  /\ q(n) \in Int /\ r(n) \in Int
                        /\ q(n + 1) = q(n) + (IF r(n + 1) = 0 THEN 1 ELSE 0)
    OBVIOUS
  <2>2. /\ r(n) + 1 < T => r(n + 1) = r(n) + 1 /\ q(n + 1) = q(n)
        /\ r(n) + 1 >= T => r(n + 1) = 0 /\ q(n + 1) = q(n) + 1
    BY <1>1, DivModNext
  <2>3. q(n) \in Int /\ r(n) \in 0 .. T - 1
    <3>1. n \in Int /\ T \in Nat \ {0}
      BY <1>1
    <3> HIDE DEF T
    <3> QED
      BY <3>1, DivMod
  <2> HIDE DEF q, r, T
  <2> QED
    BY <1>1, <2>2, <2>3
<1>3. q(p + 2 * T) = q(p) + 2
  <2> DEFINE n == p + 2 * T
  <2>1. n \in Int /\ p \in Int /\ T \in Nat \ {0}
    BY <1>1
  <2>2. /\ q(n) \in Int /\ r(n) \in 0 .. T - 1 /\ n = T * q(n) + r(n)
        /\ q(p) \in Int /\ r(p) \in 0 .. T - 1 /\ p = T * q(p) + r(p)
    <3> HIDE DEF n, p
    <3> QED
      BY <2>1, DivMod
  <2> DEFINE a == q(n)
             b == q(p)
             c == r(n)
             d == r(p)
             e == b + 2
  <2>3. /\ a \in Int /\ b \in Int /\ e \in Int /\ c \in 0 .. T - 1 /\ d \in 0 .. T - 1
        /\ n = T * a + c /\ p = T * b + d
    BY <2>2
  <2> HIDE DEF a, b, c, d
  <2>4. T * e = T * b + 2 * T
    BY <2>1, <2>3, SMT
  <2>5. T * a + c = T * e + d
    <3> HIDE DEF e, T
    <3> QED
      BY <2>1, <2>3, <2>4
  <2> HIDE DEF e, T
  <2>6. a = e
    BY <2>1, <2>3, <2>5, DivModUnique
  <2> QED
    BY <2>6 DEF a, b, e
<1>4. /\ \A n : Ahead(n) = IF n < Width THEN 2 + q(n) ELSE IF n < p + 1 THEN 0
                           ELSE IF n < p + 2 * T THEN q(n) - q(p) ELSE 2
      /\ NextTileAt(dot + 1) <=>
           /\ dot + 1 \in 1 .. Width \/ dot + 1 \in p + 1 .. p + 2 * T
           /\ r(dot + 1) = 0
  <2>1. PrefetchAt + 2 * TileDots - 1 = p + 2 * T /\ PrefetchAt = p + 1
    BY <1>1
  <2> QED
    BY <2>1 DEF Ahead, NextTileAt
<1> HIDE DEF p, q, r, T
<1>5. q(dot) \in Int /\ q(dot + 1) = q(dot) + (IF r(dot + 1) = 0 THEN 1 ELSE 0)
      /\ q(p) \in Int
  BY <1>1, <1>2
<1>6. Ahead(dot) \in Int
  BY <1>1, <1>4, <1>5
<1>7. Ahead(dot + 1) = IF dot + 1 < Width THEN 2 + q(dot + 1) ELSE IF dot + 1 < p + 1 THEN 0
                       ELSE IF dot + 1 < p + 2 * T THEN q(dot + 1) - q(p) ELSE 2
  BY <1>4
<1>8. Ahead(dot) = IF dot < Width THEN 2 + q(dot) ELSE IF dot < p + 1 THEN 0
                   ELSE IF dot < p + 2 * T THEN q(dot) - q(p) ELSE 2
  BY <1>4
<1>9. CASE dot + 1 < Width
  BY <1>1, <1>4, <1>5, <1>7, <1>8, <1>9
<1>10. CASE dot > Width /\ dot < p
  BY <1>1, <1>4, <1>5, <1>7, <1>8, <1>10
<1>11. CASE dot = p
  BY <1>1, <1>4, <1>5, <1>7, <1>8, <1>11
<1>12. CASE dot > p /\ dot + 1 < p + 2 * T
  BY <1>1, <1>4, <1>5, <1>7, <1>8, <1>12
<1>13. CASE dot + 1 = p + 2 * T
  <2>1. q(dot + 1) = q(p) + 2
    BY <1>3, <1>13
  <2> QED
    BY <1>1, <1>4, <1>5, <1>7, <1>8, <1>13, <2>1
<1>14. CASE dot >= p + 2 * T
  BY <1>1, <1>4, <1>5, <1>7, <1>8, <1>14
<1> QED
  BY <1>1, <1>9, <1>10, <1>11, <1>12, <1>13, <1>14

\* Where the walk says something about the scroll: not between the end of a line and the
\* copy that follows it, and not before the pre-render line has loaded column or row.
ColumnKnown ==
  IF scanline < Height THEN scroll.y >= 0 /\ cycle # Width
  ELSE scanline = PreRender /\ cycle > Width /\ scroll # Unknown

RowKnown == scroll.y >= 0 /\ (scanline < Height \/ (scanline = PreRender /\ cycle >= CopyTo))

ColumnHolds ==
  ColumnKnown => Same(Across(vramAddr) + fineX, scroll.x + TileDots * Ahead(cycle))

RowHolds == RowKnown => vramAddr.coarseY < Rows /\ DownTo(vramAddr) = scroll.y

ScrollType ==
  \/ scroll = Unknown
  \/ scroll \in [x : 0 .. WorldWidth - 1, y : {-1} \union (0 .. WorldHeight - 1)]

\* With the picture off nothing is known of the scroll.
ScrollInv ==
  /\ PairInv
  /\ ScrollType
  /\ ~rendering => scroll = Unknown
  /\ ColumnHolds
  /\ RowHolds

\* The dots count the rows of an address whatever its column is.
LEMMA RowsOnly ==
  ASSUME NEW a \in Address, NEW b \in Address,
         a.coarseY = b.coarseY, a.fineY = b.fineY, a.ntY = b.ntY
  PROVE  /\ IncrementY(a).coarseY = IncrementY(b).coarseY
         /\ DownTo(IncrementY(a)) = DownTo(IncrementY(b))
<1>0. /\ TileDots \in Nat /\ Rows \in Nat /\ AllRows \in Nat /\ Rows < AllRows
      /\ a.fineY \in 0 .. TileDots - 1
  BY ScrollNumbers DEF Address
<1> DEFINE c == IncrementY(a)
           d == IncrementY(b)
<1> SUFFICES c.coarseY = d.coarseY /\ c.fineY = d.fineY /\ c.ntY = d.ntY
  BY DEF DownTo
<1>1. CASE a.fineY < TileDots - 1
  <2>1. c = [a EXCEPT !.fineY = @ + 1] /\ d = [b EXCEPT !.fineY = @ + 1]
    BY <1>0, <1>1 DEF IncrementY
  <2> QED
    BY <2>1 DEF Address
<1>2. CASE a.fineY = TileDots - 1 /\ a.coarseY = Rows - 1
  <2>1. /\ c = [a EXCEPT !.fineY = 0, !.coarseY = 0, !.ntY = 1 - @]
        /\ d = [b EXCEPT !.fineY = 0, !.coarseY = 0, !.ntY = 1 - @]
    BY <1>0, <1>2 DEF IncrementY
  <2> QED
    BY <2>1 DEF Address
<1>3. CASE a.fineY = TileDots - 1 /\ a.coarseY # Rows - 1 /\ a.coarseY = AllRows - 1
  <2>1. /\ c = [a EXCEPT !.fineY = 0, !.coarseY = 0]
        /\ d = [b EXCEPT !.fineY = 0, !.coarseY = 0]
    BY <1>0, <1>3 DEF IncrementY
  <2> QED
    BY <2>1 DEF Address
<1>4. CASE a.fineY = TileDots - 1 /\ a.coarseY # Rows - 1 /\ a.coarseY # AllRows - 1
  <2>1. /\ c = [a EXCEPT !.fineY = 0, !.coarseY = @ + 1]
        /\ d = [b EXCEPT !.fineY = 0, !.coarseY = @ + 1]
    BY <1>0, <1>4 DEF IncrementY
  <2> QED
    BY <2>1 DEF Address
<1> QED
  BY <1>0, <1>1, <1>2, <1>3, <1>4

\* What a dot does to the column and to the row of the address.
LEMMA WalkedParts ==
  ASSUME ScrollTypeOK, NEW dot \in 1 .. LineDots
  PROVE  LET b == Walked(vramAddr, dot)
             loading == scanline = PreRender /\ dot \in CopyFrom .. CopyTo
         IN /\ dot # Width + 1 /\ dot # Width =>
                 Across(b) = Across(IF NextTileAt(dot) THEN IncrementCoarseX(vramAddr)
                                    ELSE vramAddr)
            /\ dot = Width + 1 => Across(b) = Across(tempAddr)
            /\ ~loading /\ dot # Width =>
                 b.coarseY = vramAddr.coarseY /\ DownTo(b) = DownTo(vramAddr)
            /\ dot = Width => /\ b.coarseY = IncrementY(vramAddr).coarseY
                              /\ DownTo(b) = DownTo(IncrementY(vramAddr))
            /\ loading => b.coarseY = tempAddr.coarseY /\ DownTo(b) = DownTo(tempAddr)
<1> DEFINE loading == scanline = PreRender /\ dot \in CopyFrom .. CopyTo
           a1 == IF NextTileAt(dot) THEN IncrementCoarseX(vramAddr) ELSE vramAddr
           a2 == IF dot = Width THEN IncrementY(a1) ELSE a1
           a3 == IF dot = Width + 1 THEN CopyHorizontalBits(a2) ELSE a2
           a4 == IF loading THEN CopyVerticalBits(a3) ELSE a3
<1>0. /\ Width \in Nat \ {0} /\ Width + 1 < PrefetchAt /\ Width + 1 < CopyFrom
      /\ CopyFrom \in Nat /\ PrefetchAt \in Nat /\ dot \in Nat
      /\ tempAddr \in Address /\ vramAddr \in Address
  BY ScrollNumbers, ScrollDots DEF ScrollTypeOK
<1>1. Walked(vramAddr, dot) = a4
  BY DEF Walked, NextTileAt
<1>2. a1 \in Address /\ a1.coarseY = vramAddr.coarseY /\ a1.fineY = vramAddr.fineY
      /\ a1.ntY = vramAddr.ntY
  BY <1>0, WalkAddress DEF IncrementCoarseX, Address
<1>3. a2 \in Address /\ a3 \in Address
  BY <1>2, WalkAddress
<1>4. CASE dot = Width
  <2>1. a4 = IncrementY(a1)
    BY <1>0, <1>4
  <2>2. /\ IncrementY(a1).coarseY = IncrementY(vramAddr).coarseY
        /\ DownTo(IncrementY(a1)) = DownTo(IncrementY(vramAddr))
    BY <1>0, <1>2, RowsOnly
  <2> QED
    BY <1>0, <1>1, <1>4, <2>1, <2>2
<1>5. CASE dot = Width + 1
  <2>1. ~NextTileAt(dot)
    BY <1>0, <1>5 DEF NextTileAt
  <2>2. a4 = CopyHorizontalBits(vramAddr)
    BY <1>0, <1>5, <2>1
  <2>3. /\ a4.coarseX = tempAddr.coarseX /\ a4.ntX = tempAddr.ntX
        /\ a4.coarseY = vramAddr.coarseY /\ a4.fineY = vramAddr.fineY /\ a4.ntY = vramAddr.ntY
    BY <1>0, <2>2 DEF CopyHorizontalBits, Address
  <2>4. Across(a4) = Across(tempAddr) /\ DownTo(a4) = DownTo(vramAddr)
    BY <2>3 DEF Across, DownTo
  <2> QED
    BY <1>0, <1>1, <1>5, <2>3, <2>4
<1>6. CASE dot # Width /\ dot # Width + 1
  <2>1. a3 = a1
    BY <1>6
  <2>2. CASE loading
    <3>1. a4 = CopyVerticalBits(a1)
      BY <2>1, <2>2
    <3>2. /\ a4.coarseX = a1.coarseX /\ a4.ntX = a1.ntX
          /\ a4.coarseY = tempAddr.coarseY /\ a4.fineY = tempAddr.fineY /\ a4.ntY = tempAddr.ntY
      <4>1. a4 = [a1 EXCEPT !.coarseY = tempAddr.coarseY, !.fineY = tempAddr.fineY,
                            !.ntY = tempAddr.ntY]
        BY <3>1 DEF CopyVerticalBits
      <4>2. a1 \in Address
        BY <1>2
      <4> HIDE DEF a1, a4
      <4> QED
        BY <4>1, <4>2 DEF Address
    <3>3. Across(a4) = Across(a1) /\ DownTo(a4) = DownTo(tempAddr)
      BY <3>2 DEF Across, DownTo
    <3> QED
      BY <1>1, <1>6, <2>2, <3>2, <3>3
  <2>3. CASE ~loading
    <3>1. a4 = a1
      BY <2>1, <2>3
    <3>2. DownTo(a1) = DownTo(vramAddr)
      BY <1>2 DEF DownTo
    <3> QED
      BY <1>1, <1>2, <1>6, <2>3, <3>1, <3>2
  <2> QED
    BY <2>2, <2>3
<1> QED
  BY <1>4, <1>5, <1>6

\* The scroll that a program loads.
LEMMA TempScroll ==
  ASSUME ScrollTypeOK
  PROVE  /\ TempX = Across(tempAddr) + fineX /\ TempX \in 0 .. WorldWidth - 1
         /\ TempY = DownTo(tempAddr)
         /\ tempAddr.coarseY < Rows => TempY \in 0 .. WorldHeight - 1
<1>1. /\ tempAddr \in Address /\ fineX \in 0 .. TileDots - 1 /\ TileDots \in Nat \ {0}
      /\ tempAddr.ntX \in {0, 1} /\ Width \in Nat
  BY ScrollNumbers, ScrollDots DEF ScrollTypeOK, Address
<1>2. /\ TileDots * tempAddr.coarseX \in Nat /\ Across(tempAddr) \in 0 .. WorldWidth - TileDots
  BY <1>1, AcrossParts
<1> DEFINE x == TileDots * tempAddr.coarseX
           table == Width * tempAddr.ntX
<1>3. table \in Nat
  BY <1>1
<1>4. x \in Nat
  BY <1>2
<1>5. TempX = x + fineX + table /\ Across(tempAddr) = x + table
  BY DEF TempX, Across
<1> HIDE DEF x, table
<1>6. TempX = Across(tempAddr) + fineX /\ TempX \in 0 .. WorldWidth - 1
  BY <1>1, <1>2, <1>3, <1>4, <1>5, WorldNumbers
<1>7. TempY = DownTo(tempAddr)
  BY DEF TempY, DownTo
<1> QED
  BY <1>1, <1>6, <1>7, DownParts

\* The dot's own facts: the line's last dot ends it.
LEMMA DotMoves ==
  ASSUME ScrollTypeOK, Dot
  PROVE  /\ cycle + 1 \in 1 .. LineDots
         /\ \/ /\ cycle + 1 = LineDots /\ cycle' = 0
               /\ scanline' = scanline + 1 /\ scanline < PreRender
            \/ cycle + 1 < LineDots /\ cycle' = cycle + 1 /\ scanline' = scanline
         /\ scanline \in 0 .. PreRender /\ Height <= PreRender /\ PreRender \in Nat
         /\ UNCHANGED <<tempAddr, fineX, rendering>>
BY ScrollNumbers DEF ScrollTypeOK, Dot, PreRender

\* A dot that does not fetch: the picture is off, or the line shows nothing.
LEMMA IdleDotKeeps ==
  ASSUME ScrollInv, Dot, ~Fetching
  PROVE  ScrollType' /\ (~rendering' => scroll' = Unknown) /\ ColumnHolds' /\ RowHolds'
<1>0. ScrollTypeOK
  BY DEF ScrollInv, PairInv
<1>1. /\ scroll' = (IF scanline = PreRender THEN Unknown ELSE scroll)
      /\ vramAddr' = vramAddr
  BY DEF Dot
<1>2. Unknown.y = -1
  BY DEF Unknown
<1>3. CASE scroll' = Unknown
  BY <1>2, <1>3 DEF ScrollType, ColumnHolds, ColumnKnown, RowHolds, RowKnown
<1>4. CASE scroll' # Unknown
  <2>1. rendering /\ scanline # PreRender /\ scroll' = scroll
    BY <1>1, <1>4 DEF ScrollInv
  <2>2. scanline >= Height
    BY <1>0, <2>1, ScrollNumbers DEF Fetching, ScrollTypeOK
  <2>3. scanline' >= Height /\ (scanline' = PreRender => cycle' = 0 \/ scanline = PreRender)
        /\ scanline' \in Int /\ cycle' \in Nat
    BY <1>0, <2>2, DotMoves, ScrollNumbers
  <2>4. ~ColumnKnown' /\ ~RowKnown'
    BY <2>1, <2>3, ScrollNumbers, ScrollDots DEF ColumnKnown, RowKnown, PreRender
  <2> QED
    BY <1>0, <2>1, <2>4, DotMoves DEF ScrollInv, ScrollType, ColumnHolds, RowHolds
<1> QED
  BY <1>3, <1>4

\* What a fetching dot does to what is known of the scroll.
LEMMA ScrollMoves ==
  ASSUME ScrollInv, Dot, Fetching
  PROVE  /\ ScrollType'
         /\ cycle + 1 = Width + 1 /\ ColumnKnown' => scroll'.x = TempX
         /\ cycle + 1 # Width + 1 /\ ColumnKnown' => ColumnKnown /\ scroll'.x = scroll.x
         /\ RowKnown' /\ scanline = PreRender /\ cycle + 1 = CopyTo =>
              tempAddr.coarseY < Rows /\ scroll'.y = TempY
         /\ RowKnown' /\ ~(scanline = PreRender /\ cycle + 1 = CopyTo) =>
              /\ RowKnown /\ ~(scanline = PreRender /\ cycle + 1 \in CopyFrom .. CopyTo)
              /\ scroll'.y = IF cycle + 1 = Width /\ scanline < Height
                             THEN (scroll.y + 1) % WorldHeight ELSE scroll.y
              /\ cycle + 1 = Width => scanline < Height
<1> DEFINE dot == cycle + 1
           s == scroll
<1>0. ScrollTypeOK /\ ScrollType
  BY DEF ScrollInv, PairInv
<1>1. scroll' = ScrollAfter(dot)
  BY DEF Dot
<1>2. /\ dot \in 1 .. LineDots /\ cycle \in Nat /\ Width \in Nat \ {0} /\ Width + 1 < CopyTo
      /\ CopyTo \in Nat /\ CopyTo < LineDots /\ LineDots \in Nat /\ CopyFrom \in Nat
      /\ CopyFrom <= CopyTo /\ Width + 1 < CopyFrom /\ Height \in Nat
      /\ scanline \in 0 .. PreRender /\ Height <= PreRender /\ PreRender \in Nat
      /\ \/ dot = LineDots /\ cycle' = 0 /\ scanline' = scanline + 1 /\ scanline < PreRender
         \/ dot < LineDots /\ cycle' = dot /\ scanline' = scanline
      /\ scanline < Height \/ scanline = PreRender
  BY <1>0, DotMoves, ScrollDots, ScrollNumbers DEF ScrollTypeOK, Fetching
<1>3. /\ Unknown.x = -1 /\ Unknown.y = -1
      /\ WorldWidth \in Nat \ {0} /\ WorldHeight \in Nat \ {0}
      /\ TempX \in 0 .. WorldWidth - 1
      /\ tempAddr.coarseY < Rows => TempY \in 0 .. WorldHeight - 1
  BY <1>0, TempScroll, WorldNumbers DEF Unknown
<1>4. /\ scroll.x \in Int /\ scroll.y \in Int
      /\ scroll.x >= 0 <=> scroll # Unknown
      /\ scroll.y >= 0 => scroll # Unknown
      /\ scroll # Unknown =>
           scroll \in [x : 0 .. WorldWidth - 1, y : {-1} \union (0 .. WorldHeight - 1)]
  BY <1>0, <1>3 DEF ScrollType
<1> DEFINE Spot == [x : 0 .. WorldWidth - 1, y : {-1} \union (0 .. WorldHeight - 1)]
           next == (scroll.y + 1) % WorldHeight
           high == IF tempAddr.coarseY < Rows THEN TempY ELSE -1
<1>5. CASE dot = Width /\ scanline < Height /\ scroll.y >= 0
  <2>1. scroll' = [scroll EXCEPT !.y = next]
    BY <1>1, <1>2, <1>5 DEF ScrollAfter
  <2>2. next \in 0 .. WorldHeight - 1
    <3>1. scroll.y + 1 \in Int /\ WorldHeight \in Nat \ {0}
      BY <1>3, <1>4
    <3> QED
      BY <3>1, DivMod
  <2>3. scroll \in Spot
    BY <1>4, <1>5
  <2> HIDE DEF next
  <2>4. scroll' \in Spot /\ scroll'.y = next
    BY <2>1, <2>2, <2>3
  <2>5. ~ColumnKnown' /\ RowKnown
    BY <1>2, <1>5 DEF ColumnKnown, RowKnown
  <2> QED
    BY <1>2, <1>5, <2>4, <2>5 DEF ScrollType, next
<1>6. CASE dot = Width + 1 /\ scanline < Height /\ scroll.y >= 0
  <2>1. scroll' = [scroll EXCEPT !.x = TempX]
    BY <1>1, <1>2, <1>6 DEF ScrollAfter
  <2>2. scroll \in Spot
    BY <1>4, <1>6
  <2>3. scroll' \in Spot /\ scroll'.x = TempX /\ scroll'.y = scroll.y
    BY <1>3, <2>1, <2>2
  <2> QED
    BY <1>2, <1>6, <2>3 DEF ScrollType, RowKnown
<1>7. CASE dot = Width + 1 /\ scanline = PreRender
  <2>1. scroll' = [x |-> TempX, y |-> -1]
    BY <1>1, <1>2, <1>7 DEF ScrollAfter
  <2>2. scroll' \in Spot /\ scroll'.x = TempX /\ scroll'.y = -1
    BY <1>3, <2>1
  <2>3. ~RowKnown'
    BY <2>2 DEF RowKnown
  <2> QED
    BY <1>2, <1>7, <2>2, <2>3 DEF ScrollType
<1>8. CASE dot = CopyTo /\ scanline = PreRender /\ scroll.x >= 0
  <2>1. scroll' = [scroll EXCEPT !.y = high]
    BY <1>1, <1>2, <1>8 DEF ScrollAfter
  <2>2. scroll \in Spot /\ high \in {-1} \union (0 .. WorldHeight - 1)
    BY <1>3, <1>4, <1>8
  <2>3. high >= 0 => tempAddr.coarseY < Rows /\ high = TempY
    OBVIOUS
  <2> HIDE DEF high
  <2>4. scroll' \in Spot /\ scroll'.x = scroll.x /\ scroll'.y = high
    BY <2>1, <2>2
  <2>5. ColumnKnown' => ColumnKnown
    BY <1>2, <1>4, <1>8 DEF ColumnKnown
  <2>6. RowKnown' => high >= 0
    BY <2>4 DEF RowKnown
  <2> QED
    BY <1>2, <1>8, <2>3, <2>4, <2>5, <2>6 DEF ScrollType
<1>9. CASE /\ ~(dot = Width /\ scanline < Height /\ scroll.y >= 0)
           /\ ~(dot = Width + 1 /\ scanline < Height /\ scroll.y >= 0)
           /\ ~(dot = Width + 1 /\ scanline = PreRender)
           /\ ~(dot = CopyTo /\ scanline = PreRender /\ scroll.x >= 0)
  <2>1. scroll' = scroll
    BY <1>1, <1>9 DEF ScrollAfter
  <2>2. ScrollType'
    BY <1>0, <2>1 DEF ScrollType
  <2>3. ColumnKnown' => ColumnKnown /\ dot # Width + 1
    BY <1>2, <1>4, <1>9, <2>1 DEF ColumnKnown
  <2>4. RowKnown' => /\ RowKnown /\ ~(scanline = PreRender /\ dot \in CopyFrom .. CopyTo)
                     /\ ~(dot = Width)
    BY <1>2, <1>4, <1>9, <2>1 DEF RowKnown
  <2> QED
    BY <1>2, <2>1, <2>2, <2>3, <2>4
<1> QED
  BY <1>5, <1>6, <1>7, <1>8, <1>9

LEMMA FetchingDotKeeps ==
  ASSUME ScrollInv, Dot, Fetching
  PROVE  ScrollType' /\ (~rendering' => scroll' = Unknown) /\ ColumnHolds' /\ RowHolds'
<1> DEFINE dot == cycle + 1
           b == vramAddr'
           loading == scanline = PreRender /\ dot \in CopyFrom .. CopyTo
           u == IF NextTileAt(dot) THEN IncrementCoarseX(vramAddr) ELSE vramAddr
<1>0. ScrollTypeOK /\ ScrollTypeOK' /\ ScrollType /\ ColumnHolds /\ RowHolds
  BY ScrollTypesKept DEF ScrollInv, PairInv, ScrollNext
<1>1. /\ dot \in 1 .. LineDots /\ dot \in Nat
      /\ b = Walked(vramAddr, dot) /\ rendering' /\ tempAddr' = tempAddr /\ fineX' = fineX
  BY <1>0, DotMoves, ScrollNumbers DEF Dot, Fetching
<1>2. /\ dot # Width + 1 /\ dot # Width => Across(b) = Across(u)
      /\ dot = Width + 1 => Across(b) = Across(tempAddr)
      /\ ~loading /\ dot # Width => b.coarseY = vramAddr.coarseY /\ DownTo(b) = DownTo(vramAddr)
      /\ dot = Width => /\ b.coarseY = IncrementY(vramAddr).coarseY
                        /\ DownTo(b) = DownTo(IncrementY(vramAddr))
      /\ loading => b.coarseY = tempAddr.coarseY /\ DownTo(b) = DownTo(tempAddr)
  BY <1>0, <1>1, WalkedParts
<1>3. /\ vramAddr \in Address /\ b \in Address /\ fineX \in Int /\ scroll.x \in Int
      /\ WorldWidth \in Nat \ {0} /\ TileDots \in Nat \ {0}
      /\ Across(vramAddr) \in Int /\ Across(b) \in Int
  <2>1. vramAddr \in Address /\ b \in Address /\ fineX \in Int /\ TileDots \in Nat \ {0}
    BY <1>0, ScrollNumbers DEF ScrollTypeOK
  <2>2. scroll.x \in Int
    BY <1>0, WorldNumbers DEF ScrollType, Unknown
  <2> QED
    BY <2>1, <2>2, AcrossParts, WorldNumbers
<1>4. Ahead(Width + 1) = 0 /\ Ahead(0) = 2 /\ Ahead(LineDots) = 2
  <2>1. /\ Width \in Nat \ {0} /\ PrefetchAt \in Nat /\ TileDots \in Nat \ {0}
        /\ Width + 1 < PrefetchAt /\ PrefetchAt + 2 * TileDots <= LineDots /\ LineDots \in Nat
        /\ 0 \div TileDots = 0
    BY ScrollNumbers, ScrollDots, DivModZero
  <2> QED
    BY <2>1 DEF Ahead
<1>5. Ahead(cycle') = Ahead(dot)
  BY <1>0, <1>4, DotMoves
<1>6. ColumnHolds'
  <2>1. SUFFICES ASSUME ColumnKnown'
                 PROVE  Same(Across(b) + fineX, scroll'.x + TileDots * Ahead(dot))
    BY <1>1, <1>5 DEF ColumnHolds
  <2>2. CASE dot = Width + 1
    <3>1. scroll'.x = Across(b) + fineX
      BY <1>0, <1>2, <2>1, <2>2, ScrollMoves, TempScroll
    <3>2. TileDots * Ahead(dot) = 0
      BY <1>3, <1>4, <2>2
    <3>3. Across(b) + fineX = scroll'.x + TileDots * Ahead(dot)
      BY <1>3, <3>1, <3>2
    <3>4. Across(b) + fineX \in Int
      BY <1>3
    <3> QED
      BY <1>3, <3>3, <3>4, SameAsItself
  <2>3. CASE dot # Width + 1
    <3>1. ColumnKnown /\ scroll'.x = scroll.x
      BY <2>1, <2>3, ScrollMoves
    <3>2. cycle \in Nat /\ cycle < LineDots /\ cycle # Width
      BY <1>0, <2>3, ScrollNumbers, ScrollDots DEF ScrollTypeOK
    <3>3. dot # Width
      <4>1. dot = Width => cycle' = Width /\ scanline' = scanline
        BY <1>0, DotMoves, ScrollDots, ScrollNumbers
      <4>2. SUFFICES ASSUME dot = Width PROVE FALSE
        OBVIOUS
      <4>3. cycle < Width /\ cycle' = Width /\ scanline' = scanline
        BY <4>1, <4>2, <3>2, ScrollDots
      <4> QED
        BY <2>1, <3>1, <4>3, ScrollDots DEF ColumnKnown
    <3> DEFINE a == Ahead(cycle)
               v == Across(vramAddr)
               w == Across(b)
               n == TileDots * a
               m == TileDots * Ahead(dot)
    <3>4. a \in Int /\ Ahead(dot) \in Int /\ Ahead(dot) = a + (IF NextTileAt(dot) THEN 1 ELSE 0)
      BY <3>2, <3>3, DotsAhead
    <3>5. Same(v + fineX, scroll.x + n)
      BY <1>0, <3>1 DEF ColumnHolds
    <3>6. n \in Int /\ m \in Int /\ m = n + (IF NextTileAt(dot) THEN TileDots ELSE 0)
      BY <1>3, <3>4, SMT
    <3>7. w = Across(u)
      BY <1>2, <2>3, <3>3
    <3>8. CASE NextTileAt(dot)
      <4>1. Same(w, v + TileDots)
        BY <1>3, <3>7, <3>8, NextTile
      <4> HIDE DEF v, w, n, m
      <4>2. v \in Int /\ w \in Int
        BY <1>3 DEF v, w
      <4>3. Same(w + fineX, (v + TileDots) + fineX)
        <5> DEFINE p == v + TileDots
        <5>1. p \in Int /\ fineX \in Int /\ w \in Int /\ WorldWidth \in Int /\ Same(w, p)
          BY <1>3, <4>1, <4>2
        <5> HIDE DEF p
        <5>2. Same(w + fineX, p + fineX)
          BY <5>1, SameSums
        <5> QED
          BY <5>2 DEF p
      <4>4. Same((v + fineX) + TileDots, (scroll.x + n) + TileDots)
        <5> DEFINE p == v + fineX
                   q == scroll.x + n
        <5>1. p \in Int /\ q \in Int /\ TileDots \in Int /\ WorldWidth \in Int /\ Same(p, q)
          BY <1>3, <3>5, <3>6, <4>2
        <5> HIDE DEF p, q
        <5>2. Same(p + TileDots, q + TileDots)
          BY <5>1, SameSums
        <5> QED
          BY <5>2 DEF p, q
      <4>5. (v + TileDots) + fineX = (v + fineX) + TileDots
            /\ (scroll.x + n) + TileDots = scroll.x + m
        BY <1>3, <3>6, <3>8, <4>2
      <4>6. Same((v + TileDots) + fineX, scroll.x + m)
        BY <4>4, <4>5
      <4> DEFINE x == w + fineX
                 y == (v + TileDots) + fineX
                 z == scroll.x + m
      <4>7. x \in Int /\ y \in Int /\ z \in Int /\ WorldWidth \in Int /\ Same(x, y) /\ Same(y, z)
        BY <1>3, <3>6, <4>2, <4>3, <4>6
      <4> HIDE DEF x, y, z
      <4>8. Same(x, z)
        BY <4>7, SameSums
      <4> QED
        BY <3>1, <4>8 DEF x, z, w, m
    <3>9. CASE ~NextTileAt(dot)
      <4>1. w = v /\ m = n
        BY <3>6, <3>7, <3>9
      <4> QED
        BY <3>1, <3>5, <4>1
    <3> QED
      BY <3>8, <3>9
  <2> QED
    BY <2>2, <2>3
<1>7. RowHolds'
  <2>1. SUFFICES ASSUME RowKnown' PROVE b.coarseY < Rows /\ DownTo(b) = scroll'.y
    BY DEF RowHolds
  <2>2. CASE scanline = PreRender /\ dot = CopyTo
    <3>1. loading
      BY <1>1, <2>2, ScrollDots, ScrollNumbers
    <3>2. tempAddr.coarseY < Rows /\ scroll'.y = TempY
      BY <2>1, <2>2, ScrollMoves
    <3> QED
      BY <1>0, <1>2, <3>1, <3>2, TempScroll
  <2>3. CASE ~(scanline = PreRender /\ dot = CopyTo)
    <3>1. /\ RowKnown /\ ~loading
          /\ scroll'.y = IF dot = Width /\ scanline < Height
                         THEN (scroll.y + 1) % WorldHeight ELSE scroll.y
          /\ dot = Width => scanline < Height
      BY <2>1, <2>3, ScrollMoves
    <3>2. vramAddr.coarseY < Rows /\ DownTo(vramAddr) = scroll.y
      BY <1>0, <3>1 DEF RowHolds
    <3>3. CASE dot = Width
      BY <1>2, <1>3, <3>1, <3>2, <3>3, NextRow
    <3>4. CASE dot # Width
      BY <1>2, <3>1, <3>2, <3>4
    <3> QED
      BY <3>3, <3>4
  <2> QED
    BY <2>2, <2>3
<1> QED
  BY <1>1, <1>6, <1>7, ScrollMoves

LEMMA ScrollStarts == ScrollInit => ScrollInv
<1> SUFFICES ASSUME ScrollInit PROVE ScrollInv
  OBVIOUS
<1>1. scroll = Unknown /\ Unknown.y = -1 /\ Unknown.x = -1
  BY DEF ScrollInit, Unknown
<1>2. ~ColumnKnown /\ ~RowKnown
  BY <1>1 DEF ColumnKnown, RowKnown
<1> QED
  BY <1>1, <1>2, PairStarts DEF ScrollInv, ScrollType, ColumnHolds, RowHolds

\* Fine x counts at once: the picture moves with it, whatever the address.
LEMMA FineXKeeps ==
  ASSUME ScrollInv, NEW s \in XScrolls, WriteScrollX(s)
  PROVE  ScrollType' /\ (~rendering' => scroll' = Unknown) /\ ColumnHolds' /\ RowHolds'
<1>0. /\ ScrollTypeOK /\ ScrollType /\ (~rendering => scroll = Unknown)
      /\ ColumnHolds /\ RowHolds
  BY DEF ScrollInv, PairInv
<1>1. /\ UNCHANGED <<vramAddr, rendering, scanline, cycle>> /\ fineX' = s.fine
      /\ scroll' = IF scroll = Unknown THEN Unknown
                   ELSE [scroll EXCEPT !.x = (@ - fineX + s.fine) % WorldWidth]
  BY DEF WriteScrollX, Access
<1>2. CASE scroll = Unknown
  <2>1. scroll' = Unknown /\ Unknown.y = -1
    BY <1>1, <1>2 DEF Unknown
  <2>2. ~ColumnKnown' /\ ~RowKnown'
    BY <2>1 DEF ColumnKnown, RowKnown
  <2> QED
    BY <2>1, <2>2 DEF ScrollType, ColumnHolds, RowHolds
<1>3. CASE scroll # Unknown
  <2> DEFINE Spot == [x : 0 .. WorldWidth - 1, y : {-1} \union (0 .. WorldHeight - 1)]
             moved == scroll.x - fineX + s.fine
             q == moved \div WorldWidth
             x == moved % WorldWidth
  <2>1. /\ WorldWidth \in Nat \ {0} /\ fineX \in Int /\ s.fine \in Int /\ scroll \in Spot
        /\ TileDots \in Int
    BY <1>0, <1>3, WorldNumbers, ScrollNumbers, ScrollInputs DEF ScrollTypeOK, ScrollType
  <2>2. scroll.x \in Int /\ moved \in Int
    BY <2>1
  <2>3. q \in Int /\ x \in 0 .. WorldWidth - 1 /\ moved = WorldWidth * q + x
    <3> HIDE DEF moved
    <3> QED
      BY <2>1, <2>2, DivMod
  <2>4. scroll' = [scroll EXCEPT !.x = x]
    BY <1>1, <1>3
  <2> HIDE DEF q, x
  <2>5. scroll' \in Spot /\ scroll'.x = x /\ scroll'.y = scroll.y
    BY <2>1, <2>3, <2>4
  <2>6. rendering' /\ ScrollType'
    BY <1>0, <1>1, <1>3, <2>5 DEF ScrollType
  <2>7. RowHolds'
    BY <1>0, <1>1, <2>5 DEF RowHolds, RowKnown
  <2>8. ASSUME ColumnKnown' PROVE Same(Across(vramAddr) + s.fine, x + TileDots * Ahead(cycle))
    <3>1. ColumnKnown
      BY <1>1, <1>3, <2>5, <2>8 DEF ColumnKnown
    <3>2. Ahead(cycle) \in Int
      <4>1. cycle \in Nat /\ cycle < LineDots /\ cycle # Width
        BY <1>0, <3>1, ScrollNumbers, ScrollDots DEF ScrollTypeOK, ColumnKnown
      <4>2. TileDots \in Nat \ {0} /\ PrefetchAt - 1 \in Int /\ cycle \in Int
        BY <4>1, ScrollNumbers
      <4>3. cycle \div TileDots \in Int /\ (PrefetchAt - 1) \div TileDots \in Int
        BY <4>2, DivMod
      <4> QED
        BY <4>2, <4>3 DEF Ahead
    <3> DEFINE n == TileDots * Ahead(cycle)
               v == Across(vramAddr)
               back == (-q) * WorldWidth
    <3>3. n \in Int /\ v \in Int
      <4>1. n \in Int
        BY <2>1, <3>2, SMT
      <4>2. vramAddr \in Address
        BY <1>0 DEF ScrollTypeOK
      <4> QED
        BY <4>1, <4>2, AcrossParts, WorldNumbers
    <3>4. back = -(WorldWidth * q) /\ back \in Int /\ -q \in Int
      BY <2>1, <2>3, SMT
    <3>5. PICK k \in Int : v + fineX = scroll.x + n + k * WorldWidth
      BY <1>0, <3>1 DEF ColumnHolds, Same
    <3> DEFINE far == k * WorldWidth
               farther == (k + q) * WorldWidth
               round == WorldWidth * q
    <3>6. far \in Int /\ round \in Int /\ farther = far + round
      BY <2>1, <2>3, <3>5, SMT
    <3>7. v + fineX = scroll.x + n + far /\ moved = round + x
      BY <2>3, <3>5
    <3> HIDE DEF n, v, far, farther, round
    <3>8. v + s.fine = (x + n) + farther
      BY <2>1, <2>2, <2>3, <3>3, <3>6, <3>7
    <3>9. k + q \in Int
      BY <2>3
    <3> QED
      BY <3>8, <3>9 DEF Same, n, v, farther
  <2>9. ColumnHolds'
    BY <1>1, <2>5, <2>8 DEF ColumnHolds
  <2> QED
    BY <2>6, <2>7, <2>9
<1> QED
  BY <1>2, <1>3

LEMMA ScrollKept == ScrollInv /\ [ScrollNext]_scrollVars => ScrollInv'
<1> SUFFICES ASSUME ScrollInv, [ScrollNext]_scrollVars PROVE ScrollInv'
  OBVIOUS
<1> DEFINE Kept == ScrollType' /\ (~rendering' => scroll' = Unknown) /\ ColumnHolds' /\ RowHolds'
<1>0. /\ PairInv /\ ScrollType /\ (~rendering => scroll = Unknown) /\ ColumnHolds /\ RowHolds
  BY DEF ScrollInv
<1>1. Unknown.y = -1
  BY DEF Unknown
<1>2. ASSUME scroll' = Unknown PROVE Kept
  <2>1. ~ColumnKnown' /\ ~RowKnown'
    BY <1>1, <1>2 DEF ColumnKnown, RowKnown
  <2> QED
    BY <1>2, <2>1 DEF ScrollType, ColumnHolds, RowHolds
<1>3. ASSUME UNCHANGED <<vramAddr, fineX, rendering, scanline, cycle, scroll>> PROVE Kept
  BY <1>0, <1>3 DEF ScrollType, ColumnHolds, ColumnKnown, RowHolds, RowKnown
<1>4. CASE UNCHANGED scrollVars
  <2>1. Kept
    BY <1>3, <1>4 DEF scrollVars, scrollRegisters
  <2>2. PairInv'
    BY <1>0, <1>4 DEF scrollVars, scrollRegisters, PairInv, PairInForce, HighLoaded, ScrollTypeOK
  <2> QED
    BY <2>1, <2>2 DEF ScrollInv
<1>5. SUFFICES ASSUME ScrollNext PROVE Kept
  BY <1>0, <1>4, PairKept DEF ScrollInv
<1>6. ASSUME NEW table \in Tables, NEW inRows \in BOOLEAN, WriteControl(table, inRows) PROVE Kept
  BY <1>3, <1>6 DEF WriteControl, Access
<1>7. ASSUME NEW show \in BOOLEAN, WriteMask(show) PROVE Kept
  BY <1>2, <1>7 DEF WriteMask, Scrambled
<1>8. CASE ReadStatus
  BY <1>3, <1>8 DEF ReadStatus, Access
<1>9. ASSUME NEW s \in XScrolls, WriteScrollX(s) PROVE Kept
  BY <1>9, FineXKeeps
<1>10. ASSUME NEW s \in YScrolls, WriteScrollY(s) PROVE Kept
  BY <1>3, <1>10 DEF WriteScrollY, Access
<1>11. ASSUME NEW a \in Addresses, WriteAddressHigh(a) PROVE Kept
  BY <1>3, <1>11 DEF WriteAddressHigh, Access
<1>12. ASSUME NEW a \in Addresses, WriteAddressLow(a) PROVE Kept
  BY <1>2, <1>12 DEF WriteAddressLow, Scrambled
<1>13. CASE AccessData
  BY <1>2, <1>13 DEF AccessData, Scrambled
<1>14. CASE Dot
  BY <1>14, IdleDotKeeps, FetchingDotKeeps
<1>15. CASE StartNextFrame
  <2>1. /\ UNCHANGED <<vramAddr, fineX, rendering, scroll>> /\ cycle' = 0 /\ scanline' = 0
        /\ cycle = LineDots - 1 /\ scanline = PreRender
    BY <1>15 DEF StartNextFrame, scrollRegisters, PreRender
  <2>2. /\ Height \in Nat \ {0} /\ Width \in Nat \ {0} /\ Width < CopyTo /\ CopyTo < LineDots
        /\ CopyTo \in Nat /\ LineDots \in Nat /\ Height <= PreRender /\ PreRender \in Nat
        /\ 0 \div TileDots = 0 /\ TileDots \in Nat \ {0} /\ PrefetchAt \in Nat
        /\ PrefetchAt + 2 * TileDots <= LineDots /\ Width < PrefetchAt
    BY ScrollNumbers, ScrollDots, DivModZero DEF PreRender
  <2>3. (ColumnKnown' => ColumnKnown) /\ (RowKnown' => RowKnown)
    <3>1. scroll.y >= 0 => scroll # Unknown
      BY <1>1
    <3> QED
      BY <2>1, <2>2, <3>1 DEF ColumnKnown, RowKnown
  <2>4. Ahead(0) = Ahead(LineDots - 1)
    <3>1. Ahead(0) = 2
      BY <2>2 DEF Ahead
    <3>2. Ahead(LineDots - 1) = 2
      BY <2>2 DEF Ahead
    <3> QED
      BY <3>1, <3>2
  <2>5. ColumnHolds' /\ RowHolds'
    BY <1>0, <2>1, <2>3, <2>4 DEF ColumnHolds, RowHolds
  <2> QED
    BY <1>0, <2>1, <2>5 DEF ScrollType
<1> QED
  BY <1>5, <1>6, <1>7, <1>8, <1>9, <1>10, <1>11, <1>12, <1>13, <1>14, <1>15 DEF ScrollNext

\* The picture is drawn from the address two tiles back: the scroll in force, moved right.
LEMMA ScrollInvSound == ScrollInv => ScrollSound
<1> SUFFICES ASSUME ScrollInv, scroll.y >= 0, rendering, scanline < Height, cycle < Width
             PROVE  LET from == DecodeScroll(Rewind(Rewind(vramAddr)))
                    IN /\ (from.x + (cycle % TileDots)) % WorldWidth =
                            (scroll.x + cycle) % WorldWidth
                       /\ from.y % WorldHeight = scroll.y
  BY DEF ScrollInv, PairInv, ScrollSound, ScrollInForce
<1>0. ScrollTypeOK /\ ScrollType /\ ColumnHolds /\ RowHolds
  BY DEF ScrollInv, PairInv
<1> DEFINE a == vramAddr
           b == Rewind(a)
           c == Rewind(b)
           from == DecodeScroll(c)
           T == TileDots
           q == cycle \div T
           r == cycle % T
           n == T * Ahead(cycle)
           m == T * q
<1>1. /\ a \in Address /\ fineX \in Int /\ T \in Nat \ {0} /\ WorldWidth \in Nat \ {0}
      /\ WorldHeight \in Nat \ {0} /\ cycle \in Nat
  BY <1>0, ScrollNumbers, WorldNumbers DEF ScrollTypeOK
<1>2. /\ b \in Address /\ Same(Across(b), Across(a) - T) /\ DownTo(b) = DownTo(a)
  BY <1>1, LastTile
<1>3. /\ c \in Address /\ Same(Across(c), Across(b) - T) /\ DownTo(c) = DownTo(b)
  BY <1>2, LastTile
<1>4. ColumnKnown /\ RowKnown
  BY <1>1, ScrollDots DEF ColumnKnown, RowKnown
<1>5. scroll.x \in Int /\ scroll.y \in 0 .. WorldHeight - 1
  BY <1>0 DEF ScrollType, Unknown
<1>6. /\ q \in Int /\ r \in 0 .. T - 1 /\ cycle = m + r
  <2>1. cycle \in Int
    BY <1>1
  <2> QED
    BY <1>1, <2>1, DivMod
<1>7. n = 2 * T + m /\ m \in Int
  <2>1. Ahead(cycle) = 2 + q
    BY DEF Ahead
  <2>2. T * (2 + q) = 2 * T + T * q
    BY <1>1, <1>6, SMT
  <2>3. T * q \in Int
    BY <1>1, <1>6, SMT
  <2> QED
    BY <2>1, <2>2, <2>3
<1>8. Same(Across(a) + fineX, scroll.x + n)
  BY <1>0, <1>4 DEF ColumnHolds
<1>9. Across(a) \in Int /\ Across(b) \in Int /\ Across(c) \in Int
  BY <1>1, <1>2, <1>3, AcrossParts, WorldNumbers
<1>10. from.x = Across(c) + fineX /\ from.y = DownTo(c)
  <2> DEFINE x == T * c.coarseX
             table == Width * c.ntX
  <2>1. x \in Int
    BY <1>3, AcrossParts
  <2>2. c.ntX \in Int /\ Width \in Int
    BY <1>3, ScrollDots DEF Address
  <2>3. table \in Int
    BY <2>2, SMT
  <2>4. from.x = x + fineX + table /\ Across(c) = x + table /\ from.y = DownTo(c)
    BY DEF DecodeScroll, Across, DownTo
  <2> HIDE DEF x, table
  <2>5. from.x = Across(c) + fineX
    BY <1>1, <2>1, <2>3, <2>4
  <2> QED
    BY <2>4, <2>5
<1> DEFINE u == Across(a)
           v == Across(b)
           w == Across(c)
           left == fineX + r
<1>11. /\ u \in Int /\ v \in Int /\ w \in Int /\ left \in Int /\ n \in Int
       /\ Same(w, v - T) /\ Same(v, u - T) /\ Same(u + fineX, scroll.x + n)
       /\ T \in Int /\ WorldWidth \in Int /\ WorldWidth \in Nat \ {0}
       /\ left = fineX + r /\ r \in Int
  BY <1>1, <1>2, <1>3, <1>6, <1>7, <1>8, <1>9
<1> HIDE DEF a, b, c, q, r, T, n, m, u, v, w, left, from
<1> DEFINE x0 == w + left
           x1 == (v - T) + left
           x2 == ((u - T) - T) + left
           x3 == (scroll.x + n) + (r - 2 * T)
<1>12. /\ x0 \in Int /\ x1 \in Int /\ x2 \in Int /\ x3 \in Int
       /\ v - T \in Int /\ u - T \in Int /\ left - T \in Int /\ scroll.x + n \in Int
       /\ u + fineX \in Int /\ r - 2 * T \in Int
  BY <1>1, <1>5, <1>11
<1>13. Same(x0, x1)
  BY <1>11, <1>12, SameSums
<1>14. Same(x1, x2)
  <2> DEFINE back == u - T
             on == left - T
  <2>1. back \in Int /\ on \in Int /\ Same(v, back)
    BY <1>11, <1>12
  <2>2. v + on = x1 /\ back + on = x2
    BY <1>11
  <2> HIDE DEF back, on, x1, x2
  <2>3. Same(v + on, back + on)
    BY <1>11, <2>1, SameSums
  <2> QED
    BY <2>2, <2>3
<1>15. Same(x2, x3)
  <2> DEFINE shown == u + fineX
             asked == scroll.x + n
             on == r - 2 * T
  <2>1. shown \in Int /\ asked \in Int /\ on \in Int /\ Same(shown, asked)
    BY <1>11, <1>12
  <2>2. shown + on = x2 /\ asked + on = x3
    BY <1>1, <1>5, <1>11
  <2> HIDE DEF shown, asked, on, x2, x3
  <2>3. Same(shown + on, asked + on)
    BY <1>11, <2>1, SameSums
  <2> QED
    BY <2>2, <2>3
<1>16. x3 = scroll.x + cycle
  BY <1>5, <1>6, <1>7, <1>11
<1>17. x0 = from.x + r
  BY <1>1, <1>10, <1>11 DEF w
<1> HIDE DEF x0, x1, x2, x3
<1>18. Same(x0, x2)
  BY <1>11, <1>12, <1>13, <1>14, SameSums
<1>19. Same(x0, x3)
  BY <1>11, <1>12, <1>15, <1>18, SameSums
<1>20. x0 % WorldWidth = x3 % WorldWidth
  BY <1>11, <1>12, <1>19, SameRemainder
<1>21. from.y % WorldHeight = scroll.y
  <2>1. from.y = scroll.y
    BY <1>0, <1>2, <1>3, <1>4, <1>10 DEF RowHolds, a
  <2> QED
    BY <1>1, <1>5, <2>1, ModOfSmall
<1> QED
  BY <1>16, <1>17, <1>20, <1>21 DEF from, c, b, a, r, T

\* A program writes scroll and addresses in pieces, through one toggle and into one pair of
\* registers, while the dots walk the same address: the picture is drawn at the scroll that
\* was written, and an address arrives as it was meant, for every size of tile and
\* nametable, every dot of the copies and every order of writes ($2000 to $2007 and step).
THEOREM ScrollArrives == ScrollSpec => []ScrollSound
<1>1. ScrollInit => ScrollInv
  BY ScrollStarts
<1>2. ScrollInv /\ [ScrollNext]_scrollVars => ScrollInv'
  BY ScrollKept
<1>3. ScrollInv => ScrollSound
  BY ScrollInvSound
<1> QED
  BY <1>1, <1>2, <1>3, PTL DEF ScrollSpec

-----------------------------------------------------------------------------
(* The lines of the picture and the registers they are drawn with.         *)

Segments == [startX : 0 .. PictureWidth, state : 0 .. MaxLineWrites]

LEMMA LineNumbers ==
  /\ PictureWidth \in Nat \ {0} /\ PictureHeight \in Nat \ {0} /\ DotsPerLine \in Nat \ {0}
  /\ VBlankLine \in Nat \ {0} /\ LinesPerFrame \in Nat \ {0} /\ Tile \in Nat \ {0}
  /\ Capacity \in Nat \ {0} /\ MaxLineWrites \in Nat \ {0}
  /\ PictureWidth < DotsPerLine /\ PictureHeight < VBlankLine /\ VBlankLine < LinesPerFrame
  /\ Delays \subseteq Nat
BY LineStatesAssumption DEF LineStatesAssumption

LEMMA SegmentIn ==
  ASSUME NEW x \in 0 .. PictureWidth, NEW st \in 0 .. MaxLineWrites
  PROVE  Segment(x, st) \in Segments /\ Segment(x, st).startX = x /\ Segment(x, st).state = st
BY DEF Segment, Segments

\* A write shows from a column of the picture, or not at all; after the first dot, not from
\* the first column.
LEMMA StartsIn ==
  ASSUME NEW delay \in Delays, lineCycle \in 1 .. PictureWidth
  PROVE  StartX(delay) \in 0 .. PictureWidth /\ (lineCycle > 1 => StartX(delay) > 0)
<1> DEFINE x == lineCycle - 1 + delay
           y == x + Tile - 1
           q == y \div Tile
           rounded == IF delay > 0 THEN q * Tile ELSE x
<1>1. /\ PictureWidth \in Nat \ {0} /\ Tile \in Nat \ {0} /\ delay \in Nat /\ x \in Nat
      /\ y \in Int /\ (lineCycle > 1 => x > 0)
  BY LineNumbers
<1>2. q \in Int /\ y % Tile \in 0 .. Tile - 1 /\ y = Tile * q + (y % Tile)
  <2> HIDE DEF y
  <2> QED
    BY <1>1, DivMod
<1> DEFINE z == q * Tile
<1>3. z \in Int /\ z = Tile * q
  BY <1>1, <1>2, SMT
<1>4. z >= x
  <2> DEFINE r == y % Tile
             m == Tile * q
  <2>1. r \in 0 .. Tile - 1 /\ y = m + r /\ z = m /\ y = x + Tile - 1
    BY <1>2, <1>3
  <2> HIDE DEF r, m, z, y, x, q
  <2> QED
    BY <1>1, <1>3, <2>1
<1>5. StartX(delay) = IF rounded > PictureWidth THEN PictureWidth ELSE rounded
  BY DEF StartX
<1>6. rounded = IF delay > 0 THEN z ELSE x
  OBVIOUS
<1> HIDE DEF rounded, z, x
<1> QED
  BY <1>1, <1>3, <1>4, <1>5, <1>6

LEMMA SegmentFacts ==
  ASSUME NEW s \in Seq(Segments), s # << >>
  PROVE  /\ Len(s) \in Nat \ {0}
         /\ \A i \in 1 .. Len(s) : /\ s[i] \in Segments
                                  /\ s[i].state \in Nat /\ s[i].startX \in Nat
<1>1. Len(s) \in Nat /\ Len(s) # 0
  BY EmptySeq
<1>2. ASSUME NEW i \in 1 .. Len(s)
      PROVE  s[i] \in Segments /\ s[i].state \in Nat /\ s[i].startX \in Nat
  <2>1. s[i] \in Segments
    BY ElementOfSeq
  <2> QED
    BY <2>1 DEF Segments
<1> QED
  BY <1>1, <1>2

LEMMA ColumnFacts ==
  ASSUME NEW columns \in Seq(Nat)
  PROVE  Len(columns) \in Nat /\ \A k \in 1 .. Len(columns) : columns[k] \in Nat
BY LenProperties, ElementOfSeq

\* recordCurrentLineState: the segment replaced, added, or forced into the last one's place.
LEMMA WithSegmentParts ==
  ASSUME NEW s \in Seq(Segments), NEW x \in 0 .. PictureWidth, NEW st \in 0 .. MaxLineWrites,
         s # << >>
  PROVE  LET t == WithSegment(s, x, st)
             n == Len(s)
         IN /\ t \in Seq(Segments) /\ n \in Nat \ {0}
            /\ \A i \in 1 .. n - 1 : t[i] = s[i]
            /\ t[Len(t)].state = st
            /\ \/ s[n].startX = x /\ Len(t) = n /\ t[n].startX = x
               \/ /\ s[n].startX # x /\ n < Capacity /\ Len(t) = n + 1 /\ t[n] = s[n]
                  /\ t[n + 1].startX = x
               \/ /\ n >= Capacity /\ Len(t) = n
                  /\ t[n].startX = x \/ t[n].startX = s[n].startX
<1> DEFINE n == Len(s)
           t == WithSegment(s, x, st)
<1>1. /\ n \in Nat \ {0} /\ Capacity \in Nat /\ s[n] \in Segments
      /\ \A i \in 1 .. n : s[i] \in Segments
  <2>1. Len(s) \in Nat /\ Len(s) # 0
    BY EmptySeq
  <2> QED
    BY <2>1, LineNumbers, ElementOfSeq
<1>2. Last(s) = s[n]
  BY DEF Last
<1>3. CASE s[n].startX = x
  <2> DEFINE e == [s[n] EXCEPT !.state = st]
  <2>1. t = [s EXCEPT ![n] = e]
    BY <1>2, <1>3 DEF WithSegment
  <2>2. e \in Segments /\ e.startX = x /\ e.state = st
    BY <1>1, <1>3 DEF Segments
  <2> HIDE DEF e, t
  <2>3. /\ t \in Seq(Segments) /\ Len(t) = n
        /\ \A j \in 1 .. n : t[j] = IF j = n THEN e ELSE s[j]
    BY <1>1, <2>1, <2>2, ExceptSeq
  <2> QED
    BY <1>1, <1>3, <2>2, <2>3 DEF t
<1>4. CASE s[n].startX # x /\ n < Capacity
  <2> DEFINE e == Segment(x, st)
  <2>1. t = Append(s, e)
    BY <1>2, <1>4 DEF WithSegment
  <2>2. e \in Segments /\ e.startX = x /\ e.state = st
    BY SegmentIn
  <2> HIDE DEF e, t
  <2>3. /\ t \in Seq(Segments) /\ Len(t) = n + 1
        /\ \A j \in 1 .. n : t[j] = s[j]
        /\ t[n + 1] = e
    BY <2>1, <2>2, AppendProperties
  <2> QED
    BY <1>1, <1>4, <2>2, <2>3 DEF t
<1>5. CASE s[n].startX # x /\ n >= Capacity
  <2> DEFINE start == IF x < s[n].startX THEN s[n].startX ELSE x
             e == Segment(start, st)
             f == SubSeq(s, 1, n - 1)
  <2>1. t = Append(f, e)
    <3>1. ~(n < Capacity)
      BY <1>1, <1>5
    <3>2. t = Append(Front(s), e)
      BY <1>2, <1>5, <3>1 DEF WithSegment
    <3> QED
      BY <3>2 DEF Front
  <2>2. start \in 0 .. PictureWidth /\ (start = x \/ start = s[n].startX)
    BY <1>1 DEF Segments
  <2>3. e \in Segments /\ e.startX = start /\ e.state = st
    BY <2>2, SegmentIn
  <2>4. /\ f \in Seq(Segments) /\ Len(f) = n - 1 /\ \A i \in 1 .. n - 1 : f[i] = s[i]
    <3>1. 1 \in Int /\ n - 1 \in Int /\ \A i \in 1 .. n - 1 : s[i] \in Segments
      BY <1>1
    <3>2. /\ f \in Seq(Segments) /\ Len(f) = IF 1 <= n - 1 THEN n - 1 - 1 + 1 ELSE 0
          /\ \A i \in 1 .. n - 1 - 1 + 1 : f[i] = s[1 + i - 1]
      BY <3>1, SubSeqProperties
    <3> HIDE DEF f
    <3>3. Len(f) = n - 1
      <4>1. Len(f) = IF 1 <= n - 1 THEN n - 1 - 1 + 1 ELSE 0
        BY <3>2
      <4>2. n \in Nat \ {0}
        BY <1>1
      <4> HIDE DEF n
      <4> QED
        BY <4>1, <4>2
    <3>4. ASSUME NEW i \in 1 .. n - 1 PROVE f[i] = s[i]
      <4>1. i \in 1 .. n - 1 - 1 + 1 /\ 1 + i - 1 = i
        BY <1>1
      <4> QED
        BY <3>2, <4>1
    <3> QED
      BY <3>2, <3>3, <3>4
  <2> HIDE DEF e, t, f, start
  <2>5. /\ t \in Seq(Segments) /\ Len(t) = n
        /\ \A j \in 1 .. n - 1 : t[j] = f[j]
        /\ t[n] = e
    BY <1>1, <2>1, <2>3, <2>4, AppendProperties
  <2> QED
    BY <1>1, <1>5, <2>2, <2>3, <2>4, <2>5 DEF t
<1> QED
  BY <1>1, <1>3, <1>4, <1>5

\* What the segments of a line have to do with the writes made while it was drawn.  With
\* room for all of them, segment j stands for the writes numbered from the state before it
\* to its own, which were all to show from its column.
WritesKept(segments, columns, first) ==
  /\ Len(segments) <= Len(columns) + 1
  /\ segments[1].startX = 0 /\ segments[1].state = first
  /\ \A j \in 2 .. Len(segments) :
       /\ segments[j - 1].state < segments[j].state
       /\ \A k \in segments[j - 1].state - first + 1 .. segments[j].state - first :
            columns[k] = segments[j].startX

Follows(segments, columns, first) ==
  /\ segments # << >>
  /\ segments[Len(segments)].state = first + Len(columns)
  /\ \A j \in 2 .. Len(segments) : \E k \in 1 .. Len(columns) : segments[j].startX = columns[k]
  /\ Len(columns) < Capacity => WritesKept(segments, columns, first)

Begun(columns, x) ==
  LET later == {i \in DOMAIN columns : columns[i] > x}
  IN IF later = {} THEN Len(columns) ELSE (CHOOSE i \in later : \A j \in later : i <= j) - 1

LEMMA FirstOf ==
  ASSUME NEW T \in SUBSET Nat, T # {}, NEW m \in T, \A j \in T : m <= j
  PROVE  (CHOOSE i \in T : \A j \in T : i <= j) = m
<1> DEFINE c == CHOOSE i \in T : \A j \in T : i <= j
<1>1. c \in T /\ \A j \in T : c <= j
  OBVIOUS
<1> HIDE DEF c
<1>2. c <= m /\ m <= c /\ c \in Nat /\ m \in Nat
  BY <1>1
<1>3. c = m
  BY <1>2
<1> QED
  BY <1>3 DEF c

LEMMA BegunParts ==
  ASSUME NEW columns \in Seq(Nat), NEW x \in Nat
  PROVE  /\ Begun(columns, x) \in 0 .. Len(columns)
         /\ Begun(columns, x) = Len(columns) => \A k \in 1 .. Len(columns) : columns[k] <= x
         /\ (\A k \in 1 .. Len(columns) : columns[k] <= x) => Begun(columns, x) = Len(columns)
         /\ \A m \in 0 .. Len(columns) - 1 :
              columns[m + 1] > x /\ (\A k \in 1 .. m : columns[k] <= x) => Begun(columns, x) = m
<1> DEFINE later == {i \in 1 .. Len(columns) : columns[i] > x}
           n == Len(columns)
<1>1. /\ n \in Nat /\ DOMAIN columns = 1 .. n /\ \A k \in 1 .. n : columns[k] \in Nat
  BY LenProperties, ElementOfSeq
<1>2. Begun(columns, x) = IF later = {} THEN n
                          ELSE (CHOOSE i \in later : \A j \in later : i <= j) - 1
  BY <1>1 DEF Begun
<1>3. later \in SUBSET Nat /\ \A i \in later : i \in 1 .. n
  BY <1>1
<1>4. later = {} <=> \A k \in 1 .. n : columns[k] <= x
  BY <1>1
<1>5. ASSUME later # {} PROVE Begun(columns, x) \in 0 .. n - 1
  <2>1. PICK i \in later : \A j \in later : i <= j
    BY <1>3, <1>5, LeastNumber
  <2>2. Begun(columns, x) = i - 1
    BY <1>2, <1>3, <1>5, <2>1, FirstOf
  <2> QED
    BY <1>1, <1>3, <2>1, <2>2
<1>6. ASSUME NEW m \in 0 .. n - 1, columns[m + 1] > x, \A k \in 1 .. m : columns[k] <= x
      PROVE  Begun(columns, x) = m
  <2>1. m + 1 \in later /\ later # {}
    BY <1>1, <1>6
  <2>2. ASSUME NEW j \in later PROVE m + 1 <= j
    <3>1. j \in 1 .. n /\ columns[j] > x
      OBVIOUS
    <3>2. ~(j <= m)
      BY <1>1, <1>6, <3>1
    <3> QED
      BY <1>1, <3>1, <3>2
  <2>3. Begun(columns, x) = (m + 1) - 1
    <3>1. (CHOOSE i \in later : \A j \in later : i <= j) = m + 1
      BY <1>3, <2>1, <2>2, FirstOf
    <3> QED
      BY <1>2, <2>1, <3>1
  <2> QED
    BY <1>1, <2>3
<1> HIDE DEF later
<1>7. /\ Begun(columns, x) \in 0 .. n
      /\ Begun(columns, x) = n => later = {}
      /\ later = {} => Begun(columns, x) = n
  BY <1>1, <1>2, <1>5
<1> QED
  BY <1>1, <1>4, <1>6, <1>7

\* Every write belongs to one of the segments after the first.
LEMMA SegmentOf ==
  ASSUME NEW s \in Seq(Segments), NEW columns \in Seq(Nat), NEW first \in Nat,
         Follows(s, columns, first), WritesKept(s, columns, first), NEW k \in 1 .. Len(columns)
  PROVE  \E j \in 2 .. Len(s) : /\ columns[k] = s[j].startX
                                /\ \A i \in 1 .. j - 1 : s[i].state - first < k
<1> DEFINE n == Len(s)
           T == {j \in 1 .. n : k <= s[j].state - first}
<1>1. /\ n \in Nat \ {0} /\ Len(columns) \in Nat
      /\ \A i \in 1 .. n : s[i].state \in Nat
  BY SegmentFacts, ColumnFacts DEF Follows
<1>2. n \in T
  BY <1>1 DEF Follows
<1>3. PICK j \in T : \A i \in T : j <= i
  <2>1. T \in SUBSET Nat /\ T # {}
    BY <1>1, <1>2
  <2> HIDE DEF T
  <2> QED
    BY <2>1, LeastNumber
<1>4. j \in 1 .. n /\ k <= s[j].state - first
  OBVIOUS
<1>5. ASSUME NEW i \in 1 .. j - 1 PROVE s[i].state - first < k
  <2>1. i \in 1 .. n /\ i < j
    BY <1>1, <1>4
  <2>2. i \notin T
    BY <1>1, <1>3, <1>4, <2>1
  <2>3. ~(k <= s[i].state - first)
    BY <2>1, <2>2
  <2> QED
    BY <1>1, <2>1, <2>3
<1>6. j # 1
  BY <1>1, <1>4 DEF WritesKept
<1>7. j \in 2 .. n /\ j - 1 \in 1 .. j - 1 /\ j - 1 \in 1 .. n
  BY <1>1, <1>4, <1>6
<1>8. k \in s[j - 1].state - first + 1 .. s[j].state - first
  <2>1. s[j - 1].state - first < k
    BY <1>5, <1>7
  <2> QED
    BY SMTT(30), <1>1, <1>4, <1>7, <2>1
<1>9. columns[k] = s[j].startX
  BY <1>7, <1>8 DEF WritesKept
<1> QED
  BY <1>5, <1>7, <1>9

\* The states of the segments grow, from the line's first state to its last.
LEMMA StatesGrow ==
  ASSUME NEW s \in Seq(Segments), NEW columns \in Seq(Nat), NEW first \in Nat,
         Follows(s, columns, first), WritesKept(s, columns, first)
  PROVE  \A i \in 1 .. Len(s) : first <= s[i].state /\ s[i].state <= first + Len(columns)
<1> DEFINE n == Len(s)
           low == {i \in 1 .. n : s[i].state < first}
           high == {i \in 0 .. n - 1 : s[n - i].state > first + Len(columns)}
<1>1. /\ n \in Nat \ {0} /\ Len(columns) \in Nat
      /\ \A i \in 1 .. n : s[i].state \in Nat
  BY SegmentFacts, ColumnFacts DEF Follows
<1>2. \A j \in 2 .. n : s[j - 1].state < s[j].state
  BY DEF WritesKept
<1>3. low = {}
  <2>1. SUFFICES ASSUME low # {} PROVE FALSE
    OBVIOUS
  <2>2. PICK i \in low : \A j \in low : i <= j
    <3>1. low \in SUBSET Nat
      BY <1>1
    <3> HIDE DEF low
    <3> QED
      BY <2>1, <3>1, LeastNumber
  <2>3. i \in 1 .. n /\ s[i].state < first
    OBVIOUS
  <2>4. i # 1
    BY <1>1, <2>3 DEF WritesKept
  <2>5. i \in 2 .. n /\ i - 1 \in 1 .. n
    BY <1>1, <2>3, <2>4
  <2>6. s[i - 1].state < first
    BY <1>1, <1>2, <2>3, <2>5
  <2>7. i - 1 \in low
    BY <2>5, <2>6
  <2> QED
    BY <1>1, <2>2, <2>5, <2>7
<1>4. high = {}
  <2>1. SUFFICES ASSUME high # {} PROVE FALSE
    OBVIOUS
  <2>2. PICK i \in high : \A j \in high : i <= j
    <3>1. high \in SUBSET Nat
      BY <1>1
    <3> HIDE DEF high
    <3> QED
      BY <2>1, <3>1, LeastNumber
  <2>3. i \in 0 .. n - 1 /\ s[n - i].state > first + Len(columns)
    OBVIOUS
  <2>4. i # 0
    BY <1>1, <2>3 DEF Follows
  <2> DEFINE a == n - i
             b == a + 1
             c == i - 1
  <2>5. /\ c \in 0 .. n - 1 /\ b \in 2 .. n /\ n - c = b /\ b - 1 = a
        /\ a \in 1 .. n /\ b \in 1 .. n /\ c < i
    BY <1>1, <2>3, <2>4
  <2>6. s[a].state > first + Len(columns)
    BY <2>3
  <2>7. s[a].state \in Nat /\ s[b].state \in Nat
    BY <1>1, <2>5
  <2>8. s[a].state < s[b].state
    <3>1. s[b - 1].state < s[b].state
      BY <1>2, <2>5
    <3> HIDE DEF a, b
    <3> QED
      BY <2>5, <3>1
  <2> HIDE DEF a, b, c
  <2>9. s[b].state > first + Len(columns)
    BY SMTT(30), <1>1, <2>5, <2>6, <2>7, <2>8
  <2>10. c \in high
    BY <2>5, <2>9
  <2>11. i <= c
    BY <2>2, <2>10
  <2> QED
    BY <1>1, <2>3, <2>5, <2>11
<1>5. ASSUME NEW i \in 1 .. n PROVE first <= s[i].state /\ s[i].state <= first + Len(columns)
  <2>1. ~(s[i].state < first)
    BY <1>3
  <2>2. n - i \in 0 .. n - 1 /\ n - (n - i) = i
    BY <1>1
  <2>3. ~(s[i].state > first + Len(columns))
    BY <1>4, <2>2
  <2> QED
    BY <1>1, <2>1, <2>3
<1> QED
  BY <1>5

\* renderFrame shows at each column the state of the writes that had begun to show there.
LEMMA FollowsShows ==
  ASSUME NEW s \in Seq(Segments), NEW columns \in Seq(Nat), NEW first \in Nat, NEW x \in Nat,
         Follows(s, columns, first),
         Len(columns) < Capacity \/ Begun(columns, x) = Len(columns)
  PROVE  ShownAt(s, x) = first + Begun(columns, x)
<1> DEFINE n == Len(s)
           later == {i \in 2 .. n : s[i].startX > x}
           stop == CHOOSE i \in later : \A j \in later : i <= j
<1>1. /\ n \in Nat \ {0} /\ Len(columns) \in Nat
      /\ \A i \in 1 .. n : s[i].state \in Nat /\ s[i].startX \in Nat
      /\ \A k \in 1 .. Len(columns) : columns[k] \in Nat
  BY SegmentFacts, ColumnFacts DEF Follows
<1>2. ShownAt(s, x) = IF later = {} THEN s[n].state ELSE s[stop - 1].state
  BY DEF ShownAt, Last
<1>3. CASE \A k \in 1 .. Len(columns) : columns[k] <= x
  <2>1. Begun(columns, x) = Len(columns)
    BY <1>3, BegunParts
  <2>2. ASSUME NEW j \in later PROVE FALSE
    <3>1. PICK k \in 1 .. Len(columns) : s[j].startX = columns[k]
      BY DEF Follows
    <3> QED
      BY <1>1, <1>3, <3>1
  <2>3. ShownAt(s, x) = s[n].state
    BY <1>2, <2>2
  <2> QED
    BY <2>1, <2>3 DEF Follows
<1>4. CASE ~ \A k \in 1 .. Len(columns) : columns[k] <= x
  <2>1. Begun(columns, x) # Len(columns)
    BY <1>4, BegunParts
  <2>2. WritesKept(s, columns, first)
    BY <2>1 DEF Follows
  <2>18. \A k \in 1 .. Len(columns) :
           \E j \in 2 .. n : /\ columns[k] = s[j].startX
                             /\ \A i \in 1 .. j - 1 : s[i].state - first < k
    <3> HIDE DEF later
    <3> QED
      BY <2>2, SegmentOf
  <2>3. PICK k0 \in 1 .. Len(columns) : columns[k0] > x
    BY <1>1, <1>4
  <2>4. later # {} /\ later \in SUBSET Nat
    <3>1. PICK j \in 2 .. n : columns[k0] = s[j].startX
      BY <2>3, <2>18
    <3>2. s[j].startX > x
      BY <2>3, <3>1
    <3>3. j \in later
      BY <3>2
    <3>4. \A i \in later : i \in Nat
      BY <1>1
    <3> QED
      BY <3>3, <3>4
  <2>5. PICK least \in later : \A j \in later : least <= j
    <3> HIDE DEF later
    <3> QED
      BY <2>4, LeastNumber
  <2>6. stop = least
    <3> HIDE DEF later
    <3> QED
      BY <2>4, <2>5, FirstOf
  <2> HIDE DEF stop
  <2>7. /\ least \in 2 .. n /\ s[least].startX > x /\ least - 1 \in 1 .. n /\ least \in 1 .. n
    BY <1>1
  <2> DEFINE m == s[least - 1].state - first
  <2>8. /\ s[least - 1].state < s[least].state
        /\ \A k \in m + 1 .. s[least].state - first : columns[k] = s[least].startX
    BY <2>2, <2>7 DEF WritesKept
  <2> DEFINE now == s[least].state
             before == s[least - 1].state
  <2>15. now \in Nat /\ before \in Nat
    BY <1>1, <2>7
  <2>9. m \in Int /\ m + 1 \in m + 1 .. s[least].state - first
    <3>1. before < now /\ m = before - first
      BY <2>8
    <3> HIDE DEF now, before, m
    <3>2. m \in Int /\ m + 1 \in m + 1 .. now - first
      BY <2>15, <3>1
    <3> QED
      BY <3>2 DEF now
  <2>10. m >= 0 /\ m + 1 <= Len(columns)
    <3>1. first <= before /\ now <= first + Len(columns)
      BY <2>2, <2>7, StatesGrow
    <3>2. before < now /\ m = before - first
      BY <2>8
    <3> HIDE DEF now, before, m
    <3> QED
      BY <1>1, <2>15, <3>1, <3>2
  <2>11. columns[m + 1] > x
    BY <2>7, <2>8, <2>9
  <2>12. ASSUME NEW k \in 1 .. m PROVE columns[k] <= x
    <3>1. k \in 1 .. Len(columns)
      BY <1>1, <2>9, <2>10
    <3>2. PICK j \in 2 .. n : /\ columns[k] = s[j].startX
                              /\ \A i \in 1 .. j - 1 : s[i].state - first < k
      BY <2>18, <3>1
    <3>3. j < least
      <4>1. SUFFICES ASSUME least <= j PROVE FALSE
        BY <2>7, <3>2
      <4>2. least - 1 \in 1 .. j - 1
        BY <2>7, <4>1
      <4>3. m < k
        BY <3>2, <4>2
      <4> QED
        BY <2>9, <4>3
    <3>4. j \notin later
      BY <2>5, <2>7, <3>2, <3>3
    <3> QED
      BY SMTT(30), <1>1, <3>1, <3>2, <3>4
  <2>13. Begun(columns, x) = m
    <3>1. m \in 0 .. Len(columns) - 1
      BY <1>1, <2>9, <2>10
    <3> HIDE DEF m
    <3> QED
      BY <2>11, <2>12, <3>1, BegunParts
  <2>14. ShownAt(s, x) = s[least - 1].state
    BY <1>2, <2>4, <2>6
  <2>16. m = before - first
    OBVIOUS
  <2>17. ShownAt(s, x) = before
    BY <2>14
  <2> HIDE DEF m, before
  <2> QED
    BY <2>13, <2>15, <2>16, <2>17
<1> QED
  BY <1>3, <1>4

\* A write while the line is drawn: its segments go on following its writes.
LEMMA FollowsKept ==
  ASSUME NEW s \in Seq(Segments), NEW columns \in Seq(Nat), NEW first \in Nat,
         Follows(s, columns, first), NEW x \in 1 .. PictureWidth,
         first + Len(columns) + 1 \in 0 .. MaxLineWrites
  PROVE  Follows(WithSegment(s, x, first + Len(columns) + 1), Append(columns, x), first)
<1> DEFINE st == first + Len(columns) + 1
           t == WithSegment(s, x, st)
           more == Append(columns, x)
           n == Len(s)
           m == Len(columns)
<1>1. /\ n \in Nat \ {0} /\ m \in Nat /\ first \in Nat /\ x \in Nat /\ x > 0
      /\ \A i \in 1 .. n : s[i].state \in Nat /\ s[i].startX \in Nat
      /\ s # << >>
  BY SegmentFacts, ColumnFacts DEF Follows
<1>2. /\ Len(more) = m + 1 /\ more[m + 1] = x
      /\ \A k \in 1 .. m : more[k] = columns[k]
  <2>1. x \in Nat
    BY <1>1
  <2> QED
    BY <2>1, AppendProperties
<1>3. /\ s[n].state = first + m
      /\ \A j \in 2 .. n : \E k \in 1 .. m : s[j].startX = columns[k]
      /\ m < Capacity => WritesKept(s, columns, first)
  BY DEF Follows
<1>4. /\ t \in Seq(Segments)
      /\ \A i \in 1 .. n - 1 : t[i] = s[i]
      /\ t[Len(t)].state = st
      /\ \/ s[n].startX = x /\ Len(t) = n /\ t[n].startX = x
         \/ /\ s[n].startX # x /\ n < Capacity /\ Len(t) = n + 1 /\ t[n] = s[n]
            /\ t[n + 1].startX = x
         \/ /\ n >= Capacity /\ Len(t) = n
            /\ t[n].startX = x \/ t[n].startX = s[n].startX
  <2>1. x \in 0 .. PictureWidth /\ st \in 0 .. MaxLineWrites
    BY <1>1, LineNumbers
  <2>2. s \in Seq(Segments) /\ s # << >>
    BY <1>1
  <2> HIDE DEF st
  <2> QED
    BY <2>1, <2>2, WithSegmentParts
<1>5. st \in Nat /\ st = first + m + 1
  BY <1>1
<1> HIDE DEF t, more, st, m
<1>6. t # << >> /\ t[Len(t)].state = first + Len(more)
  <2>1. Len(t) # 0
    BY <1>1, <1>4
  <2> QED
    BY <1>1, <1>2, <1>4, <1>5, <2>1, EmptySeq
<1>7. ASSUME NEW j \in 2 .. Len(t) PROVE \E k \in 1 .. Len(more) : t[j].startX = more[k]
  <2>1. m + 1 \in 1 .. Len(more) /\ \A k \in 1 .. m : k \in 1 .. Len(more)
    BY <1>1, <1>2
  <2>2. CASE t[j].startX = x
    BY <1>2, <2>1, <2>2
  <2>3. CASE t[j].startX # x
    <3>1. j \in 2 .. n /\ t[j].startX = s[j].startX
      <4>1. Len(t) = n \/ (Len(t) = n + 1 /\ t[n] = s[n] /\ t[n + 1].startX = x)
        BY <1>4
      <4>2. j \in 2 .. n
        BY <1>1, <2>3, <4>1
      <4>3. CASE j = n
        BY <1>4, <2>3, <4>2, <4>3
      <4>4. CASE j # n
        <5>1. j \in 1 .. n - 1
          BY <1>1, <4>2, <4>4
        <5> QED
          BY <1>4, <4>2, <5>1
      <4> QED
        BY <4>3, <4>4
    <3>2. PICK k \in 1 .. m : s[j].startX = columns[k]
      BY <1>3, <3>1
    <3> QED
      BY <1>2, <2>1, <3>1, <3>2
  <2> QED
    BY <2>2, <2>3
<1>8. ASSUME Len(more) < Capacity PROVE WritesKept(t, more, first)
  <2>1. m < Capacity /\ n <= m + 1 /\ n < Capacity
    BY <1>1, <1>2, <1>3, <1>8, LineNumbers DEF WritesKept, m
  <2>2. /\ s[1].startX = 0 /\ s[1].state = first
        /\ \A j \in 2 .. n :
             /\ s[j - 1].state < s[j].state
             /\ \A k \in s[j - 1].state - first + 1 .. s[j].state - first :
                  columns[k] = s[j].startX
    BY <1>3, <2>1 DEF WritesKept
  <2>3. \A i \in 1 .. n : first <= s[i].state /\ s[i].state <= first + m
    BY <1>3, <2>1, StatesGrow DEF m
  <2>4. CASE s[n].startX = x
    <3>1. Len(t) = n /\ t[n].startX = x /\ t[n].state = st /\ n # 1
      BY <1>1, <1>4, <2>1, <2>2, <2>4, LineNumbers
    <3>2. 1 \in 1 .. n - 1 /\ n - 1 \in 1 .. n - 1 /\ n - 1 \in 1 .. n
      BY <1>1, <3>1
    <3>3. ASSUME NEW j \in 2 .. n
          PROVE  /\ t[j - 1].state < t[j].state
                 /\ \A k \in t[j - 1].state - first + 1 .. t[j].state - first :
                      more[k] = t[j].startX
      <4>0. j - 1 \in 1 .. n - 1 /\ j \in 1 .. n /\ j - 1 \in 1 .. n
        BY <1>1
      <4> DEFINE p == s[j - 1].state
                 q == s[j].state
      <4>1. /\ p < q /\ p \in Nat /\ q \in Nat /\ t[j - 1].state = p /\ first <= p
            /\ q <= first + m
            /\ \A k \in p - first + 1 .. q - first : columns[k] = s[j].startX
        BY <1>1, <1>4, <2>2, <2>3, <4>0
      <4>2. CASE j # n
        <5>1. j \in 1 .. n - 1
          BY <1>1, <4>0, <4>2
        <5>2. t[j] = s[j]
          BY <1>4, <5>1
        <5>3. \A k \in p - first + 1 .. q - first : k \in 1 .. m
          <6> HIDE DEF p, q
          <6> QED
            BY <1>1, <4>1
        <5> QED
          BY <1>2, <4>1, <5>2, <5>3
      <4>3. CASE j = n
        <5>1. t[j].state = st /\ t[j].startX = x /\ q = first + m
          BY <1>3, <3>1, <4>3
        <5>2. ASSUME NEW k \in p - first + 1 .. st - first PROVE more[k] = x
          <6>1. k \in Int /\ k >= 1 /\ (k <= m \/ k = m + 1)
            <7> HIDE DEF p, q
            <7> QED
              BY <1>1, <1>5, <4>1
          <6>2. CASE k = m + 1
            BY <1>2, <6>2
          <6>3. CASE k <= m
            <7>1. k \in p - first + 1 .. q - first /\ k \in 1 .. m
              <8> HIDE DEF p, q
              <8> QED
                BY <1>1, <1>5, <4>1, <5>1, <6>1, <6>3
            <7>2. more[k] = s[j].startX
              BY <1>2, <4>1, <7>1
            <7> QED
              BY <2>4, <4>3, <7>2
          <6> QED
            BY <6>1, <6>2, <6>3
        <5>3. p < st
          <6>1. p < q /\ p \in Nat /\ q = first + m
            BY <4>1, <5>1
          <6> HIDE DEF p, q
          <6> QED
            BY <1>1, <1>5, <6>1
        <5> QED
          BY <4>1, <5>1, <5>2, <5>3
      <4> QED
        BY <4>2, <4>3
    <3>4. t[1] = s[1]
      BY <1>4, <3>2
    <3> QED
      BY SMTT(30), <1>1, <1>2, <2>1, <2>2, <3>1, <3>3, <3>4 DEF WritesKept
  <2>5. CASE s[n].startX # x
    <3>1. Len(t) = n + 1 /\ t[n] = s[n] /\ t[n + 1].startX = x /\ t[n + 1].state = st
      BY <1>1, <1>4, <2>1, <2>5, LineNumbers
    <3>2. \A i \in 1 .. n : t[i] = s[i]
      BY <1>1, <1>4, <3>1
    <3>3. ASSUME NEW j \in 2 .. n + 1
          PROVE  /\ t[j - 1].state < t[j].state
                 /\ \A k \in t[j - 1].state - first + 1 .. t[j].state - first :
                      more[k] = t[j].startX
      <4>0. j - 1 \in 1 .. n /\ t[j - 1] = s[j - 1]
        BY <1>1, <3>2
      <4>1. CASE j = n + 1
        <5>1. t[j].state = st /\ t[j].startX = x /\ t[j - 1].state = first + m
          BY <1>1, <1>3, <3>1, <4>1
        <5> DEFINE p == t[j - 1].state
                   q == t[j].state
                   c == t[j].startX
        <5>4. p = first + m /\ q = st /\ c = x
          BY <5>1
        <5> HIDE DEF p, q, c
        <5>5. p < q /\ p \in Nat /\ q \in Nat
          BY <1>1, <1>5, <5>4
        <5>6. ASSUME NEW k \in p - first + 1 .. q - first PROVE more[k] = c
          <6>1. k = m + 1
            BY <1>1, <1>5, <5>4, <5>5
          <6> QED
            BY <1>2, <5>4, <6>1
        <5> QED
          BY <5>5, <5>6 DEF p, q, c
      <4>2. CASE j # n + 1
        <5>1. j \in 2 .. n /\ j \in 1 .. n
          BY <1>1, <4>2
        <5> DEFINE p == s[j - 1].state
                   q == s[j].state
        <5>2. /\ p < q /\ p \in Nat /\ q \in Nat /\ t[j - 1].state = p /\ t[j] = s[j]
              /\ first <= p /\ q <= first + m
              /\ \A k \in p - first + 1 .. q - first : columns[k] = s[j].startX
          BY <1>1, <2>2, <2>3, <3>2, <4>0, <5>1
        <5>3. \A k \in p - first + 1 .. q - first : k \in 1 .. m
          <6> HIDE DEF p, q
          <6> QED
            BY <1>1, <5>2
        <5> QED
          BY <1>2, <5>2, <5>3
      <4> QED
        BY <4>1, <4>2
    <3>4. t[1] = s[1]
      BY <1>1, <3>2
    <3> QED
      BY <1>1, <1>2, <2>1, <2>2, <3>1, <3>3, <3>4 DEF WritesKept
  <2> QED
    BY <2>4, <2>5
<1>9. Follows(t, more, first)
  BY <1>6, <1>7, <1>8 DEF Follows
<1> QED
  BY <1>9 DEF t, more, st, m

\* The first dot of the line has been drawn in this frame.
Captive(y) == y < lineNumber \/ (y = lineNumber /\ lineCycle > 0)

LinesTypes ==
  /\ lineNumber \in 0 .. LinesPerFrame - 1 /\ lineCycle \in 0 .. DotsPerLine - 1
  /\ written \in 0 .. MaxLineWrites
  /\ lineState \in [PictureLines -> Seq(Segments)]
  /\ \A y \in PictureLines : Len(lineState[y]) <= Capacity
  /\ lastFrame \in [PictureLines -> [Columns -> 0 .. MaxLineWrites]]
  /\ starts \in [PictureLines -> Seq(Nat)]
  /\ begun \in [PictureLines -> 0 .. MaxLineWrites]
  /\ lost \in BOOLEAN

\* No write is asked of a line before its first dot, and every write is one of the line
\* that is being drawn.
WritesCounted ==
  /\ \A y \in PictureLines : ~Captive(y) => starts[y] = << >>
  /\ Drawing => begun[lineNumber] + Len(starts[lineNumber]) = written

LinesFollow ==
  ~lost /\ ~Drawn =>
    \A y \in PictureLines : Captive(y) => Follows(lineState[y], starts[y], begun[y])

PictureFollows ==
  Drawn /\ ~lost =>
    \A y \in PictureLines : \A x \in Columns :
      Len(starts[y]) < Capacity \/ Begun(starts[y], x) = Len(starts[y])
        => lastFrame[y][x] = begun[y] + Begun(starts[y], x)

LinesInv == LinesTypes /\ WritesCounted /\ LinesFollow /\ PictureFollows

LEMMA LinesInvSound == LinesInv => PictureFollowsWrites
<1> SUFFICES ASSUME LinesInv PROVE PictureFollowsWrites
  OBVIOUS
<1>1. LinesTypeOK
  <2>1. ASSUME NEW y \in PictureLines, NEW i \in DOMAIN lineState[y]
        PROVE  lineState[y][i] \in [startX : 0 .. PictureWidth, state : 0 .. MaxLineWrites]
    <3>1. lineState[y] \in Seq(Segments)
      BY DEF LinesInv, LinesTypes
    <3>2. i \in 1 .. Len(lineState[y])
      BY <3>1, LenProperties
    <3>3. lineState[y][i] \in Segments
      BY <3>1, <3>2, ElementOfSeq
    <3> QED
      BY <3>3 DEF Segments
  <2> QED
    BY <2>1 DEF LinesInv, LinesTypes, LinesTypeOK
<1>2. \A y \in PictureLines, x \in Columns : BegunBy(y, x) = Begun(starts[y], x)
  BY DEF BegunBy, Begun
<1> QED
  BY <1>1, <1>2 DEF LinesInv, PictureFollows, PictureFollowsWrites

LEMMA LinesStart == LinesInit => LinesInv
<1> SUFFICES ASSUME LinesInit PROVE LinesInv
  OBVIOUS
<1>1. LinesTypes
  <2>1. << >> \in Seq(Segments) /\ << >> \in Seq(Nat) /\ Len(<< >>) = 0
    BY EmptySeq
  <2>2. 0 \in 0 .. MaxLineWrites /\ 0 \in 0 .. LinesPerFrame - 1 /\ 0 \in 0 .. DotsPerLine - 1
        /\ 0 <= Capacity
    BY LineNumbers
  <2>3. NoPicture \in [PictureLines -> [Columns -> 0 .. MaxLineWrites]]
    BY <2>2 DEF NoPicture
  <2> QED
    BY <2>1, <2>2, <2>3 DEF LinesInit, LinesTypes
<1>2. \A y \in PictureLines : ~Captive(y)
  BY DEF LinesInit, Captive, PictureLines
<1>3. ~Drawing /\ ~Drawn
  BY LineNumbers DEF LinesInit, Drawing, Drawn
<1> QED
  BY <1>1, <1>2, <1>3 DEF LinesInit, LinesInv, WritesCounted, LinesFollow, PictureFollows

\* A write that throws nothing away leaves the lines that were begun as they are.
LEMMA WritesInvalidate ==
  ASSUME LinesTypes, NEW states \in [PictureLines -> Seq(Segments)],
         \A y \in PictureLines : Len(states[y]) <= Capacity
  PROVE  /\ Invalidated(states) \in [PictureLines -> Seq(Segments)]
         /\ \A y \in PictureLines : Len(Invalidated(states)[y]) <= Capacity
         /\ ~ThrowsAway /\ ~Drawn =>
              \A y \in PictureLines : Captive(y) => Invalidated(states)[y] = states[y]
<1>1. << >> \in Seq(Segments) /\ Len(<< >>) = 0 /\ 0 <= Capacity
  BY EmptySeq, LineNumbers
<1>2. /\ Invalidated(states) \in [PictureLines -> Seq(Segments)]
      /\ \A y \in PictureLines :
           Invalidated(states)[y] = IF y >= FirstInvalid THEN << >> ELSE states[y]
  BY <1>1 DEF Invalidated
<1>3. ASSUME ~ThrowsAway, ~Drawn, NEW y \in PictureLines, Captive(y) PROVE ~(y >= FirstInvalid)
  <2>1. lineNumber < PictureHeight /\ lineCycle # 1
    BY <1>3, LineNumbers DEF ThrowsAway, LinesTypes
  <2>2. FirstInvalid = IF lineCycle > 1 THEN lineNumber + 1 ELSE lineNumber
    BY <2>1, LineNumbers DEF FirstInvalid, LinesTypes
  <2> QED
    BY <1>3, <2>1, <2>2, LineNumbers DEF Captive, PictureLines, LinesTypes
<1> QED
  BY <1>1, <1>2, <1>3

LEMMA HighByteKeeps == ASSUME LinesInv, WriteHighByte PROVE LinesInv'
<1>0. LinesTypes /\ WritesCounted /\ LinesFollow /\ PictureFollows
  BY DEF LinesInv
<1>1. /\ lineState' = Invalidated(lineState) /\ lost' = (lost \/ ThrowsAway)
      /\ UNCHANGED <<lineNumber, lineCycle, written, lastFrame, starts, begun>>
  BY DEF WriteHighByte
<1>2. /\ lineState' \in [PictureLines -> Seq(Segments)]
      /\ \A y \in PictureLines : Len(lineState'[y]) <= Capacity
      /\ ~ThrowsAway /\ ~Drawn =>
           \A y \in PictureLines : Captive(y) => lineState'[y] = lineState[y]
  BY <1>0, <1>1, WritesInvalidate DEF LinesTypes
<1>3. LinesTypes'
  BY <1>0, <1>1, <1>2 DEF LinesTypes, ThrowsAway
<1>4. WritesCounted' /\ PictureFollows'
  BY <1>0, <1>1 DEF WritesCounted, PictureFollows, Captive, Drawing, Drawn
<1>5. LinesFollow'
  <2>1. SUFFICES ASSUME ~lost', ~Drawn', NEW y \in PictureLines, Captive(y)'
                 PROVE  Follows(lineState[y], starts[y], begun[y])' 
    BY DEF LinesFollow
  <2>2. ~lost /\ ~ThrowsAway /\ ~Drawn /\ Captive(y)
    BY <1>1, <2>1 DEF Drawn, Captive
  <2>3. Follows(lineState[y], starts[y], begun[y]) /\ lineState'[y] = lineState[y]
    BY <1>0, <1>2, <2>2 DEF LinesFollow
  <2> QED
    BY <1>1, <2>3
<1> QED
  BY <1>3, <1>4, <1>5 DEF LinesInv

LEMMA RegisterWriteKeeps ==
  ASSUME LinesInv, NEW delay \in Delays, WriteRegister(delay) PROVE LinesInv'
<1>0. LinesTypes /\ WritesCounted /\ LinesFollow /\ PictureFollows
  BY DEF LinesInv
<1> DEFINE x == StartX(delay)
           now == lineNumber
           segments == WithSegment(lineState[now], x, written + 1)
           states == IF ~Drawing THEN lineState
                     ELSE [lineState EXCEPT ![now] = segments]
<1>1. /\ written < MaxLineWrites /\ written' = written + 1
      /\ lineState' = Invalidated(states) /\ lost' = (lost \/ ThrowsAway)
      /\ starts' = IF ~Drawing THEN starts ELSE [starts EXCEPT ![now] = Append(@, x)]
      /\ UNCHANGED <<lineNumber, lineCycle, lastFrame, begun>>
  BY DEF WriteRegister
<1>2. /\ lineState \in [PictureLines -> Seq(Segments)] /\ starts \in [PictureLines -> Seq(Nat)]
      /\ \A y \in PictureLines : Len(lineState[y]) <= Capacity
      /\ begun \in [PictureLines -> 0 .. MaxLineWrites]
      /\ written + 1 \in 0 .. MaxLineWrites
      /\ lineNumber \in Nat /\ lineCycle \in Nat /\ Capacity \in Nat \ {0}
      /\ (Drawing => now \in PictureLines /\ lineCycle \in 1 .. PictureWidth)
  <2>1. /\ lineState \in [PictureLines -> Seq(Segments)] /\ starts \in [PictureLines -> Seq(Nat)]
        /\ \A y \in PictureLines : Len(lineState[y]) <= Capacity
        /\ begun \in [PictureLines -> 0 .. MaxLineWrites]
    BY <1>0 DEF LinesTypes
  <2>2. /\ written \in 0 .. MaxLineWrites /\ lineNumber \in 0 .. LinesPerFrame - 1
        /\ lineCycle \in 0 .. DotsPerLine - 1
    BY <1>0 DEF LinesTypes
  <2>3. written + 1 \in 0 .. MaxLineWrites /\ lineNumber \in Nat /\ lineCycle \in Nat
    BY <1>1, <2>2, LineNumbers
  <2>4. Drawing => now \in PictureLines /\ lineCycle \in 1 .. PictureWidth
    BY <2>3, LineNumbers DEF Drawing, PictureLines
  <2> QED
    BY <2>1, <2>3, <2>4, LineNumbers
<1>3. Drawing => x \in 0 .. PictureWidth /\ x \in Nat /\ (lineCycle > 1 => x \in 1 .. PictureWidth)
  BY <1>2, StartsIn, LineNumbers
<1>4. Drawing => segments \in Seq(Segments) /\ Len(segments) <= Capacity
  <2>1. SUFFICES ASSUME Drawing PROVE segments \in Seq(Segments) /\ Len(segments) <= Capacity
    OBVIOUS
  <2> DEFINE s == lineState[now]
             st == written + 1
             t == WithSegment(s, x, st)
  <2>2. s \in Seq(Segments) /\ Len(s) <= Capacity /\ Len(s) \in Nat
    BY <1>2, <2>1, LenProperties
  <2>3. x \in 0 .. PictureWidth /\ st \in 0 .. MaxLineWrites
    BY <1>2, <1>3, <2>1
  <2>4. CASE s = << >>
    <3>1. t = <<Segment(0, st)>>
      BY <2>4 DEF WithSegment
    <3>2. Segment(0, st) \in Segments
      BY <2>3, SegmentIn, LineNumbers
    <3>3. t \in Seq(Segments) /\ Len(t) = 1
      <4> HIDE DEF t
      <4> QED
        BY <3>1, <3>2
    <3>4. t \in Seq(Segments) /\ Len(t) <= Capacity
      <4> HIDE DEF t
      <4> QED
        BY <1>2, <3>3
    <3> QED
      BY <3>4
  <2>5. CASE s # << >>
    <3> HIDE DEF s, st, x
    <3>1. /\ t \in Seq(Segments)
          /\ Len(t) = Len(s) \/ (Len(s) < Capacity /\ Len(t) = Len(s) + 1)
      BY <2>2, <2>3, <2>5, WithSegmentParts
    <3> HIDE DEF t
    <3>2. Len(t) <= Capacity
      BY <1>2, <2>2, <3>1
    <3> QED
      BY <3>1, <3>2 DEF t, s, st, x
  <2> QED
    BY <2>4, <2>5
<1> HIDE DEF x, segments
<1>5. /\ states \in [PictureLines -> Seq(Segments)]
      /\ \A y \in PictureLines : Len(states[y]) <= Capacity
  BY <1>2, <1>4
<1>6. /\ lineState' \in [PictureLines -> Seq(Segments)]
      /\ \A y \in PictureLines : Len(lineState'[y]) <= Capacity
      /\ ~ThrowsAway /\ ~Drawn =>
           \A y \in PictureLines : Captive(y) => lineState'[y] = states[y]
  <2> HIDE DEF states
  <2> QED
    BY <1>0, <1>1, <1>5, WritesInvalidate
<1>7. starts' \in [PictureLines -> Seq(Nat)]
  <2>1. CASE Drawing
    <3>1. Append(starts[now], x) \in Seq(Nat)
      BY <1>2, <1>3, <2>1, AppendProperties
    <3> QED
      BY <1>1, <1>2, <2>1, <3>1
  <2>2. CASE ~Drawing
    BY <1>1, <1>2, <2>2
  <2> QED
    BY <2>1, <2>2
<1>8. LinesTypes'
  BY <1>0, <1>1, <1>2, <1>6, <1>7 DEF LinesTypes, ThrowsAway
<1>9. \A y \in PictureLines :
        ~(Drawing /\ y = now) => starts'[y] = starts[y] /\ states[y] = lineState[y]
  BY <1>1, <1>2
<1>10. Drawing => /\ starts'[now] = Append(starts[now], x) /\ states[now] = segments
                  /\ Len(starts'[now]) = Len(starts[now]) + 1 /\ Len(starts[now]) \in Nat
  <2>1. SUFFICES ASSUME Drawing
                 PROVE  /\ starts'[now] = Append(starts[now], x) /\ states[now] = segments
                        /\ Len(starts'[now]) = Len(starts[now]) + 1 /\ Len(starts[now]) \in Nat
    OBVIOUS
  <2>2. starts'[now] = Append(starts[now], x) /\ states[now] = segments
    BY <1>1, <1>2, <2>1
  <2>3. starts[now] \in Seq(Nat) /\ x \in Nat
    BY <1>2, <1>3, <2>1
  <2>4. Len(Append(starts[now], x)) = Len(starts[now]) + 1 /\ Len(starts[now]) \in Nat
    BY <2>3, AppendProperties, LenProperties
  <2> QED
    BY <2>2, <2>4
<1>11. WritesCounted'
  <2>1. ASSUME NEW y \in PictureLines, ~Captive(y)' PROVE starts'[y] = << >>
    <3>1. ~Captive(y)
      BY <1>1, <2>1 DEF Captive
    <3>2. ~(Drawing /\ y = now)
      BY <1>2, <3>1, LineNumbers DEF Captive
    <3> QED
      BY <1>0, <1>9, <3>1, <3>2 DEF WritesCounted
  <2>2. ASSUME Drawing' PROVE begun'[lineNumber'] + Len(starts'[lineNumber']) = written'
    <3>1. Drawing
      BY <1>1, <2>2 DEF Drawing
    <3>2. begun[now] + Len(starts[now]) = written /\ begun[now] \in Nat /\ written \in Nat
      BY <1>0, <1>2, <3>1, LineNumbers DEF WritesCounted, LinesTypes
    <3> QED
      BY <1>1, <1>10, <3>1, <3>2
  <2> QED
    BY <2>1, <2>2 DEF WritesCounted
<1>12. LinesFollow'
  <2>1. SUFFICES ASSUME ~lost', ~Drawn', NEW y \in PictureLines, Captive(y)'
                 PROVE  Follows(lineState'[y], starts'[y], begun'[y])
    BY DEF LinesFollow
  <2>2. ~lost /\ ~ThrowsAway /\ ~Drawn /\ Captive(y)
    BY <1>1, <2>1 DEF Drawn, Captive
  <2>3. Follows(lineState[y], starts[y], begun[y]) /\ lineState'[y] = states[y]
    BY <1>0, <1>6, <2>2 DEF LinesFollow
  <2>4. CASE Drawing /\ y = now
    <3> DEFINE s == lineState[y]
               columns == starts[y]
               first == begun[y]
    <3>1. x \in 1 .. PictureWidth
      <4>1. lineCycle # 1 /\ lineCycle \in 1 .. PictureWidth
        BY <1>2, <2>2, <2>4 DEF ThrowsAway, Drawing
      <4> QED
        BY <1>3, <2>4, <4>1, LineNumbers
    <3>2. /\ s \in Seq(Segments) /\ columns \in Seq(Nat) /\ first \in Nat
          /\ first + Len(columns) = written /\ first + Len(columns) + 1 \in 0 .. MaxLineWrites
      BY <1>0, <1>2, <2>4, LineNumbers DEF WritesCounted
    <3>3. Follows(s, columns, first)
      BY <2>3
    <3> HIDE DEF s, columns, first
    <3>4. Follows(WithSegment(s, x, first + Len(columns) + 1), Append(columns, x), first)
      BY <3>1, <3>2, <3>3, FollowsKept
    <3>5. Follows(WithSegment(s, x, written + 1), Append(columns, x), first)
      BY <3>2, <3>4
    <3>6. states[y] = WithSegment(s, x, written + 1) /\ starts'[y] = Append(columns, x)
      BY <1>10, <2>4 DEF segments, s, columns
    <3>7. begun'[y] = first
      BY <1>1 DEF first
    <3> QED
      BY <2>3, <3>5, <3>6, <3>7
  <2>5. CASE ~(Drawing /\ y = now)
    BY <1>1, <1>9, <2>3, <2>5
  <2> QED
    BY <2>4, <2>5
<1>13. PictureFollows'
  <2>1. CASE Drawn
    <3>1. starts' = starts
      BY <1>1, <1>2, <2>1, LineNumbers DEF Drawn, Drawing
    <3> QED
      BY <1>0, <1>1, <3>1 DEF PictureFollows, Drawn
  <2>2. CASE ~Drawn
    BY <1>1, <2>2 DEF PictureFollows, Drawn
  <2> QED
    BY <2>1, <2>2
<1> QED
  BY <1>8, <1>11, <1>12, <1>13 DEF LinesInv

\* renderFrame's picture shows what the registers could hold.
LEMMA ShownStates ==
  ASSUME NEW s \in Seq(Segments), s # << >>, NEW x \in Nat
  PROVE  ShownAt(s, x) \in 0 .. MaxLineWrites
<1> DEFINE later == {i \in 2 .. Len(s) : s[i].startX > x}
           stop == CHOOSE i \in later : \A j \in later : i <= j
<1>1. Len(s) \in Nat \ {0} /\ \A i \in 1 .. Len(s) : s[i].state \in 0 .. MaxLineWrites
  BY SegmentFacts DEF Segments
<1>2. ShownAt(s, x) = IF later = {} THEN s[Len(s)].state ELSE s[stop - 1].state
  BY DEF ShownAt, Last
<1>3. CASE later = {}
  BY <1>1, <1>2, <1>3
<1>4. CASE later # {}
  <2>1. later \in SUBSET Nat /\ \A i \in later : i - 1 \in 1 .. Len(s)
    BY <1>1
  <2>2. PICK least \in later : \A j \in later : least <= j
    <3> HIDE DEF later
    <3> QED
      BY <1>4, <2>1, LeastNumber
  <2>3. stop = least
    <3> HIDE DEF later
    <3> QED
      BY <1>4, <2>1, <2>2, FirstOf
  <2> HIDE DEF stop, later
  <2>4. least - 1 \in 1 .. Len(s)
    BY <2>1
  <2> QED
    BY <1>1, <1>2, <1>4, <2>3, <2>4
<1> QED
  BY <1>3, <1>4

LEMMA PositionMoves ==
  ASSUME LinesTypes, StepPPULine
  PROVE  /\ lineNumber \in Nat /\ lineCycle \in Nat
         /\ lineNumber' = Position[1] /\ lineCycle' = Position[2]
         /\ \/ /\ lineCycle + 1 < DotsPerLine /\ lineNumber' = lineNumber
               /\ lineCycle' = lineCycle + 1
            \/ /\ lineCycle + 1 = DotsPerLine /\ lineNumber + 1 < LinesPerFrame
               /\ lineNumber' = lineNumber + 1 /\ lineCycle' = 0
<1>1. lineNumber \in 0 .. LinesPerFrame - 1 /\ lineCycle \in 0 .. DotsPerLine - 1
  BY DEF LinesTypes
<1>2. <<lineNumber, lineCycle>> # <<LinesPerFrame - 1, DotsPerLine - 1>> /\ StepDot
  BY DEF StepPPULine
<1>3. lineNumber' = Position[1] /\ lineCycle' = Position[2]
  BY <1>2 DEF StepDot
<1>4. lineCycle + 1 < DotsPerLine \/ (lineCycle + 1 = DotsPerLine /\ lineNumber + 1 < LinesPerFrame)
  BY <1>1, <1>2, LineNumbers
<1>5. CASE lineCycle + 1 < DotsPerLine
  <2>1. Position = <<lineNumber, lineCycle + 1>>
    BY <1>1, <1>5, LineNumbers DEF Position
  <2> QED
    BY <1>1, <1>3, <1>5, <2>1
<1>6. CASE lineCycle + 1 = DotsPerLine /\ lineNumber + 1 < LinesPerFrame
  <2>1. Position = <<lineNumber + 1, 0>>
    BY <1>1, <1>6, LineNumbers DEF Position
  <2> QED
    BY <1>1, <1>3, <1>6, <2>1
<1> QED
  BY <1>4, <1>5, <1>6

LEMMA DotKeepsLines == ASSUME LinesInv, StepPPULine PROVE LinesInv'
<1>0. LinesTypes /\ WritesCounted /\ LinesFollow /\ PictureFollows
  BY DEF LinesInv
<1>1. /\ lineNumber \in Nat /\ lineCycle \in Nat
      /\ \/ /\ lineCycle + 1 < DotsPerLine /\ lineNumber' = lineNumber
            /\ lineCycle' = lineCycle + 1
         \/ /\ lineCycle + 1 = DotsPerLine /\ lineNumber + 1 < LinesPerFrame
            /\ lineNumber' = lineNumber + 1 /\ lineCycle' = 0
      /\ UNCHANGED <<written, starts, lost>>
  BY <1>0, PositionMoves DEF StepPPULine, StepDot
<1>2. lineNumber' \in 0 .. LinesPerFrame - 1 /\ lineCycle' \in 0 .. DotsPerLine - 1
  BY <1>0, <1>1, LineNumbers DEF LinesTypes
<1>3. /\ lineState \in [PictureLines -> Seq(Segments)] /\ starts \in [PictureLines -> Seq(Nat)]
      /\ begun \in [PictureLines -> 0 .. MaxLineWrites] /\ written \in 0 .. MaxLineWrites
      /\ \A y \in PictureLines : Len(lineState[y]) <= Capacity
      /\ lastFrame \in [PictureLines -> [Columns -> 0 .. MaxLineWrites]] /\ lost \in BOOLEAN
  BY <1>0 DEF LinesTypes
<1>4. \/ /\ lineCycle = 0 /\ lineNumber < PictureHeight
         /\ lineState' = [lineState EXCEPT ![lineNumber] = <<Segment(0, written)>>]
         /\ begun' = [begun EXCEPT ![lineNumber] = written]
         /\ UNCHANGED lastFrame
      \/ /\ lineCycle = 0 /\ lineNumber = VBlankLine
         /\ lineState' = Captured(lineState)
         /\ lastFrame' = RenderFrame(lineState')
         /\ UNCHANGED begun
      \/ /\ lineCycle > 0 \/ lineNumber \notin PictureLines \union {VBlankLine}
         /\ UNCHANGED <<lineState, begun, lastFrame>>
  BY DEF StepPPULine, StepDot
<1>5. /\ Segment(0, written) \in Segments /\ Segment(0, written).startX = 0
      /\ Segment(0, written).state = written
  <2>1. 0 \in 0 .. PictureWidth
    BY LineNumbers
  <2> QED
    BY <1>3, <2>1, SegmentIn
<1> DEFINE one == <<Segment(0, written)>>
<1>6. one \in Seq(Segments) /\ Len(one) = 1 /\ one[1] = Segment(0, written) /\ one # << >>
      /\ 1 <= Capacity
  <2>1. Segment(0, written) \in Segments /\ Capacity \in Nat \ {0}
    BY <1>5, LineNumbers
  <2> QED
    BY <2>1
<1> HIDE DEF one
<1>7. ASSUME NEW y \in PictureLines, ~Captive(y)' PROVE starts'[y] = << >>
  <2>1. ~Captive(y)
    <3>1. y \in Nat
      BY DEF PictureLines
    <3> QED
      BY <1>1, <1>7, <3>1 DEF Captive
  <2> QED
    BY <1>0, <1>1, <2>1 DEF WritesCounted
<1>8. CASE lineCycle = 0 /\ lineNumber < PictureHeight
  <2> DEFINE now == lineNumber
  <2>1. /\ lineState' = [lineState EXCEPT ![now] = one]
        /\ begun' = [begun EXCEPT ![now] = written]
        /\ UNCHANGED lastFrame
        /\ now \in PictureLines /\ lineNumber' = now /\ lineCycle' = 1
    BY <1>1, <1>4, <1>8, LineNumbers DEF PictureLines, one
  <2>2. LinesTypes'
    <3>1. /\ lineState' \in [PictureLines -> Seq(Segments)]
          /\ begun' \in [PictureLines -> 0 .. MaxLineWrites]
          /\ \A y \in PictureLines : Len(lineState'[y]) <= Capacity
      BY <1>3, <1>6, <2>1
    <3> QED
      BY <1>1, <1>2, <1>3, <2>1, <3>1 DEF LinesTypes
  <2>3. starts[now] = << >> /\ Len(starts[now]) = 0
    <3>1. ~Captive(now)
      BY <1>1, <1>8 DEF Captive
    <3> QED
      BY <1>0, <2>1, <3>1 DEF WritesCounted
  <2>4. begun'[now] = written /\ lineState'[now] = one
    BY <1>3, <2>1
  <2>5. WritesCounted'
    <3>1. begun'[lineNumber'] + Len(starts'[lineNumber']) = written'
      BY <1>1, <1>3, <2>1, <2>3, <2>4, LineNumbers
    <3> QED
      BY <1>7, <3>1 DEF WritesCounted
  <2>6. ~Drawn /\ ~Drawn'
    BY <1>1, <1>8, <2>1, LineNumbers DEF Drawn
  <2>7. Follows(one, << >>, written)
    <3>1. Len(<< >>) = 0 /\ Capacity \in Nat \ {0} /\ written \in Nat
      BY <1>3, LineNumbers
    <3>2. WritesKept(one, << >>, written)
      <4>1. \A j \in 2 .. Len(one) : FALSE
        BY <1>6
      <4> QED
        BY <1>5, <1>6, <3>1, <4>1 DEF WritesKept
    <3>3. one[Len(one)].state = written + Len(<< >>)
      BY <1>5, <1>6, <3>1
    <3>4. \A j \in 2 .. Len(one) : FALSE
      BY <1>6
    <3> QED
      BY <1>6, <3>2, <3>3, <3>4 DEF Follows
  <2>8. LinesFollow'
    <3>1. SUFFICES ASSUME ~lost', NEW y \in PictureLines, Captive(y)'
                   PROVE  Follows(lineState'[y], starts'[y], begun'[y])
      BY DEF LinesFollow
    <3>2. CASE y = now
      BY <1>1, <2>3, <2>4, <2>7, <3>2
    <3>3. CASE y # now
      <4>1. Captive(y)
        BY <1>1, <1>8, <2>1, <3>1, <3>3 DEF Captive, PictureLines
      <4>2. Follows(lineState[y], starts[y], begun[y])
        BY <1>0, <1>1, <2>6, <3>1, <4>1 DEF LinesFollow
      <4>3. lineState'[y] = lineState[y] /\ begun'[y] = begun[y]
        BY <1>3, <2>1, <3>3
      <4> QED
        BY <1>1, <4>2, <4>3
    <3> QED
      BY <3>2, <3>3
  <2>9. PictureFollows'
    BY <2>6 DEF PictureFollows
  <2> QED
    BY <2>2, <2>5, <2>8, <2>9 DEF LinesInv
<1>9. CASE lineCycle = 0 /\ lineNumber = VBlankLine
  <2>1. /\ lineState' = Captured(lineState)
        /\ lastFrame' = RenderFrame(lineState')
        /\ UNCHANGED begun
        /\ lineNumber' = lineNumber /\ lineCycle' = 1 /\ ~(lineNumber < PictureHeight)
    BY <1>1, <1>4, <1>9, LineNumbers DEF PictureLines
  <2>2. /\ lineState' \in [PictureLines -> Seq(Segments)]
        /\ \A y \in PictureLines :
             /\ Len(lineState'[y]) <= Capacity /\ lineState'[y] # << >>
             /\ lineState[y] # << >> => lineState'[y] = lineState[y]
    <3>1. lineState' = [y \in PictureLines |-> IF lineState[y] = << >> THEN one ELSE lineState[y]]
      BY <2>1 DEF Captured, one
    <3> QED
      BY <1>3, <1>6, <3>1
  <2>3. \A x \in Columns : x \in Nat
    BY LineNumbers DEF Columns
  <2>4. /\ lastFrame' \in [PictureLines -> [Columns -> 0 .. MaxLineWrites]]
        /\ \A y \in PictureLines : \A x \in Columns : lastFrame'[y][x] = ShownAt(lineState'[y], x)
    <3>1. ASSUME NEW y \in PictureLines, NEW x \in Columns
          PROVE  ShownAt(lineState'[y], x) \in 0 .. MaxLineWrites
      <4>1. lineState'[y] \in Seq(Segments) /\ lineState'[y] # << >> /\ x \in Nat
        BY <2>2, <2>3
      <4> QED
        BY <4>1, ShownStates
    <3>2. lastFrame' = [y \in PictureLines |-> [x \in Columns |-> ShownAt(lineState'[y], x)]]
      BY <2>1 DEF RenderFrame
    <3> QED
      BY <3>1, <3>2
  <2>5. LinesTypes'
    BY <1>1, <1>2, <1>3, <2>1, <2>2, <2>4 DEF LinesTypes
  <2>6. WritesCounted'
    BY <1>7, <2>1 DEF WritesCounted, Drawing
  <2>7. Drawn' /\ ~Drawn
    BY <1>9, <2>1, LineNumbers DEF Drawn
  <2>8. LinesFollow'
    BY <2>7 DEF LinesFollow
  <2>9. PictureFollows'
    <3>1. SUFFICES ASSUME ~lost', NEW y \in PictureLines, NEW x \in Columns,
                          Len(starts[y]) < Capacity \/ Begun(starts[y], x) = Len(starts[y])
                   PROVE  lastFrame'[y][x] = begun[y] + Begun(starts[y], x)
      BY <1>1, <2>1 DEF PictureFollows
    <3>2. Captive(y)
      BY <1>9, LineNumbers DEF Captive, PictureLines
    <3>3. Follows(lineState[y], starts[y], begun[y])
      BY <1>0, <1>1, <2>7, <3>1, <3>2 DEF LinesFollow
    <3>4. lineState'[y] = lineState[y]
      BY <2>2, <3>3 DEF Follows
    <3>5. lineState[y] \in Seq(Segments) /\ starts[y] \in Seq(Nat) /\ begun[y] \in Nat /\ x \in Nat
      BY <1>3, <2>3
    <3>6. ShownAt(lineState[y], x) = begun[y] + Begun(starts[y], x)
      BY <3>1, <3>3, <3>5, FollowsShows
    <3> QED
      BY <2>4, <3>4, <3>6
  <2> QED
    BY <2>5, <2>6, <2>8, <2>9 DEF LinesInv
<1>10. CASE ~(lineCycle = 0 /\ (lineNumber < PictureHeight \/ lineNumber = VBlankLine))
  <2>1. UNCHANGED <<lineState, begun, lastFrame>>
    BY <1>4, <1>10
  <2>2. LinesTypes'
    BY <1>1, <1>2, <1>3, <2>1 DEF LinesTypes
  <2>3. Drawing' => Drawing /\ lineNumber' = lineNumber
    BY <1>1, <1>10, LineNumbers DEF Drawing
  <2>4. WritesCounted'
    BY <1>0, <1>1, <1>7, <2>1, <2>3 DEF WritesCounted
  <2>5. Drawn' = Drawn
    BY <1>1, <1>10, LineNumbers DEF Drawn
  <2>6. \A y \in PictureLines : Captive(y)' => Captive(y)
    <3>1. \A y \in PictureLines : y \in Nat /\ y < PictureHeight
      BY LineNumbers DEF PictureLines
    <3> QED
      BY <1>1, <1>10, <3>1, LineNumbers DEF Captive
  <2>7. LinesFollow'
    BY <1>0, <1>1, <2>1, <2>5, <2>6 DEF LinesFollow
  <2>8. PictureFollows'
    BY <1>0, <1>1, <2>1, <2>5 DEF PictureFollows
  <2> QED
    BY <2>2, <2>4, <2>7, <2>8 DEF LinesInv
<1> QED
  BY <1>8, <1>9, <1>10

LEMMA NextFrameKeeps == ASSUME LinesInv, NextFrame PROVE LinesInv'
<1>0. LinesTypes
  BY DEF LinesInv
<1>1. /\ lineNumber' = 0 /\ lineCycle' = 0 /\ written' = 0 /\ lost' = FALSE
      /\ lineState' = [y \in PictureLines |->
           IF lineState[y] = << >> THEN << >> ELSE <<Segment(0, 0)>>]
      /\ lastFrame' = NoPicture
      /\ starts' = [y \in PictureLines |-> << >>]
      /\ begun' = [y \in PictureLines |-> 0]
  BY DEF NextFrame
<1>2. LinesTypes'
  <2>1. << >> \in Seq(Segments) /\ << >> \in Seq(Nat) /\ Len(<< >>) = 0
    BY EmptySeq
  <2>2. /\ 0 \in 0 .. MaxLineWrites /\ 0 \in 0 .. LinesPerFrame - 1 /\ 0 \in 0 .. DotsPerLine - 1
        /\ 0 \in 0 .. PictureWidth /\ 0 <= Capacity /\ 1 <= Capacity
    BY LineNumbers
  <2>3. NoPicture \in [PictureLines -> [Columns -> 0 .. MaxLineWrites]]
    BY <2>2 DEF NoPicture
  <2>4. Segment(0, 0) \in Segments
    BY <2>2, SegmentIn
  <2> DEFINE one == <<Segment(0, 0)>>
  <2>5. one \in Seq(Segments) /\ Len(one) = 1
    BY <2>4
  <2> HIDE DEF one
  <2>6. lineState' = [y \in PictureLines |-> IF lineState[y] = << >> THEN << >> ELSE one]
    BY <1>1 DEF one
  <2>7. /\ lineState' \in [PictureLines -> Seq(Segments)]
        /\ \A y \in PictureLines : Len(lineState'[y]) <= Capacity
    BY <2>1, <2>2, <2>5, <2>6
  <2> QED
    BY <1>1, <2>1, <2>2, <2>3, <2>7 DEF LinesTypes
<1>3. \A y \in PictureLines : ~Captive(y)'
  BY <1>1 DEF Captive, PictureLines
<1>4. ~Drawing' /\ ~Drawn'
  BY <1>1, LineNumbers DEF Drawing, Drawn
<1>5. \A y \in PictureLines : starts'[y] = << >>
  BY <1>1
<1> QED
  BY <1>2, <1>3, <1>4, <1>5 DEF LinesInv, WritesCounted, LinesFollow, PictureFollows

\* The picture that renderFrame draws once more, from what captureLineState and
\* recordCurrentLineState kept of each line, shows at each pixel the registers as the line
\* began with them and the writes that were to show there, for every size of picture, tile
\* and segment buffer, every delay and every order of writes.
THEOREM PictureIsTheOneDrawn == LinesSpec => []PictureFollowsWrites
<1>1. LinesInit => LinesInv
  BY LinesStart
<1>2. LinesInv /\ [LinesNext]_linesVars => LinesInv'
  <2>1. SUFFICES ASSUME LinesInv, [LinesNext]_linesVars PROVE LinesInv'
    OBVIOUS
  <2>2. CASE UNCHANGED linesVars
    BY <2>1, <2>2 DEF linesVars, LinesInv, LinesTypes, WritesCounted, LinesFollow, PictureFollows,
      Captive, Drawing, Drawn
  <2>3. CASE LinesNext
    BY <2>1, <2>3, RegisterWriteKeeps, HighByteKeeps, DotKeepsLines, NextFrameKeeps DEF LinesNext
  <2> QED
    BY <2>1, <2>2, <2>3
<1>3. LinesInv => PictureFollowsWrites
  BY LinesInvSound
<1> QED
  BY <1>1, <1>2, <1>3, PTL DEF LinesSpec

-----------------------------------------------------------------------------
(* The banks that the windows and slots show.                              *)

LEMMA BoardNumbers ==
  ASSUME board \in Boards
  PROVE  /\ Mapper \in SupportedMappers /\ board.mirroring \in Header
         /\ board.prg \in Nat \ {0} /\ board.prg % 2 = 0
         /\ Mapper \in {1, 66} => board.prg % 4 = 0
         /\ board.chr \in Nat \ {0} /\ board.chr % 8 = 0
<1>1. /\ Mapper \in SupportedMappers /\ board.mirroring \in Header
      /\ board.prg \in Nat \ {0}
      /\ board.prg % (IF Mapper \in {1, 66} THEN 4 ELSE 2) = 0
      /\ board.chr \in Nat \ {0} /\ board.chr % 8 = 0
  BY CartridgeAssumption DEF CartridgeAssumption, Mapper
<1>2. Mapper \notin {1, 66} => board.prg % 2 = 0
  BY <1>1
<1>3. Mapper \in {1, 66} => board.prg % 4 = 0
  BY <1>1
<1>4. board.prg % 4 = 0 => board.prg % 2 = 0
  BY <1>1
<1> QED
  BY <1>1, <1>2, <1>3, <1>4

LEMMA BitPowers ==
  /\ 2 ^ 0 = 1 /\ 2 ^ 1 = 2 /\ 2 ^ 2 = 4 /\ 2 ^ 3 = 8 /\ 2 ^ 4 = 16 /\ 2 ^ 5 = 32
  /\ 2 ^ 6 = 64 /\ 2 ^ 7 = 128
OBVIOUS

LEMMA BitsOfByte ==
  ASSUME NEW v \in Byte
  PROVE  /\ \A i \in 0 .. 7 : Bit(v, i) \in 0 .. 1
         /\ Low(v, 2) \in 0 .. 3 /\ Low(v, 3) \in 0 .. 7 /\ Low(v, 4) \in 0 .. 15
         /\ Low(v, 5) \in 0 .. 31 /\ Low(v, 6) \in 0 .. 63 /\ Low(v, 7) \in 0 .. 127
         /\ Low(v, 2) \in Byte /\ Low(v, 3) \in Byte /\ Low(v, 4) \in Byte
         /\ Low(v, 5) \in Byte /\ Low(v, 6) \in Byte /\ Low(v \div 16, 2) \in Byte
         /\ Even(v) \in Byte /\ Bit(v, 1) \in Byte
<1>1. ASSUME NEW i \in 0 .. 7 PROVE Bit(v, i) \in 0 .. 1
  <2> DEFINE m == 2 ^ i
             q == v \div m
  <2>1. m \in Nat \ {0}
    BY ShiftPowers
  <2> HIDE DEF m
  <2>2. q \in Int
    BY <2>1, DivMod DEF Byte
  <2> HIDE DEF q
  <2>3. q % 2 \in 0 .. 1
    BY <2>2
  <2> QED
    BY <2>3 DEF Bit, q, m
<1>2. /\ Low(v, 2) = v % 4 /\ Low(v, 3) = v % 8 /\ Low(v, 4) = v % 16 /\ Low(v, 5) = v % 32
      /\ Low(v, 6) = v % 64 /\ Low(v, 7) = v % 128 /\ Low(v \div 16, 2) = (v \div 16) % 4
  BY BitPowers DEF Low
<1>3. Even(v) \in Byte
  BY DEF Even, Byte
<1>4. (v \div 16) % 4 \in 0 .. 3
  BY DEF Byte
<1>5. /\ v % 4 \in 0 .. 3 /\ v % 8 \in 0 .. 7 /\ v % 16 \in 0 .. 15 /\ v % 32 \in 0 .. 31
      /\ v % 64 \in 0 .. 63 /\ v % 128 \in 0 .. 127
  BY DEF Byte
<1>6. /\ Low(v, 2) \in 0 .. 3 /\ Low(v, 3) \in 0 .. 7 /\ Low(v, 4) \in 0 .. 15
      /\ Low(v, 5) \in 0 .. 31 /\ Low(v, 6) \in 0 .. 63 /\ Low(v, 7) \in 0 .. 127
      /\ Low(v \div 16, 2) \in 0 .. 3
  BY <1>2, <1>4, <1>5
<1>7. Bit(v, 1) \in 0 .. 1
  BY <1>1
<1>8. /\ Low(v, 2) \in Byte /\ Low(v, 3) \in Byte /\ Low(v, 4) \in Byte
      /\ Low(v, 5) \in Byte /\ Low(v, 6) \in Byte /\ Low(v \div 16, 2) \in Byte
      /\ Bit(v, 1) \in Byte
  BY <1>6, <1>7 DEF Byte
<1> QED
  BY <1>1, <1>3, <1>6, <1>8

\* The registers, the port and the bounds of the counter that its values do not show.
BankTypes ==
  /\ board \in Boards
  /\ select \in Byte /\ modes \in [prg : 0 .. 3, chr : 0 .. 3, upper : 0 .. 3]
  /\ prg \in [0 .. 4 -> Byte] /\ chr \in [0 .. 15 -> Byte]
  /\ shift \in 1 .. 31 /\ bits \in Seq(0 .. 1)
  /\ mirroring \in Header \union {"one-screen low", "one-screen high"}
  /\ Mapper \notin VRC => irq.prescaler = 0
  /\ inFrame \in BOOLEAN /\ bankWrites \in 0 .. MaxBankWrites

BankInv == IRQInv /\ BankTypes

LEMMA BanksStart == Init => BankTypes
<1> SUFFICES ASSUME Init PROVE BankTypes
  OBVIOUS
<1>1. board \in Boards /\ board.prg \in Nat \ {0} /\ board.mirroring \in Header
  BY BoardNumbers DEF Init
<1>2. (board.prg - 1) % 256 \in Byte /\ (board.prg - 2) % 256 \in Byte
  <2>1. \A x \in Int : x % 256 \in Byte
    BY DEF Byte
  <2>2. board.prg - 1 \in Int /\ board.prg - 2 \in Int
    BY <1>1
  <2> QED
    BY <2>1, <2>2
<1>3. Zero(5) \in [0 .. 4 -> Byte] /\ Zero(16) \in [0 .. 15 -> Byte]
  BY DEF Zero, Byte
<1>4. prg \in [0 .. 4 -> Byte]
  <2> DEFINE a == [Zero(5) EXCEPT ![4] = (board.prg - 1) % 256]
             b == [Zero(5) EXCEPT ![1] = 1, ![2] = (board.prg - 2) % 256]
             c == [Zero(5) EXCEPT ![1] = 1]
  <2>1. 1 \in Byte
    BY DEF Byte
  <2>2. /\ a \in [0 .. 4 -> Byte] /\ b \in [0 .. 4 -> Byte] /\ c \in [0 .. 4 -> Byte]
        /\ Zero(5) \in [0 .. 4 -> Byte]
    BY <1>2, <1>3, <2>1
  <2>3. prg = CASE Mapper = 5 -> a [] Mapper = 75 -> b [] Mapper \in VRC -> c
                [] OTHER -> Zero(5)
    BY DEF Init
  <2> HIDE DEF a, b, c
  <2>4. prg \in {a, b, c, Zero(5)}
    BY <2>3
  <2> QED
    BY <2>2, <2>4
<1>5. Mapper \notin VRC => irq.prescaler = 0
  BY DEF Init
<1>6. MaxBankWrites \in Nat
  BY CartridgeAssumption DEF CartridgeAssumption
<1>7. select \in Byte /\ modes \in [prg : 0 .. 3, chr : 0 .. 3, upper : 0 .. 3]
  <2>1. (select = 12 \/ select = 0) /\ modes = [prg |-> IF Mapper = 5 THEN 3 ELSE 0,
                                               chr |-> 0, upper |-> 0]
    BY DEF Init
  <2> QED
    BY <2>1 DEF Byte
<1>8. chr \in [0 .. 15 -> Byte]
  BY <1>3 DEF Init
<1>9. shift \in 1 .. 31 /\ bits \in Seq(0 .. 1) /\ inFrame \in BOOLEAN
  <2>1. shift = 16 /\ bits = <<>> /\ inFrame = FALSE
    BY DEF Init
  <2>2. <<>> \in Seq(0 .. 1)
    OBVIOUS
  <2>3. shift \in 1 .. 31
    BY <2>1
  <2> QED
    BY <2>1, <2>2, <2>3, Zenon
<1>10. mirroring \in Header \union {"one-screen low", "one-screen high"}
  BY <1>1 DEF Init
<1>11. bankWrites \in 0 .. MaxBankWrites
  <2>1. bankWrites = 0
    BY DEF Init
  <2> QED
    BY <1>6, <2>1
<1> QED
  BY <1>1, <1>4, <1>5, <1>7, <1>8, <1>9, <1>10, <1>11 DEF BankTypes

LEMMA AndOfBytes ==
  ASSUME NEW v \in Byte, NEW w \in Byte PROVE And(v, w) \in Byte
<1>1. \A i \in 0 .. 7 : Bit(v, i) \in 0 .. 1 /\ Bit(w, i) \in 0 .. 1
  BY BitsOfByte
<1> DEFINE b(i) == Bit(v, i) * Bit(w, i)
<1>2. \A i \in 0 .. 7 : b(i) \in 0 .. 1
  BY <1>1
<1>3. And(v, w) = b(0) * 1 + b(1) * 2 + b(2) * 4 + b(3) * 8 + b(4) * 16 + b(5) * 32
                  + b(6) * 64 + b(7) * 128
  BY BitPowers DEF And
<1> HIDE DEF b
<1>4. /\ b(0) \in 0 .. 1 /\ b(1) \in 0 .. 1 /\ b(2) \in 0 .. 1 /\ b(3) \in 0 .. 1
      /\ b(4) \in 0 .. 1 /\ b(5) \in 0 .. 1 /\ b(6) \in 0 .. 1 /\ b(7) \in 0 .. 1
  BY <1>2
<1> QED
  BY <1>3, <1>4 DEF Byte

\* Registers of a board that a write to a bank may change.
Registers ==
  /\ select \in Byte /\ modes \in [prg : 0 .. 3, chr : 0 .. 3, upper : 0 .. 3]
  /\ prg \in [0 .. 4 -> Byte] /\ chr \in [0 .. 15 -> Byte]
  /\ mirroring \in Header \union {"one-screen low", "one-screen high"}

LEMMA RegisterWrites ==
  ASSUME Registers
  PROVE  /\ \A i, v : v \in Byte /\ SetPRG(i, v) => Registers'
         /\ \A i, v : v \in Byte /\ SetCHR(i, v) => Registers'
         /\ \A v \in Byte : SetSelect(v) => Registers'
         /\ \A m \in Header \union {"one-screen low", "one-screen high"} :
              SetMirroring(m) => Registers'
         /\ \A m \in [prg : 0 .. 3, chr : 0 .. 3, upper : 0 .. 3] : SetModes(m) => Registers'
<1>1. ASSUME NEW i, NEW v \in Byte, SetPRG(i, v) PROVE Registers'
  <2>1. prg' = [prg EXCEPT ![i] = v]
    BY <1>1 DEF SetPRG
  <2>2. prg' \in [0 .. 4 -> Byte]
    BY <2>1 DEF Registers
  <2> QED
    BY <1>1, <2>2 DEF SetPRG, Registers
<1>2. ASSUME NEW i, NEW v \in Byte, SetCHR(i, v) PROVE Registers'
  <2>1. chr' = [chr EXCEPT ![i] = v]
    BY <1>2 DEF SetCHR
  <2>2. chr' \in [0 .. 15 -> Byte]
    BY <2>1 DEF Registers
  <2> QED
    BY <1>2, <2>2 DEF SetCHR, Registers
<1>3. ASSUME NEW v \in Byte, SetSelect(v) PROVE Registers'
  BY <1>3 DEF SetSelect, Registers
<1>4. ASSUME NEW m \in Header \union {"one-screen low", "one-screen high"}, SetMirroring(m)
      PROVE  Registers'
  BY <1>4 DEF SetMirroring, Registers
<1>5. ASSUME NEW m \in [prg : 0 .. 3, chr : 0 .. 3, upper : 0 .. 3], SetModes(m)
      PROVE  Registers'
  BY <1>5 DEF SetModes, Registers
<1> QED
  BY <1>1, <1>2, <1>3, <1>4, <1>5

LEMMA MirroringsNamed ==
  /\ \A v : Arrangement(v) \in Header
  /\ \A v \in Byte : VRCMirroring(v) \in Header \union {"one-screen low", "one-screen high"}
  /\ \A v \in Byte : MMC1Mirroring(v) \in Header \union {"one-screen low", "one-screen high"}
<1>1. \A v : Arrangement(v) \in Header
  BY DEF Arrangement, Header
<1>2. ASSUME NEW v \in Byte
      PROVE  /\ VRCMirroring(v) \in Header \union {"one-screen low", "one-screen high"}
             /\ MMC1Mirroring(v) \in Header \union {"one-screen low", "one-screen high"}
  <2>1. Low(v, 2) = 0 \/ Low(v, 2) = 1 \/ Low(v, 2) = 2 \/ Low(v, 2) = 3
    BY BitsOfByte
  <2> QED
    BY <2>1 DEF VRCMirroring, MMC1Mirroring, Header
<1> QED
  BY <1>1, <1>2

BankRegisterWrite ==
  \/ WriteOneRegister \/ WriteMapper33 \/ WriteMapper75
  \/ WriteMMC3Banks \/ WriteVRCBanks \/ WriteMMC5Banks

LEMMA BytesAreBytes == \A v \in Bytes : v \in Byte
BY CartridgeAssumption DEF CartridgeAssumption

\* Every write to a register leaves a byte in it.
LEMMA WritesKeepRegisters == ASSUME Registers, BankRegisterWrite PROVE Registers'
<1>1. CASE WriteOneRegister
  <2> PICK v \in Bytes :
       \/ Mapper = 2 /\ SetPRG(0, Low(v, 4))
       \/ Mapper = 3 /\ \E rom \in Bytes : SetCHR(0, And(v, rom))
       \/ /\ Mapper = 66
          /\ prg' = [prg EXCEPT ![0] = Low(v \div 16, 2)]
          /\ chr' = [chr EXCEPT ![0] = Low(v, 2)]
          /\ UNCHANGED <<select, modes, mirroring>>
       \/ Mapper = 87 /\ SetCHR(0, 2 * Bit(v, 0) + Bit(v, 1))
    BY <1>1 DEF WriteOneRegister
  <2>1. v \in Byte
    BY BytesAreBytes
  <2>2. Low(v, 4) \in Byte /\ Low(v \div 16, 2) \in Byte /\ Low(v, 2) \in Byte
    BY <2>1, BitsOfByte
  <2>3. 2 * Bit(v, 0) + Bit(v, 1) \in Byte
    <3>1. Bit(v, 0) \in 0 .. 1 /\ Bit(v, 1) \in 0 .. 1
      BY <2>1, BitsOfByte
    <3> QED
      BY <3>1 DEF Byte
  <2>4. CASE SetPRG(0, Low(v, 4))
    BY <2>2, <2>4, RegisterWrites
  <2>5. ASSUME NEW rom \in Bytes, SetCHR(0, And(v, rom)) PROVE Registers'
    <3>1. And(v, rom) \in Byte
      BY <2>1, BytesAreBytes, AndOfBytes
    <3> QED
      BY <2>5, <3>1, RegisterWrites
  <2>6. CASE /\ prg' = [prg EXCEPT ![0] = Low(v \div 16, 2)]
             /\ chr' = [chr EXCEPT ![0] = Low(v, 2)]
             /\ UNCHANGED <<select, modes, mirroring>>
    <3>1. prg' \in [0 .. 4 -> Byte] /\ chr' \in [0 .. 15 -> Byte]
      BY <2>2, <2>6 DEF Registers
    <3> QED
      BY <2>6, <3>1 DEF Registers
  <2>7. CASE SetCHR(0, 2 * Bit(v, 0) + Bit(v, 1))
    BY <2>3, <2>7, RegisterWrites
  <2> QED
    BY <2>4, <2>5, <2>6, <2>7
<1>2. CASE WriteMapper33
  <2> PICK v \in Bytes :
       \/ /\ prg' = [prg EXCEPT ![0] = Low(v, 6)]
          /\ mirroring' = Arrangement(Bit(v, 6))
          /\ UNCHANGED <<select, modes, chr>>
       \/ SetPRG(1, Low(v, 6))
       \/ \E i \in 0 .. 1 : SetCHR(i, Even(v))
       \/ \E i \in 2 .. 5 : SetCHR(i, v)
    BY <1>2 DEF WriteMapper33
  <2>1. v \in Byte /\ Low(v, 6) \in Byte /\ Even(v) \in Byte
    BY BytesAreBytes, BitsOfByte
  <2>2. CASE /\ prg' = [prg EXCEPT ![0] = Low(v, 6)]
             /\ mirroring' = Arrangement(Bit(v, 6))
             /\ UNCHANGED <<select, modes, chr>>
    <3>1. prg' \in [0 .. 4 -> Byte] /\ mirroring' \in Header
      BY <2>1, <2>2, MirroringsNamed DEF Registers
    <3> QED
      BY <2>2, <3>1 DEF Registers
  <2>3. CASE SetPRG(1, Low(v, 6))
    BY <2>1, <2>3, RegisterWrites
  <2>4. ASSUME NEW i \in 0 .. 1, SetCHR(i, Even(v)) PROVE Registers'
    BY <2>1, <2>4, RegisterWrites
  <2>5. ASSUME NEW i \in 2 .. 5, SetCHR(i, v) PROVE Registers'
    BY <2>1, <2>5, RegisterWrites
  <2> QED
    BY <2>2, <2>3, <2>4, <2>5
<1>3. CASE WriteMapper75
  <2> PICK v \in Bytes :
       \/ \E i \in 0 .. 2 : SetPRG(i, Low(v, 4))
       \/ /\ chr' = [chr EXCEPT ![0] = Low(@, 4) + 16 * Bit(v, 1),
                                ![1] = Low(@, 4) + 16 * Bit(v, 2)]
          /\ mirroring' = Arrangement(v)
          /\ UNCHANGED <<select, modes, prg>>
       \/ \E i \in 0 .. 1 : SetCHR(i, 16 * Bit(chr[i], 4) + Low(v, 4))
    BY <1>3 DEF WriteMapper75
  <2>1. v \in Byte /\ Low(v, 4) \in 0 .. 15 /\ Bit(v, 1) \in 0 .. 1 /\ Bit(v, 2) \in 0 .. 1
    BY BytesAreBytes, BitsOfByte
  <2>2. \A i \in 0 .. 1 : Low(chr[i], 4) \in 0 .. 15 /\ Bit(chr[i], 4) \in 0 .. 1
    <3>1. \A i \in 0 .. 15 : chr[i] \in Byte
      BY DEF Registers
    <3>2. \A i \in 0 .. 1 : i \in 0 .. 15
      OBVIOUS
    <3> QED
      BY <3>1, <3>2, BitsOfByte
  <2>3. ASSUME NEW i \in 0 .. 2, SetPRG(i, Low(v, 4)) PROVE Registers'
    <3>1. Low(v, 4) \in Byte
      BY <2>1 DEF Byte
    <3> QED
      BY <2>3, <3>1, RegisterWrites
  <2>4. CASE /\ chr' = [chr EXCEPT ![0] = Low(@, 4) + 16 * Bit(v, 1),
                                   ![1] = Low(@, 4) + 16 * Bit(v, 2)]
             /\ mirroring' = Arrangement(v)
             /\ UNCHANGED <<select, modes, prg>>
    <3> DEFINE a == Low(chr[0], 4) + 16 * Bit(v, 1)
               b == Low(chr[1], 4) + 16 * Bit(v, 2)
    <3>1. a \in Byte /\ b \in Byte
      BY <2>1, <2>2 DEF Byte
    <3>2. chr' = [chr EXCEPT ![0] = a, ![1] = b]
      BY <2>4 DEF Registers
    <3> HIDE DEF a, b
    <3>3. chr' \in [0 .. 15 -> Byte]
      BY <3>1, <3>2 DEF Registers
    <3>4. mirroring' \in Header
      BY <2>4, MirroringsNamed
    <3> QED
      BY <2>4, <3>3, <3>4 DEF Registers
  <2>5. ASSUME NEW i \in 0 .. 1, SetCHR(i, 16 * Bit(chr[i], 4) + Low(v, 4)) PROVE Registers'
    <3>1. 16 * Bit(chr[i], 4) + Low(v, 4) \in Byte
      BY <2>1, <2>2 DEF Byte
    <3> QED
      BY <2>5, <3>1, RegisterWrites
  <2> QED
    BY <2>3, <2>4, <2>5
<1>4. CASE WriteMMC3Banks
  <2> PICK v \in Bytes :
       \/ SetSelect(IF Mapper = 4 THEN v ELSE Low(v, 3))
       \/ SelectedRegister(v)
       \/ Mapper = 4 /\ SetMirroring(Arrangement(v))
    BY <1>4 DEF WriteMMC3Banks
  <2>1. v \in Byte /\ Low(v, 3) \in Byte /\ Low(select, 3) \in 0 .. 7
    BY BytesAreBytes, BitsOfByte DEF Registers
  <2>2. CASE SetSelect(IF Mapper = 4 THEN v ELSE Low(v, 3))
    BY <2>1, <2>2, RegisterWrites
  <2>3. CASE SelectedRegister(v)
    <3>1. SetCHR(Low(select, 3), v) \/ SetPRG(Low(select, 3) - 6, v)
      BY <2>3 DEF SelectedRegister
    <3> QED
      BY <2>1, <3>1, RegisterWrites
  <2>4. CASE SetMirroring(Arrangement(v))
    BY <2>4, MirroringsNamed, RegisterWrites
  <2> QED
    BY <2>2, <2>3, <2>4
<1>5. CASE WriteVRCBanks
  <2> PICK v \in Bytes :
       \/ \E i \in 0 .. 1 : SetPRG(i, Low(v, 5))
       \/ /\ mirroring' = VRCMirroring(v)
          /\ select' = Bit(v, 1)
          /\ UNCHANGED <<modes, prg, chr>>
       \/ \E s \in 0 .. 7 : SetCHR(s, Low(v, 4))
       \/ \E s \in 0 .. 7 : SetCHR(s + 8, Low(v, 5))
    BY <1>5 DEF WriteVRCBanks
  <2>1. v \in Byte /\ Low(v, 5) \in Byte /\ Low(v, 4) \in Byte /\ Bit(v, 1) \in Byte
    BY BytesAreBytes, BitsOfByte
  <2>2. ASSUME NEW i \in 0 .. 1, SetPRG(i, Low(v, 5)) PROVE Registers'
    BY <2>1, <2>2, RegisterWrites
  <2>3. CASE /\ mirroring' = VRCMirroring(v)
             /\ select' = Bit(v, 1)
             /\ UNCHANGED <<modes, prg, chr>>
    <3>1. mirroring' \in Header \union {"one-screen low", "one-screen high"}
      BY <2>1, <2>3, MirroringsNamed
    <3> QED
      BY <2>1, <2>3, <3>1 DEF Registers
  <2>4. ASSUME NEW s \in 0 .. 7, SetCHR(s, Low(v, 4)) PROVE Registers'
    BY <2>1, <2>4, RegisterWrites
  <2>5. ASSUME NEW s \in 0 .. 7, SetCHR(s + 8, Low(v, 5)) PROVE Registers'
    BY <2>1, <2>5, RegisterWrites
  <2> QED
    BY <2>2, <2>3, <2>4, <2>5
<1>6. CASE WriteMMC5Banks
  <2> PICK v \in Bytes :
       \/ SetModes([modes EXCEPT !.prg = Low(v, 2)])
       \/ SetModes([modes EXCEPT !.chr = Low(v, 2)])
       \/ SetModes([modes EXCEPT !.upper = Low(v, 2)])
       \/ \E i \in 0 .. 4 : SetPRG(i, v)
       \/ \E i \in 0 .. 11 : SetCHR(i, v)
       \/ SetMirroring(VRCMirroring(v))
    BY <1>6 DEF WriteMMC5Banks
  <2>1. v \in Byte /\ Low(v, 2) \in 0 .. 3
    BY BytesAreBytes, BitsOfByte
  <2>2. modes \in [prg : 0 .. 3, chr : 0 .. 3, upper : 0 .. 3]
    BY DEF Registers
  <2>3. \/ modes' = [modes EXCEPT !.prg = Low(v, 2)]
        \/ modes' = [modes EXCEPT !.chr = Low(v, 2)]
        \/ modes' = [modes EXCEPT !.upper = Low(v, 2)]
        => modes' \in [prg : 0 .. 3, chr : 0 .. 3, upper : 0 .. 3]
    BY <2>1, <2>2
  <2>4. CASE \/ SetModes([modes EXCEPT !.prg = Low(v, 2)])
             \/ SetModes([modes EXCEPT !.chr = Low(v, 2)])
             \/ SetModes([modes EXCEPT !.upper = Low(v, 2)])
    BY <2>3, <2>4 DEF SetModes, Registers
  <2>5. ASSUME NEW i \in 0 .. 4, SetPRG(i, v) PROVE Registers'
    BY <2>1, <2>5, RegisterWrites
  <2>6. ASSUME NEW i \in 0 .. 11, SetCHR(i, v) PROVE Registers'
    BY <2>1, <2>6, RegisterWrites
  <2>7. CASE SetMirroring(VRCMirroring(v))
    BY <2>1, <2>7, MirroringsNamed, RegisterWrites
  <2> QED
    BY <2>4, <2>5, <2>6, <2>7
<1> QED
  BY <1>1, <1>2, <1>3, <1>4, <1>5, <1>6 DEF BankRegisterWrite

LEMMA PortWrites ==
  ASSUME shift \in 1 .. 31, bits \in Seq(0 .. 1), NEW b \in 0 .. 1
  PROVE  /\ Shifted(b) \in 0 .. 31
         /\ shift % 2 = 0 => Shifted(b) \in 1 .. 31
         /\ Append(bits, b) \in Seq(0 .. 1)
<1>1. Append(bits, b) \in Seq(0 .. 1)
  OBVIOUS
<1>2. shift \div 2 \in 0 .. 15 /\ (shift % 2 = 0 => shift \div 2 \in 1 .. 15)
  OBVIOUS
<1> QED
  BY <1>1, <1>2 DEF Shifted

\* The control register that a reset of the port leaves.
LEMMA ControlAfterReset ==
  ASSUME select \in Byte PROVE 16 * Bit(select, 4) + 12 + Low(select, 2) \in Byte
<1>1. Bit(select, 4) \in 0 .. 1 /\ Low(select, 2) \in 0 .. 3
  BY BitsOfByte
<1> QED
  BY <1>1 DEF Byte

LEMMA BanksKeep == BankInv /\ [Next]_vars => BankTypes'
<1> SUFFICES ASSUME BankInv, [Next]_vars PROVE BankTypes'
  OBVIOUS
<1>0. Registers /\ BankTypes
  BY DEF BankInv, BankTypes, Registers
<1>1. CASE UNCHANGED vars
  BY <1>0, <1>1 DEF BankTypes, vars, bankVars, serialVars, irqVars, Mapper
<1>2. CASE BankRegisterWrite
  <2>1. BankWrite
    BY <1>2 DEF BankRegisterWrite, WriteOneRegister, WriteMapper33, WriteMapper75,
       WriteMMC3Banks, WriteVRCBanks, WriteMMC5Banks
  <2>2. bankWrites' \in 0 .. MaxBankWrites
    <3>1. bankWrites \in 0 .. MaxBankWrites /\ MaxBankWrites \in Nat
      BY <1>0, CartridgeAssumption DEF BankTypes, CartridgeAssumption
    <3> QED
      BY <2>1, <3>1 DEF BankWrite
  <2>3. Registers'
    BY <1>0, <1>2, WritesKeepRegisters
  <2>4. UNCHANGED <<board, shift, bits, irq, inFrame>>
    BY <2>1 DEF BankWrite, serialVars, irqVars
  <2> QED
    BY <1>0, <2>2, <2>3, <2>4 DEF BankTypes, Registers, Mapper
<1>3. CASE MMC1Reset
  <2>1. /\ UNCHANGED <<board, modes, prg, chr, bankWrites, irq, inFrame>>
        /\ shift' = 16 /\ bits' = <<>>
        /\ select' = 16 * Bit(select, 4) + 12 + Low(select, 2)
        /\ mirroring' = MMC1Mirroring(select')
    BY <1>3 DEF MMC1Reset, irqVars
  <2>2. select' \in Byte
    BY <1>0, <2>1, ControlAfterReset DEF BankTypes
  <2>3. mirroring' \in Header \union {"one-screen low", "one-screen high"}
    BY <2>1, <2>2, MirroringsNamed
  <2>4. shift' \in 1 .. 31 /\ bits' \in Seq(0 .. 1)
    BY <2>1
  <2> QED
    BY <1>0, <2>1, <2>2, <2>3, <2>4 DEF BankTypes, Mapper
<1>4. ASSUME NEW b \in 0 .. 1, MMC1Bit(b) PROVE BankTypes'
  <2>1. /\ UNCHANGED <<board, select, modes, prg, chr, mirroring, bankWrites, irq, inFrame>>
        /\ shift % 2 = 0 /\ shift' = Shifted(b) /\ bits' = Append(bits, b)
    BY <1>4 DEF MMC1Bit, bankVars, irqVars
  <2>2. shift' \in 1 .. 31 /\ bits' \in Seq(0 .. 1)
    BY <1>0, <2>1, PortWrites DEF BankTypes
  <2> QED
    BY <1>0, <2>1, <2>2 DEF BankTypes, Mapper
<1>5. ASSUME NEW b \in 0 .. 1, NEW r \in 0 .. 3, MMC1Load(r, b) PROVE BankTypes'
  <2> DEFINE v == Shifted(b)
  <2>1. /\ UNCHANGED <<board, modes, irq, inFrame>>
        /\ shift' = 16 /\ bits' = <<>>
        /\ bankWrites < MaxBankWrites /\ bankWrites' = bankWrites + 1
    BY <1>5 DEF MMC1Load, irqVars
  <2>2. v \in 0 .. 31
    BY <1>0, PortWrites DEF BankTypes
  <2>3. v \in Byte /\ Low(v, 4) \in Byte
    <3>1. v \in Byte
      BY <2>2 DEF Byte
    <3> QED
      BY <3>1, BitsOfByte
  <2>4. /\ select' \in Byte /\ prg' \in [0 .. 4 -> Byte] /\ chr' \in [0 .. 15 -> Byte]
        /\ mirroring' \in Header \union {"one-screen low", "one-screen high"}
    <3> HIDE DEF v
    <3>1. CASE r = 0
      <4>1. select' = v /\ mirroring' = MMC1Mirroring(v) /\ UNCHANGED <<prg, chr>>
        BY <1>5, <3>1 DEF MMC1Load, v
      <4> QED
        BY <1>0, <2>3, <4>1, MirroringsNamed DEF BankTypes
    <3>2. CASE r \in {1, 2}
      <4>1. chr' = [chr EXCEPT ![r - 1] = v] /\ UNCHANGED <<select, prg, mirroring>>
        <5>1. r # 0 /\ r # 3 /\ r \in {1, 2}
          BY <3>2
        <5> QED
          BY <1>5, <5>1, Zenon DEF MMC1Load, v
      <4>2. chr' \in [0 .. 15 -> Byte]
        BY <1>0, <2>3, <4>1 DEF BankTypes
      <4> QED
        BY <1>0, <4>1, <4>2 DEF BankTypes
    <3>3. CASE r = 3
      <4>1. prg' = [prg EXCEPT ![0] = Low(v, 4)] /\ UNCHANGED <<select, chr, mirroring>>
        BY <1>5, <3>3 DEF MMC1Load, v
      <4>2. prg' \in [0 .. 4 -> Byte]
        BY <1>0, <2>3, <4>1 DEF BankTypes
      <4> QED
        BY <1>0, <4>1, <4>2 DEF BankTypes
    <3> QED
      <4>1. r = 0 \/ r \in {1, 2} \/ r = 3
        OBVIOUS
      <4> QED
        BY <3>1, <3>2, <3>3, <4>1
  <2>5. shift' \in 1 .. 31 /\ bits' \in Seq(0 .. 1)
    BY <2>1
  <2>6. bankWrites' \in 0 .. MaxBankWrites
    <3>1. bankWrites \in 0 .. MaxBankWrites /\ MaxBankWrites \in Nat
      BY <1>0, CartridgeAssumption DEF BankTypes, CartridgeAssumption
    <3> QED
      BY <2>1, <3>1
  <2> QED
    BY <1>0, <2>1, <2>4, <2>5, <2>6 DEF BankTypes, Mapper
<1>6. CASE RegisterWrite
  <2>1. UNCHANGED <<board, bankVars, serialVars, inFrame>>
    BY <1>6 DEF RegisterWrite, WriteLatch, MMC3AskReload, MMC3Disable, MMC3Enable, MMC5Enable,
       MMC5Status, VRCControl, VRCAcknowledge, SetIRQ
  <2>2. Mapper \notin VRC => irq'.prescaler = irq.prescaler
    BY <1>6 DEF RegisterWrite, WriteLatch, MMC3AskReload, MMC3Disable, MMC3Enable, MMC5Enable,
       MMC5Status, VRCControl, VRCAcknowledge, SetIRQ, BankInv, IRQInv, IRQTypes
  <2> QED
    BY <1>0, <2>1, <2>2 DEF BankTypes, bankVars, serialVars, Mapper
<1>7. CASE MMC3Line \/ MMC5Line \/ VRCLine \/ PlainLine \/ Reset
  <2>1. UNCHANGED <<board, bankVars, serialVars>>
    BY <1>7 DEF MMC3Line, MMC5Line, VRCLine, PlainLine, Reset
  <2>2. Mapper \notin VRC => irq'.prescaler = irq.prescaler
    BY <1>7 DEF MMC3Line, MMC3Clock, MMC5Line, VRCLine, PlainLine, Reset, BankInv, IRQInv, IRQTypes
  <2>3. inFrame' \in BOOLEAN
    BY <1>0, <1>7 DEF MMC3Line, MMC5Line, VRCLine, PlainLine, Reset, BankTypes
  <2> QED
    BY <1>0, <2>1, <2>2, <2>3 DEF BankTypes, bankVars, serialVars, Mapper
<1>8. CASE Next
  BY <1>2, <1>3, <1>4, <1>5, <1>6, <1>7, <1>8 DEF Next, BankRegisterWrite, RegisterWrite
<1> QED
  BY <1>1, <1>8

LEMMA BankInvTypes == BankInv => TypeOK
<1> SUFFICES ASSUME BankInv PROVE TypeOK
  OBVIOUS
<1>1. irq.prescaler \in IF Mapper \in VRC THEN 1 .. Period ELSE {0}
  <2>1. CASE Mapper \in VRC
    <3>1. irq.prescaler > 0 /\ irq.prescaler \in 0 .. Period
      BY <2>1 DEF BankInv, IRQInv, IRQTypes, CounterInv
    <3> QED
      BY <2>1, <3>1, Numbers
  <2>2. CASE Mapper \notin VRC
    BY <2>2 DEF BankInv, BankTypes
  <2> QED
    BY <2>1, <2>2
<1>2. irq \in [latch : 0 .. CounterTop, counter : 0 .. CounterTop, reload : BOOLEAN,
              enable : BOOLEAN, ack : BOOLEAN,
              prescaler : IF Mapper \in VRC THEN 1 .. Period ELSE {0}, pending : BOOLEAN]
  <2> DEFINE P == IF Mapper \in VRC THEN 1 .. Period ELSE {0}
  <2> HIDE DEF P
  <2>1. irq.prescaler \in P
    BY <1>1 DEF P
  <2>2. irq \in [latch : 0 .. CounterTop, counter : 0 .. CounterTop, reload : BOOLEAN,
              enable : BOOLEAN, ack : BOOLEAN, prescaler : P, pending : BOOLEAN]
    BY <2>1 DEF BankInv, IRQInv, IRQTypes
  <2> QED
    BY <2>2 DEF P
<1> QED
  BY <1>2 DEF BankInv, IRQInv, IRQTypes, BankTypes, TypeOK

\* A bank number cut to the size of the ROM, in units of one, two, four and eight banks.
LEMMA CutToSize ==
  ASSUME NEW m \in Nat \ {0}, NEW v \in Int
  PROVE  /\ v % m \in 0 .. m - 1
         /\ \A w \in 0 .. 1 : 2 * (v % m) + w \in 0 .. 2 * m - 1
         /\ \A w \in 0 .. 3 : 4 * (v % m) + w \in 0 .. 4 * m - 1
         /\ \A w \in 0 .. 7 : 8 * (v % m) + w \in 0 .. 8 * m - 1
<1> DEFINE r == v % m
<1>1. r \in 0 .. m - 1
  BY DivMod
<1> HIDE DEF r
<1>2. /\ r \in 0 .. m - 1
      /\ \A w \in 0 .. 1 : 2 * r + w \in 0 .. 2 * m - 1
      /\ \A w \in 0 .. 3 : 4 * r + w \in 0 .. 4 * m - 1
      /\ \A w \in 0 .. 7 : 8 * r + w \in 0 .. 8 * m - 1
  BY <1>1
<1> QED
  BY <1>2 DEF r

\* Even numbers of banks stay even when they are cut to an even size.
LEMMA EvenCut ==
  ASSUME NEW m \in Nat \ {0}, m % 2 = 0, NEW v \in Nat
  PROVE  Even(v) % m \in 0 .. m - 2
<1> DEFINE e == v - (v % 2)
           q == e \div m
           r == e % m
           h == m \div 2
<1>1. h \in Int /\ m = 2 * h
  OBVIOUS
<1>2. e \in Nat /\ e % 2 = 0
  OBVIOUS
<1> DEFINE g == e \div 2
<1>3. g \in Int /\ e = 2 * g
  BY <1>2
<1> HIDE DEF h, g, e
<1>4. q \in Int /\ r \in 0 .. m - 1 /\ e = m * q + r
  BY <1>3, DivMod
<1> HIDE DEF q, r
<1>5. m * q = 2 * (h * q) /\ h * q \in Int
  BY <1>1, <1>4
<1> DEFINE p == h * q
<1> HIDE DEF p
<1>6. p \in Int /\ m * q = 2 * p
  BY <1>5 DEF p
<1>7. 2 * g = 2 * p + r
  BY <1>3, <1>4, <1>6
<1>8. r # m - 1
  BY <1>1, <1>3, <1>4, <1>6, <1>7
<1>9. r \in 0 .. m - 2
  BY <1>4, <1>8
<1> QED
  BY <1>9 DEF r, e, Even

LEMMA Units ==
  ASSUME NEW n \in Nat \ {0}
  PROVE  /\ n % 2 = 0 => n \div 2 \in Nat \ {0} /\ n = 2 * (n \div 2)
         /\ n % 4 = 0 => /\ n \div 4 \in Nat \ {0} /\ n = 4 * (n \div 4)
                         /\ (n \div 2) % 2 = 0
         /\ n % 8 = 0 => /\ n \div 8 \in Nat \ {0} /\ n = 8 * (n \div 8)
                         /\ n \div 4 \in Nat \ {0} /\ n = 4 * (n \div 4)
<1>1. n % 2 = 0 => n \div 2 \in Nat \ {0} /\ n = 2 * (n \div 2)
  OBVIOUS
<1>2. n % 4 = 0 => n \div 4 \in Nat \ {0} /\ n = 4 * (n \div 4)
  OBVIOUS
<1>3. n % 4 = 0 => (n \div 2) % 2 = 0
  OBVIOUS
<1>4. n % 8 = 0 => n \div 8 \in Nat \ {0} /\ n = 8 * (n \div 8)
  OBVIOUS
<1>5. n % 8 = 0 => n % 4 = 0
  OBVIOUS
<1> QED
  BY <1>1, <1>2, <1>3, <1>4, <1>5

LEMMA SwappedInROM ==
  ASSUME NEW n \in Nat \ {0}, n % 2 = 0, NEW w \in 0 .. 3, NEW swap,
         NEW a \in Nat, NEW b \in Nat
  PROVE  SwappedWindow(n, w, swap, a, b) \in 0 .. n - 1
<1>1. a % n \in 0 .. n - 1 /\ b % n \in 0 .. n - 1
  BY DivMod
<1>2. n - 1 \in 0 .. n - 1 /\ n - 2 \in 0 .. n - 1
  OBVIOUS
<1> DEFINE p == a % n
           q == b % n
<1>3. SwappedWindow(n, w, swap, a, b) =
        CASE w = (IF swap THEN 2 ELSE 0) -> p
          [] w = 1 -> q
          [] w = (IF swap THEN 0 ELSE 2) -> n - 2
          [] w = 3 -> n - 1
  BY DEF SwappedWindow
<1> HIDE DEF p, q
<1>4. w = 0 \/ w = 1 \/ w = 2 \/ w = 3
  OBVIOUS
<1>5. SwappedWindow(n, w, swap, a, b) \in {p, q, n - 2, n - 1}
  BY <1>3, <1>4
<1> QED
  BY <1>1, <1>2, <1>5 DEF p, q

LEMMA MMC5InMemory ==
  ASSUME BankTypes, Mapper = 5, NEW n \in Nat \ {0}, NEW w \in 0 .. 3
  PROVE  LET f == MMC5Window(n, w) IN f.bank \in 0 .. (IF f.rom THEN n ELSE 8) - 1
<1> DEFINE g == MMC5Register(w)
           v == prg[g.at]
           a == ROMBase(v, g.size, n)
           b == RAMBase(v, g.size)
<1>1. g.at \in 0 .. 4 /\ g.size \in {1, 2, 4} /\ g.off \in 0 .. 3
  <2>1. modes.prg = 0 \/ modes.prg = 1 \/ modes.prg = 2 \/ modes.prg = 3
    <3>1. modes \in [prg : 0 .. 3, chr : 0 .. 3, upper : 0 .. 3]
      BY DEF BankTypes
    <3>2. modes.prg \in 0 .. 3
      BY <3>1
    <3> QED
      BY <3>2
  <2>2. CASE modes.prg = 0
    BY <2>2 DEF MMC5Register
  <2>3. CASE modes.prg = 1
    BY <2>3 DEF MMC5Register
  <2>4. CASE modes.prg = 2
    BY <2>4 DEF MMC5Register
  <2>5. CASE modes.prg = 3
    BY <2>5 DEF MMC5Register
  <2> QED
    BY <2>1, <2>2, <2>3, <2>4, <2>5
<1>2. v \in Byte /\ Low(v, 7) \in 0 .. 127 /\ Low(v, 3) \in 0 .. 7
  <2>1. v \in Byte
    BY <1>1 DEF BankTypes
  <2> QED
    BY <2>1, BitsOfByte
<1>3. MMC5Window(n, w) = IF g.at = 4 \/ v >= 128
                         THEN [rom |-> TRUE, bank |-> (a + g.off) % n]
                         ELSE [rom |-> FALSE, bank |-> (b + g.off) % 8]
  BY DEF MMC5Window
<1>4. a \in Int
  <2> DEFINE k == n \div g.size
             d == AtLeastOne(k)
             e == Low(v, 7) \div g.size
  <2>1. g.size \in Nat \ {0}
    BY <1>1
  <2>2. k \in Int /\ k >= 0 /\ e \in Int
    <3>1. CASE g.size = 1
      BY <1>2, <3>1
    <3>2. CASE g.size = 2
      BY <1>2, <3>2
    <3>3. CASE g.size = 4
      BY <1>2, <3>3
    <3> QED
      BY <1>1, <3>1, <3>2, <3>3
  <2> HIDE DEF k, e
  <2>3. d \in Nat \ {0}
    BY <2>2 DEF AtLeastOne
  <2> HIDE DEF d
  <2>4. e % d \in Int
    BY <2>2, <2>3, DivMod
  <2>5. a = (e % d) * g.size
    BY DEF ROMBase, d, e, k
  <2> QED
    BY <2>1, <2>4, <2>5
<1>5. b \in Int
  <2>1. CASE g.size = 1
    BY <1>2, <2>1 DEF RAMBase
  <2>2. CASE g.size = 2
    BY <1>2, <2>2 DEF RAMBase
  <2>3. CASE g.size = 4
    BY <1>2, <2>3 DEF RAMBase
  <2> QED
    BY <1>1, <2>1, <2>2, <2>3
<1>6. (a + g.off) % n \in 0 .. n - 1 /\ (b + g.off) % 8 \in 0 .. 7
  <2> HIDE DEF a, b, g
  <2>1. a + g.off \in Int /\ b + g.off \in Int
    BY <1>1, <1>4, <1>5
  <2>2. (b + g.off) % 8 \in 0 .. 7
    BY <2>1
  <2>3. (a + g.off) % n \in 0 .. n - 1
    BY <2>1, CutToSize
  <2> QED
    BY <2>2, <2>3
<1> HIDE DEF a, b, g, v
<1> QED
  BY <1>3, <1>6

\* The window that each board computes.
LEMMA WindowOfBoard ==
  ASSUME NEW w
  PROVE  /\ Mapper = 1 => PRGWindow(w) = ROM(MMC1Window(board.prg, w))
         /\ Mapper = 2 => PRGWindow(w) = ROM(UxROMWindow(board.prg, w))
         /\ Mapper = 4 => PRGWindow(w) = ROM(SwappedWindow(board.prg, w, Bit(select, 6) = 1,
                                                           Low(prg[0], 6), Low(prg[1], 6)))
         /\ Mapper = 5 => PRGWindow(w) = MMC5Window(board.prg, w)
         /\ Mapper \in VRC =>
              PRGWindow(w) = ROM(SwappedWindow(board.prg, w, select = 1, prg[0], prg[1]))
         /\ Mapper = 33 => PRGWindow(w) = ROM(SwappedWindow(board.prg, w, FALSE, prg[0], prg[1]))
         /\ Mapper = 66 => PRGWindow(w) = ROM(GxROMWindow(board.prg, w))
         /\ Mapper = 75 => PRGWindow(w) = ROM(Mapper75Window(board.prg, w))
         /\ Mapper \in {88, 206} =>
              PRGWindow(w) = ROM(SwappedWindow(board.prg, w, FALSE, Low(prg[0], 6), Low(prg[1], 6)))
         /\ Mapper \notin VRC \union {1, 2, 4, 5, 33, 66, 75, 88, 206} =>
              PRGWindow(w) = ROM(NROMWindow(board.prg, w))
<1> DEFINE n == board.prg
           m == Mapper
           mmc1 == ROM(MMC1Window(n, w))
           uxrom == ROM(UxROMWindow(n, w))
           mmc3 == ROM(SwappedWindow(n, w, Bit(select, 6) = 1, Low(prg[0], 6), Low(prg[1], 6)))
           mmc5 == MMC5Window(n, w)
           vrc == ROM(SwappedWindow(n, w, select = 1, prg[0], prg[1]))
           m33 == ROM(SwappedWindow(n, w, FALSE, prg[0], prg[1]))
           m66 == ROM(GxROMWindow(n, w))
           m75 == ROM(Mapper75Window(n, w))
           m206 == ROM(SwappedWindow(n, w, FALSE, Low(prg[0], 6), Low(prg[1], 6)))
           nrom == ROM(NROMWindow(n, w))
<1>1. PRGWindow(w) = CASE m = 1 -> mmc1 [] m = 2 -> uxrom [] m = 4 -> mmc3 [] m = 5 -> mmc5
                       [] m \in VRC -> vrc [] m = 33 -> m33 [] m = 66 -> m66 [] m = 75 -> m75
                       [] m \in {88, 206} -> m206 [] OTHER -> nrom
  BY Zenon DEF PRGWindow
<1> HIDE DEF m, mmc1, uxrom, mmc3, mmc5, vrc, m33, m66, m75, m206, nrom
<1>2. /\ m = 1 => PRGWindow(w) = mmc1
      /\ m = 2 => PRGWindow(w) = uxrom
      /\ m = 4 => PRGWindow(w) = mmc3
      /\ m = 5 => PRGWindow(w) = mmc5
      /\ m \in VRC => PRGWindow(w) = vrc
      /\ m = 33 => PRGWindow(w) = m33
      /\ m = 66 => PRGWindow(w) = m66
      /\ m = 75 => PRGWindow(w) = m75
      /\ m \in {88, 206} => PRGWindow(w) = m206
      /\ m \notin VRC \union {1, 2, 4, 5, 33, 66, 75, 88, 206} => PRGWindow(w) = nrom
  BY <1>1 DEF VRC
<1> QED
  BY <1>2, Zenon DEF m, mmc1, uxrom, mmc3, mmc5, vrc, m33, m66, m75, m206, nrom

LEMMA SlotOfBoard ==
  ASSUME NEW s, NEW st
  PROVE  /\ Mapper = 1 =>
              /\ CHRSlot(s) = MMC1Slot(board.chr, s)
              /\ SlotOfState(st, s) =
                   IF Bit(st.select, 4) = 0 THEN 8 * (Even(st.chr[0]) % (board.chr \div 8)) + s
                   ELSE IF s < 4 THEN 4 * (st.chr[0] % (board.chr \div 4)) + s
                   ELSE 4 * (st.chr[1] % (board.chr \div 4)) + s - 4
         /\ Mapper = 4 =>
              /\ CHRSlot(s) = MMC3Slot(s) % board.chr
              /\ SlotOfState(st, s) = MMC3StateTable(st)[s + 1] % board.chr
         /\ Mapper = 5 =>
              /\ CHRSlot(s) = MMC5Slot(s) % board.chr
              /\ SlotOfState(st, s) = MMC5State(st, s) % board.chr
         /\ Mapper \in VRC =>
              /\ CHRSlot(s) = VRCSlot(s) % board.chr
              /\ SlotOfState(st, s) = st.vrc[s] % board.chr
         /\ Mapper = 33 =>
              /\ CHRSlot(s) = PairedSlot(s) % board.chr
              /\ SlotOfState(st, s) = Mapper33StateTable(st)[s + 1] % board.chr
         /\ Mapper \in {3, 66, 87} =>
              /\ CHRSlot(s) = 8 * (chr[0] % (board.chr \div 8)) + s
              /\ SlotOfState(st, s) = 8 * (st.chr[0] % (board.chr \div 8)) + s
         /\ Mapper = 75 =>
              /\ CHRSlot(s) = 4 * (chr[s \div 4] % (board.chr \div 4)) + (s % 4)
              /\ SlotOfState(st, s) =
                   IF s < 4 THEN 4 * (st.chr[0] % (board.chr \div 4)) + s
                   ELSE 4 * (st.chr[1] % (board.chr \div 4)) + s - 4
         /\ Mapper \in {88, 206} =>
              /\ CHRSlot(s) = Mapper206Slot(s) % board.chr
              /\ SlotOfState(st, s) = Mapper206StateTable(st)[s + 1] % board.chr
         /\ Mapper \notin VRC \union {1, 3, 4, 5, 33, 66, 75, 87, 88, 206} =>
              CHRSlot(s) = s % board.chr /\ SlotOfState(st, s) = s % board.chr
<1> DEFINE c == board.chr
           m == Mapper
           mmc1 == MMC1Slot(c, s)
           mmc3 == MMC3Slot(s) % c
           mmc5 == MMC5Slot(s) % c
           vrc == VRCSlot(s) % c
           m33 == PairedSlot(s) % c
           one == 8 * (chr[0] % (c \div 8)) + s
           m75 == 4 * (chr[s \div 4] % (c \div 4)) + (s % 4)
           m206 == Mapper206Slot(s) % c
           plain == s % c
           mmc1st == IF Bit(st.select, 4) = 0 THEN 8 * (Even(st.chr[0]) % (c \div 8)) + s
                     ELSE IF s < 4 THEN 4 * (st.chr[0] % (c \div 4)) + s
                     ELSE 4 * (st.chr[1] % (c \div 4)) + s - 4
           mmc3st == MMC3StateTable(st)[s + 1] % c
           mmc5st == MMC5State(st, s) % c
           vrcst == st.vrc[s] % c
           m33st == Mapper33StateTable(st)[s + 1] % c
           onest == 8 * (st.chr[0] % (c \div 8)) + s
           m75st == IF s < 4 THEN 4 * (st.chr[0] % (c \div 4)) + s
                    ELSE 4 * (st.chr[1] % (c \div 4)) + s - 4
           m206st == Mapper206StateTable(st)[s + 1] % c
<1>1. /\ CHRSlot(s) = CASE m = 1 -> mmc1 [] m = 4 -> mmc3 [] m = 5 -> mmc5 [] m \in VRC -> vrc
                        [] m = 33 -> m33 [] m \in {3, 66, 87} -> one [] m = 75 -> m75
                        [] m \in {88, 206} -> m206 [] OTHER -> plain
      /\ SlotOfState(st, s) =
           CASE m = 1 -> mmc1st [] m = 4 -> mmc3st [] m = 5 -> mmc5st [] m \in VRC -> vrcst
             [] m = 33 -> m33st [] m \in {3, 66, 87} -> onest [] m = 75 -> m75st
             [] m \in {88, 206} -> m206st [] OTHER -> plain
  BY Zenon DEF CHRSlot, SlotOfState
<1> HIDE DEF m, mmc1, mmc3, mmc5, vrc, m33, one, m75, m206, plain,
             mmc1st, mmc3st, mmc5st, vrcst, m33st, onest, m75st, m206st
<1>2. /\ m = 1 => CHRSlot(s) = mmc1 /\ SlotOfState(st, s) = mmc1st
      /\ m = 4 => CHRSlot(s) = mmc3 /\ SlotOfState(st, s) = mmc3st
      /\ m = 5 => CHRSlot(s) = mmc5 /\ SlotOfState(st, s) = mmc5st
      /\ m \in VRC => CHRSlot(s) = vrc /\ SlotOfState(st, s) = vrcst
      /\ m = 33 => CHRSlot(s) = m33 /\ SlotOfState(st, s) = m33st
      /\ m \in {3, 66, 87} => CHRSlot(s) = one /\ SlotOfState(st, s) = onest
      /\ m = 75 => CHRSlot(s) = m75 /\ SlotOfState(st, s) = m75st
      /\ m \in {88, 206} => CHRSlot(s) = m206 /\ SlotOfState(st, s) = m206st
      /\ m \notin VRC \union {1, 3, 4, 5, 33, 66, 75, 87, 88, 206} =>
           CHRSlot(s) = plain /\ SlotOfState(st, s) = plain
  BY <1>1 DEF VRC
<1> QED
  BY <1>2, Zenon DEF m, mmc1, mmc3, mmc5, vrc, m33, one, m75, m206, plain,
             mmc1st, mmc3st, mmc5st, vrcst, m33st, onest, m75st, m206st
LEMMA ROMShown ==
  ASSUME NEW w, NEW x, PRGWindow(w) = ROM(x), x \in 0 .. board.prg - 1
  PROVE  LET f == PRGWindow(w) IN f.bank \in 0 .. (IF f.rom THEN board.prg ELSE 8) - 1
BY DEF ROM

LEMMA SwappedShown ==
  ASSUME board.prg \in Nat \ {0}, board.prg % 2 = 0, NEW w \in 0 .. 3, NEW swap,
         NEW a \in Nat, NEW b \in Nat, PRGWindow(w) = ROM(SwappedWindow(board.prg, w, swap, a, b))
  PROVE  LET f == PRGWindow(w) IN f.bank \in 0 .. (IF f.rom THEN board.prg ELSE 8) - 1
<1> DEFINE x == SwappedWindow(board.prg, w, swap, a, b)
<1>1. x \in 0 .. board.prg - 1
  BY SwappedInROM
<1> HIDE DEF x
<1>2. PRGWindow(w) = ROM(x)
  BY DEF x
<1> QED
  BY <1>1, <1>2, ROMShown

LEMMA WindowsInROM ==
  ASSUME BankTypes, NEW w \in 0 .. 3
  PROVE  LET f == PRGWindow(w) IN f.bank \in 0 .. (IF f.rom THEN board.prg ELSE 8) - 1
<1> DEFINE n == board.prg
           h == n \div 2
<1>1. /\ Mapper \in SupportedMappers /\ n \in Nat \ {0} /\ n % 2 = 0
      /\ Mapper \in {1, 66} => n % 4 = 0
  BY BoardNumbers DEF BankTypes
<1>2. h \in Nat \ {0} /\ n = 2 * h
  BY <1>1, Units
<1>3. \A i \in 0 .. 4 : prg[i] \in Byte /\ Low(prg[i], 6) \in Nat
  <2>1. \A i \in 0 .. 4 : prg[i] \in Byte
    BY DEF BankTypes
  <2>2. \A v \in Byte : Low(v, 6) \in 0 .. 63
    BY BitsOfByte
  <2>3. \A v \in Byte : Low(v, 6) \in Nat
    BY <2>2
  <2> QED
    BY <2>1, <2>3
<1>4. \A i \in 0 .. 4 : prg[i] \in Nat
  <2>1. \A v \in Byte : v \in Nat
    BY DEF Byte
  <2> QED
    BY <1>3, <2>1
<1>5. prg[0] \in Nat /\ prg[1] \in Nat /\ Low(prg[0], 6) \in Nat /\ Low(prg[1], 6) \in Nat
  <2>1. 0 \in 0 .. 4 /\ 1 \in 0 .. 4
    OBVIOUS
  <2> QED
    BY <1>3, <1>4, <2>1
<1>6. w = 0 \/ w = 1 \/ w = 2 \/ w = 3
  OBVIOUS
<1> HIDE DEF h
<1>7. prg[0] % h \in 0 .. h - 1
  <2> DEFINE v == prg[0]
  <2>1. v \in Int
    BY <1>5
  <2> HIDE DEF v
  <2>2. v % h \in 0 .. h - 1
    BY <1>2, <2>1, DivMod
  <2> QED
    BY <2>2 DEF v
<1>8. CASE Mapper = 1
  <2>1. PRGWindow(w) = ROM(MMC1Window(n, w))
    BY <1>8, WindowOfBoard
  <2>2. h % 2 = 0
    BY <1>1, <1>8, Units DEF h
  <2>3. Even(prg[0]) % h \in 0 .. h - 2
    BY <1>2, <1>4, <2>2, EvenCut
  <2> DEFINE mode == (select \div 4) % 4
             e == Even(prg[0]) % h
             p == prg[0] % h
  <2>4. mode \in 0 .. 3
    <3>1. select \in Byte
      BY DEF BankTypes
    <3> QED
      BY <3>1 DEF Byte
  <2>5. MMC1Window(n, w) =
          CASE mode < 2 -> 2 * e + w
            [] mode = 2 -> IF w < 2 THEN w ELSE 2 * p + w - 2
            [] mode = 3 -> IF w < 2 THEN 2 * p + w ELSE n - 4 + w
    BY DEF MMC1Window, h
  <2>6. e \in 0 .. h - 2 /\ p \in 0 .. h - 1 /\ h >= 2
    <3>1. e \in 0 .. h - 2 /\ p \in 0 .. h - 1
      BY <1>7, <2>3
    <3> HIDE DEF e, p
    <3> QED
      BY <1>2, <3>1
  <2> HIDE DEF mode, e, p
  <2>7. MMC1Window(n, w) \in 0 .. n - 1
    <3>1. CASE mode < 2
      BY <1>2, <2>5, <2>6, <3>1
    <3>2. CASE mode = 2
      BY <1>2, <2>5, <2>6, <3>2
    <3>3. CASE mode = 3
      BY <1>2, <2>5, <2>6, <3>3
    <3> QED
      BY <2>4, <3>1, <3>2, <3>3
  <2> QED
    BY <2>1, <2>7, ROMShown
<1>9. CASE Mapper = 2
  <2>1. PRGWindow(w) = ROM(UxROMWindow(n, w))
    BY <1>9, WindowOfBoard
  <2> DEFINE p == prg[0] % h
  <2>2. UxROMWindow(n, w) =
          CASE n = 2 -> w % 2
            [] n > 2 /\ w < 2 -> 2 * p + w
            [] n > 2 /\ w >= 2 -> n - 4 + w
    BY DEF UxROMWindow, h
  <2>3. p \in 0 .. h - 1 /\ (n # 2 => n >= 4)
    BY <1>2, <1>7
  <2> HIDE DEF p
  <2>4. UxROMWindow(n, w) \in 0 .. n - 1
    <3>1. CASE n = 2
      BY <2>2, <3>1
    <3>2. CASE n >= 4
      BY <1>2, <2>2, <2>3, <3>2
    <3> QED
      BY <2>3, <3>1, <3>2
  <2> QED
    BY <2>1, <2>4, ROMShown
<1>10. CASE Mapper = 4
  <2>1. PRGWindow(w) = ROM(SwappedWindow(n, w, Bit(select, 6) = 1, Low(prg[0], 6), Low(prg[1], 6)))
    BY <1>10, WindowOfBoard
  <2> QED
    BY <1>1, <1>5, <2>1, SwappedShown
<1>11. CASE Mapper = 5
  <2>1. PRGWindow(w) = MMC5Window(n, w)
    BY <1>11, WindowOfBoard
  <2> QED
    BY <1>1, <1>11, <2>1, MMC5InMemory
<1>12. CASE Mapper \in VRC
  <2>1. PRGWindow(w) = ROM(SwappedWindow(n, w, select = 1, prg[0], prg[1]))
    BY <1>12, WindowOfBoard
  <2> QED
    BY <1>1, <1>5, <2>1, SwappedShown
<1>13. CASE Mapper = 33
  <2>1. PRGWindow(w) = ROM(SwappedWindow(n, w, FALSE, prg[0], prg[1]))
    BY <1>13, WindowOfBoard
  <2> QED
    BY <1>1, <1>5, <2>1, SwappedShown
<1>14. CASE Mapper = 66
  <2>1. PRGWindow(w) = ROM(4 * (prg[0] % (n \div 4)) + w)
    BY <1>14, WindowOfBoard DEF GxROMWindow
  <2>2. n \div 4 \in Nat \ {0} /\ n = 4 * (n \div 4)
    BY <1>1, <1>14, Units
  <2>3. 4 * (prg[0] % (n \div 4)) + w \in 0 .. 4 * (n \div 4) - 1
    <3> DEFINE m == n \div 4
    <3> HIDE DEF m
    <3>1. m \in Nat \ {0} /\ prg[0] \in Int
      BY <1>4, <2>2 DEF m
    <3>2. 4 * (prg[0] % m) + w \in 0 .. 4 * m - 1
      BY <3>1, CutToSize
    <3> QED
      BY <3>2 DEF m
  <2>4. 4 * (prg[0] % (n \div 4)) + w \in 0 .. n - 1
    BY <2>2, <2>3
  <2> QED
    BY <2>1, <2>4, ROMShown
<1>15. CASE Mapper = 75
  <2>1. PRGWindow(w) = ROM(IF w = 3 THEN n - 1 ELSE prg[w] % n)
    BY <1>15, WindowOfBoard DEF Mapper75Window
  <2>2. prg[w] % n \in 0 .. n - 1
    <3>1. w \in 0 .. 4
      OBVIOUS
    <3>2. prg[w] \in Int
      BY <1>4, <3>1
    <3> QED
      BY <1>1, <3>2, DivMod
  <2>3. n - 1 \in 0 .. n - 1
    BY <1>1
  <2> DEFINE x == IF w = 3 THEN n - 1 ELSE prg[w] % n
  <2>4. x \in 0 .. n - 1
    BY <2>2, <2>3
  <2> HIDE DEF x
  <2>5. PRGWindow(w) = ROM(x)
    BY <2>1 DEF x
  <2> QED
    BY <2>4, <2>5, ROMShown
<1>16. CASE Mapper \in {88, 206}
  <2>1. PRGWindow(w) = ROM(SwappedWindow(n, w, FALSE, Low(prg[0], 6), Low(prg[1], 6)))
    BY <1>16, WindowOfBoard
  <2> QED
    BY <1>1, <1>5, <2>1, SwappedShown
<1>17. CASE Mapper \notin VRC \union {1, 2, 4, 5, 33, 66, 75, 88, 206}
  <2> DEFINE x == w % (IF n = 2 THEN 2 ELSE 4)
  <2>1. PRGWindow(w) = ROM(x)
    BY <1>17, WindowOfBoard DEF NROMWindow
  <2>2. x \in 0 .. n - 1
    <3>1. n = 2 \/ n >= 4
      BY <1>2
    <3>2. CASE n = 2
      BY <3>2
    <3>3. CASE n >= 4
      <4>1. x = w % 4
        BY <3>3
      <4>2. w % 4 = w
        OBVIOUS
      <4> HIDE DEF x
      <4> QED
        BY <1>1, <3>3, <4>1, <4>2
    <3> QED
      BY <3>1, <3>2, <3>3
  <2> QED
    <3> HIDE DEF x
    <3> QED
      BY <2>1, <2>2, ROMShown
<1>18. \/ Mapper \in {1, 2, 4, 5, 33, 66, 75} \/ Mapper \in VRC \/ Mapper \in {88, 206}
       \/ Mapper \notin VRC \union {1, 2, 4, 5, 33, 66, 75, 88, 206}
  OBVIOUS
<1> QED
  BY <1>8, <1>9, <1>10, <1>11, <1>12, <1>13, <1>14, <1>15, <1>16, <1>17, <1>18

LEMMA PairedSlots ==
  ASSUME BankTypes
  PROVE  /\ PairedSlot(0) = Even(chr[0]) /\ PairedSlot(1) = Even(chr[0]) + 1
         /\ PairedSlot(2) = Even(chr[1]) /\ PairedSlot(3) = Even(chr[1]) + 1
         /\ PairedSlot(4) = chr[2] /\ PairedSlot(5) = chr[3]
         /\ PairedSlot(6) = chr[4] /\ PairedSlot(7) = chr[5]
         /\ Even(chr[0]) \in Int /\ Even(chr[1]) \in Int
         /\ chr[2] \in Int /\ chr[3] \in Int /\ chr[4] \in Int /\ chr[5] \in Int
<1> DEFINE a == Even(chr[0])
           b == Even(chr[1])
<1>1. \A i \in 0 .. 15 : chr[i] \in Byte
  BY DEF BankTypes
<1>2. /\ chr[0] \in Byte /\ chr[1] \in Byte /\ chr[2] \in Byte /\ chr[3] \in Byte
      /\ chr[4] \in Byte /\ chr[5] \in Byte
  BY <1>1
<1>3. a \in Byte /\ b \in Byte
  BY <1>2, BitsOfByte
<1>4. \A v \in Byte : v \in Int
  BY DEF Byte
<1>5. \A t \in 0 .. 7 : PairedSlot(t) = CASE t < 2 -> a + t
                                          [] t \in 2 .. 3 -> b + t - 2
                                          [] t > 3 -> chr[t - 2]
  BY DEF PairedSlot
<1> HIDE DEF a, b
<1>6. a \in Int /\ b \in Int
  BY <1>3, <1>4
<1>7. /\ PairedSlot(0) = a /\ PairedSlot(1) = a + 1 /\ PairedSlot(2) = b
      /\ PairedSlot(3) = b + 1 /\ PairedSlot(4) = chr[2] /\ PairedSlot(5) = chr[3]
      /\ PairedSlot(6) = chr[4] /\ PairedSlot(7) = chr[5]
  BY <1>5, <1>6
<1> QED
  BY <1>2, <1>4, <1>6, <1>7 DEF a, b

\* What the renderer has copied is what the cartridge resolves a slot with.
LEMMA SlotsInROM ==
  ASSUME BankTypes, NEW s \in 0 .. 7
  PROVE  CHRSlot(s) \in 0 .. board.chr - 1 /\ CHRSlot(s) = SlotOfState(CaptureState, s)
<1> DEFINE c == board.chr
           st == CaptureState
           Goal == CHRSlot(s) \in 0 .. c - 1 /\ CHRSlot(s) = SlotOfState(st, s)
<1>1. Mapper \in SupportedMappers /\ c \in Nat \ {0} /\ c % 8 = 0
  BY BoardNumbers DEF BankTypes
<1>2. /\ c \div 8 \in Nat \ {0} /\ c = 8 * (c \div 8)
      /\ c \div 4 \in Nat \ {0} /\ c = 4 * (c \div 4)
  BY <1>1, Units
<1>3. \A i \in 0 .. 15 : chr[i] \in Byte
  BY DEF BankTypes
<1>4. /\ chr[0] \in Byte /\ chr[1] \in Byte /\ chr[2] \in Byte /\ chr[3] \in Byte
      /\ chr[4] \in Byte /\ chr[5] \in Byte
  BY <1>3
<1>5. s = 0 \/ s = 1 \/ s = 2 \/ s = 3 \/ s = 4 \/ s = 5 \/ s = 6 \/ s = 7
  OBVIOUS
<1>6. /\ st.select = select /\ st.modes = modes /\ st.chr = chr
      /\ st.vrc = [t \in 0 .. 7 |-> VRCSlot(t)]
  BY DEF CaptureState
<1> HIDE DEF st
<1> SUFFICES Goal
  BY DEF st
<1> HIDE DEF Goal
<1>7. ASSUME NEW x, x \in Int, CHRSlot(s) = x % c, SlotOfState(st, s) = x % c PROVE Goal
  <2>1. x % c \in 0 .. c - 1
    BY <1>1, <1>7, DivMod
  <2> QED
    BY <1>7, <2>1 DEF Goal
<1>8. ASSUME NEW v, v \in Int, CHRSlot(s) = 8 * (v % (c \div 8)) + s,
             SlotOfState(st, s) = CHRSlot(s)
      PROVE  Goal
  <2> DEFINE m == c \div 8
  <2> HIDE DEF m
  <2>1. m \in Nat \ {0} /\ c = 8 * m
    BY <1>2 DEF m
  <2>2. 8 * (v % m) + s \in 0 .. 8 * m - 1
    BY <1>8, <2>1, CutToSize
  <2> QED
    BY <1>8, <2>1, <2>2 DEF m, Goal
<1>9. ASSUME NEW v, v \in Int, NEW w \in 0 .. 3, CHRSlot(s) = 4 * (v % (c \div 4)) + w,
             SlotOfState(st, s) = CHRSlot(s)
      PROVE  Goal
  <2> DEFINE m == c \div 4
  <2> HIDE DEF m
  <2>1. m \in Nat \ {0} /\ c = 4 * m
    BY <1>2 DEF m
  <2>2. 4 * (v % m) + w \in 0 .. 4 * m - 1
    BY <1>9, <2>1, CutToSize
  <2> QED
    BY <1>9, <2>1, <2>2 DEF m, Goal
<1>10. CASE Mapper = 1
  <2>1. /\ CHRSlot(s) = MMC1Slot(c, s)
        /\ SlotOfState(st, s) =
             IF Bit(select, 4) = 0 THEN 8 * (Even(chr[0]) % (c \div 8)) + s
             ELSE IF s < 4 THEN 4 * (chr[0] % (c \div 4)) + s
             ELSE 4 * (chr[1] % (c \div 4)) + s - 4
    BY <1>6, <1>10, SlotOfBoard
  <2>2. CASE Bit(select, 4) = 0
    <3> DEFINE v == Even(chr[0])
    <3>1. v \in Int
      <4>1. v \in Byte
        BY <1>4, BitsOfByte
      <4> QED
        BY <4>1 DEF Byte
    <3>2. CHRSlot(s) = 8 * (v % (c \div 8)) + s /\ SlotOfState(st, s) = CHRSlot(s)
      BY <2>1, <2>2 DEF MMC1Slot
    <3> HIDE DEF v
    <3> QED
      BY <1>8, <3>1, <3>2
  <2>3. CASE Bit(select, 4) # 0 /\ s < 4
    <3> DEFINE v == chr[0]
    <3>1. v \in Int /\ s \in 0 .. 3 /\ s \div 4 = 0 /\ s % 4 = s
      BY <1>4, <2>3 DEF Byte
    <3>2. CHRSlot(s) = 4 * (v % (c \div 4)) + s /\ SlotOfState(st, s) = CHRSlot(s)
      BY <2>1, <2>3, <3>1 DEF MMC1Slot
    <3> HIDE DEF v
    <3> QED
      BY <1>9, <3>1, <3>2
  <2>4. CASE Bit(select, 4) # 0 /\ s >= 4
    <3> DEFINE v == chr[1]
               w == s % 4
    <3>1. v \in Int /\ w \in 0 .. 3 /\ s \div 4 = 1 /\ w = s - 4
      BY <1>4, <2>4 DEF Byte
    <3>2. CHRSlot(s) = 4 * (v % (c \div 4)) + w
      BY <2>1, <2>4, <3>1 DEF MMC1Slot
    <3>3. SlotOfState(st, s) = 4 * (v % (c \div 4)) + s - 4
      BY <2>1, <2>4
    <3>4. v % (c \div 4) \in Int
      <4> HIDE DEF v
      <4> DEFINE m == c \div 4
      <4> HIDE DEF m
      <4>1. m \in Nat \ {0}
        BY <1>2 DEF m
      <4>2. v % m \in Int
        BY <3>1, <4>1, DivMod
      <4> QED
        BY <4>2 DEF m
    <3> HIDE DEF v, w
    <3>5. SlotOfState(st, s) = CHRSlot(s)
      BY <3>1, <3>2, <3>3, <3>4
    <3> QED
      BY <1>9, <3>1, <3>2, <3>5
  <2> QED
    BY <2>2, <2>3, <2>4
<1>11. CASE Mapper \in {3, 66, 87}
  <2>1. CHRSlot(s) = 8 * (chr[0] % (c \div 8)) + s /\ SlotOfState(st, s) = CHRSlot(s)
    BY <1>6, <1>11, SlotOfBoard
  <2>2. chr[0] \in Int
    BY <1>4 DEF Byte
  <2> QED
    BY <1>8, <2>1, <2>2
<1>12. CASE Mapper = 75
  <2>1. /\ CHRSlot(s) = 4 * (chr[s \div 4] % (c \div 4)) + (s % 4)
        /\ SlotOfState(st, s) = IF s < 4 THEN 4 * (chr[0] % (c \div 4)) + s
                                ELSE 4 * (chr[1] % (c \div 4)) + s - 4
    BY <1>6, <1>12, SlotOfBoard
  <2>2. CASE s < 4
    <3> DEFINE v == chr[0]
    <3>1. v \in Int /\ s \in 0 .. 3 /\ s \div 4 = 0 /\ s % 4 = s
      BY <1>4, <2>2 DEF Byte
    <3>2. CHRSlot(s) = 4 * (v % (c \div 4)) + s /\ SlotOfState(st, s) = CHRSlot(s)
      BY <2>1, <2>2, <3>1
    <3> HIDE DEF v
    <3> QED
      BY <1>9, <3>1, <3>2
  <2>3. CASE s >= 4
    <3> DEFINE v == chr[1]
               w == s % 4
    <3>1. v \in Int /\ w \in 0 .. 3 /\ s \div 4 = 1 /\ w = s - 4
      BY <1>4, <2>3 DEF Byte
    <3>2. CHRSlot(s) = 4 * (v % (c \div 4)) + w
      BY <2>1, <3>1
    <3>3. SlotOfState(st, s) = 4 * (v % (c \div 4)) + s - 4
      BY <2>1, <2>3
    <3>4. v % (c \div 4) \in Int
      <4> HIDE DEF v
      <4> DEFINE m == c \div 4
      <4> HIDE DEF m
      <4>1. m \in Nat \ {0}
        BY <1>2 DEF m
      <4>2. v % m \in Int
        BY <3>1, <4>1, DivMod
      <4> QED
        BY <4>2 DEF m
    <3> HIDE DEF v, w
    <3>5. SlotOfState(st, s) = CHRSlot(s)
      BY <3>1, <3>2, <3>3, <3>4
    <3> QED
      BY <1>9, <3>1, <3>2, <3>5
  <2> QED
    BY <2>2, <2>3
<1>13. CASE Mapper \in VRC
  <2>1. CHRSlot(s) = VRCSlot(s) % c /\ SlotOfState(st, s) = VRCSlot(s) % c
    BY <1>6, <1>13, SlotOfBoard
  <2>2. VRCSlot(s) \in Int
    <3>1. chr[s] \in Byte /\ chr[s + 8] \in Byte
      BY <1>3
    <3>2. Low(chr[s], 4) \in 0 .. 15
      BY <3>1, BitsOfByte
    <3> QED
      BY <3>1, <3>2 DEF VRCSlot, Byte
  <2> QED
    BY <1>7, <2>1, <2>2
<1>14. CASE Mapper \notin VRC \union {1, 3, 4, 5, 33, 66, 75, 87, 88, 206}
  <2>1. CHRSlot(s) = s % c /\ SlotOfState(st, s) = s % c
    BY <1>14, SlotOfBoard
  <2> QED
    BY <1>7, <2>1
<1>15. CASE Mapper = 33
  <2> DEFINE x == PairedSlot(s)
  <2>1. CHRSlot(s) = x % c /\ SlotOfState(st, s) = Mapper33StateTable(st)[s + 1] % c
    BY <1>15, SlotOfBoard
  <2>2. Mapper33StateTable(st) = <<PairedSlot(0), PairedSlot(1), PairedSlot(2), PairedSlot(3),
                                   PairedSlot(4), PairedSlot(5), PairedSlot(6), PairedSlot(7)>>
    BY <1>6, PairedSlots DEF Mapper33StateTable
  <2>3. x = Mapper33StateTable(st)[s + 1]
    BY <1>5, <2>2
  <2>4. x \in Int
    BY <1>5, PairedSlots
  <2> HIDE DEF x
  <2> QED
    BY <1>7, <2>1, <2>3, <2>4
<1>16. CASE Mapper = 4
  <2> DEFINE x == MMC3Slot(s)
             a == Even(chr[0])
             b == Even(chr[1])
             p == chr[2]
             q == chr[3]
             d == chr[4]
             e == chr[5]
  <2>1. CHRSlot(s) = x % c /\ SlotOfState(st, s) = MMC3StateTable(st)[s + 1] % c
    BY <1>16, SlotOfBoard
  <2>2. MMC3StateTable(st) =
          IF Bit(select, 7) = 0 THEN <<a, a + 1, b, b + 1, p, q, d, e>>
          ELSE <<p, q, d, e, a, a + 1, b, b + 1>>
    BY <1>6 DEF MMC3StateTable
  <2>3. Bit(select, 7) = 0 \/ Bit(select, 7) = 1
    <3>1. select \in Byte
      BY DEF BankTypes
    <3>2. Bit(select, 7) \in 0 .. 1
      BY <3>1, BitsOfByte
    <3> QED
      BY <3>2
  <2>5. x = PairedSlot(IF Bit(select, 7) = 1 THEN (s + 4) % 8 ELSE s)
    BY DEF MMC3Slot
  <2>6. a \in Int /\ b \in Int /\ p \in Int /\ q \in Int /\ d \in Int /\ e \in Int
    BY PairedSlots
  <2> DEFINE up == Bit(select, 7)
  <2>7. /\ PairedSlot(0) = a /\ PairedSlot(1) = a + 1 /\ PairedSlot(2) = b
        /\ PairedSlot(3) = b + 1 /\ PairedSlot(4) = p /\ PairedSlot(5) = q
        /\ PairedSlot(6) = d /\ PairedSlot(7) = e
    BY PairedSlots
  <2> HIDE DEF a, b, p, q, d, e, x, up
  <2>8. x = MMC3StateTable(st)[s + 1]
    <3>1. CASE up = 0
      <4>1. x = PairedSlot(s) /\ MMC3StateTable(st) = <<a, a + 1, b, b + 1, p, q, d, e>>
        BY <2>2, <2>5, <3>1 DEF up
      <4> QED
        BY <1>5, <2>7, <4>1
    <3>2. CASE up = 1
      <4>1. x = PairedSlot((s + 4) % 8)
        BY <2>5, <3>2 DEF up
      <4>2. MMC3StateTable(st) = <<p, q, d, e, a, a + 1, b, b + 1>>
        BY <2>2, <3>2 DEF up
      <4> QED
        BY <1>5, <2>7, <4>1, <4>2
    <3> QED
      BY <2>3, <3>1, <3>2 DEF up
  <2>9. x \in Int
    BY <1>5, <2>2, <2>3, <2>6, <2>8 DEF up
  <2> QED
    BY <1>7, <2>1, <2>8, <2>9
<1>17. CASE Mapper = 5
  <2> DEFINE x == MMC5Slot(s)
             high == modes.upper * 256
  <2>1. CHRSlot(s) = x % c /\ SlotOfState(st, s) = MMC5State(st, s) % c
    BY <1>17, SlotOfBoard
  <2>2. modes \in [prg : 0 .. 3, chr : 0 .. 3, upper : 0 .. 3]
    BY DEF BankTypes
  <2>3. /\ modes.chr = 0 \/ modes.chr = 1 \/ modes.chr = 2 \/ modes.chr = 3
        /\ high \in Int
    BY <2>2
  <2>4. \A i \in 0 .. 15 : chr[i] \in Int
    <3>1. \A v \in Byte : v \in Int
      BY DEF Byte
    <3> QED
      BY <1>3, <3>1
  <2> HIDE DEF high
  <2>5. x = MMC5State(st, s) /\ x \in Int
    <3>1. CASE modes.chr = 0
      <4>1. x = high + chr[(s \div 8) * 8 + 8 - 1] + (s % 8)
        BY <3>1, BitPowers DEF MMC5Slot, high
      <4>2. MMC5State(st, s) = high + chr[7] + s
        BY <1>6, <3>1 DEF MMC5State, high
      <4> QED
        BY <1>5, <2>3, <2>4, <4>1, <4>2
    <3>2. CASE modes.chr = 1
      <4>1. x = high + chr[(s \div 4) * 4 + 4 - 1] + (s % 4)
        BY <3>2, BitPowers DEF MMC5Slot, high
      <4>2. MMC5State(st, s) = high + chr[(s \div 4) * 4 + 3] + (s % 4)
        BY <1>6, <3>2 DEF MMC5State, high
      <4> QED
        BY <1>5, <2>3, <2>4, <4>1, <4>2
    <3>3. CASE modes.chr = 2
      <4>1. x = high + chr[(s \div 2) * 2 + 2 - 1] + (s % 2)
        BY <3>3, BitPowers DEF MMC5Slot, high
      <4>2. MMC5State(st, s) = high + chr[(s \div 2) * 2 + 1] + (s % 2)
        BY <1>6, <3>3 DEF MMC5State, high
      <4> QED
        BY <1>5, <2>3, <2>4, <4>1, <4>2
    <3>4. CASE modes.chr = 3
      <4>1. x = high + chr[(s \div 1) * 1 + 1 - 1] + (s % 1)
        BY <3>4, BitPowers DEF MMC5Slot, high
      <4>2. MMC5State(st, s) = high + chr[s]
        BY <1>6, <3>4 DEF MMC5State, high
      <4> QED
        BY <1>5, <2>3, <2>4, <4>1, <4>2
    <3> QED
      BY <2>3, <3>1, <3>2, <3>3, <3>4
  <2> HIDE DEF x
  <2> QED
    BY <1>7, <2>1, <2>5
<1>18. CASE Mapper \in {88, 206}
  <2> DEFINE x == Mapper206Slot(s)
             a == Low(Even(chr[0]), 6)
             b == Low(Even(chr[1]), 6)
             up(v) == IF Mapper = 88 /\ Bit(v, 6) = 0 THEN v + 64 ELSE v
             p == up(chr[2])
             q == up(chr[3])
             d == up(chr[4])
             e == up(chr[5])
  <2>1. CHRSlot(s) = x % c /\ SlotOfState(st, s) = Mapper206StateTable(st)[s + 1] % c
    BY <1>18, SlotOfBoard
  <2>2. Mapper206StateTable(st) = <<a, a + 1, b, b + 1, p, q, d, e>>
    BY <1>6 DEF Mapper206StateTable
  <2>3. /\ (s = 0 => x = a + 0) /\ (s = 1 => x = a + 1)
        /\ (s = 2 => x = b + 2 - 2) /\ (s = 3 => x = b + 3 - 2)
        /\ (s = 4 => x = p) /\ (s = 5 => x = q) /\ (s = 6 => x = d) /\ (s = 7 => x = e)
    <3> DEFINE v == CASE s < 2 -> a + s
                      [] s \in 2 .. 3 -> b + s - 2
                      [] s > 3 -> chr[s - 2]
    <3>1. x = IF Mapper = 88 /\ s >= 4 /\ Bit(v, 6) = 0 THEN v + 64 ELSE v
      BY Zenon DEF Mapper206Slot
    <3>2. /\ (s = 0 => v = a + 0) /\ (s = 1 => v = a + 1)
          /\ (s = 2 => v = b + 2 - 2) /\ (s = 3 => v = b + 3 - 2)
          /\ (s = 4 => v = chr[2]) /\ (s = 5 => v = chr[3]) /\ (s = 6 => v = chr[4])
          /\ (s = 7 => v = chr[5])
      <4> HIDE DEF a, b
      <4> QED
        OBVIOUS
    <3> HIDE DEF v, a, b
    <3>3. s < 4 => x = v
      BY <3>1
    <3>4. s >= 4 => x = up(v)
      BY <3>1
    <3> HIDE DEF up
    <3> QED
      BY <1>5, <3>2, <3>3, <3>4
  <2>4. a \in Int /\ b \in Int /\ p \in Int /\ q \in Int /\ d \in Int /\ e \in Int
    <3>1. a \in Int /\ b \in Int
      <4>1. Even(chr[0]) \in Byte /\ Even(chr[1]) \in Byte
        BY <1>4, BitsOfByte
      <4>2. a \in 0 .. 63 /\ b \in 0 .. 63
        BY <4>1, BitsOfByte
      <4> QED
        BY <4>2
    <3>2. \A v \in Byte : up(v) \in Int
      BY DEF Byte
    <3> QED
      BY <1>4, <3>1, <3>2
  <2> HIDE DEF x, a, b, p, q, d, e
  <2>5. x = Mapper206StateTable(st)[s + 1] /\ x \in Int
    BY <1>5, <2>2, <2>3, <2>4
  <2> QED
    BY <1>7, <2>1, <2>5
<1>19. \/ Mapper \in {1, 4, 5, 33, 75} \/ Mapper \in {3, 66, 87} \/ Mapper \in VRC
       \/ Mapper \in {88, 206}
       \/ Mapper \notin VRC \union {1, 3, 4, 5, 33, 66, 75, 87, 88, 206}
  OBVIOUS
<1> QED
  BY <1>10, <1>11, <1>12, <1>13, <1>14, <1>15, <1>16, <1>17, <1>18, <1>19

\* The banks that every window of the CPU and every slot of the PPU show
\* (Cartridge.CPURead, PPURead) exist, whatever was written to the registers, and the
\* renderer's tables (readCHRWithState) name the same ones, for every board and every
\* size of its ROMs.
THEOREM FetchesStayInROM == Spec => []FetchesSound
<1>1. BankInv => FetchesSound
  <2> SUFFICES ASSUME BankInv PROVE FetchesSound
    OBVIOUS
  <2>1. TypeOK /\ BankTypes
    BY BankInvTypes DEF BankInv
  <2>2. \A w \in 0 .. 3 :
          LET f == PRGWindow(w) IN f.bank \in 0 .. (IF f.rom THEN board.prg ELSE 8) - 1
    BY <2>1, WindowsInROM
  <2>3. \A s \in 0 .. 7 :
          CHRSlot(s) \in 0 .. board.chr - 1 /\ CHRSlot(s) = SlotOfState(CaptureState, s)
    BY <2>1, SlotsInROM
  <2> QED
    BY <2>1, <2>2, <2>3, Zenon DEF FetchesSound
<1>2. Init => BankInv
  BY IRQStart, BanksStart DEF BankInv
<1>3. BankInv /\ [Next]_vars => BankInv'
  BY IRQKeeps, BanksKeep DEF BankInv
<1> QED
  BY <1>1, <1>2, <1>3, PTL DEF Spec
=============================================================================
