------------------------------ MODULE RF_proofs ------------------------------
(***************************************************************************)
(* Proofs about the two halves of an RF generation.                        *)
(*                                                                         *)
(* The sender (RFSender), for every frame length, packet size, interval    *)
(* and counter width: what is sent is the synthesized stream, and every    *)
(* loss is reported.                                                       *)
(*                                                                         *)
(* The input (RFInput), for every capacity: what is in the queue when      *)
(* frames are dropped, and that WriteFrame never waits; for every cadence, *)
(* that an RF frame shows and sounds what was delivered for its time; and  *)
(* with the program's own cadence that sound and picture keep step for     *)
(* ever.                                                                   *)
(***************************************************************************)
EXTENDS RFInput, RFSender, SequenceTheorems, FiniteSetTheorems, TLAPS

-----------------------------------------------------------------------------
(* Runs of consecutive samples.                                            *)

\* Two runs, the second of which goes on where the first ends, make one: the
\* carry completed from the next frame.
LEMMA ContiguousConcat ==
  ASSUME NEW s \in Seq(Nat), NEW t \in Seq(Nat), NEW from \in Nat,
         Contiguous(s, from), Contiguous(t, from + Len(s))
  PROVE  Contiguous(s \o t, from)
<1>1. /\ s \o t \in Seq(Nat)
      /\ Len(s \o t) = Len(s) + Len(t)
      /\ \A i \in 1 .. Len(s) + Len(t) :
           (s \o t)[i] = IF i <= Len(s) THEN s[i] ELSE t[i - Len(s)]
  BY ConcatProperties
<1>2. /\ DOMAIN (s \o t) = 1 .. Len(s) + Len(t)
      /\ DOMAIN s = 1 .. Len(s) /\ DOMAIN t = 1 .. Len(t)
      /\ Len(s) \in Nat /\ Len(t) \in Nat
  BY <1>1, LenProperties
<1>3. SUFFICES ASSUME NEW k \in 1 .. Len(s) + Len(t)
               PROVE  (s \o t)[k] = from + k - 1
  BY <1>2 DEF Contiguous
<1>4. CASE k <= Len(s)
  <2>1. k \in 1 .. Len(s) /\ (s \o t)[k] = s[k]
    BY <1>1, <1>2, <1>4
  <2> QED
    BY <1>2, <2>1 DEF Contiguous
<1>5. CASE k > Len(s)
  <2>1. k - Len(s) \in 1 .. Len(t)
    BY <1>2, <1>5
  <2>2. t[k - Len(s)] = from + Len(s) + (k - Len(s)) - 1
    BY <1>2, <2>1 DEF Contiguous
  <2>3. (s \o t)[k] = t[k - Len(s)]
    BY <1>1, <1>2, <1>5
  <2> QED
    BY <1>2, <2>2, <2>3
<1> QED
  BY <1>2, <1>4, <1>5

\* A part of a run is a run: the slices a frame is cut into.
LEMMA ContiguousSlice ==
  ASSUME NEW s \in Seq(Nat), NEW from \in Nat, Contiguous(s, from),
         NEW m \in 1 .. Len(s) + 1, NEW n \in m - 1 .. Len(s)
  PROVE  /\ SubSeq(s, m, n) \in Seq(Nat)
         /\ Len(SubSeq(s, m, n)) = n - m + 1
         /\ Contiguous(SubSeq(s, m, n), from + m - 1)
<1>1. /\ Len(s) \in Nat /\ DOMAIN s = 1 .. Len(s)
      /\ m \in Int /\ n \in Int
      /\ \A i \in m .. n : s[i] \in Nat
  BY LenProperties, ElementOfSeq
<1>2. /\ SubSeq(s, m, n) \in Seq(Nat)
      /\ Len(SubSeq(s, m, n)) = IF m <= n THEN n - m + 1 ELSE 0
      /\ \A i \in 1 .. n - m + 1 : SubSeq(s, m, n)[i] = s[m + i - 1]
  BY <1>1, SubSeqProperties
<1>3. Len(SubSeq(s, m, n)) = n - m + 1
  BY <1>1, <1>2
<1>4. DOMAIN SubSeq(s, m, n) = 1 .. n - m + 1
  BY <1>2, <1>3, LenProperties
<1>5. ASSUME NEW k \in 1 .. n - m + 1
      PROVE  SubSeq(s, m, n)[k] = from + m - 1 + k - 1
  <2>1. m + k - 1 \in 1 .. Len(s)
    BY <1>1
  <2>2. s[m + k - 1] = from + (m + k - 1) - 1
    BY <1>1, <2>1 DEF Contiguous
  <2> QED
    BY <1>1, <1>2, <2>2
<1> QED
  BY <1>2, <1>3, <1>4, <1>5 DEF Contiguous

-----------------------------------------------------------------------------
(* Remainders.                                                             *)

LEMMA ModRange ==
  ASSUME NEW m \in Nat \ {0}, NEW x \in Int
  PROVE  x % m \in 0 .. m - 1
OBVIOUS

LEMMA DivMod ==
  ASSUME NEW m \in Nat \ {0}, NEW x \in Int
  PROVE  x \div m \in Int /\ x = m * (x \div m) + (x % m)
OBVIOUS

\* A number has one remainder, and one quotient.
LEMMA DivModUnique ==
  ASSUME NEW m \in Nat \ {0}, NEW p \in Int, NEW q \in Int,
         NEW r \in 0 .. m - 1, NEW s \in 0 .. m - 1, m * p + r = m * q + s
  PROVE  p = q /\ r = s
<1>1. m * (p - q) = s - r
  BY SMT
<1>2. CASE p - q >= 1
  <2>1. m * (p - q) >= m
    BY <1>2, SMT
  <2> QED
    BY <1>1, <2>1
<1>3. CASE p - q <= -1
  <2>1. m * (p - q) <= -m
    BY <1>3, SMT
  <2> QED
    BY <1>1, <2>1
<1>4. CASE p = q
  BY <1>1, <1>4
<1> QED
  BY <1>2, <1>3, <1>4

LEMMA RemainderUnique ==
  ASSUME NEW m \in Nat \ {0}, NEW p \in Int, NEW q \in Int,
         NEW r \in 0 .. m - 1, NEW s \in 0 .. m - 1, m * p + r = m * q + s
  PROVE  r = s
BY DivModUnique

LEMMA ModCongruent ==
  ASSUME NEW m \in Nat \ {0}, NEW x \in Int, NEW y \in Int, NEW k \in Int, x = y + m * k
  PROVE  x % m = y % m
<1> DEFINE a == x \div m
           b == y \div m
           r == x % m
           s == y % m
<1>1. /\ a \in Int /\ b \in Int /\ x = m * a + r /\ y = m * b + s
      /\ r \in 0 .. m - 1 /\ s \in 0 .. m - 1
  BY DivMod, ModRange
<1> HIDE DEF a, b, r, s
<1>2. m * a + r = m * (b + k) + s /\ b + k \in Int
  BY <1>1
<1>3. r = s
  BY <1>1, <1>2, RemainderUnique
<1> QED
  BY <1>3 DEF r, s

LEMMA ModSuccessor ==
  ASSUME NEW m \in Nat \ {0}, NEW x \in Int, NEW y \in Int, x % m = y % m
  PROVE  (x + 1) % m = (y + 1) % m
<1> DEFINE a == x \div m
           b == y \div m
<1>1. a \in Int /\ b \in Int /\ x = m * a + (x % m) /\ y = m * b + (y % m)
  BY DivMod
<1>2. x % m \in Int
  BY ModRange
<1> HIDE DEF a, b
<1>3. PICK u \in Int, v \in Int, k \in Int : u = x + 1 /\ v = y + 1 /\ k = a - b
  BY <1>1
<1>4. u = v + m * k
  BY <1>1, <1>2, <1>3
<1>5. u % m = v % m
  BY <1>4, ModCongruent, Zenon
<1> QED
  BY <1>3, <1>5

LEMMA ModOffset ==
  ASSUME NEW m \in Nat \ {0}, NEW x \in Int
  PROVE  \E k \in Int : x % m = x + m * k
<1> DEFINE q == x \div m
           r == x % m
<1>1. q \in Int /\ r \in Int /\ x = m * q + r
  BY DivMod, ModRange
<1> HIDE DEF q, r
<1>2. -q \in Int /\ r = x + m * (-q)
  BY <1>1
<1> QED
  BY <1>2 DEF r

-----------------------------------------------------------------------------
(* The stream.                                                             *)

USE SenderAssumption DEF SenderAssumption

\* What sendLoop holds at each point: a rest shorter than a packet between
\* frames, and enough samples to complete it when a frame begins.
Layout ==
  /\ pc \in {"frame", "startContext", "startVersion", "cut"} =>
       packet = <<>> /\ Len(carry) < SamplesPerPacket
  /\ pc = "frame" => combined = <<>>
  /\ pc \in {"startContext", "startVersion", "cut"} /\ carry # <<>> =>
       Len(combined) >= SamplesPerPacket - Len(carry)
  /\ pc \in {"context", "version", "data"} => carry = <<>>

\* The part of TypeOK that Layout and StreamContinuous are about.
StreamTypes ==
  /\ pc \in {"frame", "startContext", "startVersion", "cut", "context", "version",
             "data", "ended"}
  /\ produced \in Nat /\ sampleIndex \in Nat
  /\ combined \in Seq(Nat) /\ carry \in Seq(Nat) /\ packet \in Seq(Nat)

StreamInv == StreamTypes /\ Layout /\ StreamContinuous

stream == <<combined, carry, packet, sampleIndex, produced>>

LEMMA EmptyRun ==
  ASSUME NEW from
  PROVE  Contiguous(<<>>, from) /\ <<>> \in Seq(Nat) /\ Len(<<>>) = 0
BY EmptySeq DEF Contiguous

LEMMA StreamInit == SenderInit => StreamInv
<1> SUFFICES ASSUME SenderInit PROVE StreamInv
  OBVIOUS
<1>1. \A from : Contiguous(<<>>, from)
  BY EmptyRun
<1>2. <<>> \in Seq(Nat) /\ Len(<<>>) = 0
  BY EmptySeq
<1> QED
  BY <1>1, <1>2 DEF SenderInit, StreamInv, StreamTypes, Layout, StreamContinuous

\* A step that ends the loop promises nothing but types.
LEMMA StreamEnds ==
  ASSUME StreamInv, Ends, UNCHANGED stream
  PROVE  StreamInv'
BY DEF StreamInv, StreamTypes, Layout, StreamContinuous, Ends, stream, Contiguous

\* A step between two points at which sendLoop holds the same.
LEMMA StreamMoves ==
  ASSUME StreamInv, UNCHANGED stream,
         \/ pc \in {"startContext", "startVersion"} /\ pc' \in {"startVersion", "cut"}
         \/ pc \in {"context", "version"} /\ pc' \in {"version", "data"}
  PROVE  StreamInv'
BY DEF StreamInv, StreamTypes, Layout, StreamContinuous, stream, Contiguous

LEMMA StreamTakeFrame == StreamInv /\ TakeIQFrame => StreamInv'
<1> SUFFICES ASSUME StreamInv, TakeIQFrame PROVE StreamInv'
  OBVIOUS
<1> USE DEF StreamInv, StreamTypes
<1> DEFINE frame == [k \in 1 .. FrameLength |-> produced + k - 1]
<1>1. /\ pc = "frame" /\ packet = <<>> /\ Len(carry) < SamplesPerPacket
      /\ combined = <<>>
      /\ pc' \in {"startContext", "cut"}
      /\ combined' = frame /\ produced' = produced + FrameLength
      /\ UNCHANGED <<carry, packet, sampleIndex>>
  BY DEF TakeIQFrame, Layout
<1>2. frame \in Seq(Nat) /\ Len(frame) = FrameLength /\ DOMAIN frame = 1 .. FrameLength
  <2>1. \A k \in 1 .. FrameLength : produced + k - 1 \in Nat
    OBVIOUS
  <2>2. frame \in [1 .. FrameLength -> Nat]
    BY <2>1
  <2>3. FrameLength \in Nat
    OBVIOUS
  <2> QED
    BY <2>2, <2>3
<1>3. Len(packet) = 0 /\ Len(combined) = 0 /\ Len(carry) \in Nat
  BY <1>1, EmptySeq, LenProperties
<1>4. sampleIndex + Len(packet) + Len(carry) = produced
  BY <1>1, <1>3 DEF StreamContinuous
<1>5. Contiguous(frame, produced)
  BY <1>2 DEF Contiguous
<1>6. Layout'
  BY <1>1, <1>2, <1>3 DEF Layout
<1>7. StreamContinuous'
  <2>1. Contiguous(packet, sampleIndex) /\ Contiguous(carry, sampleIndex + Len(packet))
    BY <1>1 DEF StreamContinuous
  <2>2. Contiguous(packet', sampleIndex') /\ Contiguous(carry', sampleIndex' + Len(packet'))
    BY <1>1, <2>1
  <2>3. Contiguous(combined', sampleIndex' + Len(packet') + Len(carry'))
    BY <1>1, <1>4, <1>5
  <2>4. sampleIndex' + Len(packet') + Len(carry') + Len(combined') = produced'
    BY <1>1, <1>2, <1>4
  <2> QED
    BY <1>1, <2>2, <2>3, <2>4 DEF StreamContinuous
<1> QED
  BY <1>1, <1>2, <1>6, <1>7

LEMMA StreamCutPacket == StreamInv /\ CutPacket => StreamInv'
<1> SUFFICES ASSUME StreamInv, CutPacket PROVE StreamInv'
  OBVIOUS
<1> USE DEF StreamInv, StreamTypes
<1> DEFINE needed == SamplesPerPacket - Len(carry)
           first == SubSeq(combined, 1, needed)
           rest == SubSeq(combined, needed + 1, Len(combined))
           at == sampleIndex + Len(carry)
<1>1. /\ pc = "cut" /\ pc' = "context"
      /\ packet' = carry \o first /\ combined' = rest /\ carry' = <<>>
      /\ UNCHANGED <<sampleIndex, produced>>
      /\ carry # <<>> \/ Len(combined) >= SamplesPerPacket
  BY DEF CutPacket
<1>2. /\ packet = <<>> /\ Len(packet) = 0
      /\ Len(carry) \in Nat /\ Len(combined) \in Nat
      /\ Len(carry) < SamplesPerPacket
      /\ carry # <<>> => Len(combined) >= needed
      /\ carry = <<>> => Len(carry) = 0
  BY <1>1, EmptySeq, LenProperties DEF Layout
<1>3. needed \in 1 .. Len(combined) /\ at \in Nat
  BY <1>1, <1>2, SMTT(30)
<1>4. /\ Contiguous(carry, sampleIndex) /\ Contiguous(combined, at)
      /\ at + Len(combined) = produced
  BY <1>1, <1>2 DEF StreamContinuous
<1>5. first \in Seq(Nat) /\ Len(first) = needed /\ Contiguous(first, at)
  <2>1. 1 \in 1 .. Len(combined) + 1 /\ needed \in 1 - 1 .. Len(combined)
    BY <1>2, <1>3
  <2>2. /\ first \in Seq(Nat) /\ Len(first) = needed - 1 + 1
        /\ Contiguous(first, at + 1 - 1)
    BY <1>3, <1>4, <2>1, ContiguousSlice
  <2>3. at + 1 - 1 = at /\ needed - 1 + 1 = needed
    BY <1>3
  <2> QED
    BY <2>2, <2>3
<1>6. rest \in Seq(Nat) /\ Len(rest) = Len(combined) - needed /\ Contiguous(rest, at + needed)
  <2>1. /\ needed + 1 \in 1 .. Len(combined) + 1
        /\ Len(combined) \in (needed + 1) - 1 .. Len(combined)
    BY <1>2, <1>3
  <2>2. ASSUME NEW m \in 1 .. Len(combined) + 1, m = needed + 1
        PROVE  /\ SubSeq(combined, m, Len(combined)) \in Seq(Nat)
               /\ Len(SubSeq(combined, m, Len(combined))) = Len(combined) - m + 1
               /\ Contiguous(SubSeq(combined, m, Len(combined)), at + m - 1)
    <3>1. Len(combined) \in m - 1 .. Len(combined)
      BY <1>2, <2>1, <2>2
    <3> QED
      BY <1>3, <1>4, <3>1, ContiguousSlice
  <2>3. /\ at + (needed + 1) - 1 = at + needed
        /\ Len(combined) - (needed + 1) + 1 = Len(combined) - needed
    BY <1>2, <1>3
  <2> QED
    BY <2>1, <2>2, <2>3
<1>7. /\ packet' \in Seq(Nat) /\ Len(packet') = SamplesPerPacket
      /\ Contiguous(packet', sampleIndex)
  <2>1. packet' \in Seq(Nat) /\ Len(packet') = Len(carry) + Len(first)
    BY <1>1, <1>5, ConcatProperties
  <2>2. Contiguous(packet', sampleIndex)
    BY <1>1, <1>4, <1>5, ContiguousConcat
  <2> QED
    BY <1>2, <1>5, <2>1, <2>2
<1>8. /\ carry' \in Seq(Nat) /\ Len(carry') = 0
      /\ Contiguous(carry', sampleIndex' + Len(packet'))
  BY <1>1, EmptySeq DEF Contiguous
<1>9. at + needed = sampleIndex' + Len(packet') + Len(carry')
  BY <1>1, <1>2, <1>7, <1>8
<1>10. StreamTypes'
  BY <1>1, <1>6, <1>7, <1>8
<1>11. Layout'
  BY <1>1, <1>8 DEF Layout
<1>12. StreamContinuous'
  <2>1. Contiguous(packet', sampleIndex')
    BY <1>1, <1>7
  <2>2. Contiguous(combined', sampleIndex' + Len(packet') + Len(carry'))
    BY <1>1, <1>6, <1>9
  <2>3. sampleIndex' + Len(packet') + Len(carry') + Len(combined') = produced'
    <3>1. Len(combined') = Len(combined) - needed
      BY <1>1, <1>6
    <3>2. at + needed + (Len(combined) - needed) = produced
      BY <1>2, <1>3, <1>4, SMTT(30)
    <3> HIDE DEF needed, at
    <3> QED
      BY <1>1, <1>9, <3>1, <3>2
  <2> QED
    BY <1>1, <1>7, <1>8, <2>1, <2>2, <2>3 DEF StreamContinuous
<1> QED
  BY <1>10, <1>11, <1>12

LEMMA StreamSendData ==
  ASSUME StreamInv, NEW outcome \in Outcomes, SendData(outcome)
  PROVE  StreamInv'
<1> USE DEF StreamInv, StreamTypes
<1>1. /\ pc = "data" /\ packet' = <<>> /\ carry = <<>>
      /\ UNCHANGED <<combined, carry, produced>>
      /\ Len(packet) = SamplesPerPacket
  BY DEF SendData, Layout, StreamContinuous
<1>2. Len(packet') = 0 /\ Len(carry) = 0 /\ packet' \in Seq(Nat)
  BY <1>1, EmptySeq
<1>3. CASE outcome = "fatal"
  <2>1. pc' = "ended" /\ sampleIndex' = sampleIndex
    BY <1>3 DEF SendData, Proceed, Ends
  <2> QED
    BY <1>1, <1>2, <2>1 DEF Layout, StreamContinuous
<1>4. CASE outcome # "fatal"
  <2>1. pc' = "cut" /\ sampleIndex' = sampleIndex + Len(packet)
    BY <1>4 DEF SendData, Proceed
  <2>2. /\ Contiguous(carry, sampleIndex + Len(packet))
        /\ Contiguous(combined, sampleIndex + Len(packet) + Len(carry))
        /\ sampleIndex + Len(packet) + Len(carry) + Len(combined) = produced
    BY <1>1 DEF StreamContinuous
  <2>3. sampleIndex' + Len(packet') = sampleIndex + Len(packet) /\ sampleIndex' \in Nat
    BY <1>1, <1>2, <2>1
  <2>4. Contiguous(packet', sampleIndex')
    BY <1>1 DEF Contiguous
  <2>5. StreamContinuous'
    BY <1>1, <2>1, <2>2, <2>3, <2>4 DEF StreamContinuous
  <2>6. Layout'
    BY <1>1, <1>2, <2>1 DEF Layout
  <2> QED
    BY <1>1, <1>2, <2>1, <2>3, <2>5, <2>6
<1> QED
  BY <1>3, <1>4

LEMMA StreamFinishFrame == StreamInv /\ FinishFrame => StreamInv'
<1> SUFFICES ASSUME StreamInv, FinishFrame PROVE StreamInv'
  OBVIOUS
<1> USE DEF StreamInv, StreamTypes
<1>1. /\ pc = "cut" /\ pc' = "frame" /\ carry = <<>> /\ Len(combined) < SamplesPerPacket
      /\ carry' = combined /\ combined' = <<>>
      /\ UNCHANGED <<packet, sampleIndex, produced>> /\ packet = <<>>
  BY DEF FinishFrame, Layout
<1>2. /\ Len(carry) = 0 /\ Len(combined') = 0 /\ Len(packet) = 0
      /\ combined' \in Seq(Nat) /\ Len(combined) \in Nat
  BY <1>1, EmptySeq, LenProperties
<1>3. /\ Contiguous(packet, sampleIndex)
      /\ Contiguous(combined, sampleIndex + Len(packet) + Len(carry))
      /\ sampleIndex + Len(packet) + Len(carry) + Len(combined) = produced
  BY <1>1 DEF StreamContinuous
<1>4. sampleIndex + Len(packet) + Len(carry) = sampleIndex' + Len(packet')
  BY <1>1, <1>2
<1>5. \A from : Contiguous(combined', from)
  BY <1>1 DEF Contiguous
<1>6. /\ Contiguous(carry', sampleIndex' + Len(packet'))
      /\ sampleIndex' + Len(packet') + Len(carry') + Len(combined') = produced'
  BY <1>1, <1>2, <1>3, <1>4
<1>7. StreamContinuous'
  BY <1>1, <1>3, <1>5, <1>6 DEF StreamContinuous
<1>8. Layout'
  BY <1>1, <1>2 DEF Layout
<1> QED
  BY <1>1, <1>2, <1>7, <1>8

\* A packet other than a data packet leaves the samples alone.
LEMMA StreamSend ==
  ASSUME StreamInv, NEW outcome \in Outcomes, Send(outcome)
  PROVE  StreamInv'
<1>1. CASE SendData(outcome)
  BY <1>1, StreamSendData
<1>2. CASE StartContext(outcome) \/ StartVersion(outcome) \/ SendContext(outcome)
           \/ SendVersion(outcome)
  <2>1. UNCHANGED stream
    BY <1>2 DEF StartContext, StartVersion, SendContext, SendVersion, stream
  <2>2. CASE outcome = "fatal"
    <3>1. Ends
      BY <1>2, <2>2 DEF StartContext, StartVersion, SendContext, SendVersion, Proceed
    <3> QED
      BY <2>1, <3>1, StreamEnds
  <2>3. CASE outcome # "fatal"
    <3>1. \/ pc \in {"startContext", "startVersion"} /\ pc' \in {"startVersion", "cut"}
          \/ pc \in {"context", "version"} /\ pc' \in {"version", "data"}
      BY <1>2, <2>3 DEF StartContext, StartVersion, SendContext, SendVersion, Proceed
    <3> QED
      BY <2>1, <3>1, StreamMoves
  <2> QED
    BY <2>2, <2>3
<1> QED
  BY <1>1, <1>2 DEF Send

LEMMA StreamStep == StreamInv /\ [SenderNext]_senderVars => StreamInv'
<1> SUFFICES ASSUME StreamInv, [SenderNext]_senderVars PROVE StreamInv'
  OBVIOUS
<1>1. CASE Cancel
  BY <1>1 DEF Cancel, StreamInv, StreamTypes, Layout, StreamContinuous, Contiguous
<1>2. CASE TakeIQFrame
  BY <1>2, StreamTakeFrame
<1>3. CASE Stop
  <2>1. Ends /\ UNCHANGED stream
    BY <1>3 DEF Stop, stream
  <2> QED
    BY <2>1, StreamEnds
<1>4. CASE CutPacket
  BY <1>4, StreamCutPacket
<1>5. CASE SkipContext \/ SkipVersion
  <2>1. /\ UNCHANGED stream
        /\ pc \in {"context", "version"} /\ pc' \in {"version", "data"}
    BY <1>5 DEF SkipContext, SkipVersion, loopVars, stream
  <2> QED
    BY <2>1, StreamMoves
<1>6. CASE FinishFrame
  BY <1>6, StreamFinishFrame
<1>7. CASE \E outcome \in Outcomes : Send(outcome)
  BY <1>7, StreamSend
<1>8. CASE UNCHANGED senderVars
  BY <1>8 DEF senderVars, loopVars, StreamInv, StreamTypes, Layout, StreamContinuous, Contiguous
<1> QED
  BY <1>1, <1>2, <1>3, <1>4, <1>5, <1>6, <1>7, <1>8 DEF SenderNext, Work

\* sendLoop cuts the synthesized stream into full packets without a gap or a
\* repetition, whatever the frame length and the packet size.
THEOREM StreamIsContinuous == SenderSpec => []StreamContinuous
<1>1. SenderInit => StreamInv
  BY StreamInit
<1>2. StreamInv /\ [SenderNext]_senderVars => StreamInv'
  BY StreamStep
<1>3. StreamInv => StreamContinuous
  BY DEF StreamInv
<1> QED
  BY <1>1, <1>2, <1>3, PTL DEF SenderSpec

-----------------------------------------------------------------------------
(* The wire.                                                               *)

HIDE SenderAssumption DEF SenderAssumption

LEMMA Modulus == SequenceModulus \in Nat \ {0}
BY SenderAssumption DEF SenderAssumption

\* The part of TypeOK about packets.
WireTypes ==
  /\ sequence \in [Streams -> Numbers] /\ lossPending \in BOOLEAN
  /\ relayed \in [Streams -> Nat]
  /\ udp \in [context : [flag : BOOLEAN, lost : BOOLEAN], lost : BOOLEAN,
              last : [Streams -> Numbers], missing : [Streams -> Nat],
              jump : [moved : Numbers, due : Numbers]]

\* The sender knows of a loss exactly as long as the receiver has not been told.
Losses == lossPending = udp.lost /\ LossReported

\* The number of the next packet has moved on from the one that arrived last by
\* the packets missing in between, plus one.
Numbering ==
  /\ \A s \in Streams :
       (sequence[s] - udp.last[s]) % SequenceModulus = (udp.missing[s] + 1) % SequenceModulus
  /\ GapsTellLosses

WireInv == WireTypes /\ Losses /\ Numbering

LEMMA WireInit == SenderInit => WireInv
<1> SUFFICES ASSUME SenderInit PROVE WireInv
  OBVIOUS
<1>0. SequenceModulus \in Nat \ {0}
  BY Modulus
<1>1. WireTypes
  <2>1. 0 \in Numbers /\ SequenceModulus - 1 \in Numbers
    BY <1>0 DEF Numbers
  <2> QED
    BY <2>1 DEF SenderInit, WireTypes
<1>2. Losses
  BY DEF SenderInit, Losses, LossReported
<1>3. Numbering
  <2> SUFFICES ASSUME NEW s \in Streams
               PROVE  (sequence[s] - udp.last[s]) % SequenceModulus
                        = (udp.missing[s] + 1) % SequenceModulus
    BY DEF SenderInit, Numbering, GapsTellLosses
  <2>1. /\ sequence[s] - udp.last[s] = 1 + SequenceModulus * (-1)
        /\ udp.missing[s] + 1 = 1
    BY <1>0 DEF SenderInit
  <2>2. ASSUME NEW gap \in Int, NEW k \in Int, k = -1, gap = 1 + SequenceModulus * k
        PROVE  gap % SequenceModulus = 1 % SequenceModulus
    <3>1. 1 \in Int
      OBVIOUS
    <3> QED
      BY <1>0, <2>2, <3>1, ModCongruent, Zenon
  <2>3. sequence[s] - udp.last[s] \in Int
    BY <1>0 DEF SenderInit
  <2> QED
    BY <2>1, <2>2, <2>3
<1> QED
  BY <1>1, <1>2, <1>3 DEF WireInv

LEMMA WireSendPacket ==
  ASSUME WireInv, NEW s \in Streams, NEW outcome \in Outcomes, SendPacket(s, outcome)
  PROVE  WireInv'
<1> USE DEF WireInv, Numbers
<1> DEFINE following == (sequence[s] + 1) % SequenceModulus
           moved == (sequence[s] - udp.last[s]) % SequenceModulus
           due == (udp.missing[s] + 1) % SequenceModulus
           flag == s = "context" /\ lossPending
<1>0. SequenceModulus \in Nat \ {0}
  BY Modulus
<1>1. /\ sequence[s] \in Numbers /\ udp.last[s] \in Numbers /\ udp.missing[s] \in Nat
      /\ following \in Numbers /\ moved \in Numbers /\ due \in Numbers
  <2>1. sequence[s] \in Numbers /\ udp.last[s] \in Numbers /\ udp.missing[s] \in Nat
    BY DEF WireTypes
  <2>2. /\ sequence[s] + 1 \in Int /\ sequence[s] - udp.last[s] \in Int
        /\ udp.missing[s] + 1 \in Int
    BY <2>1
  <2> QED
    BY <1>0, <2>1, <2>2, ModRange
<1>2. relayed' \in [Streams -> Nat]
  BY DEF SendPacket, WireTypes
<1>3. CASE outcome = "fatal"
  <2>1. UNCHANGED <<sequence, lossPending, udp>>
    BY <1>3 DEF SendPacket, WriteUDP
  <2> QED
    BY <1>2, <2>1 DEF WireTypes, Losses, LossReported, Numbering, GapsTellLosses
<1>4. CASE outcome = "delivered"
  <2>1. /\ sequence' = [sequence EXCEPT ![s] = following]
        /\ udp' = Arrives(s, flag)
        /\ lossPending' = (lossPending /\ ~flag)
    BY <1>4 DEF SendPacket, WriteUDP
  <2>2. /\ udp'.last = [udp.last EXCEPT ![s] = sequence[s]]
        /\ udp'.missing = [udp.missing EXCEPT ![s] = 0]
        /\ udp'.jump = [moved |-> moved, due |-> due]
        /\ udp'.context = IF s = "context" THEN [flag |-> flag, lost |-> udp.lost]
                          ELSE udp.context
        /\ udp'.lost = IF s = "context" THEN FALSE ELSE udp.lost
    BY <2>1 DEF Arrives, WireTypes
  <2>3. WireTypes'
    <3>1. udp'.context \in [flag : BOOLEAN, lost : BOOLEAN] /\ udp'.lost \in BOOLEAN
      <4>1. /\ udp.context \in [flag : BOOLEAN, lost : BOOLEAN] /\ udp.lost \in BOOLEAN
            /\ flag \in BOOLEAN
        BY DEF WireTypes
      <4> HIDE DEF flag
      <4>2. [flag |-> flag, lost |-> udp.lost] \in [flag : BOOLEAN, lost : BOOLEAN]
        BY <4>1
      <4>3. CASE s = "context"
        BY <2>2, <4>2, <4>3
      <4>4. CASE s # "context"
        BY <2>2, <4>1, <4>4
      <4> QED
        BY <4>3, <4>4
    <3>2. udp' = [context |-> udp'.context, lost |-> udp'.lost, last |-> udp'.last,
                  missing |-> udp'.missing, jump |-> udp'.jump]
      BY <2>1 DEF WireTypes, Arrives
    <3>3. /\ udp'.last \in [Streams -> Numbers] /\ udp'.missing \in [Streams -> Nat]
          /\ udp'.jump \in [moved : Numbers, due : Numbers]
      BY <1>1, <2>2 DEF WireTypes
    <3>4. sequence' \in [Streams -> Numbers] /\ lossPending' \in BOOLEAN
      BY <1>1, <2>1 DEF WireTypes
    <3> QED
      BY <1>2, <3>1, <3>2, <3>3, <3>4 DEF WireTypes
  <2>4. Losses'
    <3>1. CASE s = "context"
      <4>1. flag = lossPending /\ lossPending = udp.lost /\ udp.lost \in BOOLEAN
        BY <3>1 DEF Losses, WireTypes
      <4>2. lossPending' = FALSE
        BY <2>1, <4>1
      <4> HIDE DEF flag
      <4>3. udp'.lost = FALSE /\ udp'.context.flag = flag /\ udp'.context.lost = udp.lost
        BY <2>2, <3>1
      <4> QED
        BY <4>1, <4>2, <4>3 DEF Losses, LossReported
    <3>2. CASE s # "context"
      <4>1. lossPending' = lossPending
        BY <2>1, <3>2 DEF WireTypes
      <4>2. udp'.lost = udp.lost /\ udp'.context = udp.context
        BY <2>2, <3>2
      <4> QED
        BY <4>1, <4>2 DEF Losses, LossReported
    <3> QED
      BY <3>1, <3>2
  <2>5. Numbering'
    <3>1. moved = due
      BY DEF Numbering
    <3>2. ASSUME NEW t \in Streams
          PROVE  (sequence'[t] - udp'.last[t]) % SequenceModulus
                   = (udp'.missing[t] + 1) % SequenceModulus
      <4>1. CASE t = s
        <5>1. /\ sequence'[t] = following /\ udp'.last[t] = sequence[s]
              /\ udp'.missing[t] = 0
          BY <2>1, <2>2, <4>1 DEF WireTypes
        <5>2. PICK k \in Int : following = sequence[s] + 1 + SequenceModulus * k
          <6>1. sequence[s] + 1 \in Int
            BY <1>1
          <6> QED
            BY <1>0, <6>1, ModOffset, Zenon
        <5> HIDE DEF following
        <5>3. following - sequence[s] = 1 + SequenceModulus * k
          <6>1. SequenceModulus * k \in Int /\ sequence[s] \in Int
            BY <1>0, <1>1, <5>2
          <6> QED
            BY <5>2, <6>1
        <5>4. (following - sequence[s]) % SequenceModulus = 1 % SequenceModulus
          <6> DEFINE gap == following - sequence[s]
          <6>1. gap \in Int /\ gap = 1 + SequenceModulus * k
            BY <1>1, <5>3
          <6> HIDE DEF gap
          <6>2. gap % SequenceModulus = 1 % SequenceModulus
            <7>1. 1 \in Int
              OBVIOUS
            <7> QED
              BY <1>0, <5>2, <6>1, <7>1, ModCongruent, Zenon
          <6> QED
            BY <6>2 DEF gap
        <5> QED
          BY <5>1, <5>3, <5>4
      <4>2. CASE t # s
        BY <2>1, <2>2, <4>2 DEF WireTypes, Numbering
      <4> QED
        BY <4>1, <4>2
    <3> QED
      BY <2>2, <3>1, <3>2 DEF Numbering, GapsTellLosses
  <2> QED
    BY <2>3, <2>4, <2>5
<1>5. CASE outcome = "dropped"
  <2>1. /\ sequence' = [sequence EXCEPT ![s] = following]
        /\ udp' = IsLost(s) /\ lossPending' = TRUE
    BY <1>5 DEF SendPacket, WriteUDP
  <2>2. /\ udp'.missing = [udp.missing EXCEPT ![s] = udp.missing[s] + 1]
        /\ udp'.last = udp.last /\ udp'.jump = udp.jump /\ udp'.context = udp.context
        /\ udp'.lost = TRUE
    BY <2>1 DEF IsLost, WireTypes
  <2>3. WireTypes'
    <3>1. udp.missing[s] + 1 \in Nat
      BY <1>1
    <3>2. sequence' \in [Streams -> Numbers]
      BY <1>1, <2>1 DEF WireTypes
    <3> QED
      BY <1>2, <2>1, <3>1, <3>2 DEF WireTypes, IsLost
  <2>4. Losses'
    BY <2>1, <2>2 DEF Losses, LossReported
  <2>5. Numbering'
    <3>1. ASSUME NEW t \in Streams
          PROVE  (sequence'[t] - udp'.last[t]) % SequenceModulus
                   = (udp'.missing[t] + 1) % SequenceModulus
      <4>1. CASE t = s
        <5>1. /\ sequence'[t] = following /\ udp'.last[t] = udp.last[s]
              /\ udp'.missing[t] = udp.missing[s] + 1
          BY <2>1, <2>2, <4>1 DEF WireTypes
        <5>2. PICK k \in Int : following = sequence[s] + 1 + SequenceModulus * k
          <6>1. sequence[s] + 1 \in Int
            BY <1>1
          <6> QED
            BY <1>0, <6>1, ModOffset, Zenon
        <5> HIDE DEF following
        <5> DEFINE gap == sequence[s] - udp.last[s]
                   next == following - udp.last[s]
                   owed == udp.missing[s] + 1
        <5>3. gap \in Int /\ next \in Int /\ owed \in Int
          BY <1>1
        <5>4. next = (gap + 1) + SequenceModulus * k
          BY <1>0, <1>1, <5>2
        <5>5. gap % SequenceModulus = owed % SequenceModulus
          BY DEF Numbering
        <5> HIDE DEF gap, next, owed
        <5>6. next % SequenceModulus = (gap + 1) % SequenceModulus
          <6>1. gap + 1 \in Int
            BY <5>3
          <6> QED
            BY <1>0, <5>2, <5>3, <5>4, <6>1, ModCongruent, Zenon
        <5>7. (gap + 1) % SequenceModulus = (owed + 1) % SequenceModulus
          BY <1>0, <5>3, <5>5, ModSuccessor, Zenon
        <5> QED
          BY <5>1, <5>6, <5>7 DEF next, owed
      <4>2. CASE t # s
        BY <2>1, <2>2, <4>2 DEF WireTypes, Numbering
      <4> QED
        BY <4>1, <4>2
    <3> QED
      BY <2>2, <3>1 DEF Numbering, GapsTellLosses
  <2> QED
    BY <2>3, <2>4, <2>5
<1> QED
  BY <1>3, <1>4, <1>5 DEF Outcomes

LEMMA WireStep == WireInv /\ [SenderNext]_senderVars => WireInv'
<1> SUFFICES ASSUME WireInv, [SenderNext]_senderVars PROVE WireInv'
  OBVIOUS
<1>1. CASE \E outcome \in Outcomes : Send(outcome)
  <2>1. PICK outcome \in Outcomes : Send(outcome)
    BY <1>1
  <2>2. \E s \in Streams : SendPacket(s, outcome)
    BY <2>1 DEF Send, StartContext, StartVersion, SendContext, SendVersion, SendData,
                Streams
  <2> QED
    BY <2>1, <2>2, WireSendPacket
<1>2. CASE ~ \E outcome \in Outcomes : Send(outcome)
  <2>1. UNCHANGED <<sequence, lossPending, relayed, udp>>
    BY <1>2 DEF SenderNext, Work, Cancel, TakeIQFrame, Stop, CutPacket, SkipContext, SkipVersion,
                FinishFrame, senderVars, wireVars
  <2> QED
    BY <2>1 DEF WireInv, WireTypes, Losses, LossReported, Numbering, GapsTellLosses
<1> QED
  BY <1>1, <1>2

\* A context that arrives tells of the losses since the one before it, no more
\* and no less.
THEOREM LossIsReported == SenderSpec => []LossReported
<1>1. WireInv => LossReported
  BY DEF WireInv, Losses
<1> QED
  BY <1>1, WireInit, WireStep, PTL DEF SenderSpec

\* The counters of the packets that arrive tell how many did not, whatever the
\* width of the counter.
THEOREM NumbersTellLosses == SenderSpec => []GapsTellLosses
<1>1. WireInv => GapsTellLosses
  BY DEF WireInv, Numbering
<1> QED
  BY <1>1, WireInit, WireStep, PTL DEF SenderSpec

\* Indicator and counters both tell every loss.
THEOREM LossesAreTold == SenderSpec => []LossesTold
<1>1. LossReported /\ GapsTellLosses => LossesTold
  BY DEF LossesTold
<1> QED
  BY <1>1, LossIsReported, NumbersTellLosses, PTL

-----------------------------------------------------------------------------
(* The cadence.                                                            *)

\* A clock in step: the next packet of the kind is due at the multiple of the
\* interval that its number says, and that lies ahead, by less than an interval
\* once it was looked after and by less than two before that.
InStep(next, interval, count, lookedAfter) ==
  /\ next = interval * count
  /\ next - interval <= sampleIndex
  /\ sampleIndex < next + (IF lookedAfter THEN 0 ELSE interval)

Clocks ==
  /\ InStep(nextContext, ContextInterval, relayed["context"], pc \in {"version", "data"})
  /\ InStep(nextVersion, VersionInterval, relayed["version"], pc = "data")

ClockTypes ==
  /\ nextContext \in Nat /\ nextVersion \in Nat /\ started \in BOOLEAN
  /\ sampleIndex \in Nat
  /\ relayed \in [Streams -> Nat]
  /\ pc \in {"frame", "startContext", "startVersion", "cut", "context", "version",
             "data", "ended"}

CadenceInv ==
  /\ ClockTypes
  /\ pc \in {"cut", "context", "version", "data"} => started
  /\ (pc \in {"startContext", "startVersion"} \/ (pc = "frame" /\ ~started)) =>
       /\ ~started /\ sampleIndex = 0
       /\ relayed["context"] = (IF pc = "startVersion" THEN 1 ELSE 0)
       /\ relayed["version"] = 0
  /\ started /\ pc # "ended" => Clocks

LEMMA Intervals ==
  /\ ContextInterval \in Nat \ {0} /\ VersionInterval \in Nat \ {0}
  /\ SamplesPerPacket \in Nat \ {0}
  /\ SamplesPerPacket <= ContextInterval /\ SamplesPerPacket <= VersionInterval
BY SenderAssumption DEF SenderAssumption

\* A clock in step that was looked after counts the intervals that have begun.
LEMMA InStepCounts ==
  ASSUME NEW m \in Nat \ {0}, NEW count \in Nat, NEW x \in Nat,
         m * count - m <= x, x < m * count
  PROVE  count = 1 + x \div m
<1> DEFINE q == x \div m
           r == x % m
           p == count - 1
           s == x - m * p
<1>1. q \in Int /\ r \in 0 .. m - 1 /\ x = m * q + r
  BY DivMod, ModRange
<1>2. p \in Int /\ m * p = m * count - m
  OBVIOUS
<1>3. m * count \in Int
  OBVIOUS
<1>4. s \in 0 .. m - 1
  BY <1>2, <1>3
<1>5. m * p + s = x
  BY <1>2, <1>3
<1> HIDE DEF q, r, s, p
<1>6. m * p + s = m * q + r
  BY <1>1, <1>5
<1>7. p = q
  BY <1>1, <1>2, <1>4, <1>6, DivModUnique, Zenon
<1> QED
  BY <1>7 DEF p, q

LEMMA CadenceInit == SenderInit => CadenceInv
<1> SUFFICES ASSUME SenderInit PROVE CadenceInv
  OBVIOUS
<1>1. relayed["context"] = 0 /\ relayed["version"] = 0
  BY DEF SenderInit, Streams
<1>2. ClockTypes
  BY DEF SenderInit, ClockTypes
<1> QED
  BY <1>1, <1>2 DEF SenderInit, CadenceInv

LEMMA CadenceSend ==
  ASSUME CadenceInv, StreamInv, NEW outcome \in Outcomes, Send(outcome)
  PROVE  CadenceInv'
<1> USE DEF CadenceInv, ClockTypes
<1> DEFINE counted(s) == relayed' = [relayed EXCEPT ![s] = relayed[s] + 1]
<1>0. "context" \in Streams /\ "version" \in Streams /\ "data" \in Streams
  BY DEF Streams
<1>1. CASE outcome = "fatal"
  <2>1. pc' = "ended" /\ UNCHANGED <<sampleIndex, nextContext, nextVersion>>
    BY <1>1 DEF Send, StartContext, StartVersion, SendContext, SendVersion, SendData,
                Proceed, Ends
  <2>2. started' \in BOOLEAN
    BY <1>1 DEF Send, StartContext, StartVersion, SendContext, SendVersion, SendData
  <2>3. \E s \in Streams : counted(s)
    BY <1>0 DEF Send, StartContext, StartVersion, SendContext, SendVersion, SendData,
                SendPacket
  <2>4. relayed' \in [Streams -> Nat]
    BY <2>3
  <2> QED
    BY <2>1, <2>2, <2>4
<1>2. CASE outcome # "fatal" /\ StartContext(outcome)
  <2>1. /\ pc = "startContext" /\ pc' = "startVersion" /\ counted("context")
        /\ UNCHANGED <<sampleIndex, started, nextContext, nextVersion>>
    BY <1>2 DEF StartContext, Proceed, SendPacket
  <2>2. /\ relayed' \in [Streams -> Nat]
        /\ relayed'["context"] = 1 /\ relayed'["version"] = 0
    BY <1>0, <2>1
  <2> QED
    BY <2>1, <2>2
<1>3. CASE outcome # "fatal" /\ StartVersion(outcome)
  <2>1. /\ pc = "startVersion" /\ pc' = "cut" /\ counted("version")
        /\ started' = TRUE /\ sampleIndex' = sampleIndex /\ sampleIndex = 0
        /\ nextContext' = ContextInterval /\ nextVersion' = VersionInterval
    BY <1>3 DEF StartVersion, Proceed, SendPacket
  <2>2. /\ relayed' \in [Streams -> Nat]
        /\ relayed'["context"] = 1 /\ relayed'["version"] = 1
    BY <1>0, <2>1
  <2>3. Clocks'
    BY <2>1, <2>2, Intervals DEF Clocks, InStep
  <2> QED
    BY <2>1, <2>2, <2>3, Intervals
<1>4. CASE outcome # "fatal" /\ SendContext(outcome)
  <2>1. /\ pc = "context" /\ pc' = "version" /\ counted("context")
        /\ sampleIndex >= nextContext
        /\ nextContext' = nextContext + ContextInterval
        /\ UNCHANGED <<sampleIndex, started, nextVersion>>
    BY <1>4 DEF SendContext, ContextDue, Proceed, SendPacket
  <2>2. /\ relayed' \in [Streams -> Nat] /\ relayed["context"] \in Nat
        /\ relayed'["context"] = relayed["context"] + 1
        /\ relayed'["version"] = relayed["version"]
    BY <1>0, <2>1
  <2>3. /\ nextContext = ContextInterval * relayed["context"]
        /\ sampleIndex < nextContext + ContextInterval
        /\ InStep(nextVersion, VersionInterval, relayed["version"], FALSE)
    <3>1. started /\ pc # "ended" /\ pc \notin {"version", "data"} /\ pc # "data"
      BY <2>1
    <3> QED
      BY <3>1 DEF Clocks, InStep
  <2>4. nextContext' = ContextInterval * (relayed["context"] + 1)
    BY <2>1, <2>2, <2>3, Intervals
  <2>5. /\ nextContext' = ContextInterval * relayed'["context"]
        /\ nextContext' - ContextInterval <= sampleIndex
        /\ sampleIndex < nextContext' + 0
    BY <2>1, <2>2, <2>3, <2>4, Intervals
  <2>6. /\ nextVersion' = VersionInterval * relayed'["version"]
        /\ nextVersion' - VersionInterval <= sampleIndex'
        /\ sampleIndex' < nextVersion' + VersionInterval
    BY <2>1, <2>2, <2>3 DEF InStep
  <2>7. Clocks'
    BY <2>1, <2>5, <2>6 DEF Clocks, InStep
  <2> QED
    BY <2>1, <2>2, <2>7, Intervals
<1>5. CASE outcome # "fatal" /\ SendVersion(outcome)
  <2>1. /\ pc = "version" /\ pc' = "data" /\ counted("version")
        /\ sampleIndex >= nextVersion
        /\ nextVersion' = nextVersion + VersionInterval
        /\ UNCHANGED <<sampleIndex, started, nextContext>>
    BY <1>5 DEF SendVersion, VersionDue, Proceed, SendPacket
  <2>2. /\ relayed' \in [Streams -> Nat] /\ relayed["version"] \in Nat
        /\ relayed'["version"] = relayed["version"] + 1
        /\ relayed'["context"] = relayed["context"]
    BY <1>0, <2>1
  <2>3. /\ InStep(nextContext, ContextInterval, relayed["context"], TRUE)
        /\ InStep(nextVersion, VersionInterval, relayed["version"], FALSE)
    BY <2>1 DEF Clocks
  <2>4. nextVersion' = VersionInterval * (relayed["version"] + 1)
    BY <2>1, <2>2, <2>3, Intervals DEF InStep
  <2>5. Clocks'
    BY <2>1, <2>2, <2>3, <2>4, Intervals DEF Clocks, InStep
  <2> QED
    BY <2>1, <2>2, <2>5, Intervals
<1>6. CASE outcome # "fatal" /\ SendData(outcome)
  <2>1. /\ pc = "data" /\ pc' = "cut" /\ counted("data")
        /\ sampleIndex' = sampleIndex + SamplesPerPacket
        /\ UNCHANGED <<started, nextContext, nextVersion>>
    BY <1>6 DEF SendData, Proceed, SendPacket, StreamInv, StreamContinuous
  <2>2. /\ relayed' \in [Streams -> Nat]
        /\ relayed'["context"] = relayed["context"]
        /\ relayed'["version"] = relayed["version"]
    BY <1>0, <2>1
  <2>3. /\ InStep(nextContext, ContextInterval, relayed["context"], TRUE)
        /\ InStep(nextVersion, VersionInterval, relayed["version"], TRUE)
    BY <2>1 DEF Clocks
  <2>4. Clocks'
    BY <2>1, <2>2, <2>3, Intervals DEF Clocks, InStep
  <2> QED
    BY <2>1, <2>2, <2>4, Intervals
<1> QED
  BY <1>1, <1>2, <1>3, <1>4, <1>5, <1>6 DEF Send

LEMMA CadenceStep == CadenceInv /\ StreamInv /\ [SenderNext]_senderVars => CadenceInv'
<1> SUFFICES ASSUME CadenceInv, StreamInv, [SenderNext]_senderVars PROVE CadenceInv'
  OBVIOUS
<1> USE DEF CadenceInv, ClockTypes
<1> DEFINE same == UNCHANGED <<started, sampleIndex, nextContext, nextVersion, relayed>>
<1>1. CASE \E outcome \in Outcomes : Send(outcome)
  BY <1>1, CadenceSend
<1>2. CASE Cancel \/ UNCHANGED senderVars
  <2>1. same /\ pc' = pc
    BY <1>2 DEF Cancel, wireVars, senderVars, loopVars
  <2> QED
    BY <2>1 DEF Clocks, InStep
<1>3. CASE TakeIQFrame
  <2>1. same /\ pc = "frame" /\ pc' = IF started THEN "cut" ELSE "startContext"
    BY <1>3 DEF TakeIQFrame, wireVars
  <2> QED
    BY <2>1 DEF Clocks, InStep
<1>4. CASE Stop
  <2>1. same /\ pc' = "ended"
    BY <1>4 DEF Stop, Ends, wireVars
  <2> QED
    BY <2>1
<1>5. CASE CutPacket
  <2>1. same /\ pc = "cut" /\ pc' = "context"
    BY <1>5 DEF CutPacket, wireVars
  <2> QED
    BY <2>1 DEF Clocks, InStep
<1>6. CASE FinishFrame
  <2>1. same /\ pc = "cut" /\ pc' = "frame"
    BY <1>6 DEF FinishFrame, wireVars
  <2> QED
    BY <2>1 DEF Clocks, InStep
<1>7. CASE SkipContext
  <2>1. same /\ pc = "context" /\ pc' = "version" /\ sampleIndex < nextContext
    BY <1>7 DEF SkipContext, ContextDue, loopVars, wireVars
  <2> QED
    BY <2>1 DEF Clocks, InStep
<1>8. CASE SkipVersion
  <2>1. same /\ pc = "version" /\ pc' = "data" /\ sampleIndex < nextVersion
    BY <1>8 DEF SkipVersion, VersionDue, loopVars, wireVars
  <2> QED
    BY <2>1 DEF Clocks, InStep
<1> QED
  BY <1>1, <1>2, <1>3, <1>4, <1>5, <1>6, <1>7, <1>8 DEF SenderNext, Work

\* Contexts and versions keep to the sample clock for ever: their numbers are
\* those of the intervals begun, however long the stream runs.
THEOREM CadenceIsKept == SenderSpec => []Cadence
<1>1. CadenceInv => Cadence
  <2> SUFFICES ASSUME CadenceInv, pc = "data"
               PROVE  /\ relayed["context"] = 1 + sampleIndex \div ContextInterval
                      /\ relayed["version"] = 1 + sampleIndex \div VersionInterval
    BY DEF Cadence
  <2> DEFINE c == relayed["context"]
             v == relayed["version"]
  <2>1. c \in Nat /\ v \in Nat /\ sampleIndex \in Nat
    BY DEF CadenceInv, ClockTypes, Streams
  <2>2. /\ InStep(nextContext, ContextInterval, c, TRUE)
        /\ InStep(nextVersion, VersionInterval, v, TRUE)
    BY DEF CadenceInv, Clocks
  <2> HIDE DEF c, v
  <2>3. /\ ContextInterval * c - ContextInterval <= sampleIndex
        /\ sampleIndex < ContextInterval * c
        /\ VersionInterval * v - VersionInterval <= sampleIndex
        /\ sampleIndex < VersionInterval * v
    BY <2>1, <2>2, Intervals DEF InStep
  <2>4. c = 1 + sampleIndex \div ContextInterval
    BY <2>1, <2>3, Intervals, InStepCounts, Zenon
  <2>5. v = 1 + sampleIndex \div VersionInterval
    BY <2>1, <2>3, Intervals, InStepCounts, Zenon
  <2> QED
    BY <2>4, <2>5 DEF c, v
<1> QED
  BY <1>1, StreamInit, StreamStep, CadenceInit, CadenceStep, PTL DEF SenderSpec

-----------------------------------------------------------------------------
(* All types together.                                                     *)

RestTypes ==
  /\ cancelled \in BOOLEAN /\ holding \in BOOLEAN
  /\ taken \in 0 .. MaxSentFrames

LEMMA RestStep == RestTypes /\ [SenderNext]_senderVars => RestTypes'
<1> SUFFICES ASSUME RestTypes, [SenderNext]_senderVars PROVE RestTypes'
  OBVIOUS
<1> USE DEF RestTypes
<1>0. MaxSentFrames \in Nat
  BY SenderAssumption DEF SenderAssumption
<1>1. CASE \E outcome \in Outcomes : Send(outcome)
  <2>1. UNCHANGED <<cancelled, taken>> /\ (holding' = FALSE \/ holding' = holding)
    BY <1>1 DEF Send, StartContext, StartVersion, SendContext, SendVersion, SendData,
                Proceed, Ends
  <2> QED
    BY <2>1
<1>2. CASE TakeIQFrame
  BY <1>0, <1>2 DEF TakeIQFrame
<1>3. CASE Cancel
  BY <1>3 DEF Cancel
<1>4. CASE Stop \/ CutPacket \/ SkipContext \/ SkipVersion \/ FinishFrame \/ UNCHANGED senderVars
  <2>1. UNCHANGED <<cancelled, taken>> /\ (holding' = FALSE \/ holding' = holding)
    BY <1>4 DEF Stop, Ends, CutPacket, SkipContext, SkipVersion, FinishFrame, loopVars, senderVars
  <2> QED
    BY <2>1
<1> QED
  BY <1>1, <1>2, <1>3, <1>4 DEF SenderNext, Work

\* Every variable of the sender keeps its type.
THEOREM SenderTypes == SenderSpec => []SenderTypeOK
<1>1. SenderInit => RestTypes
  <2>1. MaxSentFrames \in Nat
    BY SenderAssumption DEF SenderAssumption
  <2>2. SenderInit => cancelled \in BOOLEAN /\ holding \in BOOLEAN
    BY Zenon DEF SenderInit
  <2>3. SenderInit => taken = 0
    BY Zenon DEF SenderInit
  <2>4. 0 \in 0 .. MaxSentFrames
    BY <2>1
  <2> QED
    BY <2>2, <2>3, <2>4, Zenon DEF RestTypes
<1>2. StreamInv /\ WireInv /\ CadenceInv /\ RestTypes => SenderTypeOK
  BY DEF SenderTypeOK, StreamInv, StreamTypes, WireInv, WireTypes, CadenceInv, ClockTypes,
         RestTypes
<1> QED
  BY <1>1, <1>2, RestStep, StreamInit, StreamStep, WireInit, WireStep, CadenceInit,
     CadenceStep, PTL DEF SenderSpec

-----------------------------------------------------------------------------
(* The input queue.                                                        *)

USE InputAssumption DEF InputAssumption

\* The variables the queue's invariant is about.
queueView == <<nextInput, queue, writer, nextSequence>>

QueueTypes ==
  /\ nextInput \in Nat /\ nextSequence \in Nat
  /\ queue \in Seq(Int) /\ Len(queue) <= QueueCapacity
  /\ writer \in {"idle", "full", "dropped"}
  /\ writer # "idle" => nextInput > 0

QueueInv == QueueTypes /\ QueueIsNewest /\ SendNeverWaits

LEMMA QueueInit == Init => QueueInv
<1> SUFFICES ASSUME Init PROVE QueueInv
  OBVIOUS
<1>1. <<>> \in Seq(Int) /\ Len(<<>>) = 0
  BY EmptySeq
<1> QED
  BY <1>1 DEF Init, QueueInv, QueueTypes, QueueIsNewest, SendNeverWaits

LEMMA AppendRun ==
  ASSUME NEW s \in Seq(Int), NEW x \in Int
  PROVE  /\ Append(s, x) \in Seq(Int)
         /\ Len(Append(s, x)) = Len(s) + 1
         /\ \A i \in 1 .. Len(s) : Append(s, x)[i] = s[i]
         /\ Append(s, x)[Len(s) + 1] = x
BY AppendProperties

LEMMA QueueEnqueue == QueueInv /\ EnqueueFrame => QueueInv'
<1> SUFFICES ASSUME QueueInv, EnqueueFrame PROVE QueueInv'
  OBVIOUS
<1> USE DEF QueueInv, QueueTypes
<1>1. /\ writer = "idle" /\ nextInput' = nextInput + 1 /\ nextSequence' = nextSequence
      /\ Len(queue) \in Nat
      /\ \A i \in 1 .. Len(queue) : queue[i] = nextInput - 1 - Len(queue) + i
      /\ nextSequence <= nextInput - Len(queue)
  BY LenProperties DEF EnqueueFrame, bufferVars, QueueIsNewest, Queued, Newest
<1>2. CASE Len(queue) < QueueCapacity
  <2>1. queue' = Append(queue, nextInput) /\ writer' = "idle"
    BY <1>1, <1>2 DEF EnqueueFrame
  <2>2. /\ queue' \in Seq(Int) /\ Len(queue') = Len(queue) + 1
        /\ \A i \in 1 .. Len(queue) : queue'[i] = queue[i]
        /\ queue'[Len(queue) + 1] = nextInput
    BY <2>1, AppendRun
  <2>3. ASSUME NEW i \in 1 .. Len(queue')
        PROVE  queue'[i] = nextInput - Len(queue') + i
    <3>1. CASE i \in 1 .. Len(queue)
      BY <1>1, <2>2, <3>1
    <3>2. CASE i = Len(queue) + 1
      BY <1>1, <2>2, <3>2
    <3> QED
      BY <1>1, <2>2, <3>1, <3>2
  <2>4. nextInput' - 1 = nextInput
    BY <1>1
  <2>5. QueueIsNewest'
    BY <1>1, <2>1, <2>2, <2>3, <2>4 DEF QueueIsNewest, Queued, Newest
  <2> QED
    BY <1>1, <1>2, <2>1, <2>2, <2>5 DEF SendNeverWaits
<1>3. CASE ~(Len(queue) < QueueCapacity)
  <2>1. queue' = queue /\ writer' = "full"
    BY <1>1, <1>3 DEF EnqueueFrame
  <2>2. QueueIsNewest'
    BY <1>1, <2>1 DEF QueueIsNewest, Queued, Newest
  <2> QED
    BY <1>1, <2>1, <2>2 DEF SendNeverWaits
<1> QED
  BY <1>2, <1>3

\* Taking the oldest frame, to drop it or to synthesize it.
LEMMA QueueTail ==
  ASSUME QueueInv, queue # <<>>, queue' = Tail(queue)
  PROVE  /\ queue' \in Seq(Int) /\ Len(queue') = Len(queue) - 1 /\ Len(queue) \in Nat \ {0}
         /\ \A i \in 1 .. Len(queue') : queue'[i] = queue[i + 1]
         /\ Head(queue) = Queued - Len(queue) + 1
<1>1. queue \in Seq(Int) /\ Len(queue) \in Nat \ {0}
  BY EmptySeq DEF QueueInv, QueueTypes
<1>2. Head(queue) = queue[1]
  BY <1>1
<1> QED
  BY <1>1, <1>2, HeadTailProperties DEF QueueInv, QueueIsNewest

LEMMA QueueDropOldest == QueueInv /\ DropOldest => QueueInv'
<1> SUFFICES ASSUME QueueInv, DropOldest PROVE QueueInv'
  OBVIOUS
<1> USE DEF QueueInv, QueueTypes
<1>1. /\ writer = "full" /\ writer' = "dropped"
      /\ UNCHANGED <<nextInput, nextSequence>>
      /\ Len(queue) \in Nat /\ QueueCapacity \in Nat \ {0}
  BY LenProperties DEF DropOldest, bufferVars
<1>2. CASE queue = <<>>
  <2>1. queue' = queue /\ Len(queue) = 0
    BY <1>2, EmptySeq DEF DropOldest
  <2> QED
    BY <1>1, <2>1 DEF QueueIsNewest, SendNeverWaits, Queued, Newest
<1>3. CASE queue # <<>>
  <2>1. queue' = Tail(queue)
    BY <1>3 DEF DropOldest
  <2>2. /\ queue' \in Seq(Int) /\ Len(queue') = Len(queue) - 1
        /\ \A i \in 1 .. Len(queue') : queue'[i] = queue[i + 1]
    BY <1>3, <2>1, QueueTail
  <2>3. QueueIsNewest'
    BY <1>1, <2>2, SMTT(30) DEF QueueIsNewest, Queued, Newest
  <2> QED
    BY <1>1, <2>2, <2>3 DEF SendNeverWaits
<1> QED
  BY <1>2, <1>3

LEMMA QueueSendAfterDrop == QueueInv /\ SendAfterDrop => QueueInv'
<1> SUFFICES ASSUME QueueInv, SendAfterDrop PROVE QueueInv'
  OBVIOUS
<1> USE DEF QueueInv, QueueTypes
<1>1. /\ writer = "dropped" /\ writer' = "idle" /\ Len(queue) < QueueCapacity
      /\ queue' = Append(queue, nextInput - 1)
      /\ UNCHANGED <<nextInput, nextSequence>>
      /\ Len(queue) \in Nat
      /\ \A i \in 1 .. Len(queue) : queue[i] = nextInput - 2 - Len(queue) + i
      /\ nextSequence <= nextInput - Len(queue) - 1
  BY LenProperties DEF SendAfterDrop, bufferVars, QueueIsNewest, Queued, Newest
<1>2. /\ queue' \in Seq(Int) /\ Len(queue') = Len(queue) + 1
      /\ \A i \in 1 .. Len(queue) : queue'[i] = queue[i]
      /\ queue'[Len(queue) + 1] = nextInput - 1
  BY <1>1, AppendRun
<1>3. ASSUME NEW i \in 1 .. Len(queue')
      PROVE  queue'[i] = nextInput - 1 - Len(queue') + i
  <2>1. CASE i \in 1 .. Len(queue)
    BY <1>1, <1>2, <2>1
  <2>2. CASE i = Len(queue) + 1
    BY <1>1, <1>2, <2>2
  <2> QED
    BY <1>1, <1>2, <2>1, <2>2
<1>4. QueueIsNewest'
  BY <1>1, <1>2, <1>3 DEF QueueIsNewest, Queued, Newest
<1> QED
  BY <1>1, <1>2, <1>4 DEF SendNeverWaits

\* The frame received is never older than what the buffer has: its place in the
\* stream is the one behind the frames concealed.
LEMMA QueueReceive == QueueInv /\ ReceiveInput => QueueInv'
<1> SUFFICES ASSUME QueueInv, ReceiveInput PROVE QueueInv'
  OBVIOUS
<1> USE DEF QueueInv, QueueTypes
<1>1. /\ queue # <<>> /\ queue' = Tail(queue) /\ AppendFrame(Head(queue))
      /\ UNCHANGED <<nextInput, writer>>
  BY DEF ReceiveInput
<1>2. /\ queue' \in Seq(Int) /\ Len(queue') = Len(queue) - 1 /\ Len(queue) \in Nat \ {0}
      /\ \A i \in 1 .. Len(queue') : queue'[i] = queue[i + 1]
      /\ Head(queue) = Queued - Len(queue) + 1
  BY <1>1, QueueTail
<1>3. Queued' = Queued /\ Queued \in Int
  BY <1>1 DEF Queued, Newest
<1>4. Queued = nextInput - 1 - (IF writer = "idle" THEN 0 ELSE 1)
  BY DEF Queued, Newest
<1>5. nextSequence <= Head(queue)
  BY <1>2, <1>4 DEF QueueIsNewest
<1>6. nextSequence' = Head(queue) + 1
  <2>1. ~(Head(queue) < nextSequence)
    BY <1>2, <1>3, <1>5
  <2> HIDE DEF QueueInv
  <2> QED
    BY <1>1, <2>1, Zenon DEF AppendFrame
<1>7. nextSequence' \in Nat
  BY <1>2, <1>3, <1>5, <1>6
<1>8. nextSequence' <= nextInput' - Len(queue') - (IF writer' = "idle" THEN 0 ELSE 1)
  BY <1>1, <1>2, <1>4, <1>6
<1>9. \A i \in 1 .. Len(queue') : queue'[i] = Queued' - Len(queue') + i
  BY <1>2, <1>3 DEF QueueIsNewest
<1>10. QueueIsNewest'
  BY <1>8, <1>9 DEF QueueIsNewest
<1> QED
  BY <1>1, <1>2, <1>7, <1>10 DEF SendNeverWaits

LEMMA QueueStep == QueueInv /\ [Next]_vars => QueueInv'
<1> SUFFICES ASSUME QueueInv, [Next]_vars PROVE QueueInv'
  OBVIOUS
<1>1. CASE EnqueueFrame
  BY <1>1, QueueEnqueue
<1>2. CASE DropOldest
  BY <1>2, QueueDropOldest
<1>3. CASE SendAfterDrop
  BY <1>3, QueueSendAfterDrop
<1>4. CASE ReceiveInput
  BY <1>4, QueueReceive
<1>5. CASE Filled \/ Synthesize \/ Output \/ Sender \/ UNCHANGED vars
  <2>1. UNCHANGED queueView
    BY <1>5 DEF Filled, Synthesize, Output, Sender, TakeFrame, RecycleFrame, vars, inputVars,
                bufferVars, queueView
  <2> QED
    BY <2>1 DEF queueView, QueueInv, QueueTypes, QueueIsNewest, SendNeverWaits, Queued,
                Newest
<1> QED
  BY <1>1, <1>2, <1>3, <1>4, <1>5 DEF Next, Writer, Synthesizer

\* Overload costs the oldest frames: whatever the capacity, the queue holds the
\* newest frames in order and nothing the synthesizer has passed already.
THEOREM QueueHoldsNewest == Spec => []QueueIsNewest
<1>1. QueueInv => QueueIsNewest
  BY DEF QueueInv
<1> QED
  BY <1>1, QueueInit, QueueStep, PTL DEF Spec

\* WriteFrame, which holds the streamer's mutex, always finds room for the frame
\* after dropping one.
THEOREM WriteFrameNeverWaits == Spec => []SendNeverWaits
<1>1. QueueInv => SendNeverWaits
  BY DEF QueueInv
<1> QED
  BY <1>1, QueueInit, QueueStep, PTL DEF Spec

\* Both together: what the emulator and the synthesizer rely on of the queue.
THEOREM QueueIsSound == Spec => []QueueSound
<1>1. QueueIsNewest /\ SendNeverWaits => QueueSound
  BY DEF QueueSound
<1> QED
  BY <1>1, QueueHoldsNewest, WriteFrameNeverWaits, PTL

-----------------------------------------------------------------------------
(* The IQ buffers: pool, synthesizer, channel and sender.                  *)

\* A frame is with the synthesizer exactly while it waits to hand it over.  S is what
\* the frames made so far are, whatever was synthesized into them.
BuffersIn(S) ==
  /\ pool \in Nat /\ sending \in BOOLEAN
  /\ frames \in Seq(S) /\ iq \in Seq(S)
  /\ Len(iq) = IF synth = "output" THEN 1 ELSE 0

BufferInv == (\E S : BuffersIn(S)) /\ BuffersConserved

bufferView == <<pool, iq, frames, sending, synth>>

LEMMA BufferInit == Init => BufferInv
<1> SUFFICES ASSUME Init PROVE BufferInv
  OBVIOUS
<1>1. <<>> \in Seq({}) /\ Len(<<>>) = 0
  BY EmptySeq
<1>2. /\ pool = PoolSize /\ sending = FALSE /\ frames = <<>> /\ iq = <<>> /\ synth = "fill"
      /\ Len(frames) = 0 /\ Len(iq) = 0
  BY <1>1 DEF Init
<1>3. BuffersIn({})
  BY <1>1, <1>2 DEF BuffersIn
<1> QED
  BY <1>2, <1>3 DEF BufferInv, BuffersConserved

LEMMA BufferSynthesize == BufferInv /\ Synthesize => BufferInv'
<1> SUFFICES ASSUME BufferInv, Synthesize PROVE BufferInv'
  OBVIOUS
<1>1. PICK S : BuffersIn(S)
  BY DEF BufferInv
<1>2. PICK f : iq' = <<f>>
  BY Zenon DEF Synthesize
<1>3. /\ synth = "buffer" /\ synth' = "output" /\ pool > 0 /\ pool' = pool - 1
      /\ UNCHANGED <<frames, sending>>
  BY DEF Synthesize
<1>4. frames' \in Seq(S \union {f})
  BY <1>1, <1>3, SeqMonotonic DEF BuffersIn
<1>5. iq' \in Seq(S \union {f}) /\ Len(iq') = 1
  BY <1>2
<1>6. BuffersIn(S \union {f})'
  BY <1>1, <1>3, <1>4, <1>5 DEF BuffersIn
<1>7. BuffersConserved'
  <2>1. Len(iq) = 0 /\ Len(frames) \in Nat /\ pool \in Nat
    BY <1>1, <1>3, LenProperties DEF BuffersIn
  <2> QED
    BY <1>3, <1>5, <2>1 DEF BufferInv, BuffersConserved
<1> QED
  BY <1>6, <1>7 DEF BufferInv

LEMMA BufferOutput == BufferInv /\ Output => BufferInv'
<1> SUFFICES ASSUME BufferInv, Output PROVE BufferInv'
  OBVIOUS
<1>1. PICK S : BuffersIn(S)
  BY DEF BufferInv
<1>2. /\ synth = "output" /\ synth' = "fill" /\ frames' = frames \o iq /\ iq' = <<>>
      /\ UNCHANGED <<pool, sending>>
  BY DEF Output
<1>3. /\ frames' \in Seq(S) /\ Len(frames') = Len(frames) + Len(iq)
      /\ iq' \in Seq(S) /\ Len(iq') = 0 /\ Len(iq) = 1 /\ Len(frames) \in Nat
  BY <1>1, <1>2, ConcatProperties, EmptySeq, LenProperties DEF BuffersIn
<1>4. BuffersIn(S)'
  BY <1>1, <1>2, <1>3 DEF BuffersIn
<1>5. BuffersConserved'
  BY <1>1, <1>2, <1>3 DEF BufferInv, BuffersConserved, BuffersIn
<1> QED
  BY <1>4, <1>5 DEF BufferInv

LEMMA BufferSender == BufferInv /\ Sender => BufferInv'
<1> SUFFICES ASSUME BufferInv, Sender PROVE BufferInv'
  OBVIOUS
<1>1. PICK S : BuffersIn(S)
  BY DEF BufferInv
<1>2. UNCHANGED <<iq, synth>>
  BY DEF Sender, TakeFrame, RecycleFrame
<1>3. /\ Len(iq) \in Nat /\ Len(frames) \in Nat /\ pool \in Nat
      /\ pool + Len(iq) + Len(frames) + (IF sending THEN 1 ELSE 0) = PoolSize
  BY <1>1, LenProperties DEF BuffersIn, BufferInv, BuffersConserved
<1>4. CASE TakeFrame
  <2>1. ~sending /\ frames # <<>> /\ frames' = Tail(frames) /\ sending' /\ pool' = pool
    BY <1>4 DEF TakeFrame
  <2>2. frames' \in Seq(S) /\ Len(frames') = Len(frames) - 1
    BY <1>1, <2>1, HeadTailProperties DEF BuffersIn
  <2>3. BuffersIn(S)'
    BY <1>1, <1>2, <1>4, <2>1, <2>2 DEF BuffersIn, TakeFrame
  <2>4. pool' + Len(iq') + Len(frames') + 1 = PoolSize
    BY <1>2, <1>3, <2>1, <2>2
  <2>5. BuffersConserved'
    BY <2>1, <2>4 DEF BuffersConserved
  <2> QED
    BY <2>3, <2>5 DEF BufferInv
<1>5. CASE RecycleFrame
  <2>1. sending /\ ~sending' /\ pool' = pool + 1 /\ frames' = frames
    BY <1>5 DEF RecycleFrame
  <2>2. BuffersIn(S)'
    <3>1. pool' \in Nat
      BY <1>3, <2>1
    <3>2. sending' \in BOOLEAN
      BY <1>5 DEF RecycleFrame
    <3> QED
      BY <1>1, <1>2, <2>1, <3>1, <3>2 DEF BuffersIn
  <2>3. pool' + Len(iq') + Len(frames') + 0 = PoolSize
    BY <1>2, <1>3, <2>1
  <2>4. BuffersConserved'
    BY <2>1, <2>3 DEF BuffersConserved
  <2> QED
    BY <2>2, <2>4 DEF BufferInv
<1> QED
  BY <1>4, <1>5 DEF Sender

LEMMA BufferStep == BufferInv /\ [Next]_vars => BufferInv'
<1> SUFFICES ASSUME BufferInv, [Next]_vars PROVE BufferInv'
  OBVIOUS
<1>1. CASE Synthesize
  BY <1>1, BufferSynthesize
<1>2. CASE Output
  BY <1>2, BufferOutput
<1>3. CASE Sender
  BY <1>3, BufferSender
<1>4. CASE Writer \/ ReceiveInput \/ UNCHANGED vars
  <2>1. UNCHANGED bufferView
    BY <1>4 DEF Writer, EnqueueFrame, DropOldest, SendAfterDrop, ReceiveInput, vars, bufferView
  <2> QED
    BY <2>1 DEF bufferView, BufferInv, BuffersIn, BuffersConserved
<1>5. CASE Filled
  <2>1. synth = "fill" /\ synth' = "buffer" /\ UNCHANGED <<pool, iq, frames, sending>>
    BY <1>5 DEF Filled
  <2> QED
    BY <2>1 DEF BufferInv, BuffersIn, BuffersConserved
<1> QED
  BY <1>1, <1>2, <1>3, <1>4, <1>5 DEF Next, Synthesizer

\* No buffer is lost or made up between pool, synthesizer, channel and sender, for every
\* size of pool and channel: handing one back never waits.
THEOREM NoBufferIsLost == Spec => []BuffersConserved
<1>1. BufferInv => BuffersConserved
  BY DEF BufferInv
<1> QED
  BY <1>1, BufferInit, BufferStep, PTL DEF Spec

HIDE InputAssumption DEF InputAssumption

-----------------------------------------------------------------------------
(* Picture and sound of what is put out.  The queue's frames follow each   *)
(* other, so what lies between the synthesizer's buffer and the queue is   *)
(* what was thrown away (GapInv); the buffer holds the emulator's sound    *)
(* from the start of the next slice and the picture of every frame it may  *)
(* still show (AudioInv, VideoInv); an RF frame takes both from frames     *)
(* that nobody can throw away any more (Settled).                          *)

LEMMA Products ==
  ASSUME NEW q \in Nat, NEW a \in Int, NEW b \in Int
  PROVE  q * a \in Int /\ q * (a + b) = q * a + q * b /\ (a <= b => q * a <= q * b)
OBVIOUS

LEMMA Quotients ==
  ASSUME NEW q \in Nat \ {0}, NEW p \in Int
  PROVE  p \div q \in Int /\ q * (p \div q) <= p /\ p < q * (p \div q) + q
OBVIOUS

\* Where a position lies tells its quotient.
LEMMA QuotientBounds ==
  ASSUME NEW q \in Nat \ {0}, NEW p \in Int, NEW n \in Int
  PROVE  (p < q * n => p \div q < n) /\ (q * n <= p => n <= p \div q)
<1> DEFINE d == p \div q
<1>1. d \in Int /\ q * d <= p /\ p < q * d + q /\ q * (d + 1) = q * d + q /\ q * n \in Int
  BY Quotients, Products
<1>2. (n <= d => q * n <= q * d) /\ (d + 1 <= n => q * (d + 1) <= q * n)
  BY <1>1, Products
<1> HIDE DEF d
<1>3. q * d \in Int /\ q * (d + 1) \in Int
  BY <1>1, Products
<1>4. p < q * n => d < n
  BY <1>1, <1>2, <1>3
<1>5. q * n <= p => n <= d
  BY <1>1, <1>2, <1>3
<1> QED
  BY <1>4, <1>5 DEF d

LEMMA QuotientGrows ==
  ASSUME NEW q \in Nat \ {0}, NEW a \in Nat, NEW b \in Nat, a <= b
  PROVE  a \div q \in Nat /\ a \div q <= b \div q
<1>1. a \div q \in Int /\ q * (a \div q) <= a /\ b \div q \in Int
  BY Quotients
<1>2. a \div q <= b \div q
  <2> DEFINE d == a \div q
  <2>1. q * d <= b /\ d \in Int
    <3>1. d \in Int /\ q * d <= a /\ q * d \in Int
      BY <1>1, Products
    <3> HIDE DEF d
    <3> QED
      BY <3>1
  <2> HIDE DEF d
  <2>2. d <= b \div q
    BY <2>1, QuotientBounds
  <2> QED
    BY <2>2 DEF d
<1>3. 0 <= a \div q
  <2>1. q * 0 <= a
    OBVIOUS
  <2> QED
    BY <2>1, QuotientBounds
<1> QED
  BY <1>1, <1>2, <1>3

\* The cadence goes forward, in pictures and in samples.
LEMMA CadenceGrows ==
  ASSUME InputAssumption, NEW m \in Nat, NEW n \in Nat, m <= n
  PROVE  /\ SourceFieldIndex(m) \in Nat /\ SourceFieldIndex(m) <= SourceFieldIndex(n)
         /\ AudioStart(m) \in Nat /\ AudioStart(m) <= AudioStart(n)
<1>1. /\ FieldNum \in Nat /\ FieldDen \in Nat \ {0} /\ AudioNum \in Nat /\ AudioDen \in Nat \ {0}
  BY DEF InputAssumption
<1>2. ASSUME NEW q \in Nat
      PROVE  m * q \in Nat /\ n * q \in Nat /\ m * q <= n * q
  BY Products
<1>3. /\ (m * FieldNum) \div FieldDen \in Nat
      /\ (m * FieldNum) \div FieldDen <= (n * FieldNum) \div FieldDen
  BY <1>1, <1>2, QuotientGrows
<1>4. /\ (m * AudioNum) \div AudioDen \in Nat
      /\ (m * AudioNum) \div AudioDen <= (n * AudioNum) \div AudioDen
  BY <1>1, <1>2, QuotientGrows
<1> QED
  BY <1>3, <1>4 DEF SourceFieldIndex, AudioStart

LEMMA MaxIs ==
  ASSUME NEW S, S \subseteq Int, NEW x \in S, \A y \in S : y <= x
  PROVE  Max(S) = x
<1>1. x \in S /\ \A y \in S : x >= y
  OBVIOUS
<1>2. Max(S) \in S /\ \A y \in S : Max(S) >= y
  BY <1>1, Zenon DEF Max
<1> DEFINE m == Max(S)
<1>3. m \in Int /\ x \in Int /\ m >= x /\ m <= x
  BY <1>2
<1> HIDE DEF m
<1>4. m = x
  BY <1>3
<1> QED
  BY <1>4 DEF m

LEMMA RepeatIs ==
  ASSUME NEW T, NEW x \in T, NEW n \in Nat
  PROVE  /\ Repeat(x, n) \in Seq(T) /\ Len(Repeat(x, n)) = n
         /\ \A k \in 1 .. n : Repeat(x, n)[k] = x
BY DEF Repeat

\* What append puts behind the sound it has.
LEMMA RunsAppended ==
  ASSUME NEW T, NEW a \in Seq(T), NEW r \in Seq(T), NEW t \in Seq(T)
  PROVE  /\ (a \o r) \o t \in Seq(T) /\ Len((a \o r) \o t) = Len(a) + Len(r) + Len(t)
         /\ \A k \in 1 .. Len(a) : ((a \o r) \o t)[k] = a[k]
         /\ \A k \in 1 .. Len(r) : ((a \o r) \o t)[Len(a) + k] = r[k]
         /\ \A k \in 1 .. Len(t) : ((a \o r) \o t)[Len(a) + Len(r) + k] = t[k]
<1> DEFINE b == a \o r
<1>1. Len(a) \in Nat /\ Len(r) \in Nat /\ Len(t) \in Nat
  BY LenProperties
<1>2. /\ b \in Seq(T) /\ Len(b) = Len(a) + Len(r)
      /\ \A k \in 1 .. Len(a) + Len(r) : b[k] = IF k <= Len(a) THEN a[k] ELSE r[k - Len(a)]
  BY ConcatProperties
<1> HIDE DEF b
<1> DEFINE s == b \o t
<1>3. /\ s \in Seq(T) /\ Len(s) = Len(b) + Len(t)
      /\ \A k \in 1 .. Len(b) + Len(t) : s[k] = IF k <= Len(b) THEN b[k] ELSE t[k - Len(b)]
  <2>1. b \in Seq(T)
    BY <1>2
  <2> QED
    BY <2>1, ConcatProperties
<1> HIDE DEF s
<1>4. ASSUME NEW k \in 1 .. Len(a)
      PROVE  s[k] = a[k]
  BY <1>1, <1>2, <1>3
<1>5. ASSUME NEW k \in 1 .. Len(r)
      PROVE  s[Len(a) + k] = r[k]
  <2> DEFINE i == Len(a) + k
  <2>1. i - Len(a) = k /\ ~(i <= Len(a)) /\ i <= Len(b)
    BY <1>1, <1>2
  <2>2. i \in 1 .. Len(a) + Len(r) /\ i \in 1 .. Len(b) + Len(t)
    BY <1>1, <1>2
  <2> HIDE DEF i
  <2>3. b[i] = r[k]
    BY <1>2, <2>1, <2>2
  <2>4. s[i] = b[i]
    BY <1>3, <2>1, <2>2
  <2> QED
    BY <2>3, <2>4 DEF i
<1>6. ASSUME NEW k \in 1 .. Len(t)
      PROVE  s[Len(a) + Len(r) + k] = t[k]
  <2> DEFINE i == Len(a) + Len(r) + k
  <2>1. i - Len(b) = k /\ ~(i <= Len(b)) /\ i \in 1 .. Len(b) + Len(t)
    BY <1>1, <1>2
  <2> HIDE DEF i
  <2>2. s[i] = t[k]
    BY <1>3, <2>1
  <2> QED
    BY <2>2 DEF i
<1>7. s \in Seq(T) /\ Len(s) = Len(a) + Len(r) + Len(t)
  BY <1>2, <1>3
<1> QED
  BY <1>4, <1>5, <1>6, <1>7 DEF s, b

-----------------------------------------------------------------------------
Samples == Source \union {Silence}

OutputTypes ==
  /\ nextInput \in 0 .. MaxFrames /\ nextSequence \in 0 .. MaxFrames
  /\ queue \in Seq(Source) /\ dropped \subseteq Source
  /\ audio \in Seq(Samples) /\ audioHead \in 0 .. Len(audio)
  /\ synth \in {"fill", "buffer", "output"} /\ outputFrame \in Nat
  /\ iq \in Seq(IQFrames) /\ frames \in Seq(IQFrames) /\ Len(frames) <= FrameCapacity
  /\ lastRGB \in Source \union {Nothing}

\* Of the frames the buffer has not got, those ahead of the queue were thrown away; the
\* last one it has got was not.
GapInv ==
  /\ \A i \in nextSequence .. MaxFrames : i \in dropped <=> i <= Queued - Len(queue)
  /\ nextSequence = 0 => lastRGB = Nothing
  /\ nextSequence > 0 => lastRGB = nextSequence - 1 /\ lastRGB \notin dropped

\* The position in the emulator's sound at which the buffer starts.
Base == AudioStart(outputFrame) - audioHead

AudioInv ==
  /\ Len(audio) + Base = SamplesPerInput * nextSequence
  /\ \A k \in 1 .. Len(audio) : audio[k] = Heard(Base + k - 1)

VideoInv ==
  /\ DOMAIN video \subseteq 0 .. nextSequence - 1
  /\ FirstIndex .. nextSequence - 1 \subseteq DOMAIN video
  /\ \A i \in DOMAIN video : video[i] = Shown(i) /\ video[i] \in Pictures

Settled(f) ==
  /\ SourceFieldIndex(2 * f.n + 1) < nextSequence
  /\ AudioStart(f.n) + Len(f.audio) <= SamplesPerInput * nextSequence

Good(s) == \A i \in 1 .. Len(s) : Faithful(s[i]) /\ Settled(s[i])

OutputInv ==
  /\ OutputTypes /\ GapInv /\ AudioInv /\ VideoInv
  /\ synth # "fill" => ~NeedsInput
  /\ Good(iq) /\ Good(frames)

-----------------------------------------------------------------------------
(* What has been received is never thrown away afterwards.                 *)

SamePast == \A i \in Int : i < nextSequence => (i \in dropped <=> i \in dropped')

LEMMA PastShown ==
  ASSUME InputAssumption, nextSequence \in Int, SamePast, dropped \subseteq Int,
         dropped' \subseteq Int
  PROVE  /\ \A i \in Int : i < nextSequence => Shown(i)' = Shown(i)
         /\ \A p \in Int : p < SamplesPerInput * nextSequence => Heard(p)' = Heard(p)
<1>1. ASSUME NEW i \in Int, i < nextSequence
      PROVE  Shown(i)' = Shown(i)
  <2>1. (0 .. i) \ dropped = (0 .. i) \ dropped'
    BY <1>1 DEF SamePast
  <2> QED
    BY <2>1, Zenon DEF Shown
<1>2. ASSUME NEW p \in Int, p < SamplesPerInput * nextSequence
      PROVE  Heard(p)' = Heard(p)
  <2>1. SamplesPerInput \in Nat \ {0}
    BY DEF InputAssumption
  <2>2. p \div SamplesPerInput < nextSequence /\ p \div SamplesPerInput \in Int
    BY <1>2, <2>1, QuotientBounds, Quotients
  <2> DEFINE d == p \div SamplesPerInput
  <2>3. d \in dropped <=> d \in dropped'
    BY <2>2 DEF SamePast
  <2> QED
    BY <2>3, Zenon DEF Heard
<1> QED
  BY <1>1, <1>2

\* A frame put out stays right.
LEMMA PastFaithful ==
  ASSUME InputAssumption, nextSequence \in Nat, nextSequence' \in Nat,
         nextSequence <= nextSequence', SamePast, dropped \subseteq Int, dropped' \subseteq Int,
         NEW f \in IQFrames, Faithful(f), Settled(f)
  PROVE  Faithful(f)' /\ Settled(f)'
<1>1. /\ \A i \in Int : i < nextSequence => Shown(i)' = Shown(i)
      /\ \A p \in Int : p < SamplesPerInput * nextSequence => Heard(p)' = Heard(p)
  BY PastShown
<1>2. /\ f.n \in Nat /\ f.audio \in Seq(Samples) /\ Len(f.audio) \in Nat
  BY LenProperties DEF IQFrames, Samples
<1>3. /\ SourceFieldIndex(2 * f.n) \in Int /\ SourceFieldIndex(2 * f.n + 1) \in Int
      /\ SourceFieldIndex(2 * f.n) <= SourceFieldIndex(2 * f.n + 1)
      /\ AudioStart(f.n) \in Int
  <2>1. 2 * f.n \in Nat /\ 2 * f.n + 1 \in Nat /\ 2 * f.n <= 2 * f.n + 1
    <3> DEFINE n == f.n
    <3>1. n \in Nat
      BY <1>2
    <3> HIDE DEF n
    <3>2. 2 * n \in Nat /\ 2 * n + 1 \in Nat /\ 2 * n <= 2 * n + 1
      BY <3>1
    <3> QED
      BY <3>2 DEF n
  <2>2. /\ SourceFieldIndex(2 * f.n) \in Nat /\ SourceFieldIndex(2 * f.n + 1) \in Nat
        /\ SourceFieldIndex(2 * f.n) <= SourceFieldIndex(2 * f.n + 1)
    BY <2>1, CadenceGrows
  <2>3. AudioStart(f.n) \in Nat
    BY SMTT(30), <1>2, CadenceGrows
  <2> QED
    BY <2>2, <2>3
<1>4. SamplesPerInput \in Nat
  BY DEF InputAssumption
<1>5. /\ SamplesPerInput * nextSequence \in Int /\ SamplesPerInput * nextSequence' \in Int
      /\ SamplesPerInput * nextSequence <= SamplesPerInput * nextSequence'
  <2> DEFINE next == nextSequence'
  <2>1. next \in Int /\ nextSequence \in Int /\ nextSequence <= next
    OBVIOUS
  <2> HIDE DEF next
  <2>2. /\ SamplesPerInput * nextSequence \in Int /\ SamplesPerInput * next \in Int
        /\ SamplesPerInput * nextSequence <= SamplesPerInput * next
    BY <1>4, <2>1, Products
  <2> QED
    BY <2>2 DEF next
<1> DEFINE a == SourceFieldIndex(2 * f.n)
           b == SourceFieldIndex(2 * f.n + 1)
           start == AudioStart(f.n)
           last == SamplesPerInput * nextSequence
           last1 == SamplesPerInput * nextSequence'
<1>6. b < nextSequence /\ start + Len(f.audio) <= last
  BY DEF Settled
<1>7. Settled(f)'
  <2>0. b \in Int /\ start \in Int /\ last \in Int /\ last1 \in Int /\ last <= last1
    BY <1>3, <1>5
  <2> HIDE DEF a, b, start, last, last1
  <2>1. b < nextSequence' /\ start + Len(f.audio) <= last1
    BY <1>2, <1>6, <2>0
  <2> QED
    BY <2>1 DEF Settled, b, start, last1
<1>8. Faithful(f)'
  <2>1. Shown(a)' = Shown(a) /\ Shown(b)' = Shown(b)
    <3> HIDE DEF a, b
    <3>1. a \in Int /\ b \in Int /\ a < nextSequence /\ b < nextSequence
      BY <1>3, <1>6 DEF a, b
    <3> QED
      BY <1>1, <3>1
  <2>2. ASSUME NEW k \in 1 .. Len(f.audio)
        PROVE  Heard(start + k - 1)' = Heard(start + k - 1)
    <3>0. start \in Int /\ last \in Int /\ start + Len(f.audio) <= last
      BY <1>3, <1>5, <1>6
    <3> HIDE DEF start, last
    <3>1. start + k - 1 \in Int /\ start + k - 1 < last
      BY <1>2, <3>0
    <3> QED
      BY <1>1, <3>1 DEF last
  <2> QED
    BY <2>1, <2>2 DEF Faithful
<1> QED
  BY <1>7, <1>8

\* So does a sequence of them, and the buffer, when nothing else happens to it.
LEMMA PastGood ==
  ASSUME InputAssumption, nextSequence \in Nat, nextSequence' \in Nat,
         nextSequence <= nextSequence', SamePast, dropped \subseteq Int, dropped' \subseteq Int,
         NEW s \in Seq(IQFrames), Good(s)
  PROVE  Good(s)'
<1> SUFFICES ASSUME NEW i \in 1 .. Len(s)
             PROVE  Faithful(s[i])' /\ Settled(s[i])'
  BY DEF Good
<1>1. s[i] \in IQFrames /\ Faithful(s[i]) /\ Settled(s[i])
  BY ElementOfSeq DEF Good
<1> QED
  BY <1>1, PastFaithful

LEMMA OutputInit == InputAssumption /\ Init => OutputInv
<1> SUFFICES ASSUME InputAssumption, Init PROVE OutputInv
  OBVIOUS
<1>1. /\ nextInput = 0 /\ queue = <<>> /\ writer = "idle" /\ dropped = {}
      /\ video = <<>> /\ audio = <<>> /\ audioHead = 0
      /\ nextSequence = 0 /\ lastRGB = Nothing
      /\ synth = "fill" /\ outputFrame = 0 /\ iq = <<>> /\ frames = <<>>
      /\ Len(queue) = 0 /\ Len(audio) = 0 /\ Len(iq) = 0 /\ Len(frames) = 0
      /\ MaxFrames \in Nat /\ FrameCapacity \in Nat /\ SamplesPerInput \in Nat
  BY DEF Init, InputAssumption
<1>2. OutputTypes
  BY <1>1, EmptySeq DEF OutputTypes
<1>3. GapInv
  BY <1>1 DEF GapInv, Queued, Newest
<1>4. AudioInv
  <2>1. 0 * AudioNum = 0 /\ 0 \div AudioDen = 0
    BY DEF InputAssumption
  <2>2. Base = 0
    BY <1>1, <2>1 DEF Base, AudioStart
  <2>3. SamplesPerInput * nextSequence = 0
    BY <1>1
  <2> QED
    BY <1>1, <2>2, <2>3 DEF AudioInv
<1>5. VideoInv
  <2>1. SourceFieldIndex(0) \in Nat /\ 2 * outputFrame = 0
    BY <1>1, CadenceGrows
  <2>2. FirstIndex \in Nat
    BY <2>1 DEF FirstIndex
  <2>3. DOMAIN video = {}
    BY <1>1
  <2> QED
    BY <1>1, <2>2, <2>3 DEF VideoInv
<1> QED
  BY <1>1, <1>2, <1>3, <1>4, <1>5 DEF OutputInv, Good

\* What the cadence and the types say of the buffer's numbers.
LEMMA BufferNumbers ==
  ASSUME InputAssumption, OutputTypes
  PROVE  /\ nextSequence \in Nat /\ dropped \subseteq Int /\ outputFrame \in Nat
         /\ FirstIndex \in Nat /\ SecondIndex \in Nat /\ FirstIndex <= SecondIndex
         /\ AudioStart(outputFrame) \in Nat /\ AudioStart(outputFrame + 1) \in Nat
         /\ AudioCount(outputFrame) \in Nat
         /\ Len(audio) \in Nat /\ audioHead \in Nat /\ audioHead <= Len(audio)
         /\ Base \in Int /\ SamplesPerInput \in Nat \ {0}
         /\ SamplesPerInput * nextSequence \in Int
<1>1. nextSequence \in Nat /\ outputFrame \in Nat /\ SamplesPerInput \in Nat \ {0}
  BY DEF OutputTypes, InputAssumption
<1>2. dropped \subseteq Int
  BY DEF OutputTypes, Source
<1>3. FirstIndex \in Nat /\ SecondIndex \in Nat /\ FirstIndex <= SecondIndex
  <2>1. /\ 2 * outputFrame \in Nat /\ 2 * outputFrame + 1 \in Nat
        /\ 2 * outputFrame <= 2 * outputFrame + 1
    BY <1>1
  <2>2. /\ SourceFieldIndex(2 * outputFrame) \in Nat
        /\ SourceFieldIndex(2 * outputFrame + 1) \in Nat
        /\ SourceFieldIndex(2 * outputFrame) <= SourceFieldIndex(2 * outputFrame + 1)
    BY <2>1, CadenceGrows
  <2> QED
    BY <2>2 DEF FirstIndex, SecondIndex
<1>4. /\ AudioStart(outputFrame) \in Nat /\ AudioStart(outputFrame + 1) \in Nat
      /\ AudioCount(outputFrame) \in Nat
  <2>1. outputFrame + 1 \in Nat /\ outputFrame <= outputFrame + 1
    BY <1>1
  <2>2. /\ AudioStart(outputFrame) \in Nat /\ AudioStart(outputFrame + 1) \in Nat
        /\ AudioStart(outputFrame) <= AudioStart(outputFrame + 1)
    BY <1>1, <2>1, CadenceGrows
  <2> QED
    BY <2>2 DEF AudioCount
<1>5. Len(audio) \in Nat /\ audioHead \in Nat /\ audioHead <= Len(audio)
  BY LenProperties DEF OutputTypes
<1>6. Base \in Int
  BY <1>4, <1>5 DEF Base
<1>7. SamplesPerInput * nextSequence \in Int
  BY <1>1, Products
<1> QED
  BY <1>1, <1>2, <1>3, <1>4, <1>5, <1>6, <1>7

LEMMA BufferKept ==
  ASSUME InputAssumption, OutputTypes, AudioInv, VideoInv, SamePast, dropped' \subseteq Int,
         UNCHANGED <<bufferVars, outputFrame>>
  PROVE  AudioInv' /\ VideoInv' /\ (NeedsInput' <=> NeedsInput)
<1>1. UNCHANGED <<video, audio, audioHead, nextSequence, outputFrame>>
  BY DEF bufferVars
<1>2. /\ nextSequence \in Nat /\ dropped \subseteq Int /\ Base \in Int /\ Len(audio) \in Nat
      /\ SamplesPerInput * nextSequence \in Int
  BY BufferNumbers
<1>3. /\ \A i \in Int : i < nextSequence => Shown(i)' = Shown(i)
      /\ \A p \in Int : p < SamplesPerInput * nextSequence => Heard(p)' = Heard(p)
  BY <1>2, PastShown
<1>4. Base' = Base
  BY <1>1 DEF Base, AudioStart
<1>5. AudioInv'
  <2>1. ASSUME NEW k \in 1 .. Len(audio)
        PROVE  audio[k] = Heard(Base + k - 1)'
    <3>1. audio[k] = Heard(Base + k - 1) /\ Len(audio) + Base = SamplesPerInput * nextSequence
      BY DEF AudioInv
    <3>2. Base + k - 1 \in Int /\ Base + k - 1 < SamplesPerInput * nextSequence
      BY <1>2, <3>1
    <3> DEFINE p == Base + k - 1
    <3>3. p' = p
      BY <1>4
    <3> HIDE DEF p
    <3>4. p \in Int /\ p < SamplesPerInput * nextSequence /\ audio[k] = Heard(p)
      BY <3>1, <3>2 DEF p
    <3> QED
      BY <1>3, <3>3, <3>4 DEF p, Heard
  <2> QED
    BY <1>1, <1>4, <2>1 DEF AudioInv
<1>6. VideoInv'
  <2>1. FirstIndex' = FirstIndex
    BY <1>1 DEF FirstIndex
  <2>2. ASSUME NEW i \in DOMAIN video
        PROVE  video[i] = Shown(i)' /\ video[i] \in Pictures
    BY <1>2, <1>3 DEF VideoInv
  <2> QED
    BY <1>1, <2>1, <2>2 DEF VideoInv
<1>7. NeedsInput' <=> NeedsInput
  BY <1>1 DEF NeedsInput, SecondIndex, AudioCount, AudioStart
<1> QED
  BY <1>5, <1>6, <1>7

LEMMA OutputWriter ==
  ASSUME InputAssumption, QueueInv, OutputInv, Writer
  PROVE  OutputInv'
<1>1. UNCHANGED <<bufferVars, synth, outputFrame, iq, frames>>
  BY DEF Writer, EnqueueFrame, DropOldest, SendAfterDrop
<1>2. UNCHANGED <<video, audio, audioHead, nextSequence, lastRGB>>
  BY <1>1 DEF bufferVars
<1>3. /\ nextSequence \in 0 .. MaxFrames /\ MaxFrames \in Nat /\ nextInput \in 0 .. MaxFrames
      /\ queue \in Seq(Source) /\ dropped \subseteq Source /\ Len(queue) \in Nat
      /\ Source \subseteq Int /\ writer \in {"idle", "full", "dropped"}
      /\ writer # "idle" => nextInput > 0
      /\ nextSequence <= nextInput - Len(queue) - (IF writer = "idle" THEN 0 ELSE 1)
  BY LenProperties
  DEF OutputInv, OutputTypes, InputAssumption, Source, QueueInv, QueueTypes, QueueIsNewest
<1>4. /\ \A i \in nextSequence .. MaxFrames : i \in dropped <=> i <= Queued - Len(queue)
      /\ nextSequence > 0 => lastRGB = nextSequence - 1 /\ lastRGB \notin dropped
      /\ nextSequence = 0 => lastRGB = Nothing
      /\ Queued = nextInput - 1 - (IF writer = "idle" THEN 0 ELSE 1)
  <2>1. Queued = nextInput - 1 - (IF writer = "idle" THEN 0 ELSE 1)
    BY <1>3 DEF Queued, Newest
  <2> QED
    BY <2>1 DEF OutputInv, GapInv
<1>5. /\ nextInput' \in 0 .. MaxFrames /\ queue' \in Seq(Source) /\ dropped' \subseteq Source
      /\ SamePast /\ GapInv'
  <2>1. CASE EnqueueFrame
    <3>1. /\ writer = "idle" /\ nextInput < MaxFrames /\ nextInput' = nextInput + 1
          /\ dropped' = dropped
      BY <2>1 DEF EnqueueFrame
    <3>2. nextInput \in Source
      BY <1>3, <3>1 DEF Source
    <3>3. queue' \in Seq(Source) /\ Queued' - Len(queue') = Queued - Len(queue)
      <4>1. CASE Len(queue) < QueueCapacity
        <5>1. queue' = Append(queue, nextInput) /\ writer' = "idle"
          BY <2>1, <4>1 DEF EnqueueFrame
        <5>2. queue' \in Seq(Source) /\ Len(queue') = Len(queue) + 1
          BY <1>3, <3>2, <5>1, AppendProperties
        <5> QED
          BY <1>3, <1>4, <3>1, <5>1, <5>2 DEF Queued, Newest
      <4>2. CASE ~(Len(queue) < QueueCapacity)
        <5>1. queue' = queue /\ writer' = "full"
          BY <2>1, <4>2 DEF EnqueueFrame
        <5> QED
          BY <1>3, <1>4, <3>1, <5>1 DEF Queued, Newest
      <4> QED
        BY <4>1, <4>2
    <3> QED
      BY <1>2, <1>3, <1>4, <3>1, <3>3 DEF SamePast, GapInv
  <2>2. CASE DropOldest
    <3>1. writer = "full" /\ writer' = "dropped" /\ nextInput' = nextInput
      BY <2>2 DEF DropOldest
    <3>2. CASE queue = <<>>
      <4>1. queue' = queue /\ dropped' = dropped
        BY <2>2, <3>2 DEF DropOldest
      <4> QED
        BY <1>2, <1>3, <1>4, <3>1, <4>1 DEF SamePast, GapInv, Queued, Newest
    <3>3. CASE queue # <<>>
      <4>1. queue' = Tail(queue) /\ dropped' = dropped \union {Head(queue)}
        BY <2>2, <3>3 DEF DropOldest
      <4>2. /\ queue' \in Seq(Source) /\ Len(queue') = Len(queue) - 1
            /\ Head(queue) \in Source /\ Head(queue) = Queued - Len(queue) + 1
        BY <1>3, <3>3, <4>1, HeadTailProperties, QueueTail
      <4>3. Queued' = Queued
        BY <3>1 DEF Queued, Newest
      <4>4. Head(queue) >= nextSequence
        BY <1>3, <1>4, <3>1, <4>2
      <4> DEFINE h == Head(queue)
      <4>5. /\ h \in Int /\ h >= nextSequence /\ h = Queued - Len(queue) + 1
            /\ dropped' = dropped \union {h}
        BY <1>3, <4>1, <4>2, <4>4
      <4> HIDE DEF h
      <4>6. SamePast
        BY <1>3, <4>5 DEF SamePast
      <4>7. \A i \in nextSequence .. MaxFrames : i \in dropped' <=> i <= Queued' - Len(queue')
        <5>1. Queued \in Int /\ Len(queue) \in Int /\ nextSequence \in Int /\ MaxFrames \in Int
          BY <1>3, <1>4
        <5> SUFFICES ASSUME NEW i \in nextSequence .. MaxFrames
                     PROVE  i \in dropped' <=> i <= Queued' - Len(queue')
          OBVIOUS
        <5>2. i \in dropped <=> i <= Queued - Len(queue)
          BY <1>4
        <5>3. i \in dropped' <=> (i \in dropped \/ i = h)
          BY <4>5
        <5>4. Queued' - Len(queue') = Queued - Len(queue) + 1
          BY <4>2, <4>3, <5>1
        <5> QED
          BY <4>5, <5>1, <5>2, <5>3, <5>4
      <4>8. lastRGB' \notin dropped' \/ nextSequence = 0
        BY <1>2, <1>3, <1>4, <4>5
      <4> QED
        <5>1. nextInput' \in 0 .. MaxFrames /\ queue' \in Seq(Source) /\ dropped' \subseteq Source
          BY <1>3, <3>1, <4>1, <4>2
        <5>2. GapInv'
          BY <1>2, <1>4, <1>3, <4>7, <4>8 DEF GapInv
        <5> QED
          BY <4>6, <5>1, <5>2
    <3> QED
      BY <3>2, <3>3
  <2>3. CASE SendAfterDrop
    <3>1. /\ writer = "dropped" /\ writer' = "idle" /\ queue' = Append(queue, nextInput - 1)
          /\ UNCHANGED <<nextInput, dropped>>
      BY <2>3 DEF SendAfterDrop, Newest
    <3>2. nextInput - 1 \in Source
      BY <1>3, <3>1 DEF Source
    <3>3. queue' \in Seq(Source) /\ Len(queue') = Len(queue) + 1
      BY <1>3, <3>1, <3>2, AppendProperties
    <3>4. Queued' - Len(queue') = Queued - Len(queue)
      BY <1>3, <1>4, <3>1, <3>3 DEF Queued, Newest
    <3> QED
      BY <1>2, <1>3, <1>4, <3>1, <3>3, <3>4 DEF SamePast, GapInv
  <2> QED
    BY <2>1, <2>2, <2>3 DEF Writer
<1>6. dropped \subseteq Int /\ dropped' \subseteq Int /\ nextSequence \in Nat
  BY <1>3, <1>5
<1>7. AudioInv' /\ VideoInv' /\ (NeedsInput' <=> NeedsInput)
  BY <1>1, <1>5, <1>6, BufferKept DEF OutputInv
<1>8. Good(iq)' /\ Good(frames)'
  <2>1. nextSequence' \in Nat /\ nextSequence <= nextSequence'
    BY <1>2, <1>6
  <2>2. iq \in Seq(IQFrames) /\ frames \in Seq(IQFrames) /\ Good(iq) /\ Good(frames)
    BY DEF OutputInv, OutputTypes
  <2>3. \A s \in Seq(IQFrames) : Good(s) => Good(s)'
    BY <1>5, <1>6, <2>1, PastGood
  <2> QED
    BY <1>1, <2>2, <2>3 DEF Good
<1>9. OutputTypes'
  BY <1>1, <1>2, <1>5 DEF OutputInv, OutputTypes
<1> QED
  BY <1>1, <1>5, <1>7, <1>8, <1>9 DEF OutputInv

\* What a frame received finds: those before it that the buffer lacks are lost.
LEMMA ReceivedNext ==
  ASSUME InputAssumption, QueueInv, OutputInv, ReceiveInput
  PROVE  LET h == Head(queue)
         IN /\ h \in Source /\ h \in Nat /\ nextSequence \in Nat /\ nextSequence <= h
            /\ h \notin dropped /\ nextSequence .. h - 1 \subseteq dropped
            /\ queue' \in Seq(Source) /\ Len(queue') = Len(queue) - 1
            /\ Queued' = Queued /\ Queued \in Int /\ Len(queue) \in Nat
            /\ h = Queued - Len(queue) + 1
            /\ nextSequence' = h + 1 /\ lastRGB' = h /\ audioHead' = audioHead
<1> DEFINE h == Head(queue)
<1>1. /\ queue # <<>> /\ queue' = Tail(queue) /\ AppendFrame(h)
      /\ UNCHANGED <<nextInput, writer, dropped>>
  BY DEF ReceiveInput
<1>2. /\ queue \in Seq(Source) /\ nextSequence \in 0 .. MaxFrames /\ MaxFrames \in Nat
      /\ Source \subseteq Nat /\ dropped \subseteq Int /\ nextInput \in Int
      /\ nextSequence <= nextInput - Len(queue) - (IF writer = "idle" THEN 0 ELSE 1)
      /\ \A i \in Source : i < MaxFrames
  BY DEF OutputInv, OutputTypes, InputAssumption, Source, QueueInv, QueueTypes, QueueIsNewest
<1>3. /\ queue' \in Seq(Source) /\ Len(queue') = Len(queue) - 1 /\ h \in Source
      /\ h = Queued - Len(queue) + 1 /\ Len(queue) \in Nat
  BY <1>1, <1>2, HeadTailProperties, QueueTail, LenProperties
<1>4. Queued = nextInput - 1 - (IF writer = "idle" THEN 0 ELSE 1) /\ Queued \in Int
  BY <1>2 DEF Queued, Newest
<1>5. Queued' = Queued
  BY <1>1 DEF Queued, Newest
<1> HIDE DEF h
<1>6. nextSequence <= h /\ h \in Nat /\ h < MaxFrames
  BY <1>2, <1>3, <1>4
<1>7. \A i \in nextSequence .. MaxFrames : i \in dropped <=> i <= Queued - Len(queue)
  BY DEF OutputInv, GapInv
<1>8. h \notin dropped /\ nextSequence .. h - 1 \subseteq dropped
  <2>1. /\ nextSequence \in Nat /\ MaxFrames \in Nat /\ h \in nextSequence .. MaxFrames
        /\ Queued - Len(queue) = h - 1
    BY <1>2, <1>3, <1>4, <1>6
  <2>2. h \notin dropped
    BY <1>7, <2>1
  <2>3. ASSUME NEW i \in nextSequence .. h - 1
        PROVE  i \in dropped
    <3>1. i \in nextSequence .. MaxFrames /\ i <= h - 1
      BY <2>1
    <3> QED
      BY <1>7, <2>1, <3>1
  <2> QED
    BY <2>2, <2>3
<1>9. ~(h < nextSequence)
  BY <1>2, <1>6
<1>10. nextSequence' = h + 1 /\ lastRGB' = h /\ audioHead' = audioHead
  BY <1>1, <1>9, Zenon DEF AppendFrame
<1> QED
  BY <1>2, <1>3, <1>4, <1>5, <1>6, <1>8, <1>10 DEF h

LEMMA ReceivedSound ==
  ASSUME InputAssumption, QueueInv, OutputInv, ReceiveInput
  PROVE  audio' \in Seq(Samples) /\ AudioInv' /\ audioHead' \in 0 .. Len(audio')
<1> DEFINE h == Head(queue)
           S == SamplesPerInput
           gap == S * Cardinality(nextSequence .. h - 1)
           longer == audio \o Repeat(Silence, gap) \o Repeat(h, S)
<1>1. /\ h \in Source /\ h \in Nat /\ nextSequence \in Nat /\ nextSequence <= h
      /\ h \notin dropped /\ nextSequence .. h - 1 \subseteq dropped
      /\ nextSequence' = h + 1 /\ audioHead' = audioHead
  BY ReceivedNext
<1>2. audio' = longer
  <2>1. AppendFrame(h) /\ ~(h < nextSequence)
    BY <1>1 DEF ReceiveInput
  <2> HIDE DEF h
  <2> QED
    BY <2>1, Zenon DEF AppendFrame
<1>3. /\ S \in Nat \ {0} /\ Base \in Int /\ S * nextSequence \in Int
      /\ Len(audio) \in Nat /\ audioHead \in Nat /\ audioHead <= Len(audio)
  BY BufferNumbers DEF OutputInv
<1>4. audio \in Seq(Samples) /\ Silence \in Samples /\ h \in Samples
  BY <1>1 DEF OutputInv, OutputTypes, Samples
<1>5. UNCHANGED <<outputFrame, dropped>>
  BY DEF ReceiveInput
<1>6. Base' = Base
  BY <1>1, <1>5 DEF Base, AudioStart
<1> HIDE DEF h, S
<1>7. gap \in Nat /\ gap = S * (h - nextSequence)
  <2>1. Cardinality(nextSequence .. h - 1) = h - nextSequence
    <3>1. nextSequence \in Int /\ h - 1 \in Int
      BY <1>1
    <3>2. Cardinality(nextSequence .. h - 1)
            = IF nextSequence > h - 1 THEN 0 ELSE (h - 1) - nextSequence + 1
      BY <3>1, FS_Interval
    <3> QED
      BY <1>1, <3>2
  <2>2. h - nextSequence \in Nat
    BY <1>1
  <2> QED
    BY <1>3, <2>1, <2>2
<1> HIDE DEF gap
<1>15. S \in Int /\ S >= 1 /\ Base \in Int /\ Len(audio) \in Nat /\ gap \in Nat
  BY <1>3, <1>7
<1>8. /\ S * nextSequence + gap = S * h /\ S * (h + 1) = S * h + S
      /\ S * h \in Int /\ S * nextSequence \in Int
  <2>1. h - nextSequence \in Int /\ nextSequence + (h - nextSequence) = h
    BY <1>1
  <2>2. S * (nextSequence + (h - nextSequence)) = S * nextSequence + S * (h - nextSequence)
    BY <1>1, <1>3, <2>1, Products
  <2>3. S * (h + 1) = S * h + S * 1 /\ S * h \in Int
    BY <1>1, <1>3, Products
  <2> QED
    BY <1>3, <1>7, <2>1, <2>2, <2>3
<1>9. /\ longer \in Seq(Samples) /\ Len(longer) = Len(audio) + gap + S
      /\ \A k \in 1 .. Len(audio) : longer[k] = audio[k]
      /\ \A k \in Len(audio) + 1 .. Len(audio) + gap : longer[k] = Silence
      /\ \A k \in Len(audio) + gap + 1 .. Len(audio) + gap + S : longer[k] = h
  <2>1. S \in Nat /\ gap \in Nat
    BY <1>3, <1>7
  <2> DEFINE r == Repeat(Silence, gap)
             t == Repeat(h, S)
  <2>2. /\ r \in Seq(Samples) /\ Len(r) = gap /\ \A k \in 1 .. gap : r[k] = Silence
        /\ t \in Seq(Samples) /\ Len(t) = S /\ \A k \in 1 .. S : t[k] = h
    BY <1>4, <2>1, RepeatIs
  <2>3. longer = audio \o r \o t
    OBVIOUS
  <2> HIDE DEF longer, r, t
  <2>4. /\ longer \in Seq(Samples) /\ Len(longer) = Len(audio) + Len(r) + Len(t)
        /\ \A k \in 1 .. Len(audio) : longer[k] = audio[k]
        /\ \A k \in 1 .. Len(r) : longer[Len(audio) + k] = r[k]
        /\ \A k \in 1 .. Len(t) : longer[Len(audio) + Len(r) + k] = t[k]
    <3>1. PICK v : v = audio
      OBVIOUS
    <3>2. v \in Seq(Samples) /\ r \in Seq(Samples) /\ t \in Seq(Samples)
      BY <1>4, <2>2, <3>1
    <3>3. /\ (v \o r) \o t \in Seq(Samples) /\ Len((v \o r) \o t) = Len(v) + Len(r) + Len(t)
          /\ \A k \in 1 .. Len(v) : ((v \o r) \o t)[k] = v[k]
          /\ \A k \in 1 .. Len(r) : ((v \o r) \o t)[Len(v) + k] = r[k]
          /\ \A k \in 1 .. Len(t) : ((v \o r) \o t)[Len(v) + Len(r) + k] = t[k]
      BY <3>2, RunsAppended
    <3> QED
      BY <2>3, <3>1, <3>3
  <2>5. ASSUME NEW k \in Len(audio) + 1 .. Len(audio) + gap
        PROVE  longer[k] = Silence
    <3>1. k - Len(audio) \in 1 .. gap /\ k = Len(audio) + (k - Len(audio))
      BY <1>3, <2>1
    <3> QED
      BY <2>2, <2>4, <3>1
  <2>6. ASSUME NEW k \in Len(audio) + gap + 1 .. Len(audio) + gap + S
        PROVE  longer[k] = h
    <3>1. /\ k - Len(audio) - gap \in 1 .. S
          /\ k = Len(audio) + gap + (k - Len(audio) - gap)
      BY <1>3, <2>1
    <3> QED
      BY <2>2, <2>4, <3>1
  <2> QED
    BY <2>2, <2>4, <2>5, <2>6
<1> HIDE DEF longer
<1>10. /\ Len(audio) + Base = S * nextSequence
       /\ \A k \in 1 .. Len(audio) : audio[k] = Heard(Base + k - 1)
  BY DEF OutputInv, AudioInv, S
<1>11. Len(audio') + Base' = S * nextSequence'
  <2> DEFINE x == S * nextSequence
             y == S * h
             z == S * (h + 1)
  <2>1. x + gap = y /\ z = y + S /\ x \in Int /\ y \in Int /\ Len(audio) + Base = x
    BY <1>8, <1>10
  <2>2. S * nextSequence' = z
    BY <1>1
  <2> HIDE DEF x, y, z
  <2>3. Len(longer) + Base = z
    <3>1. Len(longer) = Len(audio) + gap + S /\ S \in Int /\ gap \in Int
      BY <1>3, <1>7, <1>9
    <3>2. Len(audio) \in Int /\ Base \in Int
      BY <1>3
    <3> QED
      BY <2>1, <3>1, <3>2
  <2> QED
    BY <1>2, <1>6, <2>2, <2>3
<1>12. ASSUME NEW k \in 1 .. Len(longer)
       PROVE  longer[k] = Heard(Base + k - 1)
  <2> DEFINE p == Base + k - 1
             source == p \div S
  <2>1. p \in Int /\ k \in Nat /\ k >= 1 /\ k <= Len(audio) + gap + S
    BY <1>3, <1>7, <1>9
  <2>2. source \in Int
    BY <1>3, <2>1, Quotients
  <2>3. Heard(p) = IF source \in dropped THEN Silence ELSE source
    BY DEF Heard, S
  <2>4. CASE k <= Len(audio)
    BY <1>9, <1>10, <2>1, <2>4
  <2>5. CASE Len(audio) < k /\ k <= Len(audio) + gap
    <3>1. S * nextSequence <= p /\ p < S * h
      <4> DEFINE x == S * nextSequence
                 y == S * h
      <4>1. x + gap = y /\ x \in Int /\ y \in Int /\ Len(audio) + Base = x
        BY <1>8, <1>10
      <4> HIDE DEF x, y
      <4>2. x <= p /\ p < y
        BY <1>15, <2>1, <2>5, <4>1
      <4> QED
        BY <4>2 DEF x, y
    <3> HIDE DEF p
    <3>2. nextSequence <= source /\ source < h
      BY <1>1, <1>3, <2>1, <3>1, QuotientBounds
    <3> HIDE DEF source
    <3>3. source \in dropped
      BY <1>1, <2>2, <3>2
    <3>4. longer[k] = Silence
      BY <1>3, <1>7, <1>9, <2>1, <2>5
    <3> QED
      BY <2>3, <3>3, <3>4 DEF p
  <2>6. CASE Len(audio) + gap < k
    <3>1. S * h <= p /\ p < S * (h + 1)
      <4> DEFINE x == S * nextSequence
                 y == S * h
                 z == S * (h + 1)
      <4>1. x + gap = y /\ z = y + S /\ x \in Int /\ y \in Int /\ Len(audio) + Base = x
        BY <1>8, <1>10
      <4> HIDE DEF x, y, z
      <4>2. y <= p /\ p < z
        BY <1>15, <2>1, <2>6, <4>1
      <4> QED
        BY <4>2 DEF y, z
    <3> HIDE DEF p
    <3>2. h <= source /\ source < h + 1
      <4>1. h \in Int /\ h + 1 \in Int
        BY <1>1
      <4> QED
        BY <1>3, <2>1, <3>1, <4>1, QuotientBounds
    <3> HIDE DEF source
    <3>3. source = h
      BY <1>1, <2>2, <3>2
    <3>4. longer[k] = h
      BY <1>3, <1>7, <1>9, <2>1, <2>6
    <3> QED
      BY <1>1, <2>3, <3>3, <3>4 DEF p
  <2> QED
    BY <1>3, <1>7, <2>1, <2>4, <2>5, <2>6
<1>13. AudioInv'
  <2>1. ASSUME NEW k \in 1 .. Len(audio')
        PROVE  audio'[k] = Heard(Base + k - 1)'
    <3>1. audio'[k] = Heard(Base + k - 1)
      BY <1>2, <1>12
    <3> QED
      BY <1>5, <1>6, <3>1 DEF Heard
  <2> QED
    BY <1>11, <2>1 DEF AudioInv, S
<1>14. audioHead' \in 0 .. Len(audio')
  BY <1>1, <1>2, <1>3, <1>7, <1>9
<1> QED
  BY <1>2, <1>9, <1>13, <1>14

LEMMA ReceivedPictures ==
  ASSUME InputAssumption, QueueInv, OutputInv, ReceiveInput
  PROVE  VideoInv'
<1> DEFINE h == Head(queue)
           lost == nextSequence .. h - 1
           fallback == IF lastRGB = Nothing THEN Black ELSE lastRGB
<1>1. /\ h \in Source /\ h \in Nat /\ nextSequence \in Nat /\ nextSequence <= h
      /\ h \notin dropped /\ lost \subseteq dropped /\ nextSequence' = h + 1
  BY ReceivedNext
<1>2. video' = [i \in DOMAIN video \union lost \union {h} |->
                  IF i = h THEN h ELSE IF i \in lost THEN fallback ELSE video[i]]
  <2>1. AppendFrame(h) /\ ~(h < nextSequence)
    BY <1>1 DEF ReceiveInput
  <2> HIDE DEF h
  <2> QED
    BY <2>1, Zenon DEF AppendFrame
<1>3. UNCHANGED <<outputFrame, dropped>>
  BY DEF ReceiveInput
<1>4. FirstIndex' = FirstIndex /\ FirstIndex \in Nat /\ dropped \subseteq Int
  BY <1>3, BufferNumbers DEF FirstIndex, OutputInv
<1>5. /\ DOMAIN video \subseteq 0 .. nextSequence - 1
      /\ FirstIndex .. nextSequence - 1 \subseteq DOMAIN video
      /\ \A i \in DOMAIN video : video[i] = Shown(i) /\ video[i] \in Pictures
  BY DEF OutputInv, VideoInv
<1>6. Shown(h) = h
  <2> DEFINE kept == (0 .. h) \ dropped
  <2>1. h \in kept /\ kept \subseteq Int /\ \A y \in kept : y <= h
    BY <1>1
  <2> HIDE DEF h, kept
  <2>2. Max(kept) = h /\ kept # {}
    BY <2>1, MaxIs
  <2> QED
    BY <2>2 DEF Shown, kept
<1>7. ASSUME NEW i \in lost
      PROVE  Shown(i) = fallback
  <2> DEFINE kept == (0 .. i) \ dropped
  <2>1. i \in Int /\ nextSequence <= i /\ i <= h - 1
    BY <1>1
  <2>2. Shown(i) = IF kept = {} THEN Black ELSE Max(kept)
    BY DEF Shown
  <2>3. CASE nextSequence = 0
    <3>1. lastRGB = Nothing
      BY <2>3 DEF OutputInv, GapInv
    <3>2. kept = {}
      BY <1>1, <2>1, <2>3
    <3> QED
      BY <2>2, <3>1, <3>2
  <2>4. CASE nextSequence > 0
    <3>1. lastRGB = nextSequence - 1 /\ lastRGB \notin dropped
      BY <2>4 DEF OutputInv, GapInv
    <3>2. lastRGB \in kept /\ kept \subseteq Int /\ \A y \in kept : y <= lastRGB
      BY <1>1, <2>1, <2>4, <3>1
    <3>3. lastRGB # Nothing
      BY <1>1, <2>4, <3>1 DEF Nothing
    <3> HIDE DEF kept
    <3>4. Max(kept) = lastRGB /\ kept # {}
      BY <3>2, MaxIs
    <3> QED
      BY <2>2, <3>3, <3>4
  <2> QED
    BY <1>1, <2>3, <2>4
<1>13. h \in Pictures /\ fallback \in Pictures
  BY <1>1 DEF Pictures, OutputInv, OutputTypes
<1> HIDE DEF h, fallback
<1>8. DOMAIN video' = DOMAIN video \union lost \union {h}
  BY <1>2
<1>9. ASSUME NEW i \in DOMAIN video'
      PROVE  video'[i] = Shown(i) /\ video'[i] \in Pictures
  <2>1. video'[i] = IF i = h THEN h ELSE IF i \in lost THEN fallback ELSE video[i]
    BY <1>2, <1>8
  <2>2. CASE i = h
    BY <1>6, <1>13, <2>1, <2>2
  <2>3. CASE i # h /\ i \in lost
    BY <1>7, <1>13, <2>1, <2>3
  <2>4. CASE i # h /\ i \notin lost
    BY <1>5, <1>8, <2>1, <2>4
  <2> QED
    BY <2>2, <2>3, <2>4
<1>10. DOMAIN video' \subseteq 0 .. nextSequence' - 1
  BY <1>1, <1>5, <1>8
<1>11. FirstIndex .. nextSequence' - 1 \subseteq DOMAIN video'
  <2> SUFFICES ASSUME NEW i \in FirstIndex .. h
               PROVE  i \in DOMAIN video \union lost \union {h}
    BY <1>1, <1>8
  <2> QED
    BY <1>1, <1>4, <1>5
<1>12. \A i \in DOMAIN video' : Shown(i)' = Shown(i)
  BY <1>3 DEF Shown
<1> QED
  BY <1>4, <1>9, <1>10, <1>11, <1>12 DEF VideoInv

LEMMA OutputReceive ==
  ASSUME InputAssumption, QueueInv, OutputInv, ReceiveInput
  PROVE  OutputInv'
<1> DEFINE h == Head(queue)
<1>1. /\ h \in Source /\ h \in Nat /\ nextSequence \in Nat /\ nextSequence <= h
      /\ h \notin dropped
      /\ queue' \in Seq(Source) /\ Len(queue') = Len(queue) - 1
      /\ Queued' = Queued /\ Queued \in Int /\ Len(queue) \in Nat
      /\ h = Queued - Len(queue) + 1
      /\ nextSequence' = h + 1 /\ lastRGB' = h
  BY ReceivedNext
<1>2. UNCHANGED <<nextInput, dropped, synth, outputFrame, iq, frames>> /\ synth = "fill"
  BY DEF ReceiveInput
<1>3. h + 1 \in 0 .. MaxFrames /\ MaxFrames \in Nat
  BY <1>1 DEF Source, InputAssumption
<1>4. audio' \in Seq(Samples) /\ AudioInv' /\ audioHead' \in 0 .. Len(audio') /\ VideoInv'
  BY ReceivedSound, ReceivedPictures
<1> HIDE DEF h
<1>5. OutputTypes'
  BY <1>1, <1>2, <1>3, <1>4 DEF OutputInv, OutputTypes
<1>6. GapInv'
  <2>1. \A i \in nextSequence .. MaxFrames : i \in dropped <=> i <= Queued - Len(queue)
    BY DEF OutputInv, GapInv
  <2>2. ASSUME NEW i \in h + 1 .. MaxFrames
        PROVE  i \in dropped <=> i <= Queued' - Len(queue')
    BY <1>1, <1>3, <2>1
  <2> QED
    BY <1>1, <1>2, <2>2 DEF GapInv
<1>7. Good(iq)' /\ Good(frames)'
  <2>1. nextSequence' \in Nat /\ nextSequence <= nextSequence'
    BY <1>1
  <2>2. iq \in Seq(IQFrames) /\ frames \in Seq(IQFrames) /\ Good(iq) /\ Good(frames)
    BY DEF OutputInv, OutputTypes
  <2>3. SamePast /\ dropped \subseteq Int /\ dropped' \subseteq Int
    BY <1>2 DEF SamePast, OutputInv, OutputTypes, Source
  <2>4. \A s \in Seq(IQFrames) : Good(s) => Good(s)'
    BY <1>1, <2>1, <2>3, PastGood
  <2> QED
    BY <1>2, <2>2, <2>4 DEF Good
<1> QED
  BY <1>2, <1>4, <1>5, <1>6, <1>7 DEF OutputInv

\* Good frames are judged by what was received and what was dropped alone.
LEMMA SameGood ==
  ASSUME UNCHANGED <<nextSequence, dropped>>
  PROVE  (Good(iq') => Good(iq)') /\ (Good(frames') => Good(frames)')
<1>1. ASSUME Good(iq')
      PROVE  Good(iq)'
  <2> SUFFICES ASSUME NEW i \in 1 .. Len(iq')
               PROVE  Faithful(iq[i])' /\ Settled(iq[i])'
    BY DEF Good
  <2>1. Faithful(iq'[i]) /\ Settled(iq'[i])
    BY <1>1 DEF Good
  <2> QED
    BY <2>1 DEF Faithful, Settled, Shown, Heard, SourceFieldIndex, AudioStart, AudioCount
<1>2. ASSUME Good(frames')
      PROVE  Good(frames)'
  <2> SUFFICES ASSUME NEW i \in 1 .. Len(frames')
               PROVE  Faithful(frames[i])' /\ Settled(frames[i])'
    BY DEF Good
  <2>1. Faithful(frames'[i]) /\ Settled(frames'[i])
    BY <1>2 DEF Good
  <2> QED
    BY <2>1 DEF Faithful, Settled, Shown, Heard, SourceFieldIndex, AudioStart, AudioCount
<1> QED
  BY <1>1, <1>2

LEMMA OutputSynthesize ==
  ASSUME InputAssumption, OutputInv, Synthesize
  PROVE  OutputInv'
<1> DEFINE f == [n |-> outputFrame, first |-> video[FirstIndex],
                 second |-> video[SecondIndex], audio |-> Window]
           count == AudioCount(outputFrame)
<1>1. /\ synth = "buffer" /\ synth' = "output" /\ iq' = <<f>>
      /\ UNCHANGED <<inputVars, bufferVars, outputFrame, frames>>
  BY DEF Synthesize
<1>2. /\ UNCHANGED <<nextInput, queue, writer, dropped>>
      /\ UNCHANGED <<video, audio, audioHead, nextSequence, lastRGB>>
  BY <1>1 DEF inputVars, bufferVars
<1>3. /\ nextSequence \in Nat /\ outputFrame \in Nat
      /\ FirstIndex \in Nat /\ SecondIndex \in Nat /\ FirstIndex <= SecondIndex
      /\ AudioStart(outputFrame) \in Nat /\ count \in Nat
      /\ Len(audio) \in Nat /\ audioHead \in Nat /\ audioHead <= Len(audio) /\ Base \in Int
      /\ SamplesPerInput * nextSequence \in Int
  BY BufferNumbers DEF OutputInv
<1>4. SecondIndex < nextSequence /\ Len(audio) - audioHead >= count + LookAhead
  BY <1>1, <1>3 DEF OutputInv, NeedsInput, LookAhead
<1>5. /\ video[FirstIndex] = Shown(FirstIndex) /\ video[FirstIndex] \in Pictures
      /\ video[SecondIndex] = Shown(SecondIndex) /\ video[SecondIndex] \in Pictures
  <2>1. FirstIndex \in DOMAIN video /\ SecondIndex \in DOMAIN video
    BY <1>3, <1>4 DEF OutputInv, VideoInv
  <2> QED
    BY <2>1 DEF OutputInv, VideoInv
<1> HIDE DEF count
<1>6. /\ Window \in Seq(Samples) /\ Len(Window) = count + LookAhead
      /\ \A k \in 1 .. Len(Window) : Window[k] = audio[audioHead + k]
  <2> DEFINE a == audioHead + 1
             b == audioHead + count + LookAhead
  <2>1. a \in Int /\ b \in Int /\ a <= b /\ b - a + 1 = count + LookAhead /\ b <= Len(audio)
    BY <1>3, <1>4 DEF LookAhead
  <2>2. Window = SubSeq(audio, a, b)
    BY DEF Window, count
  <2>3. \A i \in a .. b : audio[i] \in Samples
    BY SMTT(30), <1>3, <2>1, ElementOfSeq DEF OutputInv, OutputTypes
  <2>4. \A k \in 1 .. count + LookAhead : a + k - 1 = audioHead + k
    BY <1>3 DEF LookAhead
  <2> HIDE DEF a, b
  <2>5. /\ SubSeq(audio, a, b) \in Seq(Samples) /\ Len(SubSeq(audio, a, b)) = b - a + 1
        /\ \A i \in 1 .. b - a + 1 : SubSeq(audio, a, b)[i] = audio[a + i - 1]
    BY <2>1, <2>3, SubSeqProperties
  <2> QED
    BY <2>1, <2>2, <2>4, <2>5
<1>7. f \in IQFrames
  BY <1>3, <1>5, <1>6 DEF IQFrames, Samples
<1>8. Faithful(f)
  <2>1. ASSUME NEW k \in 1 .. Len(Window)
        PROVE  Window[k] = Heard(AudioStart(outputFrame) + k - 1)
    <3>1. audioHead + k \in 1 .. Len(audio) /\ k \in Int
      BY <1>3, <1>4, <1>6 DEF LookAhead
    <3>2. Base + (audioHead + k) - 1 = AudioStart(outputFrame) + k - 1
      BY <1>3, <3>1 DEF Base
    <3>3. audio[audioHead + k] = Heard(Base + (audioHead + k) - 1)
      BY <3>1 DEF OutputInv, AudioInv
    <3> QED
      BY <1>6, <3>2, <3>3
  <2>2. /\ f.n = outputFrame /\ f.first = video[FirstIndex] /\ f.second = video[SecondIndex]
        /\ f.audio = Window
    OBVIOUS
  <2> HIDE DEF f
  <2> QED
    BY <1>5, <1>6, <2>1, <2>2 DEF Faithful, FirstIndex, SecondIndex, count
<1>9. Settled(f)
  <2>1. f.n = outputFrame /\ f.audio = Window
    OBVIOUS
  <2>2. Len(audio) + Base = SamplesPerInput * nextSequence
    BY DEF OutputInv, AudioInv
  <2>3. AudioStart(outputFrame) + Len(Window) <= SamplesPerInput * nextSequence
    BY <1>3, <1>4, <1>6, <2>2 DEF Base, LookAhead
  <2> HIDE DEF f
  <2> QED
    BY <1>4, <2>1, <2>3 DEF Settled, SecondIndex
<1> HIDE DEF f
<1>10. iq' \in Seq(IQFrames) /\ Good(iq')
  BY <1>1, <1>7, <1>8, <1>9 DEF Good
<1>11. Good(iq)' /\ Good(frames)'
  <2>1. Good(iq') /\ Good(frames')
    BY <1>1, <1>10 DEF OutputInv
  <2> QED
    BY <1>2, <2>1, SameGood
<1>12. OutputTypes'
  BY <1>1, <1>2, <1>10 DEF OutputInv, OutputTypes
<1>13. GapInv'
  BY <1>2 DEF OutputInv, GapInv, Queued, Newest
<1>14. AudioInv' /\ VideoInv' /\ (NeedsInput' <=> NeedsInput)
  <2>1. SamePast /\ dropped' \subseteq Int
    BY <1>2 DEF SamePast, OutputInv, OutputTypes, Source
  <2> QED
    BY <1>1, <2>1, BufferKept DEF OutputInv
<1> QED
  BY <1>1, <1>11, <1>12, <1>13, <1>14 DEF OutputInv

\* Consuming a slice moves the buffer's start to that of the next one, compacted or not.
LEMMA ConsumedSound ==
  ASSUME InputAssumption, OutputInv, Output
  PROVE  audio' \in Seq(Samples) /\ audioHead' \in 0 .. Len(audio') /\ AudioInv'
<1> DEFINE count == AudioCount(outputFrame)
<1>1. /\ synth = "output" /\ ConsumeAudio(count) /\ outputFrame' = outputFrame + 1
      /\ UNCHANGED <<nextSequence, dropped>>
  BY DEF Output, inputVars
<1>2. /\ nextSequence \in Nat /\ outputFrame \in Nat
      /\ AudioStart(outputFrame) \in Nat /\ AudioStart(outputFrame + 1) \in Nat
      /\ count = AudioStart(outputFrame + 1) - AudioStart(outputFrame) /\ count \in Nat
      /\ Len(audio) \in Nat /\ audioHead \in Nat /\ audioHead <= Len(audio) /\ Base \in Int
  BY BufferNumbers DEF OutputInv, AudioCount
<1>9. SamplesPerInput * nextSequence \in Int
  BY BufferNumbers DEF OutputInv
<1>3. Len(audio) - audioHead >= count + LookAhead
  BY <1>1, <1>2 DEF OutputInv, NeedsInput, LookAhead
<1>4. /\ Len(audio) + Base = SamplesPerInput * nextSequence
      /\ \A k \in 1 .. Len(audio) : audio[k] = Heard(Base + k - 1)
      /\ audio \in Seq(Samples)
  BY DEF OutputInv, OutputTypes, AudioInv
<1> HIDE DEF count
<1>5. Base' = AudioStart(outputFrame + 1) - audioHead'
  BY <1>1 DEF Base, AudioStart
<1>6. Base = AudioStart(outputFrame) - audioHead
  BY DEF Base
<1>7. CASE audioHead + count >= CompactAt
  <2> DEFINE a == audioHead + count + 1
             b == Len(audio)
  <2>1. audio' = SubSeq(audio, a, b) /\ audioHead' = 0
    BY <1>1, <1>7, Zenon DEF ConsumeAudio
  <2>2. /\ a \in Int /\ b \in Int /\ a <= b /\ 1 <= a /\ b - a + 1 = Len(audio) - audioHead - count
        /\ a - 1 = audioHead + count
    <3>1. /\ count \in Nat /\ audioHead \in Nat /\ Len(audio) \in Nat
          /\ Len(audio) - audioHead >= count + 2
      BY <1>2, <1>3 DEF LookAhead
    <3> QED
      BY <3>1
  <2>3. \A i \in a .. b : audio[i] \in Samples /\ i \in 1 .. Len(audio)
    <3> SUFFICES ASSUME NEW i \in a .. b
                 PROVE  audio[i] \in Samples /\ i \in 1 .. Len(audio)
      OBVIOUS
    <3>1. i \in 1 .. Len(audio)
      BY SMTT(30), <1>2, <2>2
    <3> QED
      BY <1>4, <3>1, ElementOfSeq
  <2>10. b = Len(audio)
    OBVIOUS
  <2> HIDE DEF a, b
  <2>4. /\ audio' \in Seq(Samples) /\ Len(audio') = b - a + 1
        /\ \A i \in 1 .. b - a + 1 : audio'[i] = audio[a + i - 1]
    BY <2>1, <2>2, <2>3, SubSeqProperties
  <2>5. Base' = Base + (a - 1)
    <3> DEFINE x == AudioStart(outputFrame)
               y == AudioStart(outputFrame + 1)
    <3>1. x \in Int /\ y \in Int /\ count = y - x /\ Base' = y - audioHead' /\ Base = x - audioHead
      BY <1>2, <1>5, <1>6
    <3> HIDE DEF x, y
    <3>2. audioHead' = 0 /\ a - 1 = audioHead + count /\ audioHead \in Int /\ count \in Int
      BY <1>2, <2>1, <2>2
    <3> QED
      BY <3>1, <3>2
  <2>6. Len(audio') + Base' = SamplesPerInput * nextSequence
    <3> DEFINE x == SamplesPerInput * nextSequence
    <3>1. x \in Int /\ Len(audio) + Base = x
      BY <1>4, <1>9
    <3> HIDE DEF x
    <3>2. Len(audio') + Base' = x
      <4> DEFINE n == Len(audio')
                 p == Base'
      <4>1. n = b - a + 1 /\ p = Base + (a - 1) /\ a \in Int /\ b \in Int /\ Base \in Int
        BY <1>2, <2>2, <2>4, <2>5
      <4> HIDE DEF n, p
      <4>2. n + p = b + Base
        BY <4>1
      <4> QED
        BY <2>10, <3>1, <4>2 DEF n, p
    <3> QED
      BY <3>2 DEF x
  <2>7. ASSUME NEW k \in 1 .. Len(audio')
        PROVE  audio'[k] = Heard(Base + (a - 1) + k - 1)
    <3>1. a + k - 1 \in 1 .. Len(audio) /\ k \in 1 .. b - a + 1
      BY <2>2, <2>3, <2>4
    <3>2. audio'[k] = audio[a + k - 1]
      BY <2>4, <3>1
    <3>3. audio[a + k - 1] = Heard(Base + (a + k - 1) - 1)
      BY <1>4, <3>1
    <3>4. Base + (a + k - 1) - 1 = Base + (a - 1) + k - 1
      BY <1>2, <2>2
    <3> QED
      BY <3>2, <3>3, <3>4
  <2>8. AudioInv'
    <3>1. \A k \in 1 .. Len(audio') : audio'[k] = Heard(Base + k - 1)'
      BY <1>1, <2>5, <2>7 DEF Heard
    <3> QED
      BY <1>1, <2>6, <3>1 DEF AudioInv
  <2>9. Len(audio') \in Nat
    BY <2>2, <2>4
  <2> QED
    BY <2>1, <2>4, <2>8, <2>9
<1>8. CASE ~(audioHead + count >= CompactAt)
  <2>1. audio' = audio /\ audioHead' = audioHead + count
    BY <1>1, <1>8, Zenon DEF ConsumeAudio
  <2>2. Base' = Base
    <3> DEFINE x == AudioStart(outputFrame)
               y == AudioStart(outputFrame + 1)
    <3>1. x \in Int /\ y \in Int /\ count = y - x /\ Base' = y - audioHead' /\ Base = x - audioHead
      BY <1>2, <1>5, <1>6
    <3> HIDE DEF x, y
    <3> QED
      BY <1>2, <2>1, <3>1
  <2>3. audioHead' \in 0 .. Len(audio')
    <3>1. /\ count \in Nat /\ audioHead \in Nat /\ Len(audio) \in Nat
          /\ Len(audio) - audioHead >= count + 2
      BY <1>2, <1>3 DEF LookAhead
    <3> QED
      BY <2>1, <3>1
  <2>4. AudioInv'
    <3>1. \A k \in 1 .. Len(audio') : audio'[k] = Heard(Base + k - 1)'
      BY <1>1, <1>4, <2>1, <2>2 DEF Heard
    <3> QED
      BY <1>1, <1>4, <2>1, <2>2, <3>1 DEF AudioInv
  <2> QED
    BY <1>4, <2>1, <2>3, <2>4
<1> QED
  BY <1>7, <1>8

LEMMA OutputOutput ==
  ASSUME InputAssumption, BufferInv, OutputInv, Output
  PROVE  OutputInv'
<1>1. /\ synth' = "fill" /\ frames' = frames \o iq /\ iq' = <<>> /\ Len(frames) < FrameCapacity
      /\ outputFrame' = outputFrame + 1 /\ synth = "output"
      /\ video' = [i \in {j \in DOMAIN video : j >= SourceFieldIndex(2 * (outputFrame + 1))} |->
                     video[i]]
      /\ UNCHANGED <<nextInput, queue, writer, dropped, nextSequence, lastRGB>>
  BY DEF Output, inputVars, DiscardVideoBefore
<1>2. audio' \in Seq(Samples) /\ audioHead' \in 0 .. Len(audio') /\ AudioInv'
  BY ConsumedSound
<1>3. outputFrame \in Nat /\ FirstIndex \in Nat /\ nextSequence \in Nat
  BY BufferNumbers DEF OutputInv
<1>4. frames \in Seq(IQFrames) /\ iq \in Seq(IQFrames) /\ Good(frames) /\ Good(iq)
  BY DEF OutputInv, OutputTypes
<1>5. Len(iq) = 1 /\ Len(frames) \in Nat
  BY <1>1, <1>4, LenProperties DEF BufferInv, BuffersIn
<1>6. /\ frames \o iq \in Seq(IQFrames) /\ Len(frames \o iq) = Len(frames) + 1
      /\ \A i \in 1 .. Len(frames) : (frames \o iq)[i] = frames[i]
      /\ (frames \o iq)[Len(frames) + 1] = iq[1]
  <2>1. /\ frames \o iq \in Seq(IQFrames) /\ Len(frames \o iq) = Len(frames) + Len(iq)
        /\ \A i \in 1 .. Len(frames) + Len(iq) :
             (frames \o iq)[i] = IF i <= Len(frames) THEN frames[i] ELSE iq[i - Len(frames)]
    BY <1>4, ConcatProperties
  <2> QED
    BY <1>5, <2>1
<1>7. Good(frames \o iq)
  <2> SUFFICES ASSUME NEW i \in 1 .. Len(frames) + 1
               PROVE  Faithful((frames \o iq)[i]) /\ Settled((frames \o iq)[i])
    BY <1>6 DEF Good
  <2>1. CASE i \in 1 .. Len(frames)
    BY <1>4, <1>6, <2>1 DEF Good
  <2>2. CASE i = Len(frames) + 1
    BY <1>4, <1>5, <1>6, <2>2 DEF Good
  <2>3. i \in 1 .. Len(frames) \/ i = Len(frames) + 1
    BY <1>5
  <2> QED
    BY <2>1, <2>2, <2>3
<1>8. Good(frames)' /\ Good(iq)'
  <2>1. Good(frames')
    BY <1>1, <1>7
  <2>2. Good(frames)'
    BY <1>1, <2>1, SameGood
  <2>3. Len(iq') = 0
    BY <1>1
  <2> QED
    BY <2>2, <2>3 DEF Good
<1>9. VideoInv'
  <2> DEFINE first == SourceFieldIndex(2 * (outputFrame + 1))
  <2>1. first \in Nat /\ FirstIndex <= first
    <3>1. 2 * outputFrame \in Nat /\ 2 * (outputFrame + 1) \in Nat
          /\ 2 * outputFrame <= 2 * (outputFrame + 1)
      BY <1>3
    <3>2. /\ SourceFieldIndex(2 * outputFrame) <= SourceFieldIndex(2 * (outputFrame + 1))
          /\ SourceFieldIndex(2 * outputFrame) \in Nat
      BY <3>1, CadenceGrows
    <3>3. SourceFieldIndex(2 * (outputFrame + 1)) \in Nat
      BY <3>1, CadenceGrows
    <3> QED
      BY <3>2, <3>3 DEF FirstIndex
  <2>2. FirstIndex' = first
    BY <1>1 DEF FirstIndex, SourceFieldIndex
  <2>3. DOMAIN video' = {j \in DOMAIN video : j >= first}
    BY <1>1
  <2>4. /\ DOMAIN video \subseteq 0 .. nextSequence - 1
        /\ FirstIndex .. nextSequence - 1 \subseteq DOMAIN video
        /\ \A i \in DOMAIN video : video[i] = Shown(i) /\ video[i] \in Pictures
    BY DEF OutputInv, VideoInv
  <2> HIDE DEF first
  <2>5. first .. nextSequence - 1 \subseteq DOMAIN video'
    BY <1>3, <2>1, <2>3, <2>4
  <2>6. \A i \in DOMAIN video' : video'[i] = video[i] /\ i \in DOMAIN video
    BY <1>1, <2>3 DEF first
  <2>7. \A i \in DOMAIN video' : Shown(i)' = Shown(i)
    BY <1>1 DEF Shown
  <2> QED
    BY <1>1, <2>2, <2>3, <2>4, <2>5, <2>6, <2>7 DEF VideoInv
<1>10. OutputTypes'
  <2>1. Len(frames') <= FrameCapacity /\ frames' \in Seq(IQFrames) /\ iq' \in Seq(IQFrames)
    BY <1>1, <1>5, <1>6, EmptySeq DEF InputAssumption
  <2> QED
    BY <1>1, <1>2, <1>3, <2>1 DEF OutputInv, OutputTypes
<1>11. GapInv'
  BY <1>1 DEF OutputInv, GapInv, Queued, Newest
<1> QED
  BY <1>1, <1>2, <1>8, <1>9, <1>10, <1>11 DEF OutputInv

LEMMA OutputRest ==
  ASSUME InputAssumption, OutputInv, Filled \/ Sender \/ UNCHANGED vars
  PROVE  OutputInv'
<1>1. /\ UNCHANGED <<inputVars, bufferVars, outputFrame, iq>>
      /\ \/ frames' = frames
         \/ frames # <<>> /\ frames' = Tail(frames)
  BY DEF Filled, Sender, TakeFrame, RecycleFrame, vars
<1>2. /\ UNCHANGED <<nextInput, queue, writer, dropped>>
      /\ UNCHANGED <<video, audio, audioHead, nextSequence, lastRGB>>
  BY <1>1 DEF inputVars, bufferVars
<1>3. synth' \in {"fill", "buffer", "output"} /\ (synth' # "fill" => ~NeedsInput)
  BY DEF Filled, Sender, TakeFrame, RecycleFrame, vars, OutputInv, OutputTypes
<1>4. AudioInv' /\ VideoInv' /\ (NeedsInput' <=> NeedsInput)
  <2>1. SamePast /\ dropped' \subseteq Int
    BY <1>2 DEF SamePast, OutputInv, OutputTypes, Source
  <2> QED
    BY <1>1, <2>1, BufferKept DEF OutputInv
<1>5. frames' \in Seq(IQFrames) /\ Len(frames') <= FrameCapacity /\ Good(frames')
  <2>1. frames \in Seq(IQFrames) /\ Len(frames) <= FrameCapacity /\ Good(frames)
    BY DEF OutputInv, OutputTypes
  <2>2. ASSUME frames # <<>>
        PROVE  /\ Tail(frames) \in Seq(IQFrames) /\ Len(Tail(frames)) = Len(frames) - 1
               /\ \A i \in 1 .. Len(frames) - 1 : Tail(frames)[i] = frames[i + 1]
               /\ Len(frames) \in Nat \ {0}
    <3>1. Len(frames) \in Nat \ {0}
      BY <2>1, <2>2, EmptySeq
    <3>2. /\ Tail(frames) \in Seq(IQFrames) /\ Len(Tail(frames)) = Len(frames) - 1
          /\ \A i \in 1 .. Len(Tail(frames)) : Tail(frames)[i] = frames[i + 1]
      BY <2>1, <2>2, HeadTailProperties
    <3> QED
      BY <3>1, <3>2
  <2>3. CASE frames' = frames
    BY <2>1, <2>3
  <2>4. CASE frames # <<>> /\ frames' = Tail(frames)
    BY <2>1, <2>2, <2>4 DEF Good, InputAssumption
  <2> QED
    BY <1>1, <2>3, <2>4
<1>6. Good(iq)' /\ Good(frames)'
  <2>1. Good(iq') /\ Good(frames')
    BY <1>1, <1>5 DEF OutputInv
  <2> QED
    BY <1>2, <2>1, SameGood
<1>7. OutputTypes'
  BY <1>1, <1>2, <1>3, <1>5 DEF OutputInv, OutputTypes
<1>8. GapInv'
  BY <1>2 DEF OutputInv, GapInv, Queued, Newest
<1> QED
  BY <1>3, <1>4, <1>6, <1>7, <1>8 DEF OutputInv

LEMMA OutputStep ==
  InputAssumption /\ QueueInv /\ BufferInv /\ OutputInv /\ [Next]_vars => OutputInv'
BY OutputWriter, OutputReceive, OutputSynthesize, OutputOutput, OutputRest
DEF Next, Synthesizer

LEMMA OutputTyped == ASSUME InputAssumption, QueueInv, BufferInv, OutputInv PROVE TypeOK
<1>1. pool \in 0 .. PoolSize /\ sending \in BOOLEAN
  <2>1. PICK S : BuffersIn(S)
    BY DEF BufferInv
  <2>2. /\ pool \in Nat /\ sending \in BOOLEAN /\ Len(iq) \in Nat /\ Len(frames) \in Nat
        /\ pool + Len(iq) + Len(frames) + (IF sending THEN 1 ELSE 0) = PoolSize
    BY <2>1, LenProperties DEF BuffersIn, BufferInv, BuffersConserved
  <2> QED
    BY <2>2 DEF InputAssumption
<1>2. DOMAIN video \in SUBSET Source /\ \A i \in DOMAIN video : video[i] \in Pictures
  BY DEF OutputInv, VideoInv, OutputTypes, Source, InputAssumption
<1> QED
  BY <1>1, <1>2 DEF OutputInv, OutputTypes, QueueInv, QueueTypes, TypeOK, Samples

\* Every RF frame handed to the sender shows, in each of its fields, the newest picture up
\* to the field's place in the cadence that was not thrown away, and carries exactly the
\* sound the emulator delivered from its place on, silence for what was thrown away:
\* whatever overload drops, and however the queue, append's concealment, consumeAudio's
\* compaction and discardVideoBefore interleave; for every cadence, capacity and number
\* of frames.
THEOREM OutputIsFaithful == Spec => []OutputFaithful
<1>1. QueueInv /\ BufferInv /\ OutputInv => OutputFaithful
  BY InputAssumption, OutputTyped DEF OutputFaithful, OutputInv, Good
<1>2. Init => OutputInv
  BY InputAssumption, OutputInit
<1>3. QueueInv /\ BufferInv /\ OutputInv /\ [Next]_vars => OutputInv'
  BY InputAssumption, OutputStep
<1> QED
  BY <1>1, <1>2, <1>3, QueueInit, QueueStep, BufferInit, BufferStep, PTL DEF Spec

-----------------------------------------------------------------------------
(* The cadence of the program: 800 samples with each input frame, 1001     *)
(* input frames shown in 1000 fields, 8008 samples in five RF frames.      *)

ProgramRates ==
  /\ SamplesPerInput = 800
  /\ FieldNum = 1001 /\ FieldDen = 1000
  /\ AudioNum = 8008 /\ AudioDen = 5

\* An RF frame takes 1601 or 1602 samples, and five of them take 8008
\* ("48 kHz audio exactly 8008 samples per five RF frames").
THEOREM AudioSlices ==
  ASSUME ProgramRates, NEW n \in Nat
  PROVE  /\ AudioCount(n) \in {1601, 1602}
         /\ AudioStart(n + 5) = AudioStart(n) + 8008
<1>1. /\ AudioStart(n) = (n * 8008) \div 5
      /\ AudioStart(n + 1) = ((n + 1) * 8008) \div 5
      /\ AudioStart(n + 5) = ((n + 5) * 8008) \div 5
  BY DEF ProgramRates, AudioStart
<1> QED
  BY <1>1 DEF AudioCount

\* A field shows the input frame after the one the field before it showed, or
\* skips one, and it skips one at the end of 1000 fields only.
THEOREM FieldSteps ==
  ASSUME ProgramRates, NEW f \in Nat
  PROVE  SourceFieldIndex(f + 1) - SourceFieldIndex(f)
           = IF (f + 1) % 1000 = 0 THEN 2 ELSE 1
<1>1. /\ SourceFieldIndex(f) = (f * 1001) \div 1000
      /\ SourceFieldIndex(f + 1) = ((f + 1) * 1001) \div 1000
  BY DEF ProgramRates, SourceFieldIndex
<1> QED
  BY <1>1

\* The sound of an RF frame begins within the sound of the input frame its first
\* field shows, however many frames were sent: the two cadences never drift.
THEOREM SoundFollowsPicture ==
  ASSUME ProgramRates, NEW n \in Nat
  PROVE  LET ahead == AudioStart(n) - SamplesPerInput * SourceFieldIndex(2 * n)
         IN  0 <= ahead /\ ahead < SamplesPerInput
<1>1. /\ AudioStart(n) = (n * 8008) \div 5
      /\ SourceFieldIndex(2 * n) = (2 * n * 1001) \div 1000
      /\ SamplesPerInput = 800
  BY DEF ProgramRates, AudioStart, SourceFieldIndex
<1> QED
  BY <1>1
=============================================================================
