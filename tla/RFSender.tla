------------------------------ MODULE RFSender ------------------------------
(***************************************************************************)
(* The DIFI sender: sendLoop, sendData, sendPacket, sendUDPPacket and      *)
(* sendContextPacket of internal/rfstream/streamer.go.  One goroutine cuts *)
(* RF frames of FrameLength IQ samples into data packets of exactly        *)
(* SamplesPerPacket samples (a frame is no multiple of that, the rest is   *)
(* carried into the next frame), interleaves Signal Context and Version    *)
(* packets at fixed sample intervals, and hands every packet first to the  *)
(* WebSocket relay and then to the UDP socket.                             *)
(*                                                                         *)
(* A UDP write is delivered, dropped (EAGAIN, EWOULDBLOCK, ENOBUFS: the    *)
(* loss is reported in a later context packet) or fatal (the sender ends). *)
(* An IQ sample is its position in the stream.  Sequence counters are kept *)
(* modulo SequenceModulus, the width of the field on the wire.  Pacing is  *)
(* where a sender that is cancelled may end in the middle of a frame.      *)
(***************************************************************************)
EXTENDS Integers, Sequences

CONSTANTS
  FrameLength,       \* SamplesPerFrame: 477750
  SamplesPerPacket,  \* 356, 360 or 1820
  ContextInterval,   \* samples between contexts: 1431818
  VersionInterval,   \* samples between versions: 14318181
  SequenceModulus,   \* the 4-bit packet count of the DIFI header
  BatchPackets,      \* packets sent between two waits: 4 or 1
  MaxSentFrames      \* bound: RF frames synthesized

ASSUME SenderAssumption ==
  /\ SamplesPerPacket \in Nat \ {0}
  /\ FrameLength \in Nat /\ FrameLength >= SamplesPerPacket
  /\ ContextInterval \in Nat /\ ContextInterval >= SamplesPerPacket
  /\ VersionInterval \in Nat /\ VersionInterval >= SamplesPerPacket
  /\ SequenceModulus \in Nat \ {0} /\ BatchPackets \in Nat \ {0}
  /\ MaxSentFrames \in Nat

Streams == {"context", "version", "data"}
Outcomes == {"delivered", "dropped", "fatal"}

VARIABLES
  pc,           \* sendLoop: "frame", "startContext", "startVersion", "cut",
                \* "context", "version", "data", "ended"
  cancelled,    \* the worker context is done
  holding,      \* the sender holds an IQ buffer it has to recycle
  produced,     \* samples synthesized for the frames taken so far
  taken,        \* frames taken from the channel
  started,
  combined,     \* the samples of the current frame not sent yet
  carry,        \* the samples left over from earlier frames
  packet,       \* the samples of the data packet being sent
  sampleIndex, nextContext, nextVersion,
  sequence,     \* contextSequence, versionSequence, dataSequence
  lossPending,  \* stats.SampleLossPending
  relayed,      \* history: per stream, packets published to the relay
  udp           \* history of the UDP receiver, see below

loopVars == <<cancelled, holding, produced, taken, started, combined, carry, packet,
              sampleIndex, nextContext, nextVersion>>
wireVars == <<sequence, lossPending, relayed, udp>>
senderVars == <<pc, loopVars, wireVars>>

(***************************************************************************)
(* What the receiver of the UDP packets could know:                        *)
(*   context   [flag, lost]: the loss indicator of the last context that   *)
(*             arrived, and whether a packet was lost between the context  *)
(*             before it and this one;                                     *)
(*   lost      a packet was lost since that context;                       *)
(*   last      per stream, the sequence number that arrived last;          *)
(*   missing   per stream, packets lost since then;                        *)
(*   jump      the packet that arrived last: by how much its sequence      *)
(*             number moved, and how far it should have moved.             *)
(***************************************************************************)
SenderInit ==
  /\ pc = "frame" /\ cancelled = FALSE /\ holding = FALSE
  /\ produced = 0 /\ taken = 0 /\ started = FALSE
  /\ combined = <<>> /\ carry = <<>> /\ packet = <<>>
  /\ sampleIndex = 0 /\ nextContext = 0 /\ nextVersion = 0
  /\ sequence = [s \in Streams |-> 0]
  /\ lossPending = FALSE
  /\ relayed = [s \in Streams |-> 0]
  /\ udp = [context |-> [flag |-> FALSE, lost |-> FALSE],
            lost    |-> FALSE,
            last    |-> [s \in Streams |-> SequenceModulus - 1],
            missing |-> [s \in Streams |-> 0],
            jump    |-> [moved |-> 0, due |-> 0]]

-----------------------------------------------------------------------------
(* One packet: to the relay, then to the socket.                           *)

Arrives(s, flag) ==
  [udp EXCEPT
    !.last[s] = sequence[s],
    !.missing[s] = 0,
    !.jump = [moved |-> (sequence[s] - udp.last[s]) % SequenceModulus,
              due   |-> (udp.missing[s] + 1) % SequenceModulus],
    !.context = IF s = "context" THEN [flag |-> flag, lost |-> udp.lost] ELSE @,
    !.lost = IF s = "context" THEN FALSE ELSE @]

IsLost(s) == [udp EXCEPT !.missing[s] = @ + 1, !.lost = TRUE]

\* Mutant: an attempt to report the loss is taken for the report.
WriteUDPForgetting(s, outcome) ==
  LET flag == s = "context" /\ lossPending IN
  CASE outcome = "delivered" ->
         /\ udp' = Arrives(s, flag)
         /\ lossPending' = (lossPending /\ ~flag)
    [] outcome = "dropped" ->
         /\ udp' = IsLost(s)
         /\ lossPending' = (s # "context")
    [] outcome = "fatal" -> UNCHANGED <<udp, lossPending>>

\* sendUDPPacket, and what sendContextPacket adds to it: a context that carries
\* the loss indicator (nextContextPacket) clears the loss when it is delivered.
WriteUDP(s, outcome) ==
  LET flag == s = "context" /\ lossPending IN
  CASE outcome = "delivered" ->
         /\ udp' = Arrives(s, flag)
         /\ lossPending' = (lossPending /\ ~flag)
    [] outcome = "dropped" ->
         /\ udp' = IsLost(s)
         /\ lossPending' = TRUE
    [] outcome = "fatal" -> UNCHANGED <<udp, lossPending>>

\* sendPacket and sendContextPacket, and the counter their callers advance
\* unless the outcome is fatal.
SendPacket(s, outcome) ==
  /\ relayed' = [relayed EXCEPT ![s] = @ + 1]
  /\ WriteUDP(s, outcome)
  /\ sequence' = IF outcome = "fatal" THEN sequence
                 ELSE [sequence EXCEPT ![s] = (@ + 1) % SequenceModulus]

\* Every return of sendLoop hands the buffer back first.
Ends == pc' = "ended" /\ holding' = FALSE

Proceed(outcome, to) ==
  IF outcome = "fatal" THEN Ends ELSE pc' = to /\ UNCHANGED holding

-----------------------------------------------------------------------------
Cancel ==
  /\ ~cancelled
  /\ cancelled' = TRUE
  /\ UNCHANGED <<pc, holding, produced, taken, started, combined, carry, packet,
                 sampleIndex, nextContext, nextVersion, wireVars>>

\* sendLoop's select, where a cancelled context may still lose against a ready
\* frame, and paceData, which waits before the first packet of a batch.
Paces == pc = "context" /\ sampleIndex % (SamplesPerPacket * BatchPackets) = 0

Stop ==
  /\ cancelled
  /\ pc = "frame" \/ Paces
  /\ Ends
  /\ UNCHANGED <<cancelled, produced, taken, started, combined, carry, packet,
                 sampleIndex, nextContext, nextVersion, wireVars>>

TakeIQFrame ==
  /\ pc = "frame" /\ taken < MaxSentFrames
  /\ taken' = taken + 1
  /\ holding' = TRUE
  /\ combined' = [k \in 1 .. FrameLength |-> produced + k - 1]
  /\ produced' = produced + FrameLength
  /\ pc' = IF started THEN "cut" ELSE "startContext"
  /\ UNCHANGED <<cancelled, started, carry, packet, sampleIndex, nextContext,
                 nextVersion, wireVars>>

StartContext(outcome) ==
  /\ pc = "startContext"
  /\ SendPacket("context", outcome)
  /\ Proceed(outcome, "startVersion")
  /\ UNCHANGED <<cancelled, produced, taken, started, combined, carry, packet,
                 sampleIndex, nextContext, nextVersion>>

StartVersion(outcome) ==
  /\ pc = "startVersion"
  /\ SendPacket("version", outcome)
  /\ Proceed(outcome, "cut")
  /\ started' = (outcome # "fatal")
  /\ nextContext' = IF outcome = "fatal" THEN nextContext ELSE ContextInterval
  /\ nextVersion' = IF outcome = "fatal" THEN nextVersion ELSE VersionInterval
  /\ UNCHANGED <<cancelled, produced, taken, combined, carry, packet, sampleIndex>>

\* The next data packet: the carry completed from the frame, or a full slice.
CutPacket ==
  LET needed == SamplesPerPacket - Len(carry) IN
  /\ pc = "cut"
  /\ carry # <<>> \/ Len(combined) >= SamplesPerPacket
  /\ packet' = carry \o SubSeq(combined, 1, needed)
  /\ combined' = SubSeq(combined, needed + 1, Len(combined))
  /\ carry' = <<>>
  /\ pc' = "context"
  /\ UNCHANGED <<cancelled, holding, produced, taken, started, sampleIndex,
                 nextContext, nextVersion, wireVars>>

\* sendData, after pacing: a context when one is due, a version when one is
\* due, then the samples.
ContextDue == sampleIndex >= nextContext
VersionDue == sampleIndex >= nextVersion

\* Mutant: the next context is timed from this one.
SendContextDrifting(outcome) ==
  /\ pc = "context" /\ ContextDue
  /\ SendPacket("context", outcome)
  /\ Proceed(outcome, "version")
  /\ nextContext' = IF outcome = "fatal" THEN nextContext ELSE sampleIndex + ContextInterval
  /\ UNCHANGED <<cancelled, produced, taken, started, combined, carry, packet,
                 sampleIndex, nextVersion>>

SendContext(outcome) ==
  /\ pc = "context" /\ ContextDue
  /\ SendPacket("context", outcome)
  /\ Proceed(outcome, "version")
  /\ nextContext' = IF outcome = "fatal" THEN nextContext ELSE nextContext + ContextInterval
  /\ UNCHANGED <<cancelled, produced, taken, started, combined, carry, packet,
                 sampleIndex, nextVersion>>

SkipContext ==
  /\ pc = "context" /\ ~ContextDue
  /\ pc' = "version"
  /\ UNCHANGED <<loopVars, wireVars>>

SendVersion(outcome) ==
  /\ pc = "version" /\ VersionDue
  /\ SendPacket("version", outcome)
  /\ Proceed(outcome, "data")
  /\ nextVersion' = IF outcome = "fatal" THEN nextVersion ELSE nextVersion + VersionInterval
  /\ UNCHANGED <<cancelled, produced, taken, started, combined, carry, packet,
                 sampleIndex, nextContext>>

SkipVersion ==
  /\ pc = "version" /\ ~VersionDue
  /\ pc' = "data"
  /\ UNCHANGED <<loopVars, wireVars>>

SendData(outcome) ==
  /\ pc = "data"
  /\ SendPacket("data", outcome)
  /\ Proceed(outcome, "cut")
  /\ sampleIndex' = IF outcome = "fatal" THEN sampleIndex ELSE sampleIndex + Len(packet)
  /\ packet' = <<>>
  /\ UNCHANGED <<cancelled, produced, taken, started, combined, carry, nextContext,
                 nextVersion>>

\* Mutant: the rest of a frame is dropped.
FinishFrameDropping ==
  /\ pc = "cut"
  /\ carry = <<>> /\ Len(combined) < SamplesPerPacket
  /\ combined' = <<>>
  /\ holding' = FALSE
  /\ pc' = "frame"
  /\ UNCHANGED <<cancelled, produced, taken, started, carry, packet, sampleIndex,
                 nextContext, nextVersion, wireVars>>

\* What is left is copied out before the buffer goes back to the pool.
FinishFrame ==
  /\ pc = "cut"
  /\ carry = <<>> /\ Len(combined) < SamplesPerPacket
  /\ carry' = combined
  /\ combined' = <<>>
  /\ holding' = FALSE
  /\ pc' = "frame"
  /\ UNCHANGED <<cancelled, produced, taken, started, packet, sampleIndex, nextContext,
                 nextVersion, wireVars>>

Send(outcome) ==
  \/ StartContext(outcome) \/ StartVersion(outcome)
  \/ SendContext(outcome) \/ SendVersion(outcome) \/ SendData(outcome)

\* The steps of the sender that wait for nobody.
Work ==
  \/ Stop \/ CutPacket \/ SkipContext \/ SkipVersion \/ FinishFrame
  \/ \E outcome \in Outcomes : Send(outcome)

SenderNext == Cancel \/ TakeIQFrame \/ Work

SenderSpec == SenderInit /\ [][SenderNext]_senderVars /\ WF_senderVars(Work)

-----------------------------------------------------------------------------
(* Properties.                                                             *)

Numbers == 0 .. SequenceModulus - 1

\* Type invariant.
SenderTypeOK ==
  /\ pc \in {"frame", "startContext", "startVersion", "cut", "context", "version",
             "data", "ended"}
  /\ cancelled \in BOOLEAN /\ holding \in BOOLEAN /\ started \in BOOLEAN
  /\ taken \in 0 .. MaxSentFrames /\ produced \in Nat
  /\ combined \in Seq(Nat) /\ carry \in Seq(Nat) /\ packet \in Seq(Nat)
  /\ sampleIndex \in Nat /\ nextContext \in Nat /\ nextVersion \in Nat
  /\ sequence \in [Streams -> Numbers] /\ lossPending \in BOOLEAN
  /\ relayed \in [Streams -> Nat]
  /\ udp \in [context : [flag : BOOLEAN, lost : BOOLEAN], lost : BOOLEAN,
              last : [Streams -> Numbers], missing : [Streams -> Nat],
              jump : [moved : Numbers, due : Numbers]]

Contiguous(samples, from) == \A k \in DOMAIN samples : samples[k] = from + k - 1

\* The samples cut into packets are the synthesized stream without gap or
\* repetition across frame boundaries: packet, carry and the rest of the frame
\* follow sampleIndex (from which the timestamp is computed) in that order and
\* reach the end of what was synthesized, and every packet is full.
StreamContinuous ==
  /\ pc \in {"context", "version", "data"} => Len(packet) = SamplesPerPacket
  /\ pc # "ended" =>
       /\ Contiguous(packet, sampleIndex)
       /\ Contiguous(carry, sampleIndex + Len(packet))
       /\ Contiguous(combined, sampleIndex + Len(packet) + Len(carry))
       /\ sampleIndex + Len(packet) + Len(carry) + Len(combined) = produced

\* The receiver learns of every loss and of nothing else: a context that
\* arrives carries the loss indicator exactly if a packet of any stream was
\* lost since the context that arrived before it (EAGAIN, also on the context
\* that was to report an earlier loss).
LossReported == udp.context.flag = udp.context.lost

\* The four-bit counters tell losses: a packet's number moved on from the one
\* that arrived before it by the number of packets lost in between, plus one.
GapsTellLosses == udp.jump.moved = udp.jump.due

\* Each loss is told twice, by the indicator and by the counters, and both tell the same.
LossesTold == LossReported /\ GapsTellLosses

\* Contexts and versions keep to the sample clock without drifting: when a data
\* packet is about to be sent there was one at the start and one for each
\* interval the sample clock has reached.
Cadence ==
  pc = "data" =>
    /\ relayed["context"] = 1 + sampleIndex \div ContextInterval
    /\ relayed["version"] = 1 + sampleIndex \div VersionInterval
=============================================================================
