------------------------------- MODULE RFInput -------------------------------
(***************************************************************************)
(* From emulator frames to RF frames: Streamer.WriteFrame, the bounded     *)
(* input queue, rfInputBuffer and synthesizeLoop of                        *)
(* internal/rfstream/streamer.go, and the pool of IQ buffers that the      *)
(* synthesizer and the sender pass to each other.                          *)
(*                                                                         *)
(* The emulator delivers 60 frames per second, each with SamplesPerInput   *)
(* audio samples; the RF raster consumes two fields per RF frame at the    *)
(* slightly lower NTSC rate, so the synthesizer maps output fields to      *)
(* input frames with sourceFieldIndex and cuts the audio stream into       *)
(* slices that alternate between two lengths.  A picture is represented by *)
(* the sequence number of the input frame it shows, an audio sample by the *)
(* number of the frame it came with, or Silence.                           *)
(*                                                                         *)
(* One call of WriteFrame runs at a time (Streamer.mu is held); the        *)
(* synthesizer receives from the queue without that lock, so the channel   *)
(* operations of a WriteFrame that finds the queue full are separate       *)
(* steps.  Stopping the workers is the subject of RFLifecycle.             *)
(***************************************************************************)
EXTENDS Integers, Sequences, FiniteSetsExt

CONSTANTS
  QueueCapacity,    \* cap(inputQueue): 64
  FrameCapacity,    \* cap(frames): 2
  PoolSize,         \* cap(framePool): 3
  SamplesPerInput,  \* mono audio samples per input frame: 800
  FieldNum,         \* sourceFieldIndex(f) = f * FieldNum / FieldDen,
  FieldDen,         \*   1001 / 1000
  AudioNum,         \* RF frame n starts at audio sample n * AudioNum / AudioDen,
  AudioDen,         \*   8008 / 5
  CompactAt,        \* audioHead at which the audio buffer is compacted: 4096
  MaxFrames         \* bound: frames the emulator delivers

ASSUME InputAssumption ==
  /\ QueueCapacity \in Nat \ {0} /\ FrameCapacity \in Nat \ {0}
  /\ PoolSize \in Nat \ {0}
  /\ SamplesPerInput \in Nat \ {0}
  /\ FieldNum \in Nat /\ FieldDen \in Nat \ {0} /\ FieldNum >= FieldDen
  /\ AudioNum \in Nat \ {0} /\ AudioDen \in Nat \ {0}
  /\ CompactAt \in Nat
  /\ MaxFrames \in Nat

Black == -1       \* blackRGB
Silence == -1     \* a padded audio sample
Nothing == -2     \* lastRGB is nil
LookAhead == 2    \* samples the interpolation needs past the slice

Source == 0 .. MaxFrames - 1
Pictures == Source \union {Black}

VARIABLES
  nextInput,     \* nextInputSequence = FramesAccepted
  queue,         \* inputQueue, as sequence numbers
  writer,        \* the WriteFrame in progress: "idle", "full", "dropped"
  dropped,       \* history: frames thrown away; FramesDropped is their number
  video,         \* rfInputBuffer.video
  audio,         \* rfInputBuffer.audio
  audioHead,
  nextSequence,
  lastRGB,
  synth,         \* synthesizeLoop: "fill", "buffer" (waits for one), "output"
  outputFrame,   \* outputField is always twice outputFrame
  iq,            \* the RF frame just synthesized, as a sequence of at most one
  frames,        \* the channel to the sender
  pool,          \* number of buffers in framePool
  sending        \* the sender holds a buffer

inputVars  == <<nextInput, queue, writer, dropped>>
bufferVars == <<video, audio, audioHead, nextSequence, lastRGB>>
vars == <<inputVars, bufferVars, synth, outputFrame, iq, frames, pool, sending>>

Init ==
  /\ nextInput = 0 /\ queue = <<>> /\ writer = "idle" /\ dropped = {}
  /\ video = <<>> /\ audio = <<>> /\ audioHead = 0
  /\ nextSequence = 0 /\ lastRGB = Nothing
  /\ synth = "fill" /\ outputFrame = 0 /\ iq = <<>>
  /\ frames = <<>> /\ pool = PoolSize /\ sending = FALSE

-----------------------------------------------------------------------------
(* The cadence.                                                            *)

\* The input frame shown in an output field.
SourceFieldIndex(field) == (field * FieldNum) \div FieldDen

\* The first audio sample of an RF frame, and the length of its slice.
AudioStart(n) == (n * AudioNum) \div AudioDen
AudioCount(n) == AudioStart(n + 1) - AudioStart(n)

FirstIndex == SourceFieldIndex(2 * outputFrame)
SecondIndex == SourceFieldIndex(2 * outputFrame + 1)

-----------------------------------------------------------------------------
(* WriteFrame.                                                             *)

\* The frame whose call is in progress already has its number.
Newest == nextInput - 1

EnqueueFrame ==
  /\ writer = "idle" /\ nextInput < MaxFrames
  /\ nextInput' = nextInput + 1
  /\ IF Len(queue) < QueueCapacity
     THEN queue' = Append(queue, nextInput) /\ writer' = "idle"
     ELSE writer' = "full" /\ UNCHANGED queue
  /\ UNCHANGED <<dropped, bufferVars, synth, outputFrame, iq, frames, pool, sending>>

\* Mutant: the newest queued frame makes room.
DropNewest ==
  /\ writer = "full"
  /\ writer' = "dropped"
  /\ IF queue = <<>>
     THEN UNCHANGED <<queue, dropped>>
     ELSE /\ queue' = SubSeq(queue, 1, Len(queue) - 1)
          /\ dropped' = dropped \union {queue[Len(queue)]}
  /\ UNCHANGED <<nextInput, bufferVars, synth, outputFrame, iq, frames, pool, sending>>

\* The synthesizer may have taken frames meanwhile; one is dropped all the same.
DropOldest ==
  /\ writer = "full"
  /\ writer' = "dropped"
  /\ IF queue = <<>>
     THEN UNCHANGED <<queue, dropped>>
     ELSE queue' = Tail(queue) /\ dropped' = dropped \union {Head(queue)}
  /\ UNCHANGED <<nextInput, bufferVars, synth, outputFrame, iq, frames, pool, sending>>

\* A blocking send, made while Streamer.mu is held.
SendAfterDrop ==
  /\ writer = "dropped"
  /\ Len(queue) < QueueCapacity
  /\ writer' = "idle"
  /\ queue' = Append(queue, Newest)
  /\ UNCHANGED <<nextInput, dropped, bufferVars, synth, outputFrame, iq, frames, pool,
                 sending>>

-----------------------------------------------------------------------------
(* synthesizeLoop with its rfInputBuffer.                                  *)

Repeat(value, n) == [k \in 1 .. n |-> value]

\* Mutant: missing frames get a picture but no sound.
AppendFrameUnpadded(sequence) ==
  LET concealed == nextSequence .. sequence - 1
      fallback == IF lastRGB = Nothing THEN Black ELSE lastRGB
  IN /\ video' = [i \in DOMAIN video \union concealed \union {sequence} |->
                    IF i = sequence THEN sequence
                    ELSE IF i \in concealed THEN fallback
                    ELSE video[i]]
     /\ audio' = audio \o Repeat(sequence, SamplesPerInput)
     /\ lastRGB' = sequence
     /\ nextSequence' = sequence + 1
     /\ UNCHANGED audioHead

\* rfInputBuffer.append.  Missing frames are concealed: their picture is the
\* last one received and their audio is silent.
AppendFrame(sequence) ==
  IF sequence < nextSequence
  THEN lastRGB' = sequence /\ UNCHANGED <<video, audio, audioHead, nextSequence>>
  ELSE LET concealed == nextSequence .. sequence - 1
           fallback == IF lastRGB = Nothing THEN Black ELSE lastRGB
       IN /\ video' = [i \in DOMAIN video \union concealed \union {sequence} |->
                         IF i = sequence THEN sequence
                         ELSE IF i \in concealed THEN fallback
                         ELSE video[i]]
          /\ audio' = audio
                      \o Repeat(Silence, SamplesPerInput * Cardinality(concealed))
                      \o Repeat(sequence, SamplesPerInput)
          /\ lastRGB' = sequence
          /\ nextSequence' = sequence + 1
          /\ UNCHANGED audioHead

\* The condition of the loop in rfInputBuffer.fill.
NeedsInput ==
  \/ nextSequence <= SecondIndex
  \/ Len(audio) - audioHead < AudioCount(outputFrame) + LookAhead

ReceiveInput ==
  /\ synth = "fill" /\ NeedsInput
  /\ queue # <<>>
  /\ AppendFrame(Head(queue))
  /\ queue' = Tail(queue)
  /\ UNCHANGED <<nextInput, writer, dropped, synth, outputFrame, iq, frames, pool, sending>>

Filled ==
  /\ synth = "fill" /\ ~NeedsInput
  /\ synth' = "buffer"
  /\ UNCHANGED <<inputVars, bufferVars, outputFrame, iq, frames, pool, sending>>

\* audioWindow
Window == SubSeq(audio, audioHead + 1, audioHead + AudioCount(outputFrame) + LookAhead)

\* Mutant: the IQ samples are written to a buffer of their own.
SynthesizeUnpooled ==
  /\ synth = "buffer"
  /\ iq' = <<[n |-> outputFrame, first |-> video[FirstIndex],
              second |-> video[SecondIndex], audio |-> Window]>>
  /\ synth' = "output"
  /\ UNCHANGED <<inputVars, bufferVars, outputFrame, frames, pool, sending>>

Synthesize ==
  /\ synth = "buffer"
  /\ pool > 0
  /\ pool' = pool - 1
  /\ iq' = <<[n |-> outputFrame, first |-> video[FirstIndex],
              second |-> video[SecondIndex], audio |-> Window]>>
  /\ synth' = "output"
  /\ UNCHANGED <<inputVars, bufferVars, outputFrame, frames, sending>>

\* consumeAudio
ConsumeAudio(samples) ==
  IF audioHead + samples >= CompactAt
  THEN /\ audio' = SubSeq(audio, audioHead + samples + 1, Len(audio))
       /\ audioHead' = 0
  ELSE audioHead' = audioHead + samples /\ UNCHANGED audio

\* discardVideoBefore
DiscardVideoBefore(sequence) ==
  video' = [i \in {j \in DOMAIN video : j >= sequence} |-> video[i]]

Output ==
  /\ synth = "output"
  /\ Len(frames) < FrameCapacity
  /\ frames' = frames \o iq
  /\ iq' = <<>>
  /\ ConsumeAudio(AudioCount(outputFrame))
  /\ outputFrame' = outputFrame + 1
  /\ DiscardVideoBefore(SourceFieldIndex(2 * (outputFrame + 1)))
  /\ synth' = "fill"
  /\ UNCHANGED <<inputVars, nextSequence, lastRGB, pool, sending>>

-----------------------------------------------------------------------------
(* The sender's side of the two channels; what it does with a frame is in  *)
(* module RFSender.                                                        *)
TakeFrame ==
  /\ ~sending /\ frames # <<>>
  /\ frames' = Tail(frames)
  /\ sending' = TRUE
  /\ UNCHANGED <<inputVars, bufferVars, synth, outputFrame, iq, pool>>

\* Mutant: a sent buffer is not handed back.
RecycleFrameForgotten ==
  /\ sending
  /\ sending' = FALSE
  /\ UNCHANGED <<inputVars, bufferVars, synth, outputFrame, iq, frames, pool>>

RecycleFrame ==
  /\ sending /\ pool < PoolSize
  /\ sending' = FALSE
  /\ pool' = pool + 1
  /\ UNCHANGED <<inputVars, bufferVars, synth, outputFrame, iq, frames>>

Writer == EnqueueFrame \/ DropOldest \/ SendAfterDrop
Synthesizer == ReceiveInput \/ Filled \/ Synthesize \/ Output
Sender == TakeFrame \/ RecycleFrame

Next == Writer \/ Synthesizer \/ Sender

\* Each goroutine runs when it can; the emulator promises no further frame.
Fairness ==
  /\ WF_vars(DropOldest \/ SendAfterDrop)
  /\ WF_vars(Synthesizer)
  /\ WF_vars(Sender)

Spec == Init /\ [][Next]_vars /\ Fairness

-----------------------------------------------------------------------------
IQFrames == [n : Nat, first : Pictures, second : Pictures, audio : Seq(Source \union {Silence})]

\* Type invariant.
TypeOK ==
  /\ nextInput \in 0 .. MaxFrames
  /\ queue \in Seq(Source) /\ Len(queue) <= QueueCapacity
  /\ writer \in {"idle", "full", "dropped"}
  /\ writer # "idle" => nextInput > 0
  /\ dropped \in SUBSET Source
  /\ DOMAIN video \in SUBSET Source /\ \A i \in DOMAIN video : video[i] \in Pictures
  /\ audio \in Seq(Source \union {Silence}) /\ audioHead \in 0 .. Len(audio)
  /\ nextSequence \in 0 .. MaxFrames
  /\ lastRGB \in Source \union {Nothing}
  /\ synth \in {"fill", "buffer", "output"}
  /\ outputFrame \in Nat
  /\ iq \in Seq(IQFrames) /\ frames \in Seq(IQFrames) /\ Len(frames) <= FrameCapacity
  /\ pool \in 0 .. PoolSize
  /\ sending \in BOOLEAN

\* The newest frame that was sent to the queue.
Queued == IF writer = "idle" THEN Newest ELSE Newest - 1

(***************************************************************************)
(* The queue holds consecutive frames, newest last, none of them older     *)
(* than what the synthesizer already has: overload costs the oldest frames *)
(* and the late-frame branch of rfInputBuffer.append (streamer.go:350-353) *)
(* is never taken.                                                         *)
(***************************************************************************)
QueueIsNewest ==
  /\ \A i \in 1 .. Len(queue) : queue[i] = Queued - Len(queue) + i
  /\ nextSequence <= nextInput - Len(queue) - (IF writer = "idle" THEN 0 ELSE 1)

(***************************************************************************)
(* WriteFrame's second send, made with Streamer.mu held, finds room: it    *)
(* never waits for the synthesizer, which may itself wait for that lock    *)
(* (streamer.go:186).                                                      *)
(***************************************************************************)
SendNeverWaits == writer = "dropped" => Len(queue) < QueueCapacity

\* What WriteFrame and the synthesizer rely on of the queue between them.
QueueSound == QueueIsNewest /\ SendNeverWaits

(***************************************************************************)
(* Every buffer is in exactly one place, so recycling never waits and the  *)
(* pool never runs dry for good.                                           *)
(***************************************************************************)
BuffersConserved ==
  pool + Len(iq) + Len(frames) + (IF sending THEN 1 ELSE 0) = PoolSize

(***************************************************************************)
(* What an RF frame must hold, said without queue or buffer: the picture   *)
(* of a field is the newest frame up to the field's source frame that was  *)
(* not thrown away, and the k-th audio sample of the stream is the one the *)
(* emulator delivered at that position, or silence if its frame was thrown *)
(* away.                                                                   *)
(***************************************************************************)
Shown(source) ==
  LET kept == (0 .. source) \ dropped IN IF kept = {} THEN Black ELSE Max(kept)

Heard(position) ==
  LET source == position \div SamplesPerInput
  IN IF source \in dropped THEN Silence ELSE source

Faithful(f) ==
  /\ f.first = Shown(SourceFieldIndex(2 * f.n))
  /\ f.second = Shown(SourceFieldIndex(2 * f.n + 1))
  /\ Len(f.audio) = AudioCount(f.n) + LookAhead
  /\ \A k \in 1 .. Len(f.audio) : f.audio[k] = Heard(AudioStart(f.n) + k - 1)

(***************************************************************************)
(* Picture and sound stay in step with the emulator's clock whatever is    *)
(* dropped and however the queue, the gap concealment, the compaction and  *)
(* the discarding of pictures interleave (streamer.go:277-424).            *)
(***************************************************************************)
OutputFaithful ==
  /\ TypeOK
  /\ \A i \in 1 .. Len(iq) : Faithful(iq[i])
  /\ \A i \in 1 .. Len(frames) : Faithful(frames[i])
===============================================================================
