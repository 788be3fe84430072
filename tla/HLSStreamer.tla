---------------------------- MODULE HLSStreamer ----------------------------
(***************************************************************************)
(* The HLS output: HLSStreamer of internal/streaming/hls.go.  WriteFrame   *)
(* offers frames to a bounded channel; the pump goroutine moves each one's *)
(* sound and picture to a bounded channel of its own, making room by       *)
(* dropping the oldest; two writers feed FFmpeg's pipes.  Start and Stop   *)
(* hold the mutex from beginning to end, WriteFrame holds it briefly, and  *)
(* the pump takes it once per frame to count.                              *)
(*                                                                         *)
(* A section under the mutex is one step; Stop, which waits while it holds *)
(* the mutex, is several, during which nobody else gets it.  A frame is a  *)
(* number; FFmpeg reads or dies.                                           *)
(***************************************************************************)
EXTENDS Integers, Sequences

CONSTANTS
  FrameCapacity,    \* cap(frameCh): 8
  BufferCapacity,   \* cap(videoCh) and cap(audioCh): 8
  MaxFrames,        \* bound: frames offered
  MaxStarts         \* bound: calls of Start that start something

ASSUME HLSAssumption ==
  /\ FrameCapacity \in Nat \ {0} /\ BufferCapacity \in Nat \ {0}
  /\ MaxFrames \in Nat /\ MaxStarts \in Nat

Media == {"audio", "video"}
NoFrame == 0

VARIABLES
  starts,      \* bound: how often the streamer was started
  ctxDone,     \* the context given to Start is done
  stopping,    \* Stop: "no", or inside, holding the mutex: "waiting", "reaping"
  ffmpeg,      \* "none" (cmd is nil), "alive", "dead"
  frameCh,     \* the channel, and whether Stop has closed it
  frameClosed,
  pump,        \* [at, medium, frame, dropped]; at: "off", "select", "offer",
               \* "evict", "retry", "lock", "drain", "done"
  queue,       \* audioCh and videoCh, and whether the pump has closed them
  queueClosed,
  writer,      \* per medium [at, frame]; at: "off", "select", "write", "ended"
  heard,       \* history: per medium, the frames FFmpeg has read, since Start
  offered,     \* history: frames WriteFrame took, since Start
  stats        \* [written, dropped, refused]; DroppedFrames = dropped + refused

vars == <<starts, ctxDone, stopping, ffmpeg, frameCh, frameClosed, pump, queue,
          queueClosed, writer, heard, offered, stats>>

Both(x) == [m \in Media |-> x]
Pump(at) == [at |-> at, medium |-> "audio", frame |-> NoFrame, dropped |-> 0]
Writer(at) == [at |-> at, frame |-> NoFrame]
NoStats == [written |-> 0, dropped |-> 0, refused |-> 0]

Init ==
  /\ starts = 0 /\ ctxDone = FALSE /\ stopping = "no" /\ ffmpeg = "none"
  /\ frameCh = <<>> /\ frameClosed = FALSE
  /\ pump = Pump("off")
  /\ queue = Both(<<>>) /\ queueClosed = FALSE
  /\ writer = Both(Writer("off"))
  /\ heard = Both(<<>>) /\ offered = 0 /\ stats = NoStats

MutexFree == stopping = "no"
Running == ffmpeg # "none"     \* also: frameCh is not nil

-----------------------------------------------------------------------------
(* Start, Stop and WriteFrame.                                             *)

\* With a context that is done exec.Cmd.Start fails.
Start ==
  /\ MutexFree /\ ~Running /\ ~ctxDone /\ starts < MaxStarts
  /\ starts' = starts + 1
  /\ ffmpeg' = "alive"
  /\ frameCh' = <<>> /\ frameClosed' = FALSE
  /\ pump' = Pump("select")
  /\ queue' = Both(<<>>) /\ queueClosed' = FALSE
  /\ writer' = Both(Writer("select"))
  /\ heard' = Both(<<>>) /\ offered' = 0 /\ stats' = NoStats
  /\ UNCHANGED <<ctxDone, stopping>>

\* A full channel refuses the frame; nobody waits.
WriteFrame ==
  /\ MutexFree /\ Running /\ offered < MaxFrames
  /\ offered' = offered + 1
  /\ IF Len(frameCh) < FrameCapacity
     THEN frameCh' = Append(frameCh, offered + 1) /\ UNCHANGED stats
     ELSE stats' = [stats EXCEPT !.refused = @ + 1] /\ UNCHANGED frameCh
  /\ UNCHANGED <<starts, ctxDone, stopping, ffmpeg, frameClosed, pump, queue, queueClosed,
                 writer, heard>>

Stop ==
  /\ MutexFree /\ Running
  /\ stopping' = "waiting"
  /\ frameClosed' = TRUE
  /\ UNCHANGED <<starts, ctxDone, ffmpeg, frameCh, pump, queue, queueClosed, writer, heard,
                 offered, stats>>

\* <-doneCh
StopJoins ==
  /\ stopping = "waiting" /\ pump.at = "done"
  /\ stopping' = "reaping"
  /\ UNCHANGED <<starts, ctxDone, ffmpeg, frameCh, frameClosed, pump, queue, queueClosed,
                 writer, heard, offered, stats>>

\* The pipes are closed, so FFmpeg ends, and cmd.Wait with it.
StopReaps ==
  /\ stopping = "reaping"
  /\ stopping' = "no"
  /\ ffmpeg' = "none"
  /\ frameCh' = <<>> /\ queue' = Both(<<>>)
  /\ UNCHANGED <<starts, ctxDone, frameClosed, pump, queueClosed, writer, heard, offered,
                 stats>>

Shutdown ==
  /\ ~ctxDone
  /\ ctxDone' = TRUE
  /\ UNCHANGED <<starts, stopping, ffmpeg, frameCh, frameClosed, pump, queue, queueClosed,
                 writer, heard, offered, stats>>

-----------------------------------------------------------------------------
(* The pump.                                                               *)

\* Of a done context and a ready frame select takes either.
PumpLeaves ==
  /\ pump.at = "select"
  /\ ctxDone \/ (frameClosed /\ frameCh = <<>>)
  /\ pump' = Pump("drain")
  /\ queueClosed' = TRUE
  /\ UNCHANGED <<starts, ctxDone, stopping, ffmpeg, frameCh, frameClosed, queue, writer,
                 heard, offered, stats>>

PumpTakes ==
  /\ pump.at = "select" /\ frameCh # <<>>
  /\ pump' = [at |-> "offer", medium |-> "audio", frame |-> Head(frameCh), dropped |-> 0]
  /\ frameCh' = Tail(frameCh)
  /\ UNCHANGED <<starts, ctxDone, stopping, ffmpeg, frameClosed, queue, queueClosed, writer,
                 heard, offered, stats>>

\* The sound first, then the picture, then the counters.
Sent(drops) ==
  IF pump.medium = "audio"
  THEN [pump EXCEPT !.at = "offer", !.medium = "video", !.dropped = @ + drops]
  ELSE [pump EXCEPT !.at = "lock", !.dropped = @ + drops]

Room == Len(queue[pump.medium]) < BufferCapacity

\* enqueueLatest, whose three selects interleave with the writer.
Offer ==
  /\ pump.at = "offer"
  /\ IF Room
     THEN /\ queue' = [queue EXCEPT ![pump.medium] = Append(@, pump.frame)]
          /\ pump' = Sent(0)
     ELSE pump' = [pump EXCEPT !.at = "evict"] /\ UNCHANGED queue
  /\ UNCHANGED <<starts, ctxDone, stopping, ffmpeg, frameCh, frameClosed, queueClosed,
                 writer, heard, offered, stats>>

\* Mutant: nothing is evicted.
EvictNothing ==
  /\ pump.at = "evict"
  /\ pump' = [pump EXCEPT !.at = "retry"]
  /\ UNCHANGED <<starts, ctxDone, stopping, ffmpeg, frameCh, frameClosed, queue, queueClosed,
                 writer, heard, offered, stats>>

Evict ==
  /\ pump.at = "evict"
  /\ pump' = [pump EXCEPT !.at = "retry"]
  /\ queue' = [queue EXCEPT ![pump.medium] = IF @ = <<>> THEN @ ELSE Tail(@)]
  /\ UNCHANGED <<starts, ctxDone, stopping, ffmpeg, frameCh, frameClosed, queueClosed,
                 writer, heard, offered, stats>>

Retry ==
  /\ pump.at = "retry"
  /\ queue' = [queue EXCEPT ![pump.medium] = IF Room THEN Append(@, pump.frame) ELSE @]
  /\ pump' = Sent(1)
  /\ UNCHANGED <<starts, ctxDone, stopping, ffmpeg, frameCh, frameClosed, queueClosed,
                 writer, heard, offered, stats>>

\* The only step of the pump that needs the mutex.
PumpCounts ==
  /\ pump.at = "lock" /\ MutexFree
  /\ stats' = [stats EXCEPT !.written = @ + 1, !.dropped = @ + pump.dropped]
  /\ pump' = Pump("select")
  /\ UNCHANGED <<starts, ctxDone, stopping, ffmpeg, frameCh, frameClosed, queue, queueClosed,
                 writer, heard, offered>>

\* Mutant: doneCh is never closed.
PumpEndsSilently ==
  /\ pump.at = "drain"
  /\ \A m \in Media : writer[m].at = "ended"
  /\ pump' = Pump("off")
  /\ UNCHANGED <<starts, ctxDone, stopping, ffmpeg, frameCh, frameClosed, queue, queueClosed,
                 writer, heard, offered, stats>>

\* The pump waits for its writers before it closes doneCh.
PumpEnds ==
  /\ pump.at = "drain"
  /\ \A m \in Media : writer[m].at = "ended"
  /\ pump' = Pump("done")
  /\ UNCHANGED <<starts, ctxDone, stopping, ffmpeg, frameCh, frameClosed, queue, queueClosed,
                 writer, heard, offered, stats>>

-----------------------------------------------------------------------------
(* The writers and FFmpeg.                                                 *)

WriterLeaves(m) ==
  /\ writer[m].at = "select"
  /\ ctxDone \/ (queueClosed /\ queue[m] = <<>>)
  /\ writer' = [writer EXCEPT ![m] = Writer("ended")]
  /\ UNCHANGED <<starts, ctxDone, stopping, ffmpeg, frameCh, frameClosed, pump, queue,
                 queueClosed, heard, offered, stats>>

WriterTakes(m) ==
  /\ writer[m].at = "select" /\ queue[m] # <<>>
  /\ writer' = [writer EXCEPT ![m] = [at |-> "write", frame |-> Head(queue[m])]]
  /\ queue' = [queue EXCEPT ![m] = Tail(@)]
  /\ UNCHANGED <<starts, ctxDone, stopping, ffmpeg, frameCh, frameClosed, pump, queueClosed,
                 heard, offered, stats>>

\* Write returns when FFmpeg has read the frame, or with an error when it died.
WriterWrites(m) ==
  /\ writer[m].at = "write"
  /\ IF ffmpeg = "alive"
     THEN /\ heard' = [heard EXCEPT ![m] = Append(@, writer[m].frame)]
          /\ writer' = [writer EXCEPT ![m] = Writer("select")]
     ELSE /\ writer' = [writer EXCEPT ![m] = Writer("ended")]
          /\ UNCHANGED heard
  /\ UNCHANGED <<starts, ctxDone, stopping, ffmpeg, frameCh, frameClosed, pump, queue,
                 queueClosed, offered, stats>>

\* A crash, or exec.CommandContext killing it when the context is done.
FFmpegDies ==
  /\ ffmpeg = "alive"
  /\ ffmpeg' = "dead"
  /\ UNCHANGED <<starts, ctxDone, stopping, frameCh, frameClosed, pump, queue, queueClosed,
                 writer, heard, offered, stats>>

-----------------------------------------------------------------------------
PumpSteps ==
  PumpLeaves \/ PumpTakes \/ Offer \/ Evict \/ Retry \/ PumpCounts \/ PumpEnds
WriterSteps(m) == WriterLeaves(m) \/ WriterTakes(m) \/ WriterWrites(m)
StopSteps == StopJoins \/ StopReaps

Next ==
  \/ Start \/ WriteFrame \/ Stop \/ StopSteps \/ Shutdown \/ FFmpegDies
  \/ PumpSteps \/ \E m \in Media : WriterSteps(m)

\* Goroutines run; FFmpeg goes on reading both pipes as long as it lives.
Spec ==
  /\ Init /\ [][Next]_vars
  /\ WF_vars(StopSteps) /\ WF_vars(PumpSteps)
  /\ \A m \in Media : WF_vars(WriterSteps(m))

-----------------------------------------------------------------------------
(* Properties.                                                             *)

Frames == 0 .. MaxFrames

\* Type invariant.
TypeOK ==
  /\ starts \in 0 .. MaxStarts /\ ctxDone \in BOOLEAN
  /\ stopping \in {"no", "waiting", "reaping"}
  /\ ffmpeg \in {"none", "alive", "dead"}
  /\ frameCh \in Seq(Frames) /\ Len(frameCh) <= FrameCapacity
  /\ frameClosed \in BOOLEAN /\ queueClosed \in BOOLEAN
  /\ pump.at \in {"off", "select", "offer", "evict", "retry", "lock", "drain", "done"}
  /\ pump.medium \in Media /\ pump.frame \in Frames /\ pump.dropped \in 0 .. 2
  /\ \A m \in Media :
       /\ queue[m] \in Seq(Frames) /\ Len(queue[m]) <= BufferCapacity
       /\ writer[m].at \in {"off", "select", "write", "ended"}
       /\ writer[m].frame \in Frames
       /\ heard[m] \in Seq(Frames)
  /\ offered \in Frames
  /\ stats \in [written : Frames, dropped : 0 .. 2 * MaxFrames, refused : Frames]

Increasing(s) == \A i, j \in DOMAIN s : i < j => s[i] < s[j]

\* What is on its way to FFmpeg on one pipe: heard, in the writer, queued, in the
\* pump's hands, waiting for the pump.
InHand(m) ==
  IF pump.at \in {"offer", "evict", "retry"} /\ (pump.medium = "audio" \/ m = "video")
  THEN <<pump.frame>> ELSE <<>>
Pipeline(m) ==
  heard[m] \o (IF writer[m].at = "write" THEN <<writer[m].frame>> ELSE <<>>)
    \o queue[m] \o InHand(m) \o frameCh

\* Sound and picture reach FFmpeg in the order of the frames, none twice, though
\* the writer may empty the channel between the selects of enqueueLatest; and what
\* makes room is old: the newest frame the pump has passed on is never the one
\* that is lost, the last select of enqueueLatest never fails.
NewestKept ==
  \A m \in Media :
    LET s == Pipeline(m) IN
    /\ Increasing(s)
    /\ pump.at = "lock" /\ writer[m].at # "ended" => \E i \in DOMAIN s : s[i] = pump.frame

\* Every frame offered is refused at the door, waits, is in the pump's hands or
\* was counted as written; a pump that leaves leaves only what waits.
Accounting ==
  Running =>
    offered = stats.refused + Len(frameCh) + stats.written
              + (IF pump.at \in {"offer", "evict", "retry", "lock"} THEN 1 ELSE 0)

\* Pump and encoder never disagree about a frame: it is queued, counted as written, counted
\* as refused or in the pump's hands, and of those queued the oldest gives way.
FramesKept == TypeOK /\ NewestKept /\ Accounting

\* Stop returns unless it meets the pump between taking a frame and counting it:
\* nothing but the mutex it holds itself can keep Stop waiting.
StopEndsOrMeetsPump ==
  stopping = "waiting" ~> (stopping = "no" \/ pump.at = "lock")

\* Stop, which the daemon calls when it is told to shut down, returns.
StopReturns == stopping = "waiting" ~> stopping = "no"
=============================================================================
