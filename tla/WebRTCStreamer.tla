--------------------------- MODULE WebRTCStreamer ---------------------------
(***************************************************************************)
(* The WebRTC output: WebRTCStreamer of internal/streaming/webrtc.go.      *)
(* WriteFrame queues the picture and the sound of a frame, each with a     *)
(* channel and a writer that feeds an FFmpeg of its own; a forwarder per   *)
(* medium takes FFmpeg's output to the track all peers share; a watcher    *)
(* per FFmpeg reports its end.  One mutex guards the streamer's fields.    *)
(*                                                                         *)
(* WriteFrame and Stop wait while they hold the mutex, so they are several *)
(* steps; every other section under it is one.  The daemon starts the      *)
(* streamer once and stops it once.  A frame is a number; what is said of  *)
(* an error (lastError) and packet counters are left out.                  *)
(***************************************************************************)
EXTENDS Integers, Sequences

CONSTANTS
  Peers,          \* offers that may come in
  Capacity,       \* cap(videoCh) and cap(audioCh): 8
  MaxFrames       \* bound: frames written

ASSUME WebRTCAssumption == Capacity \in Nat \ {0} /\ MaxFrames \in Nat

Media == {"audio", "video"}
NoFrame == 0

VARIABLES
  state,      \* "new", "running", Stop with the mutex: "joining", "reaping"; "over"
  ctxDone,    \* the context given to Start is done
  offered,    \* framesIn
  send,       \* WriteFrame [at, medium]; at: "off", "offer", "evict", "push"
  queue,      \* videoCh and audioCh, closed by Stop
  writer,     \* per medium [at, frame]; at: "off", "select", "write", "report", "ended"
  encoder,    \* per medium: "off", "alive", "ended", "reported" by its watcher
  forwarder,  \* per medium: "off", "read", "send", "ended", "panic"
  peers,      \* the map of that name
  answer,     \* per peer: "none", "gathering", "answered", "refused"
  conn,       \* per peer connection: "none", "open", "closed"
  notice,     \* peer connections whose end OnConnectionStateChange has not handled yet
  heard       \* history: per medium, the last frame FFmpeg has read

vars == <<state, ctxDone, offered, send, queue, writer, encoder, forwarder, peers,
          answer, conn, notice, heard>>
peerVars == <<peers, answer, conn, notice>>
mediaVars == <<offered, send, queue, writer, encoder, forwarder, heard>>

Both(x) == [m \in Media |-> x]
Sender(at, m) == [at |-> at, medium |-> m]
Idle == Sender("off", "video")
Writer(at) == [at |-> at, frame |-> NoFrame]

Init ==
  /\ state = "new" /\ ctxDone = FALSE /\ offered = 0 /\ send = Idle
  /\ queue = Both(<<>>) /\ writer = Both(Writer("off"))
  /\ encoder = Both("off") /\ forwarder = Both("off")
  /\ peers = {} /\ notice = {}
  /\ answer = [p \in Peers |-> "none"] /\ conn = [p \in Peers |-> "none"]
  /\ heard = Both(NoFrame)

Stopping == state \in {"joining", "reaping"}
MutexFree == ~Stopping /\ send.at = "off"
Closed == state \notin {"new", "running"}      \* Stop has closed the channels

\* Stop has closed the pipes and the audio socket.
PipesClosed == state \in {"reaping", "over"}

-----------------------------------------------------------------------------
(* Start and Stop.                                                         *)

\* A Start that fails leaves the streamer as it was.
Start ==
  /\ state = "new" /\ ~ctxDone
  /\ state' = "running"
  /\ writer' = Both(Writer("select"))
  /\ encoder' = Both("alive")
  /\ forwarder' = Both("read")
  /\ UNCHANGED <<ctxDone, offered, send, queue, heard, peerVars>>

\* Stop takes the mutex and closes the channels; it leaves when the writers have
\* taken what is queued.
Stop ==
  /\ state = "running" /\ MutexFree
  /\ state' = "joining"
  /\ UNCHANGED <<ctxDone, mediaVars, peerVars>>

\* Mutant: the peers are forgotten but not closed.
StopJoinsKeepingPeers ==
  /\ state = "joining"
  /\ \A m \in Media : writer[m].at = "ended"
  /\ state' = "reaping"
  /\ peers' = {}
  /\ UNCHANGED <<ctxDone, mediaVars, answer, conn, notice>>

\* Both done channels are closed: Stop closes the peers, which notices them, then
\* the pipes.
StopJoins ==
  /\ state = "joining"
  /\ \A m \in Media : writer[m].at = "ended"
  /\ state' = "reaping"
  /\ conn' = [p \in Peers |-> IF p \in peers THEN "closed" ELSE conn[p]]
  /\ notice' = notice \union {p \in peers : conn[p] = "open"}
  /\ peers' = {}
  /\ UNCHANGED <<ctxDone, mediaVars, answer>>

\* Both exit channels have been served: the fields become nil.
StopReaps ==
  /\ state = "reaping"
  /\ \A m \in Media : encoder[m] = "reported"
  /\ state' = "over"
  /\ queue' = Both(<<>>)
  /\ UNCHANGED <<ctxDone, offered, send, writer, encoder, forwarder, heard, peerVars>>

Shutdown ==
  /\ ~ctxDone
  /\ ctxDone' = TRUE
  /\ UNCHANGED <<state, mediaVars, peerVars>>

-----------------------------------------------------------------------------
(* WriteFrame, which holds the mutex for both sends of enqueueLatestBytes. *)

WriteFrame ==
  /\ state = "running" /\ MutexFree /\ offered < MaxFrames
  /\ offered' = offered + 1
  /\ send' = Sender("offer", "video")
  /\ UNCHANGED <<state, ctxDone, queue, writer, encoder, forwarder, heard, peerVars>>

\* The picture, then the sound, then the mutex is released.
Sent == IF send.medium = "video" THEN Sender("offer", "audio") ELSE Idle
Room == Len(queue[send.medium]) < Capacity

\* Mutant: a full channel refuses the frame.
OfferRefusing ==
  /\ send.at = "offer"
  /\ queue' = [queue EXCEPT ![send.medium] = IF Room THEN Append(@, offered) ELSE @]
  /\ send' = Sent
  /\ UNCHANGED <<state, ctxDone, offered, writer, encoder, forwarder, heard, peerVars>>

Offer ==
  /\ send.at = "offer"
  /\ IF Room
     THEN queue' = [queue EXCEPT ![send.medium] = Append(@, offered)] /\ send' = Sent
     ELSE send' = [send EXCEPT !.at = "evict"] /\ UNCHANGED queue
  /\ UNCHANGED <<state, ctxDone, offered, writer, encoder, forwarder, heard, peerVars>>

\* Mutant: nothing is taken out.
EvictNothing ==
  /\ send.at = "evict"
  /\ send' = [send EXCEPT !.at = "push"]
  /\ UNCHANGED <<state, ctxDone, offered, queue, writer, encoder, forwarder, heard,
                 peerVars>>

\* The writer may have emptied the channel in the meantime.
Evict ==
  /\ send.at = "evict"
  /\ send' = [send EXCEPT !.at = "push"]
  /\ queue' = [queue EXCEPT ![send.medium] = IF @ = <<>> THEN @ ELSE Tail(@)]
  /\ UNCHANGED <<state, ctxDone, offered, writer, encoder, forwarder, heard, peerVars>>

\* A send that waits for room.
Push ==
  /\ send.at = "push" /\ Room
  /\ queue' = [queue EXCEPT ![send.medium] = Append(@, offered)]
  /\ send' = Sent
  /\ UNCHANGED <<state, ctxDone, offered, writer, encoder, forwarder, heard, peerVars>>

-----------------------------------------------------------------------------
(* The writers, FFmpeg and the watchers of its end.                        *)

WriterGoes(m, at) ==
  /\ writer' = [writer EXCEPT ![m] = Writer(at)]
  /\ UNCHANGED <<state, ctxDone, offered, send, encoder, forwarder, peerVars>>

\* Of a done context and a ready frame select takes either.
WriterLeaves(m) ==
  /\ writer[m].at = "select"
  /\ ctxDone \/ (Closed /\ queue[m] = <<>>)
  /\ WriterGoes(m, "ended")
  /\ UNCHANGED <<queue, heard>>

WriterTakes(m) ==
  /\ writer[m].at = "select" /\ queue[m] # <<>>
  /\ writer' = [writer EXCEPT ![m] = [at |-> "write", frame |-> Head(queue[m])]]
  /\ queue' = [queue EXCEPT ![m] = Tail(@)]
  /\ UNCHANGED <<state, ctxDone, offered, send, encoder, forwarder, heard, peerVars>>

WriterWrites(m) ==
  /\ writer[m].at = "write" /\ encoder[m] = "alive"
  /\ heard' = [heard EXCEPT ![m] = writer[m].frame]
  /\ WriterGoes(m, "select")
  /\ UNCHANGED queue

WriteFails(m) ==
  /\ writer[m].at = "write" /\ encoder[m] # "alive"
  /\ WriterGoes(m, "report")
  /\ UNCHANGED <<queue, heard>>

\* recordError needs the mutex; done is closed after it.
WriterReports(m) ==
  /\ writer[m].at = "report" /\ MutexFree
  /\ WriterGoes(m, "ended")
  /\ UNCHANGED <<queue, heard>>

\* FFmpeg crashes, reads the end of its input, or is killed with its context.
EncoderEnds(m) ==
  /\ encoder[m] = "alive"
  /\ encoder' = [encoder EXCEPT ![m] = "ended"]
  /\ UNCHANGED <<state, ctxDone, offered, send, queue, writer, forwarder, heard, peerVars>>

EncoderMustEnd(m) == (ctxDone \/ PipesClosed) /\ EncoderEnds(m)

\* The watcher sends the exit status, to a channel with room for it, with the mutex.
WatcherReports(m) ==
  /\ encoder[m] = "ended" /\ MutexFree
  /\ encoder' = [encoder EXCEPT ![m] = "reported"]
  /\ UNCHANGED <<state, ctxDone, offered, send, queue, writer, forwarder, heard, peerVars>>

-----------------------------------------------------------------------------
(* The forwarders.                                                         *)

Forwards(m, from, to) ==
  /\ forwarder[m] = from
  /\ forwarder' = [forwarder EXCEPT ![m] = to]
  /\ UNCHANGED <<state, ctxDone, offered, send, queue, writer, encoder, heard, peerVars>>

\* The audio forwarder reads the streamer's field without the mutex; Stop sets it
\* to nil (webrtc.go:436).
Nil(m) == m = "audio" /\ state = "over"

\* A sample is read, the track looked up with the mutex: there is none after Stop.
TakesSample(m) ==
  /\ MutexFree
  /\ Forwards(m, "read", IF state = "over" THEN "ended" ELSE "send")

\* The end of the output or an error, such as a sample that cannot be parsed or a
\* closed pipe: the forwarder ends, after recordError if need be.
ReadEnds(m) == ~Nil(m) /\ Forwards(m, "read", "ended")

ReadNil(m) == Nil(m) /\ Forwards(m, "read", "panic")

SendFails(m) == Forwards(m, "send", "ended")

\* The sample is sent; the mutex is needed to count it.
Counts(m) == MutexFree /\ Forwards(m, "send", "read")

-----------------------------------------------------------------------------
(* Peers: Answer, in two sections under the mutex, and the callback.       *)

Answer(p) ==
  /\ MutexFree /\ answer[p] = "none" /\ state = "running"
  /\ answer' = [answer EXCEPT ![p] = "gathering"]
  /\ conn' = [conn EXCEPT ![p] = "open"]
  /\ UNCHANGED <<state, ctxDone, peers, notice, mediaVars>>

\* A failed step of the negotiation, or the end of the request: the connection is
\* closed, and its notice finds nothing to delete.
AnswerFails(p) ==
  /\ answer[p] = "gathering"
  /\ answer' = [answer EXCEPT ![p] = "refused"]
  /\ conn' = [conn EXCEPT ![p] = "closed"]
  /\ notice' = notice \ {p}
  /\ UNCHANGED <<state, ctxDone, peers, mediaVars>>

\* Candidates are gathered: whatever happened in between, the peer is registered.
AnswerReady(p) ==
  /\ MutexFree /\ answer[p] = "gathering"
  /\ answer' = [answer EXCEPT ![p] = "answered"]
  /\ peers' = peers \union {p}
  /\ UNCHANGED <<state, ctxDone, conn, notice, mediaVars>>

PeerFails(p) ==
  /\ conn[p] = "open"
  /\ conn' = [conn EXCEPT ![p] = "closed"]
  /\ notice' = notice \union {p}
  /\ UNCHANGED <<state, ctxDone, peers, answer, mediaVars>>

\* OnConnectionStateChange, in a goroutine of the library's.
ForgetPeer(p) ==
  /\ p \in notice /\ MutexFree
  /\ peers' = peers \ {p}
  /\ notice' = notice \ {p}
  /\ UNCHANGED <<state, ctxDone, answer, conn, mediaVars>>

-----------------------------------------------------------------------------
StopSteps == StopJoins \/ StopReaps
SendSteps == Offer \/ Evict \/ Push
WriterSteps(m) == WriterLeaves(m) \/ WriterTakes(m) \/ WriteFails(m) \/ WriterReports(m)
ForwarderSteps(m) ==
  TakesSample(m) \/ ReadEnds(m) \/ ReadNil(m) \/ SendFails(m) \/ Counts(m)
PeerSteps(p) == Answer(p) \/ AnswerFails(p) \/ AnswerReady(p) \/ PeerFails(p) \/ ForgetPeer(p)

Next ==
  \/ Start \/ Stop \/ StopSteps \/ Shutdown \/ WriteFrame \/ SendSteps
  \/ \E m \in Media :
       \/ WriterSteps(m) \/ WriterWrites(m)
       \/ EncoderEnds(m) \/ WatcherReports(m) \/ ForwarderSteps(m)
  \/ \E p \in Peers : PeerSteps(p)

\* FFmpeg's video output is a pipe: nobody promises that it goes on reading when
\* the forwarder does not read that pipe, for good or because it needs the mutex.
Drained(m) == m = "audio" \/ forwarder[m] = "read"

\* Goroutines run, and FFmpeg ends when its context or its input does; crashes,
\* requests, peers' failures and the daemon's calls are not promised.
Spec ==
  /\ Init /\ [][Next]_vars
  /\ WF_vars(StopSteps) /\ WF_vars(SendSteps)
  /\ \A m \in Media :
       /\ WF_vars(WriterSteps(m)) /\ WF_vars(Drained(m) /\ WriterWrites(m))
       /\ WF_vars(EncoderMustEnd(m)) /\ WF_vars(WatcherReports(m))
  /\ \A p \in Peers : WF_vars(ForgetPeer(p))

-----------------------------------------------------------------------------
(* Properties.                                                             *)

Frames == 0 .. MaxFrames

\* Type invariant.
TypeOK ==
  /\ state \in {"new", "running", "joining", "reaping", "over"} /\ ctxDone \in BOOLEAN
  /\ offered \in Frames
  /\ send \in [at : {"off", "offer", "evict", "push"}, medium : Media]
  /\ \A m \in Media :
       /\ queue[m] \in Seq(Frames) /\ Len(queue[m]) <= Capacity
       /\ writer[m].at \in {"off", "select", "write", "report", "ended"}
       /\ writer[m].frame \in Frames
       /\ heard[m] \in Frames
  /\ encoder \in [Media -> {"off", "alive", "ended", "reported"}]
  /\ forwarder \in [Media -> {"off", "read", "send", "ended", "panic"}]
  /\ peers \subseteq Peers /\ notice \subseteq Peers
  /\ answer \in [Peers -> {"none", "gathering", "answered", "refused"}]
  /\ conn \in [Peers -> {"none", "open", "closed"}]

Increasing(s) == \A i, j \in DOMAIN s : i < j => s[i] < s[j]
Pipeline(m) ==
  <<heard[m]>> \o (IF writer[m].at = "write" THEN <<writer[m].frame>> ELSE <<>>) \o queue[m]

\* Pictures and sounds reach FFmpeg in the order of the frames, none twice; and
\* when WriteFrame returns its frame is the last one on its way, what made room
\* for it was older.
NewestLast ==
  /\ TypeOK
  /\ \A m \in Media :
       /\ Increasing(Pipeline(m))
       /\ state = "running" /\ send.at = "off" /\ writer[m].at \in {"select", "write"} =>
            Pipeline(m)[Len(Pipeline(m))] = offered

\* A peer that got an answer and has not failed is in the map, where Stop finds
\* it, whatever Answer, the callback and Stop do at the same time.
OpenPeersListed ==
  \A p \in Peers : answer[p] = "answered" /\ conn[p] = "open" => p \in peers

\* What can keep Stop, which holds the mutex while it waits, from returning: a
\* writer or a watcher that needs the mutex to report, or a write that FFmpeg
\* does not read because its own output is not read any more.
HeldUp ==
  \E m \in Media : \/ writer[m].at = "report" \/ encoder[m] = "ended"
                   \/ writer[m].at = "write" /\ ~Drained(m)

\* WriteFrame returns: the second send of enqueueLatestBytes, made with the mutex
\* held, finds room whatever the writer does and whether it is still there
\* (webrtc.go:228).  Stop returns unless one of these holds it up.
CallsReturn ==
  /\ send.at # "off" ~> send.at = "off"
  /\ Stopping ~> (state = "over" \/ HeldUp)
=============================================================================
