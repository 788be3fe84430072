---------------------------- MODULE WebRTC_proofs ----------------------------
(***************************************************************************)
(* What is proved of the WebRTC streamer, for every capacity, any number   *)
(* of offers and of frames: the order of what reaches the two FFmpegs, and *)
(* that no connection outlives the streamer's knowledge of it.             *)
(*                                                                         *)
(* The order of the frames is one invariant per medium (OrderInv), said of *)
(* the queue's elements and not of the whole way to FFmpeg, so that a step *)
(* disturbs few of its conjuncts; PipelineIncreases puts the way together. *)
(***************************************************************************)
EXTENDS WebRTCStreamer, SequenceTheorems, TLAPS

WriterStates == {"off", "select", "write", "report", "ended"}

Shapes ==
  /\ state \in {"new", "running", "joining", "reaping", "over"} /\ ctxDone \in BOOLEAN
  /\ offered \in Frames
  /\ send \in [at : {"off", "offer", "evict", "push"}, medium : Media]
  /\ queue \in [Media -> Seq(Frames)]
  /\ writer \in [Media -> [at : WriterStates, frame : Frames]]
  /\ heard \in [Media -> Frames]
  /\ encoder \in [Media -> {"off", "alive", "ended", "reported"}]
  /\ forwarder \in [Media -> {"off", "read", "send", "ended", "panic"}]
  /\ peers \subseteq Peers /\ notice \subseteq Peers
  /\ answer \in [Peers -> {"none", "gathering", "answered", "refused"}]
  /\ conn \in [Peers -> {"none", "open", "closed"}]

Bounded == \A m \in Media : Len(queue[m]) <= Capacity

LEMMA InitShapes == Init => Shapes /\ Bounded
<1> SUFFICES ASSUME Init PROVE Shapes /\ Bounded
  OBVIOUS
<1> USE WebRTCAssumption DEF WebRTCAssumption
<1>1. /\ 0 \in Frames /\ <<>> \in Seq(Frames) /\ Len(<<>>) = 0
  BY EmptySeq DEF Frames
<1>2. /\ queue \in [Media -> Seq(Frames)] /\ \A m \in Media : queue[m] = <<>>
      /\ heard \in [Media -> Frames]
      /\ writer \in [Media -> [at : WriterStates, frame : Frames]]
  BY <1>1 DEF Init, Both, Writer, WriterStates, NoFrame
<1>3. Bounded
  BY <1>1, <1>2 DEF Bounded
<1> QED
  BY <1>1, <1>2, <1>3 DEF Init, Shapes, Media, Both, Idle, Sender

LEMMA StepShapes == Shapes /\ [Next]_vars => Shapes'
<1> SUFFICES ASSUME Shapes, [Next]_vars PROVE Shapes'
  OBVIOUS
<1> USE WebRTCAssumption DEF WebRTCAssumption, Shapes, peerVars, mediaVars, Media, Both, Idle,
      Sender, Writer, WriterStates, NoFrame, Frames, Sent
<1>1. CASE UNCHANGED vars
  BY <1>1 DEF vars
<1>2. CASE Start
  BY <1>2 DEF Start
<1>3. CASE Stop
  BY <1>3 DEF Stop
<1>4. CASE StopJoins
  BY <1>4 DEF StopJoins
<1>5. CASE StopReaps
  BY <1>5, EmptySeq DEF StopReaps
<1>6. CASE Shutdown
  BY <1>6 DEF Shutdown
<1>7. CASE WriteFrame
  BY <1>7 DEF WriteFrame
<1>8. CASE Offer
  <2>1. CASE Room
    <3>1. queue' = [queue EXCEPT ![send.medium] = Append(queue[send.medium], offered)]
      BY <1>8, <2>1 DEF Offer
    <3>2. queue' \in [Media -> Seq(Frames)]
      BY <3>1, AppendProperties
    <3> QED
      BY SMTT(30), <1>8, <2>1, <3>2 DEF Offer
  <2>2. CASE ~Room
    BY <1>8, <2>2 DEF Offer
  <2> QED
    BY <2>1, <2>2
<1>9. CASE Evict
  BY <1>9, HeadTailProperties DEF Evict
<1>10. CASE Push
  BY <1>10, AppendProperties DEF Push
<1>11. ASSUME NEW m \in Media, WriterSteps(m) \/ WriterWrites(m)
       PROVE  Shapes'
  <2>1. CASE WriterTakes(m)
    BY <2>1, HeadTailProperties DEF WriterTakes
  <2>2. CASE ~WriterTakes(m)
    BY <1>11, <2>2
    DEF WriterSteps, WriterWrites, WriterLeaves, WriteFails, WriterReports, WriterGoes
  <2> QED
    BY <2>1, <2>2
<1>12. ASSUME NEW m \in Media, EncoderEnds(m) \/ WatcherReports(m) \/ ForwarderSteps(m)
       PROVE  Shapes'
  BY <1>12 DEF EncoderEnds, WatcherReports, ForwarderSteps, TakesSample, ReadEnds, ReadNil,
     SendFails, Counts, Forwards
<1>13. ASSUME NEW p \in Peers, PeerSteps(p)
       PROVE  Shapes'
  BY SMTT(30), <1>13 DEF PeerSteps, Answer, AnswerFails, AnswerReady, PeerFails, ForgetPeer
<1> QED
  BY <1>1, <1>2, <1>3, <1>4, <1>5, <1>6, <1>7, <1>8, <1>9, <1>10, <1>11, <1>12, <1>13
  DEF Next, StopSteps, SendSteps

-----------------------------------------------------------------------------
(* The peers.                                                              *)

\* A notice is of a connection that is closed; before its offer a peer has none; the
\* map forgets a peer only with its connection closed.
PeersInv ==
  /\ \A p \in Peers :
       /\ p \in notice => conn[p] = "closed"
       /\ answer[p] = "none" => conn[p] = "none" /\ p \notin peers
       /\ answer[p] = "gathering" => p \notin peers
       /\ answer[p] = "refused" => conn[p] = "closed"
  /\ OpenPeersListed

LEMMA InitPeers == Init => PeersInv
BY DEF Init, PeersInv, OpenPeersListed

LEMMA StepPeers == Shapes /\ PeersInv /\ [Next]_vars => PeersInv'
<1> SUFFICES ASSUME Shapes, PeersInv, [Next]_vars PROVE PeersInv'
  OBVIOUS
<1> USE DEF Shapes, PeersInv, OpenPeersListed
<1>1. CASE UNCHANGED peerVars
  BY <1>1 DEF peerVars
<1>2. CASE StopJoins
  BY <1>2 DEF StopJoins
<1>3. ASSUME NEW p \in Peers, PeerSteps(p)
      PROVE  PeersInv'
  <2>1. CASE Answer(p)
    BY <2>1 DEF Answer
  <2>2. CASE AnswerFails(p)
    BY <2>2 DEF AnswerFails
  <2>3. CASE AnswerReady(p)
    BY <2>3 DEF AnswerReady
  <2>4. CASE PeerFails(p)
    BY <2>4 DEF PeerFails
  <2>5. CASE ForgetPeer(p)
    BY <2>5 DEF ForgetPeer
  <2> QED
    BY <1>3, <2>1, <2>2, <2>3, <2>4, <2>5 DEF PeerSteps
<1> QED
  <2>1. Next => UNCHANGED peerVars \/ StopJoins \/ \E p \in Peers : PeerSteps(p)
    BY DEF Next, StopSteps, SendSteps, WriterSteps, ForwarderSteps, Start, Stop, StopReaps,
       Shutdown, WriteFrame, Offer, Evict, Push, WriterLeaves, WriterTakes, WriterWrites,
       WriteFails, WriterReports, WriterGoes, EncoderEnds, WatcherReports, TakesSample, ReadEnds,
       ReadNil, SendFails, Counts, Forwards, peerVars
  <2> QED
    BY <1>1, <1>2, <1>3, <2>1 DEF vars, peerVars

\* A peer that got an answer and has not failed is in the map where Stop finds it,
\* whatever Answer's second section, OnConnectionStateChange and Stop do at the
\* same time.
THEOREM PeersAreListed == Spec => []OpenPeersListed
<1>1. PeersInv => OpenPeersListed
  BY DEF PeersInv
<1> QED
  BY <1>1, InitShapes, StepShapes, InitPeers, StepPeers, PTL DEF Spec

-----------------------------------------------------------------------------
(* The order of the frames.                                                *)

\* The send of m in the WriteFrame that runs has not been done yet.
Awaited(m) == send.at # "off" /\ send.medium \in {"video", m}

Last(m) ==
  IF queue[m] # <<>> THEN queue[m][Len(queue[m])]
  ELSE IF writer[m].at = "write" THEN writer[m].frame ELSE heard[m]

\* Older frames before newer ones, none of them newer than top.
InOrder(m, top) ==
  /\ \A i, j \in 1 .. Len(queue[m]) : i < j => queue[m][i] < queue[m][j]
  /\ \A i \in 1 .. Len(queue[m]) :
       /\ heard[m] < queue[m][i] /\ queue[m][i] <= top
       /\ writer[m].at = "write" => writer[m].frame < queue[m][i]
  /\ heard[m] <= top
  /\ writer[m].at = "write" => heard[m] < writer[m].frame /\ writer[m].frame <= top

OrderInv ==
  /\ Bounded
  /\ state = "new" =>
       /\ offered = 0 /\ send.at = "off"
       /\ queue = Both(<<>>) /\ heard = Both(NoFrame) /\ writer = Both(Writer("off"))
  /\ send.at # "off" => offered >= 1
  /\ \A m \in Media :
       /\ InOrder(m, IF Awaited(m) THEN offered - 1 ELSE offered)
       /\ state = "running" /\ ~Awaited(m) /\ writer[m].at \in {"select", "write"} =>
            Last(m) = offered

LEMMA InitOrder == Init => OrderInv
BY InitShapes DEF Init, OrderInv, InOrder, Awaited, Last, Both, Idle, Sender, Writer, NoFrame, Media

\* What the send of a frame leaves of the order: the frame is the last one.
LEMMA SendKeepsOrder ==
  ASSUME Shapes, OrderInv, send.at # "off", NEW m \in Media, m = send.medium,
         Len(queue[m]) < Capacity,
         queue' = [queue EXCEPT ![m] = Append(@, offered)], send' = Sent,
         UNCHANGED <<state, ctxDone, offered, writer, encoder, forwarder, heard, peerVars>>
  PROVE  OrderInv'
<1> DEFINE q == queue[m]
<1>1. q \in Seq(Frames) /\ offered \in Frames /\ Frames \subseteq Int /\ state # "new"
  BY DEF Shapes, Frames, OrderInv
<1>2. /\ queue'[m] = Append(q, offered) /\ Len(queue'[m]) = Len(q) + 1 /\ queue'[m] # <<>>
      /\ \A i \in 1 .. Len(q) : queue'[m][i] = q[i]
      /\ queue'[m][Len(q) + 1] = offered /\ Len(q) \in Nat
  BY SMTT(30), <1>1, AppendProperties DEF Shapes
<1>3. Awaited(m) /\ ~Awaited(m)'
  BY DEF Awaited, Sent, Sender, Idle, Media, Shapes
<1>4. ASSUME NEW n \in Media, n # m
      PROVE  /\ queue'[n] = queue[n]
             /\ Awaited(n)' = Awaited(n)
  BY <1>4 DEF Awaited, Sent, Sender, Idle, Media, Shapes
<1>5. InOrder(m, offered - 1)
  BY <1>3 DEF OrderInv
<1>6. InOrder(m, offered)' /\ Last(m)' = offered
  <2> HIDE DEF q
  <2>1. heard[m] \in Int /\ writer[m].frame \in Int /\ \A i \in 1 .. Len(q) : q[i] \in Int
    BY <1>1, ElementOfSeq DEF Shapes, Frames
  <2>2. /\ \A i, j \in 1 .. Len(q) : i < j => q[i] < q[j]
        /\ \A i \in 1 .. Len(q) : /\ heard[m] < q[i] /\ q[i] <= offered - 1
                                  /\ writer[m].at = "write" => writer[m].frame < q[i]
        /\ heard[m] <= offered - 1
        /\ writer[m].at = "write" => heard[m] < writer[m].frame /\ writer[m].frame <= offered - 1
    BY <1>5 DEF InOrder, q
  <2>3. UNCHANGED <<offered, heard, writer>>
    OBVIOUS
  <2>4. Last(m)' = offered
    BY <1>2 DEF Last
  <2>5. ASSUME NEW i \in 1 .. Len(q) + 1
        PROVE  i \in 1 .. Len(q) \/ (i = Len(q) + 1 /\ queue'[m][i] = offered)
    BY <1>2
  <2>6. \A i \in 1 .. Len(queue'[m]) :
           /\ heard[m] < queue'[m][i] /\ queue'[m][i] <= offered
           /\ writer[m].at = "write" => writer[m].frame < queue'[m][i]
    BY SMTT(30), <1>1, <1>2, <2>1, <2>2, <2>5
  <2>7. \A i, j \in 1 .. Len(queue'[m]) : i < j => queue'[m][i] < queue'[m][j]
    BY SMTT(30), <1>1, <1>2, <2>1, <2>2, <2>5
  <2>8. InOrder(m, offered)'
    BY SMTT(30), <1>1, <2>1, <2>2, <2>3, <2>6, <2>7 DEF InOrder
  <2> QED
    BY <2>4, <2>8
<1>7. Bounded'
  BY <1>2, <1>4, WebRTCAssumption DEF OrderInv, Bounded, q, WebRTCAssumption
<1>8. ASSUME NEW n \in Media
      PROVE  /\ InOrder(n, IF Awaited(n) THEN offered - 1 ELSE offered)'
             /\ state' = "running" /\ ~Awaited(n)' /\ writer'[n].at \in {"select", "write"} =>
                  Last(n)' = offered'
  <2>1. CASE n = m
    BY <1>3, <1>6, <2>1
  <2>2. CASE n # m
    BY <1>4, <2>2 DEF OrderInv, InOrder, Last
  <2> QED
    BY <2>1, <2>2
<1>9. send'.at # "off" => offered' >= 1
  BY DEF OrderInv
<1> QED
  BY <1>1, <1>7, <1>8, <1>9 DEF OrderInv

LEMMA EvictKeepsOrder == Shapes /\ OrderInv /\ Evict => OrderInv'
<1> SUFFICES ASSUME Shapes, OrderInv, Evict PROVE OrderInv'
  OBVIOUS
<1> DEFINE m == send.medium
           q == queue[m]
<1>1. /\ m \in Media /\ q \in Seq(Frames) /\ Frames \subseteq Int /\ state # "new"
      /\ send'.at # "off" /\ send'.medium = m /\ Awaited(m) /\ Awaited(m)'
  BY DEF Evict, Shapes, Frames, OrderInv, Awaited
<1>2. \A n \in Media : Awaited(n)' = Awaited(n) /\ (n # m => queue'[n] = queue[n])
  BY DEF Evict, Awaited, Shapes
<1>3. /\ Len(queue'[m]) \in Nat /\ Len(queue'[m]) <= Len(q)
      /\ \A i \in 1 .. Len(queue'[m]) : i + 1 \in 1 .. Len(q) /\ queue'[m][i] = q[i + 1]
  BY SMTT(30), <1>1, HeadTailProperties DEF Evict, Shapes
<1>4. InOrder(m, offered - 1)'
  <2>1. InOrder(m, offered - 1) /\ UNCHANGED <<offered, heard, writer>>
    BY <1>1 DEF OrderInv, Evict
  <2> QED
    BY SMTT(30), <1>1, <1>3, <2>1 DEF InOrder
<1>5. Bounded'
  BY <1>1, <1>2, <1>3, WebRTCAssumption DEF OrderInv, Bounded, WebRTCAssumption
<1>6. ASSUME NEW n \in Media
      PROVE  /\ InOrder(n, IF Awaited(n) THEN offered - 1 ELSE offered)'
             /\ state' = "running" /\ ~Awaited(n)' /\ writer'[n].at \in {"select", "write"} =>
                  Last(n)' = offered'
  <2>1. CASE n = m
    BY <1>1, <1>4, <2>1
  <2>2. CASE n # m
    BY <1>2, <2>2 DEF OrderInv, InOrder, Last, Evict
  <2> QED
    BY <2>1, <2>2
<1> QED
  BY <1>1, <1>5, <1>6 DEF OrderInv, Evict

LEMMA TakeKeepsOrder ==
  ASSUME Shapes, OrderInv, NEW m \in Media, WriterTakes(m)
  PROVE  OrderInv'
<1> DEFINE q == queue[m]
<1>1. /\ q \in Seq(Frames) /\ q # <<>> /\ Frames \subseteq Int /\ writer[m].at = "select"
      /\ Len(q) \in Nat \ {0}
  BY DEF WriterTakes, Shapes, Frames
<1>2. /\ writer'[m].at = "write" /\ writer'[m].frame = q[1] /\ queue'[m] = Tail(q)
      /\ Len(queue'[m]) = Len(q) - 1
      /\ \A i \in 1 .. Len(queue'[m]) : i + 1 \in 1 .. Len(q) /\ queue'[m][i] = q[i + 1]
  BY <1>1, HeadTailProperties DEF WriterTakes, Shapes
<1>3. \A n \in Media : n # m => queue'[n] = queue[n] /\ writer'[n] = writer[n]
  BY DEF WriterTakes, Shapes
<1>4. UNCHANGED <<state, offered, send, heard>> /\ \A n \in Media : Awaited(n)' = Awaited(n)
  BY DEF WriterTakes, Awaited
<1>5. state # "new"
  BY <1>1 DEF OrderInv, Both
<1>6. \A top \in Int : InOrder(m, top) => InOrder(m, top)'
  <2>1. heard[m] \in Int /\ \A i \in 1 .. Len(q) : q[i] \in Int
    BY <1>1, ElementOfSeq DEF Shapes
  <2> QED
    BY <1>1, <1>2, <1>4, <2>1 DEF InOrder
<1>7. Last(m)' = Last(m)
  <2>1. queue'[m] \in Seq(Frames) /\ (queue'[m] = <<>> <=> Len(q) = 1)
    <3>1. Tail(q) \in Seq(Frames) /\ Len(Tail(q)) = Len(q) - 1
      BY <1>1, <1>2, HeadTailProperties
    <3>2. Tail(q) = <<>> <=> Len(Tail(q)) = 0
      BY <3>1, EmptySeq
    <3> QED
      BY <1>1, <1>2, <3>1, <3>2
  <2>2. CASE Len(q) = 1
    BY <1>1, <1>2, <2>1, <2>2 DEF Last
  <2>3. CASE Len(q) # 1
    <3>1. queue'[m] # <<>> /\ Len(q) - 1 \in 1 .. Len(queue'[m])
      BY SMTT(30), <1>1, <1>2, <2>1, <2>3
    <3>2. queue'[m][Len(q) - 1] = q[Len(q)]
      BY <1>1, <1>2, <3>1
    <3> QED
      BY <1>1, <1>2, <3>1, <3>2 DEF Last
  <2> QED
    BY <2>2, <2>3
<1>8. Bounded'
  <2>1. Len(q) <= Capacity /\ \A n \in Media : Len(queue[n]) <= Capacity
    BY DEF OrderInv, Bounded
  <2> HIDE DEF q
  <2> QED
    BY <1>1, <1>2, <1>3, <2>1, WebRTCAssumption DEF Bounded, WebRTCAssumption
<1>9. ASSUME NEW n \in Media
      PROVE  /\ InOrder(n, IF Awaited(n) THEN offered - 1 ELSE offered)'
             /\ state' = "running" /\ ~Awaited(n)' /\ writer'[n].at \in {"select", "write"} =>
                  Last(n)' = offered'
  <2>1. CASE n = m
    <3>1. offered \in Int
      BY DEF Shapes, Frames
    <3> QED
      BY <1>1, <1>4, <1>6, <1>7, <2>1, <3>1 DEF OrderInv
  <2>2. CASE n # m
    BY <1>3, <1>4, <2>2 DEF OrderInv, InOrder, Last
  <2> QED
    BY <2>1, <2>2
<1> QED
  BY <1>4, <1>5, <1>8, <1>9 DEF OrderInv

\* A step of a writer that takes nothing: FFmpeg reads its frame, or it leaves.
LEMMA WriterKeepsOrder ==
  ASSUME Shapes, OrderInv, NEW m \in Media,
         WriterWrites(m) \/ WriterLeaves(m) \/ WriteFails(m) \/ WriterReports(m)
  PROVE  OrderInv'
<1>1. /\ UNCHANGED <<state, offered, send, queue>>
      /\ \A n \in Media : Awaited(n)' = Awaited(n)
      /\ \A n \in Media : n # m => heard'[n] = heard[n] /\ writer'[n] = writer[n]
      /\ \/ WriterWrites(m) /\ heard'[m] = writer[m].frame /\ writer[m].at = "write"
         \/ heard' = heard /\ writer'[m].at \notin {"select", "write"}
      /\ writer'[m].at # "write"
  BY DEF WriterWrites, WriterLeaves, WriteFails, WriterReports, WriterGoes, Writer, Awaited, Shapes
<1>2. state # "new"
  BY DEF OrderInv, WriterWrites, WriterLeaves, WriteFails, WriterReports, Both, Writer
<1>3. \A top \in Int : InOrder(m, top) => InOrder(m, top)'
  BY <1>1 DEF InOrder, Shapes, Frames
<1>4. writer'[m].at \in {"select", "write"} => writer[m].at = "write" /\ Last(m)' = Last(m)
  BY <1>1 DEF Last
<1>5. ASSUME NEW n \in Media
      PROVE  /\ InOrder(n, IF Awaited(n) THEN offered - 1 ELSE offered)'
             /\ state' = "running" /\ ~Awaited(n)' /\ writer'[n].at \in {"select", "write"} =>
                  Last(n)' = offered'
  <2>1. CASE n = m
    <3>1. offered \in Int
      BY DEF Shapes, Frames
    <3> QED
      BY <1>1, <1>3, <1>4, <2>1, <3>1 DEF OrderInv
  <2>2. CASE n # m
    BY <1>1, <2>2 DEF OrderInv, InOrder, Last
  <2> QED
    BY <2>1, <2>2
<1> QED
  BY <1>1, <1>2, <1>5 DEF OrderInv, Bounded

LEMMA StepOrder == Shapes /\ OrderInv /\ [Next]_vars => OrderInv'
<1> SUFFICES ASSUME Shapes, OrderInv, [Next]_vars PROVE OrderInv'
  OBVIOUS
<1>1. CASE UNCHANGED mediaVars /\ (state' = state \/ state' \notin {"new", "running"})
  BY <1>1 DEF mediaVars, OrderInv, InOrder, Last, Awaited, Bounded
<1>2. CASE Start
  BY <1>2 DEF Start, OrderInv, InOrder, Last, Awaited, Bounded, Both, Writer, Media, NoFrame
<1>3. CASE StopReaps
  BY <1>3, WebRTCAssumption
  DEF StopReaps, OrderInv, InOrder, Last, Awaited, Bounded, Both, WebRTCAssumption
<1>4. CASE WriteFrame
  <2>1. /\ offered \in Nat /\ offered' = offered + 1 /\ state = "running" /\ send.at = "off"
        /\ send'.at # "off" /\ UNCHANGED <<state, queue, writer, heard>>
        /\ \A m \in Media : ~Awaited(m) /\ Awaited(m)'
    BY <1>4 DEF WriteFrame, MutexFree, Sender, Awaited, Shapes, Frames
  <2>2. offered' - 1 = offered
    BY <2>1
  <2> QED
    BY <2>1, <2>2 DEF OrderInv, InOrder, Last, Bounded
<1>5. CASE Offer
  <2>1. CASE Room
    BY <1>5, <2>1, SendKeepsOrder DEF Offer, Room, Shapes
  <2>2. CASE ~Room
    <3>1. /\ UNCHANGED <<state, offered, queue, writer, heard>>
          /\ send.at # "off" /\ send'.at # "off" /\ send'.medium = send.medium
      BY <1>5, <2>2 DEF Offer, Shapes
    <3>2. \A m \in Media : Awaited(m) = Awaited(m)'
      BY <3>1 DEF Awaited
    <3> QED
      BY <3>1, <3>2 DEF OrderInv, InOrder, Last, Bounded
  <2> QED
    BY <2>1, <2>2
<1>6. CASE Push
  BY <1>6, SendKeepsOrder DEF Push, Room, Shapes
<1>7. ASSUME NEW m \in Media, WriterSteps(m) \/ WriterWrites(m)
      PROVE  OrderInv'
  BY <1>7, TakeKeepsOrder, WriterKeepsOrder DEF WriterSteps
<1>8. ASSUME NEW m \in Media, EncoderEnds(m) \/ WatcherReports(m) \/ ForwarderSteps(m)
      PROVE  OrderInv'
  BY <1>8 DEF EncoderEnds, WatcherReports, ForwarderSteps, TakesSample, ReadEnds, ReadNil,
     SendFails, Counts, Forwards, OrderInv, InOrder, Last, Awaited, Bounded
<1>9. ASSUME NEW p \in Peers, PeerSteps(p)
      PROVE  UNCHANGED mediaVars /\ state' = state
  BY <1>9 DEF PeerSteps, Answer, AnswerFails, AnswerReady, PeerFails, ForgetPeer
<1>10. Stop \/ StopJoins \/ Shutdown \/ UNCHANGED vars =>
         UNCHANGED mediaVars /\ (state' = state \/ state' \notin {"new", "running"})
  BY DEF Stop, StopJoins, Shutdown, vars, mediaVars
<1> QED
  BY <1>1, <1>2, <1>3, <1>4, <1>5, <1>6, <1>7, <1>8, <1>9, <1>10, EvictKeepsOrder
  DEF Next, StopSteps, SendSteps

LEMMA PipelineIncreases ==
  ASSUME Shapes, NEW m \in Media, NEW top \in Int, InOrder(m, top)
  PROVE  Increasing(Pipeline(m)) /\ Pipeline(m)[Len(Pipeline(m))] = Last(m)
<1> DEFINE q == queue[m]
           w == IF writer[m].at = "write" THEN <<writer[m].frame>> ELSE <<>>
           h == <<heard[m]>>
<1>1. /\ q \in Seq(Frames) /\ w \in Seq(Frames) /\ h \in Seq(Frames) /\ Frames \subseteq Int
      /\ Len(h) = 1 /\ h[1] = heard[m] /\ Len(q) \in Nat /\ Len(w) \in {0, 1}
      /\ heard[m] \in Int /\ writer[m].frame \in Int /\ \A i \in 1 .. Len(q) : q[i] \in Int
  <2>1. q \in Seq(Frames) /\ heard[m] \in Frames /\ writer[m].frame \in Frames
    BY DEF Shapes
  <2>2. Frames \subseteq Int
    BY DEF Frames
  <2>3. w \in Seq(Frames) /\ h \in Seq(Frames) /\ Len(h) = 1 /\ Len(w) \in {0, 1}
        /\ h[1] = heard[m]
    BY <2>1
  <2> HIDE DEF q, w, h
  <2>4. Len(q) \in Nat /\ \A i \in 1 .. Len(q) : q[i] \in Frames
    BY <2>1, ElementOfSeq, LenProperties
  <2> QED
    BY <2>1, <2>2, <2>3, <2>4
<1>2. /\ Len(w) = 1 => w[1] = writer[m].frame /\ writer[m].at = "write"
      /\ Len(w) = 0 => writer[m].at # "write"
  OBVIOUS
<1>3. q = <<>> <=> Len(q) = 0
  BY <1>1
<1> DEFINE s == h \o w \o q
<1>4. /\ Len(s) = 1 + Len(w) + Len(q) /\ s[1] = heard[m]
      /\ Len(w) = 1 => s[2] = writer[m].frame
      /\ \A i \in 1 .. Len(q) : s[1 + Len(w) + i] = q[i]
      /\ DOMAIN s = 1 .. Len(s)
  <2> HIDE DEF q, w, h
  <2>1. /\ h \o w \in Seq(Frames) /\ Len(h \o w) = 1 + Len(w) /\ (h \o w)[1] = h[1]
        /\ Len(w) = 1 => (h \o w)[2] = w[1]
    <3>1. /\ Len(h) = 1 /\ Len(w) \in {0, 1} /\ h \in Seq(Frames) /\ w \in Seq(Frames)
      BY <1>1
    <3>2. /\ h \o w \in Seq(Frames) /\ Len(h \o w) = Len(h) + Len(w)
          /\ \A i \in 1 .. Len(h) + Len(w) :
               (h \o w)[i] = IF i <= Len(h) THEN h[i] ELSE w[i - Len(h)]
      BY <3>1, ConcatProperties
    <3> QED
      BY <3>1, <3>2
  <2>2. /\ s \in Seq(Frames) /\ Len(s) = Len(h \o w) + Len(q)
        /\ \A i \in 1 .. Len(h \o w) : s[i] = (h \o w)[i]
        /\ \A i \in 1 .. Len(q) : s[Len(h \o w) + i] = q[i]
    <3> DEFINE hw == h \o w
    <3>1. hw \in Seq(Frames)
      BY <2>1
    <3> HIDE DEF hw
    <3>2. /\ hw \o q \in Seq(Frames) /\ Len(hw \o q) = Len(hw) + Len(q)
          /\ \A i \in 1 .. Len(hw) : (hw \o q)[i] = hw[i]
          /\ \A i \in 1 .. Len(q) : (hw \o q)[Len(hw) + i] = q[i]
      BY <1>1, <3>1, ConcatProperties
    <3> QED
      BY <3>2 DEF hw
  <2> HIDE DEF s
  <2> QED
    BY SMTT(30), <1>1, <1>2, <2>1, <2>2
<1>5. Pipeline(m) = s
  BY DEF Pipeline
<1> HIDE DEF s
<1>6. /\ \A i, j \in 1 .. Len(q) : i < j => q[i] < q[j]
      /\ \A i \in 1 .. Len(q) : /\ heard[m] < q[i]
                                /\ Len(w) = 1 => writer[m].frame < q[i]
      /\ Len(w) = 1 => heard[m] < writer[m].frame
  BY <1>2 DEF InOrder
<1> HIDE DEF q, w
<1>7. \A i \in 1 .. Len(s) : i = 1 \/ (Len(w) = 1 /\ i = 2) \/
        (\E k \in 1 .. Len(q) : i = 1 + Len(w) + k /\ s[i] = q[k])
  <2> TAKE i \in 1 .. Len(s)
  <2>1. i > 1 + Len(w) => i - 1 - Len(w) \in 1 .. Len(q) /\ i = 1 + Len(w) + (i - 1 - Len(w))
    BY <1>1, <1>4
  <2>2. i \in Int /\ i >= 1 /\ Len(w) \in {0, 1}
    BY <1>1
  <2>3. CASE i > 1 + Len(w)
    <3>1. s[1 + Len(w) + (i - 1 - Len(w))] = q[i - 1 - Len(w)]
      BY <1>4, <2>1, <2>3
    <3> QED
      BY <2>1, <2>3, <3>1
  <2>4. CASE ~(i > 1 + Len(w))
    <3>1. i = 1 \/ (Len(w) = 1 /\ i = 2)
      <4>1. CASE Len(w) = 0
        BY <2>2, <2>4, <4>1
      <4>2. CASE Len(w) = 1
        BY <2>2, <2>4, <4>2
      <4> QED
        BY <2>2, <4>1, <4>2
    <3> QED
      BY <3>1
  <2> QED
    BY <2>3, <2>4
<1>8. Increasing(s)
  <2> SUFFICES ASSUME NEW i \in 1 .. Len(s), NEW j \in 1 .. Len(s), i < j PROVE s[i] < s[j]
    BY <1>4 DEF Increasing
  <2> QED
    BY SMTT(30), <1>1, <1>4, <1>6, <1>7
<1>9. s[Len(s)] = Last(m)
  <2>1. CASE Len(q) = 0
    <3>1. s[Len(s)] = IF Len(w) = 1 THEN writer[m].frame ELSE heard[m]
      <4>1. Len(s) = 1 + Len(w) /\ Len(w) \in {0, 1}
        BY <1>1, <1>4, <2>1
      <4>2. s[1] = heard[m] /\ (Len(w) = 1 => s[2] = writer[m].frame)
        BY <1>4
      <4>3. CASE Len(w) = 0
        <5>1. Len(s) = 1
          BY <4>1, <4>3
        <5> QED
          BY <4>2, <4>3, <5>1
      <4>4. CASE Len(w) = 1
        <5>1. Len(s) = 2
          BY <4>1, <4>4
        <5> QED
          BY <4>2, <4>4, <5>1
      <4> QED
        BY <4>1, <4>3, <4>4
    <3>2. queue[m] = <<>>
      BY <1>3, <2>1 DEF q
    <3> QED
      BY <1>1, <1>2, <3>1, <3>2 DEF Last
  <2>2. CASE Len(q) # 0
    <3>1. Len(q) \in 1 .. Len(q)
      BY <1>1, <2>2
    <3> QED
      BY <1>1, <1>3, <1>4, <2>2, <3>1 DEF Last, q
  <2> QED
    BY <2>1, <2>2
<1> QED
  BY <1>5, <1>8, <1>9

\* Pictures and sounds reach FFmpeg in the order of the frames, none twice, and a
\* frame is the last one on its way when WriteFrame returns: enqueueLatestBytes only
\* takes out older ones, for every capacity and whatever the writers do meanwhile.
THEOREM NewestStaysLast == Spec => []NewestLast
<1>1. Shapes /\ OrderInv => NewestLast
  <2> SUFFICES ASSUME Shapes, OrderInv PROVE NewestLast
    OBVIOUS
  <2>1. TypeOK
    BY DEF Shapes, OrderInv, TypeOK, Bounded, WriterStates
  <2>2. offered \in Int /\ offered - 1 \in Int
    BY DEF Shapes, Frames
  <2>3. ASSUME NEW m \in Media
        PROVE  /\ Increasing(Pipeline(m))
               /\ state = "running" /\ send.at = "off" /\ writer[m].at \in {"select", "write"} =>
                    Pipeline(m)[Len(Pipeline(m))] = offered
    <3>1. PICK top \in Int : InOrder(m, top)
      BY <2>2 DEF OrderInv
    <3>2. Increasing(Pipeline(m)) /\ Pipeline(m)[Len(Pipeline(m))] = Last(m)
      BY <3>1, PipelineIncreases
    <3> QED
      BY <3>2 DEF OrderInv, Awaited
  <2> QED
    BY <2>1, <2>3 DEF NewestLast
<1> QED
  BY <1>1, InitShapes, StepShapes, InitOrder, StepOrder, PTL DEF Spec
=============================================================================
