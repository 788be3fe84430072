-------------------------- MODULE RFLifecycle_proofs --------------------------
(***************************************************************************)
(* Proofs about starting and stopping the RF streamer, for any number of   *)
(* callers, viewers and generations.                                       *)
(***************************************************************************)
EXTENDS RFLifecycle, TLAPS

(***************************************************************************)
(* Where a generation is.  The streamer's fields are a generation's from   *)
(* its Start until its run takes the lock to clean up; its workers have    *)
(* ended and its socket is closed by then.                                 *)
(***************************************************************************)
Serving == {"watching", "joining", "locking"}
Joined == {"locking", "closing", "over"}

FieldsInStep ==
  /\ done # None => relay = done
  /\ writePacket = done

GenerationInStep(g) ==
  /\ run[g] = "off" => synth[g] = "off" /\ sender[g] = "off" /\ g \notin open
  /\ done = g <=> run[g] \in Serving
  /\ run[g] \in Joined => synth[g] = "ended" /\ sender[g] = "ended" /\ g \notin open
  /\ g \in finished => run[g] \in {"closing", "over"}
  /\ sender[g] \in {"publish", "write"} => using[g] = g

StopInStep(c) ==
  /\ caller[c].at \in {"closing", "hangup", "waiting"} => caller[c].gen \in Generations

LifecycleInv ==
  /\ TypeOK
  /\ FieldsInStep
  /\ \A g \in Generations : GenerationInStep(g)
  /\ \A c \in Callers : StopInStep(c)

LEMMA GenerationsAreNumbers == None \notin Generations /\ Generations \subseteq Nat
BY LifecycleAssumption DEF None, Generations, LifecycleAssumption

LEMMA LifecycleInvSound == LifecycleInv => OwnGeneration
<1> SUFFICES ASSUME LifecycleInv PROVE OwnGeneration
  OBVIOUS
<1>1. ASSUME NEW g \in Generations
      PROVE  /\ synth[g] = "working" \/ sender[g] \in Alive => done = g
             /\ sender[g] \in {"publish", "write"} => using[g] = g
             /\ g \in open => done = g
  <2>1. run[g] \in {"off", "watching", "joining", "locking", "closing", "over"}
    BY DEF LifecycleInv, TypeOK
  <2>2. GenerationInStep(g)
    BY DEF LifecycleInv
  <2> QED
    BY <2>1, <2>2 DEF GenerationInStep, Serving, Joined, Alive
<1> QED
  BY <1>1 DEF OwnGeneration, LifecycleInv

LEMMA LifecycleStarts == Init => LifecycleInv
<1> SUFFICES ASSUME Init PROVE LifecycleInv
  OBVIOUS
<1>1. TypeOK
  BY GenerationsAreNumbers DEF Init, TypeOK, Away, At, Alive, None
<1>2. \A g \in Generations : GenerationInStep(g)
  BY GenerationsAreNumbers DEF Init, GenerationInStep, Serving, Joined
<1> QED
  BY <1>1, <1>2 DEF Init, LifecycleInv, FieldsInStep, StopInStep, Away

-----------------------------------------------------------------------------
(* The streamer's fields, workers and callers, action by action.  What the *)
(* types need of the viewers is a matter of their own.                     *)

ViewersTyped ==
  /\ viewer \in [Viewers -> [at  : {"away", "handshake", "connected", "told"},
                             gen : Generations \union {None}]]
  /\ clients \in [Generations -> SUBSET Viewers]
  /\ \A v \in Viewers : \A g \in Generations :
       v \in clients[g] <=> viewer[v] = At("connected", g)

RestTyped ==
  /\ {done, relay, writePacket} \subseteq Generations \union {None}
  /\ running \in BOOLEAN /\ shutdown \in BOOLEAN
  /\ finished \subseteq Generations /\ cancelled \subseteq Generations
  /\ open \subseteq Generations
  /\ run \in [Generations -> {"off", "watching", "joining", "locking", "closing", "over"}]
  /\ synth \in [Generations -> {"off", "working", "ended"}]
  /\ sender \in [Generations -> Alive \union {"off", "ended"}]
  /\ using \in [Generations -> Generations \union {None}]
  /\ caller \in [Callers -> [at  : {"away", "dialed", "closing", "hangup", "waiting"},
                             gen : Generations \union {None}]]

RestInv ==
  /\ RestTyped /\ FieldsInStep
  /\ \A g \in Generations : GenerationInStep(g)
  /\ \A c \in Callers : StopInStep(c)

LEMMA InvParts == LifecycleInv <=> RestInv /\ ViewersTyped
BY DEF LifecycleInv, RestInv, TypeOK, RestTyped, ViewersTyped

LEMMA CallersKeep ==
  ASSUME RestInv, NEW c \in Callers, Dial(c) \/ Stop(c) \/ StopSteps(c)
  PROVE  RestInv'
<1> USE GenerationsAreNumbers
    DEF RestInv, RestTyped, FieldsInStep, GenerationInStep, StopInStep, streamer, workers, At, Away
<1>1. CASE Dial(c)
  BY <1>1 DEF Dial
<1>2. CASE Stop(c)
  BY <1>2, ZenonT(60) DEF Stop
<1>3. CASE StopClosesClients(c)
  BY <1>3 DEF StopClosesClients
<1>4. CASE StopClosesSocket(c)
  BY <1>4 DEF StopClosesSocket
<1>5. CASE StopReturns(c)
  BY <1>5 DEF StopReturns
<1> QED
  BY <1>1, <1>2, <1>3, <1>4, <1>5 DEF StopSteps

LEMMA StartKeeps ==
  ASSUME RestInv, NEW c \in Callers, Start(c) PROVE RestInv'
<1> USE GenerationsAreNumbers
    DEF RestInv, RestTyped, FieldsInStep, GenerationInStep, StopInStep, streamer, workers, At, Away
<1>1. CASE done = None /\ Fresh # {}
  <2> DEFINE n == CHOOSE g \in Fresh : TRUE
  <2>1. n \in Generations /\ run[n] = "off" /\ Launch(n)
    BY <1>1 DEF Start, Fresh
  <2> HIDE DEF n
  <2>2. RestTyped'
    BY <2>1 DEF Start, Launch, Alive
  <2>3. ASSUME NEW g \in Generations PROVE GenerationInStep(g)'
    <3>1. CASE g = n
      BY <2>1, <3>1 DEF Start, Launch, Serving, Joined
    <3>2. CASE g # n
      BY <1>1, <2>1, <3>2 DEF Start, Launch, Serving, Joined
    <3> QED
      BY <3>1, <3>2
  <2> QED
    BY <1>1, <2>1, <2>2, <2>3 DEF Start, Launch
<1>2. CASE ~(done = None /\ Fresh # {})
  <2>1. /\ UNCHANGED <<streamer, finished, cancelled, shutdown, open, run, synth, sender, using>>
        /\ caller' = [caller EXCEPT ![c] = Away]
    BY <1>2 DEF Start
  <2>2. /\ caller' \in [Callers -> [at  : {"away", "dialed", "closing", "hangup", "waiting"},
                                    gen : Generations \union {None}]]
        /\ \A d \in Callers : StopInStep(d)'
    BY <2>1
  <2> QED
    BY <2>1, <2>2
<1> QED
  BY <1>1, <1>2

LEMMA WorkersKeep ==
  ASSUME RestInv, NEW g \in Generations, SynthEnds(g) \/ SendSteps(g)
  PROVE  RestInv'
<1> USE GenerationsAreNumbers
    DEF RestInv, RestTyped, FieldsInStep, GenerationInStep, StopInStep, streamer, workers, Serving,
        Joined, Alive
<1>0. sender[g] \in Alive => done = g /\ relay = g /\ writePacket = g
  OBVIOUS
<1>1. CASE SynthEnds(g)
  BY <1>1 DEF SynthEnds
<1>2. CASE SenderEnds(g)
  BY <1>2 DEF SenderEnds
<1>3. CASE SenderTakesRelay(g)
  BY <1>0, <1>3 DEF SenderTakesRelay
<1>4. CASE SenderTakesSocket(g)
  BY <1>0, <1>4 DEF SenderTakesSocket
<1>5. CASE SenderWrites(g)
  BY <1>5 DEF SenderWrites
<1> QED
  BY <1>1, <1>2, <1>3, <1>4, <1>5 DEF SendSteps

LEMMA RunKeeps ==
  ASSUME RestInv, NEW g \in Generations, RunSteps(g) PROVE RestInv'
<1> USE GenerationsAreNumbers
    DEF RestInv, RestTyped, FieldsInStep, GenerationInStep, StopInStep, streamer, workers, Serving,
        Joined
<1>1. CASE WorkerDone(g)
  BY <1>1, ZenonT(60) DEF WorkerDone
<1>2. CASE JoinWorkers(g)
  BY <1>2 DEF JoinWorkers
<1>3. CASE CleanUp(g)
  <2>1. done = g
    BY <1>3 DEF CleanUp
  <2>2. /\ run[g] = "locking" /\ run' = [run EXCEPT ![g] = "closing"]
        /\ done' = None /\ running' = FALSE /\ writePacket' = None
        /\ finished' = finished \union {g}
        /\ UNCHANGED <<relay, cancelled, shutdown, open, synth, sender, using, caller>>
    BY <1>3, <2>1 DEF CleanUp
  <2>3. RestTyped'
    BY <2>2
  <2>4. \A h \in Generations : GenerationInStep(h)'
    BY <2>1, <2>2
  <2> QED
    BY <2>2, <2>3, <2>4
<1>4. CASE RunClosesClients(g)
  BY <1>4 DEF RunClosesClients
<1> QED
  BY <1>1, <1>2, <1>3, <1>4 DEF RunSteps

LEMMA OthersKeep ==
  ASSUME RestInv,
         \/ \E v \in Viewers : ServeWebSocket(v) \/ Register(v) \/ Refused(v) \/ Leave(v)
         \/ Shutdown
         \/ UNCHANGED vars
  PROVE  RestInv'
<1>1. /\ UNCHANGED <<streamer, finished, cancelled, open, workers, caller>>
      /\ shutdown' \in BOOLEAN
  <2>1. ASSUME NEW v \in Viewers, ServeWebSocket(v) \/ Register(v) \/ Refused(v) \/ Leave(v)
        PROVE  UNCHANGED <<streamer, finished, cancelled, open, workers, caller, shutdown>>
    BY <2>1 DEF ServeWebSocket, Register, Refused, Leave
  <2>2. CASE Shutdown
    BY <2>2 DEF Shutdown
  <2>3. CASE UNCHANGED vars
    BY <2>3 DEF vars, RestInv, RestTyped
  <2> QED
    BY <2>1, <2>2, <2>3 DEF RestInv, RestTyped
<1> QED
  BY <1>1 DEF RestInv, RestTyped, FieldsInStep, GenerationInStep, StopInStep, streamer, workers

-----------------------------------------------------------------------------
(* The viewers.                                                            *)

LEMMA CloseAllKeepsViewers ==
  ASSUME ViewersTyped, NEW g \in Generations, CloseAll(g) PROVE ViewersTyped'
<1>1. viewer' \in [Viewers -> [at  : {"away", "handshake", "connected", "told"},
                               gen : Generations \union {None}]]
  BY DEF ViewersTyped, CloseAll, At
<1>2. clients' \in [Generations -> SUBSET Viewers]
  BY DEF ViewersTyped, CloseAll
<1>3. ASSUME NEW v \in Viewers, NEW h \in Generations
      PROVE  v \in clients'[h] <=> viewer'[v] = At("connected", h)
  <2>1. CASE v \in clients[g]
    BY <2>1 DEF ViewersTyped, CloseAll, At
  <2>2. CASE v \notin clients[g]
    BY <2>2 DEF ViewersTyped, CloseAll, At
  <2> QED
    BY <2>1, <2>2
<1> QED
  BY <1>1, <1>2, <1>3 DEF ViewersTyped

LEMMA ViewersKeep ==
  ASSUME ViewersTyped, RestInv, [Next]_vars PROVE ViewersTyped'
<1> USE GenerationsAreNumbers
<1>1. ASSUME UNCHANGED <<viewer, clients>> PROVE ViewersTyped'
  BY <1>1 DEF ViewersTyped
<1>2. ASSUME NEW c \in Callers, Dial(c) \/ Start(c) \/ Stop(c) \/ StopSteps(c)
      PROVE  ViewersTyped'
  <2>1. CASE StopClosesClients(c)
    <3>1. caller[c].gen \in Generations
      BY <2>1 DEF StopClosesClients, RestInv, StopInStep
    <3> QED
      BY <2>1, <3>1, CloseAllKeepsViewers DEF StopClosesClients
  <2> QED
    BY <1>1, <1>2, <2>1
    DEF Dial, Start, Stop, StopSteps, StopClosesSocket, StopReturns
<1>3. ASSUME NEW g \in Generations, SynthEnds(g) \/ SendSteps(g) \/ RunSteps(g)
      PROVE  ViewersTyped'
  <2>1. CASE RunClosesClients(g)
    BY <2>1, CloseAllKeepsViewers DEF RunClosesClients
  <2> QED
    BY <1>1, <1>3, <2>1
    DEF SynthEnds, SendSteps, SenderEnds, SenderTakesRelay, SenderTakesSocket, SenderWrites,
        RunSteps, WorkerDone, JoinWorkers, CleanUp
<1>4. ASSUME NEW v \in Viewers, ServeWebSocket(v) \/ Refused(v) PROVE ViewersTyped'
  <2> PICK t \in {At("handshake", relay), Away} : /\ viewer[v].at # "connected"
                                                /\ viewer' = [viewer EXCEPT ![v] = t]
                                                /\ clients' = clients
    BY <1>4 DEF ServeWebSocket, Refused, Away
  <2>1. t \in [at : {"away", "handshake", "connected", "told"}, gen : Generations \union {None}]
        /\ t.at # "connected"
    BY DEF RestInv, RestTyped, At, Away
  <2>2. viewer' \in [Viewers -> [at  : {"away", "handshake", "connected", "told"},
                                 gen : Generations \union {None}]]
    BY <2>1 DEF ViewersTyped
  <2>3. \A w \in Viewers : \A g \in Generations :
          viewer'[w] = At("connected", g) <=> viewer[w] = At("connected", g)
    BY <2>1 DEF ViewersTyped, At
  <2> QED
    BY <2>2, <2>3 DEF ViewersTyped
<1>5. ASSUME NEW v \in Viewers, Register(v) PROVE ViewersTyped'
  <2> DEFINE n == viewer[v].gen
             t == [viewer[v] EXCEPT !.at = "connected"]
  <2>1. /\ viewer[v].at = "handshake" /\ viewer' = [viewer EXCEPT ![v] = t]
        /\ clients' = [clients EXCEPT ![n] = clients[n] \union {v}]
    BY <1>5 DEF Register
  <2>2. /\ t \in [at : {"away", "handshake", "connected", "told"}, gen : Generations \union {None}]
        /\ t.at = "connected" /\ t.gen = n /\ t = At("connected", n)
    BY DEF ViewersTyped, At
  <2> HIDE DEF t, n
  <2>3. \A g \in Generations : v \notin clients[g]
    BY <2>1 DEF ViewersTyped, At
  <2>4. /\ viewer' \in [Viewers -> [at  : {"away", "handshake", "connected", "told"},
                                    gen : Generations \union {None}]]
        /\ clients' \in [Generations -> SUBSET Viewers]
    BY <2>1, <2>2, ZenonT(60) DEF ViewersTyped
  <2>5. \A w \in Viewers : \A g \in Generations :
          w \in clients'[g] <=> w \in clients[g] \/ (w = v /\ g = n)
    BY <2>1 DEF ViewersTyped
  <2>6. \A w \in Viewers : \A g \in Generations :
          viewer'[w] = At("connected", g) <=> IF w = v THEN g = n ELSE viewer[w] = At("connected", g)
    BY <2>1, <2>2 DEF ViewersTyped, At
  <2> QED
    BY <2>3, <2>4, <2>5, <2>6 DEF ViewersTyped
<1>6. ASSUME NEW v \in Viewers, Leave(v) PROVE ViewersTyped'
  <2> DEFINE n == viewer[v].gen
  <2>1. /\ viewer' = [viewer EXCEPT ![v] = Away]
        /\ clients' = [clients EXCEPT ![n] = clients[n] \ {v}]
    BY <1>6 DEF Leave
  <2>2. \A g \in Generations : v \in clients[g] => g = n
    BY DEF ViewersTyped, At
  <2> HIDE DEF n
  <2>3. /\ Away \in [at : {"away", "handshake", "connected", "told"}, gen : Generations \union {None}]
        /\ Away.at # "connected"
    BY DEF Away
  <2>4. /\ viewer' \in [Viewers -> [at  : {"away", "handshake", "connected", "told"},
                                    gen : Generations \union {None}]]
        /\ clients' \in [Generations -> SUBSET Viewers]
    BY <2>1, <2>3 DEF ViewersTyped
  <2>5. \A w \in Viewers : \A g \in Generations :
          w \in clients'[g] <=> w \in clients[g] /\ w # v
    BY <2>1, <2>2 DEF ViewersTyped
  <2>6. \A w \in Viewers : \A g \in Generations :
          viewer'[w] = At("connected", g) <=> w # v /\ viewer[w] = At("connected", g)
    BY <2>1, <2>3 DEF ViewersTyped, At
  <2> QED
    BY <2>4, <2>5, <2>6 DEF ViewersTyped
<1>7. CASE Shutdown \/ UNCHANGED vars
  BY <1>1, <1>7 DEF Shutdown, vars
<1> QED
  BY <1>2, <1>3, <1>4, <1>5, <1>6, <1>7 DEF Next

LEMMA LifecycleKeeps == LifecycleInv /\ [Next]_vars => LifecycleInv'
<1> SUFFICES ASSUME LifecycleInv, [Next]_vars PROVE LifecycleInv'
  OBVIOUS
<1>1. RestInv /\ ViewersTyped
  BY InvParts
<1>2. RestInv'
  BY <1>1, CallersKeep, StartKeeps, WorkersKeep, RunKeeps, OthersKeep DEF Next
<1>3. ViewersTyped'
  BY <1>1, ViewersKeep
<1> QED
  BY <1>2, <1>3 DEF LifecycleInv, RestInv, TypeOK, RestTyped, ViewersTyped

-----------------------------------------------------------------------------
(* Theorems.                                                               *)

\* Workers (run, synthesizeLoop, sendLoop) use the fields and the socket of their own Start
\* only, and no socket outlives it, for any number of callers that start and stop.
THEOREM WorkersKeepToTheirOwn == SafetySpec => []OwnGeneration
<1> QED
  BY LifecycleStarts, LifecycleKeeps, LifecycleInvSound, PTL DEF SafetySpec

\* When Stop returns, the workers of the generation it stopped have ended and its socket is
\* closed, for any number of callers.
THEOREM StopHasStopped == SafetySpec => StopMeansStopped
<1>1. LifecycleInv /\ [Next]_vars =>
        [\A c \in Callers :
           caller[c].at = "waiting" /\ caller'[c].at # "waiting" =>
             LET g == caller[c].gen IN
             synth[g] = "ended" /\ sender[g] = "ended" /\ g \notin open /\ done # g]_vars
  <2> SUFFICES ASSUME LifecycleInv, Next, NEW c \in Callers,
                      caller[c].at = "waiting", caller'[c].at # "waiting"
               PROVE  LET g == caller[c].gen IN
                      synth[g] = "ended" /\ sender[g] = "ended" /\ g \notin open /\ done # g
    OBVIOUS
  <2>1. caller \in [Callers -> [at  : {"away", "dialed", "closing", "hangup", "waiting"},
                                gen : Generations \union {None}]]
    BY DEF LifecycleInv, TypeOK
  <2>2. StopReturns(c)
    <3>1. ASSUME NEW d \in Callers, Dial(d) \/ Start(d) \/ Stop(d) \/ StopSteps(d)
          PROVE  StopReturns(c)
      BY <2>1, <3>1
      DEF Dial, Start, Stop, StopSteps, StopClosesClients, StopClosesSocket, StopReturns, Away, At
    <3>2. UNCHANGED caller => FALSE
      OBVIOUS
    <3>3. ~ \E g \in Generations : SynthEnds(g) \/ SendSteps(g) \/ RunSteps(g)
      BY <3>2 DEF SynthEnds, SendSteps, SenderEnds, SenderTakesRelay, SenderTakesSocket,
                  SenderWrites, RunSteps, WorkerDone, JoinWorkers, CleanUp, RunClosesClients
    <3>4. ~ \E v \in Viewers : ServeWebSocket(v) \/ Register(v) \/ Refused(v) \/ Leave(v)
      BY <3>2 DEF ServeWebSocket, Register, Refused, Leave
    <3>5. ~Shutdown
      BY <3>2 DEF Shutdown
    <3> QED
      BY <3>1, <3>3, <3>4, <3>5 DEF Next
  <2>3. caller[c].gen \in finished /\ caller[c].gen \in Generations
    BY <2>2 DEF StopReturns, LifecycleInv, StopInStep
  <2>4. run[caller[c].gen] \in {"closing", "over"} /\ GenerationInStep(caller[c].gen)
    BY <2>3 DEF LifecycleInv, GenerationInStep
  <2> QED
    BY <2>4 DEF GenerationInStep, Serving, Joined
<1> QED
  BY LifecycleStarts, LifecycleKeeps, <1>1, PTL DEF SafetySpec, StopMeansStopped
=============================================================================
