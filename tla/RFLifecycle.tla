---------------------------- MODULE RFLifecycle ----------------------------
(***************************************************************************)
(* Starting and stopping the RF streamer: Start, Stop, ServeWebSocket, run *)
(* and the locks taken by the workers, of internal/rfstream/streamer.go.   *)
(* Each Start makes a generation with its own context, socket, channels    *)
(* and relay, served by three goroutines: run, the synthesizer and the     *)
(* sender.  Any number of callers call Start and Stop at any time, HTTP    *)
(* handlers pick up the relay, and the sender may end by itself.           *)
(*                                                                         *)
(* A section under Streamer.mu or under the relay's mutex is one step;     *)
(* everything between two sections may interleave.  A generation is its    *)
(* number, None stands for nil.  What the workers do with frames and       *)
(* packets is the subject of RFInput, RFSender and WebSocketRelay.         *)
(***************************************************************************)
EXTENDS Integers, FiniteSets

CONSTANTS
  Callers,     \* goroutines that call Start and Stop
  Viewers,     \* WebSocket connections
  MaxStarts    \* bound: generations

ASSUME LifecycleAssumption ==
  /\ MaxStarts \in Nat
  /\ Callers \intersect Viewers = {}

None == 0
Generations == 1 .. MaxStarts
Alive == {"idle", "publish", "write"}   \* of a sender

VARIABLES
  done,         \* Streamer.done, as the generation it belongs to
  running,
  relay,        \* Streamer.relay
  writePacket,  \* Streamer.writePacket (also conn, cancel and inputQueue)
  finished,     \* generations whose done channel is closed
  cancelled,    \* generations whose worker context was cancelled
  shutdown,     \* the context given to Start is done
  open,         \* generations whose socket is open
  run,          \* run: "off", "watching", "joining", "locking", "closing", "over"
  synth,        \* "off", "working", "ended"
  sender,       \* "off", "idle", "publish", "write", "ended"
  using,        \* the relay or writePacket the sender has picked up
  caller,       \* [at, gen]: "away", "dialed", "closing", "hangup", "waiting"
  viewer,       \* [at, gen]: "away", "handshake", "connected", "told"
  clients       \* per generation, the relay's clients

streamer == <<done, running, relay, writePacket>>
workers  == <<run, synth, sender, using>>
vars == <<streamer, finished, cancelled, shutdown, open, workers, caller, viewer, clients>>

Away == [at |-> "away", gen |-> None]
At(step, g) == [at |-> step, gen |-> g]

Init ==
  /\ done = None /\ running = FALSE /\ relay = None /\ writePacket = None
  /\ finished = {} /\ cancelled = {} /\ shutdown = FALSE /\ open = {}
  /\ run = [g \in Generations |-> "off"]
  /\ synth = [g \in Generations |-> "off"]
  /\ sender = [g \in Generations |-> "off"]
  /\ using = [g \in Generations |-> None]
  /\ caller = [c \in Callers |-> Away]
  /\ viewer = [v \in Viewers |-> Away]
  /\ clients = [g \in Generations |-> {}]

Cancelled(g) == g \in cancelled \/ shutdown
Fresh == {g \in Generations : run[g] = "off"}

-----------------------------------------------------------------------------
(* Start.                                                                  *)

\* The checks of the arguments, and a connected socket.
Dial(c) ==
  /\ caller[c] = Away
  /\ ~shutdown
  /\ Fresh # {}
  /\ caller' = [caller EXCEPT ![c] = At("dialed", None)]
  /\ UNCHANGED <<streamer, finished, cancelled, shutdown, open, workers, viewer, clients>>

Launch(g) ==
  /\ done' = g /\ running' = TRUE /\ relay' = g /\ writePacket' = g
  /\ open' = open \union {g}
  /\ run' = [run EXCEPT ![g] = "watching"]
  /\ synth' = [synth EXCEPT ![g] = "working"]
  /\ sender' = [sender EXCEPT ![g] = "idle"]

\* Mutant: the flag decides, not the channel.
StartUnlessRunning(c) ==
  /\ caller[c].at = "dialed"
  /\ caller' = [caller EXCEPT ![c] = Away]
  /\ IF ~running /\ Fresh # {}
     THEN Launch(CHOOSE g \in Fresh : TRUE)
     ELSE UNCHANGED <<streamer, open, run, synth, sender>>
  /\ UNCHANGED <<finished, cancelled, shutdown, using, viewer, clients>>

\* ErrAlreadyRunning closes the new socket again.
Start(c) ==
  /\ caller[c].at = "dialed"
  /\ caller' = [caller EXCEPT ![c] = Away]
  /\ IF done = None /\ Fresh # {}
     THEN Launch(CHOOSE g \in Fresh : TRUE)
     ELSE UNCHANGED <<streamer, open, run, synth, sender>>
  /\ UNCHANGED <<finished, cancelled, shutdown, using, viewer, clients>>

-----------------------------------------------------------------------------
(* Stop.                                                                   *)

Stop(c) ==
  /\ caller[c] = Away
  /\ done # None
  /\ running' = FALSE
  /\ cancelled' = cancelled \union {done}
  /\ caller' = [caller EXCEPT ![c] = At("closing", done)]
  /\ UNCHANGED <<done, relay, writePacket, finished, shutdown, open, workers, viewer,
                 clients>>

\* relay.closeAll: the clients are forgotten and their handlers told.
CloseAll(g) ==
  /\ clients' = [clients EXCEPT ![g] = {}]
  /\ viewer' = [v \in Viewers |-> IF v \in clients[g] THEN At("told", g) ELSE viewer[v]]

StopClosesClients(c) ==
  /\ caller[c].at = "closing"
  /\ CloseAll(caller[c].gen)
  /\ caller' = [caller EXCEPT ![c].at = "hangup"]
  /\ UNCHANGED <<streamer, finished, cancelled, shutdown, open, workers>>

StopClosesSocket(c) ==
  /\ caller[c].at = "hangup"
  /\ open' = open \ {caller[c].gen}
  /\ caller' = [caller EXCEPT ![c].at = "waiting"]
  /\ UNCHANGED <<streamer, finished, cancelled, shutdown, workers, viewer, clients>>

\* Mutant: Stop does not wait for the workers.
StopReturnsAtOnce(c) ==
  /\ caller[c].at = "waiting"
  /\ caller' = [caller EXCEPT ![c] = Away]
  /\ UNCHANGED <<streamer, finished, cancelled, shutdown, open, workers, viewer, clients>>

StopReturns(c) ==
  /\ caller[c].at = "waiting"
  /\ caller[c].gen \in finished
  /\ caller' = [caller EXCEPT ![c] = Away]
  /\ UNCHANGED <<streamer, finished, cancelled, shutdown, open, workers, viewer, clients>>

\* The daemon's context: SIGINT or SIGTERM.
Shutdown ==
  /\ ~shutdown
  /\ shutdown' = TRUE
  /\ UNCHANGED <<streamer, finished, cancelled, open, workers, caller, viewer, clients>>

-----------------------------------------------------------------------------
(* The workers.                                                            *)

SynthEnds(g) ==
  /\ synth[g] = "working" /\ Cancelled(g)
  /\ synth' = [synth EXCEPT ![g] = "ended"]
  /\ UNCHANGED <<streamer, finished, cancelled, shutdown, open, run, sender, using, caller,
                 viewer, clients>>

\* The context is done, or the synthesizer has closed the channel of frames.
SenderEnds(g) ==
  /\ sender[g] = "idle"
  /\ Cancelled(g) \/ synth[g] = "ended"
  /\ sender' = [sender EXCEPT ![g] = "ended"]
  /\ UNCHANGED <<streamer, finished, cancelled, shutdown, open, run, synth, using, caller,
                 viewer, clients>>

\* sendPacket: the relay is read under the lock and used after it, ...
SenderTakesRelay(g) ==
  /\ sender[g] = "idle"
  /\ sender' = [sender EXCEPT ![g] = "publish"]
  /\ using' = [using EXCEPT ![g] = relay]
  /\ UNCHANGED <<streamer, finished, cancelled, shutdown, open, run, synth, caller, viewer,
                 clients>>

\* ... and so is writePacket, whose absence is fatal.
SenderTakesSocket(g) ==
  /\ sender[g] = "publish"
  /\ sender' = [sender EXCEPT ![g] = IF writePacket = None THEN "ended" ELSE "write"]
  /\ using' = [using EXCEPT ![g] = writePacket]
  /\ UNCHANGED <<streamer, finished, cancelled, shutdown, open, run, synth, caller, viewer,
                 clients>>

\* A write to a socket that is closed is fatal, as any may be.
SenderWrites(g) ==
  /\ sender[g] = "write"
  /\ \/ /\ using[g] \in open
        /\ sender' = [sender EXCEPT ![g] = "idle"]
     \/ sender' = [sender EXCEPT ![g] = "ended"]
  /\ UNCHANGED <<streamer, finished, cancelled, shutdown, open, run, synth, using, caller,
                 viewer, clients>>

-----------------------------------------------------------------------------
(* run.                                                                    *)

\* Mutant: the other worker is not told.
WorkerDoneUncancelled(g) ==
  /\ run[g] = "watching"
  /\ synth[g] = "ended" \/ sender[g] = "ended"
  /\ run' = [run EXCEPT ![g] = "joining"]
  /\ UNCHANGED <<streamer, finished, cancelled, shutdown, open, synth, sender, using, caller,
                 viewer, clients>>

WorkerDone(g) ==
  /\ run[g] = "watching"
  /\ synth[g] = "ended" \/ sender[g] = "ended"
  /\ cancelled' = cancelled \union {g}
  /\ run' = [run EXCEPT ![g] = "joining"]
  /\ UNCHANGED <<streamer, finished, shutdown, open, synth, sender, using, caller, viewer,
                 clients>>

JoinWorkers(g) ==
  /\ run[g] = "joining"
  /\ synth[g] = "ended" /\ sender[g] = "ended"
  /\ open' = open \ {g}
  /\ run' = [run EXCEPT ![g] = "locking"]
  /\ UNCHANGED <<streamer, finished, cancelled, shutdown, synth, sender, using, caller,
                 viewer, clients>>

CleanUp(g) ==
  /\ run[g] = "locking"
  /\ IF done = g
     THEN /\ done' = None /\ running' = FALSE /\ writePacket' = None
          /\ finished' = finished \union {g}
          /\ run' = [run EXCEPT ![g] = "closing"]
     ELSE /\ run' = [run EXCEPT ![g] = "over"]
          /\ UNCHANGED <<done, running, writePacket, finished>>
  /\ UNCHANGED <<relay, cancelled, shutdown, open, synth, sender, using, caller, viewer,
                 clients>>

RunClosesClients(g) ==
  /\ run[g] = "closing"
  /\ CloseAll(g)
  /\ run' = [run EXCEPT ![g] = "over"]
  /\ UNCHANGED <<streamer, finished, cancelled, shutdown, open, synth, sender, using, caller>>

-----------------------------------------------------------------------------
(* WebSocket handlers.                                                     *)

\* ServeWebSocket: the relay is read under the lock and used after it.
ServeWebSocket(v) ==
  /\ viewer[v] = Away
  /\ running /\ relay # None
  /\ viewer' = [viewer EXCEPT ![v] = At("handshake", relay)]
  /\ UNCHANGED <<streamer, finished, cancelled, shutdown, open, workers, caller, clients>>

\* The handler registers once the handshake is done; or the handshake fails.
Register(v) ==
  /\ viewer[v].at = "handshake"
  /\ viewer' = [viewer EXCEPT ![v].at = "connected"]
  /\ clients' = [clients EXCEPT ![viewer[v].gen] = @ \union {v}]
  /\ UNCHANGED <<streamer, finished, cancelled, shutdown, open, workers, caller>>

Refused(v) ==
  /\ viewer[v].at = "handshake"
  /\ viewer' = [viewer EXCEPT ![v] = Away]
  /\ UNCHANGED <<streamer, finished, cancelled, shutdown, open, workers, caller, clients>>

\* The handler was told to end, or the browser leaves.
Leave(v) ==
  /\ viewer[v].at \in {"connected", "told"}
  /\ viewer' = [viewer EXCEPT ![v] = Away]
  /\ clients' = [clients EXCEPT ![viewer[v].gen] = @ \ {v}]
  /\ UNCHANGED <<streamer, finished, cancelled, shutdown, open, workers, caller>>

-----------------------------------------------------------------------------
StopSteps(c) == StopClosesClients(c) \/ StopClosesSocket(c) \/ StopReturns(c)

\* The goroutines of a generation; nobody but they have to act for it to end.
SendSteps(g) ==
  \/ SenderEnds(g) \/ SenderTakesRelay(g) \/ SenderTakesSocket(g) \/ SenderWrites(g)
RunSteps(g) == WorkerDone(g) \/ JoinWorkers(g) \/ CleanUp(g) \/ RunClosesClients(g)

Next ==
  \/ \E c \in Callers : Dial(c) \/ Start(c) \/ Stop(c) \/ StopSteps(c)
  \/ \E g \in Generations : SynthEnds(g) \/ SendSteps(g) \/ RunSteps(g)
  \/ \E v \in Viewers : ServeWebSocket(v) \/ Register(v) \/ Refused(v) \/ Leave(v)
  \/ Shutdown

\* The select of sendLoop is random: a context that is done is noticed at last,
\* however many frames are ready (strong fairness).
Fairness ==
  /\ \A c \in Callers : WF_vars(StopSteps(c))
  /\ \A g \in Generations :
       /\ WF_vars(SynthEnds(g)) /\ WF_vars(SendSteps(g)) /\ SF_vars(SenderEnds(g))
       /\ WF_vars(RunSteps(g))

SafetySpec == Init /\ [][Next]_vars
Spec == SafetySpec /\ Fairness

-----------------------------------------------------------------------------
(* Properties.                                                             *)

\* Type invariant.
TypeOK ==
  /\ {done, relay, writePacket} \subseteq Generations \union {None}
  /\ running \in BOOLEAN /\ shutdown \in BOOLEAN
  /\ finished \subseteq Generations /\ cancelled \subseteq Generations
  /\ open \subseteq Generations
  /\ run \in [Generations -> {"off", "watching", "joining", "locking", "closing", "over"}]
  /\ synth \in [Generations -> {"off", "working", "ended"}]
  /\ sender \in [Generations -> Alive \union {"off", "ended"}]
  /\ using \in [Generations -> Generations \union {None}]
  /\ caller \in [Callers -> [at  : {"away", "dialed", "closing", "hangup", "waiting"},
                             gen : Generations \union {None}]]
  /\ viewer \in [Viewers -> [at  : {"away", "handshake", "connected", "told"},
                             gen : Generations \union {None}]]
  /\ clients \in [Generations -> SUBSET Viewers]
  /\ \A v \in Viewers : \A g \in Generations :
       v \in clients[g] <=> viewer[v] = At("connected", g)

\* A worker that is alive works for the generation the streamer is in, and what
\* it picked up under the lock and uses after it is that generation's: a sender
\* that outlives Stop never publishes to the relay, or writes to the socket, of
\* the Start that follows.  No socket outlives its generation, whether Stop was
\* called, the context was cancelled or the sender failed.
OwnGeneration ==
  /\ TypeOK
  /\ \A g \in Generations :
       /\ synth[g] = "working" \/ sender[g] \in Alive => done = g
       /\ sender[g] \in {"publish", "write"} => using[g] = g
       /\ g \in open => done = g

\* Stop returns when the workers of its generation have ended, its socket is
\* closed and Start would succeed or has succeeded.
StopMeansStopped ==
  [][\A c \in Callers :
       caller[c].at = "waiting" /\ caller'[c].at # "waiting" =>
         LET g == caller[c].gen IN
         synth[g] = "ended" /\ sender[g] = "ended" /\ g \notin open /\ done # g]_vars

\* Stop, which waits for goroutines that themselves need the lock, returns; and a
\* sender that fails takes its generation down without anybody calling Stop.
GenerationsEnd ==
  /\ \A c \in Callers : caller[c].at = "closing" ~> caller[c] = Away
  /\ \A g \in Generations : sender[g] = "ended" ~> run[g] = "over"

\* "RF stop and fatal sender termination close all hijacked WebSocket
\* connections" (doc/progress-2026-07-19-issue-5-difi-wss.md:25): a generation
\* that is over has no client.
AllClientsClosed == \A g \in Generations : run[g] = "over" => clients[g] = {}
=============================================================================
