--------------------------- MODULE WebSocketRelay ---------------------------
(***************************************************************************)
(* The NCB1 WebSocket relay of internal/rfstream/websocket.go: the sender  *)
(* publishes DIFI packets into bundles, every registered client has a      *)
(* bounded queue of bundles, and one HTTP handler per connection writes    *)
(* its queue to the network.                                               *)
(*                                                                         *)
(* relay.mu protects clients, the partial bundle and the cached control    *)
(* packets and is never held across a blocking call, so each critical      *)
(* section is one action.  Queue receives, network writes and closes       *)
(* happen outside the lock and are actions of the handler.                 *)
(*                                                                         *)
(* A packet is its number in publication order; Feed gives its kind.  A    *)
(* bundle is the sequence of the packets in it.  Write deadlines are not   *)
(* timed: a write may fail at any moment and always returns.               *)
(***************************************************************************)
EXTENDS Integers, Sequences, FiniteSets, SequencesExt

CONSTANTS
  Clients,            \* connection attempts; each is one HTTP request
  Feed,               \* kinds of the packets the sender will publish, in order
  Size,               \* bytes a packet of each kind takes in a bundle
  HeaderBytes,        \* webSocketBundleHeaderSize
  MaxBundleBytes,     \* webSocketMaxBundleBytes
  MaxBundlePackets,   \* webSocketMaxBundlePackets
  QueueCapacity,      \* queueCapacity (webSocketClientQueue)
  MaxClients,         \* webSocketMaxClients
  MaxCloses           \* bound: calls of closeAll

Kinds == {"context", "version", "data"}

ASSUME RelayAssumption ==
  /\ IsFiniteSet(Clients)
  /\ Feed \in Seq(Kinds)
  /\ Size \in [Kinds -> Nat \ {0}]
  /\ HeaderBytes \in Nat /\ MaxBundleBytes \in Nat
  \* No single packet fills a bundle, so one publish flushes at most once.
  /\ \A k \in Kinds : HeaderBytes + Size[k] < MaxBundleBytes
  \* Two packets of 16-bit length fit one bundle, so a preamble always does.
  /\ HeaderBytes + Size["context"] + Size["version"] <= MaxBundleBytes
  /\ MaxBundlePackets \in Nat \ {0, 1}
  /\ QueueCapacity \in Nat \ {0}
  /\ MaxClients \in Nat \ {0}
  /\ MaxCloses \in Nat

Packets == 1 .. Len(Feed)

VARIABLES
  published,     \* number of packets handed to publishPacket so far
  clients,       \* relay.clients
  pending,       \* the partial bundle; its length is pendingCount
  pendingBytes,  \* len(relay.pending)
  lastContext,   \* cached Signal Context packet, 0 when none
  lastVersion,   \* cached Version packet, 0 when none
  disconnects,   \* statsSnapshot.Disconnects
  queue,         \* client.queue
  done,          \* client.done is closed
  conn,          \* "none" before the upgrade, "open", "closed"
  hangup,        \* clientClosed is closed: the reader goroutine returned
  pc,            \* the HTTP handler of each connection
  writing,       \* the bundle inside conn.Write, as a sequence of at most one
  toClose,       \* connections a closeAll still has to close after unlocking
  received,      \* history: bundles written to the network
  closes,        \* number of closeAll calls so far
  clearedAt,     \* history: `published' at the last closeAll
  joined         \* history: [at, cleared], the values of published and
                 \* clearedAt when the client was registered

relayVars  == <<clients, pending, pendingBytes, lastContext, lastVersion, disconnects>>
clientVars == <<queue, done, conn, hangup, pc, writing, received, joined>>
vars == <<published, relayVars, clientVars, toClose, closes, clearedAt>>

NoPacket == 0
HandlerStates == {"idle", "upgraded", "select", "writing", "leaving", "gone"}
Bundles == Seq(Packets)

Init ==
  /\ published = 0
  /\ clients = {}
  /\ pending = <<>> /\ pendingBytes = 0
  /\ lastContext = NoPacket /\ lastVersion = NoPacket
  /\ disconnects = 0
  /\ queue = [c \in Clients |-> <<>>]
  /\ done = [c \in Clients |-> FALSE]
  /\ conn = [c \in Clients |-> "none"]
  /\ hangup = [c \in Clients |-> FALSE]
  /\ pc = [c \in Clients |-> "idle"]
  /\ writing = [c \in Clients |-> <<>>]
  /\ toClose = {}
  /\ closes = 0 /\ clearedAt = 0
  /\ received = [c \in Clients |-> <<>>]
  /\ joined = [c \in Clients |-> [at |-> 0, cleared |-> 0]]

-----------------------------------------------------------------------------
(* Publishing: the sender's goroutine, under relay.mu.                     *)

\* publishBundleLocked offers b to every registered client without blocking.
\* A client whose queue is full is unregistered and told; it keeps what is
\* already queued.  Flushing an empty partial bundle does nothing.
Overrun(b) == {c \in clients : b # <<>> /\ Len(queue[c]) >= QueueCapacity}

Offered(b) ==
  [c \in Clients |-> IF b # <<>> /\ c \in clients \ Overrun(b)
                     THEN Append(queue[c], b) ELSE queue[c]]

\* Mutant: the evicted client is not told.
EvictSilently(b) ==
  /\ disconnects' = disconnects + Cardinality(Overrun(b))
  /\ UNCHANGED done

Evict(b) ==
  /\ done' = [c \in Clients |-> done[c] \/ c \in Overrun(b)]
  /\ disconnects' = disconnects + Cardinality(Overrun(b))

PublishBundle(b) ==
  /\ queue' = Offered(b)
  /\ clients' = clients \ Overrun(b)
  /\ Evict(b)

CacheControl(p) ==
  /\ lastContext' = IF Feed[p] = "context" THEN p ELSE lastContext
  /\ lastVersion' = IF Feed[p] = "version" THEN p ELSE lastVersion

\* A partial bundle that packet p would overfill is flushed before p is
\* appended; one that p fills is flushed right after.
FlushBefore(p) ==
  /\ pending # <<>>
  /\ \/ Len(pending) >= MaxBundlePackets
     \/ pendingBytes + Size[Feed[p]] > MaxBundleBytes

FlushAfter(b, bytes) == Len(b) >= MaxBundlePackets \/ bytes >= MaxBundleBytes

AppendPacket(p) ==
  LET b     == Append(pending, p)
      bytes == (IF pending = <<>> THEN HeaderBytes ELSE pendingBytes) + Size[Feed[p]]
  IN IF FlushAfter(b, bytes)
     THEN PublishBundle(b) /\ pending' = <<>> /\ pendingBytes' = 0
     ELSE /\ pending' = b /\ pendingBytes' = bytes
          /\ UNCHANGED <<queue, clients, done, disconnects>>

PublishPacket ==
  LET p == published + 1 IN
  /\ published < Len(Feed)
  /\ published' = p
  /\ CacheControl(p)
  /\ \/ /\ clients = {}
        /\ pending' = <<>> /\ pendingBytes' = 0
        /\ UNCHANGED <<queue, clients, done, disconnects>>
     \/ /\ clients # {} /\ FlushBefore(p)
        /\ PublishBundle(pending)
        /\ pending' = <<p>> /\ pendingBytes' = HeaderBytes + Size[Feed[p]]
     \/ /\ clients # {} /\ ~FlushBefore(p)
        /\ AppendPacket(p)
  /\ UNCHANGED <<conn, hangup, pc, writing, toClose, received, closes, clearedAt, joined>>

-----------------------------------------------------------------------------
(* The HTTP handler of connection c.                                       *)

\* The handshake refuses early when the relay is full; the answer may be
\* stale by the time the upgraded connection is registered.
Handshake(c) ==
  /\ pc[c] = "idle"
  /\ \/ /\ Cardinality(clients) >= MaxClients
        /\ pc' = [pc EXCEPT ![c] = "gone"]
        /\ UNCHANGED conn
     \/ /\ Cardinality(clients) < MaxClients
        /\ pc' = [pc EXCEPT ![c] = "upgraded"]
        /\ conn' = [conn EXCEPT ![c] = "open"]
  /\ UNCHANGED <<published, relayVars, queue, done, hangup, writing, toClose,
                 received, closes, clearedAt, joined>>

\* The cached control packets a new client is started with.
Preamble(context, version) ==
  (IF context = NoPacket THEN <<>> ELSE <<context>>) \o
  (IF version = NoPacket THEN <<>> ELSE <<version>>)

\* Mutant: the handshake's check is trusted.
AddClientUnchecked(c) ==
  LET preamble == Preamble(lastContext, lastVersion) IN
  /\ pc[c] = "upgraded"
  /\ Evict(pending)
  /\ clients' = (clients \ Overrun(pending)) \union {c}
  /\ queue' = [Offered(pending) EXCEPT
                 ![c] = IF preamble = <<>> THEN <<>> ELSE <<preamble>>]
  /\ pending' = <<>> /\ pendingBytes' = 0
  /\ joined' = [joined EXCEPT ![c] = [at |-> published, cleared |-> clearedAt]]
  /\ pc' = [pc EXCEPT ![c] = "select"]
  /\ UNCHANGED <<published, lastContext, lastVersion, conn, hangup, writing,
                 toClose, received, closes, clearedAt>>

\* Mutant: the partial bundle is left for the newcomer too.
AddClientUnflushed(c) ==
  LET preamble == Preamble(lastContext, lastVersion) IN
  /\ pc[c] = "upgraded"
  /\ Cardinality(clients) < MaxClients
  /\ clients' = clients \union {c}
  /\ queue' = [queue EXCEPT ![c] = IF preamble = <<>> THEN <<>> ELSE <<preamble>>]
  /\ joined' = [joined EXCEPT ![c] = [at |-> published, cleared |-> clearedAt]]
  /\ pc' = [pc EXCEPT ![c] = "select"]
  /\ UNCHANGED <<published, pending, pendingBytes, lastContext, lastVersion, done,
                 disconnects, conn, hangup, writing, toClose, received, closes,
                 clearedAt>>

\* addClientLocked: what is pending goes to the clients already there, so the
\* newcomer's stream starts, after the cached control packets, at the next
\* packet.  The limit is checked again because the handshake's answer is old.
AddClient(c) ==
  LET preamble == Preamble(lastContext, lastVersion) IN
  /\ pc[c] = "upgraded"
  /\ Cardinality(clients) < MaxClients
  /\ Evict(pending)
  /\ clients' = (clients \ Overrun(pending)) \union {c}
  /\ queue' = [Offered(pending) EXCEPT
                 ![c] = IF preamble = <<>> THEN <<>> ELSE <<preamble>>]
  /\ pending' = <<>> /\ pendingBytes' = 0
  /\ joined' = [joined EXCEPT ![c] = [at |-> published, cleared |-> clearedAt]]
  /\ pc' = [pc EXCEPT ![c] = "select"]
  /\ UNCHANGED <<published, lastContext, lastVersion, conn, hangup, writing,
                 toClose, received, closes, clearedAt>>

\* Without a slot the handler returns and the server closes the connection.
RejectClient(c) ==
  /\ pc[c] = "upgraded"
  /\ Cardinality(clients) >= MaxClients
  /\ pc' = [pc EXCEPT ![c] = "gone"]
  /\ conn' = [conn EXCEPT ![c] = "closed"]
  /\ UNCHANGED <<published, relayVars, queue, done, hangup, writing, toClose,
                 received, closes, clearedAt, joined>>

\* The reader goroutine returns on any message, on a close and on an error.
\* Once the handler has left its loop nobody looks.
ReaderReturns(c) ==
  /\ pc[c] \in {"select", "writing"}
  /\ ~hangup[c]
  /\ hangup' = [hangup EXCEPT ![c] = TRUE]
  /\ UNCHANGED <<published, relayVars, queue, done, conn, pc, writing, toClose,
                 received, closes, clearedAt, joined>>

Moves(c, from, to) == pc[c] = from /\ pc' = [pc EXCEPT ![c] = to]

\* The three branches of the handler's select.
\* Mutant: the loop does not watch the reader.
OnHangupMissing(c) == FALSE

OnHangup(c) ==
  /\ hangup[c] /\ Moves(c, "select", "leaving")
  /\ UNCHANGED <<published, relayVars, queue, done, conn, hangup, writing, toClose,
                 received, closes, clearedAt, joined>>

OnDone(c) ==
  /\ done[c] /\ Moves(c, "select", "leaving")
  /\ UNCHANGED <<published, relayVars, queue, done, conn, hangup, writing, toClose,
                 received, closes, clearedAt, joined>>

OnBundle(c) ==
  /\ queue[c] # <<>> /\ Moves(c, "select", "writing")
  /\ writing' = [writing EXCEPT ![c] = <<Head(queue[c])>>]
  /\ queue' = [queue EXCEPT ![c] = Tail(@)]
  /\ UNCHANGED <<published, relayVars, done, conn, hangup, toClose, received,
                 closes, clearedAt, joined>>

WriteSucceeds(c) ==
  /\ conn[c] = "open" /\ Moves(c, "writing", "select")
  /\ received' = [received EXCEPT ![c] = @ \o writing[c]]
  /\ writing' = [writing EXCEPT ![c] = <<>>]
  /\ UNCHANGED <<published, relayVars, queue, done, conn, hangup, toClose,
                 closes, clearedAt, joined>>

\* A closed connection, an expired deadline or a lost peer.  The bundle stays
\* in `writing': the peer has at most part of it.
WriteFails(c) ==
  /\ Moves(c, "writing", "leaving")
  /\ UNCHANGED <<published, relayVars, queue, done, conn, hangup, writing, toClose,
                 received, closes, clearedAt, joined>>

\* The handler's deferred calls: removeClient, then closeConnection.  Nobody
\* can tell the two apart, so they are one step.
RemoveClient(c) ==
  /\ Moves(c, "leaving", "gone")
  /\ \/ /\ c \notin clients
        /\ UNCHANGED <<clients, done, pending, pendingBytes>>
     \/ /\ c \in clients
        /\ clients' = clients \ {c}
        /\ done' = [done EXCEPT ![c] = TRUE]
        /\ pending' = IF clients = {c} THEN <<>> ELSE pending
        /\ pendingBytes' = IF clients = {c} THEN 0 ELSE pendingBytes
  /\ conn' = [conn EXCEPT ![c] = "closed"]
  /\ UNCHANGED <<published, lastContext, lastVersion, disconnects, queue,
                 hangup, writing, toClose, received, closes, clearedAt, joined>>

-----------------------------------------------------------------------------
(* closeAll, called by Streamer.Stop and by the end of Streamer.run: one   *)
(* critical section, then the connections are closed one by one.           *)
\* Mutant: the cached control packets survive.
CloseAllKeepingCache ==
  /\ closes < MaxCloses
  /\ closes' = closes + 1
  /\ clients' = {}
  /\ done' = [c \in Clients |-> done[c] \/ c \in clients]
  /\ disconnects' = disconnects + Cardinality(clients)
  /\ pending' = <<>> /\ pendingBytes' = 0
  /\ toClose' = toClose \union clients
  /\ clearedAt' = published
  /\ UNCHANGED <<published, lastContext, lastVersion, queue, conn, hangup, pc,
                 writing, received, joined>>

CloseAll ==
  /\ closes < MaxCloses
  /\ closes' = closes + 1
  /\ clients' = {}
  /\ done' = [c \in Clients |-> done[c] \/ c \in clients]
  /\ disconnects' = disconnects + Cardinality(clients)
  /\ pending' = <<>> /\ pendingBytes' = 0
  /\ lastContext' = NoPacket /\ lastVersion' = NoPacket
  /\ toClose' = toClose \union clients
  /\ clearedAt' = published
  /\ UNCHANGED <<published, queue, conn, hangup, pc, writing, received, joined>>

CloseNext(c) ==
  /\ c \in toClose
  /\ toClose' = toClose \ {c}
  /\ conn' = [conn EXCEPT ![c] = "closed"]
  /\ UNCHANGED <<published, relayVars, queue, done, hangup, pc, writing, received,
                 closes, clearedAt, joined>>

-----------------------------------------------------------------------------
Handler(c) ==
  \/ Handshake(c) \/ AddClient(c) \/ RejectClient(c)
  \/ OnHangup(c) \/ OnDone(c) \/ OnBundle(c)
  \/ WriteSucceeds(c) \/ WriteFails(c)
  \/ RemoveClient(c)

Next ==
  \/ PublishPacket
  \/ CloseAll
  \/ \E c \in Clients : Handler(c) \/ ReaderReturns(c) \/ CloseNext(c)

(***************************************************************************)
(* A started handler runs on: its select has a ready branch or waits, and  *)
(* a write returns because a five-second deadline is armed before it.      *)
(* select picks uniformly among ready branches, so a hang-up cannot be     *)
(* passed over forever.  Requests, packets and closeAll are not promised.  *)
(***************************************************************************)
Serve(c) ==
  \/ AddClient(c) \/ RejectClient(c) \/ OnHangup(c) \/ OnDone(c) \/ OnBundle(c)
  \/ WriteSucceeds(c) \/ WriteFails(c) \/ RemoveClient(c)

Fairness ==
  \A c \in Clients : /\ WF_vars(Serve(c))
                     /\ SF_vars(OnHangup(c))
                     /\ WF_vars(CloseNext(c))

SafetySpec == Init /\ [][Next]_vars
Spec == SafetySpec /\ Fairness

-----------------------------------------------------------------------------
\* Type invariant.
TypeOK ==
  /\ published \in 0 .. Len(Feed)
  /\ clients \in SUBSET Clients
  /\ pending \in Seq(Packets) /\ pendingBytes \in Nat
  /\ lastContext \in 0 .. Len(Feed) /\ lastVersion \in 0 .. Len(Feed)
  /\ disconnects \in Nat
  /\ queue \in [Clients -> Seq(Bundles)]
  /\ \A c \in Clients : Len(queue[c]) <= QueueCapacity
  /\ done \in [Clients -> BOOLEAN]
  /\ conn \in [Clients -> {"none", "open", "closed"}]
  /\ hangup \in [Clients -> BOOLEAN]
  /\ pc \in [Clients -> HandlerStates]
  /\ writing \in [Clients -> Seq(Bundles)]
  /\ \A c \in Clients : Len(writing[c]) <= 1
  /\ toClose \in SUBSET Clients
  /\ received \in [Clients -> Seq(Bundles)]
  /\ closes \in 0 .. MaxCloses /\ clearedAt \in 0 .. Len(Feed)
  /\ joined \in [Clients -> [at : 0 .. Len(Feed), cleared : 0 .. Len(Feed)]]

\* The last packet of a kind published in (lo, hi], or NoPacket.
Latest(kind, lo, hi) ==
  LET S == {p \in lo + 1 .. hi : Feed[p] = kind}
  IN IF S = {} THEN NoPacket ELSE CHOOSE p \in S : \A q \in S : q <= p

\* Every bundle queued for c so far, in order.
Sent(c) == received[c] \o writing[c] \o queue[c]

\* The control packets c must be started with: the latest ones published
\* since the relay was last closed, as of its registration.
Opening(c) ==
  Preamble(Latest("context", joined[c].cleared, joined[c].at),
           Latest("version", joined[c].cleared, joined[c].at))

\* The number of opening bundles at the head of what c is sent.
OpeningLen(c) == IF Opening(c) = <<>> THEN 0 ELSE 1

LastOf(b) == b[Len(b)]

\* The packet after which the i-th bundle of s, the bundles sent to c, has to
\* continue.
Before(c, s, i) ==
  IF i = OpeningLen(c) + 1 THEN joined[c].at ELSE LastOf(s[i - 1])

\* b holds the packets p+1, p+2, ... in order.
ContinuesFrom(b, p) == \A j \in 1 .. Len(b) : b[j] = p + j

\* s, what c is sent, goes on from the opening packet by packet, up to the last one.
Continues(c, s) ==
  /\ OpeningLen(c) = 1 => Len(s) >= 1 /\ s[1] = Opening(c)
  /\ \A i \in OpeningLen(c) + 1 .. Len(s) :
       s[i] # <<>> /\ ContinuesFrom(s[i], Before(c, s, i))
  /\ c \in clients =>
       LET next == Before(c, s, Len(s) + 1)
       IN ContinuesFrom(pending, next) /\ next + Len(pending) = published

(***************************************************************************)
(* What a connection is sent starts with the control packets current when  *)
(* it registered and then continues packet by packet, across bundles, from *)
(* the one published next; and as long as it is registered, what it was    *)
(* sent plus the partial bundle reaches the last packet published.  A slow *)
(* client is cut off, never skipped (websocket.go:170-173).                *)
(***************************************************************************)
NoSilentSkip ==
  \A c \in Clients :
    pc[c] \notin {"idle", "upgraded"} /\ (c \in clients \/ done[c]) => Continues(c, Sent(c))

(***************************************************************************)
(* A connection whose handler serves is either registered, and will get    *)
(* every further bundle, or has been told to end.  No handler is left      *)
(* waiting on a queue nobody fills, however eviction, removal and closeAll *)
(* interleave; and a registered client always has a handler to free its    *)
(* slot.                                                                   *)
(***************************************************************************)
ServedOrTold ==
  \A c \in Clients :
    /\ pc[c] \in {"select", "writing", "leaving"} => (c \in clients) # done[c]
    /\ c \in clients => pc[c] \in {"select", "writing", "leaving"}

(***************************************************************************)
(* The limit holds although several upgrades can pass the handshake's      *)
(* check before any of them registers (websocket.go:274-280 and 286).      *)
(***************************************************************************)
ClientLimit == Cardinality(clients) <= MaxClients

\* Bytes a bundle encodes to.
EncodedBytes(b) ==
  LET upto[i \in 0 .. Len(b)] ==
        IF i = 0 THEN HeaderBytes ELSE upto[i - 1] + Size[Feed[b[i]]]
  IN upto[Len(b)]

(***************************************************************************)
(* Every bundle queued or sent, openings included, respects the receiver's *)
(* limits on packets and bytes, and len(relay.pending) is what the partial *)
(* bundle encodes to.                                                      *)
(***************************************************************************)
BundlesFit ==
  /\ \A c \in Clients : \A i \in 1 .. Len(Sent(c)) :
       /\ Len(Sent(c)[i]) <= MaxBundlePackets
       /\ EncodedBytes(Sent(c)[i]) <= MaxBundleBytes
  /\ pending # <<>> => pendingBytes = EncodedBytes(pending)

\* The limits on what a receiver gets and on who gets it (ClientLimit).
LimitsHold == TypeOK /\ ClientLimit /\ BundlesFit

\* The contract's view of a connection: what it received behind its opening.
HeardOf(c) ==
  FlattenSeq(SubSeq(received[c], OpeningLen(c) + 1, Len(received[c])))

StatusOf(c) ==
  IF c \in clients THEN "live"
  ELSE IF pc[c] \in {"idle", "upgraded"} THEN "out" ELSE "cut"

Contract == INSTANCE TransportContract WITH
  Receivers <- Clients, LastPacket <- Len(Feed), sent <- published,
  status <- [c \in Clients |-> StatusOf(c)],
  from <- [c \in Clients |-> joined[c].at],
  heard <- [c \in Clients |-> HeardOf(c)]

(***************************************************************************)
(* The relay implements the transport contract: each receiver gets the     *)
(* packets from its registration on, in order and without a gap, until it  *)
(* is cut off (websocket.go:103-232).                                      *)
(***************************************************************************)
ImplementsContract == Contract!Spec

(***************************************************************************)
(* Liveness: a client that was evicted, removed or closed by closeAll ends *)
(* with its handler returned and its connection closed, even when its peer *)
(* reads nothing; and the slot of a peer that hung up is freed.            *)
(***************************************************************************)
HandlersEnd ==
  \A c \in Clients :
    /\ done[c] ~> (pc[c] = "gone" /\ conn[c] = "closed")
    /\ hangup[c] ~> (c \notin clients)
=============================================================================
