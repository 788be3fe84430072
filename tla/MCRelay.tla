------------------------------ MODULE MCRelay ------------------------------
(***************************************************************************)
(* The relay on a small instance: three connection attempts compete for    *)
(* two slots while the sender publishes a start-up context and version,    *)
(* data, a refreshed context and more data.  Sizes are chosen so that some *)
(* bundles are closed by their byte count and some by their packet count.  *)
(***************************************************************************)
EXTENDS WebSocketRelay

MCFeed == <<"context", "version", "data", "data">>
MCRefreshFeed == <<"context", "version", "data", "data", "context">>
MCSize == [k \in Kinds |-> IF k = "data" THEN 3 ELSE 1]
Symmetry == Permutations(Clients)

\* A finished connection never changes again, so states that differ only in
\* what it was sent are explored once.
ConnectionView(c) ==
  IF pc[c] = "gone" /\ c \notin clients /\ c \notin toClose
  THEN <<"gone">>
  ELSE <<pc[c], queue[c], done[c], conn[c], hangup[c], writing[c], received[c], joined[c]>>

View == <<published, clients, pending, pendingBytes, lastContext, lastVersion, toClose,
          closes, clearedAt, [c \in Clients |-> ConnectionView(c)]>>
=============================================================================
