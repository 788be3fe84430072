-------------------------- MODULE TransportContract --------------------------
(***************************************************************************)
(* What the DIFI WebSocket transport promises a receiver, independent of   *)
(* bundles, queues and goroutines.  Packets are numbered in the order the  *)
(* sender publishes them.  A receiver that joins after packet p is given a *)
(* preamble (control packets it may need to decode the stream) and from    *)
(* then on receives p+1, p+2, ... in order, without a gap and without a    *)
(* repetition, until it is cut off; nobody is skipped and kept.            *)
(*                                                                         *)
(* A receiver that is cut off may still be handed what was already queued  *)
(* for it, so `heard' may grow after the cut, but only in the same order.  *)
(***************************************************************************)
EXTENDS Naturals, Sequences

CONSTANTS
  Receivers,    \* every connection that will ever be attempted
  LastPacket    \* number of packets the sender publishes

VARIABLES
  sent,         \* packets published so far
  status,       \* per receiver: "out", "live" or "cut"
  from,         \* per receiver: the packet after which it joined
  heard         \* per receiver: the packets it received after the preamble

vars == <<sent, status, from, heard>>

Init ==
  /\ sent = 0
  /\ status = [r \in Receivers |-> "out"]
  /\ from = [r \in Receivers |-> 0]
  /\ heard = [r \in Receivers |-> <<>>]

\* Any live receivers may be cut off, at any time.
Losing(R) ==
  /\ status' \in [Receivers -> {"out", "live", "cut"}]
  /\ \A r \in R : status'[r] = status[r] \/ (status[r] = "live" /\ status'[r] = "cut")

Publish ==
  /\ sent < LastPacket
  /\ sent' = sent + 1
  /\ Losing(Receivers)
  /\ UNCHANGED <<from, heard>>

\* Joining may push out what was waiting for the others, so it can cut them.
Join(r) ==
  /\ status[r] = "out" /\ status'[r] = "live"
  /\ Losing(Receivers \ {r})
  /\ from' = [from EXCEPT ![r] = sent]
  /\ UNCHANGED <<sent, heard>>

Refuse(r) ==
  /\ status[r] = "out"
  /\ status' = [status EXCEPT ![r] = "cut"]
  /\ UNCHANGED <<sent, from, heard>>

\* Packet from[r] + k, for every k up to `upto'.
InOrder(r, upto) == [k \in 1 .. upto - from[r] |-> from[r] + k]

Hear(r) ==
  /\ status[r] # "out"
  /\ \E upto \in from[r] + Len(heard[r]) + 1 .. sent :
       heard' = [heard EXCEPT ![r] = InOrder(r, upto)]
  /\ UNCHANGED <<sent, status, from>>

Cut ==
  /\ Losing(Receivers)
  /\ UNCHANGED <<sent, from, heard>>

Next ==
  \/ Publish
  \/ Cut
  \/ \E r \in Receivers : Join(r) \/ Refuse(r) \/ Hear(r)

Spec == Init /\ [][Next]_vars
===============================================================================
