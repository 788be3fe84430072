------------------------------ MODULE MCWebRTC ------------------------------
(***************************************************************************)
(* Channels of one frame, two frames and one offer.                        *)
(***************************************************************************)
EXTENDS WebRTCStreamer

\* No step of the media reads a variable of the peers, and CallsReturn speaks of the
\* media alone: the second frame, which makes room in a full channel, is explored
\* without an offer.
PeersOrEviction == offered <= 1 \/ \A p \in Peers : answer[p] = "none"
=============================================================================
