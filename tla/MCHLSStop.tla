----------------------------- MODULE MCHLSStop -----------------------------
(***************************************************************************)
(* The streamer alone, with a single frame: enough for Stop to meet it.    *)
(***************************************************************************)
EXTENDS HLSStreamer
=============================================================================
