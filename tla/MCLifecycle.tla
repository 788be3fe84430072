---------------------------- MODULE MCLifecycle ----------------------------
(***************************************************************************)
(* Two callers that start and stop against each other, and one viewer.     *)
(***************************************************************************)
EXTENDS RFLifecycle, TLC

CONSTANTS c1, c2, v1

MCCallers == {c1, c2}
MCViewers == {v1}
=============================================================================
