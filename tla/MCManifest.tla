----------------------------- MODULE MCManifest -----------------------------
(***************************************************************************)
(* Two recordings of one directory, each by a process of its own, as the   *)
(* command is used.                                                        *)
(***************************************************************************)
EXTENDS HLSRecorder

TwoProcesses == [r \in Recorders |-> r]
=============================================================================
