----------------------------- MODULE MCRFInput -----------------------------
(***************************************************************************)
(* A scaled cadence: five input frames for four output fields, so a frame  *)
(* is skipped every second RF frame, three audio samples per input frame   *)
(* and hence 15 samples for two RF frames (slices of 7 and 8).             *)
(***************************************************************************)
EXTENDS RFInput

\* A slice and its pictures take their time from the same clock.
ASSUME AudioNum * FieldDen = 2 * SamplesPerInput * FieldNum * AudioDen

(***************************************************************************)
(* When the emulator pauses, everything it delivered has been turned into  *)
(* RF frames: only what the next RF frame still lacks keeps one back.      *)
(***************************************************************************)
Drains == <>[](queue = <<>> /\ NeedsInput /\ frames = <<>> /\ pool = PoolSize)

=============================================================================
