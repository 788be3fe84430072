------------------------------- MODULE MCHLS -------------------------------
(***************************************************************************)
(* What the daemon writes as an HLS stream and what the recorder makes of  *)
(* one: two programs, a behaviour exercises one of them.  The streamer has *)
(* channels of one frame and of one buffer and gets three frames, so both  *)
(* channels overflow while the writers are at any point of their work; two *)
(* recordings run in one process, which may crash once.                    *)
(***************************************************************************)
EXTENDS HLSStreamer, HLSRecorder

CONSTANTS r1, r2, p1
VARIABLE part

OneProcess == [r \in {r1, r2} |-> p1]

HLSInit == part \in {"streamer", "recorder"} /\ Init /\ RecorderInit

Streaming(A) == part = "streamer" /\ A /\ UNCHANGED <<part, recorderVars>>
Recording(A) == part = "recorder" /\ A /\ UNCHANGED <<part, vars>>

StepStreamer == Streaming(Next)
StepRecorder == Recording(RecorderNext)

allVars == <<part, vars, recorderVars>>

\* The fairness of the two specifications.
HLSSpec ==
  /\ HLSInit /\ [][StepStreamer \/ StepRecorder]_allVars
  /\ WF_allVars(Streaming(StopSteps)) /\ WF_allVars(Streaming(PumpSteps))
  /\ \A m \in Media : WF_allVars(Streaming(WriterSteps(m)))
  /\ \A r \in Recorders : WF_allVars(Recording(Goroutine(r)))
=============================================================================
