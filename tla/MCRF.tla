-------------------------------- MODULE MCRF --------------------------------
(***************************************************************************)
(* The two halves of an RF generation, which meet in the channel of IQ     *)
(* frames alone: a behaviour exercises one of them.  The input side has    *)
(* the scaled cadence of MCRFInput.  The sender has frames of 7 samples in *)
(* packets of 3, a context every 5 samples and a version every 11, and     *)
(* sequence numbers modulo 4: as in the program the frame is no multiple   *)
(* of the packet and neither interval is one, and four frames let the      *)
(* counters wrap.                                                          *)
(***************************************************************************)
EXTENDS MCRFInput, RFSender

VARIABLE part

RFInit == part \in {"input", "sender"} /\ Init /\ SenderInit

OnInput(A) == part = "input" /\ A /\ UNCHANGED <<part, senderVars>>
OnSender(A) == part = "sender" /\ A /\ UNCHANGED <<part, vars>>

StepInput == OnInput(Next)
StepSender == OnSender(SenderNext)

rfVars == <<part, vars, senderVars>>

\* The fairness of the two specifications.
RFSpec ==
  /\ RFInit /\ [][StepInput \/ StepSender]_rfVars
  /\ WF_rfVars(OnInput(DropOldest \/ SendAfterDrop))
  /\ WF_rfVars(OnInput(Synthesizer)) /\ WF_rfVars(OnInput(Sender))
  /\ WF_rfVars(OnSender(Work))
=============================================================================
