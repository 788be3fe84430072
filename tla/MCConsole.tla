----------------------------- MODULE MCConsole -----------------------------
(***************************************************************************)
(* The console for TLC, in four views that share no variable: its step,    *)
(* instruction by instruction; its operations, call by call; a controller  *)
(* port; and the clock of the daemon's loop that runs its frames.  A       *)
(* behaviour exercises one of them, the others rest in their initial state.*)
(*                                                                         *)
(* The step has a PPU frame of 29 dots: prime, so that every phase of the  *)
(* CPU against the PPU comes up, and short enough for a vblank to begin in *)
(* any of the advances of an instruction.                                  *)
(***************************************************************************)
EXTENDS ConsoleStep, Console, Controllers, FrameClock

VARIABLE part

MCReplays == {<<[p1 |-> "A", p2 |-> "none"], [p1 |-> "none", p2 |-> "A"]>>}
MCRequests == {<<<<"A">>, <<"none", "A">>>>, <<<<"A">>, << >>>>}
MCStates == {<<0, 1, 0>>, <<1, 0, 1>>}

Views == {"step", "calls", "port", "clock"}

SystemInit == part \in Views /\ Init /\ ConsoleInit /\ PortInit /\ ClockInit

StepCPU ==
  part = "step" /\ Next /\ UNCHANGED <<part, consoleVars, portVars, clockVars>>

CallConsole ==
  part = "calls" /\ ConsoleNext /\ UNCHANGED <<part, vars, portVars, clockVars>>

UsePort ==
  part = "port" /\ PortNext /\ UNCHANGED <<part, vars, consoleVars, clockVars>>

RunClock ==
  part = "clock" /\ ClockNext /\ UNCHANGED <<part, vars, consoleVars, portVars>>

SystemNext == StepCPU \/ CallConsole \/ UsePort \/ RunClock

SystemSpec == SystemInit /\ [][SystemNext]_<<part, vars, consoleVars, portVars, clockVars>>
=============================================================================
