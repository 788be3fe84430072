---------------------------- MODULE MCConsoleStep ----------------------------
(***************************************************************************)
(* A PPU frame of 29 dots: prime, so that every phase of the CPU against   *)
(* the PPU comes up, and short enough for a vblank to begin in any of the  *)
(* advances of an instruction.                                             *)
(***************************************************************************)
EXTENDS ConsoleStep
=============================================================================
