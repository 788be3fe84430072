----------------------------- MODULE MCDevices -----------------------------
(***************************************************************************)
(* The devices on the console's bus, for TLC.  The cartridge, the parts of *)
(* the APU and the two halves of the PPU's background share no variable:   *)
(* what one tells another (a fetch, a clock, a write) comes as an input at *)
(* any time.  A behaviour therefore exercises one of them, and the others  *)
(* rest in their initial state.                                            *)
(***************************************************************************)
EXTENDS Cartridge, APUDMC, APUFrame, APUChannel, PPULineStates, PPUScroll

VARIABLE part

Parts == {"board", "dmc", "sequencer", "channel", "lines", "scroll"}

\* PRG in 8 KiB banks, CHR in 1 KiB banks; no register reaches the end of a ROM by a power
\* of two.
Board(mapper, prgBanks, chrBanks) ==
  [mapper |-> mapper, prg |-> prgBanks, chr |-> chrBanks, mirroring |-> "vertical"]

MCBoards ==
  {Board(0, 2, 8), Board(1, 12, 24), Board(2, 6, 8), Board(3, 4, 24), Board(4, 6, 24),
   Board(5, 6, 24), Board(25, 6, 24), Board(33, 6, 40), Board(66, 12, 24), Board(75, 10, 24),
   Board(87, 4, 16), Board(88, 6, 72), Board(206, 6, 24)}

\* Bank numbers below, at and beyond the ends of the ROMs, with and without the bits
\* that boards mask, and with the mode bits of MMC3 set.
MCBytes == {3, 70, 199}

\* Bank registers and interrupt counters share no step: they are explored one at a time.
BanksOrCounters ==
  bankWrites = 0 \/ (line = 0 /\ irq.latch = 0 /\ ~irq.reload /\ ~irq.enable /\ ~irq.ack)

\* Scaled devices: steps of the sequencer with the parity of the program's, two tiles of
\* two dots and three columns, two rows of the four the address can hold.
MCStep == <<3, 5, 6, 9>>
MCXScrolls == {[coarse |-> 0, fine |-> 1], [coarse |-> 2, fine |-> 0]}
MCYScrolls == {[coarse |-> 1, fine |-> 1], [coarse |-> 3, fine |-> 0]}
MCTables == {[x |-> 0, y |-> 0], [x |-> 1, y |-> 1]}
MCAddresses == {[coarseX |-> 2, coarseY |-> 2, fineY |-> 0, ntX |-> 1, ntY |-> 0]}

\* A board and a channel that rest are one and the same.
DevicesInit ==
  /\ part \in Parts
  /\ Init /\ (part = "board" \/ board = CHOOSE b \in Boards : TRUE)
  /\ DMCInit
  /\ SequencerInit
  /\ ChannelInit /\ (part = "channel" \/ (kind = "noise" /\ ~sweeping))
  /\ LinesInit
  /\ ScrollInit

StepBoard ==
  /\ part = "board" /\ Next
  /\ UNCHANGED <<part, dmcVars, sequencerVars, channelVars, linesVars, scrollVars>>

StepDMC ==
  /\ part = "dmc" /\ DMCNext
  /\ UNCHANGED <<part, vars, sequencerVars, channelVars, linesVars, scrollVars>>

StepSequencer ==
  /\ part = "sequencer" /\ SequencerNext
  /\ UNCHANGED <<part, vars, dmcVars, channelVars, linesVars, scrollVars>>

StepChannel ==
  /\ part = "channel" /\ ChannelNext
  /\ UNCHANGED <<part, vars, dmcVars, sequencerVars, linesVars, scrollVars>>

StepLines ==
  /\ part = "lines" /\ LinesNext
  /\ UNCHANGED <<part, vars, dmcVars, sequencerVars, channelVars, scrollVars>>

StepScroll ==
  /\ part = "scroll" /\ ScrollNext
  /\ UNCHANGED <<part, vars, dmcVars, sequencerVars, channelVars, linesVars>>

DevicesNext ==
  StepBoard \/ StepDMC \/ StepSequencer \/ StepChannel \/ StepLines \/ StepScroll

DevicesSpec ==
  DevicesInit
  /\ [][DevicesNext]_<<part, vars, dmcVars, sequencerVars, channelVars, linesVars, scrollVars>>
=============================================================================
