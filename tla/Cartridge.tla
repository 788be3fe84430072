----------------------------- MODULE Cartridge -----------------------------
(***************************************************************************)
(* The cartridge boards of internal/nes/cartridge.go: what a write of the  *)
(* CPU to a board does to its bank registers, which bank of the ROM each   *)
(* window of the CPU and of the PPU shows, the serial port of MMC1, and    *)
(* the interrupt counters that MMC3, MMC5 and VRC run by the scanline.     *)
(*                                                                         *)
(* A fetch is the number of the bank it lands in: 8 KiB banks for the four *)
(* windows of the CPU from $8000, 1 KiB banks for the eight slots of the   *)
(* PPU's pattern space.  What the bytes are, PRG-RAM and MMC5's multiplier,*)
(* extended RAM and fill mode are left out.  The scanline is the unit of   *)
(* the PPU's time: writes happen between the clocks of two lines.          *)
(***************************************************************************)
EXTENDS Integers, Sequences, FiniteSets

CONSTANTS
  Boards,         \* [mapper, prg, chr, mirroring]: boards, the sizes of their ROMs in
                  \* banks, and what the header says of the nametables
  Bytes,          \* bound: bytes written to bank registers
  CounterTop,     \* the last value of an interrupt counter: 255
  MaxBankWrites,  \* bound: writes that change a bank register
  VisibleLines,   \* scanlines that show a picture: 240
  Lines,          \* scanlines of a frame, the last before the picture included: 262
  Period          \* the dots of a scanline VRC's prescaler counts: 341

SupportedMappers == {0, 1, 2, 3, 4, 5, 23, 25, 33, 66, 75, 87, 88, 206}
Byte == 0 .. 255
Header == {"horizontal", "vertical", "four-screen"}

\* PRG comes in 16 KiB units, CHR in 8 KiB units; boards that switch 32 KiB at once
\* come with whole units of that (LoadINES does not ask).
ASSUME CartridgeAssumption ==
  /\ \A b \in Boards :
       /\ b.mapper \in SupportedMappers
       /\ b.prg \in Nat \ {0} /\ b.prg % (IF b.mapper \in {1, 66} THEN 4 ELSE 2) = 0
       /\ b.chr \in Nat \ {0} /\ b.chr % 8 = 0
       /\ b.mirroring \in Header
  /\ Bytes \subseteq Byte
  /\ CounterTop \in Nat
  /\ MaxBankWrites \in Nat
  /\ VisibleLines \in 1 .. CounterTop + 1 /\ Lines \in Nat /\ Lines > VisibleLines
  /\ Period \in Nat /\ Period > 3

VARIABLES
  board,       \* the cartridge
  select,      \* mmc1Control, mmc3BankSelect, vrcSwapMode
  modes,       \* MMC5: [prg, chr, upper]
  prg,         \* PRG bank registers: mapper2BankSel, mapper33PRG, mapper66PRGSel,
               \* mapper75PRG, mmc1PRGBank, mmc3Regs[6..7], vrcPRG0..1, mmc5PRGBank
  chr,         \* CHR bank registers: mapper3CHRSel, mapper33CHR, mapper66CHRSel,
               \* mapper75CHR, mapper87CHRSel, mmc1CHRBank0..1, mmc3Regs[0..5],
               \* mmc5CHRBank; vrcCHRLow, with vrcCHRHigh from 8
  shift,       \* mmc1Shift
  mirroring,
  irq,         \* [latch, counter, reload, enable, ack, prescaler, pending], of the
               \* board's counter; counter is mmc5Scanline with MMC5
  inFrame,     \* mmc5InFrame
  line,        \* the scanline the PPU is about to begin
  bits,        \* history: bits MMC1 has taken since it last had none
  loaded,      \* history: the latch the counter was last loaded from
  since,       \* history: clocks (MMC3) or dots (VRC) counted since; with MMC5 the
               \* lines a reset of the console kept out of this frame
  bankWrites   \* bound

bankVars == <<select, modes, prg, chr, mirroring, bankWrites>>
serialVars == <<shift, bits>>
irqVars == <<irq, inFrame, line, loaded, since>>
vars == <<board, bankVars, serialVars, irqVars>>

Mapper == board.mapper
MMC3Like == {4, 88, 206}
VRC == {23, 25}

Bit(v, i) == (v \div (2 ^ i)) % 2
Low(v, n) == v % (2 ^ n)
Even(v) == v - (v % 2)

-----------------------------------------------------------------------------
(* PRG windows: the 8 KiB bank that each of the four windows shows.        *)

NROMWindow(n, w) == w % (IF n = 2 THEN 2 ELSE 4)

UxROMWindow(n, w) ==
  CASE n = 2 -> w % 2
    [] n > 2 /\ w < 2 -> 2 * (prg[0] % (n \div 2)) + w
    [] n > 2 /\ w >= 2 -> n - 4 + w

MMC1Window(n, w) ==
  LET mode == (select \div 4) % 4
      bank == 2 * (prg[0] % (n \div 2))
  IN CASE mode < 2 -> 2 * (Even(prg[0]) % (n \div 2)) + w
       [] mode = 2 -> IF w < 2 THEN w ELSE bank + w - 2
       [] mode = 3 -> IF w < 2 THEN bank + w ELSE n - 4 + w

\* Two switched windows, the last two banks fixed; the mode exchanges the first
\* and the third window.
SwappedWindow(n, w, swap, first, second) ==
  CASE w = (IF swap THEN 2 ELSE 0) -> first % n
    [] w = 1 -> second % n
    [] w = (IF swap THEN 0 ELSE 2) -> n - 2
    [] w = 3 -> n - 1

GxROMWindow(n, w) == 4 * (prg[0] % (n \div 4)) + w
Mapper75Window(n, w) == IF w = 3 THEN n - 1 ELSE prg[w] % n

\* MMC5 shows ROM or RAM (64 KiB); a register selects in units of the window.
AtLeastOne(n) == IF n = 0 THEN 1 ELSE n
ROMBase(v, size, n) == ((Low(v, 7) \div size) % AtLeastOne(n \div size)) * size
RAMBase(v, size) == ((Low(v, 3) \div size) % (8 \div size)) * size
MMC5Register(w) ==
  CASE modes.prg = 0 -> [at |-> 4, size |-> 4, off |-> w]
    [] modes.prg = 1 -> [at |-> IF w < 2 THEN 2 ELSE 4, size |-> 2, off |-> w % 2]
    [] modes.prg = 2 -> IF w < 2 THEN [at |-> 2, size |-> 2, off |-> w]
                        ELSE [at |-> w + 1, size |-> 1, off |-> 0]
    [] modes.prg = 3 -> [at |-> w + 1, size |-> 1, off |-> 0]
MMC5Window(n, w) ==
  LET r == MMC5Register(w)
      v == prg[r.at]
  IN IF r.at = 4 \/ v >= 128
     THEN [rom |-> TRUE, bank |-> (ROMBase(v, r.size, n) + r.off) % n]
     ELSE [rom |-> FALSE, bank |-> (RAMBase(v, r.size) + r.off) % 8]

ROM(bank) == [rom |-> TRUE, bank |-> bank]
PRGWindow(w) ==
  LET n == board.prg IN
  CASE Mapper = 1 -> ROM(MMC1Window(n, w))
    [] Mapper = 2 -> ROM(UxROMWindow(n, w))
    [] Mapper = 4 -> ROM(SwappedWindow(n, w, Bit(select, 6) = 1, Low(prg[0], 6), Low(prg[1], 6)))
    [] Mapper = 5 -> MMC5Window(n, w)
    [] Mapper \in VRC -> ROM(SwappedWindow(n, w, select = 1, prg[0], prg[1]))
    [] Mapper = 33 -> ROM(SwappedWindow(n, w, FALSE, prg[0], prg[1]))
    [] Mapper = 66 -> ROM(GxROMWindow(n, w))
    [] Mapper = 75 -> ROM(Mapper75Window(n, w))
    [] Mapper \in {88, 206} -> ROM(SwappedWindow(n, w, FALSE, Low(prg[0], 6), Low(prg[1], 6)))
    [] OTHER -> ROM(NROMWindow(n, w))

-----------------------------------------------------------------------------
(* CHR slots: the 1 KiB bank that each of the eight slots shows.           *)

\* Two registers of 2 KiB, four of 1 KiB.
PairedSlot(t) ==
  CASE t < 2 -> Even(chr[0]) + t
    [] t \in 2 .. 3 -> Even(chr[1]) + t - 2
    [] t > 3 -> chr[t - 2]

\* Mutant: the halves are not exchanged in the second mode.
MMC3SlotFixed(s) == PairedSlot(s)

\* The mode exchanges the halves of the pattern space.
MMC3Slot(s) == PairedSlot(IF Bit(select, 7) = 1 THEN (s + 4) % 8 ELSE s)

MMC1Slot(c, s) ==
  IF Bit(select, 4) = 0 THEN 8 * (Even(chr[0]) % (c \div 8)) + s
  ELSE 4 * (chr[s \div 4] % (c \div 4)) + (s % 4)

\* mapper 88 has the upper half of the pattern space in the upper 64 KiB.
Mapper206Slot(s) ==
  LET v == CASE s < 2 -> Low(Even(chr[0]), 6) + s
             [] s \in 2 .. 3 -> Low(Even(chr[1]), 6) + s - 2
             [] s > 3 -> chr[s - 2]
  IN IF Mapper = 88 /\ s >= 4 /\ Bit(v, 6) = 0 THEN v + 64 ELSE v

\* A register serves 8, 4, 2 or 1 slots: the last of its group is the one used.
MMC5Slot(s) ==
  LET size == 2 ^ (3 - modes.chr)
  IN modes.upper * 256 + chr[(s \div size) * size + size - 1] + (s % size)

\* vrcCHRBank: a byte, so of the five high bits four count.
VRCSlot(s) == ((chr[s + 8] * 16) % 256) + Low(chr[s], 4)

CHRSlot(s) ==
  LET c == board.chr IN
  CASE Mapper = 1 -> MMC1Slot(c, s)
    [] Mapper = 4 -> MMC3Slot(s) % c
    [] Mapper = 5 -> MMC5Slot(s) % c
    [] Mapper \in VRC -> VRCSlot(s) % c
    [] Mapper = 33 -> PairedSlot(s) % c
    [] Mapper \in {3, 66, 87} -> 8 * (chr[0] % (c \div 8)) + s
    [] Mapper = 75 -> 4 * (chr[s \div 4] % (c \div 4)) + (s % 4)
    [] Mapper \in {88, 206} -> Mapper206Slot(s) % c
    [] OTHER -> s % c

(***************************************************************************)
(* The renderer does not fetch through the cartridge: captureLineState     *)
(* copies the registers when a scanline begins, and readCHRWithState of    *)
(* ppu.go resolves a slot from the copy with tables of its own.            *)
(***************************************************************************)
CaptureState ==
  [select |-> select, modes |-> modes, chr |-> chr,
   vrc |-> [s \in 0 .. 7 |-> VRCSlot(s)]]

MMC3StateTable(st) ==
  LET a == Even(st.chr[0])
      b == Even(st.chr[1])
  IN IF Bit(st.select, 7) = 0
     THEN <<a, a + 1, b, b + 1, st.chr[2], st.chr[3], st.chr[4], st.chr[5]>>
     ELSE <<st.chr[2], st.chr[3], st.chr[4], st.chr[5], a, a + 1, b, b + 1>>

Mapper33StateTable(st) ==
  LET a == Even(st.chr[0])
      b == Even(st.chr[1])
  IN <<a, a + 1, b, b + 1, st.chr[2], st.chr[3], st.chr[4], st.chr[5]>>

Mapper206StateTable(st) ==
  LET a == Low(Even(st.chr[0]), 6)
      b == Low(Even(st.chr[1]), 6)
      up(v) == IF Mapper = 88 /\ Bit(v, 6) = 0 THEN v + 64 ELSE v
  IN <<a, a + 1, b, b + 1, up(st.chr[2]), up(st.chr[3]), up(st.chr[4]), up(st.chr[5])>>

MMC5State(st, s) ==
  LET high == st.modes.upper * 256 IN
  CASE st.modes.chr = 0 -> high + st.chr[7] + s
    [] st.modes.chr = 1 -> high + st.chr[(s \div 4) * 4 + 3] + (s % 4)
    [] st.modes.chr = 2 -> high + st.chr[(s \div 2) * 2 + 1] + (s % 2)
    [] st.modes.chr = 3 -> high + st.chr[s]

SlotOfState(st, s) ==
  LET c == board.chr IN
  CASE Mapper = 1 ->
         IF Bit(st.select, 4) = 0 THEN 8 * (Even(st.chr[0]) % (c \div 8)) + s
         ELSE IF s < 4 THEN 4 * (st.chr[0] % (c \div 4)) + s
         ELSE 4 * (st.chr[1] % (c \div 4)) + s - 4
    [] Mapper = 4 -> MMC3StateTable(st)[s + 1] % c
    [] Mapper = 5 -> MMC5State(st, s) % c
    [] Mapper \in VRC -> st.vrc[s] % c
    [] Mapper = 33 -> Mapper33StateTable(st)[s + 1] % c
    [] Mapper \in {3, 66, 87} -> 8 * (st.chr[0] % (c \div 8)) + s
    [] Mapper = 75 ->
         IF s < 4 THEN 4 * (st.chr[0] % (c \div 4)) + s
         ELSE 4 * (st.chr[1] % (c \div 4)) + s - 4
    [] Mapper \in {88, 206} -> Mapper206StateTable(st)[s + 1] % c
    [] OTHER -> s % c

-----------------------------------------------------------------------------
(* A new cartridge, and writes to bank registers.                          *)

Zero(n) == [i \in 0 .. n - 1 |-> 0]

\* LoadINES: MMC1 comes out of reset, mapper 75 and MMC5 show the end of the ROM.
Init ==
  /\ board \in Boards
  /\ select = IF Mapper = 1 THEN 12 ELSE 0
  /\ modes = [prg |-> IF Mapper = 5 THEN 3 ELSE 0, chr |-> 0, upper |-> 0]
  /\ prg = CASE Mapper = 5 -> [Zero(5) EXCEPT ![4] = (board.prg - 1) % 256]
             [] Mapper = 75 -> [Zero(5) EXCEPT ![1] = 1, ![2] = (board.prg - 2) % 256]
             [] Mapper \in VRC -> [Zero(5) EXCEPT ![1] = 1]
             [] OTHER -> Zero(5)
  /\ chr = Zero(16)
  /\ shift = 16 /\ bits = <<>>
  /\ mirroring = IF Mapper = 1 THEN "one-screen low" ELSE board.mirroring
  /\ irq = [latch |-> 0, counter |-> 0, reload |-> FALSE, enable |-> FALSE, ack |-> FALSE,
            prescaler |-> IF Mapper \in VRC THEN Period ELSE 0, pending |-> FALSE]
  /\ inFrame = FALSE /\ line = 0 /\ loaded = 0 /\ since = 0 /\ bankWrites = 0

\* A write that changes bank registers and nothing else.
BankWrite ==
  /\ bankWrites < MaxBankWrites
  /\ bankWrites' = bankWrites + 1
  /\ UNCHANGED <<board, serialVars, irqVars>>

SetPRG(i, v) == prg' = [prg EXCEPT ![i] = v] /\ UNCHANGED <<select, modes, chr, mirroring>>
SetCHR(i, v) == chr' = [chr EXCEPT ![i] = v] /\ UNCHANGED <<select, modes, prg, mirroring>>
SetSelect(v) == select' = v /\ UNCHANGED <<modes, prg, chr, mirroring>>
SetMirroring(m) == mirroring' = m /\ UNCHANGED <<select, modes, prg, chr>>
Arrangement(v) == IF v % 2 = 1 THEN "horizontal" ELSE "vertical"

\* Mappers 2, 3, 66 and 87 have one register; mapper 3 gets the bits that the ROM
\* byte under the write has too.
And(v, w) ==
  LET bit(i) == Bit(v, i) * Bit(w, i) * 2 ^ i
  IN bit(0) + bit(1) + bit(2) + bit(3) + bit(4) + bit(5) + bit(6) + bit(7)

WriteOneRegister ==
  /\ BankWrite
  /\ \E v \in Bytes :
       \/ Mapper = 2 /\ SetPRG(0, Low(v, 4))
       \/ Mapper = 3 /\ \E rom \in Bytes : SetCHR(0, And(v, rom))
       \/ /\ Mapper = 66
          /\ prg' = [prg EXCEPT ![0] = Low(v \div 16, 2)]
          /\ chr' = [chr EXCEPT ![0] = Low(v, 2)]
          /\ UNCHANGED <<select, modes, mirroring>>
       \/ Mapper = 87 /\ SetCHR(0, 2 * Bit(v, 0) + Bit(v, 1))

WriteMapper33 ==
  /\ Mapper = 33 /\ BankWrite
  /\ \E v \in Bytes :
       \/ /\ prg' = [prg EXCEPT ![0] = Low(v, 6)]
          /\ mirroring' = Arrangement(Bit(v, 6))
          /\ UNCHANGED <<select, modes, chr>>
       \/ SetPRG(1, Low(v, 6))
       \/ \E i \in 0 .. 1 : SetCHR(i, Even(v))
       \/ \E i \in 2 .. 5 : SetCHR(i, v)

WriteMapper75 ==
  /\ Mapper = 75 /\ BankWrite
  /\ \E v \in Bytes :
       \/ \E i \in 0 .. 2 : SetPRG(i, Low(v, 4))
       \/ /\ chr' = [chr EXCEPT ![0] = Low(@, 4) + 16 * Bit(v, 1),
                                ![1] = Low(@, 4) + 16 * Bit(v, 2)]
          /\ mirroring' = Arrangement(v)
          /\ UNCHANGED <<select, modes, prg>>
       \/ \E i \in 0 .. 1 : SetCHR(i, 16 * Bit(chr[i], 4) + Low(v, 4))

\* MMC3 and its relatives: a register is chosen, then written.  Mapper 206 has no
\* modes and no mirroring register.
SelectedRegister(v) ==
  LET i == Low(select, 3) IN IF i < 6 THEN SetCHR(i, v) ELSE SetPRG(i - 6, v)

WriteMMC3Banks ==
  /\ Mapper \in MMC3Like /\ BankWrite
  /\ \E v \in Bytes :
       \/ SetSelect(IF Mapper = 4 THEN v ELSE Low(v, 3))
       \/ SelectedRegister(v)
       \/ Mapper = 4 /\ SetMirroring(Arrangement(v))

VRCMirroring(v) ==
  CASE Low(v, 2) = 0 -> "vertical" [] Low(v, 2) = 1 -> "horizontal"
    [] Low(v, 2) = 2 -> "one-screen low" [] Low(v, 2) = 3 -> "one-screen high"

\* $9000 sets the mirroring and, from a bit of it, the mode.
WriteVRCBanks ==
  /\ Mapper \in VRC /\ BankWrite
  /\ \E v \in Bytes :
       \/ \E i \in 0 .. 1 : SetPRG(i, Low(v, 5))
       \/ /\ mirroring' = VRCMirroring(v)
          /\ select' = Bit(v, 1)
          /\ UNCHANGED <<modes, prg, chr>>
       \/ \E s \in 0 .. 7 : SetCHR(s, Low(v, 4))
       \/ \E s \in 0 .. 7 : SetCHR(s + 8, Low(v, 5))

SetModes(m) == modes' = m /\ UNCHANGED <<select, prg, chr, mirroring>>

WriteMMC5Banks ==
  /\ Mapper = 5 /\ BankWrite
  /\ \E v \in Bytes :
       \/ SetModes([modes EXCEPT !.prg = Low(v, 2)])
       \/ SetModes([modes EXCEPT !.chr = Low(v, 2)])
       \/ SetModes([modes EXCEPT !.upper = Low(v, 2)])
       \/ \E i \in 0 .. 4 : SetPRG(i, v)
       \/ \E i \in 0 .. 11 : SetCHR(i, v)
       \/ SetMirroring(VRCMirroring(v))

-----------------------------------------------------------------------------
(* The serial port of MMC1: five writes of one bit fill a register.        *)

MMC1Mirroring(control) ==
  CASE Low(control, 2) = 0 -> "one-screen low" [] Low(control, 2) = 1 -> "one-screen high"
    [] Low(control, 2) = 2 -> "vertical" [] Low(control, 2) = 3 -> "horizontal"

\* Mutant: the reset forgets the bits already taken.
MMC1ResetPort ==
  /\ Mapper = 1
  /\ bits' = <<>>
  /\ select' = 16 * Bit(select, 4) + 12 + Low(select, 2)
  /\ mirroring' = MMC1Mirroring(select')
  /\ UNCHANGED <<board, shift, modes, prg, chr, bankWrites, irqVars>>

\* A byte with the high bit set.
MMC1Reset ==
  /\ Mapper = 1
  /\ shift' = 16 /\ bits' = <<>>
  /\ select' = 16 * Bit(select, 4) + 12 + Low(select, 2)
  /\ mirroring' = MMC1Mirroring(select')
  /\ UNCHANGED <<board, modes, prg, chr, bankWrites, irqVars>>

\* The marker has not reached the lowest bit yet.
Shifted(b) == shift \div 2 + 16 * b

MMC1Bit(b) ==
  /\ Mapper = 1 /\ shift % 2 = 0
  /\ shift' = Shifted(b)
  /\ bits' = Append(bits, b)
  /\ UNCHANGED <<board, bankVars, irqVars>>

\* The fifth bit: the register is chosen by the address of this write alone.
MMC1Load(register, b) ==
  /\ Mapper = 1 /\ shift % 2 = 1
  /\ bankWrites < MaxBankWrites /\ bankWrites' = bankWrites + 1
  /\ LET v == Shifted(b) IN
     CASE register = 0 -> /\ select' = v /\ mirroring' = MMC1Mirroring(v)
                          /\ UNCHANGED <<prg, chr>>
       [] register \in {1, 2} -> /\ chr' = [chr EXCEPT ![register - 1] = v]
                                 /\ UNCHANGED <<select, prg, mirroring>>
       [] register = 3 -> /\ prg' = [prg EXCEPT ![0] = Low(v, 4)]
                          /\ UNCHANGED <<select, chr, mirroring>>
  /\ shift' = 16 /\ bits' = <<>>
  /\ UNCHANGED <<board, modes, irqVars>>

-----------------------------------------------------------------------------
(* Interrupt registers.                                                    *)

SetIRQ(new) == irq' = new /\ UNCHANGED <<board, bankVars, serialVars, inFrame, line>>
NotLoaded == UNCHANGED <<loaded, since>>

WriteLatch ==
  /\ Mapper \in VRC \union {4, 5}
  /\ \E v \in 0 .. CounterTop : SetIRQ([irq EXCEPT !.latch = v])
  /\ NotLoaded

MMC3AskReload ==
  Mapper = 4 /\ SetIRQ([irq EXCEPT !.reload = TRUE]) /\ NotLoaded

MMC3Disable ==
  Mapper = 4 /\ SetIRQ([irq EXCEPT !.enable = FALSE, !.pending = FALSE]) /\ NotLoaded

MMC3Enable ==
  Mapper = 4 /\ SetIRQ([irq EXCEPT !.enable = TRUE]) /\ NotLoaded

MMC5Enable ==
  /\ Mapper = 5
  /\ \E on \in BOOLEAN : SetIRQ([irq EXCEPT !.enable = on, !.pending = @ /\ on])
  /\ NotLoaded

\* Reading $5204 acknowledges, for Peek as for the CPU.
MMC5Status ==
  Mapper = 5 /\ SetIRQ([irq EXCEPT !.pending = FALSE]) /\ NotLoaded

\* $F001; the counter starts from the latch when it is enabled.
VRCControl ==
  /\ Mapper \in VRC
  /\ \E on, ack \in BOOLEAN :
       LET new == [irq EXCEPT !.enable = on, !.ack = ack, !.pending = FALSE] IN
       IF on THEN /\ SetIRQ([new EXCEPT !.counter = irq.latch, !.prescaler = Period])
                  /\ loaded' = irq.latch /\ since' = 0
             ELSE SetIRQ(new) /\ NotLoaded

\* $F002 and $F003; the prescaler starts over.
VRCAcknowledge ==
  /\ Mapper \in VRC
  /\ SetIRQ([irq EXCEPT !.enable = irq.ack, !.pending = FALSE, !.prescaler = Period])
  /\ loaded' = loaded /\ since' = since - (since % Period)

-----------------------------------------------------------------------------
(* The PPU's scanlines clock the counters.                                 *)

NextLine == (line + 1) % Lines
Visible == line < VisibleLines

\* Mutant: a counter that a load left at zero does not interrupt until it is clocked.
MMC3ClockLate ==
  LET reload == irq.counter = 0 \/ irq.reload
      counter == IF reload THEN irq.latch ELSE irq.counter - 1
  IN /\ irq' = [irq EXCEPT !.counter = counter, !.reload = FALSE,
                           !.pending = @ \/ (counter = 0 /\ ~reload /\ irq.enable)]
     /\ loaded' = IF reload THEN irq.latch ELSE loaded
     /\ since' = IF reload THEN 0 ELSE since + 1

MMC3Clock ==
  LET reload == irq.counter = 0 \/ irq.reload
      counter == IF reload THEN irq.latch ELSE irq.counter - 1
  IN /\ irq' = [irq EXCEPT !.counter = counter, !.reload = FALSE,
                           !.pending = @ \/ (counter = 0 /\ irq.enable)]
     /\ loaded' = IF reload THEN irq.latch ELSE loaded
     /\ since' = IF reload THEN 0 ELSE since + 1

\* Dot 260 of a line that fetches patterns, if they are fetched from $1000 up: it
\* depends on PPUCTRL and PPUMASK, which are the program's.
MMC3Line ==
  /\ Mapper = 4
  /\ \/ (Visible \/ line = Lines - 1) /\ MMC3Clock
     \/ UNCHANGED <<irq, loaded, since>>
  /\ line' = NextLine
  /\ UNCHANGED <<board, bankVars, serialVars, inFrame>>

\* Dot 1 of a visible line, and the end of the frame.
MMC5Line ==
  /\ Mapper = 5
  /\ irq' = IF Visible
            THEN [irq EXCEPT !.pending = @ \/ (irq.counter = irq.latch /\ irq.enable),
                             !.counter = (@ + 1) % (CounterTop + 1)]
            ELSE IF NextLine = 0 THEN [irq EXCEPT !.counter = 0] ELSE irq
  /\ inFrame' = (Visible \/ (inFrame /\ NextLine # 0))
  /\ line' = NextLine
  /\ since' = IF NextLine = 0 THEN 0 ELSE since
  /\ UNCHANGED <<board, bankVars, serialVars, loaded>>

\* Three dots are counted each time; the loop turns at most once (Period > 3).
VRCClock ==
  LET down == irq.prescaler - 3
      over == down <= 0
      wraps == over /\ irq.counter = CounterTop
  IN IF ~irq.enable THEN UNCHANGED <<irq, loaded, since>>
     ELSE /\ irq' = [irq EXCEPT !.prescaler = IF over THEN down + Period ELSE down,
                                !.counter = IF wraps THEN irq.latch ELSE IF over THEN @ + 1 ELSE @,
                                !.pending = @ \/ wraps]
          /\ loaded' = IF wraps THEN irq.latch ELSE loaded
          /\ since' = IF wraps THEN since + 3 - Period * (CounterTop + 1 - loaded) ELSE since + 3

VRCLine ==
  /\ Mapper \in VRC
  /\ IF Visible THEN VRCClock ELSE UNCHANGED <<irq, loaded, since>>
  /\ line' = NextLine
  /\ UNCHANGED <<board, bankVars, serialVars, inFrame>>

\* The other boards count nothing.
PlainLine ==
  /\ Mapper \notin VRC \union {4, 5}
  /\ line' = NextLine
  /\ UNCHANGED <<board, bankVars, serialVars, irq, inFrame, loaded, since>>

\* A reset of the console starts the picture over and leaves the cartridge as it is.
Reset ==
  /\ line' = 0
  /\ since' = IF Mapper = 5 THEN (since + (IF Visible THEN line ELSE VisibleLines)) % (CounterTop + 1)
                           ELSE since
  /\ UNCHANGED <<board, bankVars, serialVars, irq, inFrame, loaded>>

-----------------------------------------------------------------------------
Next ==
  \/ WriteOneRegister \/ WriteMapper33 \/ WriteMapper75
  \/ WriteMMC3Banks \/ WriteVRCBanks \/ WriteMMC5Banks
  \/ MMC1Reset
  \/ \E b \in 0 .. 1 : MMC1Bit(b) \/ (\E r \in 0 .. 3 : MMC1Load(r, b))
  \/ WriteLatch \/ MMC3AskReload \/ MMC3Disable \/ MMC3Enable
  \/ MMC5Enable \/ MMC5Status \/ VRCControl \/ VRCAcknowledge
  \/ MMC3Line \/ MMC5Line \/ VRCLine \/ PlainLine \/ Reset

Spec == Init /\ [][Next]_vars

-----------------------------------------------------------------------------
(* Properties.                                                             *)

\* Type invariant.
TypeOK ==
  /\ board \in Boards
  /\ select \in Byte /\ modes \in [prg : 0 .. 3, chr : 0 .. 3, upper : 0 .. 3]
  /\ prg \in [0 .. 4 -> Byte] /\ chr \in [0 .. 15 -> Byte]
  /\ shift \in 1 .. 31 /\ bits \in Seq(0 .. 1)
  /\ mirroring \in Header \union {"one-screen low", "one-screen high"}
  /\ irq \in [latch : 0 .. CounterTop, counter : 0 .. CounterTop, reload : BOOLEAN,
              enable : BOOLEAN, ack : BOOLEAN,
              prescaler : IF Mapper \in VRC THEN 1 .. Period ELSE {0}, pending : BOOLEAN]
  /\ inFrame \in BOOLEAN /\ line \in 0 .. Lines - 1
  /\ loaded \in 0 .. CounterTop /\ since \in Nat /\ bankWrites \in 0 .. MaxBankWrites

\* Whatever was written to the registers, in every mode, each window of the CPU
\* and each slot of the PPU shows a bank that exists, though bank numbers are
\* wider than ROMs are and the ROM need not be a power of two; and the renderer's
\* own tables find the same bank as the cartridge's.
FetchesSound ==
  /\ TypeOK
  /\ \A w \in 0 .. 3 :
       LET f == PRGWindow(w) IN f.bank \in 0 .. (IF f.rom THEN board.prg ELSE 8) - 1
  /\ LET captured == CaptureState
     IN \A s \in 0 .. 7 :
          LET slot == CHRSlot(s)
          IN slot \in 0 .. board.chr - 1 /\ slot = SlotOfState(captured, s)

\* Value of bits, the first one lowest.
Value(s) ==
  LET bit(i) == IF i <= Len(s) THEN s[i] * 2 ^ (i - 1) ELSE 0
  IN bit(1) + bit(2) + bit(3) + bit(4) + bit(5)

\* The shift register of MMC1 holds the bits since the port was last reset or filled
\* behind its marker, never more than four whatever is written in between, and what
\* the fifth write puts into a register are these four and its own.
SerialPort ==
  Mapper = 1 =>
    /\ Len(bits) <= 4
    /\ shift = 2 ^ (4 - Len(bits)) * (1 + 2 * Value(bits))
    /\ \A b \in 0 .. 1 : Len(bits) = 4 => Shifted(b) = Value(Append(bits, b))

\* The clock of the board's counter that raises the interrupt, and a step that clocks it.
Due ==
  CASE Mapper = 4 -> since' = loaded'
    [] Mapper = 5 -> Visible /\ (line + since) % (CounterTop + 1) = irq.latch
    [] OTHER -> since + 3 >= Period * (CounterTop + 1 - loaded)

Clocked == line' = NextLine /\ (irq' # irq \/ since' # since)

\* An interrupt is raised on its line and on no other: with MMC3 on the clock that
\* comes as many clocks after the one that loaded the counter as the latch said,
\* with VRC when the counter overflows that was loaded and has counted every
\* Period dots since, whatever was acknowledged in between, with MMC5 on the line
\* of the picture the latch names, a frame that a reset started over counting on;
\* and only while it is enabled.
IRQOnItsLine ==
  /\ [](irq.pending => irq.enable)
  /\ [][IF Clocked THEN irq'.pending <=> (irq.pending \/ (irq.enable /\ Due))
                   ELSE irq'.pending => irq.pending]_vars
=============================================================================
