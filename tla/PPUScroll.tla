------------------------------ MODULE PPUScroll ------------------------------
(***************************************************************************)
(* The address registers of the PPU (internal/nes/ppu.go): tempAddr and    *)
(* vramAddr, which $2000, $2005 and $2006 load in pieces through one toggle*)
(* that reading $2002 resets, which $2007 counts up, and which the dots of *)
(* the frame walk through the background, two tiles ahead of the picture.  *)
(*                                                                         *)
(* An address is a record of the fields the code masks out of its bits.    *)
(***************************************************************************)
EXTENDS Integers

CONSTANTS
  TileDots,          \* 8 columns of a tile, and as many rows
  Cols,              \* 32 tiles across a nametable: the width of the picture
  Rows,              \* 30 rows of tiles in a nametable
  AllRows,           \* 32, what the field of the row can hold
  LowRows,           \* 8 rows are told apart by the low byte of an address
  Height,            \* FrameHeight
  PrefetchAt,        \* 321, the dot that starts fetching the next line's first two tiles
  LineDots,          \* 341
  ScrollLines,       \* 262; the last one is the pre-render line
  CopyFrom, CopyTo,  \* 280 and 304, the dots of the pre-render line that load the row
  XScrolls,          \* bound: horizontal scrolls a program writes, [coarse, fine]
  YScrolls,          \* bound: vertical scrolls a program writes, [coarse, fine]
  Tables,            \* bound: nametables a program selects, [x, y]
  Addresses,         \* bound: addresses a program sets, the fields of an address
  MaxWrites          \* bound: register accesses in a behaviour

Width == TileDots * Cols

\* The code masks and shifts the bits of an address: half the rows of a tile fit the high
\* byte, and the low byte tells LowRows rows apart.
ASSUME ScrollAssumption ==
  /\ {TileDots, Cols, Rows, LowRows, Height, MaxWrites} \subseteq Nat \ {0}
  /\ {AllRows, PrefetchAt, LineDots, ScrollLines, CopyFrom, CopyTo} \subseteq Nat \ {0}
  /\ TileDots % 2 = 0
  /\ Rows < AllRows /\ AllRows % LowRows = 0
  /\ Width + 1 < PrefetchAt /\ PrefetchAt + 2 * TileDots <= LineDots
  /\ Width + 1 < CopyFrom /\ CopyFrom <= CopyTo /\ CopyTo < LineDots
  /\ Height < ScrollLines

Address == [coarseX : 0 .. Cols - 1, coarseY : 0 .. AllRows - 1, fineY : 0 .. TileDots - 1,
            ntX : {0, 1}, ntY : {0, 1}]

ASSUME ScrollInputs ==
  /\ XScrolls \subseteq [coarse : 0 .. Cols - 1, fine : 0 .. TileDots - 1]
  /\ YScrolls \subseteq [coarse : 0 .. AllRows - 1, fine : 0 .. TileDots - 1]
  /\ Tables \subseteq [x : {0, 1}, y : {0, 1}]
  /\ Addresses \subseteq Address

VARIABLES
  tempAddr, vramAddr, fineX,
  addrLatch,  \* the toggle: the next write is the second of a pair
  down,       \* bit 2 of ctrl: $2007 counts in rows
  rendering,  \* bits 3 and 4 of mask
  scanline, cycle,
  writes,     \* bound: register accesses so far
  synced,     \* history: what a program that read $2002 has written to $2006 since
  pair,       \* history: the address it set that way, until something else moves it
  scroll      \* history: the scroll in force, in dots of the 2 x 2 nametables

scrollRegisters == <<tempAddr, vramAddr, fineX, addrLatch, down, rendering>>
scrollVars == <<scrollRegisters, scanline, cycle, writes, synced, pair, scroll>>

\* Rows and columns of the four nametables, in dots: the arithmetic the bits stand for.
WorldWidth == 2 * Width
WorldHeight == 2 * Rows * TileDots

ZeroAddress == [coarseX |-> 0, coarseY |-> 0, fineY |-> 0, ntX |-> 0, ntY |-> 0]
Unknown == [x |-> -1, y |-> -1]
None == [half |-> "none"]
Ready == [half |-> "first"]

ScrollInit ==
  /\ tempAddr = ZeroAddress /\ vramAddr = ZeroAddress /\ fineX = 0
  /\ addrLatch = FALSE /\ down = FALSE /\ rendering = FALSE
  /\ scanline = 0 /\ cycle = 0
  /\ writes = 0 /\ synced = None /\ pair = None /\ scroll = Unknown

-----------------------------------------------------------------------------
(* Registers.                                                              *)

Access == writes < MaxWrites /\ writes' = writes + 1 /\ UNCHANGED <<scanline, cycle>>

\* What is known of the scroll in force is lost where a program moves the address itself.
Scrambled == scroll' = Unknown

\* $2000
WriteControl(table, inRows) ==
  /\ Access
  /\ tempAddr' = [tempAddr EXCEPT !.ntX = table.x, !.ntY = table.y]
  /\ down' = inRows
  /\ synced' = None
  /\ UNCHANGED <<vramAddr, fineX, addrLatch, rendering, pair, scroll>>

\* $2001: a line drawn in part leaves the address in the middle of its walk.
WriteMask(show) ==
  /\ Access
  /\ rendering' = show
  /\ Scrambled
  /\ UNCHANGED <<tempAddr, vramAddr, fineX, addrLatch, down, synced, pair>>

\* $2002
ReadStatus ==
  /\ Access
  /\ addrLatch' = FALSE
  /\ synced' = Ready
  /\ UNCHANGED <<tempAddr, vramAddr, fineX, down, rendering, pair, scroll>>

\* $2005, horizontal and then vertical.  Fine x counts at once, the rest when it is copied.
WriteScrollX(s) ==
  /\ Access /\ ~addrLatch
  /\ fineX' = s.fine
  /\ tempAddr' = [tempAddr EXCEPT !.coarseX = s.coarse]
  /\ addrLatch' = TRUE
  /\ synced' = None
  /\ scroll' = IF scroll = Unknown THEN Unknown
               ELSE [scroll EXCEPT !.x = (@ - fineX + s.fine) % WorldWidth]
  /\ UNCHANGED <<vramAddr, down, rendering, pair>>

WriteScrollY(s) ==
  /\ Access /\ addrLatch
  /\ tempAddr' = [tempAddr EXCEPT !.coarseY = s.coarse, !.fineY = s.fine]
  /\ addrLatch' = FALSE
  /\ synced' = None
  /\ UNCHANGED <<vramAddr, fineX, down, rendering, pair, scroll>>

\* The six bits of an address's high byte that $2006 keeps.
HighOf(a) == [fineY |-> a.fineY % (TileDots \div 2), ntX |-> a.ntX, ntY |-> a.ntY,
              rows |-> a.coarseY \div LowRows]

\* $2006, first write: the high byte.
WriteAddressHigh(a) ==
  /\ Access /\ ~addrLatch
  /\ tempAddr' = [tempAddr EXCEPT !.fineY = HighOf(a).fineY, !.ntX = a.ntX, !.ntY = a.ntY,
                    !.coarseY = LowRows * HighOf(a).rows + (@ % LowRows)]
  /\ addrLatch' = TRUE
  /\ synced' = IF synced = Ready THEN [half |-> "second", high |-> HighOf(a)] ELSE None
  /\ UNCHANGED <<vramAddr, fineX, down, rendering, pair, scroll>>

\* $2006, second write: the low byte; the address is in force.
WriteAddressLow(a) ==
  /\ Access /\ addrLatch
  /\ tempAddr' = [tempAddr EXCEPT !.coarseX = a.coarseX,
                    !.coarseY = LowRows * (@ \div LowRows) + (a.coarseY % LowRows)]
  /\ vramAddr' = tempAddr'
  /\ addrLatch' = FALSE
  /\ pair' = IF synced.half /= "second" THEN None
             ELSE [half |-> "both", coarseX |-> a.coarseX, ntX |-> synced.high.ntX,
                   ntY |-> synced.high.ntY, fineY |-> synced.high.fineY,
                   coarseY |-> LowRows * synced.high.rows + (a.coarseY % LowRows)]
  /\ synced' = None
  /\ Scrambled
  /\ UNCHANGED <<fineX, down, rendering>>

\* The address as a number, and back: $2007 counts in it.
Packed(a) == a.coarseX + Cols * (a.coarseY + AllRows * (a.ntX + 2 * (a.ntY + 2 * a.fineY)))
Unpacked(n) ==
  LET table == (n \div Cols) \div AllRows
  IN [coarseX |-> n % Cols, coarseY |-> (n \div Cols) % AllRows, ntX |-> table % 2,
      ntY |-> (table \div 2) % 2, fineY |-> (table \div 4) % TileDots]

\* $2007, read or written.
AccessData ==
  /\ Access
  /\ vramAddr' = Unpacked(Packed(vramAddr) + IF down THEN Cols ELSE 1)
  /\ pair' = None /\ synced' = None
  /\ Scrambled
  /\ UNCHANGED <<tempAddr, fineX, addrLatch, down, rendering>>

-----------------------------------------------------------------------------
(* Dots.                                                                   *)

IncrementCoarseX(a) ==
  IF a.coarseX = Cols - 1 THEN [a EXCEPT !.coarseX = 0, !.ntX = 1 - @]
  ELSE [a EXCEPT !.coarseX = @ + 1]

\* Mutant: the last row wraps around inside its nametable.
IncrementYInPlace(a) ==
  CASE a.fineY < TileDots - 1 -> [a EXCEPT !.fineY = @ + 1]
    [] a.fineY = TileDots - 1 /\ a.coarseY \in {Rows - 1, AllRows - 1} ->
         [a EXCEPT !.fineY = 0, !.coarseY = 0]
    [] OTHER -> [a EXCEPT !.fineY = 0, !.coarseY = @ + 1]

\* A row beyond the nametable wraps around to its first row, without leaving it.
IncrementY(a) ==
  CASE a.fineY < TileDots - 1 -> [a EXCEPT !.fineY = @ + 1]
    [] a.fineY = TileDots - 1 /\ a.coarseY = Rows - 1 ->
         [a EXCEPT !.fineY = 0, !.coarseY = 0, !.ntY = 1 - @]
    [] a.fineY = TileDots - 1 /\ a.coarseY = AllRows - 1 -> [a EXCEPT !.fineY = 0, !.coarseY = 0]
    [] OTHER -> [a EXCEPT !.fineY = 0, !.coarseY = @ + 1]

CopyHorizontalBits(a) == [a EXCEPT !.coarseX = tempAddr.coarseX, !.ntX = tempAddr.ntX]

CopyVerticalBits(a) ==
  [a EXCEPT !.coarseY = tempAddr.coarseY, !.fineY = tempAddr.fineY, !.ntY = tempAddr.ntY]

PreRender == ScrollLines - 1
Fetching == rendering /\ (scanline < Height \/ scanline = PreRender)

\* What the dot does to the address, in the order of the code.
Walked(a, dot) ==
  LET tile == (dot \in 1 .. Width \/ dot \in PrefetchAt .. PrefetchAt + 2 * TileDots - 1)
                /\ dot % TileDots = 0
      a1 == IF tile THEN IncrementCoarseX(a) ELSE a
      a2 == IF dot = Width THEN IncrementY(a1) ELSE a1
      a3 == IF dot = Width + 1 THEN CopyHorizontalBits(a2) ELSE a2
  IN IF scanline = PreRender /\ dot \in CopyFrom .. CopyTo THEN CopyVerticalBits(a3) ELSE a3

TempX == TileDots * tempAddr.coarseX + fineX + Width * tempAddr.ntX
TempY == TileDots * tempAddr.coarseY + tempAddr.fineY + Rows * TileDots * tempAddr.ntY

\* The column is loaded after every line, the row in the pre-render line; from there the
\* scroll moves down one dot a line.  A row outside the nametable stands for no scroll.
ScrollAfter(dot) ==
  CASE dot = Width /\ scanline < Height /\ scroll.y >= 0 ->
         [scroll EXCEPT !.y = (@ + 1) % WorldHeight]
    [] dot = Width + 1 /\ scanline < Height /\ scroll.y >= 0 -> [scroll EXCEPT !.x = TempX]
    [] dot = Width + 1 /\ scanline = PreRender -> [x |-> TempX, y |-> -1]
    [] dot = CopyTo /\ scanline = PreRender /\ scroll.x >= 0 ->
         [scroll EXCEPT !.y = IF tempAddr.coarseY < Rows THEN TempY ELSE -1]
    [] OTHER -> scroll

\* step: one dot.  The line's last dot is the first one, dot 0, of the next.
Dot ==
  /\ cycle < LineDots - 1 \/ scanline < ScrollLines - 1
  /\ IF cycle + 1 = LineDots
     THEN cycle' = 0 /\ scanline' = scanline + 1
     ELSE cycle' = cycle + 1 /\ UNCHANGED scanline
  /\ vramAddr' = IF Fetching THEN Walked(vramAddr, cycle + 1) ELSE vramAddr
  /\ scroll' = IF Fetching THEN ScrollAfter(cycle + 1)
               ELSE IF scanline = PreRender THEN Unknown ELSE scroll
  /\ pair' = IF Fetching THEN None ELSE pair
  /\ UNCHANGED <<tempAddr, fineX, addrLatch, down, rendering, writes, synced>>

\* startNextFrame
StartNextFrame ==
  /\ cycle = LineDots - 1 /\ scanline = ScrollLines - 1
  /\ cycle' = 0 /\ scanline' = 0
  /\ UNCHANGED <<scrollRegisters, writes, synced, pair, scroll>>

ScrollNext ==
  \/ \E table \in Tables, inRows \in BOOLEAN : WriteControl(table, inRows)
  \/ \E show \in BOOLEAN : WriteMask(show)
  \/ ReadStatus
  \/ \E s \in XScrolls : WriteScrollX(s)
  \/ \E s \in YScrolls : WriteScrollY(s)
  \/ \E a \in Addresses : WriteAddressHigh(a)
  \/ \E a \in Addresses : WriteAddressLow(a)
  \/ AccessData
  \/ Dot
  \/ StartNextFrame

ScrollSpec == ScrollInit /\ [][ScrollNext]_scrollVars

-----------------------------------------------------------------------------
ScrollTypeOK ==
  /\ tempAddr \in Address /\ vramAddr \in Address /\ fineX \in 0 .. TileDots - 1
  /\ {addrLatch, down, rendering} \subseteq BOOLEAN
  /\ scanline \in 0 .. ScrollLines - 1 /\ cycle \in 0 .. LineDots - 1
  /\ writes \in 0 .. MaxWrites

\* rewindHorizontalTiles, by one tile.
Rewind(a) ==
  IF a.coarseX = 0 THEN [a EXCEPT !.coarseX = Cols - 1, !.ntX = 1 - @]
  ELSE [a EXCEPT !.coarseX = @ - 1]

\* decodeScroll of the address the picture is drawn from.
DecodeScroll(a) ==
  [x |-> TileDots * a.coarseX + fineX + Width * a.ntX,
   y |-> TileDots * a.coarseY + a.fineY + Rows * TileDots * a.ntY]

\* Column x of a visible line is drawn live at the scroll in force moved right by x, and
\* captureLineState takes that scroll at its first dot: the walk of the address through its
\* fields comes to the same as this arithmetic, across the nametables, whatever a program
\* writes to $2000 and $2005 in the meantime.
ScrollInForce ==
  (scroll.y >= 0 /\ rendering /\ scanline < Height /\ cycle < Width) =>
    LET from == DecodeScroll(Rewind(Rewind(vramAddr)))
    IN /\ (from.x + (cycle % TileDots)) % WorldWidth = (scroll.x + cycle) % WorldWidth
       /\ from.y % WorldHeight = scroll.y

\* A program that reads $2002 and then writes $2006 twice sets the address it meant, and
\* with the picture off it stays in force until $2007 counts it up: whatever was left of a
\* pair of writes that something else had begun.
PairInForce ==
  /\ synced.half = "first" => ~addrLatch
  /\ synced.half = "second" => addrLatch
  /\ pair /= None => \A field \in DOMAIN vramAddr : vramAddr[field] = pair[field]

\* Program and renderer share one address: the scroll in force is the one written, whichever
\* half of it was written when, and an address written as a pair arrives whole.
ScrollSound == ScrollTypeOK /\ ScrollInForce /\ PairInForce
=============================================================================
