---------------------------- MODULE PPULineStates ----------------------------
(***************************************************************************)
(* How register writes in mid-frame reach the picture                      *)
(* (internal/nes/ppu.go).  The picture is drawn twice: dot by dot, and once*)
(* more by renderFrame at the start of vblank, which overwrites the first. *)
(* What renderFrame knows of a line is what captureLineState took at its   *)
(* first dot and the segments recordCurrentLineState added at each write;  *)
(* every write also invalidates the lines still to come.                   *)
(*                                                                         *)
(* A state of the registers is the number of writes that led to it.        *)
(***************************************************************************)
EXTENDS Integers, Sequences, SequencesExt

CONSTANTS
  PictureWidth,   \* FrameWidth, a multiple of Tile
  PictureHeight,  \* FrameHeight
  DotsPerLine,    \* 341
  VBlankLine,     \* 241
  LinesPerFrame,  \* 262
  Tile,           \* 8
  Delays,         \* delayPixels of a write: 0 for $2001, 8 for $2000 and $2005, 16 for $2006
  Capacity,       \* maxScanlineStateSegments
  MaxLineWrites   \* bound: register writes in a frame

ASSUME LineStatesAssumption ==
  /\ {PictureWidth, PictureHeight, DotsPerLine, VBlankLine, LinesPerFrame} \subseteq Nat \ {0}
  /\ {Tile, Capacity, MaxLineWrites} \subseteq Nat \ {0}
  /\ PictureWidth < DotsPerLine /\ PictureHeight < VBlankLine /\ VBlankLine < LinesPerFrame
  /\ Delays \subseteq Nat

VARIABLES
  lineNumber, lineCycle,
  written,    \* the state of the registers: how many writes there were in this frame
  lineState,  \* line -> the segments [startX, state] of a valid line, << >> of another
  lastFrame,  \* line -> column -> state shown, from vblank on
  starts,     \* history: line -> the columns asked for by the writes while it was drawn
  begun,      \* history: line -> the state at its first dot
  lost        \* history: a write threw away a line that was captured already

linesVars == <<lineNumber, lineCycle, written, lineState, lastFrame, starts, begun, lost>>

PictureLines == 0 .. PictureHeight - 1
Columns == 0 .. PictureWidth - 1
NoPicture == [y \in PictureLines |-> [x \in Columns |-> 0]]

LinesInit ==
  /\ lineNumber = 0 /\ lineCycle = 0 /\ written = 0
  /\ lineState = [y \in PictureLines |-> << >>]
  /\ lastFrame = NoPicture
  /\ starts = [y \in PictureLines |-> << >>]
  /\ begun = [y \in PictureLines |-> 0]
  /\ lost = FALSE

Segment(x, st) == [startX |-> x, state |-> st]

-----------------------------------------------------------------------------
(* Writes.                                                                 *)

\* The first line that is invalid after a write.
FirstInvalid ==
  IF lineNumber >= PictureHeight THEN 0 ELSE IF lineCycle > 1 THEN lineNumber + 1 ELSE lineNumber

\* Mutant: the line being drawn is invalidated like those after it.
InvalidatedWithThis(states) ==
  [y \in PictureLines |->
     IF y >= lineNumber \/ lineNumber >= PictureHeight THEN << >> ELSE states[y]]

Invalidated(states) == [y \in PictureLines |-> IF y >= FirstInvalid THEN << >> ELSE states[y]]

\* The column from which a write shows: delayed writes wait for the next tile.
StartX(delay) ==
  LET x == lineCycle - 1 + delay
      rounded == IF delay > 0 THEN ((x + Tile - 1) \div Tile) * Tile ELSE x
  IN IF rounded > PictureWidth THEN PictureWidth ELSE rounded

\* recordCurrentLineState: at capacity the newest state takes the last segment's place.
WithSegment(segments, x, st) ==
  CASE segments = << >> -> <<Segment(0, st)>>
    [] segments /= << >> /\ Last(segments).startX = x ->
         [segments EXCEPT ![Len(segments)].state = st]
    [] segments /= << >> /\ Last(segments).startX /= x /\ Len(segments) < Capacity ->
         Append(segments, Segment(x, st))
    [] OTHER ->
         LET startX == IF x < Last(segments).startX THEN Last(segments).startX ELSE x
         IN Append(Front(segments), Segment(startX, st))

\* The frame has been drawn for good.
Drawn == lineNumber > VBlankLine \/ (lineNumber = VBlankLine /\ lineCycle > 0)

\* A write now throws away lines that the frame still needs.
ThrowsAway ==
  \/ lineNumber >= PictureHeight /\ ~Drawn
  \/ lineNumber < PictureHeight /\ lineCycle = 1

Drawing == lineNumber < PictureHeight /\ lineCycle \in 1 .. PictureWidth

\* $2000, $2001, $2005, and the second write to $2006.
WriteRegister(delay) ==
  /\ written < MaxLineWrites
  /\ written' = written + 1
  /\ lineState' = Invalidated(
       IF ~Drawing THEN lineState
       ELSE [lineState EXCEPT ![lineNumber] = WithSegment(@, StartX(delay), written + 1)])
  /\ starts' = IF ~Drawing THEN starts
               ELSE [starts EXCEPT ![lineNumber] = Append(@, StartX(delay))]
  /\ lost' = (lost \/ ThrowsAway)
  /\ UNCHANGED <<lineNumber, lineCycle, lastFrame, begun>>

\* The first write to $2006 moves nothing on the screen, and invalidates all the same.
WriteHighByte ==
  /\ lineState' = Invalidated(lineState)
  /\ lost' = (lost \/ ThrowsAway)
  /\ UNCHANGED <<lineNumber, lineCycle, written, lastFrame, starts, begun>>

-----------------------------------------------------------------------------
(* Dots.                                                                   *)

\* renderSegmentForPixel: the last segment before the first one that starts later.
ShownAt(segments, x) ==
  LET later == {i \in 2 .. Len(segments) : segments[i].startX > x}
      stop == CHOOSE i \in later : \A j \in later : i <= j
  IN IF later = {} THEN Last(segments).state ELSE segments[stop - 1].state

\* renderFrame captures a line that is not valid any more as the registers are now.
Captured(states) ==
  [y \in PictureLines |-> IF states[y] = << >> THEN <<Segment(0, written)>> ELSE states[y]]

RenderFrame(states) == [y \in PictureLines |-> [x \in Columns |-> ShownAt(states[y], x)]]

\* step: the dot after this one; startNextFrame after the last line.
Position ==
  CASE lineCycle + 1 < DotsPerLine -> <<lineNumber, lineCycle + 1>>
    [] lineCycle + 1 = DotsPerLine /\ lineNumber + 1 < LinesPerFrame -> <<lineNumber + 1, 0>>
    [] OTHER -> <<0, 0>>

\* The first dot of a line captures it; the first of vblank draws the frame.
StepDot ==
  LET at == Position IN
  /\ lineNumber' = at[1] /\ lineCycle' = at[2]
  /\ \/ /\ lineCycle = 0 /\ lineNumber < PictureHeight
        /\ lineState' = [lineState EXCEPT ![lineNumber] = <<Segment(0, written)>>]
        /\ begun' = [begun EXCEPT ![lineNumber] = written]
        /\ UNCHANGED lastFrame
     \/ /\ lineCycle = 0 /\ lineNumber = VBlankLine
        /\ lineState' = Captured(lineState)
        /\ lastFrame' = RenderFrame(lineState')
        /\ UNCHANGED begun
     \/ /\ lineCycle > 0 \/ lineNumber \notin PictureLines \cup {VBlankLine}
        /\ UNCHANGED <<lineState, begun, lastFrame>>
  /\ UNCHANGED <<written, starts, lost>>

\* The writes are counted anew at each frame; a valid line holds the state of its last write.
NextFrame ==
  /\ <<lineNumber, lineCycle>> = <<LinesPerFrame - 1, DotsPerLine - 1>>
  /\ lineNumber' = 0 /\ lineCycle' = 0 /\ written' = 0
  /\ lineState' = [y \in PictureLines |->
       IF lineState[y] = << >> THEN << >> ELSE <<Segment(0, 0)>>]
  /\ lastFrame' = NoPicture
  /\ starts' = [y \in PictureLines |-> << >>]
  /\ begun' = [y \in PictureLines |-> 0]
  /\ lost' = FALSE

StepPPULine == <<lineNumber, lineCycle>> /= <<LinesPerFrame - 1, DotsPerLine - 1>> /\ StepDot

LinesNext ==
  \/ \E delay \in Delays : WriteRegister(delay)
  \/ WriteHighByte
  \/ StepPPULine
  \/ NextFrame

LinesSpec == LinesInit /\ [][LinesNext]_linesVars

-----------------------------------------------------------------------------
LinesTypeOK ==
  /\ lineNumber \in 0 .. LinesPerFrame - 1 /\ lineCycle \in 0 .. DotsPerLine - 1
  /\ written \in 0 .. MaxLineWrites
  /\ \A y \in PictureLines :
       /\ Len(lineState[y]) <= Capacity
       /\ \A i \in DOMAIN lineState[y] :
            lineState[y][i] \in [startX : 0 .. PictureWidth, state : 0 .. MaxLineWrites]
  /\ lastFrame \in [PictureLines -> [Columns -> 0 .. MaxLineWrites]]
  /\ lost \in BOOLEAN

\* How many of a line's writes had begun to show at a column: those before the first that
\* is to start further right.
BegunBy(y, x) ==
  LET later == {i \in DOMAIN starts[y] : starts[y][i] > x}
  IN IF later = {} THEN Len(starts[y]) ELSE (CHOOSE i \in later : \A j \in later : i <= j) - 1

\* The frame that is drawn a second time shows at each pixel the state the line began
\* with and those writes made while it was drawn that were to show there.  A line with
\* more segments than there is room for shows this where all its writes show.  (A write
\* before the frame is drawn for good that invalidates a captured line is the exception:
\* see "Noted while modelling" in the README.)
PictureFollowsWrites ==
  LinesTypeOK /\
  (Drawn /\ ~lost =>
    \A y \in PictureLines : \A x \in Columns :
      Len(starts[y]) < Capacity \/ BegunBy(y, x) = Len(starts[y])
        => lastFrame[y][x] = begun[y] + BegunBy(y, x))

=============================================================================
