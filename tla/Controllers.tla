----------------------------- MODULE Controllers -----------------------------
(***************************************************************************)
(* A controller port (internal/nes/memory.go): the strobe and the register *)
(* a program shifts the buttons out of, the buttons a client or a replay   *)
(* sets, and the reads of the memory API, which hold the console's lock for*)
(* reading only and shift the register all the same.                       *)
(*                                                                         *)
(* The ports differ in nothing but their number; one is modelled.          *)
(***************************************************************************)
EXTENDS Integers, Sequences

CONSTANTS
  Width,     \* 8 buttons, A first
  States,    \* bound: the states of the controller, sequences of Width bits
  Handlers,  \* requests that read the port at the same time
  MaxReads   \* bound: reads by the program after the last button, and peeks, since a latch

ASSUME ControllersAssumption ==
  /\ Width \in Nat \ {0} /\ MaxReads \in Nat
  /\ States \subseteq [1 .. Width -> {0, 1}] /\ States /= {}

VARIABLES
  buttons,  \* controllerP1
  strobe,   \* controllerStrobe
  shift,    \* controllerShift, its lowest bit first
  framing,  \* StepFrame holds the lock
  peek,     \* handler -> "idle", or the register as it read it
  latched,  \* history: the buttons at the last latch
  taken,    \* history: reads of the program that shifted the register since
  peeked    \* history: reads of the API that did

portVars == <<buttons, strobe, shift, framing, peek, latched, taken, peeked>>

None == << >>

PortInit ==
  /\ buttons = [i \in 1 .. Width |-> 0]
  /\ strobe = FALSE /\ shift = [i \in 1 .. Width |-> 0]
  /\ framing = FALSE /\ peek = [h \in Handlers |-> None]
  \* Nothing was latched yet: the register starts as if all buttons were up.
  /\ latched = buttons /\ taken = 0 /\ peeked = 0

\* The lock is free for a writer.
Free == ~framing /\ \A h \in Handlers : peek[h] = None

\* latchControllers
Latch(b) ==
  /\ shift' = b /\ latched' = b /\ taken' = 0 /\ peeked' = 0

-----------------------------------------------------------------------------
\* A request sets the buttons; what is latched stays.
SetControllerState(b) ==
  /\ Free
  /\ buttons' = b
  /\ UNCHANGED <<strobe, shift, framing, peek, latched, taken, peeked>>

\* StepFrame begins; a replay sets the buttons and latches them at once.
FrameBegins ==
  /\ Free
  /\ framing' = TRUE
  /\ \/ \E b \in States : buttons' = b /\ Latch(b)
     \/ UNCHANGED <<buttons, shift, latched, taken, peeked>>
  /\ UNCHANGED <<strobe, peek>>

FrameEndsHere ==
  /\ framing /\ framing' = FALSE
  /\ UNCHANGED <<buttons, strobe, shift, peek, latched, taken, peeked>>

\* $4016 written, by the program or by a poke.
WriteControllerStrobe(on) ==
  /\ framing \/ Free
  /\ strobe' = on
  /\ Latch(buttons)
  /\ UNCHANGED <<buttons, framing, peek>>

\* Mutant: a zero follows the buttons.
ShiftedZero(r) == [i \in 1 .. Width |-> IF i < Width THEN r[i + 1] ELSE 0]

\* A one follows the buttons.
Shifted(r) == [i \in 1 .. Width |-> IF i < Width THEN r[i + 1] ELSE 1]

\* readControllerPort, by the program: with the strobe on it reads A and shifts nothing.
ReadControllerPort ==
  /\ framing /\ ~strobe /\ taken < Width + MaxReads
  /\ shift' = Shifted(shift)
  /\ taken' = taken + 1
  /\ UNCHANGED <<buttons, strobe, framing, peek, latched, peeked>>

\* readControllerPort, by Peek: reads of the register and writes of it by several handlers
\* race.
PeekLoads(h) ==
  /\ ~framing /\ ~strobe /\ peek[h] = None /\ peeked < MaxReads
  /\ peek' = [peek EXCEPT ![h] = shift]
  /\ peeked' = peeked + 1
  /\ UNCHANGED <<buttons, strobe, shift, framing, latched, taken>>

PeekStores(h) ==
  /\ peek[h] /= None
  /\ shift' = Shifted(peek[h])
  /\ peek' = [peek EXCEPT ![h] = None]
  /\ UNCHANGED <<buttons, strobe, framing, latched, taken, peeked>>

PortNext ==
  \/ \E b \in States : SetControllerState(b)
  \/ FrameBegins
  \/ FrameEndsHere
  \/ \E on \in BOOLEAN : WriteControllerStrobe(on)
  \/ ReadControllerPort
  \/ \E h \in Handlers : PeekLoads(h)
  \/ \E h \in Handlers : PeekStores(h)

PortSpec == PortInit /\ [][PortNext]_portVars

-----------------------------------------------------------------------------
PortTypeOK ==
  /\ buttons \in [1 .. Width -> {0, 1}] /\ shift \in [1 .. Width -> {0, 1}]
  /\ {strobe, framing} \subseteq BOOLEAN
  /\ \A h \in Handlers : peek[h] = None \/ peek[h] \in [1 .. Width -> {0, 1}]
  /\ taken \in 0 .. Width + MaxReads /\ peeked \in 0 .. MaxReads

\* The buttons after the first k, followed by ones.
AfterRead(b, k) == [i \in 1 .. Width |-> IF i + k <= Width THEN b[i + k] ELSE 1]

\* The program reads the buttons as they were latched, A first and each of them once, and
\* ones after them, whatever a client sets meanwhile.  Each read of the memory API takes
\* at most one button away from it, none is invented or read twice: reads that race take
\* fewer.
ReadsFollowLatch ==
  PortTypeOK /\ \E k \in 0 .. peeked : shift = AfterRead(latched, taken + k)
=============================================================================
