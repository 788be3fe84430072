----------------------------- MODULE FrameClock -----------------------------
(***************************************************************************)
(* The clock of the daemon's frame loop (internal/daemon/daemon.go): each  *)
(* frame has a deadline counted from the start of the clock, so that the   *)
(* rounding of a frame's share of a second does not add up; a loop that is *)
(* late catches up without waiting, and one that is far behind starts its  *)
(* clock over.                                                             *)
(***************************************************************************)
EXTENDS Integers

CONSTANTS
  Second,      \* units of time in a second: 10^9
  TargetFPS,   \* 60
  MaxCatchUp,  \* 12 frames
  MaxTime      \* bound

ASSUME ClockAssumption ==
  /\ {Second, TargetFPS, MaxTime} \subseteq Nat \ {0} /\ MaxCatchUp \in Nat
  /\ TargetFPS <= Second

VARIABLES
  now,
  clockStart, frameNumber,
  stage,  \* "wait" for the timer, "work" on a frame, or "stopped"
  wake,   \* when the timer fires
  burst   \* history: frames begun at this very moment

clockVars == <<now, clockStart, frameNumber, stage, wake, burst>>

\* Mutant: whole frame periods are added up.
FrameDeadlineRounded(start, n) == start + n * (Second \div TargetFPS)

FrameDeadline(start, n) == start + (n * Second) \div TargetFPS

\* frameWait, and the timer set with it.
Timer(deadline) == IF deadline < now THEN now ELSE deadline

ClockInit ==
  /\ now = 0 /\ clockStart = 0 /\ frameNumber = 1
  /\ stage = "wait" /\ wake = FrameDeadline(0, 1) /\ burst = 0

\* Time passes, over the deadline too: the loop may be scheduled late, a frame take long.
Tick ==
  /\ now < MaxTime
  /\ now' = now + 1 /\ burst' = 0
  /\ UNCHANGED <<clockStart, frameNumber, stage, wake>>

\* The timer fires, the frame is made and written.
BeginFrame ==
  /\ stage = "wait" /\ now >= wake
  /\ stage' = "work" /\ burst' = burst + 1
  /\ UNCHANGED <<now, clockStart, frameNumber, wake>>

FarBehind(deadline) == now - deadline > (MaxCatchUp * Second) \div TargetFPS

EndFrame ==
  /\ stage = "work" /\ stage' = "wait"
  /\ LET deadline == FrameDeadline(clockStart, frameNumber + 1)
     IN \/ /\ FarBehind(deadline)
           /\ clockStart' = now /\ frameNumber' = 1
           /\ wake' = Timer(FrameDeadline(now, 1))
        \/ /\ ~FarBehind(deadline)
           /\ frameNumber' = frameNumber + 1
           /\ wake' = Timer(deadline)
           /\ UNCHANGED clockStart
  /\ UNCHANGED <<now, burst>>

\* The context is cancelled: the loop returns.
Stop ==
  /\ stage = "wait" /\ stage' = "stopped"
  /\ UNCHANGED <<now, clockStart, frameNumber, wake, burst>>

Stopped == stage = "stopped" /\ UNCHANGED clockVars

ClockNext == Tick \/ BeginFrame \/ EndFrame \/ Stop \/ Stopped

ClockSpec == ClockInit /\ [][ClockNext]_clockVars

-----------------------------------------------------------------------------
ClockTypeOK ==
  /\ {now, wake} \subseteq 0 .. MaxTime + Second
  /\ clockStart \in 0 .. now /\ frameNumber \in Nat \ {0}
  /\ stage \in {"wait", "work", "stopped"} /\ burst \in Nat

\* No frame is made before its share of the time has passed, and one that is in time waits
\* for less than a unit short of it, however many frames the clock has counted: picture
\* and sound keep the rate of TargetFPS without drift.
OnTheBeat ==
  LET exact == frameNumber * Second
  IN /\ (wake - clockStart) * TargetFPS > exact - TargetFPS
     /\ (stage = "wait" /\ wake > now) => (wake - clockStart) * TargetFPS <= exact
     /\ stage = "work" => (now - clockStart) * TargetFPS > exact - TargetFPS

\* After a stall of any length no more frames are made at once than the loop may catch up,
\* the one that was late and the one just due.
BurstBounded == burst <= MaxCatchUp + 2

\* The loop keeps to its beat, drifting in no number of frames, and a stall does not end in
\* a burst longer than it may catch up.
ClockSound == ClockTypeOK /\ OnTheBeat /\ BurstBounded
=============================================================================
