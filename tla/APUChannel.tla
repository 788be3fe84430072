----------------------------- MODULE APUChannel -----------------------------
(***************************************************************************)
(* A sound channel of the APU (internal/nes/apu.go): pulse 1, pulse 2, the *)
(* triangle or the noise, with its length counter, envelope or linear      *)
(* counter and sweep.  The four share no state, so one is enough; the      *)
(* quarter and half frames come from APUFrame and may come in any order.   *)
(* Duty, mixing and the timers' own phase are left out.                    *)
(***************************************************************************)
EXTENDS Integers

CONSTANTS
  Lengths,   \* lengthTable: 2 .. 254
  Periods,   \* bound: periods of envelope and sweep: 0 .. 15, 0 .. 7
  Reloads,   \* bound: reload values of the linear counter: 0 .. 127
  DecayTop,  \* 15
  LowSize,   \* 256, the values of a timer's low byte
  HighSize,  \* 8, the values of its high bits
  Lows,      \* bound: values written to the low byte
  Shifts,    \* bound: shifts of a sweep: 0 .. 7
  MinTimer,  \* 8: a pulse below sounds no longer
  MaxTicks   \* bound: quarter frames an envelope is followed

Kinds == {"pulse1", "pulse2", "triangle", "noise"}
Pulses == {"pulse1", "pulse2"}
TimerTop == LowSize * HighSize - 1

ASSUME ChannelAssumption ==
  /\ Lengths \subseteq Nat \ {0} /\ Periods \subseteq Nat /\ Reloads \subseteq Nat
  /\ DecayTop \in Nat \ {0} /\ LowSize \in Nat \ {0} /\ HighSize \in Nat \ {0}
  /\ LowSize * HighSize <= 32768  \* a sum of two timers fits into sixteen bits
  /\ Lows \subseteq 0 .. LowSize - 1 /\ Shifts \subseteq 0 .. 7 /\ MinTimer \in Nat \ {0}
  /\ MaxTicks \in Nat

VARIABLES
  kind,        \* which of the four
  sweeping,    \* bound: whether a behaviour exercises the sweep, or the other units,
               \* which share no state with it
  enabled, lengthHalt, lengthCount,
  env,         \* [period, loop, start, divider, decay]
  linear,      \* [control, reload, count, flag]: control, linearReload, linearCount,
               \* reloadFlag
  sweep,       \* [enabled, period, negate, shift, reload, divider]
  timer,
  noteLength,  \* history: what the length counter was last set to
  counted,     \* history: half frames that counted it down since
  settled      \* history: quarter frames since the envelope or the linear counter was
               \* started, -1 if its registers have been written since

lengthVars == <<enabled, lengthHalt, lengthCount, noteLength, counted>>
levelVars == <<env, linear, settled>>
sweepVars == <<sweep, timer>>
channelVars == <<kind, sweeping, lengthVars, levelVars, sweepVars>>

ChannelInit ==
  /\ kind \in Kinds /\ sweeping \in BOOLEAN /\ (sweeping => kind \in Pulses)
  /\ enabled = FALSE /\ lengthHalt = FALSE /\ lengthCount = 0
  /\ env = [period |-> 0, loop |-> FALSE, start |-> FALSE, divider |-> 0, decay |-> 0]
  /\ linear = [control |-> FALSE, reload |-> 0, count |-> 0, flag |-> FALSE]
  /\ sweep = [enabled |-> FALSE, period |-> 0, negate |-> FALSE, shift |-> 0,
              reload |-> FALSE, divider |-> 0]
  /\ timer = 0
  /\ noteLength = 0 /\ counted = 0 /\ settled = -1

-----------------------------------------------------------------------------
(* Registers.                                                              *)

\* $4000, $4004, $400C: one bit halts the length counter and makes the envelope loop;
\* $4008: one bit halts the length counter and holds the linear counter.
WriteVolume(halt, period) ==
  /\ lengthHalt' = halt
  /\ IF kind = "triangle"
     THEN env' = env /\ linear' = [linear EXCEPT !.control = halt, !.reload = period]
     ELSE env' = [env EXCEPT !.loop = halt, !.period = period] /\ linear' = linear
  /\ settled' = -1
  /\ UNCHANGED <<kind, sweeping, enabled, lengthCount, noteLength, counted, sweepVars>>

WriteSweep(on, period, negate, shift) ==
  /\ kind \in Pulses
  /\ sweep' = [sweep EXCEPT !.enabled = on, !.period = period, !.negate = negate,
                            !.shift = shift, !.reload = TRUE]
  /\ UNCHANGED <<kind, sweeping, lengthVars, levelVars, timer>>

\* $4002, $4006, $400A.
WriteTimerLow(low) ==
  /\ kind # "noise"
  /\ timer' = LowSize * (timer \div LowSize) + low
  /\ UNCHANGED <<kind, sweeping, lengthVars, levelVars, sweep>>

\* Mutant: a note is loaded into a channel that is switched off.
WriteLengthAlways(length, high) ==
  /\ lengthCount' = length /\ noteLength' = length /\ counted' = 0
  /\ timer' = IF kind = "noise" THEN timer ELSE LowSize * high + (timer % LowSize)
  /\ env' = IF kind = "triangle" THEN env ELSE [env EXCEPT !.start = TRUE]
  /\ linear' = IF kind = "triangle" THEN [linear EXCEPT !.flag = TRUE] ELSE linear
  /\ sweep' = IF kind \in Pulses THEN [sweep EXCEPT !.reload = TRUE] ELSE sweep
  /\ UNCHANGED <<kind, sweeping, enabled, lengthHalt, settled>>

\* $4003, $4007, $400B, $400F: the note's length and the timer's high bits; envelope,
\* linear counter and sweep start over at their next clock.
WriteLength(length, high) ==
  /\ IF enabled THEN lengthCount' = length /\ noteLength' = length /\ counted' = 0
                ELSE UNCHANGED <<lengthCount, noteLength, counted>>
  /\ timer' = IF kind = "noise" THEN timer ELSE LowSize * high + (timer % LowSize)
  /\ env' = IF kind = "triangle" THEN env ELSE [env EXCEPT !.start = TRUE]
  /\ linear' = IF kind = "triangle" THEN [linear EXCEPT !.flag = TRUE] ELSE linear
  /\ sweep' = IF kind \in Pulses THEN [sweep EXCEPT !.reload = TRUE] ELSE sweep
  /\ UNCHANGED <<kind, sweeping, enabled, lengthHalt, settled>>

\* $4015.
WriteEnable(on) ==
  /\ enabled' = on
  /\ IF on THEN UNCHANGED <<lengthCount, noteLength, counted, levelVars>>
     ELSE /\ lengthCount' = 0 /\ noteLength' = 0 /\ counted' = 0
          /\ IF kind = "triangle"
             THEN linear' = [linear EXCEPT !.count = 0] /\ settled' = -1 /\ env' = env
             ELSE UNCHANGED levelVars
  /\ UNCHANGED <<kind, sweeping, lengthHalt, sweepVars>>

-----------------------------------------------------------------------------
(* Clocks.                                                                 *)

ClockEnvelope(e) ==
  CASE e.start -> [e EXCEPT !.start = FALSE, !.decay = DecayTop, !.divider = e.period]
    [] ~e.start /\ e.divider > 0 -> [e EXCEPT !.divider = @ - 1]
    [] OTHER -> [e EXCEPT !.divider = e.period,
                          !.decay = IF @ > 0 THEN @ - 1 ELSE IF e.loop THEN DecayTop ELSE 0]

ClockTriangleLinear(l) ==
  [l EXCEPT !.count = IF l.flag THEN l.reload ELSE IF @ > 0 THEN @ - 1 ELSE 0,
            !.flag = @ /\ l.control]

\* The next quarter frame starts the envelope, or loads the linear counter.
Starting == IF kind = "triangle" THEN linear.flag ELSE env.start

TickQuarterFrame ==
  /\ settled < MaxTicks
  /\ IF kind = "triangle" THEN linear' = ClockTriangleLinear(linear) /\ env' = env
                          ELSE env' = ClockEnvelope(env) /\ linear' = linear
  /\ settled' = IF Starting THEN 0 ELSE IF settled = -1 THEN -1 ELSE settled + 1
  /\ UNCHANGED <<kind, sweeping, lengthVars, sweepVars>>

\* Where a sweep moves the timer; pulse 2 subtracts one more (onesComplement).
SweepTarget ==
  LET delta == timer \div (2 ^ sweep.shift)
  IN IF sweep.negate THEN timer - delta - (IF kind = "pulse2" THEN 1 ELSE 0) ELSE timer + delta

Swept ==
  IF /\ sweep.divider = 0 /\ sweep.enabled /\ sweep.shift > 0 /\ timer >= MinTimer
     /\ SweepTarget \in 0 .. TimerTop
  THEN SweepTarget ELSE timer

TickHalfFrame ==
  LET counts == ~lengthHalt /\ lengthCount > 0
  IN /\ lengthCount' = IF counts THEN lengthCount - 1 ELSE lengthCount
     /\ counted' = IF counts THEN counted + 1 ELSE counted
     /\ IF kind \in Pulses
        THEN /\ timer' = Swept
             /\ sweep' = IF sweep.reload \/ sweep.divider = 0
                         THEN [sweep EXCEPT !.divider = sweep.period, !.reload = FALSE]
                         ELSE [sweep EXCEPT !.divider = @ - 1]
        ELSE UNCHANGED sweepVars
     /\ UNCHANGED <<kind, sweeping, enabled, lengthHalt, noteLength, levelVars>>

ChannelNext ==
  \/ \E halt \in BOOLEAN, p \in (IF kind = "triangle" THEN Reloads ELSE Periods) :
       ~sweeping /\ WriteVolume(halt, p)
  \/ \E on, negate \in BOOLEAN, p \in Periods, s \in Shifts :
       sweeping /\ WriteSweep(on, p, negate, s)
  \/ \E low \in Lows : sweeping /\ WriteTimerLow(low)
  \/ \E length \in Lengths, high \in 0 .. HighSize - 1 :
       (sweeping \/ high = 0) /\ WriteLength(length, high)
  \/ \E on \in BOOLEAN : WriteEnable(on)
  \/ ~sweeping /\ TickQuarterFrame
  \/ TickHalfFrame

ChannelSpec == ChannelInit /\ [][ChannelNext]_channelVars

-----------------------------------------------------------------------------
(* Properties.                                                             *)

\* Type invariant; the timer never leaves its eleven bits.
ChannelTypeOK ==
  /\ kind \in Kinds /\ sweeping \in BOOLEAN
  /\ enabled \in BOOLEAN /\ lengthHalt \in BOOLEAN
  /\ lengthCount \in Nat /\ noteLength \in Nat /\ counted \in Nat
  /\ env \in [period : Periods \union {0}, loop : BOOLEAN, start : BOOLEAN,
              divider : Periods \union Nat, decay : 0 .. DecayTop]
  /\ linear \in [control : BOOLEAN, reload : Reloads \union {0}, count : Nat, flag : BOOLEAN]
  /\ sweep \in [enabled : BOOLEAN, period : Periods \union {0}, negate : BOOLEAN,
                shift : Shifts \union {0}, reload : BOOLEAN, divider : Nat]
  /\ timer \in 0 .. TimerTop
  /\ settled \in -1 .. MaxTicks

\* A note sounds for exactly the half frames its length stands for, those left out in
\* which the counter is halted, whatever is written to the other registers in between;
\* a channel that is switched off has no note, none that was playing and none that is
\* written before it is switched on again.
NotesLast ==
  /\ lengthCount + counted = noteLength
  /\ ~enabled => lengthCount = 0

\* An envelope that is left alone falls by one level in period + 1 quarter frames, from
\* the quarter frame that started it on, to silence or over and over; the linear
\* counter of the triangle runs out as many quarter frames after its last load as were
\* loaded.
Level(q) ==
  LET fallen == q \div (env.period + 1)
  IN IF env.loop THEN DecayTop - (fallen % (DecayTop + 1))
     ELSE IF fallen < DecayTop THEN DecayTop - fallen ELSE 0
LevelsKeepTime ==
  settled >= 0 =>
    IF kind = "triangle"
    THEN linear.count = IF settled < linear.reload THEN linear.reload - settled ELSE 0
    ELSE env.decay = Level(settled)

\* samplePulseLevel computes the target a second time, in sixteen bits.
SampledTarget ==
  LET delta == timer \div (2 ^ sweep.shift)
      down == timer - delta - (IF kind = "pulse2" THEN 1 ELSE 0)
  IN (IF sweep.negate THEN down ELSE timer + delta) % 65536
Muted == timer < MinTimer \/ (sweep.shift > 0 /\ SampledTarget > TimerTop)

\* The two places that compute a sweep's target agree: a pulse is muted exactly while
\* its sweep could not move it, and a sweep that moves it leaves its eleven bits never.
SweepAgrees ==
  kind \in Pulses /\ sweep.shift > 0 /\ timer >= MinTimer =>
    (Muted <=> SweepTarget \notin 0 .. TimerTop)

\* A channel's note, envelope and sweep are what the writes and clocks since its last note
\* make of them.
ChannelSound == ChannelTypeOK /\ NotesLast /\ LevelsKeepTime /\ SweepAgrees
=============================================================================
