------------------------------- MODULE ApuUnits -------------------------------
(***************************************************************************)
(* The units of a sound channel that the frame sequencer clocks, as pure   *)
(* functions of their state (src/src/apu.h and src/src/apu.cpp): Envelope, *)
(* Sweep, and the linear counter of the triangle.                          *)
(***************************************************************************)
EXTENDS Integers

CONSTANTS
  MaxDecay,     \* the level an envelope starts from (15)
  LowSize,      \* values of a timer's low byte (256)
  HighSize,     \* values of its high bits (8)
  TimerMin      \* a pulse below this timer value is silent (8)

ASSUME UnitsAssumption ==
  /\ MaxDecay \in Nat /\ TimerMin \in Nat /\ TimerMin >= 2
  /\ LowSize \in Nat \ {0} /\ HighSize \in Nat \ {0}

\* The largest timer value (0x7FF).
TimerMax == LowSize * HighSize - 1

-----------------------------------------------------------------------------
(* Envelope                                                                *)

NewEnvelope == [start |-> FALSE, volume |-> 0, divider |-> 0, decay |-> 0]

\* A slip: the level wraps in every envelope.
EnvelopeTickLooped(e, loop) ==
  IF e.start THEN [e EXCEPT !.start = FALSE, !.decay = MaxDecay, !.divider = e.volume]
  ELSE IF e.divider > 0 THEN [e EXCEPT !.divider = e.divider - 1]
  ELSE [e EXCEPT !.divider = e.volume,
                 !.decay = IF e.decay > 0 THEN e.decay - 1 ELSE MaxDecay]

\* tick()
EnvelopeTick(e, loop) ==
  IF e.start THEN [e EXCEPT !.start = FALSE, !.decay = MaxDecay, !.divider = e.volume]
  ELSE IF e.divider > 0 THEN [e EXCEPT !.divider = e.divider - 1]
  ELSE [e EXCEPT !.divider = e.volume,
                 !.decay = IF e.decay > 0 THEN e.decay - 1
                           ELSE IF loop THEN MaxDecay ELSE 0]

-----------------------------------------------------------------------------
(* Sweep                                                                   *)

NewSweep == [enabled |-> FALSE, negate |-> FALSE, reload |-> FALSE, period |-> 0,
             shift |-> 0, divider |-> 0]

\* target(): the first pulse subtracts one more than the second.
SweepTarget(s, timer, second) ==
  LET change == timer \div 2^s.shift
  IN  IF ~s.negate THEN timer + change
      ELSE IF second THEN timer - change
      ELSE timer - change - 1

\* A slip: the target is not looked at.
SweepMutesLow(s, timer, second) == timer < TimerMin

\* muting()
SweepMutes(s, timer, second) == timer < TimerMin \/ SweepTarget(s, timer, second) > TimerMax

SweepMovesTimer(s, timer, second) ==
  ~s.reload /\ s.divider = 0 /\ s.enabled /\ s.shift > 0 /\ ~SweepMutes(s, timer, second)

\* tick_sweep(): the new sweep ...
SweepTick(s) ==
  [s EXCEPT !.reload = FALSE,
            !.divider = IF s.reload \/ s.divider = 0 THEN s.period ELSE s.divider - 1]

\* ... and the new timer value.
SweptTimer(s, timer, second) ==
  IF SweepMovesTimer(s, timer, second) THEN SweepTarget(s, timer, second) ELSE timer

-----------------------------------------------------------------------------
(* Linear counter                                                          *)

NewLinear == [value |-> 0, counter |-> 0, reload |-> FALSE]

\* tick_linear()
LinearTick(l, control) ==
  [l EXCEPT !.counter = IF l.reload THEN l.value
                        ELSE IF l.counter > 0 THEN l.counter - 1 ELSE 0,
            !.reload = l.reload /\ control]
=============================================================================
