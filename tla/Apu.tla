--------------------------------- MODULE Apu ---------------------------------
(***************************************************************************)
(* The APU (src/src/apu.cpp): the frame sequencer with its IRQ; what it    *)
(* clocks in the channels, the length counters, envelopes, sweeps and the  *)
(* linear counter (ApuUnits); the DMC with its fetches, its output unit    *)
(* and its IRQ; and the accounting by which step() (src/src/cpu.cpp)       *)
(* drives it: once per instruction, before it executes, with the cycles    *)
(* that have gone by since the previous call plus the instruction's base   *)
(* cost (O-25).                                                            *)
(*                                                                         *)
(* Left out is what tick() makes of it sample by sample: the timers'       *)
(* countdowns, the duty and triangle positions, the noise register, the    *)
(* DMC level and the mixer.                                                *)
(***************************************************************************)
EXTENDS ApuUnits

CONSTANTS
  Pulses,       \* the pulse channels, with an envelope and a sweep (2)
  Pulse2,       \* those of them whose sweep negates exactly (the second)
  Triangles,    \* the channels with a linear counter (1)
  Noises,       \* the noise channels, with an envelope (1)
  Programs,     \* what a program may do, records: the register groups it writes, out of
                \* {"length", "volume", "sweep", "mode", "dmc"}; the channels it uses; the
                \* base costs of its instructions; and the cycles that the next call may
                \* count besides: page and branch extras, OAM DMA, the rest of a KIL,
                \* interrupt entries
  Volumes,      \* values of the volume bits and of the linear counter the program writes
  SweepPeriods, \* values of the sweep's period it writes
  Shifts,       \* values of the sweep's shift it writes (three bits)
  TimerLows,    \* values of a timer's low byte it writes
  TimerHighs,   \* values of a timer's high bits it writes
  Lengths,      \* values the length table holds
  Units,        \* time units per CPU cycle (48)
  StepUnits,    \* units of a frame sequencer step (14915 * 24, 7457.5 cycles)
  Modes,        \* values of the two mode bits of $4017 the program writes
  DmcBits,      \* values the program gives the DMC's enable, loop and IRQ bits
  SampleSizes,  \* sample lengths in bytes ($4013 * 16 + 1)
  Periods,      \* output periods in CPU cycles the program chooses ($4010)
  PowerPeriod,  \* the period after power-on (428)
  Bits,         \* bits of a sample byte (8)
  StallCost     \* CPU cycles a fetch steals (4)

\* The channels with a length counter, and those of them with an envelope.
Channels == Pulses \cup Triangles \cup Noises
Enveloped == Pulses \cup Noises

ASSUME ApuAssumption ==
  /\ Pulses \cap Triangles = {} /\ Pulse2 \subseteq Pulses
  /\ Noises \cap (Pulses \cup Triangles) = {}
  /\ \A p \in Programs :
       /\ p.writes \subseteq {"length", "volume", "sweep", "mode", "dmc"}
       /\ p.channels \subseteq Channels
       /\ p.bases \subseteq Nat \ {0} /\ p.extras \subseteq Nat
       /\ \A b \in p.bases, e \in p.extras : Units * (b + e + StallCost) <= StepUnits
  /\ Volumes \subseteq Nat /\ SweepPeriods \subseteq Nat /\ Shifts \subseteq 0..7
  /\ TimerLows \subseteq 0..(LowSize - 1) /\ TimerHighs \subseteq 0..(HighSize - 1)
  /\ Units \in Nat \ {0} /\ StepUnits \in Nat \ {0}
  /\ Lengths \subseteq Nat \ {0} /\ SampleSizes \subseteq Nat \ {0} /\ 1 \in SampleSizes
  /\ Periods \subseteq Nat \ {0} /\ PowerPeriod \in Periods
  /\ Bits \in Nat \ {0} /\ StallCost \in Nat
  /\ DmcBits \subseteq BOOLEAN
  /\ Modes \subseteq SUBSET {"inhibit", "five"}

VARIABLES
  program,    \* what the program running may touch
  apu,        \* the state of apu_2a03, a record with the fields listed in PowerOn
  lag,        \* cpu.cycle - apu_cycle: cycles the APU has not been told of
  sinceHalf   \* history: units since the last half-frame clock was due

vars == <<program, apu, lag, sinceHalf>>

\* The state apu_2a03() constructs.
PowerOn ==
  [fhcnt      |-> StepUnits,  \* units left until the next sequencer step
   fcnt       |-> 0,          \* the next step
   mode       |-> {},         \* irq_mode: "inhibit" no frame IRQ, "five" steps
   frameIrq   |-> FALSE,      \* bit 6 of sirq
   dmcIrq     |-> FALSE,      \* bit 7 of sirq
   enabled    |-> {},         \* channels enabled by $4015
   halt       |-> {},         \* channels whose length counter is halted
   length     |-> [c \in Channels |-> 0],
   env        |-> [c \in Enveloped |-> NewEnvelope],
   sweep      |-> [c \in Pulses |-> NewSweep],
   timer      |-> [c \in Pulses |-> 0],
   linear     |-> [c \in Triangles |-> NewLinear],
   age        |-> [c \in Channels |-> -1],  \* history: quarter-frame clocks since the
                              \* envelope or the linear counter started, -1 when its
                              \* register was written since
   loop       |-> FALSE,      \* bit 6 of dmc_format
   irqOn      |-> FALSE,      \* bit 7 of dmc_format
   latch      |-> 1,          \* length of the sample $4013 selects
   size       |-> 0,          \* dmc_size: bytes left to fetch
   haveDma    |-> FALSE,      \* a fetched byte waits
   haveSample |-> FALSE,      \* the output unit plays a byte
   bits       |-> 0,          \* bits of it played
   acc        |-> 1,          \* cycles left until the next bit
   period     |-> PowerPeriod]

Least(m, n) == IF m < n THEN m ELSE n

Init == program \in Programs /\ apu = PowerOn /\ lag = 0 /\ sinceHalf = StepUnits

-----------------------------------------------------------------------------
(* advance()                                                               *)

\* The history after one more clock: it is cut where the unit's state repeats.
Aged(a, c) ==
  IF c \in Triangles
  THEN IF a.linear[c].reload THEN 0
       ELSE IF a.age[c] = -1 THEN -1
       ELSE IF c \in a.halt THEN a.age[c]
       ELSE Least(a.age[c] + 1, a.linear[c].value)
  ELSE LET period == a.env[c].volume + 1 IN
       IF a.env[c].start THEN 0
       ELSE IF a.age[c] = -1 THEN -1
       ELSE IF c \in a.halt THEN (a.age[c] + 1) % (period * (MaxDecay + 1))
       ELSE Least(a.age[c] + 1, period * MaxDecay)

\* clock_quarter_frame()
QuarterFrame(a) ==
  [a EXCEPT
     !.env = [c \in Enveloped |-> EnvelopeTick(a.env[c], c \in a.halt)],
     !.linear = [c \in Triangles |-> LinearTick(a.linear[c], c \in a.halt)],
     !.age = [c \in Channels |-> Aged(a, c)]]

\* clock_half_frame()
HalfFrame(a) ==
  [QuarterFrame(a) EXCEPT
     !.length = [c \in Channels |-> IF c \notin a.halt /\ a.length[c] > 0
                                    THEN a.length[c] - 1 ELSE a.length[c]],
     !.sweep = [c \in Pulses |-> SweepTick(a.sweep[c])],
     !.timer = [c \in Pulses |-> SweptTimer(a.sweep[c], a.timer[c], c \in Pulse2)]]

\* frame_clock(): every step clocks the envelopes, every other one the rest.
FrameClock(a) == IF a.fcnt % 2 = 0 THEN HalfFrame(a) ELSE QuarterFrame(a)

\* frame_update(): one step of the sequencer.
FrameUpdate(a) ==
  [FrameClock(a) EXCEPT
     !.frameIrq = a.frameIrq \/ (a.fcnt = 0 /\ a.mode = {}),
     !.fhcnt = IF a.fcnt = 3 /\ "five" \in a.mode THEN a.fhcnt + StepUnits ELSE a.fhcnt,
     !.fcnt = (a.fcnt + 1) % 4]

\* A slip: the time by which the call came late is dropped.
SequencerRestarted(a, cycles) ==
  LET b == [a EXCEPT !.fhcnt = a.fhcnt - Units * cycles]
  IN  IF b.fhcnt <= 0 THEN FrameUpdate([b EXCEPT !.fhcnt = StepUnits]) ELSE b

\* A slip: the next step is not scheduled.
SequencerNotReloaded(a, cycles) ==
  LET b == [a EXCEPT !.fhcnt = a.fhcnt - Units * cycles]
  IN  IF b.fhcnt <= 0 THEN FrameUpdate(b) ELSE b

\* At most one step per call; the next is due a step after this one was due.
Sequencer(a, cycles) ==
  LET b == [a EXCEPT !.fhcnt = a.fhcnt - Units * cycles]
      stepped == FrameUpdate(b)
  IN  IF b.fhcnt <= 0 THEN [stepped EXCEPT !.fhcnt = stepped.fhcnt + StepUnits] ELSE b

FetchDue(a) == a.size > 0 /\ ~a.haveDma

\* One byte is fetched if the buffer is empty; the last one restarts a looped sample
\* and otherwise raises the IRQ if it is enabled.
Fetch(a) ==
  IF ~FetchDue(a) THEN a
  ELSE [a EXCEPT
          !.haveDma = TRUE,
          !.size = IF a.size = 1 /\ a.loop THEN a.latch ELSE a.size - 1,
          !.dmcIrq = a.dmcIrq \/ (a.size = 1 /\ ~a.loop /\ a.irqOn)]

\* Bits played within a call, and how often that empties the output unit.
BitClocks(a, cycles) == IF cycles < a.acc THEN 0 ELSE (cycles - a.acc) \div a.period + 1
Reloads(a, cycles) == (a.bits + BitClocks(a, cycles)) \div Bits

\* The output unit: when a byte is played the waiting one follows, if there is one.
Output(a, cycles) ==
  LET k == BitClocks(a, cycles)
      n == Reloads(a, cycles)
  IN  [a EXCEPT
         !.acc = a.acc - cycles + k * a.period,
         !.bits = (a.bits + k) % Bits,
         !.haveSample = IF n = 0 THEN a.haveSample ELSE n = 1 /\ a.haveDma,
         !.haveDma = a.haveDma /\ n = 0]

\* A slip: the byte is fetched after the output unit has run.
AdvancedFetchLast(a, cycles) == Fetch(Output(Sequencer(a, cycles), cycles))

Advanced(a, cycles) == Output(Fetch(Sequencer(a, cycles)), cycles)

\* Time since the last half-frame clock was due, after this call.
HalfDue(a, cycles) == a.fhcnt - Units * cycles <= 0 /\ a.fcnt % 2 = 0
SinceHalf(a, cycles) ==
  IF HalfDue(a, cycles) THEN Units * cycles - a.fhcnt ELSE sinceHalf + Units * cycles

-----------------------------------------------------------------------------
(* write() and read_status()                                               *)

LoadLength(a, c, n) == IF c \in a.enabled THEN [a EXCEPT !.length[c] = n] ELSE a

\* $4003, $4007, $400B, $400F: the length is loaded and the note starts.
StartNote(a, c, n, high) ==
  LET b == LoadLength(a, c, n) IN
  IF c \in Triangles THEN [b EXCEPT !.linear[c].reload = TRUE]
  ELSE IF c \in Noises THEN [b EXCEPT !.env[c].start = TRUE]
  ELSE [b EXCEPT !.env[c].start = TRUE,
                 !.timer[c] = (a.timer[c] % LowSize) + high * LowSize]

\* $4000, $4004, $4008, $400C: the halt bit loops the envelope, too; on the triangle it
\* keeps the linear counter's reload flag.
SetControl(a, c, on, v) ==
  LET b == [a EXCEPT !.halt = IF on THEN a.halt \cup {c} ELSE a.halt \ {c}, !.age[c] = -1]
  IN  IF c \in Triangles THEN [b EXCEPT !.linear[c].value = v]
      ELSE [b EXCEPT !.env[c].volume = v]

\* $4001, $4005
SetSweep(a, c, on, negate, period, shift) ==
  [a EXCEPT !.sweep[c] = [enabled |-> on, negate |-> negate, reload |-> TRUE,
                          period |-> period, shift |-> shift,
                          divider |-> a.sweep[c].divider]]

\* $4002, $4006
SetTimerLow(a, c, low) ==
  [a EXCEPT !.timer[c] = (a.timer[c] \div LowSize) * LowSize + low]

\* $4015: a disabled channel falls silent at once; the DMC restarts only when it has
\* finished.
Enable(a, chans, dmc) ==
  [a EXCEPT
     !.enabled = chans,
     !.length = [c \in Channels |-> IF c \in chans THEN a.length[c] ELSE 0],
     !.size = IF ~dmc THEN 0 ELSE IF a.size = 0 THEN a.latch ELSE a.size,
     !.dmcIrq = FALSE]

\* $4010
SetDmc(a, loop, irqOn, period) ==
  [a EXCEPT !.loop = loop, !.irqOn = irqOn, !.period = period,
            !.dmcIrq = a.dmcIrq /\ irqOn]

\* $4013
SetSize(a, size) == [a EXCEPT !.latch = size]

\* A slip: the frame IRQ flag survives the change of mode.
SetModeKeepIrq(a, mode) ==
  LET b == [a EXCEPT !.fcnt = 0]
      clocked == IF "five" \in mode THEN FrameUpdate(b) ELSE b
  IN  [clocked EXCEPT !.fcnt = 1, !.fhcnt = StepUnits, !.mode = mode]

\* $4017: the sequence restarts; in five-step mode its first clock comes at once, with
\* the previous mode's IRQ rule.
SetMode(a, mode) ==
  LET b == [a EXCEPT !.fcnt = 0]
      clocked == IF "five" \in mode THEN FrameUpdate(b) ELSE b
  IN  [clocked EXCEPT !.fcnt = 1, !.fhcnt = StepUnits, !.frameIrq = FALSE, !.mode = mode]

\* read_status(): reading $4015 acknowledges the frame IRQ only.
ReadStatus(a) == [a EXCEPT !.frameIrq = FALSE]

-----------------------------------------------------------------------------
(* Instructions.                                                           *)

\* The APU is advanced, then the instruction makes its access, if any; what it costs
\* beyond its base and what a fetch steals are left for the next call.
Run(base, extra) ==
  /\ lag' = extra + (IF FetchDue(Sequencer(apu, lag + base)) THEN StallCost ELSE 0)
  /\ sinceHalf' = SinceHalf(apu, lag + base)
  /\ UNCHANGED program

Compute(base, extra) ==
  /\ Run(base, extra)
  /\ apu' = Advanced(apu, lag + base)

\* What one access other than to $4017 makes of the APU.
Accessed(a) ==
  LET groups == program.writes IN
  {ReadStatus(a)}
    \cup {Enable(a, chans, dmc) : chans \in SUBSET program.channels,
                                 dmc \in IF "dmc" \in groups THEN DmcBits ELSE {FALSE}}
    \cup (IF "length" \notin groups THEN {} ELSE
            {StartNote(a, c, n, h) : c \in program.channels, n \in Lengths, h \in TimerHighs}
            \cup {SetControl(a, c, on, v) : c \in program.channels, on \in BOOLEAN,
                                            v \in IF "volume" \in groups THEN Volumes ELSE {0}})
    \cup (IF "sweep" \notin groups THEN {} ELSE
            LET pulses == Pulses \cap program.channels IN
            {SetSweep(a, c, on, neg, p, sh) : c \in pulses, on \in BOOLEAN,
                neg \in BOOLEAN, p \in SweepPeriods, sh \in Shifts}
            \cup {SetTimerLow(a, c, low) : c \in pulses, low \in TimerLows})
    \cup (IF "dmc" \notin groups THEN {} ELSE
            {SetDmc(a, loop, irqOn, p) : loop \in DmcBits, irqOn \in DmcBits, p \in Periods}
            \cup {SetSize(a, n) : n \in SampleSizes})

Access(base, extra) ==
  /\ Run(base, extra)
  /\ apu' \in Accessed(Advanced(apu, lag + base))

\* $4017
ModeWrite(base, extra) ==
  /\ "mode" \in program.writes
  /\ lag' = extra + (IF FetchDue(Sequencer(apu, lag + base)) THEN StallCost ELSE 0)
  /\ \E mode \in Modes : apu' = SetMode(Advanced(apu, lag + base), mode)
  /\ sinceHalf' = 0
  /\ UNCHANGED program

\* reset() keeps what the channels' registers hold, the units' counters, the DMC period
\* and the cycles not yet counted.
Reset ==
  /\ apu' = [PowerOn EXCEPT !.period = apu.period, !.halt = apu.halt, !.env = apu.env,
                            !.sweep = apu.sweep, !.timer = apu.timer,
                            !.linear = apu.linear, !.age = apu.age]
  /\ sinceHalf' = StepUnits
  /\ UNCHANGED <<program, lag>>

\* power()
Power == apu' = PowerOn /\ lag' = 0 /\ sinceHalf' = StepUnits /\ UNCHANGED program

Instruction ==
  \E base \in program.bases, extra \in program.extras :
    Compute(base, extra) \/ Access(base, extra) \/ ModeWrite(base, extra)

Next == Instruction \/ Reset \/ Power

Spec == Init /\ [][Next]_vars

-----------------------------------------------------------------------------
(* Properties.                                                             *)

\* Types; however often a sweep shifts a pulse's timer up or down, in steps the muting
\* rule lets through, the value never leaves its eleven bits and never wraps below zero.
TypeOK ==
  /\ program \in Programs
  /\ apu.fhcnt \in Int /\ apu.fcnt \in 0..3 /\ apu.mode \subseteq {"inhibit", "five"}
  /\ apu.frameIrq \in BOOLEAN /\ apu.dmcIrq \in BOOLEAN
  /\ apu.enabled \subseteq Channels /\ apu.halt \subseteq Channels
  /\ apu.length \in [Channels -> Nat]
  /\ \A c \in Enveloped : apu.env[c].divider \in Nat /\ apu.env[c].decay \in 0..MaxDecay
  /\ \A c \in Pulses : apu.sweep[c].divider \in Nat /\ apu.timer[c] \in 0..TimerMax
  /\ \A c \in Triangles : apu.linear[c].counter \in Nat
  /\ apu.loop \in BOOLEAN /\ apu.irqOn \in BOOLEAN
  /\ apu.latch \in SampleSizes /\ apu.size \in Nat
  /\ apu.haveDma \in BOOLEAN /\ apu.haveSample \in BOOLEAN
  /\ apu.bits \in 0..(Bits - 1) /\ apu.acc \in Nat \ {0} /\ apu.period \in Periods
  /\ lag \in Nat

\* No sequencer step is ever overdue after a call: one step per call is enough, however
\* long the calls are, and also after the double step of the five-step mode.
NoStepOverdue == apu.fhcnt > 0

\* Half-frame clocks are due two steps apart, and three steps apart across the end of a
\* five-step sequence, however the time is cut into calls: nothing drifts (O-26).
HalfFramesOnTime ==
  [][\A base \in program.bases, extra \in program.extras :
       (HalfDue(apu, lag + base) /\ Compute(base, extra)) =>
          sinceHalf + apu.fhcnt
            = IF "five" \in apu.mode /\ apu.fcnt = 0 THEN 3 * StepUnits ELSE 2 * StepUnits]_vars

\* What $4015 reports is true of the unit, whatever the order of clocks, mode changes,
\* writes and acknowledgements: a pending frame IRQ means four-step mode with the IRQ
\* allowed, a pending DMC IRQ that it is enabled and the sample has ended, and a channel
\* switched off has no length left (O-26, O-29).
StatusMeansIt ==
  /\ apu.frameIrq => apu.mode = {}
  /\ apu.dmcIrq => apu.irqOn /\ apu.size = 0
  /\ \A c \in Channels : c \notin apu.enabled => apu.length[c] = 0

\* A note fades by one level every volume + 1 quarter frames from the clock that started
\* it, however its channel is switched on and off meanwhile; at the bottom it stays, or
\* begins again at the top if it loops.  A triangle sounds for as many quarter frames as
\* its linear counter was given, counted from the reload.
NotesFade ==
  /\ \A c \in Enveloped : apu.age[c] >= 0 =>
       LET levels == apu.age[c] \div (apu.env[c].volume + 1)
       IN  apu.env[c].decay = IF c \in apu.halt THEN MaxDecay - (levels % (MaxDecay + 1))
                              ELSE MaxDecay - Least(levels, MaxDecay)
  /\ \A c \in Triangles : apu.age[c] >= 0 =>
       apu.linear[c].counter = apu.linear[c].value - Least(apu.age[c], apu.linear[c].value)

\* The output unit does not run dry while bytes are left, unless one call covers more
\* than a whole byte's time: the fetch is always a call ahead (O-29).
NoUnderrun ==
  [][\A base \in program.bases, extra \in program.extras :
       (/\ lag + base <= Bits * apu.period
        /\ apu.haveSample /\ apu.size > 0
        /\ Compute(base, extra)) => apu'.haveSample]_vars
=============================================================================
