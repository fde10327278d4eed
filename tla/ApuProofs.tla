------------------------------ MODULE ApuProofs ------------------------------
(***************************************************************************)
(* Theorems about Apu for every number of channels, every program, every   *)
(* period and every way the time is cut into calls that its assumptions    *)
(* allow: the types, the timing of the sequencer, what $4015 reports, the  *)
(* fading of the notes, and the DMC that does not run dry.                 *)
(***************************************************************************)
EXTENDS Apu, TLAPS

-----------------------------------------------------------------------------
(* Quotients and remainders.                                               *)

\* A quotient of natural numbers, and what it leaves.
LEMMA DivMod ==
  ASSUME NEW x \in Nat, NEW p \in Nat \ {0}
  PROVE  /\ x \div p \in Nat /\ x % p \in 0..(p - 1)
         /\ x = p * (x \div p) + (x % p)
         /\ p * (x \div p) \in Nat
  OBVIOUS

\* Products grow with their factors.
LEMMA TimesGrows ==
  ASSUME NEW p \in Nat, NEW m \in Nat, NEW n \in Nat, m <= n
  PROVE  /\ p * m \in Nat /\ p * n \in Nat /\ p * m <= p * n
         /\ p * (m + 1) = p * m + p
  OBVIOUS

\* A number below a multiple of p has a quotient below the factor.
LEMMA DivBelow ==
  ASSUME NEW x \in Nat, NEW p \in Nat \ {0}, NEW n \in Nat, x < p * n
  PROVE  x \div p < n
<1> DEFINE q == x \div p
<1>1. q \in Nat /\ p * q <= x
  BY DivMod
<1> HIDE DEF q
<1>2. ~(n <= q)
  <2> SUFFICES ASSUME n <= q PROVE FALSE
    OBVIOUS
  <2>1. p * n <= p * q /\ p * n \in Nat /\ p * q \in Nat
    BY <1>1, TimesGrows
  <2> QED  BY <1>1, <2>1
<1>3. q < n
  BY <1>1, <1>2
<1> QED  BY <1>3 DEF q

\* Quotient and remainder are determined by the number.
LEMMA DivUnique ==
  ASSUME NEW p \in Nat \ {0}, NEW q \in Nat, NEW r \in 0..(p - 1)
  PROVE  /\ (p * q + r) \div p = q
         /\ (p * q + r) % p = r
<1> DEFINE x == p * q + r
           k == x \div p
           s == x % p
<1>1. p * q \in Nat /\ x \in Nat
  BY TimesGrows
<1>2. k \in Nat /\ s \in 0..(p - 1) /\ x = p * k + s /\ p * k \in Nat
  BY <1>1, DivMod
<1>3. x = p * q + r
  OBVIOUS
<1> HIDE DEF x, k, s
<1>4. ~(k < q)
  <2> SUFFICES ASSUME k < q PROVE FALSE
    OBVIOUS
  <2>1. p * (k + 1) <= p * q /\ p * (k + 1) = p * k + p
    BY <1>2, TimesGrows
  <2> QED  BY <1>1, <1>2, <1>3, <2>1
<1>5. ~(q < k)
  <2> SUFFICES ASSUME q < k PROVE FALSE
    OBVIOUS
  <2>1. p * (q + 1) <= p * k /\ p * (q + 1) = p * q + p
    BY <1>2, TimesGrows
  <2> QED  BY <1>1, <1>2, <1>3, <2>1
<1>6. k = q
  BY <1>2, <1>4, <1>5
<1>7. s = r
  BY <1>1, <1>2, <1>3, <1>6
<1> QED  BY <1>6, <1>7 DEF x, k, s

(* them all, because < has no infinite descent.                             *)

-----------------------------------------------------------------------------
(* Arithmetic.                                                             *)

\* The divisors of the sweep's three shift bits.
LEMMA ShiftHalves ==
  ASSUME NEW n \in 1..7
  PROVE  2^n \in Nat /\ 2^n >= 2
<1>1. CASE n = 1
  BY <1>1
<1>2. CASE n = 2
  BY <1>2
<1>3. CASE n = 3
  BY <1>3
<1>4. CASE n = 4
  BY <1>4
<1>5. CASE n = 5
  BY <1>5
<1>6. CASE n = 6
  BY <1>6
<1>7. CASE n = 7
  BY <1>7
<1> QED  BY <1>1, <1>2, <1>3, <1>4, <1>5, <1>6, <1>7

-----------------------------------------------------------------------------
(* The units. *)

EnvelopeState == [start : BOOLEAN, volume : Nat, divider : Nat, decay : 0..MaxDecay]
SweepState == [enabled : BOOLEAN, negate : BOOLEAN, reload : BOOLEAN, period : Nat,
               shift : 0..7, divider : Nat]
LinearState == [value : Nat, counter : Nat, reload : BOOLEAN]

LEMMA EnvelopeTickType ==
  ASSUME NEW e \in EnvelopeState, NEW looped
  PROVE  EnvelopeTick(e, looped) \in EnvelopeState
<1>1. /\ e.start \in BOOLEAN /\ e.volume \in Nat /\ e.divider \in Nat
      /\ e.decay \in 0..MaxDecay /\ MaxDecay \in Nat
  BY UnitsAssumption DEF EnvelopeState
<1>2. CASE e.start
  <2>1. \A d \in Nat, k \in 0..MaxDecay :
          [e EXCEPT !.start = FALSE, !.decay = k, !.divider = d] \in EnvelopeState
    BY DEF EnvelopeState
  <2>2. EnvelopeTick(e, looped)
          = [e EXCEPT !.start = FALSE, !.decay = MaxDecay, !.divider = e.volume]
    BY <1>2 DEF EnvelopeTick
  <2>3. MaxDecay \in 0..MaxDecay
    BY <1>1
  <2> QED  BY <1>1, <2>1, <2>2, <2>3
<1>3. CASE ~e.start /\ e.divider > 0
  BY <1>1, <1>3 DEF EnvelopeTick, EnvelopeState
<1>4. CASE ~e.start /\ ~(e.divider > 0)
  <2> DEFINE d == IF e.decay > 0 THEN e.decay - 1 ELSE IF looped THEN MaxDecay ELSE 0
  <2>1. d \in 0..MaxDecay
    BY <1>1
  <2>2. EnvelopeTick(e, looped) = [e EXCEPT !.divider = e.volume, !.decay = d]
    BY <1>4 DEF EnvelopeTick
  <2> HIDE DEF d
  <2> QED  BY <1>1, <2>1, <2>2 DEF EnvelopeState
<1> QED  BY <1>2, <1>3, <1>4

LEMMA SweepTickType ==
  ASSUME NEW s \in SweepState
  PROVE  SweepTick(s) \in SweepState
<1> DEFINE d == IF s.reload \/ s.divider = 0 THEN s.period ELSE s.divider - 1
<1>1. d \in Nat
  BY DEF SweepState
<1>2. SweepTick(s) = [s EXCEPT !.reload = FALSE, !.divider = d]
  BY DEF SweepTick
<1> HIDE DEF d
<1> QED  BY <1>1, <1>2 DEF SweepState

LEMMA LinearTickType ==
  ASSUME NEW l \in LinearState, NEW control
  PROVE  LinearTick(l, control) \in LinearState
<1> DEFINE n == IF l.reload THEN l.value ELSE IF l.counter > 0 THEN l.counter - 1 ELSE 0
           r == l.reload /\ control
<1>1. n \in Nat /\ r \in BOOLEAN
  BY DEF LinearState
<1>2. LinearTick(l, control) = [l EXCEPT !.counter = n, !.reload = r]
  BY DEF LinearTick
<1> HIDE DEF n, r
<1> QED  BY <1>1, <1>2 DEF LinearState

\* The muting rule, looked at before the sweep moves a timer, keeps it in its eleven
\* bits: upwards by its test, downwards because half of the timer or less is taken.
LEMMA SweptTimerType ==
  ASSUME NEW s \in SweepState, NEW t \in 0..TimerMax, NEW second
  PROVE  SweptTimer(s, t, second) \in 0..TimerMax
<1>1. TimerMax \in Int /\ TimerMin \in Nat /\ TimerMin >= 2
  BY UnitsAssumption DEF TimerMax
<1>2. CASE SweepMovesTimer(s, t, second)
  <2>1. /\ s.shift \in 1..7 /\ t >= TimerMin /\ s.negate \in BOOLEAN
        /\ ~(SweepTarget(s, t, second) > TimerMax)
    BY <1>1, <1>2 DEF SweepMovesTimer, SweepMutes, SweepState
  <2> DEFINE d == 2^s.shift
             change == t \div d
  <2>2. d \in Nat /\ d >= 2
    BY <2>1, ShiftHalves
  <2>3. t \in Nat /\ t >= 2 /\ t <= TimerMax
    BY <1>1, <2>1
  <2>4. SweepTarget(s, t, second) = IF ~s.negate THEN t + change
                                    ELSE IF second THEN t - change ELSE t - change - 1
    BY DEF SweepTarget
  <2>5. change \in Nat /\ d * change <= t /\ d * change \in Nat
    <3> HIDE DEF d
    <3>1. d \in Nat \ {0}
      BY <2>2
    <3>2. \A k, r \in Nat : t = k + r => k <= t
      BY <2>3
    <3>3. /\ t \div d \in Nat /\ t % d \in 0..(d - 1)
          /\ t = d * (t \div d) + (t % d)
          /\ d * (t \div d) \in Nat
      BY <2>3, <3>1, DivMod
    <3>4. t % d \in Nat
      BY <3>1, <3>3
    <3> QED  BY <3>2, <3>3, <3>4
  <2> HIDE DEF d, change
  <2>6. 2 * change <= d * change /\ d * change \in Nat
    BY <2>2, <2>5
  <2>7. change + 1 <= t
    BY <2>3, <2>5, <2>6
  <2> QED  BY <1>1, <1>2, <2>1, <2>3, <2>4, <2>5, <2>7 DEF SweptTimer
<1>3. CASE ~SweepMovesTimer(s, t, second)
  BY <1>3 DEF SweptTimer
<1> QED  BY <1>2, <1>3

\* A timer written byte by byte stays in its eleven bits.
LEMMA TimerBytes ==
  ASSUME NEW t \in 0..TimerMax, NEW low \in 0..(LowSize - 1), NEW high \in 0..(HighSize - 1)
  PROVE  /\ (t % LowSize) + high * LowSize \in 0..TimerMax
         /\ (t \div LowSize) * LowSize + low \in 0..TimerMax
<1>1. LowSize \in Nat \ {0} /\ HighSize \in Nat \ {0}
  BY UnitsAssumption
<1>2. \A h \in 0..(HighSize - 1), l \in 0..(LowSize - 1) : l + h * LowSize \in 0..TimerMax
  <2> SUFFICES ASSUME NEW h \in 0..(HighSize - 1), NEW l \in 0..(LowSize - 1)
               PROVE  l + h * LowSize \in 0..TimerMax
    OBVIOUS
  <2>1. /\ LowSize * (h + 1) = LowSize * h + LowSize
        /\ LowSize * (h + 1) <= LowSize * HighSize /\ LowSize * h \in Nat
        /\ LowSize * HighSize \in Nat
    BY <1>1, TimesGrows
  <2>2. h * LowSize = LowSize * h
    BY <1>1
  <2> QED  BY <1>1, <2>1, <2>2 DEF TimerMax
<1>3. t \in Nat /\ t < LowSize * HighSize
  BY <1>1 DEF TimerMax
<1>4. t % LowSize \in 0..(LowSize - 1) /\ t \div LowSize \in Nat
  BY <1>1, <1>3, DivMod
<1>5. t \div LowSize < HighSize
  BY <1>1, <1>3, DivBelow
<1> DEFINE q == t \div LowSize
           r == t % LowSize
<1> HIDE DEF q, r
<1>6. q \in 0..(HighSize - 1) /\ r \in 0..(LowSize - 1)
  BY <1>1, <1>4, <1>5 DEF q, r
<1>7. r + high * LowSize \in 0..TimerMax /\ low + q * LowSize \in 0..TimerMax
  BY <1>2, <1>6
<1>8. q * LowSize + low = low + q * LowSize
  BY <1>1, <1>6
<1> QED  BY <1>7, <1>8 DEF q, r

-----------------------------------------------------------------------------
(* The state of the APU, and what the steps of advance() make of it. *)

ApuState ==
  [fhcnt : Int, fcnt : 0..3, mode : SUBSET {"inhibit", "five"},
   frameIrq : BOOLEAN, dmcIrq : BOOLEAN,
   enabled : SUBSET Channels, halt : SUBSET Channels, length : [Channels -> Nat],
   env : [Enveloped -> EnvelopeState], sweep : [Pulses -> SweepState],
   timer : [Pulses -> 0..TimerMax], linear : [Triangles -> LinearState],
   age : [Channels -> Nat \cup {-1}],
   loop : BOOLEAN, irqOn : BOOLEAN, latch : SampleSizes, size : Nat,
   haveDma : BOOLEAN, haveSample : BOOLEAN, bits : 0..(Bits - 1),
   acc : Nat \ {0}, period : Periods]

\* The channels, in the form the proofs use.
LEMMA ChannelKinds ==
  /\ Enveloped \subseteq Channels /\ Triangles \subseteq Channels /\ Pulses \subseteq Enveloped
  /\ \A c \in Channels : c \in Triangles \/ c \in Enveloped
  /\ \A c \in Enveloped : c \notin Triangles
  /\ \A c \in Noises : c \notin Pulses /\ c \notin Triangles
  BY ApuAssumption DEF Channels, Enveloped

LEMMA AgedType ==
  ASSUME NEW a \in ApuState, NEW c \in Channels
  PROVE  Aged(a, c) \in Nat \cup {-1}
<1>1. a.age[c] \in Nat \cup {-1}
  BY DEF ApuState
<1>2. CASE c \in Triangles
  <2>1. a.linear[c].value \in Nat
    BY <1>2 DEF ApuState, LinearState
  <2> QED  BY <1>1, <1>2, <2>1 DEF Aged, Least
<1>3. CASE c \in Enveloped
  <2> DEFINE period == a.env[c].volume + 1
             whole == period * (MaxDecay + 1)
             fade == period * MaxDecay
  <2>1. period \in Nat \ {0}
    BY <1>3 DEF ApuState, EnvelopeState
  <2>2. whole \in Nat \ {0} /\ fade \in Nat
    <3> HIDE DEF period
    <3>1. MaxDecay \in Nat
      BY UnitsAssumption
    <3>2. fade \in Nat /\ whole = fade + period
      BY <2>1, <3>1, TimesGrows
    <3> HIDE DEF whole, fade
    <3> QED  BY <2>1, <3>2
  <2>3. c \notin Triangles
    BY <1>3, ChannelKinds
  <2>4. Aged(a, c) = IF a.env[c].start THEN 0
                     ELSE IF a.age[c] = -1 THEN -1
                     ELSE IF c \in a.halt THEN (a.age[c] + 1) % whole
                     ELSE Least(a.age[c] + 1, fade)
    BY <2>3 DEF Aged
  <2> HIDE DEF whole, fade
  <2>5. a.age[c] # -1 => (a.age[c] + 1) % whole \in Nat
    BY <1>1, <2>2
  <2> QED  BY <1>1, <2>2, <2>4, <2>5 DEF Least
<1> QED  BY <1>2, <1>3, ChannelKinds

\* The parts of the state that a step leaves alone, by who uses them.
SameFlow(a, b) == b.fhcnt = a.fhcnt /\ b.fcnt = a.fcnt /\ b.mode = a.mode /\ b.frameIrq = a.frameIrq
SameNotes(a, b) == b.env = a.env /\ b.linear = a.linear /\ b.halt = a.halt /\ b.age = a.age
SameSound(a, b) == b.enabled = a.enabled /\ b.length = a.length /\ b.sweep = a.sweep /\ b.timer = a.timer
SameDmc(a, b) ==
  /\ b.dmcIrq = a.dmcIrq /\ b.loop = a.loop /\ b.irqOn = a.irqOn
  /\ b.latch = a.latch /\ b.size = a.size
  /\ b.haveDma = a.haveDma /\ b.haveSample = a.haveSample
  /\ b.bits = a.bits /\ b.acc = a.acc /\ b.period = a.period

\* A quarter-frame clock touches the envelopes, the linear counters and the history.
LEMMA QuarterFrameFields ==
  ASSUME NEW a \in ApuState
  PROVE  LET b == QuarterFrame(a) IN
         /\ b \in ApuState
         /\ b.env = [c \in Enveloped |-> EnvelopeTick(a.env[c], c \in a.halt)]
         /\ b.linear = [c \in Triangles |-> LinearTick(a.linear[c], c \in a.halt)]
         /\ b.age = [c \in Channels |-> Aged(a, c)] /\ b.halt = a.halt
         /\ SameFlow(a, b) /\ SameSound(a, b) /\ SameDmc(a, b)
<1> DEFINE e == [c \in Enveloped |-> EnvelopeTick(a.env[c], c \in a.halt)]
           l == [c \in Triangles |-> LinearTick(a.linear[c], c \in a.halt)]
           g == [c \in Channels |-> Aged(a, c)]
<1>1. e \in [Enveloped -> EnvelopeState]
  <2>1. \A c \in Enveloped : a.env[c] \in EnvelopeState
    BY DEF ApuState
  <2> QED  BY <2>1, EnvelopeTickType
<1>2. l \in [Triangles -> LinearState]
  <2>1. \A c \in Triangles : a.linear[c] \in LinearState
    BY DEF ApuState
  <2> QED  BY <2>1, LinearTickType
<1>3. g \in [Channels -> Nat \cup {-1}]
  BY AgedType
<1>4. QuarterFrame(a) = [a EXCEPT !.env = e, !.linear = l, !.age = g]
  BY DEF QuarterFrame
<1> HIDE DEF e, l, g
<1>5. [a EXCEPT !.env = e, !.linear = l, !.age = g] \in ApuState
  BY <1>1, <1>2, <1>3 DEF ApuState
<1>6. LET b == [a EXCEPT !.env = e, !.linear = l, !.age = g] IN
         /\ b.env = e /\ b.linear = l /\ b.age = g /\ b.halt = a.halt
         /\ SameFlow(a, b) /\ SameSound(a, b) /\ SameDmc(a, b)
  BY DEF ApuState, SameFlow, SameSound, SameDmc
<1> QED  BY <1>4, <1>5, <1>6 DEF e, l, g

\* A half-frame clock does that, and counts the lengths and moves the sweeps.
LEMMA HalfFrameFields ==
  ASSUME NEW a \in ApuState
  PROVE  LET b == HalfFrame(a)
             q == QuarterFrame(a)
         IN  /\ b \in ApuState
             /\ SameNotes(q, b) /\ SameFlow(a, b) /\ SameDmc(a, b)
             /\ b.enabled = a.enabled
             /\ \A c \in Channels : a.length[c] = 0 => b.length[c] = 0
<1> DEFINE q == QuarterFrame(a)
           n == [c \in Channels |-> IF c \notin a.halt /\ a.length[c] > 0
                                    THEN a.length[c] - 1 ELSE a.length[c]]
           s == [c \in Pulses |-> SweepTick(a.sweep[c])]
           t == [c \in Pulses |-> SweptTimer(a.sweep[c], a.timer[c], c \in Pulse2)]
<1>1. q \in ApuState /\ SameFlow(a, q) /\ SameSound(a, q) /\ SameDmc(a, q)
  BY QuarterFrameFields
<1>2. n \in [Channels -> Nat] /\ \A c \in Channels : a.length[c] = 0 => n[c] = 0
  BY DEF ApuState
<1>3. s \in [Pulses -> SweepState]
  <2>1. \A c \in Pulses : a.sweep[c] \in SweepState
    BY DEF ApuState
  <2> QED  BY <2>1, SweepTickType
<1>4. t \in [Pulses -> 0..TimerMax]
  <2>1. \A c \in Pulses : a.sweep[c] \in SweepState /\ a.timer[c] \in 0..TimerMax
    BY DEF ApuState
  <2> QED  BY <2>1, SweptTimerType
<1>5. HalfFrame(a) = [q EXCEPT !.length = n, !.sweep = s, !.timer = t]
  BY DEF HalfFrame
<1> HIDE DEF q, n, s, t
<1>6. [q EXCEPT !.length = n, !.sweep = s, !.timer = t] \in ApuState
  BY <1>1, <1>2, <1>3, <1>4 DEF ApuState
<1>7. LET b == [q EXCEPT !.length = n, !.sweep = s, !.timer = t] IN
        SameNotes(q, b) /\ SameFlow(q, b) /\ SameDmc(q, b) /\ b.enabled = q.enabled /\ b.length = n
  BY <1>1 DEF ApuState, SameNotes, SameFlow, SameDmc
<1>8. SameFlow(a, HalfFrame(a)) /\ SameDmc(a, HalfFrame(a)) /\ HalfFrame(a).enabled = a.enabled
  BY <1>1, <1>5, <1>7 DEF SameFlow, SameDmc, SameSound
<1> QED  BY <1>2, <1>5, <1>6, <1>7, <1>8 DEF q

\* Both clocks.
LEMMA FrameClockFields ==
  ASSUME NEW a \in ApuState
  PROVE  LET b == FrameClock(a)
             q == QuarterFrame(a)
         IN  /\ b \in ApuState
             /\ SameNotes(q, b) /\ SameFlow(a, b) /\ SameDmc(a, b)
             /\ b.enabled = a.enabled
             /\ \A c \in Channels : a.length[c] = 0 => b.length[c] = 0
<1>1. CASE a.fcnt % 2 = 0
  BY <1>1, HalfFrameFields DEF FrameClock
<1>2. CASE a.fcnt % 2 # 0
  <2>1. FrameClock(a) = QuarterFrame(a)
    BY <1>2 DEF FrameClock
  <2> QED  BY <2>1, QuarterFrameFields DEF SameNotes, SameSound
<1> QED  BY <1>1, <1>2

\* A step of the sequencer: the clock, the frame IRQ, the next step.
LEMMA FrameUpdateFields ==
  ASSUME NEW a \in ApuState
  PROVE  LET b == FrameUpdate(a)
             q == QuarterFrame(a)
         IN  /\ b \in ApuState
             /\ SameNotes(q, b) /\ SameDmc(a, b)
             /\ b.enabled = a.enabled /\ b.mode = a.mode
             /\ \A c \in Channels : a.length[c] = 0 => b.length[c] = 0
             /\ b.frameIrq => a.frameIrq \/ a.mode = {}
             /\ b.fcnt = (a.fcnt + 1) % 4
             /\ b.fhcnt = IF a.fcnt = 3 /\ "five" \in a.mode THEN a.fhcnt + StepUnits
                          ELSE a.fhcnt
<1> DEFINE k == FrameClock(a)
           i == a.frameIrq \/ (a.fcnt = 0 /\ a.mode = {})
           h == IF a.fcnt = 3 /\ "five" \in a.mode THEN a.fhcnt + StepUnits ELSE a.fhcnt
           f == (a.fcnt + 1) % 4
<1>1. k \in ApuState
  BY FrameClockFields
<1>2. i \in BOOLEAN
  OBVIOUS
<1>3. h \in Int
  BY ApuAssumption DEF ApuState
<1>4. f \in 0..3
  BY DEF ApuState
<1>5. FrameUpdate(a) = [k EXCEPT !.frameIrq = i, !.fhcnt = h, !.fcnt = f]
  BY DEF FrameUpdate
<1>6. i => a.frameIrq \/ a.mode = {}
  OBVIOUS
<1> HIDE DEF k, i, h, f
<1>7. [k EXCEPT !.frameIrq = i, !.fhcnt = h, !.fcnt = f] \in ApuState
  BY <1>1, <1>2, <1>3, <1>4 DEF ApuState
<1>8. LET b == [k EXCEPT !.frameIrq = i, !.fhcnt = h, !.fcnt = f] IN
        /\ SameNotes(k, b) /\ SameDmc(k, b) /\ SameSound(k, b) /\ b.mode = k.mode
        /\ b.frameIrq = i /\ b.fhcnt = h /\ b.fcnt = f
  BY <1>1 DEF ApuState, SameNotes, SameSound, SameDmc
<1> DEFINE b == FrameUpdate(a)
<1>9. /\ b \in ApuState /\ SameNotes(k, b) /\ SameDmc(k, b) /\ SameSound(k, b)
      /\ b.mode = k.mode /\ b.frameIrq = i /\ b.fhcnt = h /\ b.fcnt = f
  BY <1>5, <1>7, <1>8
<1> HIDE DEF b
<1>10. /\ SameNotes(QuarterFrame(a), k) /\ SameFlow(a, k) /\ SameDmc(a, k)
       /\ k.enabled = a.enabled
       /\ \A c \in Channels : a.length[c] = 0 => k.length[c] = 0
  BY FrameClockFields DEF k
<1>11. SameNotes(QuarterFrame(a), b) /\ SameDmc(a, b)
  BY <1>9, <1>10 DEF SameNotes, SameDmc
<1>12. /\ b.enabled = a.enabled /\ b.mode = a.mode
       /\ \A c \in Channels : a.length[c] = 0 => b.length[c] = 0
  BY <1>9, <1>10 DEF SameSound, SameFlow
<1> QED  BY <1>6, <1>9, <1>11, <1>12 DEF b, i, h, f

\* What a quarter-frame clock makes of the notes.
NotesClocked(a, b) ==
  /\ b.env = [c \in Enveloped |-> EnvelopeTick(a.env[c], c \in a.halt)]
  /\ b.linear = [c \in Triangles |-> LinearTick(a.linear[c], c \in a.halt)]
  /\ b.age = [c \in Channels |-> Aged(a, c)] /\ b.halt = a.halt

LEMMA UpdateClocksNotes ==
  ASSUME NEW a \in ApuState, NEW b \in ApuState, SameNotes(a, b)
  PROVE  NotesClocked(a, FrameUpdate(b))
<1>1. NotesClocked(b, FrameUpdate(b))
  BY QuarterFrameFields, FrameUpdateFields DEF NotesClocked, SameNotes
<1>2. b.env = a.env /\ b.linear = a.linear /\ b.halt = a.halt /\ b.age = a.age
  BY DEF SameNotes
<1>3. \A c \in Channels : Aged(b, c) = Aged(a, c)
  BY <1>2 DEF Aged
<1> QED  BY <1>1, <1>2, <1>3 DEF NotesClocked

\* The sequencer's part of a call: at most one step, and the next one is due a step
\* after this one was due, two after the last step of the five-step mode.
LEMMA SequencerFields ==
  ASSUME NEW a \in ApuState, NEW cycles \in Nat
  PROVE  LET b == Sequencer(a, cycles)
             left == a.fhcnt - Units * cycles
         IN  /\ b \in ApuState /\ SameDmc(a, b)
             /\ b.enabled = a.enabled /\ b.mode = a.mode
             /\ \A c \in Channels : a.length[c] = 0 => b.length[c] = 0
             /\ b.frameIrq => a.frameIrq \/ a.mode = {}
             /\ SameNotes(a, b) \/ NotesClocked(a, b)
             /\ left > 0 => b.fcnt = a.fcnt /\ b.fhcnt = left
             /\ left <= 0 => /\ b.fcnt = (a.fcnt + 1) % 4
                             /\ b.fhcnt = left + StepUnits
                                  + (IF a.fcnt = 3 /\ "five" \in a.mode THEN StepUnits ELSE 0)
<1> DEFINE left == a.fhcnt - Units * cycles
           u == [a EXCEPT !.fhcnt = left]
           s == FrameUpdate(u)
<1>1. left \in Int
  BY ApuAssumption DEF ApuState
<1> HIDE DEF left
<1>2. /\ u \in ApuState /\ SameNotes(a, u) /\ SameSound(a, u) /\ SameDmc(a, u)
      /\ u.fcnt = a.fcnt /\ u.mode = a.mode /\ u.frameIrq = a.frameIrq /\ u.fhcnt = left
  BY <1>1 DEF ApuState, SameNotes, SameSound, SameDmc
<1>3. Sequencer(a, cycles) = IF u.fhcnt <= 0 THEN [s EXCEPT !.fhcnt = s.fhcnt + StepUnits] ELSE u
  BY DEF Sequencer, left
<1> HIDE DEF u
<1>4. CASE left <= 0
  <2> DEFINE h == s.fhcnt + StepUnits
             b == [s EXCEPT !.fhcnt = h]
  <2>1. /\ s \in ApuState /\ SameDmc(u, s) /\ s.enabled = u.enabled /\ s.mode = u.mode
        /\ \A c \in Channels : u.length[c] = 0 => s.length[c] = 0
        /\ s.frameIrq => u.frameIrq \/ u.mode = {}
        /\ s.fcnt = (u.fcnt + 1) % 4
        /\ s.fhcnt = IF u.fcnt = 3 /\ "five" \in u.mode THEN u.fhcnt + StepUnits ELSE u.fhcnt
    BY <1>2, FrameUpdateFields
  <2>2. NotesClocked(a, s)
    BY <1>2, UpdateClocksNotes
  <2> HIDE DEF s
  <2>3. h \in Int
    BY <2>1, ApuAssumption DEF ApuState
  <2>4. h = left + StepUnits + (IF a.fcnt = 3 /\ "five" \in a.mode THEN StepUnits ELSE 0)
    BY <1>1, <1>2, <2>1, ApuAssumption
  <2> HIDE DEF h
  <2>5. /\ b \in ApuState /\ SameNotes(s, b) /\ SameSound(s, b) /\ SameDmc(s, b)
        /\ b.fcnt = s.fcnt /\ b.mode = s.mode /\ b.frameIrq = s.frameIrq /\ b.fhcnt = h
    BY <2>1, <2>3 DEF ApuState, SameNotes, SameSound, SameDmc
  <2>6. Sequencer(a, cycles) = b
    BY <1>2, <1>3, <1>4 DEF h
  <2> HIDE DEF b
  <2>7. SameDmc(a, b)
    BY <1>2, <2>1, <2>5 DEF SameDmc
  <2>8. NotesClocked(a, b)
    BY <2>2, <2>5 DEF NotesClocked, SameNotes
  <2>9. /\ b.enabled = a.enabled /\ b.mode = a.mode /\ b.fcnt = (a.fcnt + 1) % 4
        /\ \A c \in Channels : a.length[c] = 0 => b.length[c] = 0
        /\ b.frameIrq => a.frameIrq \/ a.mode = {}
    BY <1>2, <2>1, <2>5 DEF SameSound
  <2>10. ~(left > 0)
    BY <1>1, <1>4
  <2> QED  BY <1>4, <2>4, <2>5, <2>6, <2>7, <2>8, <2>9, <2>10 DEF left
<1>5. CASE ~(left <= 0)
  <2>1. Sequencer(a, cycles) = u
    BY <1>2, <1>3, <1>5
  <2>2. /\ u.enabled = a.enabled /\ u.length = a.length
    BY <1>2 DEF SameSound
  <2> QED  BY <1>2, <1>5, <2>1, <2>2 DEF left
<1> QED  BY <1>4, <1>5

\* The DMC's IRQ, when it is up, is enabled and the sample has ended.
IrqMeansEnd(a) == a.dmcIrq => a.irqOn /\ a.size = 0

\* A fetch that is due fills the buffer.
LEMMA FetchFields ==
  ASSUME NEW a \in ApuState
  PROVE  LET b == Fetch(a) IN
         /\ b \in ApuState /\ SameFlow(a, b) /\ SameNotes(a, b) /\ SameSound(a, b)
         /\ b.loop = a.loop /\ b.irqOn = a.irqOn /\ b.latch = a.latch
         /\ b.haveSample = a.haveSample /\ b.bits = a.bits /\ b.acc = a.acc
         /\ b.period = a.period
         /\ IrqMeansEnd(a) => IrqMeansEnd(b)
         /\ a.size > 0 => b.haveDma
<1>1. CASE ~FetchDue(a)
  BY <1>1 DEF Fetch, FetchDue, SameFlow, SameNotes, SameSound, ApuState
<1>2. CASE FetchDue(a)
  <2> DEFINE n == IF a.size = 1 /\ a.loop THEN a.latch ELSE a.size - 1
             i == a.dmcIrq \/ (a.size = 1 /\ ~a.loop /\ a.irqOn)
             b == [a EXCEPT !.haveDma = TRUE, !.size = n, !.dmcIrq = i]
  <2>1. /\ a.size \in Nat /\ a.size > 0 /\ a.latch \in Nat
        /\ a.irqOn \in BOOLEAN /\ a.loop \in BOOLEAN
    BY <1>2, ApuAssumption DEF FetchDue, ApuState
  <2>2. n \in Nat /\ i \in BOOLEAN
    BY <2>1
  <2>3. IrqMeansEnd(a) /\ i => a.irqOn /\ n = 0
    BY <2>1 DEF IrqMeansEnd
  <2>4. Fetch(a) = b
    BY <1>2 DEF Fetch
  <2> HIDE DEF n, i
  <2>5. /\ b \in ApuState /\ SameFlow(a, b) /\ SameNotes(a, b) /\ SameSound(a, b)
        /\ b.loop = a.loop /\ b.irqOn = a.irqOn /\ b.latch = a.latch
        /\ b.haveSample = a.haveSample /\ b.bits = a.bits /\ b.acc = a.acc
        /\ b.period = a.period /\ b.haveDma = TRUE /\ b.size = n /\ b.dmcIrq = i
    BY <2>2 DEF ApuState, SameFlow, SameNotes, SameSound
  <2> HIDE DEF b
  <2>6. IrqMeansEnd(a) => IrqMeansEnd(b)
    BY <2>3, <2>5 DEF IrqMeansEnd
  <2> QED  BY <2>4, <2>5, <2>6
<1> QED  BY <1>1, <1>2

\* The bits played in a call take at least the time since the last one.
LEMMA BitClocksFit ==
  ASSUME NEW a \in ApuState, NEW cycles \in Nat
  PROVE  /\ BitClocks(a, cycles) \in Nat /\ a.period \in Nat \ {0}
         /\ a.acc - cycles + BitClocks(a, cycles) * a.period \in Nat \ {0}
         /\ cycles <= Bits * a.period => BitClocks(a, cycles) <= Bits
<1> DEFINE p == a.period
           x == cycles - a.acc
           q == x \div p
<1>1. p \in Nat \ {0} /\ a.acc \in Nat \ {0} /\ Bits \in Nat \ {0}
  BY ApuAssumption DEF ApuState
<1>2. CASE cycles < a.acc
  <2>1. BitClocks(a, cycles) = 0
    BY <1>2 DEF BitClocks
  <2>2. 0 * p = 0
    BY <1>1
  <2> QED  BY <1>1, <1>2, <2>1, <2>2
<1>3. CASE ~(cycles < a.acc)
  <2>1. x \in Nat /\ BitClocks(a, cycles) = q + 1
    BY <1>1, <1>3 DEF BitClocks
  <2>2. a.acc - cycles = -x
    BY <1>1
  <2>3. cycles <= Bits * p => x < p * Bits
    <3> HIDE DEF p
    <3>1. Bits * p = p * Bits /\ p * Bits \in Nat
      BY <1>1
    <3> QED  BY <1>1, <3>1
  <2> HIDE DEF p, x
  <2>4. /\ q \in Nat /\ x % p \in 0..(p - 1) /\ x = p * q + (x % p) /\ p * q \in Nat
    BY <1>1, <2>1, DivMod
  <2>5. x < p * Bits => q < Bits
    BY <1>1, <2>1, DivBelow
  <2> HIDE DEF q
  <2>6. (q + 1) * p = p * q + p
    BY <1>1, <2>4
  <2>7. -x + (q + 1) * p \in Nat \ {0}
    BY <1>1, <2>1, <2>4, <2>6
  <2> QED  BY <1>1, <2>1, <2>2, <2>3, <2>4, <2>5, <2>7 DEF p
<1> QED  BY <1>2, <1>3

\* The output unit plays on; within a byte's time it needs at most one new byte.
LEMMA OutputFields ==
  ASSUME NEW a \in ApuState, NEW cycles \in Nat
  PROVE  LET b == Output(a, cycles) IN
         /\ b \in ApuState /\ SameFlow(a, b) /\ SameNotes(a, b) /\ SameSound(a, b)
         /\ b.dmcIrq = a.dmcIrq /\ b.irqOn = a.irqOn /\ b.size = a.size
         /\ (cycles <= Bits * a.period /\ a.haveDma /\ a.haveSample) => b.haveSample
<1> DEFINE k == BitClocks(a, cycles)
           n == Reloads(a, cycles)
           c == a.acc - cycles + k * a.period
           t == (a.bits + k) % Bits
           s == IF n = 0 THEN a.haveSample ELSE n = 1 /\ a.haveDma
           d == a.haveDma /\ n = 0
           b == [a EXCEPT !.acc = c, !.bits = t, !.haveSample = s, !.haveDma = d]
<1>1. Output(a, cycles) = b
  BY DEF Output
<1>2. /\ k \in Nat /\ c \in Nat \ {0}
      /\ cycles <= Bits * a.period => k <= Bits
  BY BitClocksFit
<1>3. Bits \in Nat \ {0} /\ a.bits \in 0..(Bits - 1)
  BY ApuAssumption DEF ApuState
<1>4. n = (a.bits + k) \div Bits
  BY DEF Reloads
<1> HIDE DEF k, c
<1>5. t \in 0..(Bits - 1) /\ n \in Nat
  <2>1. a.bits + k \in Nat
    BY <1>2, <1>3
  <2> QED  BY <1>3, <1>4, <2>1, DivMod
<1>6. k <= Bits => n < 2
  <2> HIDE DEF n
  <2>1. k <= Bits => a.bits + k \in Nat /\ a.bits + k < Bits * 2
    BY <1>2, <1>3
  <2> QED  BY <1>3, <1>4, <2>1, DivBelow
<1> HIDE DEF n, t
<1>7. s \in BOOLEAN /\ d \in BOOLEAN
  BY DEF ApuState
<1>8. (k <= Bits /\ a.haveDma /\ a.haveSample) => s
  BY <1>5, <1>6
<1> HIDE DEF s, d
<1>9. /\ b \in ApuState /\ SameFlow(a, b) /\ SameNotes(a, b) /\ SameSound(a, b)
      /\ b.dmcIrq = a.dmcIrq /\ b.irqOn = a.irqOn /\ b.size = a.size
      /\ b.haveSample = s
  BY <1>2, <1>5, <1>7 DEF ApuState, SameFlow, SameNotes, SameSound
<1> QED  BY <1>1, <1>2, <1>8, <1>9

-----------------------------------------------------------------------------
(* Notes that fade. *)

\* The level of an envelope and its divider, `age` clocks after it started.  At the
\* bottom of a note that does not loop the divider goes on, and no longer matters.
EnvelopeFaded(e, age, looped) ==
  LET period == e.volume + 1 IN
  age >= 0 =>
     /\ looped => age < period * (MaxDecay + 1)
     /\ ~looped => age <= period * MaxDecay
     /\ e.decay = MaxDecay - (age \div period)
     /\ (looped \/ age < period * MaxDecay) => e.divider = e.volume - (age % period)

\* The linear counter, `age` clocks after it was reloaded; with the control bit set it
\* is reloaded at every clock.
LinearFaded(l, age, control) ==
  age >= 0 => /\ age <= l.value /\ l.counter = l.value - age
              /\ control => l.reload

Fades(a) ==
  /\ \A c \in Enveloped : EnvelopeFaded(a.env[c], a.age[c], c \in a.halt)
  /\ \A c \in Triangles : LinearFaded(a.linear[c], a.age[c], c \in a.halt)

\* The clock of an envelope that runs, in the terms of quotient and remainder.
LEMMA EnvelopeRuns ==
  ASSUME NEW e \in EnvelopeState, NEW age \in Nat, NEW looped \in BOOLEAN,
         EnvelopeFaded(e, age, looped), ~e.start,
         looped \/ age < (e.volume + 1) * MaxDecay,
         NEW g, g = IF looped THEN (age + 1) % ((e.volume + 1) * (MaxDecay + 1)) ELSE age + 1
  PROVE  EnvelopeFaded(EnvelopeTick(e, looped), g, looped)
<1> DEFINE p == e.volume + 1
           q == age \div p
           r == age % p
           whole == p * (MaxDecay + 1)
           fade == p * MaxDecay
           f == EnvelopeTick(e, looped)
<1>1. /\ p \in Nat \ {0} /\ e.volume = p - 1 /\ MaxDecay \in Nat
      /\ e.divider \in Nat /\ e.decay \in 0..MaxDecay
  BY UnitsAssumption DEF EnvelopeState
<1>2. /\ looped => age < whole
      /\ e.decay = MaxDecay - q /\ e.divider = e.volume - r
      /\ looped \/ age < fade
      /\ g = IF looped THEN (age + 1) % whole ELSE age + 1
  BY DEF EnvelopeFaded
<1> HIDE DEF p
<1>3. q \in Nat /\ r \in 0..(p - 1) /\ age = p * q + r /\ p * q \in Nat
  BY <1>1, DivMod
<1>4. fade \in Nat /\ whole = fade + p /\ whole \in Nat \ {0}
  BY <1>1, TimesGrows
<1>5. /\ looped => q < MaxDecay + 1
      /\ ~looped => q < MaxDecay
  BY <1>1, <1>2, DivBelow
<1> HIDE DEF q, r
<1>6. p * (q + 1) = p * q + p /\ p * (q + 1) <= whole
  <2>1. q + 1 <= MaxDecay + 1
    BY <1>1, <1>3, <1>5
  <2> QED  BY <1>1, <1>3, <2>1, TimesGrows
<1>7. q < MaxDecay => p * (q + 1) <= fade
  BY <1>1, <1>3, TimesGrows
<1> HIDE DEF whole, fade
<1>8. age + 1 < whole => (age + 1) % whole = age + 1
  BY <1>4
<1>9. f.volume = e.volume
  BY DEF EnvelopeTick, EnvelopeState
<1>10. EnvelopeFaded(f, g, looped)
         <=> (g >= 0 => /\ looped => g < whole
                        /\ ~looped => g <= fade
                        /\ f.decay = MaxDecay - (g \div p)
                        /\ (looped \/ g < fade) => f.divider = e.volume - (g % p))
  BY <1>9 DEF EnvelopeFaded, whole, fade, p
<1>11. CASE r < p - 1
  <2>1. age + 1 = p * q + (r + 1) /\ r + 1 \in 0..(p - 1)
    BY <1>1, <1>3, <1>11
  <2>2. (age + 1) \div p = q /\ (age + 1) % p = r + 1
    <3> DEFINE s == r + 1
               n == age + 1
    <3>1. s \in 0..(p - 1) /\ n = p * q + s
      BY <2>1
    <3> HIDE DEF s, n
    <3>2. (p * q + s) \div p = q /\ (p * q + s) % p = s
      BY <1>1, <1>3, <3>1, DivUnique
    <3>3. n \div p = q /\ n % p = s
      BY <3>1, <3>2
    <3> QED  BY <3>3 DEF s, n
  <2>3. age + 1 < whole /\ (~looped => age + 1 <= fade)
    BY <1>1, <1>2, <1>3, <1>4, <1>6, <1>11
  <2>4. g = age + 1
    BY <1>2, <1>8, <2>3
  <2>5. f.divider = e.divider - 1 /\ f.decay = e.decay
    BY <1>1, <1>2, <1>3, <1>11 DEF EnvelopeTick, EnvelopeState
  <2> QED  BY <1>1, <1>2, <1>3, <1>10, <2>2, <2>3, <2>4, <2>5
<1>12. CASE r = p - 1
  <2>1. age + 1 = p * (q + 1)
    BY <1>1, <1>3, <1>6, <1>12
  <2>2. /\ f.divider = e.volume
        /\ f.decay = IF e.decay > 0 THEN e.decay - 1 ELSE IF looped THEN MaxDecay ELSE 0
    BY <1>1, <1>2, <1>12 DEF EnvelopeTick, EnvelopeState
  <2>3. /\ (p * (q + 1)) \div p = q + 1 /\ (p * (q + 1)) % p = 0
        /\ p * (q + 1) \in Nat
    <3> DEFINE k == q + 1
    <3>1. k \in Nat /\ 0 \in 0..(p - 1)
      BY <1>1, <1>3
    <3> HIDE DEF k
    <3>2. p * k \in Nat
      BY <1>1, <3>1, TimesGrows
    <3>3. PICK z \in 0..(p - 1) : z = 0
      BY <3>1
    <3>4. (p * k + z) \div p = k /\ (p * k + z) % p = z
      BY <1>1, <3>1, DivUnique
    <3>5. p * k + z = p * k
      BY <3>2, <3>3
    <3>6. (p * k) \div p = k /\ (p * k) % p = 0
      BY <3>3, <3>4, <3>5
    <3> QED  BY <3>2, <3>6 DEF k
  <2>4. (age + 1) \div p = q + 1 /\ (age + 1) % p = 0
    BY <2>1, <2>3
  <2>5. CASE q < MaxDecay
    <3>1. age + 1 <= fade /\ age + 1 < whole
      BY <1>1, <1>4, <1>7, <2>1, <2>3, <2>5
    <3>2. g = age + 1
      BY <1>2, <1>8, <3>1
    <3>3. f.decay = MaxDecay - (q + 1)
      BY <1>1, <1>2, <1>3, <2>2, <2>5
    <3> QED  BY <1>1, <1>10, <2>2, <2>4, <3>1, <3>2, <3>3
  <2>6. CASE q = MaxDecay
    <3>1. looped /\ age + 1 = whole
      BY <1>1, <1>5, <2>1, <2>6 DEF whole
    <3>2. g = 0
      BY <1>2, <1>4, <3>1
    <3>3. f.decay = MaxDecay
      BY <1>1, <1>2, <2>2, <2>6, <3>1
    <3>4. g \div p = 0 /\ g % p = 0
      BY <1>1, <3>2
    <3>5. f.decay = MaxDecay - (g \div p) /\ f.divider = e.volume - (g % p)
      BY <1>1, <2>2, <3>3, <3>4
    <3>6. g < whole
      BY <1>4, <3>2
    <3> QED  BY <1>10, <3>1, <3>5, <3>6
  <2> QED  BY <1>1, <1>3, <1>5, <2>5, <2>6
<1> QED  BY <1>1, <1>3, <1>11, <1>12

\* An envelope clocked as a note: it starts, waits for a start, runs, or stays down.
LEMMA EnvelopeFades ==
  ASSUME NEW a \in ApuState, NEW c \in Enveloped,
         EnvelopeFaded(a.env[c], a.age[c], c \in a.halt)
  PROVE  EnvelopeFaded(EnvelopeTick(a.env[c], c \in a.halt), Aged(a, c), c \in a.halt)
<1> DEFINE e == a.env[c]
           age == a.age[c]
           looped == c \in a.halt
           p == e.volume + 1
           f == EnvelopeTick(e, looped)
           g == Aged(a, c)
<1>1. e \in EnvelopeState /\ age \in Nat \cup {-1} /\ looped \in BOOLEAN
  BY ChannelKinds DEF ApuState
<1>2. g = IF e.start THEN 0
          ELSE IF age = -1 THEN -1
          ELSE IF looped THEN (age + 1) % (p * (MaxDecay + 1))
          ELSE Least(age + 1, p * MaxDecay)
  BY ChannelKinds DEF Aged
<1>3. EnvelopeFaded(e, age, looped)
  OBVIOUS
<1> HIDE DEF e, age, looped, g
<1>4. /\ p \in Nat \ {0} /\ e.volume = p - 1 /\ MaxDecay \in Nat
      /\ MaxDecay \in 0..MaxDecay
  BY <1>1, UnitsAssumption DEF EnvelopeState
<1>5. f.volume = e.volume
  BY <1>1 DEF EnvelopeTick, EnvelopeState
<1> DEFINE fade == p * MaxDecay
           whole == p * (MaxDecay + 1)
<1>11. EnvelopeFaded(f, g, looped)
         <=> (g >= 0 => /\ looped => g < whole
                        /\ ~looped => g <= fade
                        /\ f.decay = MaxDecay - (g \div p)
                        /\ (looped \/ g < fade) => f.divider = e.volume - (g % p))
  BY <1>5 DEF EnvelopeFaded
<1>12. age >= 0 => /\ ~looped => age <= fade
                   /\ e.decay = MaxDecay - (age \div p)
  BY <1>3 DEF EnvelopeFaded
<1>13. /\ looped \/ age < fade <=> looped \/ age < (e.volume + 1) * MaxDecay
       /\ (age + 1) % whole = (age + 1) % ((e.volume + 1) * (MaxDecay + 1))
  OBVIOUS
<1>14. g = IF e.start THEN 0
           ELSE IF age = -1 THEN -1
           ELSE IF looped THEN (age + 1) % whole
           ELSE Least(age + 1, fade)
  BY <1>2
<1> HIDE DEF p, f
<1>15. /\ fade \in Nat /\ whole = fade + p
  BY <1>4, TimesGrows
<1>6. ASSUME e.start
      PROVE  EnvelopeFaded(f, g, looped)
  <2>1. f.decay = MaxDecay /\ f.divider = e.volume /\ g = 0
    BY <1>1, <1>14, <1>6 DEF f, EnvelopeTick, EnvelopeState
  <2>2. g \div p = 0 /\ g % p = 0
    BY <1>4, <2>1
  <2> HIDE DEF fade, whole
  <2>3. f.decay = MaxDecay - (g \div p) /\ f.divider = e.volume - (g % p)
    BY <1>4, <2>1, <2>2
  <2>4. g < whole /\ g <= fade
    BY <1>4, <1>15, <2>1
  <2> QED  BY <1>11, <2>3, <2>4
<1>7. ASSUME ~e.start /\ age = -1
      PROVE  EnvelopeFaded(f, g, looped)
  <2>1. ~(g >= 0)
    BY <1>14, <1>7
  <2> QED  BY <1>11, <2>1
<1>8. ASSUME ~e.start /\ age # -1 /\ (looped \/ age < fade)
      PROVE  EnvelopeFaded(f, g, looped)
  <2>1. age \in Nat
    BY <1>1, <1>8
  <2>2. g = IF looped THEN (age + 1) % whole ELSE age + 1
    <3> HIDE DEF fade, whole
    <3> QED  BY <1>14, <1>15, <1>8, <2>1 DEF Least
  <2> QED  BY <1>1, <1>3, <1>8, <2>1, <2>2, EnvelopeRuns DEF p, f
<1>9. ASSUME ~e.start /\ age # -1 /\ ~looped /\ ~(age < fade)
      PROVE  EnvelopeFaded(f, g, looped)
  <2>1. age \in Nat /\ age = fade
    <3> HIDE DEF fade
    <3> QED  BY <1>1, <1>12, <1>15, <1>9
  <2>2. g = fade
    <3> HIDE DEF fade, whole
    <3> QED  BY <1>14, <1>15, <1>9, <2>1 DEF Least
  <2>3. fade \div p = MaxDecay
    <3>1. PICK z \in 0..(p - 1) : z = 0
      BY <1>4
    <3>2. (p * MaxDecay + z) \div p = MaxDecay
      BY <1>4, DivUnique
    <3>3. p * MaxDecay + z = p * MaxDecay
      BY <1>15, <3>1
    <3> QED  BY <3>2, <3>3
  <2> HIDE DEF fade, whole
  <2>4. e.decay = 0
    BY <1>4, <1>12, <2>1, <2>3
  <2>5. f.decay = 0
    BY <1>1, <1>9, <2>4 DEF f, EnvelopeTick, EnvelopeState
  <2>6. f.decay = MaxDecay - (g \div p) /\ ~(g < fade) /\ g <= fade
    BY <1>4, <1>15, <2>2, <2>3, <2>5
  <2> QED  BY <1>9, <1>11, <2>6
<1>10. EnvelopeFaded(f, g, looped)
  <2> HIDE DEF fade
  <2> QED  BY <1>1, <1>6, <1>7, <1>8, <1>9
<1> QED  BY <1>10 DEF e, age, looped, g, f

LEMMA LinearFades ==
  ASSUME NEW a \in ApuState, NEW c \in Triangles,
         LinearFaded(a.linear[c], a.age[c], c \in a.halt)
  PROVE  LinearFaded(LinearTick(a.linear[c], c \in a.halt), Aged(a, c), c \in a.halt)
<1> DEFINE l == a.linear[c]
           m == LinearTick(l, c \in a.halt)
           n == IF l.reload THEN l.value ELSE IF l.counter > 0 THEN l.counter - 1 ELSE 0
           r == l.reload /\ c \in a.halt
<1>1. l \in LinearState /\ a.age[c] \in Nat \cup {-1}
  BY ChannelKinds DEF ApuState
<1>2. Aged(a, c) = IF l.reload THEN 0
                   ELSE IF a.age[c] = -1 THEN -1
                   ELSE IF c \in a.halt THEN a.age[c]
                   ELSE Least(a.age[c] + 1, l.value)
  BY DEF Aged
<1>3. m = [l EXCEPT !.counter = n, !.reload = r]
  BY DEF LinearTick
<1>4. /\ n = IF l.reload THEN l.value ELSE IF l.counter > 0 THEN l.counter - 1 ELSE 0
      /\ r <=> l.reload /\ c \in a.halt
  OBVIOUS
<1>5. LinearFaded(l, a.age[c], c \in a.halt)
  OBVIOUS
<1> HIDE DEF l, n, r
<1>6. m.value = l.value /\ m.counter = n /\ m.reload = r
  BY <1>1, <1>3 DEF LinearState
<1> HIDE DEF m
<1>7. /\ l.value \in Nat /\ l.counter \in Nat /\ l.reload \in BOOLEAN
  BY <1>1 DEF LinearState
<1>8. LinearFaded(m, Aged(a, c), c \in a.halt)
  BY <1>1, <1>2, <1>4, <1>5, <1>6, <1>7 DEF LinearFaded, Least
<1> QED  BY <1>8 DEF l, m

LEMMA ClockFades ==
  ASSUME NEW a \in ApuState, NEW b, Fades(a), SameNotes(a, b) \/ NotesClocked(a, b)
  PROVE  Fades(b)
<1>1. CASE SameNotes(a, b)
  BY <1>1 DEF SameNotes, Fades
<1>2. CASE NotesClocked(a, b)
  <2>1. \A c \in Enveloped : EnvelopeFaded(b.env[c], b.age[c], c \in b.halt)
    BY <1>2, EnvelopeFades, ChannelKinds DEF NotesClocked, Fades
  <2>2. \A c \in Triangles : LinearFaded(b.linear[c], b.age[c], c \in b.halt)
    BY <1>2, LinearFades, ChannelKinds DEF NotesClocked, Fades
  <2> QED  BY <2>1, <2>2 DEF Fades
<1> QED  BY <1>1, <1>2

-----------------------------------------------------------------------------
(* One call of advance(), and the accesses. *)

\* StatusMeansIt, of a state.
StatusTrue(a) ==
  /\ a.frameIrq => a.mode = {}
  /\ IrqMeansEnd(a)
  /\ \A c \in Channels : c \notin a.enabled => a.length[c] = 0

Sound(a) == a \in ApuState /\ StatusTrue(a) /\ Fades(a)

\* Where the sequencer is.
SameTime(a, b) == b.fhcnt = a.fhcnt /\ b.fcnt = a.fcnt /\ b.mode = a.mode

LEMMA AdvancedSound ==
  ASSUME NEW a, Sound(a), NEW cycles \in Nat
  PROVE  LET b == Advanced(a, cycles) IN
         /\ Sound(b) /\ SameTime(Sequencer(a, cycles), b)
         /\ (cycles <= Bits * a.period /\ a.size > 0 /\ a.haveSample) => b.haveSample
<1> DEFINE s == Sequencer(a, cycles)
           f == Fetch(s)
           b == Output(f, cycles)
<1>1. a \in ApuState /\ StatusTrue(a) /\ Fades(a)
  BY DEF Sound
<1>2. /\ s \in ApuState /\ SameDmc(a, s) /\ s.enabled = a.enabled /\ s.mode = a.mode
      /\ \A c \in Channels : a.length[c] = 0 => s.length[c] = 0
      /\ s.frameIrq => a.frameIrq \/ a.mode = {}
      /\ SameNotes(a, s) \/ NotesClocked(a, s)
  BY <1>1, SequencerFields
<1> HIDE DEF s
<1>3. /\ f \in ApuState /\ SameFlow(s, f) /\ SameNotes(s, f) /\ SameSound(s, f)
      /\ f.irqOn = s.irqOn /\ f.haveSample = s.haveSample /\ f.period = s.period
      /\ IrqMeansEnd(s) => IrqMeansEnd(f)
      /\ s.size > 0 => f.haveDma
  BY <1>2, FetchFields
<1> HIDE DEF f
<1>4. /\ b \in ApuState /\ SameFlow(f, b) /\ SameNotes(f, b) /\ SameSound(f, b)
      /\ b.dmcIrq = f.dmcIrq /\ b.irqOn = f.irqOn /\ b.size = f.size
      /\ (cycles <= Bits * f.period /\ f.haveDma /\ f.haveSample) => b.haveSample
  BY <1>3, OutputFields
<1>5. Advanced(a, cycles) = b
  BY DEF Advanced, s, f
<1> HIDE DEF b
<1>6. StatusTrue(b)
  <2>1. IrqMeansEnd(s)
    BY <1>1, <1>2 DEF StatusTrue, IrqMeansEnd, SameDmc
  <2>2. IrqMeansEnd(b)
    BY <1>3, <1>4, <2>1 DEF IrqMeansEnd
  <2>3. b.frameIrq => b.mode = {}
    BY <1>1, <1>2, <1>3, <1>4 DEF StatusTrue, SameFlow
  <2>4. \A c \in Channels : c \notin b.enabled => b.length[c] = 0
    BY <1>1, <1>2, <1>3, <1>4 DEF StatusTrue, SameSound
  <2> QED  BY <2>2, <2>3, <2>4 DEF StatusTrue
<1>7. Fades(b)
  <2>1. Fades(s)
    BY <1>1, <1>2, ClockFades
  <2>2. Fades(f)
    BY <1>3, <2>1, ClockFades, <1>2
  <2> QED  BY <1>3, <1>4, <2>2, ClockFades
<1>8. SameTime(s, b)
  BY <1>3, <1>4 DEF SameFlow, SameTime
<1>9. (cycles <= Bits * a.period /\ a.size > 0 /\ a.haveSample) => b.haveSample
  BY <1>2, <1>3, <1>4 DEF SameDmc
<1> QED  BY <1>4, <1>5, <1>6, <1>7, <1>8, <1>9 DEF Sound, s

LEMMA ReadStatusSound ==
  ASSUME NEW a, Sound(a)
  PROVE  Sound(ReadStatus(a)) /\ SameTime(a, ReadStatus(a))
<1> DEFINE b == [a EXCEPT !.frameIrq = FALSE]
<1>1. a \in ApuState /\ StatusTrue(a) /\ Fades(a)
  BY DEF Sound
<1>2. /\ b \in ApuState /\ SameNotes(a, b) /\ SameSound(a, b) /\ SameDmc(a, b)
      /\ SameTime(a, b) /\ b.frameIrq = FALSE
  BY <1>1 DEF ApuState, SameNotes, SameSound, SameDmc, SameTime
<1>3. ReadStatus(a) = b
  BY DEF ReadStatus
<1> HIDE DEF b
<1>4. StatusTrue(b)
  BY <1>1, <1>2 DEF StatusTrue, IrqMeansEnd, SameDmc, SameSound
<1> QED  BY <1>1, <1>2, <1>3, <1>4, ClockFades DEF Sound

LEMMA EnableSound ==
  ASSUME NEW a, Sound(a), NEW chans \in SUBSET Channels, NEW dmc
  PROVE  Sound(Enable(a, chans, dmc)) /\ SameTime(a, Enable(a, chans, dmc))
<1> DEFINE n == [c \in Channels |-> IF c \in chans THEN a.length[c] ELSE 0]
           z == IF ~dmc THEN 0 ELSE IF a.size = 0 THEN a.latch ELSE a.size
           b == [a EXCEPT !.enabled = chans, !.length = n, !.size = z, !.dmcIrq = FALSE]
<1>1. a \in ApuState /\ StatusTrue(a) /\ Fades(a)
  BY DEF Sound
<1>2. /\ n \in [Channels -> Nat] /\ z \in Nat
      /\ \A c \in Channels : c \notin chans => n[c] = 0
  BY <1>1, ApuAssumption DEF ApuState
<1>3. Enable(a, chans, dmc) = b
  BY DEF Enable
<1> HIDE DEF n, z
<1>4. /\ b \in ApuState /\ SameNotes(a, b) /\ SameFlow(a, b)
      /\ b.dmcIrq = FALSE /\ b.enabled = chans /\ b.length = n
  BY <1>1, <1>2 DEF ApuState, SameNotes, SameFlow
<1> HIDE DEF b
<1>5. StatusTrue(b) /\ SameTime(a, b)
  BY <1>1, <1>2, <1>4 DEF StatusTrue, IrqMeansEnd, SameFlow, SameTime
<1> QED  BY <1>1, <1>3, <1>4, <1>5, ClockFades DEF Sound

LEMMA SetDmcSound ==
  ASSUME NEW a, Sound(a), NEW loop \in BOOLEAN, NEW irqOn \in BOOLEAN, NEW period \in Periods
  PROVE  Sound(SetDmc(a, loop, irqOn, period)) /\ SameTime(a, SetDmc(a, loop, irqOn, period))
<1> DEFINE i == a.dmcIrq /\ irqOn
           b == [a EXCEPT !.loop = loop, !.irqOn = irqOn, !.period = period, !.dmcIrq = i]
<1>1. a \in ApuState /\ StatusTrue(a) /\ Fades(a)
  BY DEF Sound
<1>2. i \in BOOLEAN /\ (i => a.dmcIrq /\ irqOn)
  OBVIOUS
<1>3. SetDmc(a, loop, irqOn, period) = b
  BY DEF SetDmc
<1> HIDE DEF i
<1>4. /\ b \in ApuState /\ SameNotes(a, b) /\ SameFlow(a, b) /\ SameSound(a, b)
      /\ b.dmcIrq = i /\ b.irqOn = irqOn /\ b.size = a.size
  BY <1>1, <1>2 DEF ApuState, SameNotes, SameFlow, SameSound
<1> HIDE DEF b
<1>5. StatusTrue(b) /\ SameTime(a, b)
  BY <1>1, <1>2, <1>4 DEF StatusTrue, IrqMeansEnd, SameFlow, SameSound, SameTime
<1> QED  BY <1>1, <1>3, <1>4, <1>5, ClockFades DEF Sound

LEMMA SetSizeSound ==
  ASSUME NEW a, Sound(a), NEW n \in SampleSizes
  PROVE  Sound(SetSize(a, n)) /\ SameTime(a, SetSize(a, n))
<1> DEFINE b == [a EXCEPT !.latch = n]
<1>1. a \in ApuState /\ StatusTrue(a) /\ Fades(a)
  BY DEF Sound
<1>2. /\ b \in ApuState /\ SameNotes(a, b) /\ SameFlow(a, b) /\ SameSound(a, b)
      /\ b.dmcIrq = a.dmcIrq /\ b.irqOn = a.irqOn /\ b.size = a.size
  BY <1>1 DEF ApuState, SameNotes, SameFlow, SameSound
<1>3. SetSize(a, n) = b
  BY DEF SetSize
<1> HIDE DEF b
<1>4. StatusTrue(b) /\ SameTime(a, b)
  BY <1>1, <1>2 DEF StatusTrue, IrqMeansEnd, SameFlow, SameSound, SameTime
<1> QED  BY <1>1, <1>2, <1>3, <1>4, ClockFades DEF Sound

LEMMA LoadLengthSound ==
  ASSUME NEW a, Sound(a), NEW c \in Channels, NEW n \in Lengths
  PROVE  LET b == LoadLength(a, c, n) IN
         Sound(b) /\ SameTime(a, b) /\ SameNotes(a, b) /\ b.timer = a.timer
<1> DEFINE b == [a EXCEPT !.length[c] = n]
<1>1. a \in ApuState /\ StatusTrue(a) /\ Fades(a)
  BY DEF Sound
<1>2. CASE c \in a.enabled
  <2>1. n \in Nat
    BY ApuAssumption
  <2>2. /\ b \in ApuState /\ SameNotes(a, b) /\ SameFlow(a, b) /\ SameDmc(a, b)
        /\ b.enabled = a.enabled /\ b.timer = a.timer
        /\ b.length = [a.length EXCEPT ![c] = n]
    BY <1>1, <2>1 DEF ApuState, SameNotes, SameFlow, SameDmc
  <2>3. LoadLength(a, c, n) = b
    BY <1>2 DEF LoadLength
  <2> HIDE DEF b
  <2>4. \A d \in Channels : d \notin b.enabled => b.length[d] = 0
    BY <1>1, <1>2, <2>2 DEF StatusTrue, ApuState
  <2>5. StatusTrue(b) /\ SameTime(a, b)
    BY <1>1, <2>2, <2>4 DEF StatusTrue, IrqMeansEnd, SameFlow, SameDmc, SameTime
  <2> QED  BY <1>1, <2>2, <2>3, <2>5, ClockFades DEF Sound
<1>3. CASE c \notin a.enabled
  BY <1>3 DEF LoadLength, SameTime, SameNotes
<1> QED  BY <1>2, <1>3

\* Whatever a write leaves of the notes and the timers, it is sound if they are.
LEMMA WriteSound ==
  ASSUME NEW a, Sound(a), NEW b \in ApuState, SameFlow(a, b), SameDmc(a, b),
         b.enabled = a.enabled, b.length = a.length, Fades(b)
  PROVE  Sound(b) /\ SameTime(a, b)
<1>1. StatusTrue(a)
  BY DEF Sound
<1>2. StatusTrue(b)
  BY <1>1 DEF StatusTrue, IrqMeansEnd, SameFlow, SameDmc
<1> QED  BY <1>2 DEF Sound, SameFlow, SameTime

LEMMA StartNoteSound ==
  ASSUME NEW a, Sound(a), NEW c \in Channels, NEW n \in Lengths, NEW high \in TimerHighs
  PROVE  Sound(StartNote(a, c, n, high)) /\ SameTime(a, StartNote(a, c, n, high))
<1> DEFINE l == LoadLength(a, c, n)
<1>1. Sound(l) /\ SameTime(a, l) /\ SameNotes(a, l) /\ l.timer = a.timer
  BY LoadLengthSound
<1> DEFINE b == StartNote(a, c, n, high)
<1>2. b = IF c \in Triangles THEN [l EXCEPT !.linear[c].reload = TRUE]
          ELSE IF c \in Noises THEN [l EXCEPT !.env[c].start = TRUE]
          ELSE [l EXCEPT !.env[c].start = TRUE,
                         !.timer[c] = (a.timer[c] % LowSize) + high * LowSize]
  BY DEF StartNote
<1> HIDE DEF l, b
<1>3. l \in ApuState /\ Fades(l)
  BY <1>1 DEF Sound
<1>4. CASE c \in Triangles
  <2>1. b = [l EXCEPT !.linear[c].reload = TRUE]
    BY <1>2, <1>4
  <2>2. l.linear \in [Triangles -> LinearState]
    BY <1>3 DEF ApuState
  <2>3. [l.linear EXCEPT ![c].reload = TRUE] \in [Triangles -> LinearState]
    BY <1>4, <2>2 DEF LinearState
  <2>4. /\ b \in ApuState /\ SameFlow(l, b) /\ SameDmc(l, b)
        /\ b.enabled = l.enabled /\ b.length = l.length /\ b.env = l.env
        /\ b.halt = l.halt /\ b.age = l.age
        /\ b.linear = [l.linear EXCEPT ![c].reload = TRUE]
    BY <1>3, <2>1, <2>3 DEF ApuState, SameFlow, SameDmc
  <2>5. \A d \in Triangles : /\ b.linear[d].value = l.linear[d].value
                             /\ b.linear[d].counter = l.linear[d].counter
                             /\ l.linear[d].reload => b.linear[d].reload
    BY <2>2, <2>4 DEF LinearState
  <2>6. Fades(b)
    BY <1>3, <2>4, <2>5 DEF Fades, LinearFaded
  <2>7. Sound(b) /\ SameTime(l, b)
    BY <1>1, <2>4, <2>6, WriteSound
  <2> QED  BY <1>1, <2>7 DEF SameTime, b
<1>5. CASE c \notin Triangles
  <2>0. c \in Enveloped
    BY <1>5, ChannelKinds
  <2> DEFINE t == IF c \in Noises THEN l.timer
                  ELSE [l.timer EXCEPT ![c] = (a.timer[c] % LowSize) + high * LowSize]
             e == [l.env EXCEPT ![c].start = TRUE]
  <2>1. b = [l EXCEPT !.env = e, !.timer = t]
    BY <1>2, <1>3, <1>5 DEF ApuState
  <2>2. l.env \in [Enveloped -> EnvelopeState] /\ l.timer \in [Pulses -> 0..TimerMax]
    BY <1>3 DEF ApuState
  <2>3. e \in [Enveloped -> EnvelopeState]
    BY <2>0, <2>2 DEF EnvelopeState
  <2>4. t \in [Pulses -> 0..TimerMax]
    <3>1. CASE c \in Noises
      BY <2>2, <3>1
    <3>2. CASE c \notin Noises
      <4>1. c \in Pulses
        BY <2>0, <3>2 DEF Enveloped
      <4>2. a.timer[c] \in 0..TimerMax /\ high \in 0..(HighSize - 1)
        BY <1>1, <2>2, <4>1, ApuAssumption
      <4>3. 0 \in 0..(LowSize - 1)
        BY UnitsAssumption
      <4>4. (a.timer[c] % LowSize) + high * LowSize \in 0..TimerMax
        BY <4>2, <4>3, TimerBytes
      <4> QED  BY <2>2, <3>2, <4>1, <4>4
    <3> QED  BY <3>1, <3>2
  <2>5. \A d \in Enveloped : /\ e[d].volume = l.env[d].volume /\ e[d].decay = l.env[d].decay
                             /\ e[d].divider = l.env[d].divider
    BY <2>2 DEF EnvelopeState
  <2> HIDE DEF e, t
  <2>6. /\ b \in ApuState /\ SameFlow(l, b) /\ SameDmc(l, b)
        /\ b.enabled = l.enabled /\ b.length = l.length /\ b.linear = l.linear
        /\ b.halt = l.halt /\ b.age = l.age /\ b.env = e
    BY <1>3, <2>1, <2>3, <2>4 DEF ApuState, SameFlow, SameDmc
  <2>7. Fades(b)
    BY <1>3, <2>5, <2>6 DEF Fades, EnvelopeFaded
  <2>8. Sound(b) /\ SameTime(l, b)
    BY <1>1, <2>6, <2>7, WriteSound
  <2> QED  BY <1>1, <2>8 DEF SameTime, b
<1> QED  BY <1>4, <1>5

LEMMA SetControlSound ==
  ASSUME NEW a, Sound(a), NEW c \in Channels, NEW on \in BOOLEAN, NEW v \in Nat
  PROVE  Sound(SetControl(a, c, on, v)) /\ SameTime(a, SetControl(a, c, on, v))
<1> DEFINE h == IF on THEN a.halt \cup {c} ELSE a.halt \ {c}
           l == IF c \in Triangles THEN [a.linear EXCEPT ![c].value = v] ELSE a.linear
           e == IF c \in Triangles THEN a.env ELSE [a.env EXCEPT ![c].volume = v]
           g == [a.age EXCEPT ![c] = -1]
           b == [a EXCEPT !.halt = h, !.age = g, !.linear = l, !.env = e]
<1>1. a \in ApuState /\ Fades(a)
  BY DEF Sound
<1>2. /\ a.linear \in [Triangles -> LinearState] /\ a.env \in [Enveloped -> EnvelopeState]
      /\ a.age \in [Channels -> Nat \cup {-1}] /\ a.halt \in SUBSET Channels
  BY <1>1 DEF ApuState
<1>3. h \in SUBSET Channels /\ \A d \in Channels : d # c => (d \in h <=> d \in a.halt)
  BY <1>2
<1>4. l \in [Triangles -> LinearState] /\ \A d \in Triangles : d # c => l[d] = a.linear[d]
  BY <1>2 DEF LinearState
<1>5. e \in [Enveloped -> EnvelopeState] /\ \A d \in Enveloped : d # c => e[d] = a.env[d]
  <2>1. CASE c \in Triangles
    BY <1>2, <2>1
  <2>2. CASE c \notin Triangles
    <3>1. c \in Enveloped
      BY <2>2, ChannelKinds
    <3> QED  BY <1>2, <2>2, <3>1 DEF EnvelopeState
  <2> QED  BY <2>1, <2>2
<1>6. /\ g \in [Channels -> Nat \cup {-1}] /\ g[c] = -1
      /\ \A d \in Channels : d # c => g[d] = a.age[d]
  BY <1>2
<1>7. SetControl(a, c, on, v) = b
  <2> DEFINE k == [a EXCEPT !.halt = h, !.age[c] = -1]
  <2>1. k = [a EXCEPT !.halt = h, !.age = g]
    BY <1>1 DEF ApuState
  <2>2. SetControl(a, c, on, v) = IF c \in Triangles THEN [k EXCEPT !.linear[c].value = v]
                                  ELSE [k EXCEPT !.env[c].volume = v]
    BY DEF SetControl
  <2> HIDE DEF h, g, k
  <2>3. CASE c \in Triangles
    <3>1. l = [a.linear EXCEPT ![c].value = v] /\ e = a.env
      BY <2>3
    <3>2. [k EXCEPT !.linear[c].value = v] = b
      BY <1>1, <2>1, <3>1 DEF ApuState
    <3> QED  BY <2>2, <2>3, <3>2
  <2>4. CASE c \notin Triangles
    <3>1. e = [a.env EXCEPT ![c].volume = v] /\ l = a.linear
      BY <2>4
    <3>2. [k EXCEPT !.env[c].volume = v] = b
      BY <1>1, <2>1, <3>1 DEF ApuState
    <3> QED  BY <2>2, <2>4, <3>2
  <2> QED  BY <2>3, <2>4
<1> HIDE DEF h, l, e, g
<1>8. /\ b \in ApuState /\ SameFlow(a, b) /\ SameDmc(a, b)
      /\ b.enabled = a.enabled /\ b.length = a.length
      /\ b.halt = h /\ b.linear = l /\ b.env = e /\ b.age = g
  BY <1>1, <1>3, <1>4, <1>5, <1>6 DEF ApuState, SameFlow, SameDmc
<1> HIDE DEF b
<1>9. Fades(b)
  <2>1. ASSUME NEW d \in Enveloped
        PROVE  EnvelopeFaded(b.env[d], b.age[d], d \in b.halt)
    BY <1>1, <1>3, <1>5, <1>6, <1>8, ChannelKinds DEF Fades, EnvelopeFaded
  <2>2. ASSUME NEW d \in Triangles
        PROVE  LinearFaded(b.linear[d], b.age[d], d \in b.halt)
    BY <1>1, <1>3, <1>4, <1>6, <1>8, ChannelKinds DEF Fades, LinearFaded
  <2> QED  BY <2>1, <2>2 DEF Fades
<1> QED  BY <1>7, <1>8, <1>9, WriteSound

LEMMA SetSweepSound ==
  ASSUME NEW a, Sound(a), NEW c \in Pulses, NEW on \in BOOLEAN, NEW negate \in BOOLEAN,
         NEW period \in SweepPeriods, NEW shift \in Shifts
  PROVE  /\ Sound(SetSweep(a, c, on, negate, period, shift))
         /\ SameTime(a, SetSweep(a, c, on, negate, period, shift))
<1> DEFINE r == [enabled |-> on, negate |-> negate, reload |-> TRUE,
                 period |-> period, shift |-> shift, divider |-> a.sweep[c].divider]
           b == [a EXCEPT !.sweep[c] = r]
<1>1. a \in ApuState /\ Fades(a)
  BY DEF Sound
<1>2. r \in SweepState
  <2>1. a.sweep[c].divider \in Nat /\ period \in Nat /\ shift \in 0..7
    BY <1>1, ApuAssumption DEF ApuState, SweepState
  <2> QED  BY <2>1 DEF SweepState
<1>3. SetSweep(a, c, on, negate, period, shift) = b
  BY DEF SetSweep
<1> HIDE DEF r
<1>4. /\ b \in ApuState /\ SameFlow(a, b) /\ SameDmc(a, b) /\ SameNotes(a, b)
      /\ b.enabled = a.enabled /\ b.length = a.length
  BY <1>1, <1>2 DEF ApuState, SameFlow, SameDmc, SameNotes
<1> QED  BY <1>1, <1>3, <1>4, ClockFades, WriteSound

LEMMA SetTimerLowSound ==
  ASSUME NEW a, Sound(a), NEW c \in Pulses, NEW low \in TimerLows
  PROVE  Sound(SetTimerLow(a, c, low)) /\ SameTime(a, SetTimerLow(a, c, low))
<1> DEFINE t == (a.timer[c] \div LowSize) * LowSize + low
           b == [a EXCEPT !.timer[c] = t]
<1>1. a \in ApuState /\ Fades(a)
  BY DEF Sound
<1>2. t \in 0..TimerMax
  <2>1. a.timer[c] \in 0..TimerMax /\ low \in 0..(LowSize - 1) /\ 0 \in 0..(HighSize - 1)
    BY <1>1, ApuAssumption, UnitsAssumption DEF ApuState
  <2> QED  BY <2>1, TimerBytes
<1>3. SetTimerLow(a, c, low) = b
  BY DEF SetTimerLow
<1> HIDE DEF t
<1>4. /\ b \in ApuState /\ SameFlow(a, b) /\ SameDmc(a, b) /\ SameNotes(a, b)
      /\ b.enabled = a.enabled /\ b.length = a.length
  BY <1>1, <1>2 DEF ApuState, SameFlow, SameDmc, SameNotes
<1> QED  BY <1>1, <1>3, <1>4, ClockFades, WriteSound

\* $4017 starts the sequence again, after a clock in five-step mode, and no IRQ of the
\* mode before it is left.
LEMMA SetModeSound ==
  ASSUME NEW a, Sound(a), NEW mode \in Modes
  PROVE  LET b == SetMode(a, mode) IN
         Sound(b) /\ b.fcnt = 1 /\ b.fhcnt = StepUnits /\ b.mode = mode
<1> DEFINE u == [a EXCEPT !.fcnt = 0]
           k == IF "five" \in mode THEN FrameUpdate(u) ELSE u
           b == [k EXCEPT !.fcnt = 1, !.fhcnt = StepUnits, !.frameIrq = FALSE, !.mode = mode]
<1>1. a \in ApuState /\ StatusTrue(a) /\ Fades(a)
  BY DEF Sound
<1>2. u \in ApuState /\ SameNotes(a, u) /\ SameSound(a, u) /\ SameDmc(a, u)
  BY <1>1 DEF ApuState, SameNotes, SameSound, SameDmc
<1>3. SetMode(a, mode) = b
  BY DEF SetMode
<1> HIDE DEF u
<1>4. /\ k \in ApuState /\ SameDmc(a, k) /\ k.enabled = a.enabled
      /\ \A c \in Channels : a.length[c] = 0 => k.length[c] = 0
      /\ SameNotes(a, k) \/ NotesClocked(a, k)
  <2>1. CASE "five" \in mode
    <3>1. k = FrameUpdate(u)
      BY <2>1
    <3>2. /\ k \in ApuState /\ SameDmc(u, k) /\ k.enabled = u.enabled
          /\ \A c \in Channels : u.length[c] = 0 => k.length[c] = 0
      BY <1>2, <3>1, FrameUpdateFields
    <3>3. NotesClocked(a, k)
      BY <1>1, <1>2, <3>1, UpdateClocksNotes
    <3> QED  BY <1>2, <3>2, <3>3 DEF SameDmc, SameSound
  <2>2. CASE "five" \notin mode
    <3>1. k = u
      BY <2>2
    <3> HIDE DEF k
    <3> QED  BY <1>2, <3>1 DEF SameSound
  <2> QED  BY <2>1, <2>2
<1> HIDE DEF k
<1>5. mode \in SUBSET {"inhibit", "five"} /\ StepUnits \in Int
  BY ApuAssumption
<1>6. /\ b \in ApuState /\ SameNotes(k, b) /\ SameSound(k, b) /\ SameDmc(k, b)
      /\ b.fcnt = 1 /\ b.fhcnt = StepUnits /\ b.frameIrq = FALSE /\ b.mode = mode
  <2>1. k \in ApuState
    BY <1>4
  <2> DEFINE z(f, h, i, m) == [k EXCEPT !.fcnt = f, !.fhcnt = h, !.frameIrq = i, !.mode = m]
             Good(f, h, i, m) ==
               /\ z(f, h, i, m) \in ApuState
               /\ SameNotes(k, z(f, h, i, m)) /\ SameSound(k, z(f, h, i, m))
               /\ SameDmc(k, z(f, h, i, m))
               /\ z(f, h, i, m).fcnt = f /\ z(f, h, i, m).fhcnt = h
               /\ z(f, h, i, m).frameIrq = i /\ z(f, h, i, m).mode = m
  <2>2. ASSUME NEW f \in 0..3, NEW h \in Int, NEW i \in BOOLEAN,
               NEW m \in SUBSET {"inhibit", "five"}
        PROVE  Good(f, h, i, m)
    <3>1. z(f, h, i, m) \in ApuState
      BY <2>1 DEF ApuState
    <3>2. SameNotes(k, z(f, h, i, m)) /\ SameSound(k, z(f, h, i, m))
      BY <2>1 DEF ApuState, SameNotes, SameSound
    <3>3. SameDmc(k, z(f, h, i, m))
      BY <2>1 DEF ApuState, SameDmc
    <3>4. /\ z(f, h, i, m).fcnt = f /\ z(f, h, i, m).fhcnt = h
          /\ z(f, h, i, m).frameIrq = i /\ z(f, h, i, m).mode = m
      BY <2>1 DEF ApuState
    <3> QED  BY <3>1, <3>2, <3>3, <3>4
  <2>3. 1 \in 0..3 /\ FALSE \in BOOLEAN
    OBVIOUS
  <2>4. b = z(1, StepUnits, FALSE, mode)
    OBVIOUS
  <2> HIDE DEF Good, z, b
  <2>5. Good(1, StepUnits, FALSE, mode)
    BY <1>5, <2>2, <2>3
  <2> QED  BY <2>4, <2>5 DEF Good
<1> HIDE DEF b
<1>7. Fades(b)
  BY <1>1, <1>4, <1>6, ClockFades
<1>8. StatusTrue(b)
  BY <1>1, <1>4, <1>6 DEF StatusTrue, IrqMeansEnd, SameDmc, SameSound
<1> QED  BY <1>3, <1>6, <1>7, <1>8 DEF Sound

LEMMA PowerOnSound ==
  Sound(PowerOn) /\ PowerOn.fhcnt = StepUnits /\ PowerOn.fcnt = 0 /\ PowerOn.mode = {}
<1>1. NewEnvelope \in EnvelopeState
  BY UnitsAssumption DEF NewEnvelope, EnvelopeState
<1>2. NewSweep \in SweepState /\ NewLinear \in LinearState
  BY DEF NewSweep, SweepState, NewLinear, LinearState
<1>3. 0 \in 0..TimerMax
  <2>1. 0 \in 0..TimerMax /\ 0 \in 0..(LowSize - 1) /\ 0 \in 0..(HighSize - 1)
    <3>1. LowSize - 1 \in Nat /\ HighSize - 1 \in Nat
      BY UnitsAssumption
    <3>2. (LowSize - 1) * HighSize \in Nat /\ LowSize * HighSize = (LowSize - 1) * HighSize + HighSize
      BY <3>1, UnitsAssumption
    <3> QED  BY <3>1, <3>2, UnitsAssumption DEF TimerMax
  <2> QED  BY <2>1
<1> DEFINE n == [c \in Channels |-> 0]
           e == [c \in Enveloped |-> NewEnvelope]
           s == [c \in Pulses |-> NewSweep]
           t == [c \in Pulses |-> 0]
           l == [c \in Triangles |-> NewLinear]
           g == [c \in Channels |-> -1]
           b == PowerOn
<1>4. /\ n \in [Channels -> Nat] /\ e \in [Enveloped -> EnvelopeState]
      /\ s \in [Pulses -> SweepState] /\ t \in [Pulses -> 0..TimerMax]
      /\ l \in [Triangles -> LinearState] /\ g \in [Channels -> Nat \cup {-1}]
  BY <1>1, <1>2, <1>3
<1>5. b = [fhcnt |-> StepUnits, fcnt |-> 0, mode |-> {}, frameIrq |-> FALSE, dmcIrq |-> FALSE,
           enabled |-> {}, halt |-> {}, length |-> n, env |-> e, sweep |-> s, timer |-> t,
           linear |-> l, age |-> g, loop |-> FALSE, irqOn |-> FALSE, latch |-> 1, size |-> 0,
           haveDma |-> FALSE, haveSample |-> FALSE, bits |-> 0, acc |-> 1,
           period |-> PowerPeriod]
  BY DEF PowerOn
<1>6. /\ \A c \in Channels : g[c] = -1
      /\ \A c \in Channels : n[c] = 0
  OBVIOUS
<1> HIDE DEF n, e, s, t, l, g, b
<1>7. b \in ApuState
  BY <1>4, <1>5, ApuAssumption DEF ApuState
<1>8. /\ b.fhcnt = StepUnits /\ b.fcnt = 0 /\ b.mode = {} /\ ~b.frameIrq /\ ~b.dmcIrq
      /\ b.age = g /\ b.length = n
  BY <1>5
<1>9. StatusTrue(b)
  BY <1>6, <1>8 DEF StatusTrue, IrqMeansEnd
<1>10. Fades(b)
  BY <1>6, <1>8, ChannelKinds DEF Fades, EnvelopeFaded, LinearFaded
<1> QED  BY <1>7, <1>8, <1>9, <1>10 DEF Sound, b

\* reset() keeps the units and with them how far the notes have faded.
LEMMA ResetSound ==
  ASSUME NEW a, Sound(a)
  PROVE  LET b == [PowerOn EXCEPT !.period = a.period, !.halt = a.halt, !.env = a.env,
                                  !.sweep = a.sweep, !.timer = a.timer,
                                  !.linear = a.linear, !.age = a.age]
         IN  Sound(b) /\ b.fhcnt = StepUnits /\ b.fcnt = 0 /\ b.mode = {}
<1> DEFINE b == [PowerOn EXCEPT !.period = a.period, !.halt = a.halt, !.env = a.env,
                                !.sweep = a.sweep, !.timer = a.timer,
                                !.linear = a.linear, !.age = a.age]
<1>1. /\ a \in ApuState /\ Fades(a)
      /\ PowerOn \in ApuState /\ StatusTrue(PowerOn)
      /\ PowerOn.fhcnt = StepUnits /\ PowerOn.fcnt = 0 /\ PowerOn.mode = {}
  BY PowerOnSound DEF Sound
<1>2. b \in ApuState
  <2>1. /\ a.period \in Periods /\ a.halt \in SUBSET Channels
        /\ a.env \in [Enveloped -> EnvelopeState] /\ a.sweep \in [Pulses -> SweepState]
        /\ a.timer \in [Pulses -> 0..TimerMax] /\ a.linear \in [Triangles -> LinearState]
        /\ a.age \in [Channels -> Nat \cup {-1}]
    BY <1>1 DEF ApuState
  <2>2. PowerOn \in ApuState
    BY <1>1
  <2> QED  BY <2>1, <2>2 DEF ApuState
<1>3. /\ b.fhcnt = PowerOn.fhcnt /\ b.fcnt = PowerOn.fcnt /\ b.mode = PowerOn.mode
      /\ b.frameIrq = PowerOn.frameIrq /\ b.enabled = PowerOn.enabled
      /\ b.length = PowerOn.length
      /\ b.dmcIrq = PowerOn.dmcIrq /\ b.irqOn = PowerOn.irqOn /\ b.size = PowerOn.size
  BY <1>1 DEF ApuState
<1>4. SameNotes(a, b)
  BY <1>1 DEF ApuState, SameNotes
<1> HIDE DEF b
<1>5. StatusTrue(b)
  BY <1>1, <1>3 DEF StatusTrue, IrqMeansEnd
<1>6. Fades(b)
  BY <1>1, <1>2, <1>4, ClockFades
<1> QED  BY <1>1, <1>2, <1>3, <1>5, <1>6 DEF Sound, b

\* Whatever access an instruction makes other than to $4017.
LEMMA AccessedSound ==
  ASSUME program \in Programs, NEW a, Sound(a), NEW b \in Accessed(a)
  PROVE  Sound(b) /\ SameTime(a, b)
<1>1. program.channels \subseteq Channels
  BY ApuAssumption
<1>2. CASE b = ReadStatus(a)
  BY <1>2, ReadStatusSound
<1>3. ASSUME NEW chans \in SUBSET program.channels, NEW dmc, b = Enable(a, chans, dmc)
      PROVE  Sound(b) /\ SameTime(a, b)
  BY <1>1, <1>3, EnableSound
<1>4. ASSUME NEW c \in program.channels, NEW n \in Lengths, NEW h \in TimerHighs,
             b = StartNote(a, c, n, h)
      PROVE  Sound(b) /\ SameTime(a, b)
  BY <1>1, <1>4, StartNoteSound
<1>5. ASSUME NEW c \in program.channels, NEW on \in BOOLEAN,
             NEW v \in IF "volume" \in program.writes THEN Volumes ELSE {0},
             b = SetControl(a, c, on, v)
      PROVE  Sound(b) /\ SameTime(a, b)
  <2>1. v \in Nat /\ c \in Channels
    BY <1>1, ApuAssumption
  <2> QED  BY <1>5, <2>1, SetControlSound
<1>6. ASSUME NEW c \in Pulses \cap program.channels, NEW on \in BOOLEAN, NEW neg \in BOOLEAN,
             NEW p \in SweepPeriods, NEW sh \in Shifts, b = SetSweep(a, c, on, neg, p, sh)
      PROVE  Sound(b) /\ SameTime(a, b)
  BY <1>6, SetSweepSound
<1>7. ASSUME NEW c \in Pulses \cap program.channels, NEW low \in TimerLows,
             b = SetTimerLow(a, c, low)
      PROVE  Sound(b) /\ SameTime(a, b)
  BY <1>7, SetTimerLowSound
<1>8. ASSUME NEW loop \in DmcBits, NEW irqOn \in DmcBits, NEW p \in Periods,
             b = SetDmc(a, loop, irqOn, p)
      PROVE  Sound(b) /\ SameTime(a, b)
  <2>1. loop \in BOOLEAN /\ irqOn \in BOOLEAN
    BY ApuAssumption
  <2> QED  BY <1>8, <2>1, SetDmcSound
<1>9. ASSUME NEW n \in SampleSizes, b = SetSize(a, n)
      PROVE  Sound(b) /\ SameTime(a, b)
  BY <1>9, SetSizeSound
<1>10. \/ b = ReadStatus(a)
       \/ \E chans \in SUBSET program.channels,
             dmc \in IF "dmc" \in program.writes THEN DmcBits ELSE {FALSE} :
               b = Enable(a, chans, dmc)
       \/ \E c \in program.channels, n \in Lengths, h \in TimerHighs : b = StartNote(a, c, n, h)
       \/ \E c \in program.channels, on \in BOOLEAN,
             v \in IF "volume" \in program.writes THEN Volumes ELSE {0} :
               b = SetControl(a, c, on, v)
       \/ \E c \in Pulses \cap program.channels, on \in BOOLEAN, neg \in BOOLEAN,
             p \in SweepPeriods, sh \in Shifts : b = SetSweep(a, c, on, neg, p, sh)
       \/ \E c \in Pulses \cap program.channels, low \in TimerLows :
             b = SetTimerLow(a, c, low)
       \/ \E loop \in DmcBits, irqOn \in DmcBits, p \in Periods :
             b = SetDmc(a, loop, irqOn, p)
       \/ \E n \in SampleSizes : b = SetSize(a, n)
  <2> DEFINE groups == program.writes
             pulses == Pulses \cap program.channels
             enables == {Enable(a, chans, dmc) : chans \in SUBSET program.channels,
                           dmc \in IF "dmc" \in groups THEN DmcBits ELSE {FALSE}}
             notes == {StartNote(a, c, n, h) : c \in program.channels, n \in Lengths,
                         h \in TimerHighs}
             controls == {SetControl(a, c, on, v) : c \in program.channels, on \in BOOLEAN,
                            v \in IF "volume" \in groups THEN Volumes ELSE {0}}
             sweeps == {SetSweep(a, c, on, neg, p, sh) : c \in pulses, on \in BOOLEAN,
                          neg \in BOOLEAN, p \in SweepPeriods, sh \in Shifts}
             lows == {SetTimerLow(a, c, low) : c \in pulses, low \in TimerLows}
             formats == {SetDmc(a, loop, irqOn, p) : loop \in DmcBits, irqOn \in DmcBits,
                           p \in Periods}
             sizes == {SetSize(a, n) : n \in SampleSizes}
  <2>1. Accessed(a) =
          {ReadStatus(a)} \cup enables
            \cup (IF "length" \notin groups THEN {} ELSE notes \cup controls)
            \cup (IF "sweep" \notin groups THEN {} ELSE sweeps \cup lows)
            \cup (IF "dmc" \notin groups THEN {} ELSE formats \cup sizes)
    BY DEF Accessed
  <2> HIDE DEF groups, enables, notes, controls, sweeps, lows, formats, sizes
  <2>2. \/ b = ReadStatus(a) \/ b \in enables \/ b \in notes \/ b \in controls
        \/ b \in sweeps \/ b \in lows \/ b \in formats \/ b \in sizes
    BY <2>1, Zenon
  <2>3. b \in enables => \E chans \in SUBSET program.channels,
                           dmc \in IF "dmc" \in program.writes THEN DmcBits ELSE {FALSE} :
                             b = Enable(a, chans, dmc)
    <3> DEFINE sets == SUBSET program.channels
               bits == IF "dmc" \in program.writes THEN DmcBits ELSE {FALSE}
    <3>1. enables = {Enable(a, chans, dmc) : chans \in sets, dmc \in bits}
      BY DEF enables, groups
    <3> HIDE DEF sets, bits
    <3>2. b \in enables => \E chans \in sets, dmc \in bits : b = Enable(a, chans, dmc)
      BY <3>1
    <3> QED  BY <3>2 DEF sets, bits
  <2>4. b \in notes => \E c \in program.channels, n \in Lengths, h \in TimerHighs :
                         b = StartNote(a, c, n, h)
    BY DEF notes
  <2>5. b \in controls => \E c \in program.channels, on \in BOOLEAN,
                            v \in IF "volume" \in program.writes THEN Volumes ELSE {0} :
                              b = SetControl(a, c, on, v)
    BY DEF controls, groups
  <2>6. b \in sweeps => \E c \in Pulses \cap program.channels, on \in BOOLEAN,
                          neg \in BOOLEAN, p \in SweepPeriods, sh \in Shifts :
                            b = SetSweep(a, c, on, neg, p, sh)
    BY DEF sweeps
  <2>7. b \in lows => \E c \in Pulses \cap program.channels, low \in TimerLows :
                        b = SetTimerLow(a, c, low)
    BY DEF lows
  <2>8. b \in formats => \E loop \in DmcBits, irqOn \in DmcBits, p \in Periods :
                           b = SetDmc(a, loop, irqOn, p)
    BY DEF formats
  <2>9. b \in sizes => \E n \in SampleSizes : b = SetSize(a, n)
    BY DEF sizes
  <2> QED  BY <2>2, <2>3, <2>4, <2>5, <2>6, <2>7, <2>8, <2>9, Zenon
<1> QED  BY <1>2, <1>3, <1>4, <1>5, <1>6, <1>7, <1>8, <1>9, <1>10

-----------------------------------------------------------------------------
(* The invariant.                                                          *)

\* The next call covers at most one step of the sequencer, whatever the last one left.
CallsShort ==
  \A b \in program.bases, e \in program.extras : Units * (lag + b) <= StepUnits

\* The time since the last half-frame clock and the time until the next step always add
\* up to a whole number of steps.
HalfSum ==
  sinceHalf + apu.fhcnt
    = IF apu.fcnt % 2 = 1 THEN StepUnits
      ELSE IF "five" \in apu.mode /\ apu.fcnt = 0 THEN 3 * StepUnits
      ELSE 2 * StepUnits

ApuInv ==
  /\ program \in Programs /\ lag \in Nat /\ sinceHalf \in Int
  /\ Sound(apu)
  /\ NoStepOverdue
  /\ CallsShort
  /\ HalfSum

\* A call is at most a step long, also with less than the most that may be left for it.
LEMMA CallFits ==
  ASSUME NEW p \in Programs, NEW b \in p.bases, NEW e \in p.extras, NEW n \in Nat,
         n <= e + StallCost
  PROVE  Units * (n + b) <= StepUnits
<1>1. b \in Nat /\ e \in Nat /\ Units * (b + e + StallCost) <= StepUnits
  BY ApuAssumption
<1>2. Units \in Nat /\ StallCost \in Nat /\ StepUnits \in Nat
  BY ApuAssumption
<1> DEFINE d == e + StallCost - n
<1>3. d \in Nat /\ b + e + StallCost = (n + b) + d
  BY <1>1, <1>2
<1> HIDE DEF d
<1>4. Units * ((n + b) + d) = Units * (n + b) + Units * d /\ Units * d \in Nat
  BY <1>1, <1>2, <1>3
<1>5. Units * (n + b) \in Nat
  BY <1>1, <1>2
<1> QED  BY <1>1, <1>2, <1>3, <1>4, <1>5

LEMMA InitInv == Init => ApuInv
<1> SUFFICES ASSUME Init PROVE ApuInv
  OBVIOUS
<1>1. /\ Sound(apu) /\ apu.fhcnt = StepUnits /\ apu.fcnt = 0 /\ apu.mode = {}
      /\ program \in Programs /\ lag = 0 /\ sinceHalf = StepUnits
  BY PowerOnSound DEF Init
<1>2. CallsShort
  <2> SUFFICES ASSUME NEW b \in program.bases, NEW e \in program.extras
               PROVE  Units * (lag + b) <= StepUnits
    BY DEF CallsShort
  <2>1. e \in Nat /\ 0 \in Nat /\ 0 <= e + StallCost
    BY <1>1, ApuAssumption
  <2>2. Units * (0 + b) <= StepUnits
    BY <1>1, <2>1, CallFits
  <2> QED  BY <1>1, <2>2
<1>3. NoStepOverdue
  BY <1>1, ApuAssumption DEF NoStepOverdue
<1>4. HalfSum
  BY <1>1, ApuAssumption DEF HalfSum
<1> QED  BY <1>1, <1>2, <1>3, <1>4, ApuAssumption DEF ApuInv

\* One call of advance() with what was left of the last instruction and the base of this
\* one: no step is overdue after it, and the half-frame clocks stay where they belong.
LEMMA CallKeepsTime ==
  ASSUME ApuInv, NEW base \in program.bases, NEW extra \in program.extras,
         NEW b, SameTime(Sequencer(apu, lag + base), b)
  PROVE  /\ lag + base \in Nat
         /\ b.fhcnt > 0
         /\ SinceHalf(apu, lag + base) \in Int
         /\ SinceHalf(apu, lag + base) + b.fhcnt
              = IF b.fcnt % 2 = 1 THEN StepUnits
                ELSE IF "five" \in b.mode /\ b.fcnt = 0 THEN 3 * StepUnits
                ELSE 2 * StepUnits
<1> DEFINE cycles == lag + base
           spent == Units * cycles
           left == apu.fhcnt - spent
<1>1. /\ apu \in ApuState /\ cycles \in Nat /\ sinceHalf \in Int /\ apu.fhcnt > 0 /\ HalfSum
      /\ spent <= StepUnits /\ spent \in Nat /\ StepUnits \in Nat \ {0}
  <2>1. lag \in Nat /\ base \in Nat /\ Units \in Nat /\ StepUnits \in Nat \ {0}
    BY ApuAssumption DEF ApuInv
  <2>2. lag + base \in Nat /\ Units * (lag + base) \in Nat
    BY <2>1
  <2> QED  BY <2>1, <2>2 DEF ApuInv, Sound, NoStepOverdue, CallsShort
<1>2. /\ left > 0 => b.fcnt = apu.fcnt /\ b.fhcnt = left
      /\ left <= 0 => /\ b.fcnt = (apu.fcnt + 1) % 4
                      /\ b.fhcnt = left + StepUnits
                           + (IF apu.fcnt = 3 /\ "five" \in apu.mode THEN StepUnits ELSE 0)
      /\ b.mode = apu.mode
  BY <1>1, SequencerFields DEF SameTime
<1>3. SinceHalf(apu, cycles) = IF left <= 0 /\ apu.fcnt % 2 = 0 THEN spent - apu.fhcnt
                               ELSE sinceHalf + spent
  BY DEF SinceHalf, HalfDue
<1>4. apu.fhcnt \in Int /\ apu.fcnt \in 0..3
  BY <1>1 DEF ApuState
<1>5. left = apu.fhcnt - spent
  OBVIOUS
<1> DEFINE five == "five" \in apu.mode
<1>6. sinceHalf + apu.fhcnt = IF apu.fcnt % 2 = 1 THEN StepUnits
                              ELSE IF five /\ apu.fcnt = 0 THEN 3 * StepUnits
                              ELSE 2 * StepUnits
  BY <1>1 DEF HalfSum
<1>7. b.fhcnt > 0
  BY <1>1, <1>2, <1>4, <1>5
<1>8. "five" \in b.mode <=> five
  BY <1>2
<1> HIDE DEF spent, left, cycles, five
<1>9. CASE left > 0
  BY <1>1, <1>2, <1>3, <1>4, <1>5, <1>6, <1>7, <1>8, <1>9 DEF cycles
<1>10. CASE left <= 0
  <2>1. CASE apu.fcnt = 0
    BY <1>1, <1>2, <1>3, <1>4, <1>5, <1>6, <1>7, <1>8, <1>10, <2>1 DEF cycles
  <2>2. CASE apu.fcnt = 1
    BY <1>1, <1>2, <1>3, <1>4, <1>5, <1>6, <1>7, <1>8, <1>10, <2>2 DEF cycles
  <2>3. CASE apu.fcnt = 2
    BY <1>1, <1>2, <1>3, <1>4, <1>5, <1>6, <1>7, <1>8, <1>10, <2>3 DEF cycles
  <2>4. CASE apu.fcnt = 3
    BY <1>1, <1>2, <1>3, <1>4, <1>5, <1>6, <1>7, <1>8, <1>10, <2>4 DEF cycles, five
  <2> QED  BY <1>4, <2>1, <2>2, <2>3, <2>4
<1> QED  BY <1>1, <1>4, <1>5, <1>9, <1>10

\* What an instruction leaves for the next call is at most what the assumption allows.
LEMMA LagShort ==
  ASSUME program \in Programs, NEW extra \in program.extras, NEW fetch \in BOOLEAN,
         lag' = extra + (IF fetch THEN StallCost ELSE 0), program' = program
  PROVE  lag' \in Nat /\ CallsShort'
<1>1. extra \in Nat /\ StallCost \in Nat
  BY ApuAssumption
<1>2. lag' \in Nat /\ lag' <= extra + StallCost
  BY <1>1
<1>3. ASSUME NEW b \in program.bases
      PROVE  Units * (lag' + b) <= StepUnits
  BY <1>2, CallFits
<1> QED  BY <1>2, <1>3 DEF CallsShort

LEMMA NextInv == ApuInv /\ [Next]_vars => ApuInv'
<1> SUFFICES ASSUME ApuInv, [Next]_vars PROVE ApuInv'
  OBVIOUS
<1>1. /\ program \in Programs /\ lag \in Nat /\ Sound(apu)
      /\ StepUnits \in Nat \ {0}
  BY ApuAssumption DEF ApuInv
<1>2. ASSUME NEW base \in program.bases, NEW extra \in program.extras, Run(base, extra),
             NEW fetch \in BOOLEAN, lag' = extra + (IF fetch THEN StallCost ELSE 0),
             apu' \in Accessed(Advanced(apu, lag + base)) \/ apu' = Advanced(apu, lag + base)
      PROVE  ApuInv'
  <2> DEFINE a == Advanced(apu, lag + base)
  <2>1. program' = program /\ sinceHalf' = SinceHalf(apu, lag + base)
    BY <1>2 DEF Run
  <2>2. lag' \in Nat /\ CallsShort'
    BY <1>1, <1>2, <2>1, LagShort
  <2>3. lag + base \in Nat
    BY <1>1, ApuAssumption
  <2>4. Sound(a) /\ SameTime(Sequencer(apu, lag + base), a)
    BY <1>1, <2>3, AdvancedSound
  <2> HIDE DEF a
  <2>5. Sound(apu') /\ SameTime(a, apu')
    BY <1>1, <1>2, <2>4, AccessedSound DEF a, SameTime
  <2>6. SameTime(Sequencer(apu, lag + base), apu')
    BY <2>4, <2>5 DEF SameTime
  <2>7. /\ apu'.fhcnt > 0 /\ sinceHalf' \in Int
        /\ sinceHalf' + apu'.fhcnt
              = IF apu'.fcnt % 2 = 1 THEN StepUnits
                ELSE IF "five" \in apu'.mode /\ apu'.fcnt = 0 THEN 3 * StepUnits
                ELSE 2 * StepUnits
    BY <2>1, <2>6, CallKeepsTime
  <2> QED  BY <1>1, <2>1, <2>2, <2>5, <2>7 DEF ApuInv, NoStepOverdue, HalfSum
<1>3. ASSUME NEW base \in program.bases, NEW extra \in program.extras,
             Compute(base, extra) \/ Access(base, extra)
      PROVE  ApuInv'
  <2> DEFINE fetch == FetchDue(Sequencer(apu, lag + base))
  <2>1. Run(base, extra) /\ lag' = extra + (IF fetch THEN StallCost ELSE 0)
    BY <1>3 DEF Compute, Access, Run
  <2>2. fetch \in BOOLEAN
    BY DEF FetchDue
  <2>3. apu' \in Accessed(Advanced(apu, lag + base)) \/ apu' = Advanced(apu, lag + base)
    BY <1>3 DEF Compute, Access
  <2> HIDE DEF fetch
  <2> QED  BY <1>2, <2>1, <2>2, <2>3
<1>4. ASSUME NEW base \in program.bases, NEW extra \in program.extras, ModeWrite(base, extra)
      PROVE  ApuInv'
  <2> DEFINE fetch == FetchDue(Sequencer(apu, lag + base))
  <2>1. /\ program' = program /\ lag' = extra + (IF fetch THEN StallCost ELSE 0)
        /\ sinceHalf' = 0
    BY <1>4 DEF ModeWrite
  <2>2. fetch \in BOOLEAN
    BY DEF FetchDue
  <2> HIDE DEF fetch
  <2>3. lag' \in Nat /\ CallsShort'
    BY <1>1, <2>1, <2>2, LagShort
  <2>4. lag + base \in Nat
    BY <1>1, ApuAssumption
  <2>5. PICK mode \in Modes : apu' = SetMode(Advanced(apu, lag + base), mode)
    BY <1>4 DEF ModeWrite
  <2>6. Sound(Advanced(apu, lag + base))
    BY <1>1, <2>4, AdvancedSound
  <2>7. Sound(apu') /\ apu'.fcnt = 1 /\ apu'.fhcnt = StepUnits
    BY <2>5, <2>6, SetModeSound
  <2> QED  BY <1>1, <2>1, <2>3, <2>7 DEF ApuInv, NoStepOverdue, HalfSum
<1>5. CASE Reset
  <2>1. Sound(apu') /\ apu'.fhcnt = StepUnits /\ apu'.fcnt = 0 /\ apu'.mode = {}
    BY <1>1, <1>5, ResetSound DEF Reset
  <2>2. sinceHalf' = StepUnits /\ program' = program /\ lag' = lag
    BY <1>5 DEF Reset
  <2>3. CallsShort'
    BY <2>2 DEF ApuInv, CallsShort
  <2> QED  BY <1>1, <2>1, <2>2, <2>3 DEF ApuInv, NoStepOverdue, HalfSum
<1>6. CASE Power
  <2>1. Sound(apu') /\ apu'.fhcnt = StepUnits /\ apu'.fcnt = 0 /\ apu'.mode = {}
    BY <1>6, PowerOnSound DEF Power
  <2>2. sinceHalf' = StepUnits /\ program' = program /\ lag' = 0
    BY <1>6 DEF Power
  <2>3. ASSUME NEW b \in program.bases, NEW e \in program.extras
        PROVE  Units * (lag' + b) <= StepUnits
    <3>1. 0 \in Nat /\ 0 <= e + StallCost
      BY <1>1, ApuAssumption
    <3>2. Units * (0 + b) <= StepUnits
      BY <1>1, <3>1, CallFits
    <3> QED  BY <2>2, <3>2
  <2>4. CallsShort'
    BY <2>2, <2>3 DEF CallsShort
  <2> QED  BY <1>1, <2>1, <2>2, <2>4 DEF ApuInv, NoStepOverdue, HalfSum
<1>7. CASE UNCHANGED vars
  BY <1>7 DEF vars, ApuInv, NoStepOverdue, CallsShort, HalfSum
<1> QED  BY <1>3, <1>4, <1>5, <1>6, <1>7 DEF Next, Instruction

THEOREM Invariant == Spec => []ApuInv
<1> QED  BY InitInv, NextInv, PTL DEF Spec

-----------------------------------------------------------------------------
(* What the runs check, for every value of the constants.                  *)

\* The APU's state keeps its types; a pulse's timer stays in its eleven bits under any
\* sequence of sweeps and writes, and never wraps below zero.
THEOREM TypeCorrect == Spec => []TypeOK
<1>1. ApuInv => TypeOK
  BY DEF ApuInv, Sound, ApuState, TypeOK, EnvelopeState, SweepState, LinearState
<1> QED  BY <1>1, Invariant, PTL

\* What $4015 reports is true of the unit (apu.cpp, read_status() and frame_update()).
THEOREM StatusTold == Spec => []StatusMeansIt
<1>1. ApuInv => StatusMeansIt
  BY DEF ApuInv, Sound, StatusTrue, IrqMeansEnd, StatusMeansIt
<1> QED  BY <1>1, Invariant, PTL

\* One step of the sequencer per call is enough: none is overdue after any call.
THEOREM StepsKeepUp == Spec => []NoStepOverdue
<1>1. ApuInv => NoStepOverdue
  BY DEF ApuInv
<1> QED  BY <1>1, Invariant, PTL

\* Notes fade at their pace and triangles sound for their time, however the clocks, the
\* mode changes, the writes and a reset fall between (Envelope::tick(), tick_linear()).
THEOREM NotesKeepPace == Spec => []NotesFade
<1>1. ASSUME Sound(apu), NEW c \in Enveloped, apu.age[c] >= 0
      PROVE  LET levels == apu.age[c] \div (apu.env[c].volume + 1)
             IN  apu.env[c].decay = IF c \in apu.halt THEN MaxDecay - (levels % (MaxDecay + 1))
                                    ELSE MaxDecay - Least(levels, MaxDecay)
  <2> DEFINE age == apu.age[c]
             p == apu.env[c].volume + 1
             q == age \div p
             m == MaxDecay
  <2>1. age \in Nat /\ p \in Nat \ {0} /\ m \in Nat /\ apu.env[c].decay \in Int
    BY <1>1, ChannelKinds, UnitsAssumption DEF Sound, ApuState, EnvelopeState
  <2>2. /\ c \in apu.halt => age < p * (m + 1)
        /\ c \notin apu.halt => age <= p * m
        /\ apu.env[c].decay = m - q
    BY <1>1 DEF Sound, Fades, EnvelopeFaded
  <2> HIDE DEF age, p, m
  <2>3. q \in Nat /\ age = p * q + (age % p) /\ age % p \in Nat
    BY <2>1, DivMod
  <2>4. c \in apu.halt => q < m + 1
    <3> SUFFICES ASSUME c \in apu.halt PROVE q < m + 1
      OBVIOUS
    <3>1. m + 1 \in Nat
      BY <2>1
    <3> QED  BY <2>1, <2>2, <3>1, DivBelow
  <2>5. c \notin apu.halt => q <= m
    <3> SUFFICES ASSUME c \notin apu.halt PROVE q < m + 1
      BY <2>1, <2>3
    <3>1. m + 1 \in Nat /\ p * (m + 1) = p * m + p
      BY <2>1, TimesGrows
    <3>2. age < p * (m + 1)
      BY <2>1, <2>2, <3>1
    <3> QED  BY <2>1, <3>1, <3>2, DivBelow
  <2> HIDE DEF q
  <2>6. c \in apu.halt => q % (m + 1) = q
    <3> DEFINE n == m + 1
    <3>1. n \in Nat \ {0} /\ (c \in apu.halt => q < n)
      BY <2>1, <2>4
    <3> HIDE DEF n
    <3>2. c \in apu.halt => q % n = q
      BY <2>3, <3>1
    <3> QED  BY <3>2 DEF n
  <2>7. c \notin apu.halt => Least(q, m) = q
    BY <2>1, <2>3, <2>5 DEF Least
  <2>8. apu.env[c].decay = IF c \in apu.halt THEN m - (q % (m + 1)) ELSE m - Least(q, m)
    BY <2>2, <2>6, <2>7
  <2> QED  BY <2>8 DEF q, p, age, m
<1>2. ASSUME Sound(apu), NEW c \in Triangles, apu.age[c] >= 0
      PROVE  apu.linear[c].counter
               = apu.linear[c].value - Least(apu.age[c], apu.linear[c].value)
  <2>1. apu.age[c] \in Nat /\ apu.linear[c].value \in Nat
    BY <1>2, ChannelKinds DEF Sound, ApuState, LinearState
  <2>2. /\ apu.age[c] <= apu.linear[c].value
        /\ apu.linear[c].counter = apu.linear[c].value - apu.age[c]
    BY <1>2 DEF Sound, Fades, LinearFaded
  <2> QED  BY <2>1, <2>2 DEF Least
<1>3. ApuInv => NotesFade
  BY <1>1, <1>2 DEF ApuInv, NotesFade
<1> QED  BY <1>3, Invariant, PTL

\* Half-frame clocks are due two steps apart, three across the end of a five-step
\* sequence, however the time is cut into calls (advance() and frame_clock()).
THEOREM HalfFramesKept == Spec => HalfFramesOnTime
<1>1. ASSUME ApuInv, NEW base \in program.bases, NEW extra \in program.extras,
             HalfDue(apu, lag + base)
      PROVE  sinceHalf + apu.fhcnt
               = IF "five" \in apu.mode /\ apu.fcnt = 0 THEN 3 * StepUnits ELSE 2 * StepUnits
  BY <1>1 DEF ApuInv, HalfSum, HalfDue
<1>2. ApuInv =>
        [\A base \in program.bases, extra \in program.extras :
           (HalfDue(apu, lag + base) /\ Compute(base, extra)) =>
              sinceHalf + apu.fhcnt
                = IF "five" \in apu.mode /\ apu.fcnt = 0 THEN 3 * StepUnits
                  ELSE 2 * StepUnits]_vars
  BY <1>1
<1> QED  BY <1>2, Invariant, PTL DEF HalfFramesOnTime

\* The output unit does not run dry while bytes are left, unless one call covers more
\* than a byte's time (the DMC part of advance()).
THEOREM SamplesFlow == Spec => NoUnderrun
<1>1. ASSUME ApuInv, NEW base \in program.bases, NEW extra \in program.extras,
             lag + base <= Bits * apu.period, apu.haveSample, apu.size > 0,
             Compute(base, extra)
      PROVE  apu'.haveSample
  <2>1. lag + base \in Nat /\ Sound(apu)
    BY <1>1, ApuAssumption DEF ApuInv
  <2>2. apu' = Advanced(apu, lag + base)
    BY <1>1 DEF Compute
  <2> QED  BY <1>1, <2>1, <2>2, AdvancedSound
<1>2. ApuInv =>
        [\A base \in program.bases, extra \in program.extras :
           (/\ lag + base <= Bits * apu.period
            /\ apu.haveSample /\ apu.size > 0
            /\ Compute(base, extra)) => apu'.haveSample]_vars
  BY <1>1
<1> QED  BY <1>2, Invariant, PTL DEF NoUnderrun
=============================================================================
