----------------------------- MODULE ReplayProofs -----------------------------
(***************************************************************************)
(* Proofs about Replay, for every replay file and any number of reads: the *)
(* types, that each controller read returns the bit of the frame's record  *)
(* that its place in the report demands, and that the line-by-line reader  *)
(* accepts and keeps what the grammar of the whole file says.              *)
(***************************************************************************)
EXTENDS Replay, FiniteSetTheorems, SequenceTheorems, WellFoundedInduction, TLAPS

-----------------------------------------------------------------------------
(* Counting, induction, and FlattenSeq one sequence at a time.             *)

\* A remainder may be taken before the next step is counted.
LEMMA NextRemainder ==
  ASSUME NEW n \in Nat, NEW m \in Nat \ {0}
  PROVE  ((n % m) + 1) % m = (n + 1) % m
<1> DEFINE r == n % m
           q == n \div m
<1>1. r \in 0..(m - 1) /\ q \in Nat /\ n = m * q + r
  OBVIOUS
<1> HIDE DEF r, q
<1>2. CASE r + 1 < m
  <2>1. (r + 1) % m = r + 1
    BY <1>1, <1>2
  <2>2. (n + 1) % m = r + 1
    <3>1. n + 1 = m * q + (r + 1) /\ r + 1 \in 0..(m - 1)
      BY <1>1, <1>2
    <3> QED  BY <1>1, <3>1
  <2> QED  BY <2>1, <2>2 DEF r
<1>3. CASE r + 1 = m
  <2>1. (r + 1) % m = 0
    BY <1>1, <1>3
  <2>2. n + 1 = m * (q + 1)
    BY <1>1, <1>3
  <2>3. (n + 1) % m = 0
    BY <1>1, <2>2
  <2> QED  BY <2>1, <2>3 DEF r
<1> QED  BY <1>1, <1>2, <1>3

\* A set that holds 0 and with every number the next one holds them all: < has no
\* infinite descent.
LEMMA SetInduction ==
  ASSUME NEW S, 0 \in S, \A n \in Nat : n \in S => n + 1 \in S
  PROVE  Nat \subseteq S
<1> DEFINE R == OpToRel(<, Nat)
           T == Nat \ S
<1> SUFFICES ASSUME T # {} PROVE FALSE
  OBVIOUS
<1>1. IsWellFoundedOn(R, Nat)
  BY NatLessThanWellFounded
<1>2. \A x, y \in Nat : y < x => <<y, x>> \in R
  BY DEF OpToRel
<1> HIDE DEF R
<1>3. PICK x \in T : \A y \in T : ~(<<y, x>> \in R)
  BY <1>1, WFMin
<1>4. x \in Nat /\ x \notin S /\ x # 0
  OBVIOUS
<1>5. x - 1 \in Nat /\ x - 1 < x
  BY <1>4
<1>6. <<x - 1, x>> \in R
  BY <1>2, <1>4, <1>5
<1>7. x - 1 \in S
  BY <1>3, <1>5, <1>6
<1>8. (x - 1) + 1 \in S
  BY <1>5, <1>7
<1> QED  BY <1>4, <1>8

\* joined[i] is the first i of the sequences p, one after the other.
IsFlat(joined, p, n) == joined = [i \in 1..n |-> IF i = 1 THEN p[i] ELSE joined[i - 1] \o p[i]]

LEMMA FlatExist == \A p : \A n \in Nat : \E joined : IsFlat(joined, p, n)
<1> SUFFICES ASSUME NEW p PROVE \A n \in Nat : \E joined : IsFlat(joined, p, n)
  OBVIOUS
<1> DEFINE S == {n \in Nat : \E joined : IsFlat(joined, p, n)}
<1>1. 0 \in S
  <2> DEFINE g == [i \in 1..0 |-> p[i]]
  <2>1. g = [i \in 1..0 |-> IF i = 1 THEN p[i] ELSE g[i - 1] \o p[i]]
    OBVIOUS
  <2> HIDE DEF g
  <2>2. IsFlat(g, p, 0)
    BY <2>1 DEF IsFlat
  <2> QED  BY <2>2
<1>2. ASSUME NEW n \in Nat, n \in S
      PROVE  n + 1 \in S
  <2>1. PICK joined : IsFlat(joined, p, n)
    BY <1>2
  <2> DEFINE last == IF n = 0 THEN p[1] ELSE joined[n] \o p[n + 1]
             g == [i \in 1..(n + 1) |-> IF i <= n THEN joined[i] ELSE last]
  <2>2. \A i \in 1..n : joined[i] = IF i = 1 THEN p[i] ELSE joined[i - 1] \o p[i]
    BY <2>1 DEF IsFlat
  <2>3. ASSUME NEW i \in 1..(n + 1)
        PROVE  g[i] = IF i = 1 THEN p[i] ELSE g[i - 1] \o p[i]
    <3>1. CASE i <= n
      <4>1. i \in 1..n /\ (i # 1 => i - 1 \in 1..(n + 1) /\ i - 1 <= n)
        BY <3>1
      <4>2. g[i] = joined[i] /\ (i # 1 => g[i - 1] = joined[i - 1])
        BY <3>1, <4>1
      <4> HIDE DEF g
      <4> QED  BY <2>2, <4>1, <4>2
    <3>2. CASE ~(i <= n)
      <4>1. i = n + 1 /\ (i # 1 => n # 0 /\ i - 1 = n /\ n \in 1..(n + 1) /\ n <= n)
            /\ (i = 1 => n = 0)
        BY <3>2
      <4>2. g[i] = last /\ (i # 1 => g[n] = joined[n])
        BY <3>2, <4>1
      <4> HIDE DEF g
      <4> QED  BY <4>1, <4>2
    <3> QED  BY <3>1, <3>2
  <2>4. g = [i \in 1..(n + 1) |-> g[i]]
    OBVIOUS
  <2> HIDE DEF g
  <2>5. g = [i \in 1..(n + 1) |-> IF i = 1 THEN p[i] ELSE g[i - 1] \o p[i]]
    BY <2>3, <2>4
  <2>6. IsFlat(g, p, n + 1)
    BY <2>5 DEF IsFlat
  <2> QED  BY <2>6
<1> HIDE DEF S
<1>3. Nat \subseteq S
  BY <1>1, <1>2, SetInduction
<1> QED  BY <1>3 DEF S

\* q goes on where p, of n elements, ends.
Extends(q, p, n) == \A i \in 1..n : q[i] = p[i]

LEMMA FlatAgree ==
  ASSUME NEW n \in Nat, NEW m \in Nat, n <= m, NEW p, NEW q, Extends(q, p, n),
         NEW joined, NEW g, IsFlat(joined, p, n), IsFlat(g, q, m)
  PROVE  Extends(g, joined, n)
<1> DEFINE S == {i \in Nat : i \in 1..n => joined[i] = g[i]}
<1>1. /\ \A i \in 1..n : joined[i] = IF i = 1 THEN p[i] ELSE joined[i - 1] \o p[i]
      /\ \A i \in 1..m : g[i] = IF i = 1 THEN q[i] ELSE g[i - 1] \o q[i]
  BY DEF IsFlat
<1>2. 0 \in S
  OBVIOUS
<1>3. ASSUME NEW i \in Nat, i \in S
      PROVE  i + 1 \in S
  <2> SUFFICES ASSUME i + 1 \in 1..n PROVE joined[i + 1] = g[i + 1]
    OBVIOUS
  <2> DEFINE j == i + 1
  <2>1. j \in 1..n /\ j \in 1..m /\ j - 1 = i /\ (j # 1 => i \in 1..n)
    OBVIOUS
  <2>2. j # 1 => joined[i] = g[i]
    BY <1>3, <2>1
  <2>3. q[j] = p[j]
    BY <2>1 DEF Extends
  <2> HIDE DEF j
  <2>4. joined[j] = g[j]
    BY <1>1, <2>1, <2>2, <2>3
  <2> QED  BY <2>4 DEF j
<1> HIDE DEF S
<1>4. Nat \subseteq S
  BY <1>2, <1>3, SetInduction
<1> QED  BY <1>4 DEF S, Extends

Flat(p, n) == CHOOSE joined : IsFlat(joined, p, n)

LEMMA FlattenIs ==
  ASSUME NEW p
  PROVE  FlattenSeq(p) = IF Len(p) = 0 THEN p ELSE Flat(p, Len(p))[Len(p)]
BY DEF FlattenSeq, Flat, IsFlat

\* One sequence more.
LEMMA FlattenMore ==
  ASSUME NEW n \in Nat, NEW p, Len(p) = n, n = 0 => p = <<>>,
         NEW q, Len(q) = n + 1, Extends(q, p, n),
         NEW S, q[n + 1] \in Seq(S)
  PROVE  FlattenSeq(q) = FlattenSeq(p) \o q[n + 1]
<1> DEFINE joined == Flat(p, n)
           g == Flat(q, n + 1)
<1>0. n + 1 \in Nat /\ n <= n + 1
  OBVIOUS
<1>1. IsFlat(joined, p, n) /\ IsFlat(g, q, n + 1)
  <2>1. (\E h : IsFlat(h, p, n)) /\ (\E h : IsFlat(h, q, n + 1))
    BY <1>0, FlatExist
  <2> QED  BY <2>1 DEF Flat
<1>2. FlattenSeq(q) = g[n + 1]
  BY FlattenIs
<1>3. n # 0 => FlattenSeq(p) = joined[n]
  BY FlattenIs
<1>4. n = 0 => FlattenSeq(p) = <<>>
  BY FlattenIs
<1> HIDE DEF joined, g
<1>5. g[n + 1] = IF n + 1 = 1 THEN q[n + 1] ELSE g[(n + 1) - 1] \o q[n + 1]
  <2>1. n + 1 \in 1..(n + 1)
    OBVIOUS
  <2> QED  BY <1>1, <2>1 DEF IsFlat
<1>6. n # 0 => g[(n + 1) - 1] = joined[n]
  <2>1. (n + 1) - 1 = n /\ (n # 0 => n \in 1..n)
    OBVIOUS
  <2> DEFINE m == n + 1
  <2>2. IsFlat(g, q, m) /\ m \in Nat /\ n <= m
    BY <1>0, <1>1
  <2> HIDE DEF m
  <2>3. Extends(g, joined, n)
    BY <1>1, <2>2, FlatAgree
  <2> QED  BY <2>1, <2>3 DEF Extends
<1>7. <<>> \o q[n + 1] = q[n + 1]
  BY ConcatEmptySeq
<1>8. CASE n = 0
  BY <1>2, <1>4, <1>5, <1>7, <1>8
<1>9. CASE n # 0
  <2>1. n + 1 # 1
    BY <1>9
  <2> QED  BY <1>2, <1>3, <1>5, <1>6, <1>9, <2>1
<1> QED  BY <1>8, <1>9

LEMMA ShortTyped ==
  ASSUME NEW S
  PROVE  <<>> \in Seq(S) /\ \A x \in S : <<x>> \in Seq(S)
OBVIOUS

-----------------------------------------------------------------------------
(* The file.                                                               *)

FrameRecords == [commands : Commands, pads : [1..4 -> Nat]]

\* What the reader may have at any time; the values of its settings do not matter here.
FileState(p) ==
  /\ p \in [mode : {"start", "header", "data", "legacy"}, settings : {p.settings},
            frames : Seq(FrameRecords), ok : BOOLEAN]
  /\ DOMAIN p.settings \subseteq Keys

LEMMA FrameType ==
  ASSUME NEW commands \in Commands, NEW bytes \in Seq(Nat)
  PROVE  Frame(commands, bytes) \in FrameRecords
<1> DEFINE four == [i \in 1..4 |-> IF i <= Len(bytes) THEN bytes[i] ELSE 0]
<1>1. four \in [1..4 -> Nat]
  OBVIOUS
<1>2. Frame(commands, bytes) = [commands |-> commands, pads |-> four]
  BY DEF Frame
<1> HIDE DEF four
<1> QED  BY <1>1, <1>2 DEF FrameRecords

LEMMA NeutralType == NeutralFrame \in FrameRecords
<1>1. 0 \in Commands /\ <<>> \in Seq(Nat)
  BY DEF Commands, ResetBit, PowerBit
<1> QED  BY <1>1, FrameType DEF NeutralFrame

LEMMA StartType == FileState(Start)
  BY DEF Start, FileState

LEMMA RejectType ==
  ASSUME NEW p, FileState(p)
  PROVE  FileState(Reject(p))
<1>1. Reject(p).settings = p.settings
  BY DEF FileState, Reject
<1>2. Reject(p) \in [mode : {"start", "header", "data", "legacy"}, settings : {p.settings},
                     frames : Seq(FrameRecords), ok : BOOLEAN]
  BY DEF FileState, Reject
<1> QED  BY <1>1, <1>2 DEF FileState

\* A frame is added and nothing else but the mode may change.
LEMMA FrameAdded ==
  ASSUME NEW p, FileState(p), NEW frame \in FrameRecords,
         NEW mode \in {"start", "header", "data", "legacy"}
  PROVE  /\ FileState([p EXCEPT !.mode = mode, !.frames = Append(p.frames, frame)])
         /\ FileState([p EXCEPT !.frames = Append(p.frames, frame)])
<1> DEFINE s == Append(p.frames, frame)
<1>1. s \in Seq(FrameRecords)
  BY DEF FileState
<1> HIDE DEF s
<1>2. FileState([p EXCEPT !.mode = mode, !.frames = s])
  BY <1>1 DEF FileState
<1>3. FileState([p EXCEPT !.frames = s])
  BY <1>1 DEF FileState
<1> QED  BY <1>2, <1>3 DEF s

LEMMA HeaderLineType ==
  ASSUME NEW p, FileState(p), NEW l \in FileLines
  PROVE  FileState(HeaderLine(p, l))
<1>1. CASE l.kind = "data" /\ DOMAIN p.settings = Keys
  BY <1>1 DEF HeaderLine, FileState
<1>2. CASE l.kind = "field" /\ l.good /\ l.key \notin DOMAIN p.settings
  <2> DEFINE s == [k \in DOMAIN p.settings \cup {l.key} |->
                     IF k = l.key THEN l.value ELSE p.settings[k]]
  <2>1. l.key \in Keys
    BY <1>2, ReplayAssumption
  <2>2. DOMAIN s \subseteq Keys
    BY <2>1 DEF FileState
  <2>3. HeaderLine(p, l) = [p EXCEPT !.settings = s]
    BY <1>2 DEF HeaderLine
  <2> HIDE DEF s
  <2> QED  BY <2>2, <2>3 DEF FileState
<1>3. CASE /\ ~(l.kind = "data" /\ DOMAIN p.settings = Keys)
           /\ ~(l.kind = "field" /\ l.good /\ l.key \notin DOMAIN p.settings)
  BY <1>3, RejectType DEF HeaderLine
<1> QED  BY <1>1, <1>2, <1>3

\* The bytes of a record.
LEMMA RecordBytes ==
  ASSUME NEW l \in FileLines, l.kind = "record"
  PROVE  l.bytes \in Seq(Nat)
<1>1. \A s \in Seq(0..255) : s \in Seq(Nat)
  BY SeqMonotonic, 0..255 \subseteq Nat
<1> QED  BY <1>1, ReplayAssumption DEF Tokenized, Blank, Broken, DataMark

LEMMA RecordLinesType ==
  ASSUME NEW p, FileState(p), NEW l \in FileLines
  PROVE  FileState(VersionedLine(p, l)) /\ FileState(LegacyLine(p, l))
<1>1. ASSUME l.kind = "record"
      PROVE  l.bytes \in Seq(Nat)
  BY <1>1, RecordBytes
<1>2. FileState(VersionedLine(p, l))
  <2>1. CASE l.kind = "record" /\ l.good /\ Len(l.bytes) = 5 /\ l.bytes[1] \in Commands
    <3>1. Tail(l.bytes) \in Seq(Nat)
      BY <1>1, <2>1
    <3>2. Frame(l.bytes[1], Tail(l.bytes)) \in FrameRecords
      BY <2>1, <3>1, FrameType
    <3> QED  BY <2>1, <3>2, FrameAdded DEF VersionedLine
  <2>2. CASE ~(l.kind = "record" /\ l.good /\ Len(l.bytes) = 5 /\ l.bytes[1] \in Commands)
    BY <2>2, RejectType DEF VersionedLine
  <2> QED  BY <2>1, <2>2
<1>3. FileState(LegacyLine(p, l))
  <2>1. CASE l.kind = "record" /\ l.good /\ Len(l.bytes) \in 1..2
    <3>1. 0 \in Commands
      BY DEF Commands, ResetBit, PowerBit
    <3>2. Frame(0, l.bytes) \in FrameRecords
      BY <1>1, <2>1, <3>1, FrameType
    <3> QED  BY <2>1, <3>2, FrameAdded DEF LegacyLine
  <2>2. CASE ~(l.kind = "record" /\ l.good /\ Len(l.bytes) \in 1..2)
    BY <2>2, RejectType DEF LegacyLine
  <2> QED  BY <2>1, <2>2
<1> QED  BY <1>2, <1>3

LEMMA TakeLineType ==
  ASSUME NEW p, FileState(p), NEW l \in FileLines
  PROVE  FileState(TakeLine(p, l))
<1>1. FileState([p EXCEPT !.mode = "header"])
  BY DEF FileState
<1> QED  BY <1>1, RejectType, HeaderLineType, RecordLinesType DEF TakeLine

LEMMA AtType ==
  ASSUME NEW p, FileState(p), NEW n \in Int
  PROVE  At(p, n) \in FrameRecords
  BY NeutralType DEF At, FileState

-----------------------------------------------------------------------------
(* The reports.                                                            *)

LEMMA ButtonBit ==
  ASSUME NEW pad \in Nat, NEW n \in 0..(PadBits - 1)
  PROVE  Button(pad, n) \in {0, 1}
<1>1. /\ n \in {0, 1, 2, 3, 4, 5, 6, 7}
  BY ReplayAssumption
<1>2. ASSUME NEW d \in Nat \ {0}
      PROVE  (pad \div d) % 2 \in {0, 1}
  OBVIOUS
<1>3. 2^n \in Nat \ {0}
  <2>1. CASE n = 0
    BY <2>1
  <2>2. CASE n = 1
    BY <2>2
  <2>3. CASE n = 2
    BY <2>3
  <2>4. CASE n = 3
    BY <2>4
  <2>5. CASE n = 4
    BY <2>5
  <2>6. CASE n = 5
    BY <2>6
  <2>7. CASE n = 6
    BY <2>7
  <2>8. CASE n = 7
    BY <2>8
  <2> QED  BY <1>1, <2>1, <2>2, <2>3, <2>4, <2>5, <2>6, <2>7, <2>8
<1> QED  BY <1>2, <1>3 DEF Button

LEMMA SerialBits ==
  ASSUME pads \in [1..4 -> Nat], NEW w \in Ports, NEW n \in Nat
  PROVE  /\ SerialBit(w, n) \in {0, 1}
         /\ AdapterBit(w, n) \in {0, 1}
<1>1. /\ pads[w + 1] \in Nat /\ pads[w + 3] \in Nat /\ w \in {0, 1} /\ PadBits \in 1..8
  BY ReplayAssumption DEF Ports
<1>2. n < PadBits => Button(pads[w + 1], n) \in {0, 1} /\ Button(pads[w + 3], n) \in {0, 1}
  BY <1>1, ButtonBit
<1>3. n >= PadBits /\ n < 2 * PadBits => Button(pads[w + 3], n - PadBits) \in {0, 1}
  BY <1>1, ButtonBit
<1>4. SerialBit(w, n) \in {0, 1}
  BY <1>1, <1>2, <1>3 DEF SerialBit
<1>5. AdapterBit(w, n) \in {0, 1}
  BY <1>1, <1>2 DEF AdapterBit
<1> QED  BY <1>4, <1>5

\* Where a report stands after n reads since it restarted: a standard port that is
\* connected counts each of them in a counter that wraps, the adapter counts to the end
\* of its buttons.
PlaceOf(w, n) == IF Enabled(w) THEN n % CounterMod ELSE 0
AdapterPlace(n) == IF ~Famicom4 THEN 0 ELSE IF n < PadBits THEN n ELSE PadBits

\* The report counters, from the reads the program has made.
CountersFollow == stage # "load" =>
  \A w \in Ports : readbit[w] = PlaceOf(w, reads[w]) /\ fcReadbit[w] = AdapterPlace(reads[w])

\* During a frame the pads are the record's, except under a power command.
PadsInFrame ==
  stage = "frame" =>
    /\ f \in 1..total
    /\ ~Has(At(file, f).commands, PowerBit) => pads = At(file, f).pads

ReplayInv ==
  /\ stage \in {"load", "refused", "between", "frame", "done"}
  /\ FileState(file)
  /\ total \in Nat /\ f \in 0..total
  /\ pads \in [1..4 -> Nat]
  /\ readbit \in [Ports -> 0..(CounterMod - 1)] /\ fcReadbit \in [Ports -> 0..PadBits]
  /\ strobe \in {0, 1} /\ got \in {0, 1} \X {0, 1}
  /\ reads \in [Ports -> Nat]
  /\ stage = "load" => f = 0 /\ reads = Zero /\ readbit = Zero /\ fcReadbit = Zero
  /\ CountersFollow
  /\ PadsInFrame

LEMMA InitInv == Init => ReplayInv
<1> SUFFICES ASSUME Init PROVE ReplayInv
  OBVIOUS
<1>1. FileState(file)
  BY StartType DEF Init
<1>2. /\ total \in Nat /\ f \in 0..total /\ pads \in [1..4 -> Nat]
      /\ readbit \in [Ports -> 0..(CounterMod - 1)] /\ fcReadbit \in [Ports -> 0..PadBits]
      /\ strobe \in {0, 1} /\ got \in {0, 1} \X {0, 1} /\ reads \in [Ports -> Nat]
  BY ReplayAssumption DEF Init, Zero
<1> QED  BY <1>1, <1>2 DEF Init, ReplayInv, CountersFollow, PadsInFrame

\* A report that starts again, and one that has moved on by a read.
LEMMA PlaceStarts ==
  /\ \A w \in Ports : PlaceOf(w, 0) = 0
  /\ AdapterPlace(0) = 0
<1>1. 0 % CounterMod = 0 /\ 0 < PadBits
  BY ReplayAssumption
<1> QED  BY <1>1 DEF PlaceOf, AdapterPlace

LEMMA PlaceMoves ==
  ASSUME NEW w \in Ports, NEW n \in Nat
  PROVE  /\ PlaceOf(w, n + 1) = IF Enabled(w) THEN NextPosition(PlaceOf(w, n)) ELSE PlaceOf(w, n)
         /\ AdapterPlace(n + 1) = IF Famicom4 /\ AdapterPlace(n) < PadBits
                                  THEN AdapterPlace(n) + 1 ELSE AdapterPlace(n)
<1>1. CounterMod \in Nat \ {0} /\ PadBits \in Nat \ {0}
  BY ReplayAssumption
<1>2. (n + 1) % CounterMod = NextPosition(n % CounterMod)
  BY <1>1, NextRemainder DEF NextPosition
<1> QED  BY <1>1, <1>2 DEF PlaceOf, AdapterPlace

LEMMA NextInv == ReplayInv /\ [Next]_vars => ReplayInv'
<1> SUFFICES ASSUME ReplayInv, [Next]_vars PROVE ReplayInv'
  OBVIOUS
<1> USE DEF ReplayInv
<1>1. CASE ReadLine
  <2>1. FileState(file')
    BY <1>1, TakeLineType DEF ReadLine
  <2>2. stage = "load" /\ UNCHANGED <<stage, total, f, pads, readbit, fcReadbit, strobe, got, reads>>
    BY <1>1 DEF ReadLine
  <2> QED  BY <2>1, <2>2 DEF CountersFollow, PadsInFrame
<1>2. CASE EndOfFile
  <2>1. /\ stage = "load" /\ stage' \in {"between", "refused"}
        /\ UNCHANGED <<f, pads, readbit, fcReadbit, strobe, got, reads>>
    BY <1>2 DEF EndOfFile
  <2>2. FileState(file') /\ total' \in Nat
    BY <1>2, StartType, ReplayAssumption DEF EndOfFile
  <2>3. f = 0
    BY <2>1
  <2>4. f' \in 0..total'
    BY <2>1, <2>2, <2>3
  <2>5. CountersFollow'
    <3>1. 0 % CounterMod = 0 /\ 0 < PadBits
      BY ReplayAssumption
    <3> QED  BY <2>1, <3>1 DEF CountersFollow, Zero, PlaceOf, AdapterPlace
  <2> QED  BY <2>1, <2>2, <2>4, <2>5 DEF PadsInFrame
<1>3. CASE BeginFrame
  <2> DEFINE record == At(file, f + 1)
  <2>1. /\ stage = "between" /\ stage' = "frame" /\ f' = f + 1 /\ f < total
        /\ UNCHANGED <<file, total, got>>
    BY <1>3 DEF BeginFrame
  <2>2. /\ f' \in 1..total' /\ record = At(file', f') /\ record \in FrameRecords
    <3>1. f + 1 \in Int
      OBVIOUS
    <3> QED  BY <2>1, <3>1, AtType
  <2>3. record.pads \in [1..4 -> Nat]
    BY <2>2 DEF FrameRecords
  <2> HIDE DEF record
  <2>4. CASE Has(record.commands, PowerBit)
    <3>1. /\ pads' = [i \in 1..4 |-> 0] /\ readbit' = Zero /\ fcReadbit' = Zero
          /\ strobe' = 0 /\ reads' = Zero
      BY <1>3, <2>4 DEF BeginFrame, PowerControllers, record
    <3>2. CountersFollow'
      BY <2>1, <3>1, PlaceStarts DEF CountersFollow, Zero, PlaceOf, AdapterPlace, Enabled, Famicom4
    <3>3. PadsInFrame'
      BY <2>1, <2>2, <2>4 DEF PadsInFrame
    <3>4. 0 \in 0..(CounterMod - 1) /\ 0 \in 0..PadBits
      BY ReplayAssumption
    <3> QED  BY <2>1, <2>2, <3>1, <3>2, <3>3, <3>4 DEF Zero
  <2>5. CASE ~Has(record.commands, PowerBit)
    <3>1. pads' = record.pads /\ UNCHANGED <<readbit, fcReadbit, strobe, reads>>
      BY <1>3, <2>5 DEF BeginFrame, record
    <3>2. CountersFollow'
      BY <2>1, <3>1 DEF CountersFollow, PlaceOf, AdapterPlace, Enabled, Famicom4
    <3>3. PadsInFrame'
      BY <2>1, <2>2, <3>1 DEF PadsInFrame
    <3> QED  BY <2>1, <2>2, <2>3, <3>1, <3>2, <3>3
  <2> QED  BY <2>4, <2>5
<1>4. CASE EndFrame \/ Finish
  <2>1. /\ stage \in {"frame", "between"} /\ stage' \in {"between", "done"}
        /\ UNCHANGED <<file, total, f, pads, readbit, fcReadbit, strobe, got, reads>>
    BY <1>4 DEF EndFrame, Finish
  <2>2. CountersFollow'
    BY <2>1 DEF CountersFollow, PlaceOf, AdapterPlace, Enabled, Famicom4
  <2> QED  BY <2>1, <2>2 DEF PadsInFrame
<1>5. ASSUME NEW w \in Ports, Read(w)
      PROVE  ReplayInv'
  <2>1. /\ stage = "frame" /\ UNCHANGED <<stage, file, total, f, pads, strobe>>
        /\ got' = <<IF Enabled(w) THEN SerialBit(w, readbit[w]) ELSE 0,
                    IF Famicom4 THEN AdapterBit(w, fcReadbit[w]) ELSE 0>>
        /\ readbit' = [readbit EXCEPT ![w] = IF Enabled(w) THEN NextPosition(@) ELSE @]
        /\ fcReadbit' = [fcReadbit EXCEPT ![w] = IF Famicom4 /\ @ < PadBits THEN @ + 1 ELSE @]
        /\ reads' = [reads EXCEPT ![w] = @ + 1]
    BY <1>5 DEF Read
  <2>2. got' \in {0, 1} \X {0, 1}
    <3>1. readbit[w] \in Nat /\ fcReadbit[w] \in Nat
      BY ReplayAssumption
    <3>2. SerialBit(w, readbit[w]) \in {0, 1} /\ AdapterBit(w, fcReadbit[w]) \in {0, 1}
      BY <3>1, SerialBits
    <3> QED  BY <2>1, <3>2
  <2>3. readbit' \in [Ports -> 0..(CounterMod - 1)]
    <3>1. \A n \in 0..(CounterMod - 1) : NextPosition(n) \in 0..(CounterMod - 1)
      BY ReplayAssumption DEF NextPosition
    <3> QED  BY <2>1, <3>1
  <2>4. fcReadbit' \in [Ports -> 0..PadBits] /\ reads' \in [Ports -> Nat]
    BY <2>1, ReplayAssumption
  <2>5. CountersFollow'
    <3> SUFFICES ASSUME NEW v \in Ports
                 PROVE  /\ readbit'[v] = PlaceOf(v, reads'[v])
                        /\ fcReadbit'[v] = AdapterPlace(reads'[v])
      BY <2>1 DEF CountersFollow, PlaceOf, AdapterPlace, Enabled, Famicom4
    <3>1. readbit[v] = PlaceOf(v, reads[v]) /\ fcReadbit[v] = AdapterPlace(reads[v])
      BY <2>1 DEF CountersFollow
    <3>2. CASE v = w
      <4>1. /\ readbit'[v] = IF Enabled(v) THEN NextPosition(readbit[v]) ELSE readbit[v]
            /\ fcReadbit'[v] = IF Famicom4 /\ fcReadbit[v] < PadBits THEN fcReadbit[v] + 1
                               ELSE fcReadbit[v]
            /\ reads'[v] = reads[v] + 1 /\ reads[v] \in Nat
        BY <2>1, <3>2
      <4> QED  BY <3>1, <4>1, PlaceMoves
    <3>3. CASE v # w
      BY <2>1, <3>1, <3>3
    <3> QED  BY <3>2, <3>3
  <2> QED  BY <2>1, <2>2, <2>3, <2>4, <2>5 DEF PadsInFrame
<1>6. ASSUME NEW b \in {0, 1}, Strobe(b)
      PROVE  ReplayInv'
  <2>1. /\ stage = "frame" /\ UNCHANGED <<stage, file, total, f, pads, got>>
        /\ strobe' = b
    BY <1>6 DEF Strobe
  <2>2. CASE strobe = 1 /\ b = 0
    <3>1. readbit' = Zero /\ fcReadbit' = Zero /\ reads' = Zero
      BY <1>6, <2>2 DEF Strobe, Restarts
    <3>2. CountersFollow'
      BY <2>1, <3>1, PlaceStarts DEF CountersFollow, Zero, PlaceOf, AdapterPlace, Enabled, Famicom4
    <3>3. 0 \in 0..(CounterMod - 1) /\ 0 \in 0..PadBits
      BY ReplayAssumption
    <3> QED  BY <2>1, <3>1, <3>2, <3>3 DEF Zero, PadsInFrame
  <2>3. CASE ~(strobe = 1 /\ b = 0)
    <3>1. UNCHANGED <<readbit, fcReadbit, reads>>
      BY <1>6, <2>3 DEF Strobe, Restarts
    <3>2. CountersFollow'
      BY <2>1, <3>1 DEF CountersFollow, PlaceOf, AdapterPlace, Enabled, Famicom4
    <3> QED  BY <2>1, <3>1, <3>2 DEF PadsInFrame
  <2> QED  BY <2>2, <2>3
<1>7. CASE UNCHANGED vars
  BY <1>7 DEF vars, CountersFollow, PadsInFrame, PlaceOf, AdapterPlace, Enabled, Famicom4
<1> QED  BY <1>1, <1>2, <1>3, <1>4, <1>5, <1>6, <1>7 DEF Next

THEOREM Invariant == Spec => []ReplayInv
<1> QED  BY InitInv, NextInv, PTL DEF Spec

-----------------------------------------------------------------------------
(* What the run checks, for every file and any number of reads.            *)

\* Types.
THEOREM TypeCorrect == Spec => []TypeOK
<1>1. ReplayInv => TypeOK
  <2>1. FileState(file) => \A i \in DOMAIN file.frames : file.frames[i].commands \in Commands
    <3>1. FileState(file) => file.frames \in Seq(FrameRecords)
      BY DEF FileState
    <3>2. \A s \in Seq(FrameRecords) : \A i \in DOMAIN s : s[i] \in FrameRecords
      OBVIOUS
    <3> QED  BY <3>1, <3>2 DEF FrameRecords
  <2> QED  BY <2>1 DEF ReplayInv, FileState, TypeOK
<1> QED  BY <1>1, Invariant, PTL

\* Every controller read returns the bit of the frame's record that its place in the
\* report demands (the reads of $4016 and $4017 in cpu.cpp), frames with a power command
\* excepted.
THEOREM ReadsReport == Spec => ReportsFollowRecord
<1>1. ASSUME ReplayInv, NEW w \in Ports, Read(w), ~Has(At(file, f).commands, PowerBit)
      PROVE  got' = ReportOf(w, reads[w], At(file, f))
  <2> DEFINE n == reads[w]
             pos == n % CounterMod
             b == PadBits
             record == At(file, f)
  <2>1. /\ n \in Nat /\ pos \in Nat /\ b \in 1..8 /\ w \in {0, 1}
        /\ pads = record.pads
        /\ readbit[w] = PlaceOf(w, n) /\ fcReadbit[w] = AdapterPlace(n)
    <3>1. stage = "frame"
      BY <1>1 DEF Read
    <3>2. pads = At(file, f).pads
      BY <1>1, <3>1 DEF ReplayInv, PadsInFrame
    <3>3. reads[w] \in Nat /\ w \in {0, 1} /\ PadBits \in 1..8 /\ CounterMod \in Nat \ {0}
      BY <1>1, ReplayAssumption DEF ReplayInv, Ports
    <3>4. readbit[w] = PlaceOf(w, reads[w]) /\ fcReadbit[w] = AdapterPlace(reads[w])
      BY <1>1, <3>1 DEF ReplayInv, CountersFollow
    <3>5. reads[w] % CounterMod \in Nat
      BY <3>3
    <3> QED  BY <3>2, <3>3, <3>4, <3>5
  <2>2. got' = <<IF Enabled(w) THEN SerialBit(w, readbit[w]) ELSE 0,
                 IF Famicom4 THEN AdapterBit(w, fcReadbit[w]) ELSE 0>>
    BY <1>1 DEF Read
  <2> DEFINE standard ==
               CASE ~Enabled(w) -> 0
                 [] Enabled(w) /\ pos < b -> Button(record.pads[w + 1], pos)
                 [] Enabled(w) /\ pos >= b /\ ~FourScore -> 1
                 [] OTHER -> IF pos \in b..(2 * b - 1)
                             THEN Button(record.pads[w + 3], pos - b)
                             ELSE IF pos = 2 * b + 3 - w THEN 1 ELSE 0
             adapter == IF ~Famicom4 THEN 0
                        ELSE IF n < b THEN Button(record.pads[w + 3], n) ELSE 1
  <2>3. ReportOf(w, n, record) = <<standard, adapter>>
    BY DEF ReportOf
  <2>4. Enabled(w) => readbit[w] = pos
    BY <2>1 DEF PlaceOf
  <2>5. Famicom4 => fcReadbit[w] = IF n < b THEN n ELSE b
    BY <2>1 DEF AdapterPlace
  <2> HIDE DEF n, pos, record, b
  <2>6. Enabled(w) => standard = SerialBit(w, pos)
    BY <2>1 DEF SerialBit, b
  <2>7. Famicom4 => adapter = AdapterBit(w, fcReadbit[w])
    BY <2>1, <2>5 DEF AdapterBit, b
  <2>8. ~Enabled(w) => standard = 0
    OBVIOUS
  <2>9. ~Famicom4 => adapter = 0
    OBVIOUS
  <2> HIDE DEF standard, adapter
  <2> QED  BY <2>2, <2>3, <2>4, <2>6, <2>7, <2>8, <2>9 DEF n, record
<1>2. ReplayInv =>
        [\A w \in Ports :
           Read(w) /\ ~Has(At(file, f).commands, PowerBit)
             => got' = ReportOf(w, reads[w], At(file, f))]_vars
  BY <1>1
<1> QED  BY <1>2, Invariant, PTL DEF ReportsFollowRecord

-----------------------------------------------------------------------------
(* Reading is recognising: what the reader has after some lines, against   *)
(* the grammar of the whole file.                                          *)

KeyCount == Cardinality(Keys)

\* The metadata among the first m lines that count.
KeysTo(s, m) == {s[i].key : i \in 2..m}

\* m lines of a header, each setting given once and kept.
HeaderRead(settings, s, m) ==
  /\ m \in 1..Len(s) /\ s[1] = Magic(TRUE)
  /\ \A i \in 2..m : s[i].kind = "field" /\ s[i].good /\ s[i].key \in Keys
  /\ DOMAIN settings = KeysTo(s, m) /\ Cardinality(KeysTo(s, m)) = m - 1
  /\ \A i \in 2..m : settings[s[i].key] = s[i].value

PadRecord(l) == IsRecord(l, {5}) /\ l.bytes[1] \in Commands

\* A complete header, the data mark, and records.
DataRead(settings, s) ==
  /\ Len(s) >= KeyCount + 2
  /\ HeaderRead(settings, s, KeyCount + 1) /\ KeysTo(s, KeyCount + 1) = Keys
  /\ s[KeyCount + 2] = DataMark
  /\ \A i \in (KeyCount + 3)..Len(s) : PadRecord(s[i])

\* What the reader has after the lines s, while it accepts them.
ReadsAs(p, s) ==
  /\ p.mode = "start" => s = <<>> /\ p.settings = <<>> /\ p.frames = <<>>
  /\ p.mode = "legacy" => LegacyFile(s) /\ p.frames # <<>>
  /\ p.mode = "header" => HeaderRead(p.settings, s, Len(s)) /\ p.frames = <<>>
  /\ p.mode = "data" => DataRead(p.settings, s) /\ Len(p.frames) = Len(s) - (KeyCount + 2)

\* t is s and the line l.
OneMore(t, s, l) ==
  /\ Len(s) \in Nat /\ Len(t) = Len(s) + 1
  /\ \A i \in 1..Len(s) : t[i] = s[i]
  /\ t[Len(s) + 1] = l

LEMMA KeyCountType == IsFiniteSet(Keys) /\ KeyCount \in Nat
  BY KeysAssumption, FS_CardinalityType DEF KeyCount

LEMMA KeysExtended ==
  ASSUME NEW s, NEW l, NEW t, OneMore(t, s, l), NEW m \in 0..Len(s)
  PROVE  KeysTo(t, m) = KeysTo(s, m)
<1>1. \A i \in 2..m : t[i].key = s[i].key
  BY DEF OneMore
<1> QED  BY <1>1 DEF KeysTo

LEMMA KeysMore ==
  ASSUME NEW s, NEW l, NEW t, OneMore(t, s, l), Len(s) >= 1
  PROVE  KeysTo(t, Len(s) + 1) = KeysTo(s, Len(s)) \cup {l.key}
<1> DEFINE m == Len(s)
<1>1. m \in Nat \ {0} /\ (\A i \in 2..m : t[i] = s[i]) /\ t[m + 1] = l
  BY DEF OneMore
<1>2. m + 1 \in 2..(m + 1) /\ \A i \in 2..(m + 1) : i \in 2..m \/ i = m + 1
  BY <1>1
<1>3. \A i \in 2..m : i \in 2..(m + 1)
  BY <1>1
<1> HIDE DEF m
<1>4. KeysTo(t, m + 1) = KeysTo(s, m) \cup {l.key}
  BY <1>1, <1>2, <1>3 DEF KeysTo
<1> QED  BY <1>4 DEF m

\* A header is still one when a line follows.
LEMMA HeaderKept ==
  ASSUME NEW d, NEW s, NEW l, NEW t, OneMore(t, s, l), NEW m, HeaderRead(d, s, m)
  PROVE  HeaderRead(d, t, m)
<1>1. m \in 1..Len(s) /\ m \in 0..Len(s) /\ m \in 1..Len(t) /\ 1 \in 1..Len(s)
      /\ 2..m \subseteq 1..Len(s)
  BY DEF OneMore, HeaderRead
<1>2. KeysTo(t, m) = KeysTo(s, m)
  BY <1>1, KeysExtended
<1>3. t[1] = s[1] /\ \A i \in 2..m : t[i] = s[i]
  BY <1>1 DEF OneMore
<1> QED  BY <1>1, <1>2, <1>3 DEF HeaderRead

\* The keys of a header are known, and as many as its fields.
LEMMA HeaderKeys ==
  ASSUME NEW d, NEW s, NEW m, HeaderRead(d, s, m)
  PROVE  /\ KeysTo(s, m) \subseteq Keys /\ IsFiniteSet(KeysTo(s, m))
         /\ m \in Nat /\ m - 1 <= KeyCount
         /\ KeysTo(s, m) = Keys <=> m - 1 = KeyCount
<1>1. KeysTo(s, m) \subseteq Keys
  BY DEF HeaderRead, KeysTo
<1>2. /\ IsFiniteSet(KeysTo(s, m)) /\ Cardinality(KeysTo(s, m)) <= Cardinality(Keys)
      /\ Cardinality(Keys) = Cardinality(KeysTo(s, m)) => Keys = KeysTo(s, m)
  BY <1>1, KeysAssumption, FS_Subset
<1>3. m \in Nat /\ Cardinality(KeysTo(s, m)) = m - 1
  BY DEF HeaderRead
<1>4. m - 1 <= KeyCount
  BY <1>2, <1>3 DEF KeyCount
<1>5. KeysTo(s, m) = Keys <=> m - 1 = KeyCount
  BY <1>2, <1>3 DEF KeyCount
<1> QED  BY <1>1, <1>2, <1>3, <1>4, <1>5

\* What a line does: q is the reader after it, t the lines with it.
Step(q, p, t, l) ==
  /\ q.ok => ReadsAs(q, t) /\ q.frames = p.frames \o FrameOf(l)
  /\ ~q.ok => ~LegacyFile(t) /\ ~VersionedFile(t)

LEMMA ShortNotVersioned ==
  ASSUME NEW t, Len(t) \in Nat, Len(t) < KeyCount + 3
  PROVE  ~VersionedFile(t)
<1>1. VersionedFile(t) => Len(t) >= KeyCount + 3
  BY DEF VersionedFile, KeyCount
<1> QED  BY <1>1, KeyCountType

LEMMA LastNotLegacy ==
  ASSUME NEW s, NEW l, NEW t, OneMore(t, s, l), ~IsRecord(l, 1..2),
         t \in Seq(Tokenized)
  PROVE  ~LegacyFile(t)
<1>1. Len(s) + 1 \in DOMAIN t /\ t[Len(s) + 1] = l
  BY DEF OneMore
<1> QED  BY <1>1 DEF LegacyFile

\* The rejected reader.
LEMMA RejectIs ==
  ASSUME NEW p, FileState(p)
  PROVE  ~Reject(p).ok
  BY DEF Reject, FileState

LEMMA LegacyFrameType ==
  ASSUME NEW l \in FileLines, l.kind = "record"
  PROVE  Frame(0, l.bytes) \in FrameRecords
<1>1. 0 \in Commands
  BY DEF Commands, ResetBit, PowerBit
<1> QED  BY <1>1, RecordBytes, FrameType

LEMMA Appended ==
  ASSUME NEW fs \in Seq(FrameRecords), NEW x \in FrameRecords
  PROVE  /\ Append(fs, x) = fs \o <<x>>
         /\ Append(fs, x) # <<>> /\ Append(fs, x) \in Seq(FrameRecords)
         /\ Len(Append(fs, x)) = Len(fs) + 1
<1>1. /\ Append(fs, x) \in Seq(FrameRecords) /\ Len(Append(fs, x)) = Len(fs) + 1
  OBVIOUS
<1>2. Append(fs, x) = fs \o <<x>>
  BY AppendIsConcat
<1> QED  BY <1>1, <1>2

\* A file that starts with a record is none with a header, and the other way round.
LEMMA LegacyStays ==
  ASSUME NEW p, p.mode = "legacy", NEW s \in Seq(Tokenized), NEW l, NEW t,
         OneMore(t, s, l), ReadsAs(p, s)
  PROVE  ~VersionedFile(t)
<1>1. Len(s) # 0 /\ 1 \in DOMAIN s /\ LegacyFile(s)
  BY DEF ReadsAs, LegacyFile
<1>2. s[1].kind = "record" /\ t[1] = s[1]
  BY <1>1 DEF LegacyFile, IsRecord, OneMore
<1>3. t[1] # Magic(TRUE)
  BY <1>2 DEF Magic
<1> QED  BY <1>3 DEF VersionedFile

LEMMA HeaderNotLegacy ==
  ASSUME NEW d, NEW t \in Seq(Tokenized), NEW m, HeaderRead(d, t, m)
  PROVE  ~LegacyFile(t)
<1>1. 1 \in DOMAIN t /\ t[1] = Magic(TRUE)
  BY DEF HeaderRead
<1>2. ~IsRecord(t[1], 1..2)
  BY <1>1 DEF Magic, IsRecord
<1> QED  BY <1>1, <1>2 DEF LegacyFile

LEMMA LegacyStep ==
  ASSUME NEW p, FileState(p), p.ok, p.mode \in {"start", "legacy"},
         NEW s \in Seq(Tokenized), NEW l \in FileLines, NEW t \in Seq(Tokenized),
         OneMore(t, s, l), ReadsAs(p, s)
  PROVE  Step(LegacyLine(p, l), p, t, l)
<1> DEFINE q == LegacyLine(p, l)
<1>1. CASE IsRecord(l, 1..2)
  <2>1. /\ l.kind = "record" /\ l.good /\ Len(l.bytes) \in 1..2
    BY <1>1 DEF IsRecord
  <2> DEFINE frames == Append(p.frames, Frame(0, l.bytes))
  <2>2. q = [p EXCEPT !.mode = "legacy", !.frames = frames]
    BY <2>1 DEF LegacyLine
  <2>3. FrameOf(l) = <<Frame(0, l.bytes)>>
    <3>1. \A n \in 1..2 : n # 5
      OBVIOUS
    <3>2. Len(l.bytes) # 5
      BY <2>1, <3>1
    <3> QED  BY <2>1, <3>2 DEF FrameOf
  <2>4. frames = p.frames \o <<Frame(0, l.bytes)>> /\ frames # <<>>
    <3>1. p.frames \in Seq(FrameRecords)
      BY DEF FileState
    <3>2. Frame(0, l.bytes) \in FrameRecords
      BY <2>1, LegacyFrameType
    <3> QED  BY <3>1, <3>2, Appended
  <2> HIDE DEF frames
  <2>5. q.mode = "legacy" /\ q.frames = frames
    BY <2>2 DEF FileState
  <2>6. LegacyFile(t)
    <3>1. \A i \in 1..Len(s) : IsRecord(s[i], 1..2)
      BY DEF ReadsAs, LegacyFile
    <3>2. Len(t) = Len(s) + 1 /\ DOMAIN t = 1..Len(t) /\ Len(s) \in Nat
      BY DEF OneMore
    <3>3. \A i \in DOMAIN t : i \in 1..Len(s) \/ i = Len(s) + 1
      BY <3>2
    <3>4. \A i \in DOMAIN t : IsRecord(t[i], 1..2)
      BY <1>1, <3>1, <3>3 DEF OneMore
    <3>5. t # <<>>
      BY <3>2
    <3> QED  BY <3>4, <3>5 DEF LegacyFile
  <2>7. ReadsAs(q, t)
    <3> HIDE DEF q
    <3> QED  BY <2>4, <2>5, <2>6 DEF ReadsAs
  <2>8. q.ok = p.ok
    BY <2>2 DEF FileState
  <2> HIDE DEF q
  <2>9. Step(q, p, t, l)
    BY <2>3, <2>4, <2>5, <2>7, <2>8 DEF Step
  <2> QED  BY <2>9 DEF q
<1>2. CASE ~IsRecord(l, 1..2)
  <2>1. q = Reject(p)
    BY <1>2 DEF LegacyLine, IsRecord
  <2>2. ~q.ok
    BY <2>1, RejectIs
  <2>3. ~LegacyFile(t)
    BY <1>2, LastNotLegacy
  <2>4. ~VersionedFile(t)
    <3>1. CASE p.mode = "start"
      <4>1. Len(s) = 0
        BY <3>1 DEF ReadsAs
      <4>2. Len(t) \in Nat /\ Len(t) < KeyCount + 3
        BY <4>1, KeyCountType DEF OneMore
      <4> QED  BY <4>2, ShortNotVersioned
    <3>2. CASE p.mode = "legacy"
      BY <3>2, LegacyStays
    <3> QED  BY <3>1, <3>2
  <2> HIDE DEF q
  <2>5. Step(q, p, t, l)
    BY <2>2, <2>3, <2>4 DEF Step
  <2> QED  BY <2>5 DEF q
<1> QED  BY <1>1, <1>2

LEMMA VersionedStep ==
  ASSUME NEW p, FileState(p), p.ok, p.mode = "data",
         NEW s \in Seq(Tokenized), NEW l \in FileLines, NEW t \in Seq(Tokenized),
         OneMore(t, s, l), ReadsAs(p, s)
  PROVE  Step(VersionedLine(p, l), p, t, l)
<1> DEFINE q == VersionedLine(p, l)
<1>0. /\ DataRead(p.settings, s) /\ Len(p.frames) = Len(s) - (KeyCount + 2)
      /\ KeyCount \in Nat /\ Len(s) \in Nat /\ Len(t) = Len(s) + 1
      /\ Len(s) >= KeyCount + 2
  BY KeyCountType DEF ReadsAs, OneMore, DataRead
<1>4. ~LegacyFile(t)
  <2>1. HeaderRead(p.settings, s, KeyCount + 1)
    BY <1>0 DEF DataRead
  <2>2. HeaderRead(p.settings, t, KeyCount + 1)
    BY <2>1, HeaderKept
  <2> QED  BY <2>2, HeaderNotLegacy
<1>1. CASE PadRecord(l)
  <2>1. /\ l.kind = "record" /\ l.good /\ Len(l.bytes) = 5 /\ l.bytes[1] \in Commands
    BY <1>1 DEF PadRecord, IsRecord
  <2> DEFINE frame == Frame(l.bytes[1], Tail(l.bytes))
             frames == Append(p.frames, frame)
  <2>2. q = [p EXCEPT !.frames = frames]
    BY <2>1 DEF VersionedLine
  <2>3. FrameOf(l) = <<frame>>
    BY <2>1 DEF FrameOf
  <2>4. frame \in FrameRecords
    <3>1. Tail(l.bytes) \in Seq(Nat)
      BY <2>1, RecordBytes
    <3> QED  BY <2>1, <3>1, FrameType
  <2>5. p.frames \in Seq(FrameRecords)
    BY DEF FileState
  <2> HIDE DEF frame
  <2>6. frames = p.frames \o <<frame>> /\ Len(frames) = Len(p.frames) + 1
    BY <2>4, <2>5, Appended
  <2> HIDE DEF frames
  <2>7. q.mode = "data" /\ q.frames = frames /\ q.settings = p.settings /\ q.ok = p.ok
    BY <2>2 DEF FileState
  <2>8. DataRead(p.settings, t)
    <3> DEFINE m == KeyCount + 1
               k == KeyCount + 2
               d == p.settings
    <3>1. /\ HeaderRead(d, s, m) /\ KeysTo(s, m) = Keys
          /\ m \in 0..Len(s) /\ k \in 1..Len(s) /\ s[k] = DataMark
      BY <1>0 DEF DataRead
    <3>2. \A i \in (KeyCount + 3)..Len(s) : PadRecord(s[i])
      BY <1>0 DEF DataRead
    <3> HIDE DEF m, d
    <3>3. HeaderRead(d, t, m) /\ KeysTo(t, m) = Keys
      BY <3>1, HeaderKept, KeysExtended
    <3>4. t[k] = DataMark
      <4> HIDE DEF k
      <4> QED  BY <3>1 DEF OneMore
    <3>5. ASSUME NEW i \in (KeyCount + 3)..Len(t)
          PROVE  PadRecord(t[i])
      <4>1. CASE i = Len(s) + 1
        BY <1>1, <4>1 DEF OneMore
      <4>2. CASE i # Len(s) + 1
        <5>1. i \in (KeyCount + 3)..Len(s) /\ i \in 1..Len(s)
          BY <1>0, <4>2
        <5>2. t[i] = s[i]
          BY <5>1 DEF OneMore
        <5> QED  BY <3>2, <5>1, <5>2
      <4> QED  BY <4>1, <4>2
    <3>6. Len(t) >= KeyCount + 2
      BY <1>0
    <3> QED  BY <3>3, <3>4, <3>5, <3>6 DEF DataRead, m, k, d
  <2>9. Len(frames) = Len(t) - (KeyCount + 2)
    BY <1>0, <2>6
  <2> HIDE DEF q
  <2>10. ReadsAs(q, t)
    BY <2>7, <2>8, <2>9 DEF ReadsAs
  <2>11. Step(q, p, t, l)
    BY <2>3, <2>6, <2>7, <2>10 DEF Step
  <2> QED  BY <2>11 DEF q
<1>2. CASE ~PadRecord(l)
  <2>1. q = Reject(p)
    <3>1. IsRecord(l, {5}) <=> l.kind = "record" /\ l.good /\ Len(l.bytes) = 5
      BY DEF IsRecord
    <3> QED  BY <1>2, <3>1 DEF VersionedLine, PadRecord
  <2>2. ~q.ok
    BY <2>1, RejectIs
  <2>3. ~VersionedFile(t)
    <3>1. VersionedFile(t) => \A i \in (KeyCount + 3)..Len(t) : PadRecord(t[i])
      BY DEF VersionedFile, KeyCount, PadRecord
    <3>2. Len(s) + 1 \in (KeyCount + 3)..Len(t) /\ t[Len(s) + 1] = l
      BY <1>0 DEF OneMore
    <3> QED  BY <1>2, <3>1, <3>2
  <2> HIDE DEF q
  <2>4. Step(q, p, t, l)
    BY <1>4, <2>2, <2>3 DEF Step
  <2> QED  BY <2>4 DEF q
<1> QED  BY <1>1, <1>2

\* A line that gives no frame.
LEMMA NoFrame ==
  ASSUME NEW p, FileState(p), NEW l, l.kind # "record"
  PROVE  p.frames = p.frames \o FrameOf(l)
<1>1. p.frames \in Seq(FrameRecords)
  BY DEF FileState
<1>2. FrameOf(l) = <<>>
  BY DEF FrameOf
<1> QED  BY <1>1, <1>2, ConcatEmptySeq

LEMMA MagicStep ==
  ASSUME NEW p, FileState(p), p.ok, p.mode = "start",
         NEW s \in Seq(Tokenized), NEW l \in FileLines, NEW t \in Seq(Tokenized),
         OneMore(t, s, l), ReadsAs(p, s), l.kind = "magic", l.good,
         NEW q, q = [p EXCEPT !.mode = "header"]
  PROVE  Step(q, p, t, l)
<1>1. q.ok = p.ok /\ q.mode = "header" /\ q.settings = p.settings /\ q.frames = p.frames
  BY DEF FileState
<1>2. s = <<>> /\ p.settings = <<>> /\ p.frames = <<>> /\ Len(s) = 0
  BY DEF ReadsAs
<1>3. Len(t) = 1 /\ t[1] = l
  BY <1>2 DEF OneMore
<1>4. l = Magic(TRUE)
  BY ReplayAssumption DEF Tokenized, Blank, Broken, DataMark, Magic
<1>5. KeysTo(t, 1) = {}
  BY DEF KeysTo
<1>6. DOMAIN p.settings = {}
  BY <1>2
<1>7. Cardinality(KeysTo(t, 1)) = 0
  BY <1>5, FS_EmptySet
<1>8. HeaderRead(p.settings, t, 1)
  BY <1>3, <1>4, <1>5, <1>6, <1>7 DEF HeaderRead
<1>9. ReadsAs(q, t)
  BY <1>1, <1>2, <1>3, <1>8 DEF ReadsAs
<1>10. p.frames = p.frames \o FrameOf(l)
  BY NoFrame
<1> QED  BY <1>1, <1>9, <1>10 DEF Step

LEMMA HeaderStep ==
  ASSUME NEW p, FileState(p), p.ok, p.mode = "header",
         NEW s \in Seq(Tokenized), NEW l \in FileLines, NEW t \in Seq(Tokenized),
         OneMore(t, s, l), ReadsAs(p, s)
  PROVE  Step(HeaderLine(p, l), p, t, l)
<1> DEFINE q == HeaderLine(p, l)
           m == Len(s)
           d == p.settings
<1>0. /\ HeaderRead(d, s, m) /\ p.frames = <<>>
      /\ m \in Nat /\ m >= 1 /\ Len(t) = m + 1 /\ t[m + 1] = l
  <2>1. HeaderRead(d, s, m) /\ p.frames = <<>>
    BY DEF ReadsAs
  <2>2. m \in Nat /\ Len(t) = m + 1 /\ t[m + 1] = l
    BY DEF OneMore
  <2>3. m \in 1..Len(s)
    BY <2>1 DEF HeaderRead
  <2>4. m >= 1
    BY <2>2, <2>3
  <2> QED  BY <2>1, <2>2, <2>4
<1>4. DOMAIN d = KeysTo(s, m)
  BY <1>0 DEF HeaderRead
<1>5. m - 1 <= KeyCount /\ (KeysTo(s, m) = Keys <=> m - 1 = KeyCount) /\ KeyCount \in Nat
  BY <1>0, HeaderKeys, KeyCountType
<1>6. HeaderRead(d, t, m)
  BY <1>0, HeaderKept
<1>1. CASE l.kind = "data" /\ DOMAIN d = Keys
  <2>1. q = [p EXCEPT !.mode = "data"]
    BY <1>1 DEF HeaderLine
  <2>2. q.ok = p.ok /\ q.mode = "data" /\ q.settings = p.settings /\ q.frames = p.frames
    BY <2>1 DEF FileState
  <2>3. m = KeyCount + 1 /\ Len(t) = KeyCount + 2 /\ m \in 0..Len(s)
    BY <1>0, <1>1, <1>4, <1>5
  <2>4. l = DataMark
    BY <1>1, ReplayAssumption DEF Tokenized, Blank, Broken, DataMark
  <2>5. KeysTo(t, m) = Keys
    BY <1>1, <1>4, <2>3, KeysExtended
  <2>6. t[KeyCount + 2] = DataMark
    BY <2>3, <2>4 DEF OneMore
  <2>7. DataRead(d, t)
    <3>1. HeaderRead(d, t, KeyCount + 1) /\ KeysTo(t, KeyCount + 1) = Keys
      BY <1>6, <2>3, <2>5
    <3> QED  BY <1>5, <2>3, <2>6, <3>1 DEF DataRead
  <2>8. Len(p.frames) = Len(t) - (KeyCount + 2)
    BY <1>0, <1>5, <2>3
  <2> HIDE DEF q
  <2>9. ReadsAs(q, t)
    BY <2>2, <2>7, <2>8 DEF ReadsAs
  <2>10. p.frames = p.frames \o FrameOf(l)
    BY <1>1, NoFrame
  <2>11. Step(q, p, t, l)
    BY <2>2, <2>9, <2>10 DEF Step
  <2> QED  BY <2>11 DEF q
<1>2. CASE l.kind = "field" /\ l.good /\ l.key \notin DOMAIN d
  <2> DEFINE e == [k \in DOMAIN d \cup {l.key} |-> IF k = l.key THEN l.value ELSE d[k]]
  <2>1. q = [p EXCEPT !.settings = e]
    BY <1>2 DEF HeaderLine
  <2>2. l.key \in Keys
    BY <1>2, ReplayAssumption
  <2>3. DOMAIN e = DOMAIN d \cup {l.key} /\ e[l.key] = l.value /\ \A k \in DOMAIN d : e[k] = d[k]
    BY <1>2
  <2> HIDE DEF e
  <2>4. q.ok = p.ok /\ q.mode = "header" /\ q.settings = e /\ q.frames = p.frames
    BY <2>1 DEF FileState
  <2>5. HeaderRead(e, t, m + 1)
    <3>1. KeysTo(t, m + 1) = KeysTo(s, m) \cup {l.key}
      BY <1>0, KeysMore
    <3>2. IsFiniteSet(KeysTo(s, m)) /\ Cardinality(KeysTo(s, m)) = m - 1
      BY <1>0, HeaderKeys DEF HeaderRead
    <3>3. Cardinality(KeysTo(t, m + 1)) = (m + 1) - 1
      <4>1. Cardinality(KeysTo(s, m) \cup {l.key}) = Cardinality(KeysTo(s, m)) + 1
        BY <1>2, <1>4, <3>2, FS_AddElement
      <4>2. Cardinality(KeysTo(t, m + 1)) = (m - 1) + 1
        BY <3>1, <3>2, <4>1
      <4>3. (m - 1) + 1 = (m + 1) - 1
        BY <1>0
      <4> QED  BY <4>2, <4>3
    <3>4. t[m + 1] = l
      BY <1>0
    <3>5. ASSUME NEW i \in 2..(m + 1)
          PROVE  /\ t[i].kind = "field" /\ t[i].good /\ t[i].key \in Keys
                 /\ e[t[i].key] = t[i].value
      <4>1. CASE i = m + 1
        BY <1>2, <2>2, <2>3, <3>4, <4>1
      <4>2. CASE i # m + 1
        <5>1. i \in 2..m
          BY <1>0, <4>2
        <5>2. /\ t[i].kind = "field" /\ t[i].good /\ t[i].key \in Keys
              /\ d[t[i].key] = t[i].value /\ t[i].key \in KeysTo(t, m)
              /\ DOMAIN d = KeysTo(t, m)
          BY <1>6, <5>1 DEF HeaderRead, KeysTo
        <5> QED  BY <2>3, <5>2
      <4> QED  BY <4>1, <4>2
    <3>6. t[1] = Magic(TRUE)
      BY <1>6 DEF HeaderRead
    <3>7. m + 1 \in 1..Len(t) /\ DOMAIN e = KeysTo(t, m + 1)
      BY <1>0, <1>4, <2>3, <3>1
    <3> HIDE DEF m
    <3> QED  BY <3>3, <3>5, <3>6, <3>7 DEF HeaderRead
  <2> HIDE DEF q
  <2>6. ReadsAs(q, t)
    BY <1>0, <2>4, <2>5 DEF ReadsAs
  <2>7. p.frames = p.frames \o FrameOf(l)
    BY <1>2, NoFrame
  <2>8. Step(q, p, t, l)
    BY <2>4, <2>6, <2>7 DEF Step
  <2> QED  BY <2>8 DEF q
<1>3. CASE /\ ~(l.kind = "data" /\ DOMAIN d = Keys)
           /\ ~(l.kind = "field" /\ l.good /\ l.key \notin DOMAIN d)
  <2>1. q = Reject(p)
    BY <1>3 DEF HeaderLine
  <2>2. ~q.ok
    BY <2>1, RejectIs
  <2>3. ~VersionedFile(t)
    <3>1. Len(t) \in Nat /\ Len(t) < KeyCount + 3
      BY <1>0, <1>5
    <3> QED  BY <3>1, ShortNotVersioned
  <2>4. ~LegacyFile(t)
    BY <1>6, HeaderNotLegacy
  <2> HIDE DEF q
  <2>5. Step(q, p, t, l)
    BY <2>2, <2>3, <2>4 DEF Step
  <2> QED  BY <2>5 DEF q
<1> QED  BY <1>1, <1>2, <1>3

LEMMA BrokenStep ==
  ASSUME NEW p, FileState(p), p.ok,
         NEW s \in Seq(Tokenized), NEW l \in FileLines, NEW t \in Seq(Tokenized),
         OneMore(t, s, l), ReadsAs(p, s),
         l.kind = "broken" \/ (l.kind = "magic" /\ p.mode = "start" /\ ~l.good)
  PROVE  Step(Reject(p), p, t, l)
<1>1. ~Reject(p).ok
  BY RejectIs
<1>2. ~LegacyFile(t)
  BY LastNotLegacy DEF IsRecord
<1>3. ~VersionedFile(t)
  <2>1. CASE p.mode = "start"
    <3>1. Len(s) = 0
      BY <2>1 DEF ReadsAs
    <3>2. Len(t) \in Nat /\ Len(t) < KeyCount + 3
      BY <3>1, KeyCountType DEF OneMore
    <3> QED  BY <3>2, ShortNotVersioned
  <2>2. CASE p.mode = "legacy"
    BY <2>2, LegacyStays
  <2>3. CASE p.mode = "header"
    <3>1. HeaderRead(p.settings, s, Len(s)) /\ Len(s) \in Nat /\ Len(t) = Len(s) + 1
      BY <2>3 DEF ReadsAs, OneMore
    <3>2. Len(s) - 1 <= KeyCount
      BY <3>1, HeaderKeys
    <3>3. Len(t) \in Nat /\ Len(t) < KeyCount + 3
      BY <3>1, <3>2, KeyCountType
    <3> QED  BY <3>3, ShortNotVersioned
  <2>4. CASE p.mode = "data"
    <3>1. VersionedFile(t) => \A i \in (KeyCount + 3)..Len(t) : PadRecord(t[i])
      BY DEF VersionedFile, KeyCount, PadRecord
    <3>2. Len(s) + 1 \in (KeyCount + 3)..Len(t) /\ t[Len(s) + 1] = l
      BY <2>4, KeyCountType DEF OneMore, ReadsAs, DataRead
    <3> QED  BY <3>1, <3>2 DEF PadRecord, IsRecord
  <2> QED  BY <2>1, <2>2, <2>3, <2>4 DEF FileState
<1> QED  BY <1>1, <1>2, <1>3 DEF Step

\* Every line that counts.
LEMMA TakeLineStep ==
  ASSUME NEW p, FileState(p), p.ok,
         NEW s \in Seq(Tokenized), NEW l \in FileLines, NEW t \in Seq(Tokenized),
         OneMore(t, s, l), ReadsAs(p, s), l # Blank
  PROVE  Step(TakeLine(p, l), p, t, l)
<1>1. l.kind # "blank" /\ p.mode \in {"start", "header", "data", "legacy"}
  BY ReplayAssumption DEF Tokenized, Blank, Broken, DataMark, FileState
<1>2. CASE l.kind = "broken" \/ (l.kind = "magic" /\ p.mode = "start" /\ ~l.good)
  <2>1. TakeLine(p, l) = Reject(p)
    BY <1>2 DEF TakeLine
  <2> QED  BY <1>2, <2>1, BrokenStep
<1>3. CASE l.kind = "magic" /\ p.mode = "start" /\ l.good
  <2>1. TakeLine(p, l) = [p EXCEPT !.mode = "header"]
    BY <1>3 DEF TakeLine
  <2> QED  BY <1>3, <2>1, MagicStep
<1>4. CASE l.kind # "broken" /\ p.mode = "header"
  <2>1. TakeLine(p, l) = HeaderLine(p, l)
    BY <1>1, <1>4 DEF TakeLine
  <2> QED  BY <1>4, <2>1, HeaderStep
<1>5. CASE l.kind # "broken" /\ p.mode = "data"
  <2>1. TakeLine(p, l) = VersionedLine(p, l)
    BY <1>1, <1>5 DEF TakeLine
  <2> QED  BY <1>5, <2>1, VersionedStep
<1>6. CASE /\ l.kind # "broken" /\ p.mode \in {"start", "legacy"}
           /\ ~(l.kind = "magic" /\ p.mode = "start")
  <2>1. TakeLine(p, l) = LegacyLine(p, l)
    BY <1>1, <1>6 DEF TakeLine
  <2> QED  BY <1>6, <2>1, LegacyStep
<1> QED  BY <1>1, <1>2, <1>3, <1>4, <1>5, <1>6

\* What is loaded is what is well formed.
Gives(s, key, value) == \E i \in 2..(KeyCount + 1) : s[i].key = key /\ s[i].value = value

LEMMA VersionedIs ==
  ASSUME NEW s
  PROVE  VersionedFile(s) <=>
           /\ Len(s) >= KeyCount + 3
           /\ s[1] = Magic(TRUE)
           /\ \A i \in 2..(KeyCount + 1) : s[i].kind = "field" /\ s[i].good
           /\ KeysTo(s, KeyCount + 1) = Keys
           /\ s[KeyCount + 2] = DataMark
           /\ \A i \in (KeyCount + 3)..Len(s) : PadRecord(s[i])
           /\ Gives(s, "fourscore", 1) => Gives(s, "port0", 1) /\ Gives(s, "port1", 1)
  BY DEF VersionedFile, KeyCount, KeysTo, PadRecord, Gives

LEMMA LoadedIs ==
  ASSUME NEW p, FileState(p), p.ok, NEW s \in Seq(Tokenized), ReadsAs(p, s)
  PROVE  Loaded(p) <=> LegacyFile(s) \/ VersionedFile(s)
<1>0. Len(s) \in Nat /\ KeyCount \in Nat
  BY KeyCountType
<1>1. CASE p.mode = "start"
  <2>1. s = <<>> /\ p.frames = <<>> /\ Len(s) = 0
    BY <1>1 DEF ReadsAs
  <2>2. Len(s) < KeyCount + 3
    BY <1>0, <2>1
  <2> QED  BY <1>0, <2>1, <2>2, ShortNotVersioned DEF Loaded, LegacyFile
<1>2. CASE p.mode = "legacy"
  <2>1. LegacyFile(s) /\ p.frames # <<>>
    BY <1>2 DEF ReadsAs
  <2>2. ~Versioned(p) /\ Setting(p, "fourscore") # 1
    BY <1>2 DEF Versioned, Setting
  <2> QED  BY <2>1, <2>2 DEF Loaded
<1>3. CASE p.mode = "header"
  <2>1. HeaderRead(p.settings, s, Len(s)) /\ p.frames = <<>>
    BY <1>3 DEF ReadsAs
  <2>2. Len(s) - 1 <= KeyCount
    BY <2>1, HeaderKeys
  <2>3. Len(s) < KeyCount + 3
    BY <1>0, <2>2
  <2>4. ~LegacyFile(s)
    BY <2>1, HeaderNotLegacy
  <2> QED  BY <1>0, <2>1, <2>3, <2>4, ShortNotVersioned DEF Loaded
<1>4. CASE p.mode = "data"
  <2> DEFINE d == p.settings
             m == KeyCount + 1
  <2>1. DataRead(d, s) /\ Len(p.frames) = Len(s) - (KeyCount + 2)
    BY <1>4 DEF ReadsAs
  <2>2. /\ HeaderRead(d, s, m) /\ KeysTo(s, m) = Keys
        /\ Len(s) >= KeyCount + 2 /\ s[KeyCount + 2] = DataMark
        /\ \A i \in (KeyCount + 3)..Len(s) : PadRecord(s[i])
    BY <2>1 DEF DataRead
  <2>3. ~LegacyFile(s)
    BY <2>2, HeaderNotLegacy
  <2>4. p.frames # <<>> <=> Len(s) >= KeyCount + 3
    <3>1. p.frames \in Seq(FrameRecords)
      BY DEF FileState
    <3>2. p.frames # <<>> <=> Len(p.frames) > 0
      BY <3>1
    <3> QED  BY <1>0, <2>1, <2>2, <3>2
  <2>5. ASSUME NEW k \in Keys
        PROVE  d[k] = 1 <=> Gives(s, k, 1)
    <3>1. \A i \in 2..m : d[s[i].key] = s[i].value
      BY <2>2 DEF HeaderRead
    <3>2. PICK i \in 2..m : s[i].key = k
      BY <2>2 DEF KeysTo
    <3>3. d[k] = s[i].value
      BY <3>1, <3>2
    <3>4. d[k] = 1 => Gives(s, k, 1)
      BY <3>2, <3>3 DEF Gives
    <3>5. Gives(s, k, 1) => d[k] = 1
      BY <3>1 DEF Gives
    <3> QED  BY <3>4, <3>5
  <2>6. {"fourscore", "port0", "port1"} \subseteq Keys
    BY KeysAssumption
  <2>7. Loaded(p) <=> /\ p.frames # <<>>
                      /\ d["fourscore"] = 1 => d["port0"] = 1 /\ d["port1"] = 1
    BY <1>4 DEF Loaded, Versioned, Setting
  <2>8. Loaded(p) <=> /\ Len(s) >= KeyCount + 3
                      /\ Gives(s, "fourscore", 1) => Gives(s, "port0", 1) /\ Gives(s, "port1", 1)
    BY <2>4, <2>5, <2>6, <2>7
  <2>9. s[1] = Magic(TRUE) /\ \A i \in 2..m : s[i].kind = "field" /\ s[i].good
    BY <2>2 DEF HeaderRead
  <2>10. VersionedFile(s) <=>
           /\ Len(s) >= KeyCount + 3
           /\ Gives(s, "fourscore", 1) => Gives(s, "port0", 1) /\ Gives(s, "port1", 1)
    BY <2>2, <2>9, VersionedIs
  <2> QED  BY <2>3, <2>8, <2>10
<1> QED  BY <1>1, <1>2, <1>3, <1>4 DEF FileState

-----------------------------------------------------------------------------
(* The lines that count and their frames, line by line.                    *)

LEMMA NoLines == Significant(<<>>) = <<>> /\ FramesOf(<<>>) = <<>>
<1> DEFINE p == [i \in DOMAIN <<>> |-> Counting(<<>>[i])]
           q == [i \in DOMAIN <<>> |-> FrameOf(<<>>[i])]
<1>1. p = <<>> /\ q = <<>> /\ Len(<<>>) = 0
  OBVIOUS
<1>2. Significant(<<>>) = FlattenSeq(p) /\ FramesOf(<<>>) = FlattenSeq(q)
  BY DEF Significant, FramesOf
<1> HIDE DEF p, q
<1>3. FlattenSeq(<<>>) = <<>>
  BY <1>1, FlattenIs
<1> QED  BY <1>1, <1>2, <1>3

LEMMA LinesMore ==
  ASSUME NEW ls \in Seq(FileLines), NEW l \in FileLines
  PROVE  /\ Significant(Append(ls, l)) = Significant(ls) \o Counting(l)
         /\ FramesOf(Append(ls, l)) = FramesOf(ls) \o FrameOf(l)
<1> DEFINE n == Len(ls)
           ks == Append(ls, l)
           p == [i \in DOMAIN ls |-> Counting(ls[i])]
           q == [i \in DOMAIN ks |-> Counting(ks[i])]
           u == [i \in DOMAIN ls |-> FrameOf(ls[i])]
           v == [i \in DOMAIN ks |-> FrameOf(ks[i])]
<1>1. n \in Nat /\ DOMAIN ls = 1..n
  OBVIOUS
<1>2. DOMAIN ks = 1..(n + 1) /\ (\A i \in 1..n : ks[i] = ls[i]) /\ ks[n + 1] = l
  OBVIOUS
<1>3. Significant(ls) = FlattenSeq(p) /\ Significant(ks) = FlattenSeq(q)
  BY DEF Significant
<1>4. FramesOf(ls) = FlattenSeq(u) /\ FramesOf(ks) = FlattenSeq(v)
  BY DEF FramesOf
<1> HIDE DEF n, ks
<1>5. /\ Len(p) = n /\ (n = 0 => p = <<>>) /\ Len(q) = n + 1
      /\ Extends(q, p, n) /\ q[n + 1] = Counting(l)
  BY <1>1, <1>2 DEF Extends
<1>6. /\ Len(u) = n /\ (n = 0 => u = <<>>) /\ Len(v) = n + 1
      /\ Extends(v, u, n) /\ v[n + 1] = FrameOf(l)
  BY <1>1, <1>2 DEF Extends
<1> HIDE DEF p, q, u, v
<1>7. Counting(l) \in Seq({l})
  BY ShortTyped DEF Counting
<1>8. PICK S : FrameOf(l) \in Seq(S)
  <2>1. \A x : <<x>> \in Seq({x}) /\ <<>> \in Seq({x})
    BY ShortTyped
  <2> QED  BY <2>1 DEF FrameOf
<1>9. FlattenSeq(q) = FlattenSeq(p) \o q[n + 1]
  BY <1>1, <1>5, <1>7, FlattenMore
<1>10. FlattenSeq(v) = FlattenSeq(u) \o v[n + 1]
  BY <1>1, <1>6, <1>8, FlattenMore
<1>11. /\ Significant(ks) = Significant(ls) \o Counting(l)
       /\ FramesOf(ks) = FramesOf(ls) \o FrameOf(l)
  BY <1>3, <1>4, <1>5, <1>6, <1>9, <1>10
<1> QED  BY <1>11 DEF ks

\* While it loads, the reader has what the lines it has read amount to.
LinesRead(p, ls) ==
  /\ ls \in Seq(FileLines) /\ Significant(ls) \in Seq(Tokenized)
  /\ p.ok => p.frames = FramesOf(ls) /\ ReadsAs(p, Significant(ls))
  /\ ~p.ok => ~WellFormed(ls)

LEMMA LinesStart == LinesRead(Start, <<>>)
<1>1. ReadsAs(Start, <<>>)
  BY DEF ReadsAs, Start
<1>2. <<>> \in Seq(FileLines) /\ <<>> \in Seq(Tokenized)
  BY ShortTyped
<1>3. Start.ok /\ Start.frames = <<>>
  BY DEF Start
<1> QED  BY <1>1, <1>2, <1>3, NoLines DEF LinesRead

LEMMA LinesStep ==
  ASSUME NEW p, FileState(p), p.ok, NEW ls, LinesRead(p, ls), NEW l \in FileLines
  PROVE  LinesRead(TakeLine(p, l), Append(ls, l))
<1> DEFINE s == Significant(ls)
           ks == Append(ls, l)
           q == TakeLine(p, l)
<1>1. /\ ls \in Seq(FileLines) /\ s \in Seq(Tokenized) /\ p.frames = FramesOf(ls)
      /\ ReadsAs(p, s)
  BY DEF LinesRead
<1>2. ks \in Seq(FileLines)
  BY <1>1
<1>3. Significant(ks) = s \o Counting(l) /\ FramesOf(ks) = FramesOf(ls) \o FrameOf(l)
  BY <1>1, LinesMore
<1>4. l \in Tokenized
  BY ReplayAssumption
<1> HIDE DEF s, ks
<1>5. CASE l = Blank
  <2>1. q = p
    BY <1>5 DEF TakeLine, Blank
  <2>2. Significant(ks) = s
    BY <1>1, <1>3, <1>5, ConcatEmptySeq DEF Counting
  <2>3. FramesOf(ks) = p.frames
    <3>1. p.frames = p.frames \o FrameOf(l)
      BY <1>5, NoFrame DEF Blank
    <3> QED  BY <1>1, <1>3, <3>1
  <2> HIDE DEF q
  <2>4. LinesRead(q, ks)
    BY <1>1, <1>2, <2>1, <2>2, <2>3 DEF LinesRead
  <2> QED  BY <2>4 DEF q, ks
<1>6. CASE l # Blank
  <2> DEFINE t == Append(s, l)
  <2>1. t \in Seq(Tokenized) /\ OneMore(t, s, l)
    BY <1>1, <1>4, AppendProperties DEF OneMore
  <2>2. Significant(ks) = t
    BY <1>1, <1>3, <1>4, <1>6, AppendIsConcat DEF Counting
  <2> HIDE DEF t
  <2>3. Step(q, p, t, l)
    BY <1>1, <1>6, <2>1, TakeLineStep
  <2> HIDE DEF q
  <2>4. LinesRead(q, ks)
    BY <1>1, <1>2, <1>3, <2>1, <2>2, <2>3 DEF Step, LinesRead, WellFormed
  <2> QED  BY <2>4 DEF q, ks
<1> QED  BY <1>5, <1>6

FileInv == ReplayInv /\ (stage = "load" => LinesRead(file, lines))

LEMMA FileInvAlways == Spec => []FileInv
<1>1. Init => FileInv
  BY InitInv, LinesStart DEF Init, FileInv
<1>2. FileInv /\ [Next]_vars => FileInv'
  <2> SUFFICES ASSUME FileInv, [Next]_vars PROVE FileInv'
    OBVIOUS
  <2>1. ReplayInv'
    BY NextInv DEF FileInv
  <2>2. ASSUME stage' = "load"
        PROVE  LinesRead(file', lines')
    <3>1. CASE ReadLine
      <4>1. PICK l \in FileLines : file' = TakeLine(file, l) /\ lines' = Append(lines, l)
        BY <3>1 DEF ReadLine
      <4>2. FileState(file) /\ file.ok /\ LinesRead(file, lines)
        BY <3>1 DEF ReadLine, FileInv, ReplayInv
      <4> QED  BY <4>1, <4>2, LinesStep
    <3>2. CASE EndOfFile \/ BeginFrame \/ EndFrame \/ Finish
      BY <2>2, <3>2 DEF EndOfFile, BeginFrame, EndFrame, Finish
    <3>3. CASE (\E w \in Ports : Read(w)) \/ (\E b \in {0, 1} : Strobe(b))
      BY <2>2, <3>3 DEF Read, Strobe
    <3>4. CASE UNCHANGED vars
      BY <2>2, <3>4 DEF vars, FileInv
    <3> QED  BY <3>1, <3>2, <3>3, <3>4 DEF Next
  <2> QED  BY <2>1, <2>2 DEF FileInv
<1> QED  BY <1>1, <1>2, PTL DEF Spec

\* load() accepts exactly the files of the grammar in input_replay.md, whatever the
\* order of their metadata and wherever blank lines and comments stand, and takes from
\* them exactly their frame lines, in order.
THEOREM GrammarKept == Spec => []FileMatchesGrammar
<1>1. FileInv => FileMatchesGrammar
  <2> SUFFICES ASSUME FileInv, stage = "load"
               PROVE  /\ Loaded(file) <=> WellFormed(lines)
                      /\ Loaded(file) => file.frames = FramesOf(lines)
    BY DEF FileMatchesGrammar
  <2>1. FileState(file) /\ LinesRead(file, lines)
    BY DEF FileInv, ReplayInv
  <2>2. CASE file.ok
    <3>1. Loaded(file) <=> WellFormed(lines)
      BY <2>1, <2>2, LoadedIs DEF LinesRead, WellFormed
    <3> QED  BY <2>1, <2>2, <3>1 DEF LinesRead
  <2>3. CASE ~file.ok
    BY <2>1, <2>3 DEF LinesRead, Loaded
  <2> QED  BY <2>2, <2>3
<1> QED  BY <1>1, FileInvAlways, PTL

=============================================================================
