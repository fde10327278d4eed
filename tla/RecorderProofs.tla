---------------------------- MODULE RecorderProofs ----------------------------
(***************************************************************************)
(* Theorems about Recorder for any command lines, frames of any height,    *)
(* runs with room for any number of instructions, and files that cannot be *)
(* created at any one moment: the types, that a dump shows only rows of    *)
(* its own frame, and that list, manifest and traces are what the command  *)
(* line asks for, in the order of what the machine did.                    *)
(*                                                                         *)
(* The invariant has three parts.  Ledger: the types, the rows drawn so    *)
(* far, and what is listed, counted and lost so far.  Following: counters  *)
(* and list are a function of the moments.  Tracing: so are the traces.    *)
(***************************************************************************)
EXTENDS Recorder, FiniteSetTheorems, SequenceTheorems, WellFoundedInduction, TLAPS

-----------------------------------------------------------------------------
(* Counting, induction, and FlattenSeq one sequence at a time.             *)

\* A residue is smaller than the modulus.
LEMMA ModRange ==
  ASSUME NEW M \in Nat \ {0}, NEW x \in Int
  PROVE  x % M \in 0..(M - 1)
  OBVIOUS

\* A quotient of natural numbers, and what it leaves.
LEMMA DivMod ==
  ASSUME NEW x \in Nat, NEW p \in Nat \ {0}
  PROVE  /\ x \div p \in Nat /\ x % p \in 0..(p - 1)
         /\ x = p * (x \div p) + (x % p)
         /\ p * (x \div p) \in Nat
  OBVIOUS

\* Products grow with their factors.
LEMMA TimesGrows ==
  ASSUME NEW p \in Nat, NEW m \in Nat, NEW n \in Nat, m <= n
  PROVE  /\ p * m \in Nat /\ p * n \in Nat /\ p * m <= p * n
         /\ p * (m + 1) = p * m + p
  OBVIOUS

\* Quotient and remainder are determined by the number.
LEMMA DivUnique ==
  ASSUME NEW p \in Nat \ {0}, NEW q \in Nat, NEW r \in 0..(p - 1)
  PROVE  /\ (p * q + r) \div p = q
         /\ (p * q + r) % p = r
<1> DEFINE x == p * q + r
           k == x \div p
           s == x % p
<1>1. p * q \in Nat /\ x \in Nat
  BY TimesGrows
<1>2. k \in Nat /\ s \in 0..(p - 1) /\ x = p * k + s /\ p * k \in Nat
  BY <1>1, DivMod
<1>3. x = p * q + r
  OBVIOUS
<1> HIDE DEF x, k, s
<1>4. ~(k < q)
  <2> SUFFICES ASSUME k < q PROVE FALSE
    OBVIOUS
  <2>1. p * (k + 1) <= p * q /\ p * (k + 1) = p * k + p
    BY <1>2, TimesGrows
  <2> QED  BY <1>1, <1>2, <1>3, <2>1
<1>5. ~(q < k)
  <2> SUFFICES ASSUME q < k PROVE FALSE
    OBVIOUS
  <2>1. p * (q + 1) <= p * k /\ p * (q + 1) = p * q + p
    BY <1>2, TimesGrows
  <2> QED  BY <1>1, <1>2, <1>3, <2>1
<1>6. k = q
  BY <1>2, <1>4, <1>5
<1>7. s = r
  BY <1>1, <1>2, <1>3, <1>6
<1> QED  BY <1>6, <1>7 DEF x, k, s

\* A set that holds 0 and with every number the next one holds them all: < has no
\* infinite descent.
LEMMA SetInduction ==
  ASSUME NEW S, 0 \in S, \A n \in Nat : n \in S => n + 1 \in S
  PROVE  Nat \subseteq S
<1> DEFINE R == OpToRel(<, Nat)
           T == Nat \ S
<1> SUFFICES ASSUME T # {} PROVE FALSE
  OBVIOUS
<1>1. IsWellFoundedOn(R, Nat)
  BY NatLessThanWellFounded
<1>2. \A x, y \in Nat : y < x => <<y, x>> \in R
  BY DEF OpToRel
<1> HIDE DEF R
<1>3. PICK x \in T : \A y \in T : ~(<<y, x>> \in R)
  BY <1>1, WFMin
<1>4. x \in Nat /\ x \notin S /\ x # 0
  OBVIOUS
<1>5. x - 1 \in Nat /\ x - 1 < x
  BY <1>4
<1>6. <<x - 1, x>> \in R
  BY <1>2, <1>4, <1>5
<1>7. x - 1 \in S
  BY <1>3, <1>5, <1>6
<1>8. (x - 1) + 1 \in S
  BY <1>5, <1>7
<1> QED  BY <1>4, <1>8

\* f[i] is the first i of the sequences p, one after the other.
IsFlat(f, p, n) == f = [i \in 1..n |-> IF i = 1 THEN p[i] ELSE f[i - 1] \o p[i]]

LEMMA FlatExist == \A p : \A n \in Nat : \E f : IsFlat(f, p, n)
<1> SUFFICES ASSUME NEW p PROVE \A n \in Nat : \E f : IsFlat(f, p, n)
  OBVIOUS
<1> DEFINE S == {n \in Nat : \E f : IsFlat(f, p, n)}
<1>1. 0 \in S
  <2> DEFINE g == [i \in 1..0 |-> p[i]]
  <2>1. g = [i \in 1..0 |-> IF i = 1 THEN p[i] ELSE g[i - 1] \o p[i]]
    OBVIOUS
  <2> HIDE DEF g
  <2>2. IsFlat(g, p, 0)
    BY <2>1 DEF IsFlat
  <2> QED  BY <2>2
<1>2. ASSUME NEW n \in Nat, n \in S
      PROVE  n + 1 \in S
  <2>1. PICK f : IsFlat(f, p, n)
    BY <1>2
  <2> DEFINE last == IF n = 0 THEN p[1] ELSE f[n] \o p[n + 1]
             g == [i \in 1..(n + 1) |-> IF i <= n THEN f[i] ELSE last]
  <2>2. \A i \in 1..n : f[i] = IF i = 1 THEN p[i] ELSE f[i - 1] \o p[i]
    BY <2>1 DEF IsFlat
  <2>3. ASSUME NEW i \in 1..(n + 1)
        PROVE  g[i] = IF i = 1 THEN p[i] ELSE g[i - 1] \o p[i]
    <3>1. CASE i <= n
      <4>1. i \in 1..n /\ (i # 1 => i - 1 \in 1..(n + 1) /\ i - 1 <= n)
        BY <3>1
      <4>2. g[i] = f[i] /\ (i # 1 => g[i - 1] = f[i - 1])
        BY <3>1, <4>1
      <4> HIDE DEF g
      <4> QED  BY <2>2, <4>1, <4>2
    <3>2. CASE ~(i <= n)
      <4>1. i = n + 1 /\ (i # 1 => n # 0 /\ i - 1 = n /\ n \in 1..(n + 1) /\ n <= n)
            /\ (i = 1 => n = 0)
        BY <3>2
      <4>2. g[i] = last /\ (i # 1 => g[n] = f[n])
        BY <3>2, <4>1
      <4> HIDE DEF g
      <4> QED  BY <4>1, <4>2
    <3> QED  BY <3>1, <3>2
  <2>4. g = [i \in 1..(n + 1) |-> g[i]]
    OBVIOUS
  <2> HIDE DEF g
  <2>5. g = [i \in 1..(n + 1) |-> IF i = 1 THEN p[i] ELSE g[i - 1] \o p[i]]
    BY <2>3, <2>4
  <2>6. IsFlat(g, p, n + 1)
    BY <2>5 DEF IsFlat
  <2> QED  BY <2>6
<1> HIDE DEF S
<1>3. Nat \subseteq S
  BY <1>1, <1>2, SetInduction
<1> QED  BY <1>3 DEF S

\* q goes on where p, of n elements, ends.
Extends(q, p, n) == \A i \in 1..n : q[i] = p[i]

LEMMA FlatAgree ==
  ASSUME NEW n \in Nat, NEW m \in Nat, n <= m, NEW p, NEW q, Extends(q, p, n),
         NEW f, NEW g, IsFlat(f, p, n), IsFlat(g, q, m)
  PROVE  Extends(g, f, n)
<1> DEFINE S == {i \in Nat : i \in 1..n => f[i] = g[i]}
<1>1. /\ \A i \in 1..n : f[i] = IF i = 1 THEN p[i] ELSE f[i - 1] \o p[i]
      /\ \A i \in 1..m : g[i] = IF i = 1 THEN q[i] ELSE g[i - 1] \o q[i]
  BY DEF IsFlat
<1>2. 0 \in S
  OBVIOUS
<1>3. ASSUME NEW i \in Nat, i \in S
      PROVE  i + 1 \in S
  <2> SUFFICES ASSUME i + 1 \in 1..n PROVE f[i + 1] = g[i + 1]
    OBVIOUS
  <2> DEFINE j == i + 1
  <2>1. j \in 1..n /\ j \in 1..m /\ j - 1 = i /\ (j # 1 => i \in 1..n)
    OBVIOUS
  <2>2. j # 1 => f[i] = g[i]
    BY <1>3, <2>1
  <2>3. q[j] = p[j]
    BY <2>1 DEF Extends
  <2> HIDE DEF j
  <2>4. f[j] = g[j]
    BY <1>1, <2>1, <2>2, <2>3
  <2> QED  BY <2>4 DEF j
<1> HIDE DEF S
<1>4. Nat \subseteq S
  BY <1>2, <1>3, SetInduction
<1> QED  BY <1>4 DEF S, Extends

Flat(p, n) == CHOOSE f : IsFlat(f, p, n)

LEMMA FlattenIs ==
  ASSUME NEW p
  PROVE  FlattenSeq(p) = IF Len(p) = 0 THEN p ELSE Flat(p, Len(p))[Len(p)]
BY DEF FlattenSeq, Flat, IsFlat

\* One sequence more.
LEMMA FlattenMore ==
  ASSUME NEW n \in Nat, NEW p, Len(p) = n, n = 0 => p = <<>>,
         NEW q, Len(q) = n + 1, Extends(q, p, n),
         NEW S, q[n + 1] \in Seq(S)
  PROVE  FlattenSeq(q) = FlattenSeq(p) \o q[n + 1]
<1> DEFINE f == Flat(p, n)
           g == Flat(q, n + 1)
<1>0. n + 1 \in Nat /\ n <= n + 1
  OBVIOUS
<1>1. IsFlat(f, p, n) /\ IsFlat(g, q, n + 1)
  <2>1. (\E h : IsFlat(h, p, n)) /\ (\E h : IsFlat(h, q, n + 1))
    BY <1>0, FlatExist
  <2> QED  BY <2>1 DEF Flat
<1>2. FlattenSeq(q) = g[n + 1]
  BY FlattenIs
<1>3. n # 0 => FlattenSeq(p) = f[n]
  BY FlattenIs
<1>4. n = 0 => FlattenSeq(p) = <<>>
  BY FlattenIs
<1> HIDE DEF f, g
<1>5. g[n + 1] = IF n + 1 = 1 THEN q[n + 1] ELSE g[(n + 1) - 1] \o q[n + 1]
  <2>1. n + 1 \in 1..(n + 1)
    OBVIOUS
  <2> QED  BY <1>1, <2>1 DEF IsFlat
<1>6. n # 0 => g[(n + 1) - 1] = f[n]
  <2>1. (n + 1) - 1 = n /\ (n # 0 => n \in 1..n)
    OBVIOUS
  <2> DEFINE m == n + 1
  <2>2. IsFlat(g, q, m) /\ m \in Nat /\ n <= m
    BY <1>0, <1>1
  <2> HIDE DEF m
  <2>3. Extends(g, f, n)
    BY <1>1, <2>2, FlatAgree
  <2> QED  BY <2>1, <2>3 DEF Extends
<1>7. <<>> \o q[n + 1] = q[n + 1]
  BY ConcatEmptySeq
<1>8. CASE n = 0
  BY <1>2, <1>4, <1>5, <1>7, <1>8
<1>9. CASE n # 0
  <2>1. n + 1 # 1
    BY <1>9
  <2> QED  BY <1>2, <1>3, <1>5, <1>6, <1>9, <2>1
<1> QED  BY <1>8, <1>9

\* Nothing but empty sequences.
LEMMA FlattenNone ==
  ASSUME NEW n \in Nat, NEW p, Len(p) = n, n = 0 => p = <<>>, \A i \in 1..n : p[i] = <<>>
  PROVE  FlattenSeq(p) = <<>>
<1> DEFINE f == Flat(p, n)
           S == {i \in Nat : i \in 1..n => f[i] = <<>>}
<1>1. IsFlat(f, p, n)
  <2>1. \E h : IsFlat(h, p, n)
    BY FlatExist
  <2> QED  BY <2>1 DEF Flat
<1>2. FlattenSeq(p) = IF n = 0 THEN p ELSE f[n]
  BY FlattenIs
<1> HIDE DEF f
<1>3. \A i \in 1..n : f[i] = IF i = 1 THEN p[i] ELSE f[i - 1] \o p[i]
  BY <1>1 DEF IsFlat
<1>4. 0 \in S
  OBVIOUS
<1>5. ASSUME NEW i \in Nat, i \in S
      PROVE  i + 1 \in S
  <2> SUFFICES ASSUME i + 1 \in 1..n PROVE f[i + 1] = <<>>
    OBVIOUS
  <2> DEFINE j == i + 1
  <2>1. j \in 1..n /\ j - 1 = i /\ (j # 1 => i \in 1..n)
    OBVIOUS
  <2>2. j # 1 => f[i] = <<>>
    BY <1>5, <2>1
  <2>3. <<>> \o <<>> = <<>>
    OBVIOUS
  <2> HIDE DEF j
  <2>4. f[j] = <<>>
    BY <1>3, <2>1, <2>2, <2>3
  <2> QED  BY <2>4 DEF j
<1> HIDE DEF S
<1>6. Nat \subseteq S
  BY <1>4, <1>5, SetInduction
<1>7. n # 0 => f[n] = <<>>
  BY <1>6 DEF S
<1> QED  BY <1>2, <1>7

LEMMA ShortTyped ==
  ASSUME NEW S
  PROVE  <<>> \in Seq(S) /\ \A x \in S : <<x>> \in Seq(S)
OBVIOUS

-----------------------------------------------------------------------------
(* Types.                                                                  *)

Screen == Rows \cup {-1}

Names ==
  {<<"pc", pc, n>> : pc \in config.targets, n \in Nat} \cup {<<"insn", n>> : n \in Nat}
  \cup {<<"scanline", f, l>> : f \in Nat, l \in Rows} \cup {<<"frame", f>> : f \in Nat}

Listed ==
  [name : Names, frame : Nat, scanline : Screen, insns : Nat,
   rows : UNION {[0..(n - 1) -> Nat] : n \in 0..Lines}]

Moment ==
  [is : {"insn"}, pc : config.targets, frame : Nat, line : Screen]
  \cup [is : {"line", "frame"}, frame : Nat, line : Screen]

InFrame == phase \in {"dead", "blank", "before", "after", "end"}

\* The moment being recorded.
Now == Len(moments) + 1

\* What is lost belongs to a moment that is over, or is the trace of a frame.
LostKnown ==
  lost \subseteq ((1..Len(moments)) \X Names) \cup ({0} \X {<<"trace", f>> : f \in 1..frame})

Types ==
  /\ TypeOK
  /\ moments \in Seq(Moment) /\ listing \in Seq(Listed) /\ LostKnown
  /\ InFrame => frame \in Nat \ {0}
  /\ ~InFrame => trace = 0
  /\ manifest # <<>> => phase = "closed"

-----------------------------------------------------------------------------
(* Rows.                                                                   *)

\* The rows above the line, and the line once it is finished, are this frame's.
RowsDrawn ==
  /\ phase = "before" => \A r \in Rows : r < line => drawn[r] = frame
  /\ phase = "after" => \A r \in Rows : r <= line => drawn[r] = frame
  /\ phase = "end" => \A r \in Rows : drawn[r] = frame

-----------------------------------------------------------------------------
(* Names.                                                                  *)

\* A dump with this name may have been written; as long as the instruction numbers have
\* not come again, no later dump has the name.
Past(name) ==
  \/ name[1] = "pc" /\ name[3] <= hits[name[2]]
  \/ name[1] = "insn" /\ name[2] <= insnTotal
  \/ /\ name[1] = "scanline"
     /\ name[2] < frame \/ (name[2] = frame /\ (phase \in {"end", "idle", "closed"} \/ name[3] < line))
  \/ /\ name[1] = "frame"
     /\ name[2] < frame \/ (name[2] = frame /\ phase \in {"idle", "closed"})

MomentsFramed == \A i \in DOMAIN moments : moments[i].frame \in 1..frame

\* Every dump listed shows only rows of its frame and counts for its kind.
NamesIn(L) == {L[i].name : i \in DOMAIN L}
OfKind(L, k) == {i \in DOMAIN L : L[i].name[1] = k}

Fresh(d) ==
  /\ \A r \in DOMAIN d.rows : d.rows[r] = d.frame
  /\ d.name[1] = "scanline" => DOMAIN d.rows = 0..d.name[3]
  /\ d.name[1] = "frame" => DOMAIN d.rows = Rows

Sound(L, C) ==
  /\ \A i \in DOMAIN L : Fresh(L[i])
  /\ \A k \in Kinds : C[k] = Cardinality(OfKind(L, k))

\* Every dump listed has a name of its own.
Distinct(L) == \A i, j \in DOMAIN L : L[i].name = L[j].name => i = j

ListedPast == \A name \in NamesIn(listing) : Past(name)

\* No instruction number has come a second time.
Early == insnTotal <= 2 * IntMax + 1

\* The books: what is listed and counted.
Books == Sound(listing, counts) /\ ListedPast /\ (Early => Distinct(listing))

ManifestFinal == manifest # <<>> => manifest = <<counts, insnTotal>>

Ledger == Types /\ RowsDrawn /\ Books /\ ManifestFinal

-----------------------------------------------------------------------------
(* What a moment writes: each of its events in turn is listed and counted, *)
(* or it is lost.                                                          *)

\* What is lost of an event of this moment.
Key(e) == <<Now, e.name>>

Listing(e, n, L, C, X, L2, C2, X2) ==
  \/ L2 = Append(L, Dump(e, n)) /\ C2 = [C EXCEPT ![e.kind] = @ + 1] /\ X2 = X
  \/ L2 = L /\ C2 = C /\ X2 = X \cup {Key(e)}

\* How many of some events are of kind k.
Tally(w, k) == Cardinality({i \in DOMAIN w : w[i].kind = k})

Writes(events, failed, w, n) ==
  /\ listing' = listing \o [i \in DOMAIN w |-> Dump(w[i], n)]
  /\ counts' = [k \in Kinds |-> counts[k] + Tally(w, k)]
  /\ lost' = lost \cup {Key(events[i]) : i \in failed}

LEMMA WriteIs ==
  ASSUME NEW events, NEW n, Write(events, n)
  PROVE  \E failed \in SUBSET DOMAIN events : Writes(events, failed, Kept(events, failed), n)
BY DEF Write, Counted, Tally, Writes, Key, Now

LEMMA TallyNone == \A k : Tally(<<>>, k) = 0
<1> SUFFICES ASSUME NEW k PROVE Tally(<<>>, k) = 0
  OBVIOUS
<1>1. {i \in DOMAIN <<>> : <<>>[i].kind = k} = {}
  OBVIOUS
<1> QED  BY <1>1, FS_EmptySet DEF Tally

LEMMA TallyOne ==
  ASSUME NEW e, NEW k
  PROVE  Tally(<<e>>, k) = IF e.kind = k THEN 1 ELSE 0
<1>1. {i \in DOMAIN <<e>> : <<e>>[i].kind = k} = IF e.kind = k THEN {1} ELSE {}
  OBVIOUS
<1>2. Cardinality({1}) = 1 /\ Cardinality({}) = 0
  BY FS_EmptySet, FS_Singleton
<1> QED  BY <1>1, <1>2 DEF Tally

LEMMA TallyTwo ==
  ASSUME NEW e, NEW g, NEW k
  PROVE  Tally(<<e, g>>, k) = IF e.kind = k THEN (IF g.kind = k THEN 2 ELSE 1)
                              ELSE (IF g.kind = k THEN 1 ELSE 0)
<1> DEFINE S == {i \in DOMAIN <<e, g>> : <<e, g>>[i].kind = k}
<1>1. S = (IF e.kind = k THEN {1} ELSE {}) \cup (IF g.kind = k THEN {2} ELSE {})
  OBVIOUS
<1>2. Cardinality({1}) = 1 /\ Cardinality({}) = 0 /\ Cardinality({2}) = 1 /\ IsFiniteSet({1})
  BY FS_EmptySet, FS_Singleton
<1>3. Cardinality({1} \cup {2}) = 2
  BY <1>2, FS_AddElement
<1> HIDE DEF S
<1>4. CASE e.kind = k /\ g.kind = k
  <2>1. S = {1} \cup {2}
    BY <1>1, <1>4
  <2> QED  BY <1>3, <1>4, <2>1 DEF S, Tally
<1>5. CASE e.kind = k /\ g.kind # k
  <2>1. S = {1}
    BY <1>1, <1>5
  <2> QED  BY <1>2, <1>5, <2>1 DEF S, Tally
<1>6. CASE e.kind # k /\ g.kind = k
  <2>1. S = {2}
    BY <1>1, <1>6
  <2> QED  BY <1>2, <1>6, <2>1 DEF S, Tally
<1>7. CASE e.kind # k /\ g.kind # k
  <2>1. S = {}
    BY <1>1, <1>7
  <2> QED  BY <1>2, <1>7, <2>1 DEF S, Tally
<1> QED  BY <1>4, <1>5, <1>6, <1>7

LEMMA WriteNone ==
  ASSUME NEW n, NEW S, listing \in Seq(S), counts \in [Kinds -> Nat], Write(<<>>, n)
  PROVE  listing' = listing /\ counts' = counts /\ lost' = lost
<1>0. PICK failed \in SUBSET DOMAIN <<>> : Writes(<<>>, failed, Kept(<<>>, failed), n)
  BY WriteIs
<1> DEFINE w == Kept(<<>>, failed)
<1>1. /\ listing' = listing \o [i \in DOMAIN w |-> Dump(w[i], n)]
      /\ counts' = [k \in Kinds |-> counts[k] + Tally(w, k)]
      /\ lost' = lost \cup {Key(<<>>[i]) : i \in failed}
  BY <1>0 DEF Writes
<1>2. failed = {} /\ w = <<>>
  BY DEF Kept
<1>3. listing' = listing
  BY <1>1, <1>2
<1>4. counts' = counts
  BY <1>1, <1>2, TallyNone
<1>5. lost' = lost
  BY <1>1, <1>2
<1> QED  BY <1>3, <1>4, <1>5

LEMMA WriteOne ==
  ASSUME NEW e, NEW n, e.kind \in Kinds, NEW S, listing \in Seq(S), Dump(e, n) \in S,
         counts \in [Kinds -> Nat], Write(<<e>>, n)
  PROVE  Listing(e, n, listing, counts, lost, listing', counts', lost')
<1>0. PICK failed \in SUBSET DOMAIN <<e>> : Writes(<<e>>, failed, Kept(<<e>>, failed), n)
  BY WriteIs
<1> DEFINE w == Kept(<<e>>, failed)
<1>1. /\ listing' = listing \o [i \in DOMAIN w |-> Dump(w[i], n)]
      /\ counts' = [k \in Kinds |-> counts[k] + Tally(w, k)]
      /\ lost' = lost \cup {Key(<<e>>[i]) : i \in failed}
  BY <1>0 DEF Writes
<1>2. failed \in {{}, {1}}
  <2>1. DOMAIN <<e>> = {1}
    OBVIOUS
  <2> QED  BY <2>1
<1>3. CASE failed = {}
  <2>1. w = <<e>>
    BY <1>3 DEF Kept
  <2>2. [i \in DOMAIN w |-> Dump(w[i], n)] = <<Dump(e, n)>>
    <3>1. [i \in DOMAIN <<e>> |-> Dump(<<e>>[i], n)] = <<Dump(e, n)>>
      OBVIOUS
    <3> HIDE DEF w
    <3> QED  BY <2>1, <3>1
  <2>3. counts' = [counts EXCEPT ![e.kind] = @ + 1]
    <3>1. \A k \in Kinds : Tally(w, k) = IF e.kind = k THEN 1 ELSE 0
      BY <2>1, TallyOne
    <3>2. \A k \in Kinds : counts[k] + Tally(w, k) = IF e.kind = k THEN counts[k] + 1 ELSE counts[k]
      BY <3>1
    <3> QED  BY <1>1, <3>2
  <2>4. listing \o <<Dump(e, n)>> = Append(listing, Dump(e, n))
    OBVIOUS
  <2>5. lost' = lost
    BY <1>1, <1>3
  <2> HIDE DEF w
  <2> QED  BY <1>1, <2>2, <2>3, <2>4, <2>5 DEF Listing
<1>4. CASE failed = {1}
  <2>1. w = <<>>
    BY <1>4 DEF Kept
  <2>2. listing' = listing
    <3>1. [i \in DOMAIN <<>> |-> Dump(<<>>[i], n)] = <<>> /\ listing \o <<>> = listing
      OBVIOUS
    <3> HIDE DEF w
    <3> QED  BY <1>1, <2>1, <3>1
  <2>3. counts' = counts
    BY <1>1, <2>1, TallyNone
  <2>4. lost' = lost \cup {Key(e)}
    BY <1>1, <1>4
  <2> QED  BY <2>2, <2>3, <2>4 DEF Listing
<1> QED  BY <1>2, <1>3, <1>4

LEMMA WriteTwo ==
  ASSUME NEW e, NEW g, NEW n, e.kind \in Kinds, g.kind \in Kinds,
         NEW S, listing \in Seq(S), Dump(e, n) \in S, Dump(g, n) \in S,
         counts \in [Kinds -> Nat], Write(<<e, g>>, n)
  PROVE  \E L, C, X : /\ Listing(e, n, listing, counts, lost, L, C, X)
                      /\ Listing(g, n, L, C, X, listing', counts', lost')
<1>0. PICK failed \in SUBSET DOMAIN <<e, g>> :
        Writes(<<e, g>>, failed, Kept(<<e, g>>, failed), n)
  BY WriteIs
<1> DEFINE both == <<e, g>>
           w == Kept(both, failed)
           L1 == Append(listing, Dump(e, n))
           C1 == [counts EXCEPT ![e.kind] = @ + 1]
           X1 == lost \cup {Key(e)}
<1>1. /\ listing' = listing \o [i \in DOMAIN w |-> Dump(w[i], n)]
      /\ counts' = [k \in Kinds |-> counts[k] + Tally(w, k)]
      /\ lost' = lost \cup {Key(both[i]) : i \in failed}
  BY <1>0 DEF Writes
<1>2. failed \in {{}, {1}, {2}, {1, 2}} /\ DOMAIN both = {1, 2} /\ both[1] = e /\ both[2] = g
  <2>1. DOMAIN <<e, g>> = {1, 2}
    OBVIOUS
  <2> QED  BY <2>1
<1>3. CASE failed = {}
  <2>1. w = <<e, g>>
    BY <1>3 DEF Kept
  <2>2. [i \in DOMAIN w |-> Dump(w[i], n)] = <<Dump(e, n), Dump(g, n)>>
    BY <2>1
  <2> HIDE DEF w
  <2>3. listing' = Append(L1, Dump(g, n))
    <3>1. listing \o <<Dump(e, n), Dump(g, n)>> = Append(Append(listing, Dump(e, n)), Dump(g, n))
      OBVIOUS
    <3> QED  BY <1>1, <2>2, <3>1
  <2>4. counts' = [C1 EXCEPT ![g.kind] = @ + 1]
    <3>1. \A k \in Kinds : Tally(w, k) = IF e.kind = k THEN (IF g.kind = k THEN 2 ELSE 1)
                                         ELSE (IF g.kind = k THEN 1 ELSE 0)
      BY <2>1, TallyTwo
    <3>2. ASSUME NEW k \in Kinds
          PROVE  counts[k] + Tally(w, k) = [C1 EXCEPT ![g.kind] = @ + 1][k]
      <4>1. counts[k] \in Nat /\ C1[k] = IF e.kind = k THEN counts[k] + 1 ELSE counts[k]
        OBVIOUS
      <4>2. [C1 EXCEPT ![g.kind] = @ + 1][k] = IF g.kind = k THEN C1[k] + 1 ELSE C1[k]
        OBVIOUS
      <4> QED  BY <3>1, <4>1, <4>2
    <3> QED  BY <1>1, <3>2
  <2>5. lost' = lost
    BY <1>1, <1>3
  <2>6. /\ Listing(e, n, listing, counts, lost, L1, C1, lost)
        /\ Listing(g, n, L1, C1, lost, listing', counts', lost')
    BY <2>3, <2>4, <2>5 DEF Listing
  <2> QED  BY <2>6
<1>4. CASE failed = {1}
  <2>1. w = <<g>>
    <3>1. (CHOOSE i \in DOMAIN both : i \notin failed) = 2
      BY <1>2, <1>4
    <3>2. failed # {} /\ failed # DOMAIN both
      BY <1>2, <1>4
    <3> QED  BY <1>2, <3>1, <3>2 DEF Kept
  <2>2. [i \in DOMAIN w |-> Dump(w[i], n)] = <<Dump(g, n)>>
    <3>1. [i \in DOMAIN <<g>> |-> Dump(<<g>>[i], n)] = <<Dump(g, n)>>
      OBVIOUS
    <3> HIDE DEF w, both
    <3> QED  BY <2>1, <3>1
  <2> HIDE DEF w, both
  <2>3. listing' = Append(listing, Dump(g, n))
    <3>1. listing \o <<Dump(g, n)>> = Append(listing, Dump(g, n))
      OBVIOUS
    <3> QED  BY <1>1, <2>2, <3>1
  <2>4. counts' = [counts EXCEPT ![g.kind] = @ + 1]
    <3>1. \A k \in Kinds : Tally(w, k) = IF g.kind = k THEN 1 ELSE 0
      BY <2>1, TallyOne
    <3>2. \A k \in Kinds : counts[k] + Tally(w, k) = IF g.kind = k THEN counts[k] + 1 ELSE counts[k]
      BY <3>1
    <3> QED  BY <1>1, <3>2
  <2>5. lost' = X1
    BY <1>1, <1>2, <1>4
  <2>6. /\ Listing(e, n, listing, counts, lost, listing, counts, X1)
        /\ Listing(g, n, listing, counts, X1, listing', counts', lost')
    BY <2>3, <2>4, <2>5 DEF Listing
  <2> QED  BY <2>6
<1>5. CASE failed = {2}
  <2>1. w = <<e>>
    <3>1. (CHOOSE i \in DOMAIN both : i \notin failed) = 1
      BY <1>2, <1>5
    <3>2. failed # {} /\ failed # DOMAIN both
      BY <1>2, <1>5
    <3> QED  BY <1>2, <3>1, <3>2 DEF Kept
  <2>2. [i \in DOMAIN w |-> Dump(w[i], n)] = <<Dump(e, n)>>
    <3>1. [i \in DOMAIN <<e>> |-> Dump(<<e>>[i], n)] = <<Dump(e, n)>>
      OBVIOUS
    <3> HIDE DEF w, both
    <3> QED  BY <2>1, <3>1
  <2> HIDE DEF w, both
  <2>3. listing' = L1
    <3>1. listing \o <<Dump(e, n)>> = Append(listing, Dump(e, n))
      OBVIOUS
    <3> QED  BY <1>1, <2>2, <3>1
  <2>4. counts' = C1
    <3>1. \A k \in Kinds : Tally(w, k) = IF e.kind = k THEN 1 ELSE 0
      BY <2>1, TallyOne
    <3>2. \A k \in Kinds : counts[k] + Tally(w, k) = IF e.kind = k THEN counts[k] + 1 ELSE counts[k]
      BY <3>1
    <3> QED  BY <1>1, <3>2
  <2>5. lost' = lost \cup {Key(g)}
    BY <1>1, <1>2, <1>5
  <2>6. /\ Listing(e, n, listing, counts, lost, L1, C1, lost)
        /\ Listing(g, n, L1, C1, lost, listing', counts', lost')
    BY <2>3, <2>4, <2>5 DEF Listing
  <2> QED  BY <2>6
<1>6. CASE failed = {1, 2}
  <2>1. w = <<>>
    BY <1>2, <1>6 DEF Kept
  <2>2. [i \in DOMAIN w |-> Dump(w[i], n)] = <<>>
    <3>1. [i \in DOMAIN <<>> |-> Dump(<<>>[i], n)] = <<>>
      OBVIOUS
    <3> HIDE DEF w
    <3> QED  BY <2>1, <3>1
  <2> HIDE DEF w, both
  <2>3. listing' = listing
    <3>1. listing \o <<>> = listing
      OBVIOUS
    <3> QED  BY <1>1, <2>2, <3>1
  <2>4. counts' = counts
    <3>1. \A k \in Kinds : Tally(w, k) = 0
      BY <2>1, TallyNone
    <3> QED  BY <1>1, <3>1
  <2>5. lost' = X1 \cup {Key(g)}
    BY <1>1, <1>2, <1>6
  <2>6. /\ Listing(e, n, listing, counts, lost, listing, counts, X1)
        /\ Listing(g, n, listing, counts, X1, listing', counts', lost')
    BY <2>3, <2>4, <2>5 DEF Listing
  <2> QED  BY <2>6
<1> QED  BY <1>2, <1>3, <1>4, <1>5, <1>6

-----------------------------------------------------------------------------
(* One more dump in the list.                                              *)

LEMMA AppendIs ==
  ASSUME NEW S, NEW L \in Seq(S), NEW d \in S
  PROVE  /\ Append(L, d) \in Seq(S)
         /\ DOMAIN Append(L, d) = DOMAIN L \cup {Len(L) + 1} /\ Len(L) + 1 \notin DOMAIN L
         /\ \A i \in DOMAIN L : Append(L, d)[i] = L[i]
         /\ Append(L, d)[Len(L) + 1] = d
<1>1. Len(L) \in Nat /\ DOMAIN L = 1..Len(L) /\ Len(Append(L, d)) = Len(L) + 1
      /\ DOMAIN Append(L, d) = 1..(Len(L) + 1)
  OBVIOUS
<1>2. DOMAIN Append(L, d) = DOMAIN L \cup {Len(L) + 1} /\ Len(L) + 1 \notin DOMAIN L
  BY <1>1
<1>3. \A i \in DOMAIN L : Append(L, d)[i] = L[i]
  BY <1>1
<1>4. Append(L, d)[Len(L) + 1] = d
  OBVIOUS
<1> QED  BY <1>2, <1>3, <1>4

LEMMA OneMoreSound ==
  ASSUME NEW L \in Seq(Listed), NEW C \in [Kinds -> Nat], Sound(L, C), NEW d \in Listed,
         NEW k \in Kinds, d.name[1] = k, Fresh(d)
  PROVE  Sound(Append(L, d), [C EXCEPT ![k] = @ + 1])
<1> DEFINE M == Append(L, d)
           n == Len(L) + 1
           D == [C EXCEPT ![k] = @ + 1]
<1>1. /\ M \in Seq(Listed) /\ DOMAIN M = DOMAIN L \cup {n} /\ n \notin DOMAIN L
      /\ \A i \in DOMAIN L : M[i] = L[i]
      /\ M[n] = d
  BY AppendIs
<1> HIDE DEF M, n
<1>2. \A i \in DOMAIN M : Fresh(M[i])
  BY <1>1 DEF Sound
<1>3. ASSUME NEW h \in Kinds
      PROVE  D[h] = Cardinality(OfKind(M, h))
  <2>1. IsFiniteSet(OfKind(L, h)) /\ n \notin OfKind(L, h)
    <3>1. DOMAIN L = 1..Len(L) /\ Len(L) \in Nat
      OBVIOUS
    <3>2. OfKind(L, h) \subseteq 1..Len(L)
      BY <3>1 DEF OfKind
    <3>3. n \notin OfKind(L, h)
      BY <1>1 DEF OfKind
    <3>4. IsFiniteSet(1..Len(L))
      BY <3>1, FS_Interval
    <3> HIDE DEF OfKind
    <3>5. IsFiniteSet(OfKind(L, h))
      BY <3>2, <3>4, FS_Subset
    <3> QED  BY <3>3, <3>5
  <2>2. OfKind(M, h) = IF h = k THEN OfKind(L, h) \cup {n} ELSE OfKind(L, h)
    BY <1>1 DEF OfKind
  <2>3. Cardinality(OfKind(L, h) \cup {n}) = Cardinality(OfKind(L, h)) + 1
    BY <2>1, FS_AddElement
  <2>4. C[h] = Cardinality(OfKind(L, h))
    BY DEF Sound
  <2>5. D[h] = IF h = k THEN C[h] + 1 ELSE C[h]
    OBVIOUS
  <2> QED  BY <2>2, <2>3, <2>4, <2>5
<1> QED  BY <1>2, <1>3 DEF Sound, M

LEMMA OneMoreDistinct ==
  ASSUME NEW L \in Seq(Listed), Distinct(L), NEW d \in Listed, d.name \notin NamesIn(L)
  PROVE  Distinct(Append(L, d))
<1> DEFINE M == Append(L, d)
           n == Len(L) + 1
<1>1. /\ DOMAIN M = DOMAIN L \cup {n} /\ n \notin DOMAIN L
      /\ \A i \in DOMAIN L : M[i] = L[i]
      /\ M[n] = d
  BY AppendIs
<1> HIDE DEF M, n
<1>2. ASSUME NEW i \in DOMAIN M, NEW j \in DOMAIN M, M[i].name = M[j].name
      PROVE  i = j
  <2>1. \A h \in DOMAIN L : L[h].name # d.name
    BY DEF NamesIn
  <2>2. CASE i \in DOMAIN L /\ j \in DOMAIN L
    BY <1>1, <1>2, <2>2 DEF Distinct
  <2>3. CASE i = n \/ j = n
    BY <1>1, <1>2, <2>1, <2>3
  <2> QED  BY <1>1, <2>2, <2>3
<1> QED  BY <1>2 DEF Distinct, M

Entries(L) == [i \in DOMAIN L |-> Entry(L[i])]
EntrySet == [name : Names, frame : Nat, scanline : Screen, insns : Nat]

LEMMA EntriesTyped ==
  ASSUME NEW L \in Seq(Listed)
  PROVE  Entries(L) \in Seq(EntrySet) /\ Len(Entries(L)) = Len(L)
<1>1. \A x \in Listed : Entry(x) \in EntrySet
  BY DEF Listed, Entry, EntrySet
<1>2. /\ Len(L) \in Nat /\ DOMAIN L = 1..Len(L)
      /\ \A i \in DOMAIN L : L[i] \in Listed
  OBVIOUS
<1>3. Entries(L) = [i \in 1..Len(L) |-> Entry(L[i])]
  BY <1>2 DEF Entries
<1>4. \A i \in 1..Len(L) : Entry(L[i]) \in EntrySet
  BY <1>1, <1>2
<1> HIDE DEF Entries
<1> QED  BY <1>2, <1>3, <1>4

LEMMA EntriesAppend ==
  ASSUME NEW L \in Seq(Listed), NEW d \in Listed
  PROVE  /\ Entries(L) \in Seq(EntrySet) /\ Entry(d) \in EntrySet
         /\ Entries(Append(L, d)) = Append(Entries(L), Entry(d))
<1>1. \A x \in Listed : Entry(x) \in EntrySet
  BY DEF Listed, Entry, EntrySet
<1>3. Entries(L) \in Seq(EntrySet) /\ Len(Entries(L)) = Len(L)
  BY EntriesTyped
<1>2. Entries(Append(L, d)) = Append(Entries(L), Entry(d))
  <2> DEFINE M == Append(L, d)
             n == Len(L) + 1
             E == Entries(L)
             F == Append(E, Entry(d))
  <2>1. /\ M \in Seq(Listed) /\ DOMAIN M = DOMAIN L \cup {n} /\ n \notin DOMAIN L
        /\ \A i \in DOMAIN L : M[i] = L[i]
        /\ M[n] = d
    BY AppendIs
  <2>2. /\ F \in Seq(EntrySet) /\ DOMAIN F = DOMAIN E \cup {n} /\ \A i \in DOMAIN E : F[i] = E[i]
        /\ F[n] = Entry(d)
    BY <1>1, <1>3, AppendIs
  <2>3. DOMAIN E = DOMAIN L /\ \A i \in DOMAIN L : E[i] = Entry(L[i])
    BY DEF Entries
  <2> HIDE DEF M, n, E, F
  <2>4. [i \in DOMAIN M |-> Entry(M[i])] = F
    <3>1. DOMAIN F = DOMAIN M
      BY <2>1, <2>2, <2>3
    <3>2. \A i \in DOMAIN M : Entry(M[i]) = F[i]
      BY <2>1, <2>2, <2>3
    <3>3. F = [i \in DOMAIN F |-> F[i]]
      BY <2>2
    <3> QED  BY <3>1, <3>2, <3>3
  <2> QED  BY <2>4 DEF Entries, M, F, E
<1> QED  BY <1>1, <1>2, <1>3

\* What one event does to the list and the counts.
LEMMA ListingKeeps ==
  ASSUME NEW e, NEW n, NEW L \in Seq(Listed), NEW C \in [Kinds -> Nat], NEW X, NEW L2, NEW C2,
         NEW X2, Sound(L, C), Dump(e, n) \in Listed, e.kind \in Kinds, e.name[1] = e.kind,
         Fresh(Dump(e, n)), Listing(e, n, L, C, X, L2, C2, X2)
  PROVE  /\ L2 \in Seq(Listed) /\ C2 \in [Kinds -> Nat] /\ Sound(L2, C2)
         /\ NamesIn(L2) \subseteq NamesIn(L) \cup {e.name}
         /\ Distinct(L) /\ e.name \notin NamesIn(L) => Distinct(L2)
<1> DEFINE d == Dump(e, n)
<1>1. d.name = e.name
  BY DEF Dump
<1>2. d \in Listed /\ Fresh(d)
  OBVIOUS
<1> HIDE DEF d
<1>3. CASE L2 = Append(L, d) /\ C2 = [C EXCEPT ![e.kind] = @ + 1] /\ X2 = X
  <2>1. L2 \in Seq(Listed) /\ C2 \in [Kinds -> Nat]
    BY <1>2, <1>3
  <2>2. Sound(L2, C2)
    BY <1>1, <1>2, <1>3, OneMoreSound
  <2>3. NamesIn(L2) \subseteq NamesIn(L) \cup {e.name}
    BY <1>1, <1>2, <1>3, AppendIs DEF NamesIn
  <2>4. Distinct(L) /\ e.name \notin NamesIn(L) => Distinct(L2)
    BY <1>1, <1>2, <1>3, OneMoreDistinct
  <2> QED  BY <1>3, <2>1, <2>2, <2>3, <2>4
<1>4. CASE L2 = L /\ C2 = C /\ X2 = X \cup {Key(e)}
  BY <1>4
<1> QED  BY <1>3, <1>4 DEF Listing, d

\* What one event adds to the list.
LEMMA ListingAdds ==
  ASSUME NEW e, NEW n, NEW L \in Seq(Listed), NEW C, NEW X, NEW L2, NEW C2, NEW X2,
         Dump(e, n) \in Listed, Key(e) \notin X, Listing(e, n, L, C, X, L2, C2, X2)
  PROVE  /\ Key(e) \in X2 => Entries(L2) = Entries(L)
         /\ Key(e) \notin X2 => Entries(L2) = Append(Entries(L), Entry(Dump(e, n)))
<1> DEFINE d == Dump(e, n)
<1>1. CASE L2 = Append(L, d) /\ X2 = X
  BY <1>1, EntriesAppend
<1>2. CASE L2 = L /\ X2 = X \cup {Key(e)}
  BY <1>2
<1> QED  BY <1>1, <1>2 DEF Listing

-----------------------------------------------------------------------------
(* The types.                                                              *)

LEMMA Sizes ==
  ASSUME Types
  PROVE  /\ Lines \in Nat \ {0} /\ IntMax \in Nat
         /\ config.frames \in Nat \ {0} /\ config.pcMax \in Nat
         /\ config.room \in Nat
         /\ config.dumpInsns \in RangeLists
         /\ frame \in Nat /\ insnTotal \in Nat /\ frameInsn \in Nat /\ scanline = line
         /\ line \in Screen
<1>1. config \in Configs /\ frame \in 0..config.frames /\ line \in Screen /\ scanline = line
      /\ insnTotal \in 0..config.room /\ frameInsn \in 0..insnTotal
  BY DEF Types, TypeOK, Screen
<1>2. /\ config.frames \in Nat \ {0} /\ config.pcMax \in Nat
      /\ config.room \in Nat /\ config.dumpInsns \in RangeLists
  BY <1>1, ConfigsAssumption
<1>3. frame \in Nat /\ insnTotal \in Nat
  BY <1>1, <1>2
<1>4. frameInsn \in Nat
  BY <1>1, <1>3
<1> QED  BY <1>1, <1>2, <1>3, <1>4, LinesAssumption, IntMaxAssumption

LEMMA ConfigStays ==
  ASSUME config' = config
  PROVE  Names' = Names /\ Listed' = Listed /\ Moment' = Moment
<1>1. Names' = Names
  BY DEF Names
<1>2. Listed' = Listed
  BY <1>1 DEF Listed
<1>3. Moment' = Moment
  BY DEF Moment
<1> QED  BY <1>1, <1>2, <1>3

\* What can be lost at this moment; a trace is lost before a frame's first moment.
LostNow == {Now} \X Names

LEMMA NowIs ==
  ASSUME Types
  PROVE  /\ Len(moments) \in Nat /\ Now \in Nat /\ Now # 0 /\ Now \notin 1..Len(moments)
         /\ 1..Len(moments) \subseteq 1..Now /\ Now \in 1..Now
<1>1. Len(moments) \in Nat
  BY DEF Types
<1> QED  BY <1>1 DEF Now

LEMMA LostStays ==
  ASSUME Types, UNCHANGED <<config, frame, moments, lost>>
  PROVE  LostKnown'
<1>1. Names' = Names
  BY ConfigStays
<1> QED  BY <1>1 DEF Types, LostKnown

LEMMA LostMore ==
  ASSUME Types, UNCHANGED <<config, frame>>, NEW m \in Moment, moments' = Append(moments, m),
         lost' \subseteq lost \cup LostNow
  PROVE  LostKnown'
<1>1. Names' = Names
  BY ConfigStays
<1>2. Len(moments') = Now
  BY DEF Types, Now
<1>3. LostNow \subseteq (1..Now) \X Names /\ (1..Len(moments)) \X Names \subseteq (1..Now) \X Names
  BY NowIs DEF LostNow
<1>4. lost \subseteq ((1..Now) \X Names) \cup ({0} \X {<<"trace", f>> : f \in 1..frame})
  BY <1>3 DEF Types, LostKnown
<1>5. lost' \subseteq ((1..Now) \X Names) \cup ({0} \X {<<"trace", f>> : f \in 1..frame})
  BY <1>3, <1>4
<1> QED  BY <1>1, <1>2, <1>5 DEF LostKnown

\* What is lost at this moment was not lost before.
LEMMA NotLost ==
  ASSUME Types, NEW e
  PROVE  Key(e) \notin lost
<1>1. Now \notin 1..Len(moments) /\ Now # 0
  BY NowIs
<1>2. Key(e)[1] = Now
  BY DEF Key
<1>3. \A x \in lost : x[1] \in 1..Len(moments) \/ x[1] = 0
  BY DEF Types, LostKnown
<1> QED  BY <1>1, <1>2, <1>3

LEMMA InitTypes == Init => Types
<1> SUFFICES ASSUME Init PROVE Types
  OBVIOUS
<1>1. config \in Configs /\ Lines \in Nat \ {0}
  BY LinesAssumption DEF Init
<1>2. config.frames \in Nat \ {0} /\ config.pcMax \in Nat /\ config.room \in Nat
  BY <1>1, ConfigsAssumption, IntMaxAssumption
<1>3. /\ phase = "start" /\ ppudead = 2 /\ frame = 0 /\ line = -1 /\ scanline = line
      /\ insnTotal = 0 /\ frameInsn = 0 /\ trace = 0 /\ traces = <<>>
      /\ manifest = <<>> /\ moments = <<>> /\ listing = <<>> /\ lost = {}
  BY DEF Init
<1>4. drawn \in [Rows -> 0..frame] /\ counts \in [Kinds -> Nat]
      /\ hits \in [config.targets -> 0..config.pcMax]
  BY <1>2, <1>3 DEF Init
<1>5. DOMAIN traces \subseteq 1..frame
  BY <1>3
<1>6. TypeOK
  BY <1>1, <1>2, <1>3, <1>4, <1>5 DEF TypeOK
<1>7. LostKnown
  BY <1>3 DEF LostKnown
<1> QED  BY <1>3, <1>6, <1>7 DEF Types, InFrame

LEMMA OpenTypes == Types /\ Open => Types'
<1> SUFFICES ASSUME Types, Open PROVE Types'
  OBVIOUS
<1>1. LostKnown'
  BY LostStays DEF Open, recorder, history
<1> QED  BY <1>1, ConfigStays DEF Types, TypeOK, InFrame, Open, recorder, history

LEMMA BeginFrameTypes == Types /\ BeginFrame => Types'
<1> SUFFICES ASSUME Types, BeginFrame PROVE Types'
  OBVIOUS
<1>1. /\ phase = "idle" /\ frame < config.frames /\ RecordFrame
      /\ UNCHANGED <<config, line, drawn, insnTotal, hits, counts, listing, manifest, moments>>
  BY DEF BeginFrame
<1>2. phase' \in {"dead", "blank"} /\ ppudead' \in 0..2
  BY DEF BeginFrame, Types, TypeOK
<1>3. frame' = frame + 1 /\ scanline' = -1 /\ frameInsn' = 0
  BY <1>1 DEF RecordFrame
<1>4. frame \in 0..config.frames /\ frame \in Nat /\ config.frames \in Nat /\ insnTotal \in Nat
  BY Sizes DEF Types, TypeOK
<1>5. frame' \in 0..config.frames /\ frame' \in Nat \ {0}
  BY <1>1, <1>3, <1>4
<1>6. line = -1
  BY <1>1 DEF Types, TypeOK
<1>7. trace = 0
  BY <1>1 DEF Types, InFrame
<1>8. trace' \in {0, frame'}
  BY <1>1, <1>3, <1>7 DEF RecordFrame
<1>9. DOMAIN traces' \subseteq 1..frame'
  <2>1. DOMAIN traces \subseteq 1..frame
    BY DEF Types, TypeOK
  <2>2. traces' = traces \/ DOMAIN traces' = DOMAIN traces \cup {frame + 1}
    BY <1>1 DEF RecordFrame
  <2> QED  BY <1>3, <1>4, <2>1, <2>2
<1>10. drawn' \in [Rows -> 0..frame']
  <2>1. drawn \in [Rows -> 0..frame] /\ 0..frame \subseteq 0..frame'
    BY <1>3, <1>4 DEF Types, TypeOK
  <2> QED  BY <1>1, <2>1
<1>11. TypeOK'
  BY <1>1, <1>2, <1>3, <1>4, <1>5, <1>6, <1>8, <1>9, <1>10 DEF Types, TypeOK
<1>12. InFrame' /\ phase' # "closed"
  BY <1>2 DEF InFrame
<1>13. moments' \in Seq(Moment') /\ listing' \in Seq(Listed') /\ manifest' = <<>>
  BY <1>1, ConfigStays DEF Types
<1>14. LostKnown'
  <2> DEFINE T(n) == {0} \X {<<"trace", f>> : f \in 1..n}
  <2>1. lost' = lost \/ lost' = {<<0, <<"trace", frame + 1>>>>}
    BY <1>1 DEF RecordFrame
  <2>2. 1..frame \subseteq 1..frame' /\ frame + 1 \in 1..frame'
    BY <1>3, <1>4
  <2>3. T(frame) \subseteq T(frame') /\ <<0, <<"trace", frame + 1>>>> \in T(frame')
    BY <2>2
  <2>4. lost \subseteq ((1..Len(moments)) \X Names) \cup T(frame)
    BY DEF Types, LostKnown
  <2> HIDE DEF T
  <2>5. lost' \subseteq ((1..Len(moments)) \X Names) \cup T(frame')
    BY <2>1, <2>3, <2>4
  <2>6. Names' = Names /\ moments' = moments
    BY <1>1, ConfigStays
  <2> QED  BY <2>5, <2>6 DEF LostKnown, T
<1> QED  BY <1>5, <1>11, <1>12, <1>13, <1>14 DEF Types

LEMMA EndDeadTypes == Types /\ EndDead => Types'
<1> SUFFICES ASSUME Types, EndDead PROVE Types'
  OBVIOUS
<1>1. /\ phase = "dead" /\ phase' = "end" /\ drawn' = [r \in Rows |-> frame]
      /\ UNCHANGED <<config, ppudead, line>> /\ UNCHANGED recorder /\ UNCHANGED history
  BY DEF EndDead
<1>2. drawn' \in [Rows -> 0..frame]
  <2>1. frame \in 0..frame
    BY Sizes
  <2> QED  BY <1>1, <2>1
<1>3. TypeOK'
  BY <1>1, <1>2 DEF Types, TypeOK, recorder
<1>4. LostKnown'
  BY <1>1, LostStays DEF recorder, history
<1> QED  BY <1>1, <1>3, <1>4, ConfigStays DEF Types, InFrame, recorder, history

LEMMA BeginLineTypes == Types /\ BeginLine => Types'
<1> SUFFICES ASSUME Types, BeginLine PROVE Types'
  OBVIOUS
<1>1. /\ phase = "blank" /\ phase' = "before" /\ line' = 0 /\ scanline' = 0
      /\ UNCHANGED <<config, ppudead, drawn, frame, insnTotal, frameInsn, hits, counts, listing,
                     trace, traces, manifest, moments, lost>>
  BY DEF BeginLine, history
<1>2. 0 \in Rows /\ 0 # -1
  BY LinesAssumption DEF Rows
<1>3. TypeOK'
  BY <1>1, <1>2 DEF Types, TypeOK
<1>4. LostKnown'
  BY <1>1, LostStays
<1> QED  BY <1>1, <1>3, <1>4, ConfigStays DEF Types, InFrame

LEMMA FinishRowTypes == Types /\ FinishRow => Types'
<1> SUFFICES ASSUME Types, FinishRow PROVE Types'
  OBVIOUS
<1>1. /\ phase = "before" /\ phase' = "after" /\ drawn' = [drawn EXCEPT ![line] = frame]
      /\ UNCHANGED <<config, ppudead, line>> /\ UNCHANGED recorder /\ UNCHANGED history
  BY DEF FinishRow
<1>2. drawn' \in [Rows -> 0..frame]
  <2>1. frame \in 0..frame
    BY Sizes
  <2> QED  BY <1>1, <2>1 DEF Types, TypeOK
<1>3. TypeOK'
  BY <1>1, <1>2 DEF Types, TypeOK, recorder
<1>4. LostKnown'
  BY <1>1, LostStays DEF recorder, history
<1> QED  BY <1>1, <1>3, <1>4, ConfigStays DEF Types, InFrame, recorder, history

LEMMA CloseTypes == Types /\ Close => Types'
<1> SUFFICES ASSUME Types, Close PROVE Types'
  OBVIOUS
<1>1. /\ phase = "idle" /\ phase' = "closed" /\ trace' = 0
      /\ UNCHANGED <<config, ppudead, line, drawn, frame, scanline, insnTotal, frameInsn, hits,
                     counts, listing, traces, moments, lost>>
  BY DEF Close, history
<1>2. TypeOK'
  BY <1>1 DEF Types, TypeOK
<1>3. LostKnown'
  BY <1>1, LostStays
<1> QED  BY <1>1, <1>2, <1>3, ConfigStays DEF Types, InFrame

-----------------------------------------------------------------------------
(* The events of a moment.                                                 *)

\* An event of this moment: where it is, and the rows it may show are finished.
Timely(e) ==
  /\ e.kind \in Kinds /\ e.name \in Names /\ e.name[1] = e.kind
  /\ e.frame = frame /\ e.scanline = line
  /\ e.kind = "scanline" => phase = "after" /\ e.name[3] = line
  /\ e.kind = "frame" => phase = "end"

LEMMA RowsShown ==
  ASSUME Types, NEW e, Timely(e)
  PROVE  /\ FbRows(e) \in 0..Lines
         /\ e.kind = "scanline" => FbRows(e) = line + 1
         /\ e.kind = "frame" => FbRows(e) = Lines
         /\ e.kind \in {"pc", "insn"} => FbRows(e) = IF line > 0 THEN line ELSE 0
<1>1. /\ Lines \in Nat \ {0} /\ line \in (0..(Lines - 1)) \cup {-1}
      /\ e.kind = "scanline" => line \in 0..(Lines - 1)
  <2>1. Lines \in Nat \ {0} /\ line \in Screen
    BY Sizes
  <2>2. e.kind = "scanline" => line # -1
    BY DEF Timely, Types, TypeOK
  <2> QED  BY <2>1, <2>2 DEF Screen, Rows
<1>2. e.scanline = line /\ e.kind \in {"frame", "scanline", "pc", "insn"}
  BY DEF Timely, Kinds
<1>3. FbRows(e) = IF e.kind = "frame" THEN Lines
                  ELSE IF e.kind = "scanline" THEN line + 1
                  ELSE IF line > 0 THEN line ELSE 0
  BY <1>2 DEF FbRows
<1> QED  BY <1>1, <1>2, <1>3

LEMMA DumpTyped ==
  ASSUME Types, NEW e, Timely(e), NEW n \in Nat
  PROVE  Dump(e, n) \in Listed
<1> DEFINE R == [r \in 0..(FbRows(e) - 1) |-> drawn[r]]
<1>1. PICK m \in 0..Lines : FbRows(e) = m
  BY RowsShown
<1>2. Lines \in Nat \ {0} /\ drawn \in [Rows -> 0..frame] /\ frame \in Nat
  BY Sizes DEF Types, TypeOK
<1>3. R \in [0..(m - 1) -> Nat]
  <2>1. 0..(m - 1) \subseteq Rows
    BY <1>1, <1>2 DEF Rows
  <2>2. \A r \in 0..(m - 1) : drawn[r] \in Nat
    BY <1>2, <2>1
  <2> QED  BY <1>1, <2>2
<1> HIDE DEF R
<1>4. R \in UNION {[0..(k - 1) -> Nat] : k \in 0..Lines}
  BY <1>1, <1>3
<1>5. e.name \in Names /\ e.frame \in Nat /\ e.scanline \in Screen
  BY Sizes DEF Timely
<1>6. Dump(e, n) = [name |-> e.name, frame |-> e.frame, scanline |-> e.scanline, insns |-> n, rows |-> R]
  BY DEF Dump, R
<1> QED  BY <1>4, <1>5, <1>6 DEF Listed

LEMMA DumpFresh ==
  ASSUME Types, RowsDrawn, NEW e, Timely(e), NEW n
  PROVE  Fresh(Dump(e, n))
<1> DEFINE d == Dump(e, n)
<1> SUFFICES Fresh(d)
  OBVIOUS
<1>1. /\ d.name = e.name /\ d.frame = frame
      /\ DOMAIN d.rows = 0..(FbRows(e) - 1)
      /\ \A r \in DOMAIN d.rows : d.rows[r] = drawn[r]
  BY DEF Dump, Timely
<1> HIDE DEF d
<1>2. /\ Lines \in Nat \ {0} /\ line \in (0..(Lines - 1)) \cup {-1}
  BY Sizes DEF Screen, Rows
<1>3. e.kind \in Kinds /\ e.name[1] = e.kind
  BY DEF Timely
<1>4. CASE e.kind = "scanline"
  <2>1. phase = "after" /\ e.name[3] = line /\ FbRows(e) = line + 1
    BY <1>4, RowsShown DEF Timely
  <2>2. line \in 0..(Lines - 1)
    BY <1>2, <2>1 DEF Types, TypeOK
  <2>3. DOMAIN d.rows = 0..line
    BY <1>1, <2>1, <2>2
  <2>4. \A r \in 0..line : drawn[r] = frame
    BY <1>2, <2>1, <2>2 DEF RowsDrawn, Rows
  <2>5. d.name[1] = "scanline" /\ d.name[3] = line
    BY <1>1, <1>3, <1>4, <2>1
  <2> QED  BY <1>1, <2>3, <2>4, <2>5 DEF Fresh
<1>5. CASE e.kind = "frame"
  <2>1. phase = "end" /\ FbRows(e) = Lines
    BY <1>5, RowsShown DEF Timely
  <2>2. DOMAIN d.rows = Rows
    BY <1>1, <2>1 DEF Rows
  <2>3. \A r \in Rows : drawn[r] = frame
    BY <2>1 DEF RowsDrawn
  <2>4. d.name[1] = "frame"
    BY <1>1, <1>3, <1>5
  <2> QED  BY <1>1, <2>2, <2>3, <2>4 DEF Fresh
<1>6. CASE e.kind \in {"pc", "insn"}
  <2>1. FbRows(e) = IF line > 0 THEN line ELSE 0
    BY <1>6, RowsShown
  <2>2. \A r \in 0..(FbRows(e) - 1) : r \in Rows /\ r < line
    BY <1>2, <2>1 DEF Rows
  <2>3. line # -1 => phase \in {"before", "after"}
    BY DEF Types, TypeOK
  <2>4. \A r \in 0..(FbRows(e) - 1) : drawn[r] = frame
    <3> SUFFICES ASSUME NEW r \in 0..(FbRows(e) - 1) PROVE drawn[r] = frame
      OBVIOUS
    <3>1. r \in Rows /\ r < line
      BY <2>2
    <3>2. r \in Int /\ line \in Int /\ line # -1
      BY <1>2, <3>1 DEF Rows
    <3>3. r <= line
      BY <3>1, <3>2
    <3> QED  BY <2>3, <3>1, <3>2, <3>3 DEF RowsDrawn
  <2>5. d.name[1] # "scanline" /\ d.name[1] # "frame"
    BY <1>1, <1>3, <1>6
  <2> QED  BY <1>1, <2>4, <2>5 DEF Fresh
<1> QED  BY <1>3, <1>4, <1>5, <1>6 DEF Kinds

\* A listed instruction number is no larger than the count of instructions, and is the
\* count itself until the numbers come again.
LEMMA NumberListed ==
  ASSUME Types, NEW t \in Nat, InList(config.dumpInsns, AsInt(t))
  PROVE  AsInt(t) \in Nat /\ AsInt(t) <= t /\ (t <= 2 * IntMax + 1 => AsInt(t) = t)
<1> DEFINE M == IntMax + 1
           x == t + M
           p == 2 * M
<1>1. M \in Nat \ {0} /\ x \in Nat /\ p \in Nat \ {0} /\ x = t + M /\ p = M + M
      /\ 2 * IntMax + 1 = p - 1
  BY Sizes
<1>2. AsInt(t) = (x % p) - M
  <2>1. t + IntMax + 1 = t + (IntMax + 1)
    BY Sizes
  <2> QED  BY <2>1 DEF AsInt
<1> HIDE DEF M, x, p
<1>3. /\ x % p \in 0..(p - 1) /\ x = p * (x \div p) + (x % p)
      /\ p * (x \div p) \in Nat
  BY <1>1, DivMod
<1> DEFINE r == x % p
           q == p * (x \div p)
<1>4. r \in Nat /\ q \in Nat /\ x = q + r /\ AsInt(t) = r - M
  BY <1>1, <1>2, <1>3
<1> HIDE DEF r, q
<1>5. AsInt(t) \in Int /\ AsInt(t) <= t
  BY <1>1, <1>4
<1>6. AsInt(t) >= 0
  <2>1. PICK it \in config.dumpInsns : it.lo <= AsInt(t)
    BY DEF InList
  <2>2. it.lo \in Nat
    BY <2>1, Sizes DEF RangeLists
  <2> QED  BY <1>5, <2>1, <2>2
<1>7. ASSUME t <= p - 1
      PROVE  AsInt(t) = t
  <2>1. CASE t < M
    <3>1. x \in 0..(p - 1)
      BY <1>1, <2>1
    <3>2. (p * 0 + x) % p = x
      BY <1>1, <3>1, DivUnique
    <3>3. p * 0 + x = x
      BY <1>1
    <3>4. x % p = x
      BY <3>2, <3>3
    <3> QED  BY <1>1, <1>2, <3>4
  <2>2. CASE ~(t < M)
    <3>1. t - M \in Nat /\ t - M \in 0..(p - 1) /\ t - M < M
      BY <1>1, <1>7, <2>2
    <3>2. (p * 1 + (t - M)) % p = t - M
      BY <1>1, <3>1, DivUnique
    <3>3. p * 1 + (t - M) = x
      BY <1>1
    <3>4. x % p = t - M
      BY <3>2, <3>3
    <3> QED  BY <1>1, <1>2, <1>5, <1>6, <3>1, <3>4
  <2> QED  BY <2>1, <2>2
<1> QED  BY <1>1, <1>5, <1>6, <1>7

-----------------------------------------------------------------------------
(* A moment that is over stays over.                                       *)

Over   == {"end", "idle", "closed"}
Closed == {"idle", "closed"}

Forward ==
  /\ config' = config
  /\ hits' \in [config.targets -> Nat] /\ \A pc \in config.targets : hits[pc] <= hits'[pc]
  /\ insnTotal' \in Nat /\ insnTotal <= insnTotal'
  /\ \/ frame' = frame + 1
     \/ /\ frame' = frame /\ line' \in Int
        /\ phase \in Over => phase' \in Over
        /\ phase \in Closed => phase' \in Closed
        /\ phase' \in Over \/ line <= line'

LEMMA PastStays ==
  ASSUME Types, Forward, NEW name, name \in Names, Past(name)
  PROVE  Past(name)'
<1>1. /\ hits \in [config.targets -> Nat] /\ insnTotal \in Nat /\ frame \in Nat /\ line \in Int
      /\ Rows \subseteq Nat
  <2>1. hits \in [config.targets -> 0..config.pcMax]
    BY DEF Types, TypeOK
  <2>2. 0..config.pcMax \subseteq Nat
    BY Sizes
  <2>3. line \in Int
    BY Sizes DEF Screen, Rows
  <2> QED  BY <2>1, <2>2, <2>3, Sizes DEF Rows
<1>2. CASE name \in {<<"pc", pc, n>> : pc \in config.targets, n \in Nat}
  <2>1. PICK pc \in config.targets, n \in Nat : name = <<"pc", pc, n>>
    BY <1>2
  <2>2. n <= hits[pc]
    BY <2>1 DEF Past
  <2>3. n <= hits'[pc]
    BY <1>1, <2>2 DEF Forward
  <2> QED  BY <2>1, <2>3 DEF Past
<1>3. CASE name \in {<<"insn", n>> : n \in Nat}
  <2>1. PICK n \in Nat : name = <<"insn", n>>
    BY <1>3
  <2>2. n <= insnTotal
    BY <2>1 DEF Past
  <2>3. n <= insnTotal'
    BY <1>1, <2>2 DEF Forward
  <2> QED  BY <2>1, <2>3 DEF Past
<1>4. CASE name \in {<<"scanline", f, l>> : f \in Nat, l \in Rows}
  <2>1. PICK f \in Nat, l \in Rows : name = <<"scanline", f, l>>
    BY <1>4
  <2>2. f < frame \/ (f = frame /\ (phase \in Over \/ l < line))
    BY <2>1 DEF Past, Over
  <2>3. f < frame' \/ (f = frame' /\ (phase' \in Over \/ l < line'))
    <3>1. CASE frame' = frame + 1
      BY <1>1, <2>1, <2>2, <3>1
    <3>2. CASE frame' # frame + 1
      <4>1. /\ frame' = frame /\ line' \in Int
            /\ phase \in Over => phase' \in Over
            /\ phase' \in Over \/ line <= line'
        BY <3>2 DEF Forward
      <4>2. l \in Int
        BY <1>1, <2>1
      <4> QED  BY <1>1, <2>2, <4>1, <4>2
    <3> QED  BY <3>1, <3>2
  <2> QED  BY <2>1, <2>3 DEF Past, Over
<1>5. CASE name \in {<<"frame", f>> : f \in Nat}
  <2>1. PICK f \in Nat : name = <<"frame", f>>
    BY <1>5
  <2>2. f < frame \/ (f = frame /\ phase \in Closed)
    BY <2>1 DEF Past, Closed
  <2>3. f < frame' \/ (f = frame' /\ phase' \in Closed)
    BY <1>1, <2>1, <2>2 DEF Forward
  <2> QED  BY <2>1, <2>3 DEF Past, Closed
<1> QED  BY <1>2, <1>3, <1>4, <1>5 DEF Names

LEMMA ListedNames == ASSUME Types PROVE NamesIn(listing) \subseteq Names
<1> SUFFICES ASSUME NEW i \in DOMAIN listing PROVE listing[i].name \in Names
  BY DEF NamesIn
<1>1. listing[i] \in Listed
  BY DEF Types
<1> QED  BY <1>1 DEF Listed

\* A step keeps the books if the names it adds are past once it is taken.
LEMMA BooksStay ==
  ASSUME Types, Books, Forward, NEW N, \A name \in N : name \in Names /\ Past(name)',
         Sound(listing', counts'), NamesIn(listing') \subseteq NamesIn(listing) \cup N,
         Early' => Distinct(listing')
  PROVE  Books'
<1>1. Sound(listing, counts)'
  BY DEF Sound, Fresh, OfKind
<1>2. ListedPast'
  <2> SUFFICES ASSUME NEW name \in NamesIn(listing') PROVE Past(name)'
    BY DEF ListedPast, NamesIn
  <2>1. name \in NamesIn(listing) => name \in Names /\ Past(name)
    BY ListedNames DEF Books, ListedPast
  <2> QED  BY <2>1, PastStays
<1>3. (Early => Distinct(listing))'
  BY DEF Distinct
<1> QED  BY <1>1, <1>2, <1>3 DEF Books

\* Numbers that have not come again had not before.
LEMMA EarlyBefore ==
  ASSUME Types, Books, Forward, Early'
  PROVE  Distinct(listing)
<1>1. insnTotal \in Nat /\ insnTotal' \in Nat /\ insnTotal <= insnTotal' /\ IntMax \in Nat
  BY Sizes DEF Forward
<1>2. insnTotal' <= 2 * IntMax + 1
  BY DEF Early
<1>3. Early
  BY <1>1, <1>2 DEF Early
<1> QED  BY <1>3 DEF Books

LEMMA SilentBooks ==
  ASSUME Types, Books, Forward, listing' = listing, counts' = counts
  PROVE  Books'
<1> DEFINE N == {}
<1>1. Sound(listing', counts') /\ NamesIn(listing') \subseteq NamesIn(listing) \cup N
  BY DEF Books
<1>2. \A name \in N : name \in Names /\ Past(name)'
  OBVIOUS
<1>3. Early' => Distinct(listing')
  BY EarlyBefore
<1> HIDE DEF N
<1> QED  BY <1>1, <1>2, <1>3, BooksStay

\* A name that is not past is not listed.
LEMMA NotYet ==
  ASSUME Types, Books, NEW name, ~Past(name)
  PROVE  name \notin NamesIn(listing)
BY DEF Books, ListedPast

\* What an event of moment i leaves in the list: its dump, unless that is among the lost.
Item(X, i, name, f, s, n) ==
  IF <<i, name>> \in X THEN <<>> ELSE <<[name |-> name, frame |-> f, scanline |-> s, insns |-> n]>>

ItemOf(e, n) == Item(lost', Now, e.name, e.frame, e.scanline, n)

LEMMA EntryIs ==
  ASSUME NEW e, NEW n
  PROVE  ItemOf(e, n) = IF Key(e) \in lost' THEN <<>> ELSE <<Entry(Dump(e, n))>>
BY DEF ItemOf, Item, Entry, Dump, Key

LEMMA AppendOne ==
  ASSUME NEW S, NEW s \in Seq(S), NEW x \in S
  PROVE  /\ s \o <<>> = s /\ s \o <<x>> = Append(s, x)
         /\ s \o <<x>> \in Seq(S)
  OBVIOUS

\* One event of this moment.
LEMMA OneBooked ==
  ASSUME Types, RowsDrawn, Books, Forward, NEW e, Timely(e), Early' => ~Past(e.name),
         Past(e.name)', NEW n \in Nat, Write(<<e>>, n)
  PROVE  /\ listing' \in Seq(Listed) /\ counts' \in [Kinds -> Nat] /\ Books'
         /\ lost \subseteq lost' /\ lost' \subseteq lost \cup {Key(e)}
         /\ Entries(listing') = Entries(listing) \o ItemOf(e, n)
<1>1. /\ listing \in Seq(Listed) /\ counts \in [Kinds -> Nat] /\ Sound(listing, counts)
      /\ Dump(e, n) \in Listed /\ Fresh(Dump(e, n))
  BY DumpTyped, DumpFresh DEF Types, TypeOK, Books
<1>2. e.kind \in Kinds /\ e.name[1] = e.kind /\ e.name \in Names
  BY DEF Timely
<1>3. Key(e) \notin lost
  BY NotLost
<1>4. Listing(e, n, listing, counts, lost, listing', counts', lost')
  BY <1>1, <1>2, WriteOne
<1>5. listing' \in Seq(Listed) /\ counts' \in [Kinds -> Nat] /\ Sound(listing', counts')
  BY <1>1, <1>2, <1>4, ListingKeeps
<1>6. NamesIn(listing') \subseteq NamesIn(listing) \cup {e.name}
  BY <1>1, <1>2, <1>4, ListingKeeps
<1>7. lost \subseteq lost' /\ lost' \subseteq lost \cup {Key(e)}
  BY <1>4 DEF Listing
<1>8. Entries(listing') = Entries(listing) \o ItemOf(e, n)
  <2>1. Key(e) \in lost' => Entries(listing') = Entries(listing)
    BY <1>1, <1>3, <1>4, ListingAdds
  <2>2. Key(e) \notin lost' => Entries(listing') = Append(Entries(listing), Entry(Dump(e, n)))
    BY <1>1, <1>3, <1>4, ListingAdds
  <2>3. Entries(listing) \in Seq(EntrySet) /\ Entry(Dump(e, n)) \in EntrySet
    BY <1>1, EntriesAppend
  <2>4. /\ Entries(listing) \o <<>> = Entries(listing)
        /\ Entries(listing) \o <<Entry(Dump(e, n))>> = Append(Entries(listing), Entry(Dump(e, n)))
    BY <2>3, AppendOne
  <2> QED  BY <2>1, <2>2, <2>4, EntryIs
<1>9. Early' => Distinct(listing')
  <2> SUFFICES ASSUME Early' PROVE Distinct(listing')
    OBVIOUS
  <2>1. Distinct(listing)
    BY EarlyBefore
  <2>2. e.name \notin NamesIn(listing)
    BY NotYet
  <2> QED  BY <1>1, <1>2, <1>4, <2>1, <2>2, ListingKeeps
<1>10. Books'
  <2> DEFINE N == {e.name}
  <2>1. \A name \in N : name \in Names /\ Past(name)'
    BY <1>2
  <2>2. NamesIn(listing') \subseteq NamesIn(listing) \cup N
    BY <1>6
  <2> HIDE DEF N
  <2> QED  BY <1>5, <1>9, <2>1, <2>2, BooksStay
<1> QED  BY <1>5, <1>7, <1>8, <1>10

\* Two events of this moment, of different kinds.
LEMMA TwoBooked ==
  ASSUME Types, RowsDrawn, Books, Forward, NEW e, NEW g, Timely(e), Timely(g), e.kind # g.kind,
         Early' => ~Past(e.name) /\ ~Past(g.name), Past(e.name)', Past(g.name)',
         NEW n \in Nat, Write(<<e, g>>, n)
  PROVE  /\ listing' \in Seq(Listed) /\ counts' \in [Kinds -> Nat] /\ Books'
         /\ lost \subseteq lost' /\ lost' \subseteq lost \cup {Key(e), Key(g)}
         /\ Entries(listing') = (Entries(listing) \o ItemOf(e, n)) \o ItemOf(g, n)
<1>1. /\ listing \in Seq(Listed) /\ counts \in [Kinds -> Nat] /\ Sound(listing, counts)
      /\ Dump(e, n) \in Listed /\ Fresh(Dump(e, n))
      /\ Dump(g, n) \in Listed /\ Fresh(Dump(g, n))
  BY DumpTyped, DumpFresh DEF Types, TypeOK, Books
<1>2. /\ e.kind \in Kinds /\ e.name[1] = e.kind /\ e.name \in Names
      /\ g.kind \in Kinds /\ g.name[1] = g.kind /\ g.name \in Names
      /\ e.name # g.name
  BY DEF Timely
<1>3. Key(e) \notin lost /\ Key(g) \notin lost /\ Key(e) # Key(g)
  BY <1>2, NotLost DEF Key
<1>4. PICK L, C, X : /\ Listing(e, n, listing, counts, lost, L, C, X)
                     /\ Listing(g, n, L, C, X, listing', counts', lost')
  BY <1>1, <1>2, WriteTwo
<1>5. L \in Seq(Listed) /\ C \in [Kinds -> Nat] /\ Sound(L, C)
  BY <1>1, <1>2, <1>4, ListingKeeps
<1>6. NamesIn(L) \subseteq NamesIn(listing) \cup {e.name}
  BY <1>1, <1>2, <1>4, ListingKeeps
<1>7. lost \subseteq X /\ X \subseteq lost \cup {Key(e)}
  BY <1>4 DEF Listing
<1>8. Key(g) \notin X
  BY <1>3, <1>7
<1>9. listing' \in Seq(Listed) /\ counts' \in [Kinds -> Nat] /\ Sound(listing', counts')
  BY <1>1, <1>2, <1>4, <1>5, ListingKeeps
<1>10. NamesIn(listing') \subseteq NamesIn(L) \cup {g.name}
  BY <1>1, <1>2, <1>4, <1>5, ListingKeeps
<1>11. X \subseteq lost' /\ lost' \subseteq X \cup {Key(g)}
  BY <1>4 DEF Listing
<1>12. Entries(listing') = (Entries(listing) \o ItemOf(e, n)) \o ItemOf(g, n)
  <2>1. Key(e) \in X => Entries(L) = Entries(listing)
    BY <1>1, <1>3, <1>4, ListingAdds
  <2>2. Key(e) \notin X => Entries(L) = Append(Entries(listing), Entry(Dump(e, n)))
    BY <1>1, <1>3, <1>4, ListingAdds
  <2>3. Key(g) \in lost' => Entries(listing') = Entries(L)
    BY <1>1, <1>4, <1>5, <1>8, ListingAdds
  <2>4. Key(g) \notin lost' => Entries(listing') = Append(Entries(L), Entry(Dump(g, n)))
    BY <1>1, <1>4, <1>5, <1>8, ListingAdds
  <2>5. Key(e) \in X <=> Key(e) \in lost'
    BY <1>3, <1>11
  <2>6. /\ Entries(listing) \in Seq(EntrySet) /\ Entry(Dump(e, n)) \in EntrySet
        /\ Entries(L) \in Seq(EntrySet) /\ Entry(Dump(g, n)) \in EntrySet
    BY <1>1, <1>5, EntriesAppend
  <2>7. /\ Entries(listing) \o <<>> = Entries(listing)
        /\ Entries(listing) \o <<Entry(Dump(e, n))>> = Append(Entries(listing), Entry(Dump(e, n)))
        /\ Entries(L) \o <<>> = Entries(L)
        /\ Entries(L) \o <<Entry(Dump(g, n))>> = Append(Entries(L), Entry(Dump(g, n)))
    BY <2>6, AppendOne
  <2>8. Entries(L) = Entries(listing) \o ItemOf(e, n)
    BY <2>1, <2>2, <2>5, <2>7, EntryIs
  <2>9. Entries(listing') = Entries(L) \o ItemOf(g, n)
    BY <2>3, <2>4, <2>7, EntryIs
  <2> QED  BY <2>8, <2>9
<1>13. Early' => Distinct(listing')
  <2> SUFFICES ASSUME Early' PROVE Distinct(listing')
    OBVIOUS
  <2>1. Distinct(listing)
    BY EarlyBefore
  <2>2. e.name \notin NamesIn(listing) /\ g.name \notin NamesIn(listing)
    BY NotYet
  <2>3. Distinct(L)
    BY <1>1, <1>2, <1>4, <2>1, <2>2, ListingKeeps
  <2>4. g.name \notin NamesIn(L)
    BY <1>2, <1>6, <2>2
  <2> QED  BY <1>1, <1>2, <1>4, <1>5, <2>3, <2>4, ListingKeeps
<1>14. Books'
  <2> DEFINE N == {e.name, g.name}
  <2>1. \A name \in N : name \in Names /\ Past(name)'
    BY <1>2
  <2>2. NamesIn(listing') \subseteq NamesIn(listing) \cup N
    BY <1>6, <1>10
  <2> HIDE DEF N
  <2> QED  BY <1>9, <1>13, <2>1, <2>2, BooksStay
<1> QED  BY <1>7, <1>9, <1>11, <1>12, <1>14

\* No event at this moment.
LEMMA NoneBooked ==
  ASSUME Types, Books, Forward, NEW n, Write(<<>>, n)
  PROVE  /\ listing' = listing /\ counts' = counts /\ lost' = lost /\ Books'
<1>1. listing' = listing /\ counts' = counts /\ lost' = lost
  BY WriteNone DEF Types, TypeOK
<1> QED  BY <1>1, SilentBooks

-----------------------------------------------------------------------------
(* The books, step by step.                                                *)

LEMMA HitsTyped == ASSUME Types PROVE hits \in [config.targets -> Nat]
<1>1. hits \in [config.targets -> 0..config.pcMax] /\ 0..config.pcMax \subseteq Nat
  BY Sizes DEF Types, TypeOK
<1> QED  BY <1>1

\* A step of the run that neither executes nor lists anything.
LEMMA QuietForward ==
  ASSUME Types, UNCHANGED <<config, hits, insnTotal, frame>>, line' \in Int,
         phase \in Over => phase' \in Over, phase \in Closed => phase' \in Closed,
         phase' \in Over \/ line <= line'
  PROVE  Forward
<1>1. hits \in [config.targets -> Nat]
  BY HitsTyped
<1>2. \A pc \in config.targets : hits[pc] <= hits'[pc]
  BY <1>1
<1>3. insnTotal \in Nat
  BY Sizes
<1> QED  BY <1>1, <1>2, <1>3 DEF Forward

LEMMA LineInt == ASSUME Types PROVE line \in Int /\ line <= line
<1>1. line \in Int
  BY Sizes DEF Screen, Rows
<1> QED  BY <1>1

LEMMA OpenForward == ASSUME Types, Open PROVE Forward
<1>1. phase = "start" /\ UNCHANGED <<config, hits, insnTotal, frame, line>>
  BY DEF Open, recorder
<1> QED  BY <1>1, LineInt, QuietForward DEF Over, Closed

LEMMA BeginFrameForward == ASSUME Types, BeginFrame PROVE Forward
<1>1. UNCHANGED <<config, hits, insnTotal>> /\ frame' = frame + 1
  BY DEF BeginFrame, RecordFrame
<1>2. hits \in [config.targets -> Nat] /\ insnTotal \in Nat
  BY HitsTyped, Sizes
<1>3. \A pc \in config.targets : hits[pc] <= hits'[pc]
  BY <1>1, <1>2
<1> QED  BY <1>1, <1>2, <1>3 DEF Forward

LEMMA EndDeadForward == ASSUME Types, EndDead PROVE Forward
<1>1. phase = "dead" /\ UNCHANGED <<config, hits, insnTotal, frame, line>>
  BY DEF EndDead, recorder
<1> QED  BY <1>1, LineInt, QuietForward DEF Over, Closed

LEMMA BeginLineForward == ASSUME Types, BeginLine PROVE Forward
<1>1. phase = "blank" /\ line' = 0 /\ UNCHANGED <<config, hits, insnTotal, frame>>
  BY DEF BeginLine
<1>2. line = -1
  BY <1>1 DEF Types, TypeOK
<1> QED  BY <1>1, <1>2, QuietForward DEF Over, Closed

LEMMA FinishRowForward == ASSUME Types, FinishRow PROVE Forward
<1>1. phase = "before" /\ UNCHANGED <<config, hits, insnTotal, frame, line>>
  BY DEF FinishRow, recorder
<1> QED  BY <1>1, LineInt, QuietForward DEF Over, Closed

LEMMA EndLineForward == ASSUME Types, EndLine PROVE Forward
<1>1. /\ phase = "after" /\ UNCHANGED <<config, hits, insnTotal, frame>>
      /\ (phase' = "before" /\ line' = line + 1) \/ (phase' = "end" /\ line' = -1)
  BY DEF EndLine
<1>2. phase' \in Over \/ line <= line'
  BY <1>1, LineInt DEF Over
<1>3. line' \in Int
  BY <1>1, LineInt
<1>4. phase \notin Over /\ phase \notin Closed
  BY <1>1 DEF Over, Closed
<1> QED  BY <1>1, <1>2, <1>3, <1>4, QuietForward

LEMMA EndFrameForward == ASSUME Types, EndFrame PROVE Forward
<1>1. phase = "end" /\ phase' = "idle" /\ UNCHANGED <<config, hits, insnTotal, frame, line>>
  BY DEF EndFrame
<1> QED  BY <1>1, LineInt, QuietForward DEF Over, Closed

LEMMA CloseForward == ASSUME Types, Close PROVE Forward
<1>1. phase = "idle" /\ phase' = "closed" /\ UNCHANGED <<config, hits, insnTotal, frame, line>>
  BY DEF Close
<1> QED  BY <1>1, LineInt, QuietForward DEF Over, Closed

\* An execution that is wanted counts, and stays below the cap.
LEMMA HitsGrow ==
  ASSUME Types, NEW pc \in config.targets, hits' = HitsWith(pc)
  PROVE  /\ hits' \in [config.targets -> 0..config.pcMax]
         /\ hits'[pc] = IF WantPc(pc) THEN hits[pc] + 1 ELSE hits[pc]
         /\ \A p \in config.targets : p # pc => hits'[p] = hits[p]
         /\ \A p \in config.targets : hits[p] <= hits'[p]
<1>1. hits \in [config.targets -> 0..config.pcMax] /\ config.pcMax \in Nat
  BY Sizes DEF Types, TypeOK
<1>2. CASE WantPc(pc)
  <2>1. hits' = [hits EXCEPT ![pc] = hits[pc] + 1]
    BY <1>2 DEF HitsWith
  <2>2. hits[pc] < config.pcMax
    BY <1>2 DEF WantPc, BelowCap
  <2>3. hits[pc] + 1 \in 0..config.pcMax
    BY <1>1, <2>2
  <2>4. hits' \in [config.targets -> 0..config.pcMax]
    BY <1>1, <2>1, <2>3
  <2>5. hits'[pc] = hits[pc] + 1 /\ \A p \in config.targets : p # pc => hits'[p] = hits[p]
    BY <1>1, <2>1
  <2>6. \A p \in config.targets : hits[p] <= hits'[p]
    BY <1>1, <2>5
  <2> QED  BY <1>2, <2>4, <2>5, <2>6
<1>3. CASE ~WantPc(pc)
  <2>1. hits' = hits
    BY <1>3 DEF HitsWith
  <2>2. \A p \in config.targets : hits[p] <= hits'[p]
    BY <1>1, <2>1
  <2> QED  BY <1>1, <1>3, <2>1, <2>2
<1> QED  BY <1>2, <1>3

LEMMA InstructionForward == ASSUME Types, NEW pc \in config.targets, Instruction(pc) PROVE Forward
<1>1. /\ hits' = HitsWith(pc) /\ insnTotal' = insnTotal + 1
      /\ UNCHANGED <<config, frame, line, phase>>
  BY DEF Instruction, machine
<1>2. hits' \in [config.targets -> 0..config.pcMax] /\ \A p \in config.targets : hits[p] <= hits'[p]
  BY <1>1, HitsGrow
<1>3. hits' \in [config.targets -> Nat]
  BY <1>2, Sizes
<1>4. insnTotal' \in Nat /\ insnTotal <= insnTotal'
  BY <1>1, Sizes
<1>5. line' \in Int /\ line <= line'
  BY <1>1, LineInt
<1> QED  BY <1>1, <1>2, <1>3, <1>4, <1>5 DEF Forward

-----------------------------------------------------------------------------
(* What each kind of moment writes.                                        *)

WantLine  == InList(config.scanFrames, frame) /\ InList(config.scanlines, line)
WantFrame == InList(config.dumpFrames, frame)
WantInsn  == InList(config.dumpInsns, AsInt(insnTotal + 1))

\* Nothing of a moment that is over is lost any more.
NewlyLost == lost \subseteq lost' /\ \A x \in lost' : x \in lost \/ x[1] \notin 1..Len(moments)

\* The lists after a step that writes the items W.
Booked(W) ==
  /\ listing' \in Seq(Listed) /\ counts' \in [Kinds -> Nat] /\ Books'
  /\ NewlyLost /\ lost' \subseteq lost \cup LostNow
  /\ Entries(listing') = Entries(listing) \o W

LEMMA LosingNow ==
  ASSUME Types, lost \subseteq lost', NEW N, lost' \subseteq lost \cup N,
         \A x \in N : \E e : x = Key(e) /\ e.name \in Names
  PROVE  NewlyLost /\ lost' \subseteq lost \cup LostNow
<1>1. Now \notin 1..Len(moments)
  BY NowIs
<1>2. \A x \in N : x \in LostNow /\ x[1] = Now
  BY DEF Key, LostNow
<1> QED  BY <1>1, <1>2 DEF NewlyLost

LEMMA NothingBooked ==
  ASSUME Types, Books, Forward, NEW n, Write(<<>>, n)
  PROVE  Booked(<<>>) /\ lost' = lost
<1>1. listing' = listing /\ counts' = counts /\ lost' = lost /\ Books'
  BY NoneBooked
<1>2. listing \in Seq(Listed) /\ counts \in [Kinds -> Nat]
  BY DEF Types, TypeOK
<1>3. Entries(listing) \in Seq(EntrySet)
  BY <1>2, EntriesTyped
<1>4. Entries(listing) \o <<>> = Entries(listing)
  BY <1>3, AppendOne
<1> QED  BY <1>1, <1>2, <1>4 DEF Booked, NewlyLost

LEMMA LineBooked ==
  ASSUME Types, RowsDrawn, Books, EndLine
  PROVE  Booked(IF WantLine THEN Item(lost', Now, <<"scanline", frame, line>>, frame, line, frameInsn)
                ELSE <<>>)
<1>1. /\ phase = "after" /\ frame' = frame
      /\ (phase' = "before" /\ line' = line + 1) \/ phase' = "end"
      /\ Write(IF WantLine THEN <<LineEvent>> ELSE <<>>, frameInsn)
  BY DEF EndLine, WantLine
<1>2. frame \in Nat /\ line \in Screen /\ frameInsn \in Nat /\ scanline = line
  BY Sizes
<1>3. line \in Rows /\ line \in Int
  BY <1>1, <1>2 DEF Types, TypeOK, Screen, Rows
<1>4. CASE WantLine
  <2>1. PICK e : e = LineEvent
    OBVIOUS
  <2>2. /\ e.kind = "scanline" /\ e.name = <<"scanline", frame, line>>
        /\ e.frame = frame /\ e.scanline = line
    BY <2>1 DEF LineEvent, Event
  <2>3. e.name \in Names
    BY <1>2, <1>3, <2>2 DEF Names
  <2>4. Timely(e)
    BY <1>1, <2>2, <2>3 DEF Timely, Kinds
  <2>5. ~Past(e.name)
    BY <1>1, <1>2, <1>3, <2>2 DEF Past
  <2>6. Past(e.name)'
    BY <1>1, <1>2, <1>3, <2>2 DEF Past
  <2>7. Write(<<e>>, frameInsn)
    BY <1>1, <1>4, <2>1
  <2>8. PICK n \in Nat : n = frameInsn
    BY <1>2
  <2>9. Write(<<e>>, n)
    BY <2>7, <2>8
  <2>10. /\ listing' \in Seq(Listed) /\ counts' \in [Kinds -> Nat] /\ Books'
         /\ lost \subseteq lost' /\ lost' \subseteq lost \cup {Key(e)}
         /\ Entries(listing') = Entries(listing) \o ItemOf(e, n)
    BY <2>4, <2>5, <2>6, <2>9, EndLineForward, OneBooked
  <2>11. ItemOf(e, n) = Item(lost', Now, <<"scanline", frame, line>>, frame, line, frameInsn)
    BY <2>2, <2>8 DEF ItemOf
  <2>12. NewlyLost /\ lost' \subseteq lost \cup LostNow
    <3> DEFINE N == {Key(e)}
    <3>1. \A x \in N : \E d : x = Key(d) /\ d.name \in Names
      BY <2>3
    <3>2. lost' \subseteq lost \cup N
      BY <2>10
    <3> HIDE DEF N
    <3> QED  BY <2>10, <3>1, <3>2, LosingNow
  <2> QED  BY <1>4, <2>10, <2>11, <2>12 DEF Booked
<1>5. CASE ~WantLine
  BY <1>1, <1>5, EndLineForward, NothingBooked
<1> QED  BY <1>4, <1>5

LEMMA FrameBooked ==
  ASSUME Types, RowsDrawn, Books, EndFrame
  PROVE  Booked(IF WantFrame THEN Item(lost', Now, <<"frame", frame>>, frame, line, frameInsn)
                ELSE <<>>)
<1>1. /\ phase = "end" /\ frame' = frame /\ phase' = "idle"
      /\ Write(IF WantFrame THEN <<Event("frame", <<"frame", frame>>)>> ELSE <<>>, frameInsn)
  BY DEF EndFrame, WantFrame
<1>2. frame \in Nat /\ line \in Screen /\ frameInsn \in Nat /\ scanline = line
  BY Sizes
<1>4. CASE WantFrame
  <2>1. PICK e : e = Event("frame", <<"frame", frame>>)
    OBVIOUS
  <2>2. /\ e.kind = "frame" /\ e.name = <<"frame", frame>>
        /\ e.frame = frame /\ e.scanline = line
    BY <1>2, <2>1 DEF Event
  <2>3. e.name \in Names
    BY <1>2, <2>2 DEF Names
  <2>4. Timely(e)
    BY <1>1, <2>2, <2>3 DEF Timely, Kinds
  <2>5. ~Past(e.name)
    BY <1>1, <1>2, <2>2 DEF Past
  <2>6. Past(e.name)'
    BY <1>1, <1>2, <2>2 DEF Past
  <2>7. Write(<<e>>, frameInsn)
    BY <1>1, <1>4, <2>1
  <2>8. PICK n \in Nat : n = frameInsn
    BY <1>2
  <2>9. Write(<<e>>, n)
    BY <2>7, <2>8
  <2>10. /\ listing' \in Seq(Listed) /\ counts' \in [Kinds -> Nat] /\ Books'
         /\ lost \subseteq lost' /\ lost' \subseteq lost \cup {Key(e)}
         /\ Entries(listing') = Entries(listing) \o ItemOf(e, n)
    BY <2>4, <2>5, <2>6, <2>9, EndFrameForward, OneBooked
  <2>11. ItemOf(e, n) = Item(lost', Now, <<"frame", frame>>, frame, line, frameInsn)
    BY <2>2, <2>8 DEF ItemOf
  <2>12. NewlyLost /\ lost' \subseteq lost \cup LostNow
    <3> DEFINE N == {Key(e)}
    <3>1. \A x \in N : \E d : x = Key(d) /\ d.name \in Names
      BY <2>3
    <3>2. lost' \subseteq lost \cup N
      BY <2>10
    <3> HIDE DEF N
    <3> QED  BY <2>10, <3>1, <3>2, LosingNow
  <2> QED  BY <1>4, <2>10, <2>11, <2>12 DEF Booked
<1>5. CASE ~WantFrame
  BY <1>1, <1>5, EndFrameForward, NothingBooked
<1> QED  BY <1>4, <1>5

LEMMA Pair == \A x, y : <<x>> \o <<y>> = <<x, y>>
<1> SUFFICES ASSUME NEW x, NEW y PROVE <<x>> \o <<y>> = <<x, y>>
  OBVIOUS
<1> DEFINE S == {x, y}
           s == <<x>>
           t == <<y>>
           u == s \o t
           v == <<x, y>>
<1>1. s \in Seq(S) /\ t \in Seq(S) /\ Len(s) = 1 /\ Len(t) = 1 /\ s[1] = x /\ t[1] = y
  OBVIOUS
<1>2. v \in Seq(S) /\ Len(v) = 2 /\ v[1] = x /\ v[2] = y
  OBVIOUS
<1> HIDE DEF s, t, S, v
<1>3. u \in Seq(S) /\ Len(u) = 2 /\ u[1] = x /\ u[2] = y
  BY <1>1, ConcatProperties
<1> HIDE DEF u
<1>4. u = v
  BY <1>2, <1>3
<1> QED  BY <1>4 DEF u, v, s, t

LEMMA InsnBooked ==
  ASSUME Types, RowsDrawn, Books, NEW pc \in config.targets, Instruction(pc)
  PROVE  Booked((IF WantPc(pc) THEN Item(lost', Now, <<"pc", pc, hits[pc] + 1>>, frame, line, frameInsn + 1)
                 ELSE <<>>)
                \o (IF WantInsn
                    THEN Item(lost', Now, <<"insn", AsInt(insnTotal + 1)>>, frame, line, frameInsn + 1)
                    ELSE <<>>))
<1> DEFINE byPc == IF WantPc(pc) THEN <<Event("pc", <<"pc", pc, hits'[pc]>>)>> ELSE <<>>
           byNo == IF WantInsn THEN <<Event("insn", <<"insn", AsInt(insnTotal + 1)>>)>> ELSE <<>>
<1>1. /\ insnTotal' = insnTotal + 1 /\ frameInsn' = frameInsn + 1 /\ insnTotal < config.room
      /\ hits' = HitsWith(pc) /\ phase' = phase /\ frame' = frame
      /\ Write(byPc \o byNo, frameInsn')
  BY DEF Instruction, machine, WantInsn
<1>2. /\ frame \in Nat /\ line \in Screen /\ frameInsn \in Nat /\ insnTotal \in Nat
      /\ config.room \in Nat /\ scanline = line
  BY Sizes
<1>3. PICK n \in Nat : n = frameInsn + 1
  BY <1>2
<1>4. PICK t \in Nat : t = insnTotal + 1
  BY <1>2
<1>5. PICK z \in Nat : (WantInsn => z = AsInt(t)) /\ z <= t /\ (t <= 2 * IntMax + 1 => z = t)
  <2>1. CASE WantInsn
    BY <1>4, <2>1, NumberListed DEF WantInsn
  <2>2. CASE ~WantInsn
    <3>1. t <= t
      BY <1>4
    <3> QED  BY <2>2, <3>1
  <2> QED  BY <2>1, <2>2
<1>6. PICK h \in Nat : h = hits[pc] + 1
  BY HitsTyped
<1>7. WantPc(pc) => hits'[pc] = h
  BY <1>1, <1>6, HitsGrow
<1>8. PICK e : e = Event("pc", <<"pc", pc, h>>)
  OBVIOUS
<1>9. PICK g : g = Event("insn", <<"insn", z>>)
  OBVIOUS
<1>10. /\ e.kind = "pc" /\ e.name = <<"pc", pc, h>> /\ e.frame = frame /\ e.scanline = line
       /\ g.kind = "insn" /\ g.name = <<"insn", z>> /\ g.frame = frame /\ g.scanline = line
  BY <1>2, <1>8, <1>9 DEF Event
<1>11. Timely(e) /\ Timely(g)
  <2>1. e.name \in Names /\ g.name \in Names
    BY <1>10 DEF Names
  <2> QED  BY <1>10, <2>1 DEF Timely, Kinds
<1>12. ~Past(e.name)
  <2>1. hits[pc] \in Nat
    BY HitsTyped
  <2> QED  BY <1>6, <1>10, <2>1 DEF Past
<1>13. Early' => ~Past(g.name)
  <2> SUFFICES ASSUME Early' PROVE ~Past(g.name)
    OBVIOUS
  <2>1. z = t
    BY <1>1, <1>4, <1>5 DEF Early
  <2>2. ~(z <= insnTotal)
    BY <1>2, <1>4, <2>1
  <2> QED  BY <1>10, <2>2 DEF Past
<1>14. WantPc(pc) => Past(e.name)'
  BY <1>7, <1>10 DEF Past
<1>15. Past(g.name)'
  BY <1>1, <1>4, <1>5, <1>10 DEF Past
<1>16. Write((IF WantPc(pc) THEN <<e>> ELSE <<>>) \o (IF WantInsn THEN <<g>> ELSE <<>>), n)
  <2>1. byPc = IF WantPc(pc) THEN <<e>> ELSE <<>>
    BY <1>7, <1>8
  <2>2. byNo = IF WantInsn THEN <<g>> ELSE <<>>
    BY <1>4, <1>5, <1>9
  <2> HIDE DEF byPc, byNo
  <2> QED  BY <1>1, <1>3, <2>1, <2>2
<1>17. /\ ItemOf(e, n) = Item(lost', Now, <<"pc", pc, hits[pc] + 1>>, frame, line, frameInsn + 1)
       /\ WantInsn => ItemOf(g, n) = Item(lost', Now, <<"insn", AsInt(insnTotal + 1)>>, frame, line,
                                          frameInsn + 1)
  BY <1>3, <1>4, <1>5, <1>6, <1>10 DEF ItemOf
<1>18. e.name \in Names /\ g.name \in Names
  BY <1>11 DEF Timely
<1>19. SUFFICES Booked((IF WantPc(pc) THEN ItemOf(e, n) ELSE <<>>)
                       \o (IF WantInsn THEN ItemOf(g, n) ELSE <<>>))
  BY <1>17
<1>20. Forward
  BY InstructionForward
<1>21. Entries(listing) \in Seq(EntrySet)
  BY EntriesTyped DEF Types
<1>22. ItemOf(e, n) \in Seq(EntrySet) /\ ItemOf(g, n) \in Seq(EntrySet)
  <2>1. Entry(Dump(e, n)) \in EntrySet /\ Entry(Dump(g, n)) \in EntrySet
    BY <1>11, DumpTyped DEF Listed, Entry, EntrySet
  <2>2. <<>> \in Seq(EntrySet) /\ \A x \in EntrySet : <<x>> \in Seq(EntrySet)
    OBVIOUS
  <2> QED  BY <2>1, <2>2, EntryIs
<1>23. ASSUME NEW N, N \subseteq {Key(e), Key(g)}, lost \subseteq lost', lost' \subseteq lost \cup N
       PROVE  NewlyLost /\ lost' \subseteq lost \cup LostNow
  <2>1. \A x \in N : \E d : x = Key(d) /\ d.name \in Names
    BY <1>18, <1>23
  <2> QED  BY <1>23, <2>1, LosingNow
<1>24. CASE WantPc(pc) /\ WantInsn
  <2>1. <<e>> \o <<g>> = <<e, g>>
    BY Pair
  <2>2. Write(<<e, g>>, n)
    BY <1>16, <1>24, <2>1
  <2>3. e.kind # g.kind
    BY <1>10
  <2>4. /\ listing' \in Seq(Listed) /\ counts' \in [Kinds -> Nat] /\ Books'
        /\ lost \subseteq lost' /\ lost' \subseteq lost \cup {Key(e), Key(g)}
        /\ Entries(listing') = (Entries(listing) \o ItemOf(e, n)) \o ItemOf(g, n)
    BY <1>11, <1>12, <1>13, <1>14, <1>15, <1>20, <1>24, <2>2, <2>3, TwoBooked
  <2>5. (Entries(listing) \o ItemOf(e, n)) \o ItemOf(g, n) = Entries(listing) \o (ItemOf(e, n) \o ItemOf(g, n))
    BY <1>21, <1>22, ConcatAssociative
  <2>6. NewlyLost /\ lost' \subseteq lost \cup LostNow
    BY <1>23, <2>4
  <2> QED  BY <1>24, <2>4, <2>5, <2>6 DEF Booked
<1>25. CASE WantPc(pc) /\ ~WantInsn
  <2>1. <<e>> \o <<>> = <<e>> /\ ItemOf(e, n) \o <<>> = ItemOf(e, n)
    BY <1>22
  <2>2. Write(<<e>>, n)
    BY <1>16, <1>25, <2>1
  <2>3. /\ listing' \in Seq(Listed) /\ counts' \in [Kinds -> Nat] /\ Books'
        /\ lost \subseteq lost' /\ lost' \subseteq lost \cup {Key(e)}
        /\ Entries(listing') = Entries(listing) \o ItemOf(e, n)
    BY <1>11, <1>12, <1>14, <1>20, <1>25, <2>2, OneBooked
  <2>4. NewlyLost /\ lost' \subseteq lost \cup LostNow
    BY <1>23, <2>3
  <2> QED  BY <1>25, <2>1, <2>3, <2>4 DEF Booked
<1>26. CASE ~WantPc(pc) /\ WantInsn
  <2>1. <<>> \o <<g>> = <<g>> /\ <<>> \o ItemOf(g, n) = ItemOf(g, n)
    BY <1>22
  <2>2. Write(<<g>>, n)
    BY <1>16, <1>26, <2>1
  <2>3. /\ listing' \in Seq(Listed) /\ counts' \in [Kinds -> Nat] /\ Books'
        /\ lost \subseteq lost' /\ lost' \subseteq lost \cup {Key(g)}
        /\ Entries(listing') = Entries(listing) \o ItemOf(g, n)
    BY <1>11, <1>13, <1>15, <1>20, <1>26, <2>2, OneBooked
  <2>4. NewlyLost /\ lost' \subseteq lost \cup LostNow
    BY <1>23, <2>3
  <2> QED  BY <1>26, <2>1, <2>3, <2>4 DEF Booked
<1>27. CASE ~WantPc(pc) /\ ~WantInsn
  <2>1. <<>> \o <<>> = <<>>
    OBVIOUS
  <2>2. Write(<<>>, n)
    BY <1>16, <1>27, <2>1
  <2>3. Booked(<<>>) /\ lost' = lost
    BY <1>20, <2>2, NothingBooked
  <2> QED  BY <1>27, <2>1, <2>3
<1> QED  BY <1>24, <1>25, <1>26, <1>27

LEMMA EndLineTypes == ASSUME Types, RowsDrawn, Books, EndLine PROVE Types'
<1>1. /\ phase = "after"
      /\ \/ line + 1 < Lines /\ phase' = "before" /\ line' = line + 1 /\ scanline' = line + 1
         \/ phase' = "end" /\ line' = -1 /\ scanline' = -1
      /\ moments' = Append(moments, [is |-> "line", frame |-> frame, line |-> line])
      /\ UNCHANGED <<config, ppudead, drawn, frame, insnTotal, frameInsn, hits, trace, traces, manifest>>
  BY DEF EndLine
<1>2. listing' \in Seq(Listed) /\ counts' \in [Kinds -> Nat] /\ lost' \subseteq lost \cup LostNow
  BY LineBooked DEF Booked
<1>3. frame \in Nat /\ line \in Screen /\ Lines \in Nat \ {0}
  BY Sizes
<1>4. line \in Rows
  BY <1>1, <1>3 DEF Types, TypeOK, Screen
<1>5. /\ line' \in Rows \cup {-1} /\ scanline' = line'
      /\ line' # -1 <=> phase' \in {"before", "after"}
  BY <1>1, <1>3, <1>4 DEF Rows
<1>6. TypeOK'
  BY <1>1, <1>2, <1>5 DEF Types, TypeOK
<1>7. moments' \in Seq(Moment') /\ LostKnown'
  <2>1. [is |-> "line", frame |-> frame, line |-> line] \in Moment
    BY <1>3 DEF Moment
  <2>2. moments \in Seq(Moment)
    BY DEF Types
  <2>3. LostKnown'
    BY <1>1, <1>2, <2>1, LostMore
  <2> QED  BY <1>1, <2>1, <2>2, <2>3, ConfigStays
<1>8. frame' \in Nat \ {0} /\ phase' # "closed" /\ InFrame'
  BY <1>1 DEF Types, InFrame
<1>9. manifest' = <<>>
  BY <1>1 DEF Types
<1> QED  BY <1>1, <1>2, <1>6, <1>7, <1>8, <1>9, ConfigStays DEF Types

LEMMA EndFrameTypes == ASSUME Types, RowsDrawn, Books, EndFrame PROVE Types'
<1>1. /\ phase = "end" /\ phase' = "idle" /\ trace' = 0
      /\ moments' = Append(moments, [is |-> "frame", frame |-> frame, line |-> -1])
      /\ UNCHANGED <<config, ppudead, line, drawn, frame, scanline, insnTotal, frameInsn, hits,
                     traces, manifest>>
  BY DEF EndFrame, TraceClosed
<1>2. listing' \in Seq(Listed) /\ counts' \in [Kinds -> Nat] /\ lost' \subseteq lost \cup LostNow
  BY FrameBooked DEF Booked
<1>3. frame \in Nat
  BY Sizes
<1>4. TypeOK'
  BY <1>1, <1>2 DEF Types, TypeOK
<1>5. moments' \in Seq(Moment') /\ LostKnown'
  <2>1. [is |-> "frame", frame |-> frame, line |-> -1] \in Moment
    BY <1>3 DEF Moment, Screen
  <2>2. moments \in Seq(Moment)
    BY DEF Types
  <2>3. LostKnown'
    BY <1>1, <1>2, <2>1, LostMore
  <2> QED  BY <1>1, <2>1, <2>2, <2>3, ConfigStays
<1>6. ~InFrame' /\ manifest' = <<>> /\ phase' # "closed"
  BY <1>1 DEF Types, InFrame
<1> QED  BY <1>1, <1>2, <1>4, <1>5, <1>6, ConfigStays DEF Types

LEMMA InstructionTypes ==
  ASSUME Types, RowsDrawn, Books, NEW pc \in config.targets, Instruction(pc)
  PROVE  Types'
<1>1. /\ phase' = phase /\ hits' = HitsWith(pc) /\ insnTotal < config.room
      /\ insnTotal' = insnTotal + 1 /\ frameInsn' = frameInsn + 1
      /\ traces' = IF trace = 0 THEN traces ELSE [traces EXCEPT ![trace] = Append(@, pc)]
      /\ moments' = Append(moments, [is |-> "insn", pc |-> pc, frame |-> frame, line |-> line])
      /\ UNCHANGED <<config, ppudead, line, drawn, frame, scanline, trace, manifest>>
  BY DEF Instruction, machine
<1>2. listing' \in Seq(Listed) /\ counts' \in [Kinds -> Nat] /\ lost' \subseteq lost \cup LostNow
  BY InsnBooked DEF Booked
<1>3. frame \in Nat /\ line \in Screen
  BY Sizes
<1>4. insnTotal' \in 0..config.room /\ frameInsn' \in 0..insnTotal'
  <2>1. config.room \in Nat /\ insnTotal \in Nat /\ frameInsn \in 0..insnTotal
    BY Sizes DEF Types, TypeOK
  <2> QED  BY <1>1, <2>1
<1>5. hits' \in [config.targets -> 0..config.pcMax]
  BY <1>1, HitsGrow
<1>6. DOMAIN traces' = DOMAIN traces
  BY <1>1
<1>7. TypeOK'
  BY <1>1, <1>2, <1>4, <1>5, <1>6 DEF Types, TypeOK
<1>8. moments' \in Seq(Moment') /\ LostKnown'
  <2>1. [is |-> "insn", pc |-> pc, frame |-> frame, line |-> line] \in Moment
    BY <1>3 DEF Moment
  <2>2. moments \in Seq(Moment)
    BY DEF Types
  <2>3. LostKnown'
    BY <1>1, <1>2, <2>1, LostMore
  <2> QED  BY <1>1, <2>1, <2>2, <2>3, ConfigStays
<1> QED  BY <1>1, <1>2, <1>7, <1>8, ConfigStays DEF Types, InFrame

-----------------------------------------------------------------------------
(* The rows.                                                               *)

LEMMA FinishRowRows == ASSUME Types, RowsDrawn, FinishRow PROVE RowsDrawn'
<1>1. /\ phase = "before" /\ phase' = "after" /\ drawn' = [drawn EXCEPT ![line] = frame]
      /\ line' = line /\ frame' = frame
  BY DEF FinishRow, recorder
<1>2. drawn \in [Rows -> 0..frame]
  BY DEF Types, TypeOK
<1>3. line \in Int
  BY LineInt
<1>4. \A r \in Rows : r <= line => drawn'[r] = frame
  <2> SUFFICES ASSUME NEW r \in Rows, r <= line PROVE drawn'[r] = frame
    OBVIOUS
  <2>1. CASE r = line
    BY <1>1, <1>2, <2>1
  <2>2. CASE r # line
    <3>1. r < line
      BY <1>3, <2>2 DEF Rows
    <3>2. drawn[r] = frame
      BY <1>1, <3>1 DEF RowsDrawn
    <3> QED  BY <1>1, <1>2, <2>2, <3>2
  <2> QED  BY <2>1, <2>2
<1> QED  BY <1>1, <1>4 DEF RowsDrawn

LEMMA EndLineRows == ASSUME Types, RowsDrawn, EndLine PROVE RowsDrawn'
<1>1. /\ phase = "after" /\ UNCHANGED <<drawn, frame>>
      /\ \/ line + 1 < Lines /\ phase' = "before" /\ line' = line + 1
         \/ ~(line + 1 < Lines) /\ phase' = "end"
  BY DEF EndLine
<1>2. line \in Screen /\ Lines \in Nat \ {0} /\ line \in Int
  BY Sizes, LineInt
<1>3. \A r \in Rows : r <= line => drawn[r] = frame
  BY <1>1 DEF RowsDrawn
<1>4. CASE line + 1 < Lines
  <2>1. \A r \in Rows : r < line' => r <= line
    BY <1>1, <1>2, <1>4 DEF Rows
  <2> QED  BY <1>1, <1>3, <1>4, <2>1 DEF RowsDrawn
<1>5. CASE ~(line + 1 < Lines)
  <2>1. \A r \in Rows : r <= line
    BY <1>2, <1>5 DEF Rows
  <2> QED  BY <1>1, <1>3, <1>5, <2>1 DEF RowsDrawn
<1> QED  BY <1>4, <1>5

LEMMA RowsStay == ASSUME Types, RowsDrawn, Next PROVE RowsDrawn'
<1>1. CASE Open
  BY <1>1 DEF Open, RowsDrawn
<1>2. CASE BeginFrame
  BY <1>2 DEF BeginFrame, RowsDrawn
<1>3. CASE EndDead
  BY <1>3 DEF EndDead, RowsDrawn, recorder
<1>4. CASE BeginLine
  BY <1>4 DEF BeginLine, RowsDrawn, Rows
<1>5. CASE FinishRow
  BY <1>5, FinishRowRows
<1>6. CASE EndLine
  BY <1>6, EndLineRows
<1>7. CASE EndFrame
  BY <1>7 DEF EndFrame, RowsDrawn
<1>8. CASE Close
  BY <1>8 DEF Close, RowsDrawn
<1>9. CASE \E pc \in config.targets : Instruction(pc)
  BY <1>9 DEF Instruction, RowsDrawn, machine
<1> QED  BY <1>1, <1>2, <1>3, <1>4, <1>5, <1>6, <1>7, <1>8, <1>9 DEF Next

-----------------------------------------------------------------------------
(* The books after a step, and the manifest.                               *)

LEMMA BooksStep == ASSUME Types, RowsDrawn, Books, Next PROVE Books'
<1>1. CASE Open
  <2>1. listing' = listing /\ counts' = counts
    BY <1>1 DEF Open, recorder
  <2> QED  BY <1>1, <2>1, OpenForward, SilentBooks
<1>2. CASE BeginFrame
  <2>1. listing' = listing /\ counts' = counts
    BY <1>2 DEF BeginFrame
  <2> QED  BY <1>2, <2>1, BeginFrameForward, SilentBooks
<1>3. CASE EndDead
  <2>1. listing' = listing /\ counts' = counts
    BY <1>3 DEF EndDead, recorder
  <2> QED  BY <1>3, <2>1, EndDeadForward, SilentBooks
<1>4. CASE BeginLine
  <2>1. listing' = listing /\ counts' = counts
    BY <1>4 DEF BeginLine
  <2> QED  BY <1>4, <2>1, BeginLineForward, SilentBooks
<1>5. CASE FinishRow
  <2>1. listing' = listing /\ counts' = counts
    BY <1>5 DEF FinishRow, recorder
  <2> QED  BY <1>5, <2>1, FinishRowForward, SilentBooks
<1>6. CASE EndLine
  BY <1>6, LineBooked DEF Booked
<1>7. CASE EndFrame
  BY <1>7, FrameBooked DEF Booked
<1>8. CASE Close
  <2>1. listing' = listing /\ counts' = counts
    BY <1>8 DEF Close
  <2> QED  BY <1>8, <2>1, CloseForward, SilentBooks
<1>9. CASE \E pc \in config.targets : Instruction(pc)
  BY <1>9, InsnBooked DEF Booked
<1> QED  BY <1>1, <1>2, <1>3, <1>4, <1>5, <1>6, <1>7, <1>8, <1>9 DEF Next

LEMMA ManifestStep == ASSUME Types, ManifestFinal, Next PROVE ManifestFinal'
<1>1. CASE Close
  BY <1>1 DEF Close, ManifestFinal
<1>2. CASE ~Close
  <2>1. manifest' = manifest /\ phase # "closed"
    BY <1>2 DEF Next, Open, BeginFrame, EndDead, BeginLine, FinishRow, EndLine, EndFrame,
       Instruction, recorder, Running
  <2>2. manifest' = <<>>
    BY <2>1 DEF Types
  <2> QED  BY <2>2 DEF ManifestFinal
<1> QED  BY <1>1, <1>2

LEMMA TypesStep == ASSUME Types, RowsDrawn, Books, Next PROVE Types'
<1> QED  BY OpenTypes, BeginFrameTypes, EndDeadTypes, BeginLineTypes, FinishRowTypes, EndLineTypes,
            EndFrameTypes, CloseTypes, InstructionTypes DEF Next

LEMMA LedgerStep == Ledger /\ [Next]_vars => Ledger'
<1>1. CASE Next
  BY <1>1, TypesStep, RowsStay, BooksStep, ManifestStep DEF Ledger
<1>2. CASE UNCHANGED vars
  <2> SUFFICES ASSUME Ledger, UNCHANGED vars PROVE Ledger'
    BY <1>2
  <2>1. UNCHANGED <<config, phase, ppudead, line, drawn, frame, scanline, insnTotal, frameInsn,
                    hits, counts, listing, trace, traces, manifest, moments, lost>>
    BY DEF vars, machine, recorder, history
  <2>2. Types'
    <3>1. LostKnown'
      BY <2>1, LostStays DEF Ledger
    <3> QED  BY <2>1, <3>1, ConfigStays DEF Ledger, Types, TypeOK, InFrame
  <2>3. RowsDrawn' /\ ManifestFinal'
    BY <2>1 DEF Ledger, RowsDrawn, ManifestFinal
  <2>4. Books'
    <3>1. Types /\ Books
      BY DEF Ledger
    <3>2. Forward
      BY <2>1, <3>1, LineInt, QuietForward
    <3> QED  BY <2>1, <3>1, <3>2, SilentBooks
  <2> QED  BY <2>2, <2>3, <2>4 DEF Ledger
<1> QED  BY <1>1, <1>2

LEMMA InitLedger == Init => Ledger
<1> SUFFICES ASSUME Init PROVE Ledger
  OBVIOUS
<1>1. /\ phase = "start" /\ listing = <<>> /\ manifest = <<>>
      /\ counts = [k \in Kinds |-> 0]
  BY DEF Init
<1>2. Types /\ RowsDrawn /\ ManifestFinal
  BY <1>1, InitTypes DEF RowsDrawn, ManifestFinal
<1>3. Sound(listing, counts)
  <2>1. \A k \in Kinds : OfKind(listing, k) = {}
    BY <1>1 DEF OfKind
  <2> QED  BY <1>1, <2>1, FS_EmptySet DEF Sound
<1>4. ListedPast /\ Distinct(listing)
  BY <1>1 DEF ListedPast, NamesIn, Distinct
<1> QED  BY <1>2, <1>3, <1>4 DEF Ledger, Books

\* Distinct names are as many as the dumps.
LEMMA NamesCounted ==
  ASSUME Types, Distinct(listing)
  PROVE  Cardinality(NamesIn(listing)) = Len(listing)
<1> DEFINE n == Len(listing)
           T == NamesIn(listing)
           f == [i \in 1..n |-> listing[i].name]
<1>1. n \in Nat /\ DOMAIN listing = 1..n
  BY DEF Types
<1>2. \A i, j \in 1..n : listing[i].name = listing[j].name => i = j
  BY <1>1 DEF Distinct
<1>3. \A i \in 1..n : f[i] = listing[i].name /\ listing[i].name \in T
  BY <1>1 DEF NamesIn
<1>4. \A name \in T : \E i \in 1..n : f[i] = name
  BY <1>1 DEF NamesIn
<1>5. f \in [1..n -> T]
  BY <1>3
<1> HIDE DEF T, f, n
<1>6. f \in Bijection(1..n, T)
  BY <1>2, <1>3, <1>4, <1>5 DEF Bijection, Injection, Surjection, IsInjective
<1>7. ExistsBijection(1..n, T)
  BY <1>6 DEF ExistsBijection
<1> QED  BY <1>1, <1>7, FS_CountingElements DEF T, n

LEMMA LedgerShows == Ledger => TypeOK /\ ShownRowsFresh /\ ManifestAgrees
<1> SUFFICES ASSUME Ledger PROVE TypeOK /\ ShownRowsFresh /\ ManifestAgrees
  OBVIOUS
<1>1. Types /\ Sound(listing, counts) /\ ManifestFinal
  BY DEF Ledger, Books
<1>2. TypeOK
  BY <1>1 DEF Types
<1>3. ShownRowsFresh
  BY <1>1 DEF Sound, Fresh, ShownRowsFresh
<1>4. ManifestAgrees
  <2> SUFFICES ASSUME manifest # <<>>
               PROVE  /\ \A k \in Kinds :
                           manifest[1][k] = Cardinality({i \in DOMAIN listing : listing[i].name[1] = k})
                      /\ manifest[2] <= 2 * IntMax + 1 =>
                           Cardinality({listing[i].name : i \in DOMAIN listing}) = Len(listing)
    BY DEF ManifestAgrees
  <2>1. manifest[1] = counts /\ manifest[2] = insnTotal
    BY <1>1 DEF ManifestFinal
  <2>2. \A k \in Kinds : manifest[1][k] = Cardinality({i \in DOMAIN listing : listing[i].name[1] = k})
    BY <1>1, <2>1 DEF Sound, OfKind
  <2>3. manifest[2] <= 2 * IntMax + 1 =>
          Cardinality({listing[i].name : i \in DOMAIN listing}) = Len(listing)
    <3> SUFFICES ASSUME insnTotal <= 2 * IntMax + 1
                 PROVE  Cardinality({listing[i].name : i \in DOMAIN listing}) = Len(listing)
      BY <2>1
    <3>1. Distinct(listing)
      BY DEF Ledger, Books, Early
    <3> QED  BY <1>1, <3>1, NamesCounted DEF NamesIn
  <2> QED  BY <2>2, <2>3
<1> QED  BY <1>2, <1>3, <1>4

-----------------------------------------------------------------------------
(* What the moments promise, as a function of them, of the command line    *)
(* and of what is lost.                                                    *)

InsnsIn(ms, i) == {j \in 1..i : ms[j].is = "insn"}
ArmedIn(ms, c, j) == ms[j].pc \in c.pcs /\ InList(c.pcFrames, ms[j].frame)
HitsIn(ms, c, pc, i) == {j \in InsnsIn(ms, i) : ArmedIn(ms, c, j) /\ ms[j].pc = pc}
InsnsOf(ms, f, i) == {j \in InsnsIn(ms, i) : ms[j].frame = f}

\* The numbers a moment's dumps are named and told by.
HitNumber(ms, c, i) == Cardinality(HitsIn(ms, c, ms[i].pc, i))
InsnNumber(ms, i) == Cardinality(InsnsIn(ms, i))
PromisedItem(ms, X, i, name) ==
  Item(X, i, name, ms[i].frame, ms[i].line, Cardinality(InsnsOf(ms, ms[i].frame, i)))

PcPromised(ms, c, X, i) ==
  IF ArmedIn(ms, c, i) /\ HitNumber(ms, c, i) <= c.pcMax
  THEN PromisedItem(ms, X, i, <<"pc", ms[i].pc, HitNumber(ms, c, i)>>) ELSE <<>>
NoPromised(ms, c, X, i) ==
  IF InList(c.dumpInsns, AsInt(InsnNumber(ms, i)))
  THEN PromisedItem(ms, X, i, <<"insn", AsInt(InsnNumber(ms, i))>>) ELSE <<>>
LinePromised(ms, c, X, i) ==
  IF InList(c.scanFrames, ms[i].frame) /\ InList(c.scanlines, ms[i].line)
  THEN PromisedItem(ms, X, i, <<"scanline", ms[i].frame, ms[i].line>>) ELSE <<>>
FramePromised(ms, c, X, i) ==
  IF InList(c.dumpFrames, ms[i].frame)
  THEN PromisedItem(ms, X, i, <<"frame", ms[i].frame>>) ELSE <<>>

PromisedIn(ms, c, X, i) ==
  IF ms[i].is = "insn" THEN PcPromised(ms, c, X, i) \o NoPromised(ms, c, X, i)
  ELSE IF ms[i].is = "line" THEN LinePromised(ms, c, X, i)
  ELSE FramePromised(ms, c, X, i)

PromisesIn(ms, c, X) == [i \in 1..Len(ms) |-> PromisedIn(ms, c, X, i)]

Capped(n, cap) == IF n < cap THEN n ELSE cap

\* What the counters and the list say of the moments so far.
Following ==
  /\ MomentsFramed
  /\ insnTotal = InsnNumber(moments, Len(moments))
  /\ frameInsn = Cardinality(InsnsOf(moments, frame, Len(moments)))
  /\ \A pc \in config.targets :
       hits[pc] = Capped(Cardinality(HitsIn(moments, config, pc, Len(moments))), config.pcMax)
  /\ Entries(listing) = FlattenSeq(PromisesIn(moments, config, lost))

LEMMA PromisedIs ==
  ASSUME Types, NEW i \in 1..Len(moments)
  PROVE  Promised(i) = PromisedIn(moments, config, lost, i)
<1> DEFINE m == moments[i]
<1>1. m \in Moment
  BY DEF Types
<1>2. m.is \in {"insn", "line", "frame"}
  BY <1>1 DEF Moment
<1> DEFINE num == AsInt(InsnNumber(moments, i))
           hit == HitNumber(moments, config, i)
           Part(name) == PromisedItem(moments, lost, i, name)
<1>3. ASSUME NEW name
      PROVE  Part(name) = IF <<i, name>> \notin lost THEN <<Promise(i, name)>> ELSE <<>>
  <2>1. {j \in InsnsTo(i) : moments[j].frame = m.frame} = InsnsOf(moments, m.frame, i)
    BY DEF InsnsOf, InsnsIn, InsnsTo
  <2>2. Promise(i, name) = [name |-> name, frame |-> m.frame, scanline |-> m.line,
                            insns |-> Cardinality(InsnsOf(moments, m.frame, i))]
    BY <2>1 DEF Promise
  <2> QED  BY <2>2 DEF PromisedItem, Item
<1>4. /\ HitOf(i) = hit /\ AsInt(Cardinality(InsnsTo(i))) = num
      /\ Armed(i) <=> ArmedIn(moments, config, i)
  BY DEF HitOf, HitNumber, InsnNumber, InsnsIn, InsnsTo, Armed, ArmedIn, HitsIn
<1>5. CASE m.is = "insn"
  <2> DEFINE a == <<"pc", m.pc, hit>>
             b == <<"insn", num>>
  <2>1. Promised(i) = (IF (Armed(i) /\ hit <= config.pcMax) /\ <<i, a>> \notin lost THEN <<Promise(i, a)>> ELSE <<>>)
                      \o (IF InList(config.dumpInsns, num) /\ <<i, b>> \notin lost THEN <<Promise(i, b)>> ELSE <<>>)
    <3> HIDE DEF num, hit
    <3> QED  BY <1>4, <1>5 DEF Promised
  <2>2. PcPromised(moments, config, lost, i)
          = IF (Armed(i) /\ hit <= config.pcMax) /\ <<i, a>> \notin lost THEN <<Promise(i, a)>> ELSE <<>>
    BY <1>3, <1>4 DEF PcPromised
  <2>3. NoPromised(moments, config, lost, i)
          = IF InList(config.dumpInsns, num) /\ <<i, b>> \notin lost THEN <<Promise(i, b)>> ELSE <<>>
    BY <1>3 DEF NoPromised
  <2> HIDE DEF a, b, num, hit
  <2> QED  BY <1>5, <2>1, <2>2, <2>3 DEF PromisedIn
<1>6. CASE m.is = "line"
  <2> DEFINE a == <<"scanline", m.frame, m.line>>
  <2>1. Promised(i) = IF (InList(config.scanFrames, m.frame) /\ InList(config.scanlines, m.line)) /\ <<i, a>> \notin lost
                      THEN <<Promise(i, a)>> ELSE <<>>
    BY <1>6 DEF Promised
  <2>2. LinePromised(moments, config, lost, i)
          = IF (InList(config.scanFrames, m.frame) /\ InList(config.scanlines, m.line)) /\ <<i, a>> \notin lost
            THEN <<Promise(i, a)>> ELSE <<>>
    BY <1>3 DEF LinePromised
  <2> QED  BY <1>6, <2>1, <2>2 DEF PromisedIn
<1>7. CASE m.is = "frame"
  <2> DEFINE a == <<"frame", m.frame>>
  <2>1. Promised(i) = IF InList(config.dumpFrames, m.frame) /\ <<i, a>> \notin lost
                      THEN <<Promise(i, a)>> ELSE <<>>
    BY <1>7 DEF Promised
  <2>2. FramePromised(moments, config, lost, i)
          = IF InList(config.dumpFrames, m.frame) /\ <<i, a>> \notin lost
            THEN <<Promise(i, a)>> ELSE <<>>
    BY <1>3 DEF FramePromised
  <2> QED  BY <1>7, <2>1, <2>2 DEF PromisedIn
<1> QED  BY <1>2, <1>5, <1>6, <1>7

\* One moment more.
More(ms, ms2, m, n) ==
  n \in Nat /\ Len(ms) = n /\ Len(ms2) = n + 1 /\ Extends(ms2, ms, n) /\ ms2[n + 1] = m

LEMMA AppendMore ==
  ASSUME NEW S, NEW ms \in Seq(S), NEW m \in S
  PROVE  More(ms, Append(ms, m), m, Len(ms))
BY AppendProperties DEF More, Extends

LEMMA SetsKeep ==
  ASSUME NEW n \in Nat, NEW ms, NEW ms2, Extends(ms2, ms, n), NEW i \in 1..n
  PROVE  /\ InsnsIn(ms2, i) = InsnsIn(ms, i)
         /\ \A c, pc : HitsIn(ms2, c, pc, i) = HitsIn(ms, c, pc, i)
         /\ \A f : InsnsOf(ms2, f, i) = InsnsOf(ms, f, i)
<1>1. \A j \in 1..i : ms2[j] = ms[j]
  BY DEF Extends
<1>2. InsnsIn(ms2, i) = InsnsIn(ms, i)
  BY <1>1 DEF InsnsIn
<1>3. \A j \in InsnsIn(ms, i) : ms2[j] = ms[j]
  BY <1>1 DEF InsnsIn
<1>4. ASSUME NEW c, NEW pc
      PROVE  HitsIn(ms2, c, pc, i) = HitsIn(ms, c, pc, i)
  BY <1>2, <1>3 DEF HitsIn, ArmedIn
<1>5. ASSUME NEW f
      PROVE  InsnsOf(ms2, f, i) = InsnsOf(ms, f, i)
  BY <1>2, <1>3 DEF InsnsOf
<1> QED  BY <1>2, <1>4, <1>5

Watched(c, m) == m.pc \in c.pcs /\ InList(c.pcFrames, m.frame)

LEMMA InsnsGrow ==
  ASSUME NEW ms, NEW ms2, NEW m, NEW n, More(ms, ms2, m, n)
  PROVE  /\ InsnsIn(ms2, n + 1) = IF m.is = "insn" THEN InsnsIn(ms, n) \cup {n + 1} ELSE InsnsIn(ms, n)
         /\ \A j \in InsnsIn(ms, n) : ms2[j] = ms[j] /\ j # n + 1
<1>1. /\ n \in Nat /\ \A j \in 1..n : ms2[j] = ms[j]
      /\ ms2[n + 1] = m
  BY DEF More, Extends
<1>2. 1..(n + 1) = (1..n) \cup {n + 1} /\ n + 1 \notin 1..n
  BY <1>1
<1>3. \A j : j \in InsnsIn(ms2, n + 1) <=> (j \in 1..n /\ ms2[j].is = "insn") \/ (j = n + 1 /\ m.is = "insn")
  BY <1>1, <1>2 DEF InsnsIn
<1>4. \A j : j \in InsnsIn(ms, n) <=> j \in 1..n /\ ms[j].is = "insn"
  BY DEF InsnsIn
<1>5. \A j : j \in InsnsIn(ms2, n + 1) <=> j \in InsnsIn(ms, n) \/ (j = n + 1 /\ m.is = "insn")
  BY <1>1, <1>3, <1>4
<1>6. \A j \in InsnsIn(ms, n) : ms2[j] = ms[j] /\ j # n + 1
  BY <1>1, <1>2, <1>4
<1> QED  BY <1>5, <1>6

LEMMA HitSetGrows ==
  ASSUME NEW ms, NEW ms2, NEW m, NEW n, More(ms, ms2, m, n), NEW c, NEW pc
  PROVE  HitsIn(ms2, c, pc, n + 1) = IF m.is = "insn" /\ Watched(c, m) /\ m.pc = pc
                                     THEN HitsIn(ms, c, pc, n) \cup {n + 1} ELSE HitsIn(ms, c, pc, n)
<1>1. ms2[n + 1] = m
  BY DEF More
<1>2. /\ InsnsIn(ms2, n + 1) = IF m.is = "insn" THEN InsnsIn(ms, n) \cup {n + 1} ELSE InsnsIn(ms, n)
      /\ \A j \in InsnsIn(ms, n) : ms2[j] = ms[j] /\ j # n + 1
  BY InsnsGrow
<1>3. \A j : j \in HitsIn(ms2, c, pc, n + 1)
               <=> j \in InsnsIn(ms2, n + 1) /\ Watched(c, ms2[j]) /\ ms2[j].pc = pc
  BY DEF HitsIn, ArmedIn, Watched
<1>4. \A j : j \in HitsIn(ms, c, pc, n)
               <=> j \in InsnsIn(ms, n) /\ Watched(c, ms[j]) /\ ms[j].pc = pc
  BY DEF HitsIn, ArmedIn, Watched
<1>5. \A j : j \in HitsIn(ms2, c, pc, n + 1)
               <=> \/ j \in HitsIn(ms, c, pc, n)
                   \/ j = n + 1 /\ m.is = "insn" /\ Watched(c, m) /\ m.pc = pc
  BY <1>1, <1>2, <1>3, <1>4
<1> QED  BY <1>5

LEMMA FrameSetGrows ==
  ASSUME NEW ms, NEW ms2, NEW m, NEW n, More(ms, ms2, m, n), NEW f
  PROVE  InsnsOf(ms2, f, n + 1) = IF m.is = "insn" /\ m.frame = f
                                  THEN InsnsOf(ms, f, n) \cup {n + 1} ELSE InsnsOf(ms, f, n)
<1>1. ms2[n + 1] = m
  BY DEF More
<1>2. /\ InsnsIn(ms2, n + 1) = IF m.is = "insn" THEN InsnsIn(ms, n) \cup {n + 1} ELSE InsnsIn(ms, n)
      /\ \A j \in InsnsIn(ms, n) : ms2[j] = ms[j] /\ j # n + 1
  BY InsnsGrow
<1>3. \A j : j \in InsnsOf(ms2, f, n + 1) <=> j \in InsnsIn(ms2, n + 1) /\ ms2[j].frame = f
  BY DEF InsnsOf
<1>4. \A j : j \in InsnsOf(ms, f, n) <=> j \in InsnsIn(ms, n) /\ ms[j].frame = f
  BY DEF InsnsOf
<1>5. \A j : j \in InsnsOf(ms2, f, n + 1)
               <=> j \in InsnsOf(ms, f, n) \/ (j = n + 1 /\ m.is = "insn" /\ m.frame = f)
  BY <1>1, <1>2, <1>3, <1>4
<1> QED  BY <1>5

LEMMA SetsFinite ==
  ASSUME NEW n \in Nat, NEW ms
  PROVE  /\ IsFiniteSet(InsnsIn(ms, n)) /\ n + 1 \notin InsnsIn(ms, n)
         /\ \A c, pc : IsFiniteSet(HitsIn(ms, c, pc, n)) /\ n + 1 \notin HitsIn(ms, c, pc, n)
         /\ \A f : IsFiniteSet(InsnsOf(ms, f, n)) /\ n + 1 \notin InsnsOf(ms, f, n)
<1>1. IsFiniteSet(1..n) /\ n + 1 \notin 1..n
  BY FS_Interval
<1>2. InsnsIn(ms, n) \subseteq 1..n
  BY DEF InsnsIn
<1>3. \A c, pc : HitsIn(ms, c, pc, n) \subseteq 1..n
  BY <1>2 DEF HitsIn
<1>4. \A f : InsnsOf(ms, f, n) \subseteq 1..n
  BY <1>2 DEF InsnsOf
<1>5. \A T : T \subseteq 1..n => IsFiniteSet(T) /\ n + 1 \notin T
  BY <1>1, FS_Subset
<1> QED  BY <1>2, <1>3, <1>4, <1>5

\* The numbers one moment later.
LEMMA NumbersGrow ==
  ASSUME NEW ms, NEW ms2, NEW m, NEW n, More(ms, ms2, m, n)
  PROVE  /\ InsnNumber(ms, n) \in Nat
         /\ InsnNumber(ms2, n + 1) = IF m.is = "insn" THEN InsnNumber(ms, n) + 1 ELSE InsnNumber(ms, n)
         /\ \A c, pc : /\ Cardinality(HitsIn(ms, c, pc, n)) \in Nat
                       /\ Cardinality(HitsIn(ms2, c, pc, n + 1))
                            = IF m.is = "insn" /\ Watched(c, m) /\ m.pc = pc
                              THEN Cardinality(HitsIn(ms, c, pc, n)) + 1
                              ELSE Cardinality(HitsIn(ms, c, pc, n))
         /\ \A f : /\ Cardinality(InsnsOf(ms, f, n)) \in Nat
                   /\ Cardinality(InsnsOf(ms2, f, n + 1))
                        = IF m.is = "insn" /\ m.frame = f
                          THEN Cardinality(InsnsOf(ms, f, n)) + 1 ELSE Cardinality(InsnsOf(ms, f, n))
<1>1. n \in Nat
  BY DEF More
<1>2. \A T : IsFiniteSet(T) /\ n + 1 \notin T =>
              Cardinality(T) \in Nat /\ Cardinality(T \cup {n + 1}) = Cardinality(T) + 1
  BY FS_AddElement, FS_CardinalityType
<1>3. /\ InsnNumber(ms, n) \in Nat
      /\ InsnNumber(ms2, n + 1) = IF m.is = "insn" THEN InsnNumber(ms, n) + 1 ELSE InsnNumber(ms, n)
  <2> DEFINE T == InsnsIn(ms, n)
  <2>0. /\ InsnsIn(ms2, n + 1) = IF m.is = "insn" THEN InsnsIn(ms, n) \cup {n + 1} ELSE InsnsIn(ms, n)
        /\ \A j \in InsnsIn(ms, n) : ms2[j] = ms[j] /\ j # n + 1
    BY InsnsGrow
  <2>1. InsnsIn(ms2, n + 1) = IF m.is = "insn" THEN T \cup {n + 1} ELSE T
    BY <2>0
  <2>2. IsFiniteSet(T) /\ n + 1 \notin T
    BY <1>1, SetsFinite
  <2> HIDE DEF T
  <2>3. Cardinality(T) \in Nat /\ Cardinality(T \cup {n + 1}) = Cardinality(T) + 1
    BY <1>2, <2>2
  <2> QED  BY <2>1, <2>3 DEF InsnNumber, T
<1>4. ASSUME NEW c, NEW pc
      PROVE  /\ Cardinality(HitsIn(ms, c, pc, n)) \in Nat
             /\ Cardinality(HitsIn(ms2, c, pc, n + 1))
                  = IF m.is = "insn" /\ Watched(c, m) /\ m.pc = pc
                    THEN Cardinality(HitsIn(ms, c, pc, n)) + 1
                    ELSE Cardinality(HitsIn(ms, c, pc, n))
  <2> DEFINE T == HitsIn(ms, c, pc, n)
  <2>1. HitsIn(ms2, c, pc, n + 1)
          = IF m.is = "insn" /\ Watched(c, m) /\ m.pc = pc THEN T \cup {n + 1} ELSE T
    BY HitSetGrows
  <2>2. IsFiniteSet(T) /\ n + 1 \notin T
    BY <1>1, SetsFinite
  <2> HIDE DEF T
  <2>3. Cardinality(T) \in Nat /\ Cardinality(T \cup {n + 1}) = Cardinality(T) + 1
    BY <1>2, <2>2
  <2> QED  BY <2>1, <2>3 DEF T
<1>5. ASSUME NEW f
      PROVE  /\ Cardinality(InsnsOf(ms, f, n)) \in Nat
             /\ Cardinality(InsnsOf(ms2, f, n + 1))
                  = IF m.is = "insn" /\ m.frame = f
                    THEN Cardinality(InsnsOf(ms, f, n)) + 1 ELSE Cardinality(InsnsOf(ms, f, n))
  <2> DEFINE T == InsnsOf(ms, f, n)
  <2>1. InsnsOf(ms2, f, n + 1) = IF m.is = "insn" /\ m.frame = f THEN T \cup {n + 1} ELSE T
    BY FrameSetGrows
  <2>2. IsFiniteSet(T) /\ n + 1 \notin T
    BY <1>1, SetsFinite
  <2> HIDE DEF T
  <2>3. Cardinality(T) \in Nat /\ Cardinality(T \cup {n + 1}) = Cardinality(T) + 1
    BY <1>2, <2>2
  <2> QED  BY <2>1, <2>3 DEF T
<1> QED  BY <1>3, <1>4, <1>5

\* The numbers of an earlier moment are no larger.
LEMMA NumbersBelow ==
  ASSUME NEW ms, NEW n \in Nat, NEW i \in 1..n
  PROVE  /\ InsnNumber(ms, i) \in Nat /\ InsnNumber(ms, i) <= InsnNumber(ms, n)
         /\ InsnNumber(ms, n) \in Nat
         /\ \A c, pc : /\ Cardinality(HitsIn(ms, c, pc, i)) \in Nat
                       /\ Cardinality(HitsIn(ms, c, pc, n)) \in Nat
                       /\ Cardinality(HitsIn(ms, c, pc, i)) <= Cardinality(HitsIn(ms, c, pc, n))
<1>1. i \in Nat /\ 1..i \subseteq 1..n
  OBVIOUS
<1>2. InsnsIn(ms, i) \subseteq InsnsIn(ms, n)
  BY <1>1 DEF InsnsIn
<1>3. \A c, pc : HitsIn(ms, c, pc, i) \subseteq HitsIn(ms, c, pc, n)
  BY <1>2 DEF HitsIn
<1>4. \A T, U : IsFiniteSet(T) /\ U \subseteq T =>
        Cardinality(T) \in Nat /\ Cardinality(U) \in Nat /\ Cardinality(U) <= Cardinality(T)
  BY FS_Subset, FS_CardinalityType
<1> QED  BY <1>2, <1>3, <1>4, SetsFinite DEF InsnNumber

-----------------------------------------------------------------------------
(* The promises of the moments that are over do not change.                *)

LEMMA MomentIs ==
  ASSUME Types, MomentsFramed, NEW i \in 1..Len(moments)
  PROVE  /\ moments[i].is \in {"insn", "line", "frame"} /\ moments[i].frame \in 1..frame
         /\ moments[i].is = "insn" => moments[i].pc \in config.targets
<1>1. i \in DOMAIN moments /\ moments[i] \in Moment
  BY DEF Types
<1>2. moments[i].is \in {"insn", "line", "frame"}
  BY <1>1 DEF Moment
<1>3. moments[i].is = "insn" => moments[i].pc \in config.targets
  BY <1>1 DEF Moment
<1>4. moments[i].frame \in 1..frame
  BY <1>1 DEF MomentsFramed
<1> QED  BY <1>2, <1>3, <1>4

LEMMA ItemKept ==
  ASSUME NewlyLost, NEW i \in 1..Len(moments), NEW name, NEW f, NEW s, NEW n
  PROVE  Item(lost', i, name, f, s, n) = Item(lost, i, name, f, s, n)
<1>1. <<i, name>>[1] = i
  OBVIOUS
<1>2. <<i, name>> \in lost' <=> <<i, name>> \in lost
  BY <1>1 DEF NewlyLost
<1> QED  BY <1>2 DEF Item

LEMMA PromisedKept ==
  ASSUME Types, Following, NewlyLost, NEW ms, Extends(ms, moments, Len(moments)),
         NEW i \in 1..Len(moments)
  PROVE  PromisedIn(ms, config, lost', i) = PromisedIn(moments, config, lost, i)
<1> DEFINE m == moments[i]
           hit == HitNumber(moments, config, i)
           num == InsnNumber(moments, i)
<1>1. Len(moments) \in Nat
  BY DEF Types
<1>2. ms[i] = m
  BY DEF Extends
<1>3. /\ InsnsIn(ms, i) = InsnsIn(moments, i)
      /\ \A c, pc : HitsIn(ms, c, pc, i) = HitsIn(moments, c, pc, i)
      /\ \A f : InsnsOf(ms, f, i) = InsnsOf(moments, f, i)
  BY <1>1, SetsKeep
<1>4. HitNumber(ms, config, i) = hit /\ InsnNumber(ms, i) = num
  BY <1>2, <1>3 DEF HitNumber, InsnNumber
<1>5. ArmedIn(ms, config, i) <=> ArmedIn(moments, config, i)
  BY <1>2 DEF ArmedIn
<1>6. ASSUME NEW name
      PROVE  PromisedItem(ms, lost', i, name) = PromisedItem(moments, lost, i, name)
  BY <1>2, <1>3, ItemKept DEF PromisedItem
<1>7. m.is \in {"insn", "line", "frame"}
  BY MomentIs DEF Following
<1> HIDE DEF hit, num
<1>8. PcPromised(ms, config, lost', i) = PcPromised(moments, config, lost, i)
  <2>1. PcPromised(ms, config, lost', i)
          = IF ArmedIn(moments, config, i) /\ hit <= config.pcMax
            THEN PromisedItem(ms, lost', i, <<"pc", m.pc, hit>>) ELSE <<>>
    BY <1>2, <1>4, <1>5 DEF PcPromised
  <2>2. PcPromised(moments, config, lost, i)
          = IF ArmedIn(moments, config, i) /\ hit <= config.pcMax
            THEN PromisedItem(moments, lost, i, <<"pc", m.pc, hit>>) ELSE <<>>
    BY DEF PcPromised, hit
  <2> QED  BY <1>6, <2>1, <2>2
<1>9. NoPromised(ms, config, lost', i) = NoPromised(moments, config, lost, i)
  BY <1>4, <1>6 DEF NoPromised, num
<1>10. LinePromised(ms, config, lost', i) = LinePromised(moments, config, lost, i)
  BY <1>2, <1>6 DEF LinePromised
<1>11. FramePromised(ms, config, lost', i) = FramePromised(moments, config, lost, i)
  BY <1>2, <1>6 DEF FramePromised
<1> QED  BY <1>2, <1>7, <1>8, <1>9, <1>10, <1>11 DEF PromisedIn

LEMMA ExtendsItself == \A p, n : Extends(p, p, n)
BY DEF Extends

LEMMA PromisesStay ==
  ASSUME Types, Following, NewlyLost, config' = config, moments' = moments
  PROVE  PromisesIn(moments', config', lost') = PromisesIn(moments, config, lost)
<1>1. \A i \in 1..Len(moments) : PromisedIn(moments, config, lost', i) = PromisedIn(moments, config, lost, i)
  BY PromisedKept, ExtendsItself
<1> QED  BY <1>1 DEF PromisesIn

\* A moment more: its promises follow those of the others.
LEMMA PromisesMore ==
  ASSUME Types, Following, NewlyLost, config' = config, NEW m \in Moment,
         moments' = Append(moments, m), NEW W, W \in Seq(EntrySet),
         PromisedIn(moments', config, lost', Len(moments) + 1) = W
  PROVE  FlattenSeq(PromisesIn(moments', config', lost'))
           = FlattenSeq(PromisesIn(moments, config, lost)) \o W
<1> DEFINE n == Len(moments)
           p == PromisesIn(moments, config, lost)
           q == PromisesIn(moments', config', lost')
<1>1. n \in Nat /\ Len(moments') = n + 1 /\ Extends(moments', moments, n)
  <2>1. More(moments, Append(moments, m), m, n)
    BY AppendMore DEF Types
  <2> QED  BY <2>1 DEF More
<1>2. p = [i \in 1..n |-> PromisedIn(moments, config, lost, i)]
  BY DEF PromisesIn
<1>3. q = [i \in 1..(n + 1) |-> PromisedIn(moments', config, lost', i)]
  BY <1>1 DEF PromisesIn
<1>4. \A i \in 1..n : PromisedIn(moments', config, lost', i) = PromisedIn(moments, config, lost, i)
  BY <1>1, PromisedKept
<1>5. n + 1 \in 1..(n + 1) /\ 1..n \subseteq 1..(n + 1) /\ n + 1 \in Nat
  BY <1>1
<1>6. Extends(q, p, n) /\ q[n + 1] = W
  BY <1>2, <1>3, <1>4, <1>5 DEF Extends
<1>7. Len(p) = n /\ (n = 0 => p = <<>>)
  BY <1>1, <1>2
<1>8. Len(q) = n + 1
  BY <1>3, <1>5
<1> HIDE DEF n, p, q
<1>9. FlattenSeq(q) = FlattenSeq(p) \o q[n + 1]
  BY <1>1, <1>6, <1>7, <1>8, FlattenMore
<1> QED  BY <1>6, <1>9 DEF p, q, n

LEMMA FramedStay ==
  ASSUME Types, MomentsFramed, Forward, NEW i \in 1..Len(moments)
  PROVE  moments[i].frame \in 1..frame'
<1>1. frame \in Nat /\ frame' \in Nat /\ frame <= frame'
  BY Sizes DEF Forward
<1>2. moments[i].frame \in 1..frame
  BY MomentIs
<1> QED  BY <1>1, <1>2

\* A step without a moment.
LEMMA QuietFollowing ==
  ASSUME Types, Following, Forward, NewlyLost, UNCHANGED <<hits, insnTotal, moments, listing>>,
         (frame' = frame /\ frameInsn' = frameInsn) \/ (frame' = frame + 1 /\ frameInsn' = 0)
  PROVE  Following'
<1> DEFINE n == Len(moments)
<1>0. /\ n \in Nat /\ DOMAIN moments = 1..n /\ config' = config
      /\ MomentsFramed
  BY DEF Types, Forward, Following
<1>1. MomentsFramed'
  <2> SUFFICES ASSUME NEW i \in DOMAIN moments' PROVE moments'[i].frame \in 1..frame'
    BY DEF MomentsFramed
  <2>1. i \in 1..n /\ moments' = moments
    BY <1>0
  <2>2. moments[i].frame \in 1..frame'
    BY <1>0, <2>1, FramedStay
  <2> QED  BY <2>1, <2>2
<1>2. frameInsn' = Cardinality(InsnsOf(moments, frame', n))
  <2>1. CASE frame' = frame /\ frameInsn' = frameInsn
    BY <2>1 DEF Following
  <2>2. CASE frame' = frame + 1 /\ frameInsn' = 0
    <3>1. \A i \in 1..n : moments[i].frame # frame + 1
      <4> SUFFICES ASSUME NEW i \in 1..n PROVE moments[i].frame # frame + 1
        OBVIOUS
      <4>1. moments[i].frame \in 1..frame /\ frame \in Nat
        BY <1>0, MomentIs, Sizes
      <4> QED  BY <4>1
    <3>2. InsnsOf(moments, frame', n) = {}
      BY <2>2, <3>1 DEF InsnsOf, InsnsIn
    <3> QED  BY <2>2, <3>2, FS_EmptySet
  <2> QED  BY <2>1, <2>2
<1>3. PromisesIn(moments', config', lost') = PromisesIn(moments, config, lost)
  BY <1>0, PromisesStay
<1>4. Entries(listing') = FlattenSeq(PromisesIn(moments', config', lost'))
  BY <1>3 DEF Following
<1>5. \A pc \in config'.targets :
        hits'[pc] = Capped(Cardinality(HitsIn(moments', config', pc, Len(moments'))), config'.pcMax)
  BY <1>0 DEF Following
<1>6. insnTotal' = InsnNumber(moments', Len(moments'))
  BY DEF Following
<1>7. frameInsn' = Cardinality(InsnsOf(moments', frame', Len(moments')))
  BY <1>2
<1> QED  BY <1>1, <1>4, <1>5, <1>6, <1>7 DEF Following

\* A step with a moment m, whose promises are written.
LEMMA MomentFollowing ==
  ASSUME Types, Following, Forward, NEW m \in Moment, moments' = Append(moments, m),
         NEW W, W \in Seq(EntrySet), Booked(W),
         PromisedIn(moments', config, lost', Len(moments) + 1) = W,
         frame' = frame, NEW f \in 1..frame, m.frame = f, f = frame,
         insnTotal' = IF m.is = "insn" THEN insnTotal + 1 ELSE insnTotal,
         frameInsn' = IF m.is = "insn" THEN frameInsn + 1 ELSE frameInsn,
         \A pc \in config.targets :
           hits'[pc] = IF m.is = "insn" /\ Watched(config, m) /\ m.pc = pc /\ hits[pc] < config.pcMax
                       THEN hits[pc] + 1 ELSE hits[pc]
  PROVE  Following'
<1> DEFINE n == Len(moments)
           k == n + 1
<1>0. n \in Nat /\ config' = config /\ MomentsFramed /\ NewlyLost
  BY DEF Types, Forward, Following, Booked
<1>1. PICK ms : ms = moments'
  OBVIOUS
<1>2. More(moments, ms, m, n)
  BY <1>1, AppendMore DEF Types
<1>3. Len(ms) = k /\ DOMAIN ms = 1..k /\ ms[k] = m /\ \A i \in 1..n : ms[i] = moments[i]
  <2>1. Len(ms) = k /\ ms[k] = m /\ \A i \in 1..n : ms[i] = moments[i]
    BY <1>2 DEF More, Extends
  <2>2. DOMAIN ms = 1..k
    BY <1>1, AppendIs DEF Types
  <2> QED  BY <2>1, <2>2
<1>4. MomentsFramed'
  <2> SUFFICES ASSUME NEW i \in DOMAIN moments' PROVE moments'[i].frame \in 1..frame'
    BY DEF MomentsFramed
  <2>1. i \in 1..n \/ i = k
    BY <1>0, <1>1, <1>3
  <2>2. CASE i \in 1..n
    <3>1. moments[i].frame \in 1..frame'
      BY <1>0, <2>2, FramedStay
    <3> QED  BY <1>1, <1>3, <2>2, <3>1
  <2>3. CASE i = k
    BY <1>1, <1>3, <2>3
  <2> QED  BY <2>1, <2>2, <2>3
<1>5. insnTotal' = InsnNumber(ms, k)
  <2>1. InsnNumber(ms, k) = IF m.is = "insn" THEN InsnNumber(moments, n) + 1 ELSE InsnNumber(moments, n)
    BY <1>2, NumbersGrow
  <2> QED  BY <2>1 DEF Following
<1>6. frameInsn' = Cardinality(InsnsOf(ms, f, k))
  <2>1. \A g : Cardinality(InsnsOf(ms, g, k))
                 = IF m.is = "insn" /\ m.frame = g
                   THEN Cardinality(InsnsOf(moments, g, n)) + 1 ELSE Cardinality(InsnsOf(moments, g, n))
    BY <1>2, NumbersGrow
  <2>2. frameInsn = Cardinality(InsnsOf(moments, f, n))
    BY DEF Following
  <2> QED  BY <2>1, <2>2
<1>7. ASSUME NEW pc \in config.targets
      PROVE  hits'[pc] = Capped(Cardinality(HitsIn(ms, config, pc, k)), config.pcMax)
  <2> DEFINE a == Cardinality(HitsIn(moments, config, pc, n))
             b == Cardinality(HitsIn(ms, config, pc, k))
  <2>1. a \in Nat /\ b = IF m.is = "insn" /\ Watched(config, m) /\ m.pc = pc THEN a + 1 ELSE a
    <3>1. \A c, p : /\ Cardinality(HitsIn(moments, c, p, n)) \in Nat
                    /\ Cardinality(HitsIn(ms, c, p, k))
                         = IF m.is = "insn" /\ Watched(c, m) /\ m.pc = p
                           THEN Cardinality(HitsIn(moments, c, p, n)) + 1
                           ELSE Cardinality(HitsIn(moments, c, p, n))
      BY <1>2, NumbersGrow
    <3> QED  BY <3>1
  <2>2. hits[pc] = Capped(a, config.pcMax) /\ config.pcMax \in Nat
    BY Sizes DEF Following
  <2> HIDE DEF a, b
  <2>3. hits'[pc] = Capped(b, config.pcMax)
    BY <2>1, <2>2 DEF Capped
  <2> QED  BY <2>3 DEF b
<1>8. Entries(listing') = FlattenSeq(PromisesIn(moments', config', lost'))
  <2>1. FlattenSeq(PromisesIn(moments', config', lost')) = FlattenSeq(PromisesIn(moments, config, lost)) \o W
    BY <1>0, PromisesMore
  <2>2. Entries(listing') = Entries(listing) \o W
    BY DEF Booked
  <2> QED  BY <2>1, <2>2 DEF Following
<1> HIDE DEF k
<1>9. \A pc \in config'.targets :
        hits'[pc] = Capped(Cardinality(HitsIn(moments', config', pc, Len(moments'))), config'.pcMax)
  BY <1>0, <1>1, <1>3, <1>7
<1>10. insnTotal' = InsnNumber(moments', Len(moments'))
  BY <1>1, <1>3, <1>5
<1>11. frameInsn' = Cardinality(InsnsOf(moments', frame', Len(moments')))
  BY <1>1, <1>3, <1>6
<1> QED  BY <1>4, <1>8, <1>9, <1>10, <1>11 DEF Following

-----------------------------------------------------------------------------
(* The list of dumps, step by step.                                        *)

LEMMA ItemTyped ==
  ASSUME NEW X, NEW i, NEW name \in Names, NEW f \in Nat, NEW s \in Screen, NEW n \in Nat
  PROVE  Item(X, i, name, f, s, n) \in Seq(EntrySet)
<1>1. [name |-> name, frame |-> f, scanline |-> s, insns |-> n] \in EntrySet
  BY DEF EntrySet
<1> QED  BY <1>1 DEF Item

\* What the moment after n others promises.
LEMMA LinePromise ==
  ASSUME NEW ms, NEW ms2, NEW m, NEW n, More(ms, ms2, m, n), NEW c, NEW X, m.is = "line"
  PROVE  PromisedIn(ms2, c, X, n + 1)
           = IF InList(c.scanFrames, m.frame) /\ InList(c.scanlines, m.line)
             THEN Item(X, n + 1, <<"scanline", m.frame, m.line>>, m.frame, m.line,
                       Cardinality(InsnsOf(ms, m.frame, n)))
             ELSE <<>>
<1>1. ms2[n + 1] = m
  BY DEF More
<1>2. Cardinality(InsnsOf(ms2, m.frame, n + 1)) = Cardinality(InsnsOf(ms, m.frame, n))
  BY NumbersGrow
<1> QED  BY <1>1, <1>2 DEF PromisedIn, LinePromised, PromisedItem

LEMMA FramePromise ==
  ASSUME NEW ms, NEW ms2, NEW m, NEW n, More(ms, ms2, m, n), NEW c, NEW X, m.is = "frame"
  PROVE  PromisedIn(ms2, c, X, n + 1)
           = IF InList(c.dumpFrames, m.frame)
             THEN Item(X, n + 1, <<"frame", m.frame>>, m.frame, m.line,
                       Cardinality(InsnsOf(ms, m.frame, n)))
             ELSE <<>>
<1>1. ms2[n + 1] = m
  BY DEF More
<1>2. Cardinality(InsnsOf(ms2, m.frame, n + 1)) = Cardinality(InsnsOf(ms, m.frame, n))
  BY NumbersGrow
<1> QED  BY <1>1, <1>2 DEF PromisedIn, FramePromised, PromisedItem

InsnGives(c, X, k, m, h, t, a) ==
  (IF Watched(c, m) /\ h <= c.pcMax THEN Item(X, k, <<"pc", m.pc, h>>, m.frame, m.line, a) ELSE <<>>)
  \o (IF InList(c.dumpInsns, t) THEN Item(X, k, <<"insn", t>>, m.frame, m.line, a) ELSE <<>>)

LEMMA InsnPromise ==
  ASSUME NEW ms, NEW ms2, NEW m, NEW n, More(ms, ms2, m, n), NEW c, NEW X, m.is = "insn",
         NEW h, h = Cardinality(HitsIn(ms, c, m.pc, n)) + 1,
         NEW t, t = AsInt(InsnNumber(ms, n) + 1),
         NEW a, a = Cardinality(InsnsOf(ms, m.frame, n)) + 1,
         NEW k, k = n + 1
  PROVE  PromisedIn(ms2, c, X, k) = InsnGives(c, X, k, m, h, t, a)
<1>1. ms2[k] = m
  BY DEF More
<1>2. Cardinality(InsnsOf(ms2, m.frame, k)) = a
  BY NumbersGrow
<1>3. AsInt(InsnNumber(ms2, k)) = t
  BY NumbersGrow
<1>4. Watched(c, m) => HitNumber(ms2, c, k) = h
  <2>1. Watched(c, m) => Cardinality(HitsIn(ms2, c, m.pc, k)) = h
    BY NumbersGrow
  <2> QED  BY <1>1, <2>1 DEF HitNumber
<1>5. ArmedIn(ms2, c, k) <=> Watched(c, m)
  BY <1>1 DEF ArmedIn, Watched
<1>6. PcPromised(ms2, c, X, k)
        = IF Watched(c, m) /\ h <= c.pcMax THEN Item(X, k, <<"pc", m.pc, h>>, m.frame, m.line, a) ELSE <<>>
  BY <1>1, <1>2, <1>4, <1>5 DEF PcPromised, PromisedItem
<1>7. NoPromised(ms2, c, X, k)
        = IF InList(c.dumpInsns, t) THEN Item(X, k, <<"insn", t>>, m.frame, m.line, a) ELSE <<>>
  BY <1>1, <1>2, <1>3 DEF NoPromised, PromisedItem
<1>8. PromisedIn(ms2, c, X, k) = PcPromised(ms2, c, X, k) \o NoPromised(ms2, c, X, k)
  BY <1>1 DEF PromisedIn
<1> QED  BY <1>6, <1>7, <1>8 DEF InsnGives

LEMMA EndLineFollowing ==
  ASSUME Types, RowsDrawn, Books, Following, EndLine
  PROVE  Following'
<1>1. /\ phase = "after" /\ frame' = frame
      /\ (phase' = "before" /\ line' = line + 1) \/ phase' = "end"
      /\ moments' = Append(moments, [is |-> "line", frame |-> frame, line |-> line])
      /\ UNCHANGED <<insnTotal, frameInsn, hits, config>>
  BY DEF EndLine
<1>2. frame \in Nat \ {0} /\ line \in Screen /\ line \in Rows /\ line \in Int /\ frameInsn \in Nat
  BY <1>1, Sizes DEF Types, TypeOK, InFrame, Screen, Rows
<1>3. PICK m : m = [is |-> "line", frame |-> frame, line |-> line]
  OBVIOUS
<1>4. PICK f, l : f = frame /\ l = line
  OBVIOUS
<1>5. m \in Moment /\ m.is = "line" /\ m.frame = f /\ m.line = l /\ f \in 1..frame
  BY <1>2, <1>3, <1>4 DEF Moment
<1>6. PICK W : W = IF WantLine THEN Item(lost', Now, <<"scanline", f, l>>, f, l, frameInsn) ELSE <<>>
  OBVIOUS
<1>7. Booked(W)
  BY <1>4, <1>6, LineBooked
<1>8. W \in Seq(EntrySet)
  <2>1. <<"scanline", f, l>> \in Names
    BY <1>2, <1>4 DEF Names
  <2>2. Item(lost', Now, <<"scanline", f, l>>, f, l, frameInsn) \in Seq(EntrySet)
    BY <1>2, <1>4, <2>1, ItemTyped
  <2> QED  BY <1>6, <2>2
<1>9. PromisedIn(moments', config, lost', Len(moments) + 1) = W
  <2>1. PICK ms, X : ms = moments' /\ X = lost'
    OBVIOUS
  <2>2. More(moments, ms, m, Len(moments))
    BY <1>1, <1>3, <1>5, <2>1, AppendMore DEF Types
  <2>3. PromisedIn(ms, config, X, Len(moments) + 1)
          = IF InList(config.scanFrames, m.frame) /\ InList(config.scanlines, m.line)
            THEN Item(X, Len(moments) + 1, <<"scanline", m.frame, m.line>>, m.frame, m.line,
                      Cardinality(InsnsOf(moments, m.frame, Len(moments))))
            ELSE <<>>
    BY <1>5, <2>2, LinePromise
  <2>4. frameInsn = Cardinality(InsnsOf(moments, f, Len(moments)))
    BY <1>4 DEF Following
  <2> QED  BY <1>4, <1>5, <1>6, <2>1, <2>3, <2>4 DEF WantLine, Now
<1>10. /\ insnTotal' = IF m.is = "insn" THEN insnTotal + 1 ELSE insnTotal
       /\ frameInsn' = IF m.is = "insn" THEN frameInsn + 1 ELSE frameInsn
       /\ m.is # "frame"
  BY <1>1, <1>5
<1>11. \A pc \in config.targets :
         hits'[pc] = IF m.is = "insn" /\ Watched(config, m) /\ m.pc = pc /\ hits[pc] < config.pcMax
                     THEN hits[pc] + 1 ELSE hits[pc]
  BY <1>1, <1>5
<1>12. moments' = Append(moments, m)
  BY <1>1, <1>3
<1> QED  BY <1>1, <1>4, <1>5, <1>7, <1>8, <1>9, <1>10, <1>11, <1>12, EndLineForward,
            MomentFollowing

LEMMA EndFrameFollowing ==
  ASSUME Types, RowsDrawn, Books, Following, EndFrame
  PROVE  Following'
<1>1. /\ phase = "end" /\ phase' = "idle" /\ frame' = frame
      /\ moments' = Append(moments, [is |-> "frame", frame |-> frame, line |-> -1])
      /\ UNCHANGED <<insnTotal, frameInsn, hits, config>>
  BY DEF EndFrame
<1>2. frame \in Nat \ {0} /\ line = -1 /\ -1 \in Screen /\ frameInsn \in Nat
  BY <1>1, Sizes DEF Types, TypeOK, InFrame, Screen, Rows
<1>3. PICK m : m = [is |-> "frame", frame |-> frame, line |-> -1]
  OBVIOUS
<1>4. PICK f, l : f = frame /\ l = -1
  OBVIOUS
<1>5. m \in Moment /\ m.is = "frame" /\ m.frame = f /\ m.line = l /\ f \in 1..frame
  BY <1>2, <1>3, <1>4 DEF Moment
<1>6. PICK W : W = IF WantFrame THEN Item(lost', Now, <<"frame", f>>, f, l, frameInsn) ELSE <<>>
  OBVIOUS
<1>7. Booked(W)
  BY <1>2, <1>4, <1>6, FrameBooked
<1>8. W \in Seq(EntrySet)
  <2>1. <<"frame", f>> \in Names
    BY <1>2, <1>4 DEF Names
  <2>2. Item(lost', Now, <<"frame", f>>, f, l, frameInsn) \in Seq(EntrySet)
    BY <1>2, <1>4, <2>1, ItemTyped
  <2> QED  BY <1>6, <2>2
<1>9. PromisedIn(moments', config, lost', Len(moments) + 1) = W
  <2>1. PICK ms, X : ms = moments' /\ X = lost'
    OBVIOUS
  <2>2. More(moments, ms, m, Len(moments))
    BY <1>1, <1>3, <1>5, <2>1, AppendMore DEF Types
  <2>3. PromisedIn(ms, config, X, Len(moments) + 1)
          = IF InList(config.dumpFrames, m.frame)
            THEN Item(X, Len(moments) + 1, <<"frame", m.frame>>, m.frame, m.line,
                      Cardinality(InsnsOf(moments, m.frame, Len(moments))))
            ELSE <<>>
    BY <1>5, <2>2, FramePromise
  <2>4. frameInsn = Cardinality(InsnsOf(moments, f, Len(moments)))
    BY <1>4 DEF Following
  <2> QED  BY <1>4, <1>5, <1>6, <2>1, <2>3, <2>4 DEF WantFrame, Now
<1>10. /\ insnTotal' = IF m.is = "insn" THEN insnTotal + 1 ELSE insnTotal
       /\ frameInsn' = IF m.is = "insn" THEN frameInsn + 1 ELSE frameInsn
       /\ m.is # "line"
  BY <1>1, <1>5
<1>11. \A pc \in config.targets :
         hits'[pc] = IF m.is = "insn" /\ Watched(config, m) /\ m.pc = pc /\ hits[pc] < config.pcMax
                     THEN hits[pc] + 1 ELSE hits[pc]
  BY <1>1, <1>5
<1>12. moments' = Append(moments, m)
  BY <1>1, <1>3
<1> QED  BY <1>1, <1>4, <1>5, <1>7, <1>8, <1>9, <1>10, <1>11, <1>12, EndFrameForward,
            MomentFollowing

LEMMA InstructionFollowing ==
  ASSUME Types, RowsDrawn, Books, Following, NEW pc \in config.targets, Instruction(pc)
  PROVE  Following'
<1>1. /\ Running /\ insnTotal < config.room /\ hits' = HitsWith(pc) /\ frame' = frame
      /\ insnTotal' = insnTotal + 1 /\ frameInsn' = frameInsn + 1 /\ config' = config
      /\ moments' = Append(moments, [is |-> "insn", pc |-> pc, frame |-> frame, line |-> line])
  BY DEF Instruction, machine
<1>2. frame \in Nat \ {0} /\ line \in Screen /\ frameInsn \in Nat /\ insnTotal \in Nat
      /\ config.pcMax \in Nat /\ config.room \in Nat
  BY <1>1, Sizes DEF Types, InFrame, Running
<1>3. PICK m : m = [is |-> "insn", pc |-> pc, frame |-> frame, line |-> line]
  OBVIOUS
<1>4. PICK f, l : f = frame /\ l = line
  OBVIOUS
<1>5. /\ m \in Moment /\ m.is = "insn" /\ m.frame = f /\ m.line = l /\ m.pc = pc
      /\ f \in 1..frame
  BY <1>2, <1>3, <1>4 DEF Moment
<1>6. moments' = Append(moments, m)
  BY <1>1, <1>3
<1>7. PICK ms, X : ms = moments' /\ X = lost'
  OBVIOUS
<1>8. More(moments, ms, m, Len(moments))
  BY <1>5, <1>6, <1>7, AppendMore DEF Types
<1>9. PICK h : h = Cardinality(HitsIn(moments, config, pc, Len(moments))) + 1
  OBVIOUS
<1>10. PICK t : t = AsInt(insnTotal + 1)
  OBVIOUS
<1>11. PICK a : a = frameInsn + 1
  OBVIOUS
<1>12. h \in Nat /\ h - 1 \in Nat /\ hits[pc] = Capped(h - 1, config.pcMax)
  <2>1. \A c, p : Cardinality(HitsIn(moments, c, p, Len(moments))) \in Nat
    BY <1>8, NumbersGrow
  <2>2. hits[pc] = Capped(Cardinality(HitsIn(moments, config, pc, Len(moments))), config.pcMax)
    BY DEF Following
  <2> DEFINE b == Cardinality(HitsIn(moments, config, pc, Len(moments)))
  <2>3. b \in Nat /\ h = b + 1 /\ hits[pc] = Capped(b, config.pcMax)
    BY <1>9, <2>1, <2>2
  <2> HIDE DEF b
  <2>4. h \in Nat /\ h - 1 = b
    BY <2>3
  <2> QED  BY <2>3, <2>4
<1>13. WantPc(pc) <=> Watched(config, m) /\ h <= config.pcMax
  <2>1. hits[pc] < config.pcMax <=> h <= config.pcMax
    BY <1>2, <1>12 DEF Capped
  <2> QED  BY <1>4, <1>5, <2>1 DEF WantPc, BelowCap, Watched
<1>14. WantPc(pc) => hits[pc] + 1 = h
  BY <1>2, <1>12, <1>13 DEF Capped
<1>15. (WantInsn <=> InList(config.dumpInsns, t)) /\ (WantInsn => t \in Nat)
  <2>1. insnTotal + 1 \in Nat
    BY <1>2
  <2> QED  BY <1>10, <2>1, NumberListed DEF WantInsn
<1>16. PICK W : W = (IF WantPc(pc) THEN Item(lost', Now, <<"pc", pc, h>>, f, l, a) ELSE <<>>)
                    \o (IF WantInsn THEN Item(lost', Now, <<"insn", t>>, f, l, a) ELSE <<>>)
  OBVIOUS
<1>17. Booked(W)
  <2>1. W = (IF WantPc(pc) THEN Item(lost', Now, <<"pc", pc, hits[pc] + 1>>, frame, line, frameInsn + 1)
             ELSE <<>>)
            \o (IF WantInsn
                THEN Item(lost', Now, <<"insn", AsInt(insnTotal + 1)>>, frame, line, frameInsn + 1)
                ELSE <<>>)
    BY <1>4, <1>10, <1>11, <1>14, <1>16
  <2> QED  BY <2>1, InsnBooked
<1>18. W \in Seq(EntrySet)
  <2>1. <<"pc", pc, h>> \in Names /\ (WantInsn => <<"insn", t>> \in Names)
    BY <1>12, <1>15 DEF Names
  <2>2. f \in Nat /\ l \in Screen /\ a \in Nat
    BY <1>2, <1>4, <1>11
  <2>3. /\ Item(lost', Now, <<"pc", pc, h>>, f, l, a) \in Seq(EntrySet)
        /\ WantInsn => Item(lost', Now, <<"insn", t>>, f, l, a) \in Seq(EntrySet)
    BY <2>1, <2>2, ItemTyped
  <2>4. <<>> \in Seq(EntrySet)
    OBVIOUS
  <2> DEFINE u == IF WantPc(pc) THEN Item(lost', Now, <<"pc", pc, h>>, f, l, a) ELSE <<>>
             v == IF WantInsn THEN Item(lost', Now, <<"insn", t>>, f, l, a) ELSE <<>>
  <2>5. W = u \o v /\ u \in Seq(EntrySet) /\ v \in Seq(EntrySet)
    BY <1>16, <2>3, <2>4
  <2> HIDE DEF u, v
  <2> QED  BY <2>5
<1>19. PromisedIn(moments', config, lost', Len(moments) + 1) = W
  <2>1. t = AsInt(InsnNumber(moments, Len(moments)) + 1)
    BY <1>10 DEF Following
  <2>2. a = Cardinality(InsnsOf(moments, m.frame, Len(moments))) + 1
    BY <1>4, <1>5, <1>11 DEF Following
  <2>3. h = Cardinality(HitsIn(moments, config, m.pc, Len(moments))) + 1
    BY <1>5, <1>9
  <2>4. PICK k : k = Len(moments) + 1
    OBVIOUS
  <2>5. PromisedIn(ms, config, X, k) = InsnGives(config, X, k, m, h, t, a)
    BY <1>5, <1>8, <2>1, <2>2, <2>3, <2>4, InsnPromise
  <2>6. InsnGives(config, X, k, m, h, t, a) = W
    BY <1>5, <1>7, <1>13, <1>15, <1>16, <2>4 DEF InsnGives, Now
  <2> QED  BY <1>7, <2>4, <2>5, <2>6
<1>20. /\ insnTotal' = IF m.is = "insn" THEN insnTotal + 1 ELSE insnTotal
       /\ frameInsn' = IF m.is = "insn" THEN frameInsn + 1 ELSE frameInsn
       /\ m.is # "frame" /\ m.is # "line"
  BY <1>1, <1>5
<1>21. ASSUME NEW p \in config.targets
       PROVE  hits'[p] = IF m.is = "insn" /\ Watched(config, m) /\ m.pc = p /\ hits[p] < config.pcMax
                         THEN hits[p] + 1 ELSE hits[p]
  <2>1. WantPc(pc) <=> Watched(config, m) /\ hits[pc] < config.pcMax
    BY <1>4, <1>5 DEF WantPc, BelowCap, Watched
  <2>2. hits'[pc] = IF WantPc(pc) THEN hits[pc] + 1 ELSE hits[pc]
    BY <1>1, HitsGrow
  <2>3. p # pc => hits'[p] = hits[p]
    BY <1>1, HitsGrow
  <2> QED  BY <1>5, <2>1, <2>2, <2>3
<1> QED  BY <1>1, <1>4, <1>5, <1>6, <1>17, <1>18, <1>19, <1>20, <1>21, InstructionForward,
            MomentFollowing

LEMMA NothingLost == ASSUME UNCHANGED lost PROVE NewlyLost
BY DEF NewlyLost

LEMMA BeginFrameFollowing == ASSUME Types, Following, BeginFrame PROVE Following'
<1>1. /\ frame' = frame + 1 /\ frameInsn' = 0
      /\ UNCHANGED <<hits, insnTotal, moments, listing>>
      /\ lost' = lost \/ (lost = {} /\ lost' = {<<0, <<"trace", frame + 1>>>>})
  BY DEF BeginFrame, RecordFrame
<1>2. <<0, <<"trace", frame + 1>>>>[1] = 0 /\ 0 \notin 1..Len(moments)
  OBVIOUS
<1>3. NewlyLost
  BY <1>1, <1>2 DEF NewlyLost
<1> QED  BY <1>1, <1>3, BeginFrameForward, QuietFollowing

LEMMA FollowingStep == ASSUME Types, RowsDrawn, Books, Following, Next PROVE Following'
<1>1. CASE Open
  <2>1. UNCHANGED <<hits, insnTotal, moments, listing, frame, frameInsn, lost>>
    BY <1>1 DEF Open, recorder, history
  <2> QED  BY <1>1, <2>1, OpenForward, NothingLost, QuietFollowing
<1>2. CASE BeginFrame
  BY <1>2, BeginFrameFollowing
<1>3. CASE EndDead
  <2>1. UNCHANGED <<hits, insnTotal, moments, listing, frame, frameInsn, lost>>
    BY <1>3 DEF EndDead, recorder, history
  <2> QED  BY <1>3, <2>1, EndDeadForward, NothingLost, QuietFollowing
<1>4. CASE BeginLine
  <2>1. UNCHANGED <<hits, insnTotal, moments, listing, frame, frameInsn, lost>>
    BY <1>4 DEF BeginLine, history
  <2> QED  BY <1>4, <2>1, BeginLineForward, NothingLost, QuietFollowing
<1>5. CASE FinishRow
  <2>1. UNCHANGED <<hits, insnTotal, moments, listing, frame, frameInsn, lost>>
    BY <1>5 DEF FinishRow, recorder, history
  <2> QED  BY <1>5, <2>1, FinishRowForward, NothingLost, QuietFollowing
<1>6. CASE EndLine
  BY <1>6, EndLineFollowing
<1>7. CASE EndFrame
  BY <1>7, EndFrameFollowing
<1>8. CASE Close
  <2>1. UNCHANGED <<hits, insnTotal, moments, listing, frame, frameInsn, lost>>
    BY <1>8 DEF Close, history
  <2> QED  BY <1>8, <2>1, CloseForward, NothingLost, QuietFollowing
<1>9. CASE \E pc \in config.targets : Instruction(pc)
  BY <1>9, InstructionFollowing
<1> QED  BY <1>1, <1>2, <1>3, <1>4, <1>5, <1>6, <1>7, <1>8, <1>9 DEF Next

LEMMA FollowingStutter == ASSUME Types, Following, UNCHANGED vars PROVE Following'
<1>1. UNCHANGED <<hits, insnTotal, moments, listing, frame, frameInsn, lost, line, phase, config>>
  BY DEF vars, machine, recorder, history
<1>2. Forward
  BY <1>1, LineInt, QuietForward
<1> QED  BY <1>1, <1>2, NothingLost, QuietFollowing

LEMMA InitFollowing == Init => Following
<1> SUFFICES ASSUME Init PROVE Following
  OBVIOUS
<1>1. /\ moments = <<>> /\ listing = <<>> /\ insnTotal = 0 /\ frameInsn = 0
      /\ config \in Configs /\ hits = [pc \in config.targets |-> 0]
  BY DEF Init
<1>2. Len(moments) = 0 /\ DOMAIN moments = {} /\ Len(moments) \in Nat
  BY <1>1
<1>3. MomentsFramed
  BY <1>2 DEF MomentsFramed
<1>4. \A ms : InsnsIn(ms, 0) = {} /\ (\A f : InsnsOf(ms, f, 0) = {})
              /\ (\A c, pc : HitsIn(ms, c, pc, 0) = {})
  BY DEF InsnsIn, InsnsOf, HitsIn
<1>5. Cardinality({}) = 0
  BY FS_EmptySet
<1>6. insnTotal = InsnNumber(moments, Len(moments))
  BY <1>1, <1>2, <1>4, <1>5 DEF InsnNumber
<1>7. frameInsn = Cardinality(InsnsOf(moments, frame, Len(moments)))
  BY <1>1, <1>2, <1>4, <1>5
<1>8. ASSUME NEW pc \in config.targets
      PROVE  hits[pc] = Capped(Cardinality(HitsIn(moments, config, pc, Len(moments))), config.pcMax)
  <2>1. config.pcMax \in Nat
    BY <1>1, ConfigsAssumption
  <2>2. HitsIn(moments, config, pc, Len(moments)) = {}
    BY <1>2, <1>4
  <2>3. hits[pc] = 0
    BY <1>1
  <2>4. Capped(0, config.pcMax) = 0
    BY <2>1 DEF Capped
  <2> QED  BY <1>5, <2>2, <2>3, <2>4
<1>9. Entries(listing) = FlattenSeq(PromisesIn(moments, config, lost))
  <2>1. PromisesIn(moments, config, lost) = <<>>
    BY <1>2 DEF PromisesIn
  <2>2. FlattenSeq(<<>>) = <<>>
    <3>1. Len(<<>>) = 0
      OBVIOUS
    <3> QED  BY <3>1, FlattenIs
  <2>3. Entries(<<>>) = <<>>
    BY DEF Entries
  <2> QED  BY <1>1, <2>1, <2>2, <2>3
<1> QED  BY <1>3, <1>6, <1>7, <1>8, <1>9 DEF Following

LEMMA FollowingShows == Types /\ Following => ListingAsPromised
<1> SUFFICES ASSUME Types, Following PROVE ListingAsPromised
  OBVIOUS
<1>1. DOMAIN moments = 1..Len(moments)
  BY DEF Types
<1>2. [i \in DOMAIN moments |-> Promised(i)] = PromisesIn(moments, config, lost)
  BY <1>1, PromisedIs DEF PromisesIn
<1> QED  BY <1>2 DEF Following, Entries, ListingAsPromised

-----------------------------------------------------------------------------
(* The traces.                                                             *)

\* What a moment adds to the trace of frame f.
Executed(m, f) == IF m.is = "insn" /\ m.frame = f THEN <<m.pc>> ELSE <<>>

TraceIn(ms, f) == [i \in 1..Len(ms) |-> Executed(ms[i], f)]

TraceListed(f) == f \in 1..frame /\ InList(config.traceFrames, f) /\ <<0, <<"trace", f>>>> \notin lost

\* The trace of the frame is open while the frame runs, and each trace is what the
\* moments give.
Tracing ==
  /\ trace = IF InFrame /\ frame \in DOMAIN traces THEN frame ELSE 0
  /\ \A f : f \in DOMAIN traces <=> TraceListed(f)
  /\ \A f \in DOMAIN traces :
       traces[f] \in Seq(config.targets) /\ traces[f] = FlattenSeq(TraceIn(moments, f))

LEMMA TraceMore ==
  ASSUME NEW ms, NEW ms2, NEW m, NEW n, More(ms, ms2, m, n), NEW f
  PROVE  FlattenSeq(TraceIn(ms2, f)) = FlattenSeq(TraceIn(ms, f)) \o Executed(m, f)
<1> DEFINE p == TraceIn(ms, f)
           q == TraceIn(ms2, f)
           S == {m.pc}
<1>1. /\ n \in Nat /\ Len(ms) = n /\ Len(ms2) = n + 1 /\ ms2[n + 1] = m
      /\ \A i \in 1..n : ms2[i] = ms[i]
  BY DEF More, Extends
<1>2. n + 1 \in 1..(n + 1) /\ 1..n \subseteq 1..(n + 1) /\ n + 1 \in Nat
  BY <1>1
<1>3. p = [i \in 1..n |-> Executed(ms[i], f)] /\ q = [i \in 1..(n + 1) |-> Executed(ms2[i], f)]
  BY <1>1 DEF TraceIn
<1>4. Extends(q, p, n) /\ q[n + 1] = Executed(m, f)
  BY <1>1, <1>2, <1>3 DEF Extends
<1>5. Len(p) = n /\ (n = 0 => p = <<>>)
  BY <1>1, <1>3
<1>6. Len(q) = n + 1
  BY <1>2, <1>3
<1>7. q[n + 1] \in Seq(S)
  <2>1. <<>> \in Seq(S) /\ <<m.pc>> \in Seq(S)
    BY ShortTyped
  <2>2. Executed(m, f) \in {<<>>, <<m.pc>>}
    BY DEF Executed
  <2> HIDE DEF S
  <2> QED  BY <1>4, <2>1, <2>2
<1> HIDE DEF p, q, S
<1>8. FlattenSeq(q) = FlattenSeq(p) \o q[n + 1]
  BY <1>1, <1>4, <1>5, <1>6, <1>7, FlattenMore
<1> QED  BY <1>4, <1>8 DEF p, q

\* No dump is lost where traces are.
LEMMA TracesListed ==
  ASSUME Types, lost \subseteq lost', lost' \subseteq lost \cup LostNow, UNCHANGED <<frame, config>>, NEW f
  PROVE  TraceListed(f)' <=> TraceListed(f)
<1>1. <<0, <<"trace", f>>>> \notin LostNow
  BY NowIs DEF LostNow
<1> QED  BY <1>1 DEF TraceListed

LEMMA MomentTracing ==
  ASSUME Types, Tracing, NEW m \in Moment, moments' = Append(moments, m),
         UNCHANGED <<frame, config>>, lost \subseteq lost', lost' \subseteq lost \cup LostNow,
         DOMAIN traces' = DOMAIN traces,
         \A f \in DOMAIN traces : traces'[f] = traces[f] \o Executed(m, f),
         trace' = IF InFrame' /\ frame \in DOMAIN traces THEN frame ELSE 0
  PROVE  Tracing'
<1>1. PICK ms : ms = moments'
  OBVIOUS
<1>2. More(moments, ms, m, Len(moments))
  BY <1>1, AppendMore DEF Types
<1>3. ASSUME NEW f
      PROVE  f \in DOMAIN traces' <=> TraceListed(f)'
  BY TracesListed DEF Tracing
<1>4. ASSUME NEW f \in DOMAIN traces'
      PROVE  traces'[f] \in Seq(config.targets) /\ traces'[f] = FlattenSeq(TraceIn(moments', f))
  <2>1. /\ traces[f] \in Seq(config.targets) /\ traces[f] = FlattenSeq(TraceIn(moments, f))
        /\ traces'[f] = traces[f] \o Executed(m, f)
    BY DEF Tracing
  <2>2. FlattenSeq(TraceIn(ms, f)) = FlattenSeq(TraceIn(moments, f)) \o Executed(m, f)
    BY <1>2, TraceMore
  <2>3. Executed(m, f) \in Seq(config.targets)
    <3>1. m.is = "insn" => m.pc \in config.targets
      BY DEF Moment
    <3>2. <<>> \in Seq(config.targets) /\ \A x \in config.targets : <<x>> \in Seq(config.targets)
      BY ShortTyped
    <3>3. CASE m.is = "insn"
      <4>1. Executed(m, f) \in {<<>>, <<m.pc>>}
        BY DEF Executed
      <4> QED  BY <3>1, <3>2, <3>3, <4>1
    <3>4. CASE m.is # "insn"
      <4>1. Executed(m, f) = <<>>
        BY <3>4 DEF Executed
      <4> QED  BY <3>2, <4>1
    <3> QED  BY <3>3, <3>4
  <2>4. traces[f] \o Executed(m, f) \in Seq(config.targets)
    BY <2>1, <2>3
  <2> QED  BY <1>1, <2>1, <2>2, <2>4
<1> QED  BY <1>3, <1>4 DEF Tracing

LEMMA QuietTracing ==
  ASSUME Types, Tracing, UNCHANGED <<frame, config, moments, traces, lost>>,
         trace' = IF InFrame' /\ frame \in DOMAIN traces THEN frame ELSE 0
  PROVE  Tracing'
<1>1. \A f : TraceListed(f)' <=> TraceListed(f)
  BY TracesListed
<1> QED  BY <1>1 DEF Tracing

LEMMA InstructionTracing ==
  ASSUME Types, RowsDrawn, Books, Tracing, NEW pc \in config.targets, Instruction(pc)
  PROVE  Tracing'
<1>1. /\ Running /\ UNCHANGED <<phase, frame, config, trace>>
      /\ traces' = IF trace = 0 THEN traces ELSE [traces EXCEPT ![trace] = Append(@, pc)]
      /\ moments' = Append(moments, [is |-> "insn", pc |-> pc, frame |-> frame, line |-> line])
  BY DEF Instruction, machine
<1>2. frame \in Nat \ {0} /\ line \in Screen /\ InFrame
  BY <1>1, Sizes DEF Types, InFrame, Running
<1>3. PICK m : m = [is |-> "insn", pc |-> pc, frame |-> frame, line |-> line]
  OBVIOUS
<1>4. m \in Moment /\ m.is = "insn" /\ m.frame = frame /\ m.pc = pc
  BY <1>2, <1>3 DEF Moment
<1>5. lost \subseteq lost' /\ lost' \subseteq lost \cup LostNow
  BY InsnBooked DEF Booked, NewlyLost
<1>6. DOMAIN traces' = DOMAIN traces
  BY <1>1
<1>7. trace = IF frame \in DOMAIN traces THEN frame ELSE 0
  BY <1>2 DEF Tracing
<1>8. ASSUME NEW f \in DOMAIN traces
      PROVE  traces'[f] = traces[f] \o Executed(m, f)
  <2>1. traces[f] \in Seq(config.targets)
    BY DEF Tracing
  <2>2. CASE f = frame
    <3>1. traces'[f] = Append(traces[f], pc)
      BY <1>1, <1>2, <1>7, <2>2
    <3>2. Executed(m, f) = <<pc>>
      BY <1>4, <2>2 DEF Executed
    <3> QED  BY <2>1, <3>1, <3>2
  <2>3. CASE f # frame
    <3>1. traces'[f] = traces[f]
      BY <1>1, <1>2, <1>7, <2>3
    <3>2. Executed(m, f) = <<>>
      BY <1>4, <2>3 DEF Executed
    <3> QED  BY <2>1, <3>1, <3>2
  <2> QED  BY <2>2, <2>3
<1>9. InFrame'
  BY <1>1, <1>2 DEF InFrame
<1>10. moments' = Append(moments, m)
  BY <1>1, <1>3
<1> QED  BY <1>1, <1>4, <1>5, <1>6, <1>7, <1>8, <1>9, <1>10, MomentTracing

LEMMA NoneExecuted ==
  ASSUME Tracing, NEW m, m.is # "insn", NEW f \in DOMAIN traces, traces' = traces
  PROVE  traces'[f] = traces[f] \o Executed(m, f)
<1>1. traces[f] \in Seq(config.targets)
  BY DEF Tracing
<1>2. Executed(m, f) = <<>>
  BY DEF Executed
<1> QED  BY <1>1, <1>2

LEMMA EndLineTracing == ASSUME Types, RowsDrawn, Books, Tracing, EndLine PROVE Tracing'
<1>1. /\ phase = "after" /\ phase' \in {"before", "end"} /\ UNCHANGED <<frame, config, trace, traces>>
      /\ moments' = Append(moments, [is |-> "line", frame |-> frame, line |-> line])
  BY DEF EndLine
<1>2. frame \in Nat /\ line \in Screen
  BY Sizes
<1>3. PICK m : m = [is |-> "line", frame |-> frame, line |-> line]
  OBVIOUS
<1>4. m \in Moment /\ m.is # "insn" /\ moments' = Append(moments, m)
  BY <1>1, <1>2, <1>3 DEF Moment
<1>5. lost \subseteq lost' /\ lost' \subseteq lost \cup LostNow
  BY LineBooked DEF Booked, NewlyLost
<1>6. InFrame /\ InFrame'
  BY <1>1 DEF InFrame
<1>7. trace' = IF InFrame' /\ frame \in DOMAIN traces THEN frame ELSE 0
  BY <1>1, <1>6 DEF Tracing
<1>8. \A f \in DOMAIN traces : traces'[f] = traces[f] \o Executed(m, f)
  BY <1>1, <1>4, NoneExecuted
<1> QED  BY <1>1, <1>4, <1>5, <1>7, <1>8, MomentTracing

LEMMA EndFrameTracing == ASSUME Types, RowsDrawn, Books, Tracing, EndFrame PROVE Tracing'
<1>1. /\ phase = "end" /\ phase' = "idle" /\ trace' = 0 /\ UNCHANGED <<frame, config, traces>>
      /\ moments' = Append(moments, [is |-> "frame", frame |-> frame, line |-> -1])
  BY DEF EndFrame, TraceClosed
<1>2. frame \in Nat
  BY Sizes
<1>3. PICK m : m = [is |-> "frame", frame |-> frame, line |-> -1]
  OBVIOUS
<1>4. m \in Moment /\ m.is # "insn" /\ moments' = Append(moments, m)
  BY <1>1, <1>2, <1>3 DEF Moment, Screen
<1>5. lost \subseteq lost' /\ lost' \subseteq lost \cup LostNow
  BY FrameBooked DEF Booked, NewlyLost
<1>6. ~InFrame'
  BY <1>1 DEF InFrame
<1>7. trace' = IF InFrame' /\ frame \in DOMAIN traces THEN frame ELSE 0
  BY <1>1, <1>6
<1>8. \A f \in DOMAIN traces : traces'[f] = traces[f] \o Executed(m, f)
  BY <1>1, <1>4, NoneExecuted
<1> QED  BY <1>1, <1>4, <1>5, <1>7, <1>8, MomentTracing

\* A frame begins: its trace, if it has one, is empty.
LEMMA BeginFrameTracing ==
  ASSUME Types, MomentsFramed, Tracing, BeginFrame
  PROVE  Tracing'
<1>1. /\ phase = "idle" /\ phase' \in {"dead", "blank"} /\ frame' = frame + 1
      /\ UNCHANGED <<config, moments>>
      /\ IF ~InList(config.traceFrames, frame + 1)
         THEN UNCHANGED <<trace, traces, lost>>
         ELSE \/ /\ trace' = frame + 1
                 /\ traces' = [f \in DOMAIN traces \cup {frame + 1} |->
                                 IF f = frame + 1 THEN <<>> ELSE traces[f]]
                 /\ lost' = lost
              \/ /\ lost = {} /\ lost' = {<<0, <<"trace", frame + 1>>>>}
                 /\ trace' = 0 /\ traces' = traces
  BY DEF BeginFrame, RecordFrame
<1>2. PICK k \in Nat \ {0} : k = frame + 1
  BY Sizes
<1>3. /\ frame \in Nat /\ 1..k = (1..frame) \cup {k} /\ k \notin 1..frame
  BY <1>2, Sizes
<1>4. <<0, <<"trace", k>>>> \notin lost
  <2>1. 0 \notin 1..Len(moments)
    OBVIOUS
  <2>2. <<"trace", k>> \notin {<<"trace", f>> : f \in 1..frame}
    BY <1>3
  <2> QED  BY <2>1, <2>2 DEF Types, LostKnown
<1>5. k \notin DOMAIN traces /\ trace = 0 /\ InFrame'
  BY <1>1, <1>3 DEF Tracing, TraceListed, InFrame
<1>6. FlattenSeq(TraceIn(moments, k)) = <<>>
  <2> DEFINE p == TraceIn(moments, k)
             n == Len(moments)
  <2>1. n \in Nat
    BY DEF Types
  <2>2. \A i \in 1..n : Executed(moments[i], k) = <<>>
    <3> SUFFICES ASSUME NEW i \in 1..n PROVE Executed(moments[i], k) = <<>>
      OBVIOUS
    <3>1. moments[i].frame \in 1..frame
      BY MomentIs
    <3> QED  BY <1>3, <3>1 DEF Executed
  <2>3. p = [i \in 1..n |-> Executed(moments[i], k)]
    BY DEF TraceIn
  <2>4. Len(p) = n /\ (n = 0 => p = <<>>) /\ \A i \in 1..n : p[i] = <<>>
    BY <2>1, <2>2, <2>3
  <2> HIDE DEF p, n
  <2> QED  BY <2>1, <2>4, FlattenNone DEF p
<1>7. PICK X : X = lost'
  OBVIOUS
<1>8. \A f : TraceListed(f)' <=> f \in 1..k /\ InList(config.traceFrames, f) /\ <<0, <<"trace", f>>>> \notin X
  BY <1>1, <1>2, <1>7 DEF TraceListed
<1>9. CASE ~InList(config.traceFrames, k)
  <2>1. \A f : TraceListed(f)' <=> TraceListed(f)
    BY <1>1, <1>2, <1>3, <1>7, <1>8, <1>9 DEF TraceListed
  <2> QED  BY <1>1, <1>2, <1>5, <1>9, <2>1 DEF Tracing
<1>10. CASE InList(config.traceFrames, k) /\ lost' = lost /\ trace' = k
            /\ traces' = [f \in DOMAIN traces \cup {k} |-> IF f = k THEN <<>> ELSE traces[f]]
  <2>1. \A f : TraceListed(f)' <=> TraceListed(f) \/ f = k
    <3>0. X = lost
      BY <1>7, <1>10
    <3> SUFFICES ASSUME NEW f PROVE TraceListed(f)' <=> TraceListed(f) \/ f = k
      OBVIOUS
    <3>1. TraceListed(f)' <=> f \in 1..k /\ InList(config.traceFrames, f) /\ <<0, <<"trace", f>>>> \notin lost
      BY <1>8, <3>0
    <3>2. CASE f = k
      <4>1. k \in 1..k
        BY <1>3
      <4> QED  BY <1>4, <1>10, <3>1, <3>2, <4>1
    <3>3. CASE f # k
      <4>1. f \in 1..k <=> f \in 1..frame
        BY <1>3, <3>3
      <4> QED  BY <3>1, <3>3, <4>1 DEF TraceListed
    <3> QED  BY <3>2, <3>3
  <2>2. \A f : f \in DOMAIN traces' <=> TraceListed(f)'
    BY <1>10, <2>1 DEF Tracing
  <2>3. trace' = IF InFrame' /\ frame' \in DOMAIN traces' THEN frame' ELSE 0
    BY <1>1, <1>2, <1>5, <1>10
  <2>4. ASSUME NEW f \in DOMAIN traces'
        PROVE  traces'[f] \in Seq(config.targets) /\ traces'[f] = FlattenSeq(TraceIn(moments, f))
    <3>1. CASE f = k
      BY <1>6, <1>10, <3>1
    <3>2. CASE f # k
      <4>1. f \in DOMAIN traces /\ traces'[f] = traces[f]
        BY <1>10, <3>2
      <4> QED  BY <4>1 DEF Tracing
    <3> QED  BY <3>1, <3>2
  <2> QED  BY <1>1, <2>2, <2>3, <2>4 DEF Tracing
<1>11. CASE lost = {} /\ lost' = {<<0, <<"trace", k>>>>} /\ trace' = 0 /\ traces' = traces
  <2>1. \A f : TraceListed(f)' <=> TraceListed(f)
    BY <1>2, <1>3, <1>7, <1>8, <1>11 DEF TraceListed
  <2> QED  BY <1>1, <1>2, <1>5, <1>11, <2>1 DEF Tracing
<1> QED  BY <1>1, <1>2, <1>9, <1>10, <1>11

LEMMA TracingStep ==
  ASSUME Types, RowsDrawn, Books, Following, Tracing, Next
  PROVE  Tracing'
<1>1. CASE Open
  <2>1. UNCHANGED <<frame, config, moments, traces, lost, trace>> /\ ~InFrame /\ ~InFrame'
    BY <1>1 DEF Open, recorder, history, InFrame
  <2> QED  BY <2>1, QuietTracing DEF Tracing
<1>2. CASE BeginFrame
  BY <1>2, BeginFrameTracing DEF Following
<1>3. CASE EndDead
  <2>1. UNCHANGED <<frame, config, moments, traces, lost, trace>> /\ InFrame /\ InFrame'
    BY <1>3 DEF EndDead, recorder, history, InFrame
  <2> QED  BY <2>1, QuietTracing DEF Tracing
<1>4. CASE BeginLine
  <2>1. UNCHANGED <<frame, config, moments, traces, lost, trace>> /\ InFrame /\ InFrame'
    BY <1>4 DEF BeginLine, history, InFrame
  <2> QED  BY <2>1, QuietTracing DEF Tracing
<1>5. CASE FinishRow
  <2>1. UNCHANGED <<frame, config, moments, traces, lost, trace>> /\ InFrame /\ InFrame'
    BY <1>5 DEF FinishRow, recorder, history, InFrame
  <2> QED  BY <2>1, QuietTracing DEF Tracing
<1>6. CASE EndLine
  BY <1>6, EndLineTracing
<1>7. CASE EndFrame
  BY <1>7, EndFrameTracing
<1>8. CASE Close
  <2>1. UNCHANGED <<frame, config, moments, traces, lost>> /\ trace' = 0 /\ ~InFrame'
    BY <1>8 DEF Close, history, InFrame
  <2> QED  BY <2>1, QuietTracing
<1>9. CASE \E pc \in config.targets : Instruction(pc)
  BY <1>9, InstructionTracing
<1> QED  BY <1>1, <1>2, <1>3, <1>4, <1>5, <1>6, <1>7, <1>8, <1>9 DEF Next

LEMMA TracingStutter == ASSUME Types, Tracing, UNCHANGED vars PROVE Tracing'
<1>1. UNCHANGED <<frame, config, moments, traces, lost, trace, phase>>
  BY DEF vars, machine, recorder, history
<1>2. InFrame' <=> InFrame
  BY <1>1 DEF InFrame
<1> QED  BY <1>1, <1>2, QuietTracing DEF Tracing

LEMMA InitTracing == Init => Tracing
<1> SUFFICES ASSUME Init PROVE Tracing
  OBVIOUS
<1>1. frame = 0 /\ trace = 0 /\ traces = <<>> /\ phase = "start"
  BY DEF Init
<1>2. DOMAIN traces = {} /\ \A f : ~TraceListed(f)
  BY <1>1 DEF TraceListed
<1> QED  BY <1>1, <1>2 DEF Tracing, InFrame

LEMMA TracingShows == Types /\ Tracing => TraceWhole
<1> SUFFICES ASSUME Types, Tracing PROVE TraceWhole
  OBVIOUS
<1>1. DOMAIN traces = {f \in 1..frame : InList(config.traceFrames, f) /\ <<0, <<"trace", f>>>> \notin lost}
  BY DEF Tracing, TraceListed
<1>2. DOMAIN moments = 1..Len(moments)
  BY DEF Types
<1>3. \A f : [i \in DOMAIN moments |-> Traced(i, f)] = TraceIn(moments, f)
  BY <1>2 DEF TraceIn, Traced, Executed
<1>4. \A f \in DOMAIN traces : traces[f] = FlattenSeq([i \in DOMAIN moments |-> Traced(i, f)])
  BY <1>3 DEF Tracing
<1> QED  BY <1>1, <1>4 DEF TraceWhole

-----------------------------------------------------------------------------
(* The theorems.                                                           *)

\* The invariant: the types, the rows of the frame being drawn, the names listed so far
\* and which of them can no longer come, and list, counters and traces as the moments
\* give them.
Account == Ledger /\ Following /\ Tracing

THEOREM Invariant == Spec => []Account
<1>1. Init => Account
  BY InitLedger, InitFollowing, InitTracing DEF Account
<1>2. Account /\ [Next]_vars => Account'
  <2> SUFFICES ASSUME Account, [Next]_vars PROVE Account'
    OBVIOUS
  <2>1. Ledger'
    BY LedgerStep DEF Account
  <2>2. Following'
    BY FollowingStep, FollowingStutter DEF Account, Ledger
  <2>3. Tracing'
    BY TracingStep, TracingStutter DEF Account, Ledger
  <2> QED  BY <2>1, <2>2, <2>3 DEF Account
<1> QED  BY <1>1, <1>2, PTL DEF Spec

\* TypeOK: StateDumper's line is the visible line being run (nes1.cpp, run_one_frame()),
\* and no PC is dumped beyond its cap (want_pc()), for every command line.
THEOREM TypeCorrect == Spec => []TypeOK
<1>1. Account => TypeOK
  BY LedgerShows DEF Account
<1> QED  BY <1>1, Invariant, PTL

\* ShownRowsFresh: every row a dump shows (fb_rows()) was drawn in the dump's frame,
\* for frames of any height and wherever pictures are missing.
THEOREM RowsFresh == Spec => []ShownRowsFresh
<1>1. Account => ShownRowsFresh
  BY LedgerShows DEF Account
<1> QED  BY <1>1, Invariant, PTL

\* ManifestAgrees: run.txt counts the dumps in the list, and in a run of no more than
\* 2 * IntMax + 1 instructions no two dumps have the same name, whichever files could not
\* be created (write_event(), close()).
THEOREM ManifestCounts == Spec => []ManifestAgrees
<1>1. Account => ManifestAgrees
  BY LedgerShows DEF Account
<1> QED  BY <1>1, Invariant, PTL

\* ListingAsPromised: the list of dumps is the one that follows from the command line and
\* from what the machine did (on_instruction(), on_scanline_end(), on_frame_end() with
\* want_pc() and the other filters of nesdump.h), for runs of any number of instructions:
\* they are numbered as insn() casts insn_total_, so after 2 * (IntMax + 1) of them a
\* number in a list is listed again.
THEOREM ListingKept == Spec => []ListingAsPromised
<1>1. Account => ListingAsPromised
  BY FollowingShows DEF Account, Ledger
<1> QED  BY <1>1, Invariant, PTL

\* TraceWhole: a frame's trace holds the instructions of the frame, all of them, in order,
\* and no others (begin_frame(), insn(), end_frame()).
THEOREM TracesKept == Spec => []TraceWhole
<1>1. Account => TraceWhole
  BY TracingShows DEF Account, Ledger
<1> QED  BY <1>1, Invariant, PTL
=============================================================================
