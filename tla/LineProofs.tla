------------------------------ MODULE LineProofs ------------------------------
(***************************************************************************)
(* Theorems about LineRenderer for lines of any width, any instruction     *)
(* lengths, registers and sprites, and any number of writes: the types,    *)
(* that a row drawn lazily is exactly the row the registers demand, that V *)
(* steps once per line and that no sprite-0 hit is missed.                 *)
(***************************************************************************)
EXTENDS LineRenderer, FiniteSetTheorems, WellFoundedInduction, TLAPS

-----------------------------------------------------------------------------
(* Induction.                                                              *)

\* A set that holds 0 and with every number the next one holds them all: < has no
\* infinite descent.
LEMMA SetInduction ==
  ASSUME NEW S, 0 \in S, \A n \in Nat : n \in S => n + 1 \in S
  PROVE  Nat \subseteq S
<1> DEFINE R == OpToRel(<, Nat)
           T == Nat \ S
<1> SUFFICES ASSUME T # {} PROVE FALSE
  OBVIOUS
<1>1. IsWellFoundedOn(R, Nat)
  BY NatLessThanWellFounded
<1>2. \A x, y \in Nat : y < x => <<y, x>> \in R
  BY DEF OpToRel
<1> HIDE DEF R
<1>3. PICK x \in T : \A y \in T : ~(<<y, x>> \in R)
  BY <1>1, WFMin
<1>4. x \in Nat /\ x \notin S /\ x # 0
  OBVIOUS
<1>5. x - 1 \in Nat /\ x - 1 < x
  BY <1>4
<1>6. <<x - 1, x>> \in R
  BY <1>2, <1>4, <1>5
<1>7. x - 1 \in S
  BY <1>3, <1>5, <1>6
<1>8. (x - 1) + 1 \in S
  BY <1>5, <1>7
<1> QED  BY <1>4, <1>8

-----------------------------------------------------------------------------
(* What the row must show, for registers ra in force at each tile and the  *)
(* pipeline pa of the line's beginning.                                    *)

Shown(ra, i) == i >= 2 \/ ~Rendering(ra[i][1])
Place(ra, i) == Cardinality({j \in 0..(i - 1) : Shown(ra, j)})

Before(ra, i) == {j \in 0..(i - 1) : Rendering(ra[j][1])}
Pipes(ra, pa, i) ==
  LET newest == Newest(Before(ra, i), pa[2])
      older == IF Before(ra, i) = {} THEN pa[1] ELSE Newest(Before(ra, i) \ {newest}, pa[2])
  IN  <<older, newest>>

\* What iteration i puts on the row.
Content(ra, pa, i) ==
  IF Rendering(ra[i][1]) THEN <<Pipes(ra, pa, i)[1], Pipes(ra, pa, i)[2], ra[i][2]>> ELSE Backdrop

\* The position is repainted with the backdrop in iteration p + 2.
Hidden(ra, p) ==
  /\ Rendering(ra[p + 2][1])
  /\ "bg" \notin ra[p + 2][1] \/ (p = 0 /\ "left" \notin ra[p + 2][1])

\* Position p when iterations up to i were drawn and those up to f repainted.
At(ra, pa, f, i, p) ==
  IF Place(ra, i) <= p THEN Blank
  ELSE IF p + 2 < f /\ Hidden(ra, p) THEN Backdrop
  ELSE Content(ra, pa, CHOOSE j \in 0..(Fetches - 1) : Shown(ra, j) /\ Place(ra, j) = p)

Exact(ra, pa, f, i, r) ==
  /\ r.px = Place(ra, i) /\ r.pipe = Pipes(ra, pa, i)
  /\ \A p \in 0..(Tiles - 1) : r.row[p] = At(ra, pa, f, i, p)

-----------------------------------------------------------------------------
(* The invariant.                                                          *)

Drawing == phase \in {"tail", "pixels"}
Tile == 0..(Fetches - 1)
Entry == 0..Fetches

LineState ==
  [on : BOOLEAN, first : 0..Fetches, px : 0..Fetches, tofix : BOOLEAN,
   row : [0..(Tiles - 1) -> Contents], pipe : Tile \X Tile,
   sprite : Sprites \cup {NoSprite}, hit : BOOLEAN, y : Nat]

Types ==
  /\ phase \in {"vblank", "pre", "tail", "pixels", "hblank"}
  /\ sl \in 0..(Lines - 1) /\ cut \in {0, 1} /\ pos \in Nat
  /\ <<mask, look>> \in Settings
  /\ rl \in LineState /\ rl.px <= rl.first /\ rl.on = Drawing
  /\ next \in Sprites \cup {NoSprite} /\ taken \in 0..Fetches
  /\ regsAt \in [Entry -> Settings] /\ pipeAt \in Tile \X Tile

\* How far f tiles drawn and n taken ahead may be with the clock at t: the clock has
\* passed them, or sprite 0 took the last of them, or so late that the Y step is done.
InTime(f, n, t, tofix) ==
  /\ n <= f /\ TileDots * n <= t + TileDots
  /\ TileDots * f <= t \/ f <= n \/ (Late(t) /\ ~tofix)

\* The program can still change the registers of the tiles not drawn, and all of them.
TilesPassed ==
  Drawing =>
    /\ InTime(rl.first, taken, pos, rl.tofix)
    /\ \A i \in Tile : i >= rl.first => regsAt[i] = <<mask, look>>

\* And the row is exact as far as it is drawn.
RowSoFar == Drawing => Exact(regsAt, pipeAt, rl.first, rl.first, rl)

\* The Y increment is still to come, with registers the program can still change, or
\* done, with those that count for it, by a late access that had something to draw.
Steps(m) == IF Rendering(m) THEN 1 ELSE 0
YSoFar ==
  Drawing =>
    IF rl.tofix THEN rl.y = 0 /\ regsAt[Fetches] = <<mask, look>>
    ELSE rl.y = Steps(MaskAt(Fetches)) /\ Late(pos) /\ taken < Fetches

LineInv ==
  /\ Types /\ TilesPassed /\ RowSoFar /\ YSoFar
  /\ RowExact /\ YOncePerLine /\ NoHitMissed

-----------------------------------------------------------------------------
(* Places and pipelines, from one iteration to the next.                   *)

LEMMA LineSizes ==
  /\ Tiles \in Nat /\ Tiles >= 2 /\ Fetches \in Nat /\ Fetches = Tiles + 2
  /\ TileDots = 8 /\ Dot256 = 8 * Fetches /\ Dot256 \in Nat /\ TailDots = 16
  /\ LateMargin \in 0..7 /\ Lines \in Nat \ {0} /\ HBlank \in Nat \ {0}
  /\ LineDots = Dot256 + HBlank
BY LineAssumption DEF Fetches, TileDots, Dot256, TailDots, LineDots

\* An iteration that shows something takes the next place.
LEMMA PlaceStep ==
  ASSUME NEW ra
  PROVE  /\ Place(ra, 0) = 0
         /\ \A i \in Nat : /\ Place(ra, i) \in Nat
                           /\ Shown(ra, i) => Place(ra, i + 1) = Place(ra, i) + 1
                           /\ ~Shown(ra, i) => Place(ra, i + 1) = Place(ra, i)
<1> DEFINE those(i) == {j \in 0..(i - 1) : Shown(ra, j)}
<1>1. ASSUME NEW i \in Nat
      PROVE  IsFiniteSet(those(i)) /\ Cardinality(those(i)) \in Nat
  <2>1. IsFiniteSet(0..(i - 1))
    BY FS_Interval
  <2>2. IsFiniteSet(those(i))
    BY <2>1, FS_Subset
  <2> QED  BY <2>2, FS_CardinalityType
<1>2. Place(ra, 0) = 0
  <2>1. those(0) = {}
    OBVIOUS
  <2> QED  BY <2>1, FS_EmptySet DEF Place
<1>3. ASSUME NEW i \in Nat, Shown(ra, i)
      PROVE  Place(ra, i + 1) = Place(ra, i) + 1
  <2>1. those(i + 1) = those(i) \cup {i} /\ i \notin those(i)
    BY <1>3
  <2> HIDE DEF those
  <2>2. Cardinality(those(i) \cup {i}) = Cardinality(those(i)) + 1
    BY <1>1, <2>1, FS_AddElement
  <2> QED  BY <2>1, <2>2 DEF Place, those
<1>4. ASSUME NEW i \in Nat, ~Shown(ra, i)
      PROVE  Place(ra, i + 1) = Place(ra, i)
  <2>1. those(i + 1) = those(i)
    BY <1>4
  <2> QED  BY <2>1 DEF Place
<1>5. \A i \in Nat : Place(ra, i) \in Nat
  BY <1>1 DEF Place
<1> QED  BY <1>2, <1>3, <1>4, <1>5

\* Places lag two behind at most: the tiles of the pipeline.
LEMMA PlaceLag ==
  ASSUME NEW ra
  PROVE  \A i \in Nat : i <= Place(ra, i) + 2 /\ Place(ra, i) <= i
<1> DEFINE S == {i \in Nat : i <= Place(ra, i) + 2 /\ Place(ra, i) <= i}
<1>1. 0 \in S
  BY PlaceStep
<1>2. ASSUME NEW i \in Nat, i \in S
      PROVE  i + 1 \in S
  <2>1. /\ Place(ra, i) \in Nat /\ Place(ra, i + 1) \in Nat
        /\ Shown(ra, i) => Place(ra, i + 1) = Place(ra, i) + 1
        /\ ~Shown(ra, i) => Place(ra, i + 1) = Place(ra, i)
    BY PlaceStep
  <2>2. i >= 2 => Shown(ra, i)
    BY DEF Shown
  <2> QED  BY <1>2, <2>1, <2>2
<1> HIDE DEF S
<1>3. Nat \subseteq S
  BY <1>1, <1>2, SetInduction
<1> QED  BY <1>3 DEF S

LEMMA PlaceGrows ==
  ASSUME NEW ra
  PROVE  \A i, j \in Nat : i <= j => Place(ra, i) <= Place(ra, j)
<1> SUFFICES ASSUME NEW i \in Nat
             PROVE  \A j \in Nat : i <= j => Place(ra, i) <= Place(ra, j)
  OBVIOUS
<1> DEFINE S == {d \in Nat : Place(ra, i) <= Place(ra, i + d)}
<1>1. 0 \in S
  <2>1. i + 0 = i /\ Place(ra, i) \in Nat
    BY PlaceStep
  <2> QED  BY <2>1
<1>2. ASSUME NEW d \in Nat, d \in S
      PROVE  d + 1 \in S
  <2> DEFINE j == i + d
  <2>1. j \in Nat /\ i + (d + 1) = j + 1
    OBVIOUS
  <2>2. Place(ra, i) <= Place(ra, j)
    BY <1>2
  <2> HIDE DEF j
  <2>3. /\ Place(ra, i) \in Nat /\ Place(ra, j) \in Nat /\ Place(ra, j + 1) \in Nat
        /\ Shown(ra, j) => Place(ra, j + 1) = Place(ra, j) + 1
        /\ ~Shown(ra, j) => Place(ra, j + 1) = Place(ra, j)
    BY <2>1, PlaceStep
  <2>4. Place(ra, i) <= Place(ra, j + 1)
    BY <2>2, <2>3
  <2> QED  BY <2>1, <2>4
<1> HIDE DEF S
<1>3. Nat \subseteq S
  BY <1>1, <1>2, SetInduction
<1> SUFFICES ASSUME NEW j \in Nat, i <= j PROVE Place(ra, i) <= Place(ra, j)
  OBVIOUS
<1>4. j - i \in Nat /\ i + (j - i) = j
  OBVIOUS
<1>5. j - i \in S
  BY <1>3, <1>4
<1> QED  BY <1>4, <1>5 DEF S

\* So an iteration is known by its place.
LEMMA PlaceUnique ==
  ASSUME NEW ra, NEW i \in Nat, NEW j \in Nat, Shown(ra, i), Shown(ra, j),
         Place(ra, i) = Place(ra, j)
  PROVE  i = j
<1>1. ASSUME NEW a \in Nat, NEW b \in Nat, a < b, Shown(ra, a)
      PROVE  Place(ra, a) < Place(ra, b)
  <2>1. Place(ra, a + 1) = Place(ra, a) + 1 /\ Place(ra, a) \in Nat /\ Place(ra, b) \in Nat
    BY <1>1, PlaceStep
  <2>2. a + 1 \in Nat /\ a + 1 <= b
    BY <1>1
  <2>3. Place(ra, a + 1) <= Place(ra, b)
    BY <2>2, PlaceGrows
  <2> QED  BY <2>1, <2>3
<1>2. Place(ra, i) \in Nat /\ Place(ra, j) \in Nat
  BY PlaceStep
<1>3. ~(i < j) /\ ~(j < i)
  BY <1>1, <1>2
<1> QED  BY <1>3

\* And every place passed belongs to one.
LEMMA PlaceTaken ==
  ASSUME NEW ra, NEW p \in Nat
  PROVE  \A i \in Nat : p < Place(ra, i) => \E j \in 0..(i - 1) : Shown(ra, j) /\ Place(ra, j) = p
<1> DEFINE Found(i) == \E j \in 0..(i - 1) : Shown(ra, j) /\ Place(ra, j) = p
           S == {i \in Nat : p < Place(ra, i) => Found(i)}
<1>1. 0 \in S
  <2>1. ~(p < Place(ra, 0))
    BY PlaceStep
  <2> QED  BY <2>1
<1>2. ASSUME NEW i \in Nat, i \in S
      PROVE  i + 1 \in S
  <2> SUFFICES ASSUME p < Place(ra, i + 1) PROVE Found(i + 1)
    OBVIOUS
  <2>1. /\ Place(ra, i) \in Nat
        /\ Shown(ra, i) => Place(ra, i + 1) = Place(ra, i) + 1
        /\ ~Shown(ra, i) => Place(ra, i + 1) = Place(ra, i)
    BY PlaceStep
  <2>2. CASE p < Place(ra, i)
    <3>1. PICK j \in 0..(i - 1) : Shown(ra, j) /\ Place(ra, j) = p
      BY <1>2, <2>2
    <3>2. j \in 0..((i + 1) - 1)
      OBVIOUS
    <3> QED  BY <3>1, <3>2
  <2>3. CASE ~(p < Place(ra, i))
    <3>1. Shown(ra, i) /\ Place(ra, i) = p
      BY <2>1, <2>3
    <3>2. i \in 0..((i + 1) - 1)
      OBVIOUS
    <3> QED  BY <3>1, <3>2
  <2> QED  BY <2>2, <2>3
<1> HIDE DEF S
<1>3. Nat \subseteq S
  BY <1>1, <1>2, SetInduction
<1> QED  BY <1>3 DEF S

\* A fetched tile moves the pipeline on.
LEMMA PipesStep ==
  ASSUME NEW ra, NEW pa
  PROVE  /\ Pipes(ra, pa, 0) = <<pa[1], pa[2]>>
         /\ \A i \in Nat :
              /\ Rendering(ra[i][1]) => Pipes(ra, pa, i + 1) = <<Pipes(ra, pa, i)[2], i>>
              /\ ~Rendering(ra[i][1]) => Pipes(ra, pa, i + 1) = Pipes(ra, pa, i)
<1>1. Pipes(ra, pa, 0) = <<pa[1], pa[2]>>
  <2>1. Before(ra, 0) = {}
    BY DEF Before
  <2> QED  BY <2>1 DEF Pipes, Newest
<1>2. ASSUME NEW i \in Nat, Rendering(ra[i][1])
      PROVE  Pipes(ra, pa, i + 1) = <<Pipes(ra, pa, i)[2], i>>
  <2> DEFINE b == Before(ra, i)
             c == Before(ra, i + 1)
  <2>1. c = b \cup {i} /\ i \notin b /\ b \subseteq 0..(i - 1)
    BY <1>2 DEF Before
  <2>2. Pipes(ra, pa, i)[2] = Newest(b, pa[2])
    BY DEF Pipes
  <2> HIDE DEF b, c
  <2>3. Newest(c, pa[2]) = i
    <3>1. i \in c /\ \A h \in c : h <= i
      BY <2>1
    <3>2. ASSUME NEW j \in c, \A h \in c : h <= j
          PROVE  j = i
      BY <2>1, <3>1, <3>2
    <3> QED  BY <3>1, <3>2 DEF Newest
  <2>4. c \ {i} = b /\ c # {}
    BY <2>1
  <2> QED  BY <2>2, <2>3, <2>4 DEF Pipes, c
<1>3. ASSUME NEW i \in Nat, ~Rendering(ra[i][1])
      PROVE  Pipes(ra, pa, i + 1) = Pipes(ra, pa, i)
  <2>1. Before(ra, i + 1) = Before(ra, i)
    BY <1>3 DEF Before
  <2> QED  BY <2>1 DEF Pipes
<1> QED  BY <1>1, <1>2, <1>3

-----------------------------------------------------------------------------
(* One iteration.                                                          *)

\* The parts of the line state that drawing leaves alone.
SameLine(q, r) ==
  /\ q.on = r.on /\ q.first = r.first /\ q.tofix = r.tofix
  /\ q.sprite = r.sprite /\ q.hit = r.hit /\ q.y = r.y

\* What is shown: nothing, the tile in the pipeline, or the backdrop.
Puts(i, m) == i >= 2 \/ ~Rendering(m)
PutContent(r, m, k) == IF Rendering(m) THEN <<r.pipe[1], r.pipe[2], k>> ELSE Backdrop

LEMMA DrawTileShape ==
  ASSUME NEW r \in LineState, NEW i \in Tile, NEW m, NEW k \in Looks, r.px <= i
  PROVE  /\ DrawTile(r, i, m, k) \in LineState
         /\ SameLine(DrawTile(r, i, m, k), r)
         /\ DrawTile(r, i, m, k).px = IF Puts(i, m) THEN r.px + 1 ELSE r.px
         /\ DrawTile(r, i, m, k).row = IF Puts(i, m) /\ r.px < Tiles
                                       THEN [r.row EXCEPT ![r.px] = PutContent(r, m, k)]
                                       ELSE r.row
         /\ DrawTile(r, i, m, k).pipe = IF Rendering(m) THEN <<r.pipe[2], i>> ELSE r.pipe
<1> DEFINE put == Puts(i, m)
           row1 == IF put /\ r.px < Tiles THEN [r.row EXCEPT ![r.px] = PutContent(r, m, k)]
                   ELSE r.row
           px1 == IF put THEN r.px + 1 ELSE r.px
           pipe1 == IF Rendering(m) THEN <<r.pipe[2], i>> ELSE r.pipe
           q == [r EXCEPT !.row = row1, !.px = px1, !.pipe = pipe1]
<1>1. /\ r.px \in 0..Fetches /\ r.row \in [0..(Tiles - 1) -> Contents]
      /\ r.pipe \in Tile \X Tile /\ r.pipe[1] \in Tile /\ r.pipe[2] \in Tile
  BY DEF LineState
<1>2. DrawTile(r, i, m, k) = q
  <2>1. CASE Rendering(m) /\ i >= 2
    BY <2>1 DEF DrawTile, Puts, PutContent
  <2>2. CASE Rendering(m) /\ ~(i >= 2)
    <3>1. q = [r EXCEPT !.row = r.row, !.px = r.px, !.pipe = <<r.pipe[2], i>>]
      BY <2>2 DEF Puts
    <3>2. DrawTile(r, i, m, k) = [r EXCEPT !.row = r.row, !.px = r.px, !.pipe = <<r.pipe[2], i>>]
      BY <2>2 DEF DrawTile
    <3> QED  BY <3>1, <3>2
  <2>3. CASE ~Rendering(m)
    <3>1. DrawTile(r, i, m, k) =
            [r EXCEPT !.row = IF r.px < Tiles THEN [r.row EXCEPT ![r.px] = Backdrop] ELSE r.row,
                      !.px = r.px + 1]
      BY <2>3 DEF DrawTile
    <3>2. q = [r EXCEPT !.row = IF r.px < Tiles THEN [r.row EXCEPT ![r.px] = Backdrop] ELSE r.row,
                        !.px = r.px + 1, !.pipe = r.pipe]
      BY <2>3 DEF Puts, PutContent
    <3>3. \A a, b : [r EXCEPT !.row = a, !.px = b] = [r EXCEPT !.row = a, !.px = b, !.pipe = r.pipe]
      BY DEF LineState
    <3> QED  BY <3>1, <3>2, <3>3
  <2> QED  BY <2>1, <2>2, <2>3
<1>3. PutContent(r, m, k) \in Contents
  BY <1>1 DEF PutContent, Contents, Tile
<1>4. row1 \in [0..(Tiles - 1) -> Contents]
  BY <1>1, <1>3
<1>5. px1 \in 0..Fetches
  <2>1. i + 1 <= Fetches /\ Fetches \in Nat
    BY LineSizes DEF Tile
  <2> QED  BY <1>1, <2>1 DEF Tile
<1>6. pipe1 \in Tile \X Tile
  BY <1>1
<1> HIDE DEF row1, px1, pipe1
<1>7. q \in LineState
  BY <1>4, <1>5, <1>6 DEF LineState
<1>8. SameLine(q, r) /\ q.px = px1 /\ q.row = row1 /\ q.pipe = pipe1
  BY DEF SameLine, LineState
<1> HIDE DEF q
<1> QED  BY <1>2, <1>7, <1>8 DEF px1, row1, pipe1

\* The iteration of a place.
LEMMA ContentOf ==
  ASSUME NEW ra, NEW j \in Tile, Shown(ra, j)
  PROVE  (CHOOSE h \in 0..(Fetches - 1) : Shown(ra, h) /\ Place(ra, h) = Place(ra, j)) = j
<1> DEFINE P(h) == Shown(ra, h) /\ Place(ra, h) = Place(ra, j)
           c == CHOOSE h \in 0..(Fetches - 1) : P(h)
<1>1. j \in 0..(Fetches - 1) /\ P(j)
  BY DEF Tile
<1>2. c \in 0..(Fetches - 1) /\ P(c)
  BY <1>1
<1>3. c \in Nat /\ j \in Nat
  BY <1>2 DEF Tile
<1> HIDE DEF c
<1> QED  BY <1>2, <1>3, PlaceUnique DEF c

\* Drawing iteration i with its registers puts what the row must show.
LEMMA ExactStep ==
  ASSUME NEW ra, NEW pa, NEW f \in Nat, NEW r \in LineState, NEW i \in Tile, f <= i,
         NEW m, NEW k \in Looks, ra[i] = <<m, k>>, r.px <= i, Exact(ra, pa, f, i, r)
  PROVE  Exact(ra, pa, f, i + 1, DrawTile(r, i, m, k))
<1> DEFINE q == DrawTile(r, i, m, k)
<1>0. i \in Nat /\ i + 1 \in Nat /\ Tiles \in Nat
  BY LineSizes DEF Tile
<1>1. /\ q.px = IF Puts(i, m) THEN r.px + 1 ELSE r.px
      /\ q.row = IF Puts(i, m) /\ r.px < Tiles
                 THEN [r.row EXCEPT ![r.px] = PutContent(r, m, k)] ELSE r.row
      /\ q.pipe = IF Rendering(m) THEN <<r.pipe[2], i>> ELSE r.pipe
  BY DrawTileShape
<1>2. ra[i][1] = m /\ ra[i][2] = k
  OBVIOUS
<1>3. Puts(i, m) <=> Shown(ra, i)
  BY <1>2 DEF Puts, Shown
<1>4. /\ r.px = Place(ra, i) /\ r.pipe = Pipes(ra, pa, i)
      /\ \A p \in 0..(Tiles - 1) : r.row[p] = At(ra, pa, f, i, p)
  BY DEF Exact
<1>5. /\ Place(ra, i) \in Nat
      /\ Shown(ra, i) => Place(ra, i + 1) = Place(ra, i) + 1
      /\ ~Shown(ra, i) => Place(ra, i + 1) = Place(ra, i)
  BY <1>0, PlaceStep
<1>6. q.px = Place(ra, i + 1)
  BY <1>1, <1>3, <1>4, <1>5
<1>7. q.pipe = Pipes(ra, pa, i + 1)
  <2>1. /\ Rendering(ra[i][1]) => Pipes(ra, pa, i + 1) = <<Pipes(ra, pa, i)[2], i>>
        /\ ~Rendering(ra[i][1]) => Pipes(ra, pa, i + 1) = Pipes(ra, pa, i)
    BY <1>0, PipesStep
  <2>2. r.pipe = Pipes(ra, pa, i)
    BY <1>4
  <2> QED  BY <1>1, <1>2, <2>1, <2>2
<1>8. PutContent(r, m, k) = Content(ra, pa, i)
  BY <1>2, <1>4 DEF PutContent, Content
<1> HIDE DEF q
<1>9. ASSUME NEW p \in 0..(Tiles - 1)
      PROVE  q.row[p] = At(ra, pa, f, i + 1, p)
  <2>1. r.row[p] = At(ra, pa, f, i, p) /\ r.row \in [0..(Tiles - 1) -> Contents]
    BY <1>4 DEF LineState
  <2>2. CASE Shown(ra, i) /\ p = Place(ra, i)
    <3>1. q.row[p] = Content(ra, pa, i)
      BY <1>0, <1>1, <1>3, <1>4, <1>8, <2>1, <2>2
    <3>2. ~(Place(ra, i + 1) <= p)
      BY <1>5, <2>2
    <3>3. ~(p + 2 < f)
      BY <1>0, <2>2, PlaceLag
    <3>4. At(ra, pa, f, i + 1, p) =
            Content(ra, pa, CHOOSE h \in 0..(Fetches - 1) : Shown(ra, h) /\ Place(ra, h) = p)
      BY <3>2, <3>3 DEF At
    <3>5. At(ra, pa, f, i + 1, p) = Content(ra, pa, i)
      BY <2>2, <3>4, ContentOf
    <3> QED  BY <3>1, <3>5
  <2>3. CASE ~(Shown(ra, i) /\ p = Place(ra, i))
    <3>1. q.row[p] = r.row[p]
      BY <1>1, <1>3, <1>4, <2>1, <2>3
    <3>2. Place(ra, i + 1) <= p <=> Place(ra, i) <= p
      BY <1>5, <2>3
    <3>3. At(ra, pa, f, i + 1, p) = At(ra, pa, f, i, p)
      BY <3>2 DEF At
    <3> QED  BY <2>1, <3>1, <3>3
  <2> QED  BY <2>2, <2>3
<1>10. Exact(ra, pa, f, i + 1, q)
  BY <1>6, <1>7, <1>9 DEF Exact
<1> QED  BY <1>10 DEF q

-----------------------------------------------------------------------------
(* The iterations of a catch-up.                                           *)

IsDrawn(f, r, n, m, k) ==
  f = [i \in r.first..n |-> IF i = r.first THEN r ELSE DrawTile(f[i - 1], i - 1, m, k)]

LEMMA DrawnExist ==
  ASSUME NEW r, r.first \in Nat, NEW m, NEW k
  PROVE  \A d \in Nat : \E f : IsDrawn(f, r, r.first + d, m, k)
<1> DEFINE lo == r.first
           S == {d \in Nat : \E f : IsDrawn(f, r, lo + d, m, k)}
<1>0. lo \in Nat
  OBVIOUS
<1>1. 0 \in S
  <2> DEFINE g == [i \in lo..lo |-> r]
  <2>1. g = [i \in lo..(lo + 0) |-> IF i = lo THEN r ELSE DrawTile(g[i - 1], i - 1, m, k)]
    <3>1. lo..(lo + 0) = lo..lo /\ \A i \in lo..lo : i = lo
      BY <1>0
    <3> HIDE DEF lo
    <3> QED  BY <3>1
  <2>2. IsDrawn(g, r, lo + 0, m, k)
    BY <2>1 DEF IsDrawn
  <2> QED  BY <2>2
<1>2. ASSUME NEW d \in Nat, d \in S
      PROVE  d + 1 \in S
  <2> DEFINE n == lo + d
  <2>1. PICK f : IsDrawn(f, r, n, m, k)
    BY <1>2
  <2> DEFINE g == [i \in lo..(n + 1) |-> IF i <= n THEN f[i] ELSE DrawTile(f[n], n, m, k)]
  <2>2. n \in Nat /\ lo <= n /\ lo + (d + 1) = n + 1
    BY <1>0
  <2>3. \A i \in lo..n : f[i] = IF i = lo THEN r ELSE DrawTile(f[i - 1], i - 1, m, k)
    BY <2>1 DEF IsDrawn
  <2> HIDE DEF lo, n
  <2>4. ASSUME NEW i \in lo..(n + 1)
        PROVE  g[i] = IF i = lo THEN r ELSE DrawTile(g[i - 1], i - 1, m, k)
    <3>1. CASE i = lo
      BY <1>0, <2>2, <2>3, <3>1
    <3>2. CASE i # lo /\ i <= n
      <4>1. i \in lo..n /\ i - 1 \in lo..(n + 1) /\ i - 1 <= n
        BY <1>0, <2>2, <3>2
      <4>2. g[i] = f[i] /\ g[i - 1] = f[i - 1]
        BY <3>2, <4>1
      <4> QED  BY <2>3, <3>2, <4>1, <4>2
    <3>3. CASE i = n + 1
      <4>1. i - 1 = n /\ n \in lo..(n + 1) /\ i # lo /\ ~(i <= n) /\ n <= n
        BY <1>0, <2>2, <3>3
      <4>2. g[i] = DrawTile(f[n], n, m, k) /\ g[n] = f[n]
        BY <4>1
      <4> QED  BY <4>1, <4>2
    <3> QED  BY <1>0, <2>2, <3>1, <3>2, <3>3
  <2>5. g = [i \in lo..(n + 1) |-> g[i]]
    OBVIOUS
  <2> HIDE DEF g
  <2>6. g = [i \in lo..(n + 1) |-> IF i = lo THEN r ELSE DrawTile(g[i - 1], i - 1, m, k)]
    BY <2>4, <2>5
  <2>7. IsDrawn(g, r, lo + (d + 1), m, k)
    BY <2>2, <2>6 DEF IsDrawn, lo
  <2> QED  BY <2>7
<1> HIDE DEF S
<1>3. Nat \subseteq S
  BY <1>1, <1>2, SetInduction
<1> QED  BY <1>3 DEF S

LEMMA DrawnAgree ==
  ASSUME NEW r, r.first \in Nat, NEW m, NEW k, NEW f, NEW g, NEW n \in Nat, NEW h \in Nat,
         IsDrawn(f, r, n, m, k), IsDrawn(g, r, h, m, k)
  PROVE  \A d \in Nat : r.first + d <= n /\ r.first + d <= h => f[r.first + d] = g[r.first + d]
<1> DEFINE lo == r.first
           S == {d \in Nat : lo + d <= n /\ lo + d <= h => f[lo + d] = g[lo + d]}
<1>0. lo \in Nat
  OBVIOUS
<1>1. /\ \A i \in lo..n : f[i] = IF i = lo THEN r ELSE DrawTile(f[i - 1], i - 1, m, k)
      /\ \A i \in lo..h : g[i] = IF i = lo THEN r ELSE DrawTile(g[i - 1], i - 1, m, k)
  BY DEF IsDrawn
<1> HIDE DEF lo
<1>2. 0 \in S
  BY <1>0, <1>1
<1>3. ASSUME NEW d \in Nat, d \in S
      PROVE  d + 1 \in S
  <2> SUFFICES ASSUME lo + (d + 1) <= n, lo + (d + 1) <= h
               PROVE  f[lo + (d + 1)] = g[lo + (d + 1)]
    OBVIOUS
  <2> DEFINE i == lo + (d + 1)
  <2>1. i \in lo..n /\ i \in lo..h /\ i # lo /\ i - 1 = lo + d /\ lo + d <= n /\ lo + d <= h
    BY <1>0
  <2>2. f[lo + d] = g[lo + d]
    BY <1>3, <2>1
  <2> HIDE DEF i
  <2>3. f[i] = g[i]
    BY <1>1, <2>1, <2>2
  <2> QED  BY <2>3 DEF i
<1> HIDE DEF S
<1>4. Nat \subseteq S
  BY <1>2, <1>3, SetInduction
<1> QED  BY <1>4 DEF S, lo

LEMMA DrawTilesStep ==
  ASSUME NEW r, r.first \in Nat, NEW m, NEW k
  PROVE  /\ DrawTiles(r, r.first, m, k) = r
         /\ \A n \in Nat : n >= r.first =>
              DrawTiles(r, n + 1, m, k) = DrawTile(DrawTiles(r, n, m, k), n, m, k)
<1> DEFINE lo == r.first
           upTo(n) == CHOOSE f : IsDrawn(f, r, n, m, k)
<1>1. ASSUME NEW n \in Nat, n >= lo
      PROVE  DrawTiles(r, n, m, k) = upTo(n)[n]
  BY DEF DrawTiles, IsDrawn
<1>2. ASSUME NEW n \in Nat, n >= lo
      PROVE  IsDrawn(upTo(n), r, n, m, k)
  <2>1. n - lo \in Nat /\ lo + (n - lo) = n
    BY <1>2
  <2>2. \E f : IsDrawn(f, r, lo + (n - lo), m, k)
    BY <2>1, DrawnExist
  <2> QED  BY <2>1, <2>2
<1> HIDE DEF upTo
<1>3. DrawTiles(r, lo, m, k) = r
  <2>1. IsDrawn(upTo(lo), r, lo, m, k)
    BY <1>2
  <2>2. upTo(lo)[lo] = r
    BY <2>1 DEF IsDrawn
  <2> QED  BY <1>1, <2>2
<1>4. ASSUME NEW n \in Nat, n >= lo
      PROVE  DrawTiles(r, n + 1, m, k) = DrawTile(DrawTiles(r, n, m, k), n, m, k)
  <2>1. /\ n + 1 \in Nat /\ n + 1 >= lo /\ n + 1 \in lo..(n + 1) /\ n + 1 # lo /\ (n + 1) - 1 = n
        /\ n - lo \in Nat /\ lo + (n - lo) = n /\ n <= n /\ n <= n + 1
    BY <1>4
  <2>2. IsDrawn(upTo(n), r, n, m, k) /\ IsDrawn(upTo(n + 1), r, n + 1, m, k)
    BY <1>2, <1>4, <2>1
  <2>3. upTo(n + 1)[n + 1] = DrawTile(upTo(n + 1)[n], n, m, k)
    BY <2>1, <2>2 DEF IsDrawn
  <2>4. upTo(n)[n] = upTo(n + 1)[n]
    <3> DEFINE d == n - lo
    <3>1. d \in Nat /\ lo + d = n
      BY <2>1
    <3> HIDE DEF d
    <3>2. lo + d <= n /\ lo + d <= n + 1 => upTo(n)[lo + d] = upTo(n + 1)[lo + d]
      BY <2>1, <2>2, <3>1, DrawnAgree
    <3> QED  BY <2>1, <3>1, <3>2
  <2> QED  BY <1>1, <1>4, <2>1, <2>3, <2>4
<1> QED  BY <1>3, <1>4

\* All of them keep the row exact, if the registers are those of each tile.
LEMMA DrawTilesKeep ==
  ASSUME NEW ra, NEW pa, NEW r \in LineState, r.px <= r.first, NEW m, NEW k \in Looks,
         NEW n \in 0..Fetches, r.first <= n
  PROVE  /\ DrawTiles(r, n, m, k) \in LineState
         /\ SameLine(DrawTiles(r, n, m, k), r)
         /\ DrawTiles(r, n, m, k).px <= n
         /\ /\ \A i \in Tile : r.first <= i /\ i < n => ra[i] = <<m, k>>
            /\ Exact(ra, pa, r.first, r.first, r)
            => Exact(ra, pa, r.first, n, DrawTiles(r, n, m, k))
<1> DEFINE lo == r.first
           Given == /\ \A i \in Tile : lo <= i /\ i < n => ra[i] = <<m, k>>
                    /\ Exact(ra, pa, lo, lo, r)
           Kept(i, q) == /\ q \in LineState /\ SameLine(q, r) /\ q.px <= i
                         /\ Given => Exact(ra, pa, lo, i, q)
           S == {d \in Nat : lo + d <= n => Kept(lo + d, DrawTiles(r, lo + d, m, k))}
<1>0. lo \in Nat /\ n \in Nat /\ n <= Fetches /\ Fetches \in Nat /\ lo <= n
  BY LineSizes DEF LineState
<1>1. /\ DrawTiles(r, lo, m, k) = r
      /\ \A j \in Nat : j >= lo => DrawTiles(r, j + 1, m, k) = DrawTile(DrawTiles(r, j, m, k), j, m, k)
  BY <1>0, DrawTilesStep
<1>2. 0 \in S
  <2>1. lo + 0 = lo /\ SameLine(r, r)
    BY <1>0 DEF SameLine
  <2>2. Kept(lo, r)
    BY <1>0, <2>1
  <2> HIDE DEF Kept, lo
  <2>3. Kept(lo + 0, DrawTiles(r, lo + 0, m, k))
    BY <1>1, <2>1, <2>2
  <2> QED  BY <2>3
<1>3. ASSUME NEW d \in Nat, d \in S
      PROVE  d + 1 \in S
  <2> SUFFICES ASSUME lo + (d + 1) <= n
               PROVE  Kept(lo + (d + 1), DrawTiles(r, lo + (d + 1), m, k))
    OBVIOUS
  <2> DEFINE j == lo + d
             q == DrawTiles(r, j, m, k)
             q1 == DrawTile(q, j, m, k)
  <2>1. /\ j \in Nat /\ j >= lo /\ lo <= j /\ j < n /\ lo + (d + 1) = j + 1 /\ j <= n /\ j \in Tile
    BY <1>0 DEF Tile
  <2>2. Kept(j, q)
    BY <1>3, <2>1
  <2>3. DrawTiles(r, j + 1, m, k) = q1
    BY <1>1, <2>1
  <2> HIDE DEF j, q
  <2>4. q \in LineState /\ SameLine(q, r) /\ q.px <= j
    BY <2>2
  <2>5. /\ q1 \in LineState /\ SameLine(q1, q)
        /\ q1.px = IF Puts(j, m) THEN q.px + 1 ELSE q.px
    BY <2>1, <2>4, DrawTileShape
  <2>6. ASSUME Given
        PROVE  Exact(ra, pa, lo, j + 1, q1)
    <3>1. Exact(ra, pa, lo, j, q) /\ ra[j] = <<m, k>>
      BY <2>1, <2>2, <2>6
    <3> HIDE DEF Given, lo
    <3> QED  BY <1>0, <2>1, <2>4, <3>1, ExactStep
  <2> HIDE DEF q1
  <2>7. q1.px <= j + 1
    <3>1. q.px \in Nat
      BY <1>0, <2>4 DEF LineState
    <3> QED  BY <2>1, <2>4, <2>5, <3>1
  <2>8. SameLine(q1, r)
    BY <2>4, <2>5 DEF SameLine
  <2>9. Kept(j + 1, q1)
    BY <2>5, <2>6, <2>7, <2>8
  <2> QED  BY <2>1, <2>3, <2>9
<1> HIDE DEF S
<1>4. Nat \subseteq S
  BY <1>2, <1>3, SetInduction
<1>5. n - lo \in Nat /\ lo + (n - lo) = n
  BY <1>0
<1>6. n - lo \in S
  BY <1>4, <1>5
<1>7. Kept(n, DrawTiles(r, n, m, k))
  <2> HIDE DEF Kept, lo
  <2> QED  BY <1>0, <1>5, <1>6 DEF S
<1> QED  BY <1>7

-----------------------------------------------------------------------------
(* A catch-up.                                                             *)

LEMMA LastTileIs ==
  ASSUME NEW r \in LineState, NEW t \in Nat
  PROVE  /\ LastTile(r, t) \in 0..Fetches
         /\ r.sprite = NoSprite =>
              LastTile(r, t) = IF t \div 8 > Fetches THEN Fetches ELSE t \div 8
<1> DEFINE n == t \div 8
           soon == /\ r.sprite # NoSprite /\ ~r.hit
                   /\ r.sprite.x < t - 16
                   /\ r.sprite.x >= (n - 2) * 8
           last == IF soon THEN n + 1 ELSE n
<1>1. n \in Nat /\ last \in Nat /\ Fetches \in Nat
  BY LineSizes
<1>2. LastTile(r, t) = IF last > Fetches THEN Fetches ELSE last
  BY DEF LastTile, TileDots
<1>3. r.sprite = NoSprite => last = n
  OBVIOUS
<1> HIDE DEF n, last
<1> QED  BY <1>1, <1>2, <1>3 DEF n

\* The catch-up draws the tiles it comes too late for.
LEMMA DueIs ==
  ASSUME NEW r \in LineState, NEW t \in Nat
  PROVE  /\ LastTile(r, t) = Due(r, t) /\ Due(r, t) \in 0..Fetches
         /\ Ahead(r, t) => t < Dot256 /\ Due(r, t) = t \div 8 + 1
         /\ ~Ahead(r, t) => Due(r, t) = IF t < Dot256 THEN t \div 8 ELSE Fetches
<1> DEFINE n == t \div 8
<1>1. /\ Fetches \in Nat /\ Dot256 = 8 * Fetches /\ TileDots = 8 /\ TailDots = 16
      /\ n \in Nat /\ 8 * n <= t /\ t < 8 * n + 8
  BY LineSizes
<1>2. /\ Ahead(r, t) => t < Dot256 /\ Due(r, t) = n + 1
      /\ ~Ahead(r, t) => Due(r, t) = IF t < Dot256 THEN n ELSE Fetches
  BY <1>1 DEF Due, Ahead
<1>3. LastTile(r, t) \in 0..Fetches
  BY LastTileIs
<1>4. CASE r.sprite = NoSprite
  <2>1. ~Ahead(r, t)
    BY <1>4 DEF Ahead
  <2>2. LastTile(r, t) = IF n > Fetches THEN Fetches ELSE n
    BY <1>4, LastTileIs
  <2> HIDE DEF n
  <2>3. LastTile(r, t) = IF t < Dot256 THEN n ELSE Fetches
    BY <1>1, <2>2
  <2> QED  BY <1>2, <1>3, <2>1, <2>3 DEF n
<1>5. CASE r.sprite # NoSprite
  <2> DEFINE x == r.sprite.x
             soon == ~r.hit /\ x < t - 16 /\ x >= (n - 2) * 8
             last == IF soon THEN n + 1 ELSE n
  <2>1. x \in Int
    <3>1. r.sprite \in Sprites
      BY <1>5 DEF LineState
    <3>2. x \in 0..(TileDots * Tiles - 1)
      BY <3>1, LineAssumption
    <3> QED  BY <3>2
  <2>2. LastTile(r, t) = IF last > Fetches THEN Fetches ELSE last
    BY <1>5 DEF LastTile, TileDots
  <2>3. Ahead(r, t) <=> ~r.hit /\ t < Dot256 /\ x \in (8 * n - 16)..(t - 16 - 1)
    BY <1>1, <1>5 DEF Ahead
  <2> HIDE DEF n, x
  <2>4. Ahead(r, t) <=> soon /\ t < Dot256
    BY <1>1, <2>1, <2>3
  <2> HIDE DEF soon
  <2>5. LastTile(r, t) = IF t < Dot256 THEN last ELSE Fetches
    BY <1>1, <2>2
  <2> QED  BY <1>2, <1>3, <2>4, <2>5 DEF n
<1> QED  BY <1>4, <1>5

LEMMA LateIs ==
  ASSUME NEW t \in Nat
  PROVE  /\ Late(t) <=> StepDue(t)
         /\ t >= Dot256 => Late(t)
         /\ \A p \in Nat : Late(p) /\ t >= p + 8 => t >= Dot256
BY LineSizes DEF Late, StepDue

\* The next access comes at least a tile later, so that it passes what was drawn, unless
\* sprite 0 took it or the line is over.
LEMMA Reaches ==
  ASSUME NEW r \in LineState, NEW f \in 0..Fetches, NEW n \in 0..Fetches, NEW p \in Nat,
         NEW t \in Nat, t >= p + 8, p < Dot256, NEW tofix \in BOOLEAN, InTime(f, n, p, tofix)
  PROVE  /\ n <= f /\ n <= Due(r, t)
         /\ Ahead(r, t) => n < Due(r, t) /\ 8 * Due(r, t) <= t + 8
         /\ ~Ahead(r, t) => 8 * Due(r, t) <= t
         /\ Due(r, t) <= f => f <= n \/ (~tofix /\ Late(p))
         /\ Late(p) => Late(t) /\ Due(r, t) = Fetches /\ ~Ahead(r, t)
<1> DEFINE d == Due(r, t)
           a == Ahead(r, t)
           e == t \div 8
<1>1. /\ Fetches \in Nat /\ Dot256 = 8 * Fetches /\ f \in Nat /\ n \in Nat
      /\ f <= Fetches /\ n <= Fetches /\ e \in Nat /\ 8 * e <= t /\ t < 8 * e + 8
  BY LineSizes
<1>2. /\ d \in 0..Fetches /\ (a => t < Dot256 /\ d = e + 1)
      /\ (~a => d = IF t < Dot256 THEN e ELSE Fetches)
  BY DueIs
<1>3. n <= f /\ 8 * n <= p + 8 /\ (8 * f <= p \/ f <= n \/ (Late(p) /\ ~tofix))
  BY DEF InTime, TileDots
<1>4. Late(p) => Late(t) /\ t >= Dot256
  BY LateIs
<1> HIDE DEF d, a, e
<1>5. n <= d /\ (a => n < d /\ 8 * d <= t + 8) /\ (~a => 8 * d <= t)
  <2>1. n <= e
    BY <1>1, <1>3
  <2>2. CASE a
    BY <1>1, <1>2, <2>1, <2>2
  <2>3. CASE ~a
    BY <1>1, <1>2, <2>1, <2>3
  <2> QED  BY <2>2, <2>3
<1>6. 8 * f <= p => f < d
  <2>1. 8 * f <= p => f < Fetches /\ f < e
    BY <1>1
  <2> QED  BY <1>1, <1>2, <2>1
<1>7. Late(p) => d = Fetches /\ ~a
  BY <1>1, <1>2, <1>4
<1>8. d <= f => f <= n \/ (~tofix /\ Late(p))
  BY <1>1, <1>2, <1>3, <1>6
<1> QED  BY <1>3, <1>4, <1>5, <1>7, <1>8 DEF d, a

\* A hit found takes sprite 0 away and sets the flag; nothing else changes.
LEMMA HitShape ==
  ASSUME NEW r \in LineState, NEW t
  PROVE  /\ CheckSpriteHit(r, t) \in LineState
         /\ CheckSpriteHit(r, t).on = r.on /\ CheckSpriteHit(r, t).first = r.first
         /\ CheckSpriteHit(r, t).px = r.px /\ CheckSpriteHit(r, t).tofix = r.tofix
         /\ CheckSpriteHit(r, t).row = r.row /\ CheckSpriteHit(r, t).pipe = r.pipe
         /\ CheckSpriteHit(r, t).y = r.y
         /\ CheckSpriteHit(r, t).sprite \in {r.sprite, NoSprite}
<1> DEFINE q == [r EXCEPT !.hit = TRUE, !.sprite = NoSprite]
           c == CheckSpriteHit(r, t)
<1>1. q \in LineState
  BY DEF LineState
<1>2. /\ q.on = r.on /\ q.first = r.first /\ q.px = r.px /\ q.tofix = r.tofix
      /\ q.row = r.row /\ q.pipe = r.pipe /\ q.y = r.y /\ q.sprite = NoSprite
  BY DEF LineState
<1>3. c = q \/ c = r
  BY DEF CheckSpriteHit
<1> HIDE DEF q, c
<1>4. /\ c \in LineState /\ c.on = r.on /\ c.first = r.first /\ c.px = r.px
      /\ c.tofix = r.tofix /\ c.row = r.row /\ c.pipe = r.pipe /\ c.y = r.y
      /\ c.sprite \in {r.sprite, NoSprite}
  BY <1>1, <1>2, <1>3
<1> QED  BY <1>4 DEF c

\* Repainting the positions of the iterations drawn keeps the row exact.
LEMMA RepaintExact ==
  ASSUME NEW ra, NEW pa, NEW f \in Nat, NEW n \in 0..Fetches, f < n, NEW m,
         \A i \in Tile : f <= i /\ i < n => ra[i][1] = m,
         NEW r, Exact(ra, pa, f, n, r), NEW p \in 0..(Tiles - 1)
  PROVE  /\ p \in Repainted(f, n, m) => At(ra, pa, n, n, p) = Backdrop
         /\ p \notin Repainted(f, n, m) => At(ra, pa, n, n, p) = r.row[p]
<1>0. /\ n \in Nat /\ p \in Nat /\ n <= Fetches /\ Tiles \in Nat /\ Fetches = Tiles + 2
      /\ p < Tiles
  BY LineSizes
<1>1. r.row[p] = At(ra, pa, f, n, p)
  BY DEF Exact
<1>2. /\ Place(ra, n) \in Nat /\ n <= Place(ra, n) + 2
  BY <1>0, PlaceStep, PlaceLag
<1>3. p \in Repainted(f, n, m) <=> f <= p + 2 /\ p + 2 < n /\ Hidden(ra, p)
  <2>1. ASSUME f <= p + 2, p + 2 < n
        PROVE  ra[p + 2][1] = m
    BY <1>0, <2>1 DEF Tile
  <2>2. ASSUME f <= p + 2, p + 2 < n
        PROVE  p \in Repainted(f, n, m) <=> Hidden(ra, p)
    BY <1>0, <2>1, <2>2 DEF Repainted, Hidden
  <2>3. ASSUME ~(f <= p + 2 /\ p + 2 < n)
        PROVE  p \notin Repainted(f, n, m)
    BY <1>0, <2>3 DEF Repainted
  <2> QED  BY <2>2, <2>3
<1>4. CASE p + 2 < n /\ Hidden(ra, p)
  <2>1. ~(Place(ra, n) <= p)
    BY <1>0, <1>2, <1>4
  <2>2. At(ra, pa, n, n, p) = Backdrop
    BY <1>4, <2>1 DEF At
  <2>3. CASE f <= p + 2
    BY <1>3, <1>4, <2>2, <2>3
  <2>4. CASE ~(f <= p + 2)
    <3>1. At(ra, pa, f, n, p) = Backdrop
      BY <1>0, <1>4, <2>1, <2>4 DEF At
    <3> QED  BY <1>1, <2>2, <3>1
  <2> QED  BY <2>3, <2>4
<1>5. CASE ~(p + 2 < n /\ Hidden(ra, p))
  <2>1. p \notin Repainted(f, n, m)
    BY <1>3, <1>5
  <2>2. ~(p + 2 < f /\ Hidden(ra, p))
    BY <1>0, <1>5
  <2>3. At(ra, pa, n, n, p) = At(ra, pa, f, n, p)
    BY <1>5, <2>2 DEF At
  <2> QED  BY <1>1, <2>1, <2>3
<1> QED  BY <1>4, <1>5

\* What a catch-up does: nothing, or all iterations up to its last tile, and the Y
\* increment if it is late.
Synced(r, q, m, t) ==
  /\ q \in LineState /\ q.px <= q.first /\ r.first <= q.first /\ q.on = r.on
  /\ q.sprite \in {r.sprite, NoSprite}
  /\ \/ q = r /\ (~r.on \/ LastTile(r, t) <= r.first)
     \/ /\ r.on /\ r.first < q.first /\ q.first = LastTile(r, t)
        /\ IF r.tofix /\ Late(t)
           THEN q.tofix = FALSE /\ q.y = (IF Rendering(m) THEN r.y + 1 ELSE r.y)
           ELSE q.tofix = r.tofix /\ q.y = r.y

LEMMA SyncKeeps ==
  ASSUME NEW ra, NEW pa, NEW r \in LineState, r.px <= r.first, NEW m, NEW k \in Looks,
         NEW t \in Nat
  PROVE  /\ Synced(r, LineSync(r, m, k, t), m, t)
         /\ /\ \A i \in Tile : i >= r.first => ra[i] = <<m, k>>
            /\ Exact(ra, pa, r.first, r.first, r)
            => Exact(ra, pa, LineSync(r, m, k, t).first, LineSync(r, m, k, t).first,
                     LineSync(r, m, k, t))
<1> DEFINE n == LastTile(r, t)
           q == LineSync(r, m, k, t)
           Given == /\ \A i \in Tile : i >= r.first => ra[i] = <<m, k>>
                    /\ Exact(ra, pa, r.first, r.first, r)
<1>0. r.first \in Nat /\ n \in 0..Fetches /\ Fetches \in Nat
  <2>1. Fetches \in Nat
    BY LineSizes
  <2>2. n \in 0..Fetches
    BY LastTileIs
  <2>3. r.first \in 0..Fetches
    BY DEF LineState
  <2> QED  BY <2>1, <2>2, <2>3
<1>1. CASE ~r.on \/ n <= r.first
  <2>1. q = r
    BY <1>1 DEF LineSync
  <2> HIDE DEF q
  <2>2. Synced(r, q, m, t)
    BY <1>0, <1>1, <2>1 DEF Synced
  <2>3. Given => Exact(ra, pa, q.first, q.first, q)
    BY <2>1
  <2> QED  BY <2>2, <2>3 DEF q
<1>2. CASE r.on /\ r.first < n
  <2> DEFINE drawn == DrawTiles(r, n, m, k)
             row1 == [p \in 0..(Tiles - 1) |->
                        IF p \in Repainted(r.first, n, m) THEN Backdrop ELSE drawn.row[p]]
             painted == [drawn EXCEPT !.row = row1, !.first = n]
             fixed == IF r.tofix /\ Late(t) THEN YIncrement(painted, m) ELSE painted
  <2>1. q = CheckSpriteHit(fixed, t)
    <3>1. ~(~r.on \/ n <= r.first)
      BY <1>0, <1>2
    <3> QED  BY <3>1 DEF LineSync
  <2>2. /\ drawn \in LineState /\ SameLine(drawn, r) /\ drawn.px <= n
        /\ /\ \A i \in Tile : r.first <= i /\ i < n => ra[i] = <<m, k>>
           /\ Exact(ra, pa, r.first, r.first, r)
           => Exact(ra, pa, r.first, n, drawn)
    BY <1>0, <1>2, DrawTilesKeep
  <2> HIDE DEF n, q, drawn
  <2>3. row1 \in [0..(Tiles - 1) -> Contents]
    <3>1. drawn.row \in [0..(Tiles - 1) -> Contents] /\ Backdrop \in Contents
      BY <2>2 DEF LineState, Contents
    <3> QED  BY <3>1
  <2>4. Given => \A p \in 0..(Tiles - 1) : row1[p] = At(ra, pa, n, n, p)
    <3> SUFFICES ASSUME Given, NEW p \in 0..(Tiles - 1)
                 PROVE  row1[p] = At(ra, pa, n, n, p)
      OBVIOUS
    <3>1. /\ \A i \in Tile : r.first <= i /\ i < n => ra[i] = <<m, k>>
          /\ Exact(ra, pa, r.first, n, drawn)
      <4>1. \A i \in Tile : r.first <= i /\ i < n => ra[i] = <<m, k>>
        BY <1>0 DEF Tile
      <4> QED  BY <2>2, <4>1
    <3>2. /\ p \in Repainted(r.first, n, m) => At(ra, pa, n, n, p) = Backdrop
          /\ p \notin Repainted(r.first, n, m) => At(ra, pa, n, n, p) = drawn.row[p]
      <4>1. /\ r.first \in Nat /\ n \in 0..Fetches /\ r.first < n
            /\ \A i \in Tile : r.first <= i /\ i < n => ra[i][1] = m
        BY <1>0, <1>2, <3>1
      <4> QED  BY <3>1, <4>1, RepaintExact
    <3> QED  BY <3>2
  <2> HIDE DEF row1
  <2>5. /\ painted \in LineState /\ painted.row = row1 /\ painted.first = n
        /\ painted.px = drawn.px /\ painted.pipe = drawn.pipe
        /\ painted.on = r.on /\ painted.sprite = r.sprite /\ painted.tofix = r.tofix
        /\ painted.y = r.y
    BY <1>0, <2>2, <2>3 DEF LineState, SameLine
  <2> HIDE DEF painted
  <2>6. /\ fixed \in LineState /\ fixed.row = row1 /\ fixed.first = n
        /\ fixed.px = drawn.px /\ fixed.pipe = drawn.pipe
        /\ fixed.on = r.on /\ fixed.sprite = r.sprite
        /\ IF r.tofix /\ Late(t)
           THEN fixed.tofix = FALSE /\ fixed.y = (IF Rendering(m) THEN r.y + 1 ELSE r.y)
           ELSE fixed.tofix = r.tofix /\ fixed.y = r.y
    <3>1. CASE r.tofix /\ Late(t)
      <4> DEFINE y1 == IF Rendering(m) THEN painted.y + 1 ELSE painted.y
      <4>1. fixed = [painted EXCEPT !.y = y1, !.tofix = FALSE]
        BY <3>1 DEF YIncrement
      <4>2. y1 \in Nat /\ y1 = IF Rendering(m) THEN r.y + 1 ELSE r.y
        BY <2>5 DEF LineState
      <4> HIDE DEF fixed, y1
      <4>3. /\ fixed \in LineState /\ fixed.row = painted.row /\ fixed.first = painted.first
            /\ fixed.px = painted.px /\ fixed.pipe = painted.pipe /\ fixed.on = painted.on
            /\ fixed.sprite = painted.sprite /\ fixed.tofix = FALSE /\ fixed.y = y1
        BY <2>5, <4>1, <4>2 DEF LineState
      <4> QED  BY <2>5, <3>1, <4>2, <4>3
    <3>2. CASE ~(r.tofix /\ Late(t))
      <4>1. fixed = painted
        BY <3>2
      <4> HIDE DEF fixed
      <4> QED  BY <2>5, <3>2, <4>1
    <3> QED  BY <3>1, <3>2
  <2> HIDE DEF fixed
  <2>7. /\ q \in LineState /\ q.row = row1 /\ q.first = n /\ q.px = drawn.px
        /\ q.pipe = drawn.pipe /\ q.on = r.on /\ q.sprite \in {r.sprite, NoSprite}
        /\ q.tofix = fixed.tofix /\ q.y = fixed.y
    BY <2>1, <2>6, HitShape
  <2>8. Synced(r, q, m, t)
    BY <1>0, <1>2, <2>2, <2>6, <2>7 DEF Synced, n
  <2>9. Given => Exact(ra, pa, q.first, q.first, q)
    <3> SUFFICES ASSUME Given PROVE Exact(ra, pa, n, n, q)
      BY <2>7
    <3>1. \A i \in Tile : r.first <= i /\ i < n => ra[i] = <<m, k>>
      BY <1>0 DEF Tile
    <3>2. drawn.px = Place(ra, n) /\ drawn.pipe = Pipes(ra, pa, n)
      BY <2>2, <3>1 DEF Exact
    <3> QED  BY <2>4, <2>7, <3>2 DEF Exact
  <2> QED  BY <2>8, <2>9 DEF q
<1>3. (~r.on \/ n <= r.first) \/ (r.on /\ r.first < n)
  <2>1. r.on \in BOOLEAN
    BY DEF LineState
  <2> QED  BY <1>0, <2>1
<1> QED  BY <1>1, <1>2, <1>3

\* The row depends on the registers of the tiles drawn only.
LEMMA Agreement ==
  ASSUME NEW ra, NEW rb, NEW pa, NEW f \in 0..Fetches,
         \A i \in Tile : i < f => ra[i] = rb[i],
         NEW r, Exact(ra, pa, f, f, r)
  PROVE  Exact(rb, pa, f, f, r)
<1>0. f \in Nat /\ Fetches \in Nat /\ f <= Fetches /\ Tiles \in Nat /\ Fetches = Tiles + 2
  BY LineSizes
<1>1. ASSUME NEW i \in 0..f
      PROVE  Place(ra, i) = Place(rb, i) /\ Before(ra, i) = Before(rb, i)
  <2>1. \A j \in 0..(i - 1) : ra[j] = rb[j]
    BY <1>0 DEF Tile
  <2>2. {j \in 0..(i - 1) : Shown(ra, j)} = {j \in 0..(i - 1) : Shown(rb, j)}
    BY <2>1 DEF Shown
  <2>3. Before(ra, i) = Before(rb, i)
    BY <2>1 DEF Before
  <2> QED  BY <2>2, <2>3 DEF Place
<1>2. ASSUME NEW i \in 0..f
      PROVE  Pipes(ra, pa, i) = Pipes(rb, pa, i)
  BY <1>1 DEF Pipes
<1>3. f \in 0..f
  BY <1>0
<1>4. ASSUME NEW p \in 0..(Tiles - 1)
      PROVE  At(ra, pa, f, f, p) = At(rb, pa, f, f, p)
  <2>1. Place(ra, f) = Place(rb, f) /\ Place(ra, f) \in Nat
    BY <1>0, <1>1, <1>3, PlaceStep
  <2>2. ASSUME p + 2 < f
        PROVE  Hidden(ra, p) <=> Hidden(rb, p)
    <3>1. p + 2 \in Tile
      BY <1>0 DEF Tile
    <3> QED  BY <2>2, <3>1 DEF Hidden
  <2>3. CASE Place(ra, f) <= p
    BY <2>1, <2>3 DEF At
  <2>4. CASE ~(Place(ra, f) <= p)
    <3>0. p \in Nat /\ p < Place(ra, f)
      BY <1>0, <2>1, <2>4
    <3>1. PICK j \in 0..(f - 1) : Shown(ra, j) /\ Place(ra, j) = p
      BY <1>0, <3>0, PlaceTaken
    <3>2. j \in Tile /\ j \in 0..f /\ ra[j] = rb[j]
      BY <1>0 DEF Tile
    <3>3. Shown(rb, j) /\ Place(rb, j) = p
      BY <1>1, <3>1, <3>2 DEF Shown
    <3> DEFINE ca == CHOOSE h \in 0..(Fetches - 1) : Shown(ra, h) /\ Place(ra, h) = p
               cb == CHOOSE h \in 0..(Fetches - 1) : Shown(rb, h) /\ Place(rb, h) = p
    <3>4. ca = j
      BY <3>1, <3>2, ContentOf
    <3>5. cb = j
      BY <3>2, <3>3, ContentOf
    <3>6. Content(ra, pa, j) = Content(rb, pa, j)
      BY <1>2, <3>2 DEF Content
    <3>7. At(ra, pa, f, f, p) = IF p + 2 < f /\ Hidden(ra, p) THEN Backdrop ELSE Content(ra, pa, ca)
      BY <2>4 DEF At
    <3>8. At(rb, pa, f, f, p) = IF p + 2 < f /\ Hidden(rb, p) THEN Backdrop ELSE Content(rb, pa, cb)
      BY <2>1, <2>4 DEF At
    <3> HIDE DEF ca, cb
    <3> QED  BY <2>2, <3>4, <3>5, <3>6, <3>7, <3>8
  <2> QED  BY <2>3, <2>4
<1> QED  BY <1>1, <1>2, <1>3, <1>4 DEF Exact

\* A row exact to its end shows what it must.
LEMMA ExactIsExpected ==
  ASSUME NEW r, Exact(regsAt, pipeAt, Fetches, Fetches, r), NEW p \in 0..(Tiles - 1)
  PROVE  r.row[p] = Expected(p)
<1> DEFINE c == CHOOSE h \in 0..(Fetches - 1) : Shown(regsAt, h) /\ Place(regsAt, h) = p
           e == CHOOSE h \in 0..(Fetches - 1) : Shows(h) /\ PositionOf(h) = p
<1>1. c = e
  BY DEF Shown, Place, Shows, PositionOf, MaskAt
<1>2. ~(Place(regsAt, Fetches) <= p) /\ p + 2 < Fetches
  <2>1. Fetches \in Nat /\ Tiles \in Nat /\ Fetches = Tiles + 2
    BY LineSizes
  <2>2. Fetches <= Place(regsAt, Fetches) + 2 /\ Place(regsAt, Fetches) \in Nat
    BY <2>1, PlaceLag, PlaceStep
  <2> QED  BY <2>1, <2>2
<1>3. r.row[p] = IF Hidden(regsAt, p) THEN Backdrop ELSE Content(regsAt, pipeAt, c)
  BY <1>2 DEF Exact, At
<1>4. Pipes(regsAt, pipeAt, e) = Pipeline(e)
  BY DEF Pipes, Pipeline, Before, FetchedBefore, MaskAt
<1>5. Expected(p) = IF \/ ~Rendering(MaskAt(e))
                       \/ Rendering(MaskAt(p + 2)) /\ "bg" \notin MaskAt(p + 2)
                       \/ p = 0 /\ Rendering(MaskAt(2)) /\ "left" \notin MaskAt(2)
                    THEN Backdrop ELSE <<Pipeline(e)[1], Pipeline(e)[2], LookAt(e)>>
  BY DEF Expected
<1>6. Hidden(regsAt, p) <=> \/ Rendering(MaskAt(p + 2)) /\ "bg" \notin MaskAt(p + 2)
                            \/ p = 0 /\ Rendering(MaskAt(2)) /\ "left" \notin MaskAt(2)
  <2>1. p = 0 => p + 2 = 2
    OBVIOUS
  <2> QED  BY <2>1 DEF Hidden, MaskAt
<1>7. Content(regsAt, pipeAt, e) = IF Rendering(MaskAt(e))
                                   THEN <<Pipeline(e)[1], Pipeline(e)[2], LookAt(e)>>
                                   ELSE Backdrop
  BY <1>4 DEF Content, MaskAt, LookAt
<1> HIDE DEF c, e
<1> QED  BY <1>1, <1>3, <1>5, <1>6, <1>7

\* A line begins exact.
LEMMA BlankExact ==
  ASSUME NEW ra, NEW r \in LineState, r.px = 0,
         r.row = [p \in 0..(Tiles - 1) |-> Blank]
  PROVE  Exact(ra, r.pipe, 0, 0, r)
<1>1. Place(ra, 0) = 0 /\ Pipes(ra, r.pipe, 0) = <<r.pipe[1], r.pipe[2]>>
  BY PlaceStep, PipesStep
<1>2. r.pipe = <<r.pipe[1], r.pipe[2]>>
  BY DEF LineState
<1>3. \A p \in 0..(Tiles - 1) : Place(ra, 0) <= p
  BY <1>1
<1> QED  BY <1>1, <1>2, <1>3 DEF Exact, At

-----------------------------------------------------------------------------
(* The beginning and the end of a line.                                    *)

LEMMA LineBeginKeeps ==
  ASSUME NEW ra, NEW r \in LineState, NEW sprite \in Sprites \cup {NoSprite}, NEW m,
         NEW k \in Looks, NEW over \in Nat, \A i \in Tile : ra[i] = <<m, k>>
  PROVE  /\ LineBegin(r, sprite, m, k, over) \in LineState
         /\ LineBegin(r, sprite, m, k, over).on = TRUE
         /\ LineBegin(r, sprite, m, k, over).px <= LineBegin(r, sprite, m, k, over).first
         /\ LineBegin(r, sprite, m, k, over).tofix = TRUE
         /\ LineBegin(r, sprite, m, k, over).y = 0
         /\ LineBegin(r, sprite, m, k, over).first = Due([r EXCEPT !.sprite = sprite], over)
         /\ Exact(ra, r.pipe, LineBegin(r, sprite, m, k, over).first,
                  LineBegin(r, sprite, m, k, over).first, LineBegin(r, sprite, m, k, over))
<1> DEFINE begun == [r EXCEPT !.on = TRUE, !.first = 0, !.px = 0, !.tofix = FALSE, !.y = 0,
                              !.row = [p \in 0..(Tiles - 1) |-> Blank],
                              !.sprite = sprite]
           s == LineSync(begun, m, k, over)
           q == [s EXCEPT !.tofix = TRUE]
<1>0. LineBegin(r, sprite, m, k, over) = q
  BY DEF LineBegin
<1>1. /\ begun \in LineState /\ begun.on = TRUE /\ begun.first = 0 /\ begun.px = 0
      /\ begun.tofix = FALSE /\ begun.y = 0 /\ begun.row = [p \in 0..(Tiles - 1) |-> Blank]
      /\ begun.sprite = sprite /\ begun.pipe = r.pipe /\ begun.hit = r.hit
  <2> DEFINE blank == [p \in 0..(Tiles - 1) |-> Blank]
  <2>1. blank \in [0..(Tiles - 1) -> Contents] /\ 0 \in 0..Fetches
    BY LineSizes DEF Contents
  <2> HIDE DEF blank
  <2>2. begun = [r EXCEPT !.on = TRUE, !.first = 0, !.px = 0, !.tofix = FALSE, !.y = 0,
                          !.row = blank, !.sprite = sprite]
    BY DEF blank
  <2> HIDE DEF begun
  <2>3. /\ begun \in LineState /\ begun.on = TRUE /\ begun.first = 0 /\ begun.px = 0
        /\ begun.tofix = FALSE /\ begun.y = 0 /\ begun.row = blank
        /\ begun.sprite = sprite /\ begun.pipe = r.pipe /\ begun.hit = r.hit
    BY <2>1, <2>2 DEF LineState
  <2> QED  BY <2>3 DEF blank
<1> HIDE DEF begun
<1>2. Exact(ra, r.pipe, begun.first, begun.first, begun)
  <2>1. Exact(ra, begun.pipe, 0, 0, begun)
    BY <1>1, BlankExact
  <2> QED  BY <1>1, <2>1
<1>3. Synced(begun, s, m, over) /\ Exact(ra, r.pipe, s.first, s.first, s)
  <2>1. begun.px <= begun.first
    BY <1>1
  <2> QED  BY <1>1, <1>2, <2>1, SyncKeeps
<1> HIDE DEF s
<1>4. s \in LineState /\ s.px <= s.first /\ s.on = TRUE /\ s.sprite \in {sprite, NoSprite} /\ s.y = 0
  BY <1>1, <1>3 DEF Synced
<1>5. s.first = Due([r EXCEPT !.sprite = sprite], over)
  <2> DEFINE armed == [r EXCEPT !.sprite = sprite]
  <2>1. armed.sprite = begun.sprite /\ armed.hit = begun.hit
    BY <1>1 DEF LineState
  <2> HIDE DEF armed
  <2>2. Due(armed, over) = Due(begun, over)
    BY <2>1 DEF Due, Ahead
  <2>3. LastTile(begun, over) = Due(begun, over) /\ Due(begun, over) \in 0..Fetches
    BY <1>1, DueIs
  <2>4. s.first = LastTile(begun, over)
    <3>1. CASE s = begun
      <4>1. LastTile(begun, over) <= 0
        BY <1>1, <1>3, <3>1 DEF Synced
      <4>2. LastTile(begun, over) = 0
        BY <2>3, <4>1
      <4> QED  BY <1>1, <3>1, <4>2
    <3>2. CASE s # begun
      BY <1>3, <3>2 DEF Synced
    <3> QED  BY <3>1, <3>2
  <2> QED  BY <2>2, <2>3, <2>4 DEF armed
<1>6. /\ q \in LineState /\ q.on = TRUE /\ q.px = s.px /\ q.first = s.first
      /\ q.tofix = TRUE /\ q.y = 0 /\ q.sprite = s.sprite /\ q.row = s.row /\ q.pipe = s.pipe
  BY <1>4 DEF LineState
<1>7. Exact(ra, r.pipe, q.first, q.first, q)
  BY <1>3, <1>6 DEF Exact
<1> HIDE DEF q
<1> QED  BY <1>0, <1>4, <1>5, <1>6, <1>7

\* What the invariant says of the Y increment of a line being drawn: ys are the registers
\* that count for it.
YPart(ys, m, k, r) ==
  IF r.tofix THEN r.y = 0 /\ ys = <<m, k>> ELSE r.y = Steps(ys[1])

\* Sprite 0 still waiting after the last look has no hit on the row.
LEMMA LastLook ==
  ASSUME NEW r \in LineState, CheckSpriteHit(r, Dot256).sprite # NoSprite
  PROVE  Overlap(CheckSpriteHit(r, Dot256)) = {}
<1> DEFINE c == CheckSpriteHit(r, Dot256)
           q == [r EXCEPT !.hit = TRUE, !.sprite = NoSprite]
<1>1. Dot256 - 16 = TileDots * Tiles /\ Tiles \in Nat
  BY LineSizes DEF TileDots
<1>2. q.sprite = NoSprite
  BY DEF LineState
<1>3. c = r /\ ~(\E x \in Overlap(r) : x < Dot256 - 16)
  BY <1>2 DEF CheckSpriteHit
<1>4. ASSUME NEW x \in Overlap(r)
      PROVE  x < Dot256 - 16
  <2>1. x < TileDots * Tiles - 1
    BY DEF Overlap
  <2>2. x \in Int
    <3>1. r.sprite \in Sprites \cup {NoSprite} /\ x \in {r.sprite.x + d : d \in r.sprite.data}
      BY DEF Overlap, LineState
    <3>2. r.sprite # NoSprite
      BY <3>1 DEF NoSprite
    <3>3. r.sprite \in Sprites
      BY <3>1, <3>2
    <3>4. r.sprite.x \in 0..(TileDots * Tiles - 1) /\ r.sprite.data \subseteq 0..(TileDots - 1)
      BY <3>3, LineAssumption
    <3>5. PICK d \in r.sprite.data : x = r.sprite.x + d
      BY <3>1
    <3> QED  BY <1>1, <3>4, <3>5 DEF TileDots
  <2> QED  BY <1>1, <2>1, <2>2 DEF TileDots
<1>5. Overlap(r) = {}
  BY <1>3, <1>4
<1> QED  BY <1>3, <1>5

LEMMA LineEndKeeps ==
  ASSUME NEW ra, NEW pa, NEW r \in LineState, r.px <= r.first, r.on = TRUE, NEW m,
         NEW k \in Looks, NEW ys, YPart(ys, m, k, r),
         \A i \in Tile : i >= r.first => ra[i] = <<m, k>>, Exact(ra, pa, r.first, r.first, r)
  PROVE  /\ LineEnd(r, m, k) \in LineState /\ LineEnd(r, m, k).on = FALSE
         /\ LineEnd(r, m, k).px <= LineEnd(r, m, k).first
         /\ LineEnd(r, m, k).sprite # NoSprite => Overlap(LineEnd(r, m, k)) = {}
         /\ LineEnd(r, m, k).y = Steps(ys[1])
         /\ Exact(ra, pa, Fetches, Fetches, LineEnd(r, m, k))
<1> DEFINE s == LineSync(r, m, k, Dot256)
           y1 == PendingY(s, m)
           c == CheckSpriteHit(y1, Dot256)
           q == [c EXCEPT !.on = FALSE]
<1>0. LineEnd(r, m, k) = q
  BY DEF LineEnd
<1>1. /\ Dot256 \in Nat /\ Dot256 \div 8 = Fetches /\ Late(Dot256) /\ Fetches \in Nat
      /\ Fetches - 1 \in Tile /\ Fetches - 1 \in Int
  BY LineSizes DEF Late, Tile
<1>2. Synced(r, s, m, Dot256)
  BY <1>1, SyncKeeps
<1>3. Exact(ra, pa, s.first, s.first, s)
  BY <1>1, SyncKeeps
<1> HIDE DEF s
<1>4. /\ s \in LineState /\ s.px <= s.first /\ r.first <= s.first
      /\ s.sprite \in {r.sprite, NoSprite} /\ s.on = TRUE
      /\ \/ s = r /\ LastTile(r, Dot256) <= r.first
         \/ /\ r.first < s.first /\ s.first = LastTile(r, Dot256)
            /\ IF r.tofix
               THEN s.tofix = FALSE /\ s.y = (IF Rendering(m) THEN r.y + 1 ELSE r.y)
               ELSE s.tofix = FALSE /\ s.y = r.y
  <2>1. r.tofix \in BOOLEAN
    BY DEF LineState
  <2> QED  BY <1>1, <1>2, <2>1 DEF Synced
<1>5. s.first = Fetches
  <2>1. LastTile(r, Dot256) = Fetches
    BY <1>1, DueIs DEF Ahead
  <2>2. s.first \in 0..Fetches
    BY <1>4 DEF LineState
  <2> QED  BY <1>1, <1>4, <2>1, <2>2
<1>6. /\ y1 \in LineState /\ y1.px = s.px /\ y1.first = s.first /\ y1.row = s.row
      /\ y1.pipe = s.pipe /\ y1.sprite = s.sprite
      /\ y1.y = IF s.tofix /\ Rendering(m) THEN s.y + 1 ELSE s.y
  <2>1. CASE s.tofix
    <3> DEFINE yy == IF Rendering(m) THEN s.y + 1 ELSE s.y
    <3>1. yy \in Nat
      BY <1>4 DEF LineState
    <3>2. y1 = [s EXCEPT !.y = yy, !.tofix = FALSE]
      BY <2>1 DEF PendingY, YIncrement
    <3>3. yy = IF s.tofix /\ Rendering(m) THEN s.y + 1 ELSE s.y
      BY <2>1
    <3> HIDE DEF yy, y1
    <3>4. /\ y1 \in LineState /\ y1.px = s.px /\ y1.first = s.first /\ y1.row = s.row
          /\ y1.pipe = s.pipe /\ y1.sprite = s.sprite /\ y1.y = yy
      BY <1>4, <3>1, <3>2 DEF LineState
    <3> QED  BY <3>3, <3>4
  <2>2. CASE ~s.tofix
    <3>1. y1 = s
      BY <2>2 DEF PendingY
    <3> HIDE DEF y1
    <3> QED  BY <1>4, <2>2, <3>1
  <2> QED  BY <2>1, <2>2
<1> HIDE DEF y1
<1>7. /\ c \in LineState /\ c.px = s.px /\ c.first = s.first /\ c.row = s.row
      /\ c.pipe = s.pipe /\ c.y = y1.y
  BY <1>6, HitShape
<1>8. c.sprite # NoSprite => Overlap(c) = {}
  BY <1>6, LastLook
<1> HIDE DEF c
<1>9. /\ q \in LineState /\ q.on = FALSE /\ q.px = s.px /\ q.first = s.first /\ q.row = s.row
      /\ q.pipe = s.pipe /\ q.y = y1.y /\ q.sprite = c.sprite /\ q.row = c.row
  BY <1>7 DEF LineState
<1> HIDE DEF q
<1>10. q.sprite # NoSprite => Overlap(q) = {}
  BY <1>8, <1>9 DEF Overlap
<1>11. r.tofix \in BOOLEAN
  BY DEF LineState
<1>12. q.y = Steps(ys[1])
  <2>1. CASE r.tofix
    <3>1. r.y = 0 /\ ys[1] = m
      BY <2>1 DEF YPart
    <3> QED  BY <1>4, <1>6, <1>9, <2>1, <3>1 DEF Steps
  <2>2. CASE ~r.tofix
    <3>1. r.y = Steps(ys[1])
      BY <2>2 DEF YPart
    <3> QED  BY <1>4, <1>6, <1>9, <2>2, <3>1
  <2> QED  BY <2>1, <2>2
<1>13. Exact(ra, pa, Fetches, Fetches, q)
  BY <1>3, <1>5, <1>9 DEF Exact
<1> QED  BY <1>0, <1>4, <1>9, <1>10, <1>12, <1>13

-----------------------------------------------------------------------------
(* The program's instructions.                                             *)

LEMMA YSoFarIs == YSoFar /\ Drawing => YPart(regsAt[Fetches], mask, look, rl)
BY DEF YSoFar, YPart, MaskAt

LEMMA TypesOfLine ==
  ASSUME Types
  PROVE  /\ rl \in LineState /\ rl.px <= rl.first /\ rl.first \in Nat /\ rl.first <= Fetches
         /\ look \in Looks /\ pos \in Nat /\ cut \in {0, 1} /\ taken \in 0..Fetches
         /\ rl.tofix \in BOOLEAN /\ rl.y \in Nat /\ rl.on = Drawing /\ Drawing \in BOOLEAN
         /\ regsAt \in [Entry -> Settings] /\ pipeAt \in Tile \X Tile
         /\ <<mask, look>> \in Settings
<1>1. look \in Looks
  BY DEF Types, Looks
<1>2. rl \in LineState /\ Fetches \in Nat
  BY LineSizes DEF Types
<1>3. rl.first \in Nat /\ rl.first <= Fetches /\ rl.tofix \in BOOLEAN /\ rl.y \in Nat
  BY <1>2 DEF LineState
<1> QED  BY <1>1, <1>2, <1>3 DEF Types, Drawing

\* A tile ends before the clock stands at a later one.
LEMMA BeamReaches ==
  ASSUME Types, OnLine, pos < Beam
  PROVE  /\ Drawing => pos < Dot256
         /\ ~Drawing => phase = "hblank"
<1>1. cut \in {0, 1} /\ pos \in Nat /\ Dot256 >= 32 /\ Dot256 \in Nat /\ TailDots = 16
  BY LineSizes DEF Types
<1> QED  BY <1>1 DEF Drawing, OnLine, Beam

\* The state after a catch-up at clock t, for registers changed from t on.
TakenThen(t) == IF Ahead(rl, t) /\ ~StepDue(t) THEN Due(rl, t) ELSE taken

\* Tiles drawn are those for which a write at clock t does not count, and the Y step is
\* done or not as the write does not count for it or does.
Caught(t, q) ==
  /\ rl.first <= q.first
  /\ \A i \in Tile : Counts(i, t) <=> i >= q.first
  /\ InTime(q.first, TakenThen(t), t, q.tofix) /\ TakenThen(t) \in 0..Fetches
  /\ Counts(Fetches, t) <=> q.tofix
  /\ IF q.tofix THEN rl.tofix /\ q.y = 0
     ELSE q.y = Steps(MaskAt(Fetches)) /\ Late(t) /\ TakenThen(t) < Fetches

LEMMA SyncedLine ==
  ASSUME LineInv, OnLine, pos < Beam, NEW t \in Nat, t >= pos + 8, Drawing
  PROVE  /\ Caught(t, LineSync(rl, mask, look, t))
         /\ Exact(regsAt, pipeAt, LineSync(rl, mask, look, t).first,
                  LineSync(rl, mask, look, t).first, LineSync(rl, mask, look, t))
<1> DEFINE q == LineSync(rl, mask, look, t)
           d == Due(rl, t)
           a == Ahead(rl, t)
<1>1. /\ rl \in LineState /\ rl.px <= rl.first /\ rl.first \in Nat /\ rl.first <= Fetches
      /\ look \in Looks /\ pos \in Nat /\ rl.on = TRUE /\ rl.tofix \in BOOLEAN /\ rl.y \in Nat
      /\ taken \in 0..Fetches /\ rl.first \in 0..Fetches
  BY TypesOfLine DEF LineInv, LineState
<1>2. /\ InTime(rl.first, taken, pos, rl.tofix)
      /\ \A i \in Tile : i >= rl.first => regsAt[i] = <<mask, look>>
      /\ Exact(regsAt, pipeAt, rl.first, rl.first, rl)
      /\ IF rl.tofix THEN rl.y = 0 /\ regsAt[Fetches] = <<mask, look>>
         ELSE rl.y = Steps(MaskAt(Fetches)) /\ Late(pos) /\ taken < Fetches
  BY DEF LineInv, TilesPassed, RowSoFar, YSoFar
<1>3. Synced(rl, q, mask, t) /\ Exact(regsAt, pipeAt, q.first, q.first, q)
  BY <1>1, <1>2, SyncKeeps
<1>4. Fetches \in Nat /\ Dot256 = 8 * Fetches /\ pos < Dot256
  BY LineSizes, BeamReaches DEF LineInv
<1>5. LastTile(rl, t) = d /\ d \in 0..Fetches
  BY <1>1, DueIs
<1>6. /\ taken <= rl.first /\ taken <= d
      /\ a => taken < d /\ 8 * d <= t + 8
      /\ ~a => 8 * d <= t
      /\ d <= rl.first => rl.first <= taken \/ (~rl.tofix /\ Late(pos))
      /\ Late(pos) => Late(t) /\ d = Fetches /\ ~a
  BY <1>1, <1>2, <1>4, Reaches
<1>7. Late(t) <=> StepDue(t)
  BY LateIs
<1> HIDE DEF q
<1>8. /\ q \in LineState /\ rl.first <= q.first
      /\ \/ q = rl /\ d <= rl.first
         \/ /\ rl.first < q.first /\ q.first = d
            /\ IF rl.tofix /\ Late(t)
               THEN q.tofix = FALSE /\ q.y = (IF Rendering(mask) THEN rl.y + 1 ELSE rl.y)
               ELSE q.tofix = rl.tofix /\ q.y = rl.y
  BY <1>1, <1>3, <1>5 DEF Synced
<1>9. q.first \in 0..Fetches /\ q.first \in Nat /\ q.tofix \in BOOLEAN
  BY <1>4, <1>8 DEF LineState
<1>10. Counts(Fetches, t) <=> (StepDue(t) => d <= taken)
  BY <1>1, <1>4 DEF Counts
<1>11. \A i \in Tile : Counts(i, t) <=> i >= taken /\ i >= d
  BY <1>1, <1>4 DEF Counts, Tile
<1>12. TakenThen(t) = IF a /\ ~StepDue(t) THEN d ELSE taken
  BY DEF TakenThen
<1>13. InTime(q.first, TakenThen(t), t, q.tofix) <=>
         /\ TakenThen(t) <= q.first /\ 8 * TakenThen(t) <= t + 8
         /\ 8 * q.first <= t \/ q.first <= TakenThen(t) \/ (Late(t) /\ ~q.tofix)
  BY DEF InTime, TileDots
<1>14. 8 * taken <= pos + 8 /\ (8 * rl.first <= pos \/ rl.first <= taken \/ (Late(pos) /\ ~rl.tofix))
  BY <1>2 DEF InTime, TileDots
<1>15. /\ rl.tofix => rl.y = 0 /\ MaskAt(Fetches) = mask
       /\ ~rl.tofix => rl.y = Steps(MaskAt(Fetches)) /\ Late(pos) /\ taken < Fetches
  BY <1>1, <1>2 DEF MaskAt
<1> HIDE DEF d, a
<1>16. ASSUME q = rl /\ d <= rl.first
       PROVE  /\ \A i \in Tile : Counts(i, t) <=> i >= q.first
              /\ InTime(q.first, TakenThen(t), t, q.tofix) /\ TakenThen(t) \in 0..Fetches
              /\ Counts(Fetches, t) <=> q.tofix
              /\ q.tofix => rl.tofix /\ q.y = 0
              /\ ~q.tofix => q.y = Steps(MaskAt(Fetches)) /\ Late(t) /\ TakenThen(t) < Fetches
  <2>1. rl.first <= taken \/ (~rl.tofix /\ Late(pos))
    BY <1>6, <1>16
  <2>2. \A i \in Tile : Counts(i, t) <=> i >= q.first
    BY <1>1, <1>4, <1>5, <1>6, <1>11, <1>16, <2>1 DEF Tile
  <2>3. ~a
    BY <1>1, <1>5, <1>6, <1>16, <2>1
  <2>4. TakenThen(t) = taken
    BY <1>12, <2>3
  <2>5. InTime(q.first, TakenThen(t), t, q.tofix)
    BY <1>1, <1>6, <1>13, <1>14, <1>16, <2>1, <2>4
  <2>6. Counts(Fetches, t) <=> q.tofix
    <3>1. CASE rl.tofix
      <4>1. d <= taken
        BY <1>1, <1>5, <1>16, <2>1, <3>1
      <4> QED  BY <1>10, <1>16, <3>1, <4>1
    <3>2. CASE ~rl.tofix
      <4>1. StepDue(t) /\ d = Fetches /\ taken < Fetches
        BY <1>6, <1>7, <1>15, <3>2
      <4>2. ~(d <= taken)
        BY <1>1, <1>4, <4>1
      <4> QED  BY <1>10, <1>16, <3>2, <4>1, <4>2
    <3> QED  BY <3>1, <3>2
  <2>7. q.tofix => rl.tofix /\ q.y = 0
    BY <1>15, <1>16
  <2>8. ~q.tofix => q.y = Steps(MaskAt(Fetches)) /\ Late(t) /\ TakenThen(t) < Fetches
    BY <1>6, <1>15, <1>16, <2>4
  <2>9. TakenThen(t) \in 0..Fetches
    BY <1>1, <2>4
  <2> QED  BY <2>2, <2>5, <2>6, <2>7, <2>8, <2>9
<1>17. ASSUME /\ rl.first < q.first /\ q.first = d
              /\ IF rl.tofix /\ Late(t)
                 THEN q.tofix = FALSE /\ q.y = (IF Rendering(mask) THEN rl.y + 1 ELSE rl.y)
                 ELSE q.tofix = rl.tofix /\ q.y = rl.y
       PROVE  /\ \A i \in Tile : Counts(i, t) <=> i >= q.first
              /\ InTime(q.first, TakenThen(t), t, q.tofix) /\ TakenThen(t) \in 0..Fetches
              /\ Counts(Fetches, t) <=> q.tofix
              /\ q.tofix => rl.tofix /\ q.y = 0
              /\ ~q.tofix => q.y = Steps(MaskAt(Fetches)) /\ Late(t) /\ TakenThen(t) < Fetches
  <2>1. taken < d /\ taken < Fetches
    BY <1>1, <1>4, <1>5, <1>6, <1>17
  <2>2. \A i \in Tile : Counts(i, t) <=> i >= q.first
    BY <1>1, <1>4, <1>5, <1>11, <1>17, <2>1 DEF Tile
  <2>3. TakenThen(t) \in 0..Fetches /\ TakenThen(t) <= q.first
    BY <1>1, <1>5, <1>12, <1>17, <2>1
  <2>4. q.tofix => rl.tofix /\ ~Late(t) /\ q.y = 0
    BY <1>1, <1>6, <1>15, <1>17
  <2>5. ~q.tofix => Late(t) /\ q.y = Steps(MaskAt(Fetches)) /\ TakenThen(t) = taken
    <3> SUFFICES ASSUME ~q.tofix
                 PROVE  Late(t) /\ q.y = Steps(MaskAt(Fetches)) /\ TakenThen(t) = taken
      OBVIOUS
    <3>1. CASE rl.tofix
      <4>1. Late(t) /\ q.y = (IF Rendering(mask) THEN rl.y + 1 ELSE rl.y)
        BY <1>17, <3>1
      <4>2. rl.y = 0 /\ MaskAt(Fetches) = mask
        BY <1>15, <3>1
      <4>3. q.y = Steps(mask)
        BY <4>1, <4>2 DEF Steps
      <4>4. TakenThen(t) = taken
        BY <1>7, <1>12, <4>1
      <4> QED  BY <4>1, <4>2, <4>3, <4>4
    <3>2. CASE ~rl.tofix
      BY <1>6, <1>12, <1>15, <1>17, <3>2
    <3> QED  BY <1>1, <3>1, <3>2
  <2>6. Counts(Fetches, t) <=> q.tofix
    <3>1. ~(d <= taken)
      BY <1>1, <1>5, <2>1
    <3> QED  BY <1>7, <1>9, <1>10, <2>4, <2>5, <3>1
  <2>7. InTime(q.first, TakenThen(t), t, q.tofix)
    <3>1. CASE a /\ ~StepDue(t)
      <4>1. TakenThen(t) = d
        BY <1>12, <3>1
      <4> QED  BY <1>6, <1>13, <1>17, <2>3, <3>1, <4>1
    <3>2. CASE a /\ StepDue(t)
      <4>1. TakenThen(t) = taken /\ ~q.tofix /\ Late(t)
        BY <1>7, <1>9, <1>12, <2>4, <3>2
      <4>2. 8 * taken <= t + 8
        BY <1>1, <1>14
      <4> QED  BY <1>13, <2>3, <4>1, <4>2
    <3>3. CASE ~a
      <4>1. TakenThen(t) = taken /\ 8 * q.first <= t
        BY <1>6, <1>12, <1>17, <3>3
      <4>2. 8 * taken <= t + 8
        BY <1>1, <1>14
      <4> QED  BY <1>13, <2>3, <4>1, <4>2
    <3> QED  BY <3>1, <3>2, <3>3
  <2>8. ~q.tofix => q.y = Steps(MaskAt(Fetches)) /\ Late(t) /\ TakenThen(t) < Fetches
    BY <2>1, <2>5
  <2>9. q.tofix => rl.tofix /\ q.y = 0
    BY <2>4
  <2>10. TakenThen(t) \in 0..Fetches
    BY <2>3
  <2> QED  BY <2>2, <2>6, <2>7, <2>8, <2>9, <2>10
<1>18. /\ \A i \in Tile : Counts(i, t) <=> i >= q.first
       /\ InTime(q.first, TakenThen(t), t, q.tofix) /\ TakenThen(t) \in 0..Fetches
       /\ Counts(Fetches, t) <=> q.tofix
       /\ q.tofix => rl.tofix /\ q.y = 0
       /\ ~q.tofix => q.y = Steps(MaskAt(Fetches)) /\ Late(t) /\ TakenThen(t) < Fetches
  BY <1>8, <1>16, <1>17
<1>19. Caught(t, q)
  <2>1. CASE q.tofix
    BY <1>8, <1>18, <2>1 DEF Caught
  <2>2. CASE ~q.tofix
    BY <1>8, <1>18, <2>2 DEF Caught
  <2> QED  BY <2>1, <2>2
<1> QED  BY <1>3, <1>19 DEF q

\* The registers after a write at clock t, or without one.
Seen(t) ==
  \/ UNCHANGED <<mask, look, regsAt>>
  \/ \A i \in Entry : regsAt'[i] = IF Counts(i, t) THEN <<mask', look'>> ELSE regsAt[i]

\* A finished row stays exact while nothing of the line changes.
LEMMA FinishedKeeps ==
  ASSUME RowExact, YOncePerLine, NoHitMissed, UNCHANGED <<phase, rl, regsAt, pipeAt>>
  PROVE  RowExact' /\ YOncePerLine' /\ NoHitMissed'
<1>1. UNCHANGED phase /\ UNCHANGED rl /\ UNCHANGED regsAt /\ UNCHANGED pipeAt
  OBVIOUS
<1>2. ASSUME NEW p
      PROVE  Expected(p)' = Expected(p)
  BY <1>1 DEF Expected, Shows, PositionOf, MaskAt, LookAt, Pipeline, FetchedBefore
<1>3. RowExact'
  BY <1>1, <1>2 DEF RowExact, RowFinished
<1>4. YOncePerLine'
  BY <1>1 DEF YOncePerLine, RowFinished, MaskAt
<1>5. NoHitMissed'
  BY <1>1 DEF NoHitMissed, RowFinished
<1> QED  BY <1>3, <1>4, <1>5

\* Reads and writes of the program on a line.
LEMMA AccessKeeps ==
  ASSUME LineInv, OnLine, pos < Beam, pos' \in Nat, pos' >= pos + 8,
         rl' = LineSync(rl, mask, look, pos'), TakenBy(pos'),
         UNCHANGED <<phase, sl, cut, next, pipeAt>>,
         regsAt' \in [Entry -> Settings], <<mask', look'>> \in Settings, Seen(pos')
  PROVE  LineInv'
<1>1. /\ rl \in LineState /\ rl.px <= rl.first /\ rl.first \in Nat /\ rl.first <= Fetches
      /\ look \in Looks /\ pos \in Nat /\ rl.on = Drawing /\ rl.tofix \in BOOLEAN /\ rl.y \in Nat
      /\ Drawing \in BOOLEAN /\ cut \in {0, 1} /\ regsAt \in [Entry -> Settings]
      /\ taken \in 0..Fetches
  BY TypesOfLine DEF LineInv
<1>2. Synced(rl, rl', mask, pos')
  BY <1>1, SyncKeeps
<1>3. /\ rl' \in LineState /\ rl'.px <= rl'.first /\ rl'.on = rl.on /\ rl.first <= rl'.first
      /\ ~rl.on => rl' = rl
  BY <1>2 DEF Synced
<1>4. Drawing' = Drawing
  BY DEF Drawing
<1>5. taken' = TakenThen(pos') /\ taken' \in 0..Fetches
  <2>1. Due(rl, pos') \in 0..Fetches
    BY <1>1, DueIs
  <2>2. taken' = TakenThen(pos')
    BY DEF TakenBy, TakenThen
  <2> QED  BY <1>1, <2>1, <2>2 DEF TakenThen
<1>6. Types'
  BY <1>1, <1>3, <1>4, <1>5 DEF LineInv, Types
<1>7. CASE Drawing
  <2>1. Caught(pos', rl') /\ Exact(regsAt, pipeAt, rl'.first, rl'.first, rl')
    BY <1>7, SyncedLine
  <2>2. rl'.first \in 0..Fetches /\ rl'.first \in Nat /\ Fetches \in Nat /\ Fetches \in Entry
    BY <1>3, LineSizes DEF LineState, Entry
  <2>3. /\ \A i \in Tile : i < rl'.first => regsAt[i] = regsAt'[i]
        /\ \A i \in Tile : i >= rl'.first => regsAt'[i] = <<mask', look'>>
        /\ rl'.tofix => regsAt'[Fetches] = <<mask', look'>>
        /\ ~rl'.tofix => regsAt'[Fetches] = regsAt[Fetches]
    <3>1. CASE UNCHANGED <<mask, look, regsAt>>
      <4>1. /\ \A i \in Tile : i >= rl.first => regsAt[i] = <<mask, look>>
            /\ rl.tofix => regsAt[Fetches] = <<mask, look>>
        BY <1>7 DEF LineInv, TilesPassed, YSoFar
      <4>2. \A i \in Tile : i >= rl'.first => i >= rl.first
        BY <1>1, <1>3, <2>2 DEF Tile
      <4>3. rl'.tofix => rl.tofix
        BY <2>1 DEF Caught
      <4> QED  BY <3>1, <4>1, <4>2, <4>3
    <3>2. CASE \A i \in Entry :
                 regsAt'[i] = IF Counts(i, pos') THEN <<mask', look'>> ELSE regsAt[i]
      <4>1. \A i \in Tile : i \in Entry
        BY <2>2 DEF Tile, Entry
      <4>2. \A i \in Tile : Counts(i, pos') <=> i >= rl'.first
        BY <2>1 DEF Caught
      <4>3. Counts(Fetches, pos') <=> rl'.tofix
        BY <2>1 DEF Caught
      <4>4. \A i \in Tile : i < rl'.first => ~(i >= rl'.first)
        BY <2>2 DEF Tile
      <4> QED  BY <2>2, <3>2, <4>1, <4>2, <4>3, <4>4
    <3> QED  BY <3>1, <3>2 DEF Seen
  <2>4. TilesPassed'
    <3>1. InTime(rl'.first, taken', pos', rl'.tofix)
      BY <1>5, <2>1 DEF Caught
    <3>2. InTime(rl.first, taken, pos, rl.tofix)' <=> InTime(rl'.first, taken', pos', rl'.tofix)
      BY DEF InTime, Late
    <3> QED  BY <2>3, <3>1, <3>2 DEF TilesPassed
  <2>5. RowSoFar'
    <3> SUFFICES Exact(regsAt', pipeAt', rl'.first, rl'.first, rl')
      BY DEF RowSoFar, Exact, At, Place, Pipes, Hidden, Content, Shown, Before
    <3>1. /\ Exact(regsAt, pipeAt, rl'.first, rl'.first, rl')
          /\ \A i \in Tile : i < rl'.first => regsAt[i] = regsAt'[i]
      BY <2>1, <2>3
    <3> QED  BY <2>2, <3>1, Agreement
  <2>6. YSoFar'
    <3>1. CASE rl'.tofix
      BY <2>1, <2>3, <3>1 DEF YSoFar, Caught
    <3>2. CASE ~rl'.tofix
      <4>1. rl'.y = Steps(MaskAt(Fetches)) /\ Late(pos') /\ taken' < Fetches
        BY <1>5, <2>1, <3>2 DEF Caught
      <4>2. MaskAt(Fetches)' = MaskAt(Fetches)
        BY <2>3, <3>2 DEF MaskAt
      <4>3. Late(pos)' <=> Late(pos')
        BY DEF Late
      <4>4. Steps(MaskAt(Fetches))' = Steps(MaskAt(Fetches))
        BY <4>2 DEF Steps
      <4> QED  BY <3>2, <4>1, <4>3, <4>4 DEF YSoFar
    <3> QED  BY <3>1, <3>2
  <2>7. phase' # "hblank"
    BY <1>7 DEF Drawing
  <2>8. RowExact' /\ YOncePerLine' /\ NoHitMissed'
    BY <2>7 DEF RowExact, YOncePerLine, NoHitMissed, RowFinished
  <2> QED  BY <1>6, <2>4, <2>5, <2>6, <2>8 DEF LineInv
<1>8. CASE ~Drawing
  <2>1. rl' = rl /\ ~rl.on
    BY <1>1, <1>3, <1>8
  <2>2. regsAt' = regsAt
    <3>1. \A i \in Entry : ~Counts(i, pos')
      BY <2>1 DEF Counts
    <3>2. \A i \in Entry : regsAt'[i] = regsAt[i]
      BY <3>1 DEF Seen
    <3> QED  BY <1>1, <3>2
  <2>3. TilesPassed' /\ RowSoFar' /\ YSoFar'
    BY <1>4, <1>8 DEF TilesPassed, RowSoFar, YSoFar
  <2>4. RowExact' /\ YOncePerLine' /\ NoHitMissed'
    BY <2>1, <2>2, FinishedKeeps DEF LineInv
  <2> QED  BY <1>6, <2>3, <2>4 DEF LineInv
<1> QED  BY <1>7, <1>8

\* Where no line is drawn or finished the types are all there is to keep.
LEMMA OffLineKeeps ==
  ASSUME Types', phase' \in {"vblank", "pre"}
  PROVE  LineInv'
<1>1. phase' # "hblank" /\ ~Drawing'
  BY DEF Drawing
<1>2. TilesPassed' /\ RowSoFar' /\ YSoFar'
  BY <1>1 DEF TilesPassed, RowSoFar, YSoFar
<1>3. RowExact' /\ YOncePerLine' /\ NoHitMissed'
  BY <1>1 DEF RowExact, YOncePerLine, NoHitMissed, RowFinished
<1> QED  BY <1>2, <1>3 DEF LineInv

LEMMA ComputeKeeps == LineInv /\ Compute => LineInv'
<1> SUFFICES ASSUME LineInv, Compute PROVE LineInv'
  OBVIOUS
<1>1. UNCHANGED <<phase, sl, cut, mask, look, rl, next, writes, taken, regsAt, pipeAt>>
  BY DEF Compute
<1>2. rl.first \in Nat /\ pos \in Nat
  BY TypesOfLine DEF LineInv
<1>3. PICK c \in Costs : pos' = pos + 3 * c
  BY DEF Compute
<1>4. c \in Nat
  BY LineAssumption
<1>5. pos' \in Nat /\ pos' >= pos
  BY <1>2, <1>3, <1>4
<1>6. Types'
  BY <1>1, <1>5 DEF LineInv, Types, Drawing
<1>7. TilesPassed'
  <2>1. ASSUME InTime(rl.first, taken, pos, rl.tofix)
        PROVE  InTime(rl.first, taken, pos', rl.tofix)
    <3>1. Late(pos) => Late(pos')
      BY <1>2, <1>5, LineSizes DEF Late
    <3>2. taken \in Nat
      <4>1. taken \in 0..Fetches
        BY TypesOfLine DEF LineInv
      <4> QED  BY <4>1, LineSizes
    <3>3. /\ taken <= rl.first /\ 8 * taken <= pos + 8
          /\ 8 * rl.first <= pos \/ rl.first <= taken \/ (Late(pos) /\ ~rl.tofix)
      BY <2>1 DEF InTime, TileDots
    <3>4. 8 * taken <= pos' + 8
      <4>1. 8 * taken <= pos + 8
        BY <3>3
      <4>2. \A n, a, b \in Nat : 8 * n <= a + 8 /\ b >= a => 8 * n <= b + 8
        OBVIOUS
      <4> QED  BY <1>2, <1>5, <3>2, <4>1, <4>2
    <3>5. 8 * rl.first <= pos => 8 * rl.first <= pos'
      BY <1>2, <1>5
    <3> QED  BY <3>1, <3>3, <3>4, <3>5 DEF InTime, TileDots
  <2>2. InTime(rl.first, taken, pos, rl.tofix)' <=> InTime(rl.first, taken, pos', rl.tofix)
    BY <1>1 DEF InTime, Late
  <2> QED  BY <1>1, <2>1, <2>2 DEF LineInv, TilesPassed, Drawing
<1>8. RowSoFar'
  <2>1. Drawing' = Drawing
    BY <1>1 DEF Drawing
  <2> SUFFICES ASSUME Drawing
               PROVE  Exact(regsAt', pipeAt', rl'.first, rl'.first, rl')
    BY <1>1, <2>1 DEF RowSoFar, Exact, At, Place, Pipes, Hidden, Content, Shown, Before
  <2> QED  BY <1>1 DEF LineInv, RowSoFar
<1>9. YSoFar'
  <2>1. Late(pos) => Late(pos)'
    BY <1>2, <1>5, LineSizes DEF Late
  <2> QED  BY <1>1, <2>1 DEF LineInv, YSoFar, Drawing, MaskAt, Steps
<1>10. RowExact' /\ YOncePerLine' /\ NoHitMissed'
  BY <1>1, FinishedKeeps DEF LineInv
<1> QED  BY <1>6, <1>7, <1>8, <1>9, <1>10 DEF LineInv

LEMMA ReadKeeps == LineInv /\ Read => LineInv'
<1> SUFFICES ASSUME LineInv, Read PROVE LineInv'
  OBVIOUS
<1>1. PICK c \in AccessCosts :
        pos' = pos + 3 * c /\ rl' = LineSync(rl, mask, look, pos') /\ TakenBy(pos')
  BY DEF Read
<1>2. c \in Nat /\ 3 * c >= 8
  BY LineAssumption DEF TileDots
<1>3. pos \in Nat /\ regsAt \in [Entry -> Settings] /\ <<mask, look>> \in Settings
  BY TypesOfLine DEF LineInv
<1>4. pos' \in Nat /\ pos' >= pos + 8
  BY <1>1, <1>2, <1>3
<1>5. OnLine /\ pos < Beam
      /\ UNCHANGED <<phase, sl, cut, next, pipeAt>> /\ UNCHANGED <<mask, look, regsAt>>
  BY DEF Read
<1>6. regsAt' \in [Entry -> Settings] /\ <<mask', look'>> \in Settings /\ Seen(pos')
  BY <1>3, <1>5 DEF Seen
<1> QED  BY <1>1, <1>4, <1>5, <1>6, AccessKeeps

\* What a write does to the registers.
LEMMA WriteSeen ==
  ASSUME regsAt \in [Entry -> Settings], NEW s \in Settings, NEW t, Write(s[1], s[2], t)
  PROVE  regsAt' \in [Entry -> Settings] /\ <<mask', look'>> \in Settings /\ Seen(t)
<1>1. s = <<s[1], s[2]>>
  BY LineAssumption
<1>2. /\ mask' = s[1] /\ look' = s[2]
      /\ regsAt' = [i \in Entry |-> IF Counts(i, t) THEN <<s[1], s[2]>> ELSE regsAt[i]]
  BY DEF Write, Entry
<1>3. regsAt' \in [Entry -> Settings]
  BY <1>1, <1>2
<1>4. Seen(t)
  BY <1>2 DEF Seen
<1> QED  BY <1>1, <1>2, <1>3, <1>4

LEMMA UpdateKeeps == LineInv /\ Update => LineInv'
<1> SUFFICES ASSUME LineInv, Update PROVE LineInv'
  OBVIOUS
<1>1. PICK c \in AccessCosts, s \in Settings :
        /\ pos' = pos + 3 * c /\ rl' = LineSync(rl, mask, look, pos')
        /\ TakenBy(pos') /\ Write(s[1], s[2], pos')
  BY DEF Update
<1>2. c \in Nat /\ 3 * c >= 8
  BY LineAssumption DEF TileDots
<1>3. pos \in Nat /\ regsAt \in [Entry -> Settings]
  BY TypesOfLine DEF LineInv
<1>4. pos' \in Nat /\ pos' >= pos + 8
  BY <1>1, <1>2, <1>3
<1>5. OnLine /\ pos < Beam /\ UNCHANGED <<phase, sl, cut, next, pipeAt>>
  BY DEF Update
<1>6. regsAt' \in [Entry -> Settings] /\ <<mask', look'>> \in Settings /\ Seen(pos')
  BY <1>1, <1>3, WriteSeen
<1> QED  BY <1>1, <1>4, <1>5, <1>6, AccessKeeps

LEMMA UpdateOffLineKeeps == LineInv /\ UpdateOffLine => LineInv'
<1> SUFFICES ASSUME LineInv, UpdateOffLine PROVE LineInv'
  OBVIOUS
<1>1. PICK s \in Settings : Write(s[1], s[2], 0)
  BY DEF UpdateOffLine
<1>2. UNCHANGED <<phase, sl, cut, pos, rl, next, taken, pipeAt>> /\ ~OnLine
  BY DEF UpdateOffLine
<1>3. regsAt \in [Entry -> Settings]
  BY TypesOfLine DEF LineInv
<1>4. regsAt' \in [Entry -> Settings] /\ <<mask', look'>> \in Settings
  BY <1>1, <1>3, WriteSeen
<1>5. phase' \in {"vblank", "pre"}
  BY <1>2 DEF LineInv, Types, OnLine
<1>6. Types'
  BY <1>2, <1>4 DEF LineInv, Types, Drawing
<1> QED  BY <1>5, <1>6, OffLineKeeps

-----------------------------------------------------------------------------
(* The frame loop's calls.                                                 *)

LEMMA NextSprite ==
  ASSUME next \in Sprites \cup {NoSprite}
  PROVE  ResolveSprites(rl) \in Sprites \cup {NoSprite}
BY DEF ResolveSprites

LEMMA EndVblankKeeps == LineInv /\ EndVblank => LineInv'
<1> SUFFICES ASSUME LineInv, EndVblank PROVE LineInv'
  OBVIOUS
<1>1. /\ phase = "vblank" /\ phase' = "pre" /\ rl' = [rl EXCEPT !.hit = FALSE]
      /\ UNCHANGED <<sl, cut, pos, mask, look, next, taken, regsAt, pipeAt>>
  BY DEF EndVblank
<1>2. rl' \in LineState /\ rl'.px <= rl'.first /\ rl'.on = rl.on
  BY <1>1, TypesOfLine DEF LineInv, LineState
<1>3. Types'
  BY <1>1, <1>2 DEF LineInv, Types, Drawing
<1> QED  BY <1>1, <1>3, OffLineKeeps

LEMMA ResetRegistersKeeps == LineInv /\ ResetRegisters => LineInv'
<1> SUFFICES ASSUME LineInv, ResetRegisters PROVE LineInv'
  OBVIOUS
<1>1. /\ phase = "vblank" /\ phase' = "vblank" /\ rl' = [rl EXCEPT !.hit = FALSE]
      /\ UNCHANGED <<sl, cut, pos, next, taken, regsAt, pipeAt>>
      /\ <<mask', look'>> \in Settings
  BY DEF ResetRegisters
<1>2. rl' \in LineState /\ rl'.px <= rl'.first /\ rl'.on = rl.on
  BY <1>1, TypesOfLine DEF LineInv, LineState
<1>3. Types'
  BY <1>1, <1>2 DEF LineInv, Types, Drawing
<1> QED  BY <1>1, <1>3, OffLineKeeps

LEMMA CarrySprite0Keeps == LineInv /\ CarrySprite0 => LineInv'
<1> SUFFICES ASSUME LineInv, CarrySprite0 PROVE LineInv'
  OBVIOUS
<1>1. /\ phase = "hblank" /\ phase' = "vblank" /\ rl' = [rl EXCEPT !.sprite = ResolveSprites(rl)]
      /\ sl' = 0 /\ cut' = 0 /\ pos' = 0
      /\ UNCHANGED <<mask, look, next, taken, regsAt, pipeAt>>
  BY DEF CarrySprite0
<1>2. ResolveSprites(rl) \in Sprites \cup {NoSprite}
  BY NextSprite DEF LineInv, Types
<1>3. rl' \in LineState /\ rl'.px <= rl'.first /\ rl'.on = rl.on
  <2> HIDE DEF NoSprite
  <2> QED  BY <1>1, <1>2, TypesOfLine DEF LineInv, LineState
<1>4. 0 \in 0..(Lines - 1) /\ 0 \in Nat
  BY LineSizes
<1>5. Types'
  BY <1>1, <1>3, <1>4 DEF LineInv, Types, Drawing
<1> QED  BY <1>1, <1>5, OffLineKeeps

\* A line begins with nothing drawn, or with the tiles its overshoot has passed.
LEMMA BeginKeeps ==
  ASSUME LineInv, NEW sprite \in Sprites \cup {NoSprite}, NEW over \in Nat,
         Begin(sprite, over), sl' \in 0..(Lines - 1), cut' \in {0, 1}
  PROVE  LineInv'
<1> DEFINE armed == [rl EXCEPT !.sprite = sprite]
<1>1. /\ phase' = "tail" /\ pos' = over /\ rl' = LineBegin(rl, sprite, mask, look, over)
      /\ regsAt' = [i \in Entry |-> <<mask, look>>] /\ pipeAt' = rl.pipe
      /\ taken' = IF Ahead(armed, over) THEN Due(armed, over) ELSE 0
      /\ mask' = mask /\ look' = look /\ next' = next
  BY DEF Begin, Entry
<1>2. /\ rl \in LineState /\ look \in Looks /\ <<mask, look>> \in Settings
  BY TypesOfLine DEF LineInv
<1>3. Fetches \in Nat /\ Dot256 = 8 * Fetches /\ Fetches \in Entry
  BY LineSizes DEF Entry
<1>4. regsAt' \in [Entry -> Settings] /\ \A i \in Entry : regsAt'[i] = <<mask, look>>
  BY <1>1, <1>2
<1>5. \A i \in Tile : regsAt'[i] = <<mask, look>>
  <2>1. \A i \in Tile : i \in Entry
    BY <1>3 DEF Tile, Entry
  <2> QED  BY <1>4, <2>1
<1>6. /\ rl' \in LineState /\ rl'.on = TRUE /\ rl'.px <= rl'.first /\ rl'.tofix = TRUE
      /\ rl'.y = 0 /\ rl'.first = Due(armed, over)
      /\ Exact(regsAt', rl.pipe, rl'.first, rl'.first, rl')
  <2> DEFINE ra == regsAt'
  <2>1. \A i \in Tile : ra[i] = <<mask, look>>
    BY <1>5
  <2> HIDE DEF ra
  <2>2. /\ LineBegin(rl, sprite, mask, look, over) \in LineState
        /\ LineBegin(rl, sprite, mask, look, over).on = TRUE
        /\ LineBegin(rl, sprite, mask, look, over).px
             <= LineBegin(rl, sprite, mask, look, over).first
        /\ LineBegin(rl, sprite, mask, look, over).tofix = TRUE
        /\ LineBegin(rl, sprite, mask, look, over).y = 0
        /\ LineBegin(rl, sprite, mask, look, over).first = Due(armed, over)
        /\ Exact(ra, rl.pipe, LineBegin(rl, sprite, mask, look, over).first,
                 LineBegin(rl, sprite, mask, look, over).first,
                 LineBegin(rl, sprite, mask, look, over))
    BY <1>2, <2>1, LineBeginKeeps
  <2> QED  BY <1>1, <2>2 DEF ra
<1>7. armed \in LineState
  <2> HIDE DEF NoSprite
  <2> QED  BY <1>2 DEF LineState
<1> HIDE DEF armed
<1>8. taken' \in 0..Fetches /\ InTime(rl'.first, taken', over, rl'.tofix)
  <2> DEFINE d == Due(armed, over)
             e == over \div 8
  <2>1. /\ d \in 0..Fetches
        /\ Ahead(armed, over) => over < Dot256 /\ d = e + 1
        /\ ~Ahead(armed, over) => d = IF over < Dot256 THEN e ELSE Fetches
    BY <1>7, DueIs
  <2>2. e \in Nat /\ 8 * e <= over /\ over < 8 * e + 8
    OBVIOUS
  <2>3. taken' = (IF Ahead(armed, over) THEN d ELSE 0) /\ rl'.first = d
    BY <1>1, <1>6
  <2> HIDE DEF d, e
  <2>4. CASE Ahead(armed, over)
    BY <1>3, <2>1, <2>2, <2>3, <2>4 DEF InTime, TileDots
  <2>5. CASE ~Ahead(armed, over)
    <3>1. 8 * d <= over
      BY <1>3, <2>1, <2>2, <2>5
    <3> QED  BY <1>3, <2>1, <2>3, <2>5, <3>1 DEF InTime, TileDots
  <2> QED  BY <2>4, <2>5
<1>9. Drawing'
  BY <1>1 DEF Drawing
<1>10. Types'
  <2>1. rl.pipe \in Tile \X Tile
    BY <1>2 DEF LineState
  <2>2. next \in Sprites \cup {NoSprite}
    BY DEF LineInv, Types
  <2> QED  BY <1>1, <1>2, <1>4, <1>6, <1>8, <1>9, <2>1, <2>2 DEF Types
<1>11. TilesPassed'
  <2>1. InTime(rl.first, taken, pos, rl.tofix)' <=> InTime(rl'.first, taken', over, rl'.tofix)
    BY <1>1 DEF InTime, Late
  <2> QED  BY <1>1, <1>5, <1>8, <2>1 DEF TilesPassed
<1>12. RowSoFar'
  <2> SUFFICES Exact(regsAt', pipeAt', rl'.first, rl'.first, rl')
    BY DEF RowSoFar, Exact, At, Place, Pipes, Hidden, Content, Shown, Before
  <2> QED  BY <1>1, <1>6
<1>13. YSoFar'
  BY <1>1, <1>3, <1>4, <1>6 DEF YSoFar
<1>14. RowExact' /\ YOncePerLine' /\ NoHitMissed'
  BY <1>1 DEF RowExact, YOncePerLine, NoHitMissed, RowFinished
<1> QED  BY <1>10, <1>11, <1>12, <1>13, <1>14 DEF LineInv

LEMMA LineStartFrameKeeps == LineInv /\ LineStartFrame => LineInv'
<1> SUFFICES ASSUME LineInv, LineStartFrame PROVE LineInv'
  OBVIOUS
<1>1. PICK over \in Overshoots : Begin(rl.sprite, over)
  BY DEF LineStartFrame
<1>2. over \in Nat
  BY LineAssumption
<1>3. rl.sprite \in Sprites \cup {NoSprite}
  BY TypesOfLine DEF LineInv, LineState
<1>4. sl' \in 0..(Lines - 1) /\ cut' \in {0, 1}
  BY LineSizes DEF LineStartFrame
<1> QED  BY <1>1, <1>2, <1>3, <1>4, BeginKeeps

LEMMA LineNextKeeps == LineInv /\ LineNext => LineInv'
<1> SUFFICES ASSUME LineInv, LineNext PROVE LineInv'
  OBVIOUS
<1>1. /\ phase = "hblank" /\ pos >= Beam /\ sl + 1 < Lines
      /\ Begin(ResolveSprites(rl), pos - Beam) /\ sl' = sl + 1 /\ cut' = 0
  BY DEF LineNext
<1>2. pos \in Nat /\ cut \in {0, 1}
  BY TypesOfLine DEF LineInv
<1>3. Beam = LineDots - cut
  BY <1>1 DEF Beam
<1>4. Beam \in Nat
  BY <1>2, <1>3, LineSizes
<1>5. pos - Beam \in Nat
  BY <1>1, <1>2, <1>4
<1>6. ResolveSprites(rl) \in Sprites \cup {NoSprite}
  BY NextSprite DEF LineInv, Types
<1>7. sl' \in 0..(Lines - 1) /\ cut' \in {0, 1}
  <2>1. sl \in 0..(Lines - 1)
    BY DEF LineInv, Types
  <2> QED  BY <1>1, <2>1, LineSizes
<1> QED  BY <1>1, <1>5, <1>6, <1>7, BeginKeeps

\* The beam reaches the line's first dot, with or without the flags cleared.
LEMMA PixelsKeep ==
  ASSUME LineInv, phase = "tail", phase' = "pixels",
         rl' = rl \/ rl' = [rl EXCEPT !.hit = FALSE],
         UNCHANGED <<sl, cut, pos, mask, look, next, taken, regsAt, pipeAt>>
  PROVE  LineInv'
<1>1. /\ rl' \in LineState /\ rl'.on = rl.on /\ rl'.first = rl.first /\ rl'.px = rl.px
      /\ rl'.tofix = rl.tofix /\ rl'.row = rl.row /\ rl'.pipe = rl.pipe
      /\ rl'.sprite = rl.sprite /\ rl'.y = rl.y
  BY TypesOfLine DEF LineInv, LineState
<1>2. Drawing /\ Drawing'
  BY DEF Drawing
<1>3. Types'
  BY <1>1, <1>2 DEF LineInv, Types
<1>4. TilesPassed'
  <2>1. InTime(rl.first, taken, pos, rl.tofix)' <=> InTime(rl.first, taken, pos, rl.tofix)
    BY <1>1 DEF InTime, Late
  <2> QED  BY <1>1, <1>2, <2>1 DEF LineInv, TilesPassed
<1>5. RowSoFar'
  <2> SUFFICES Exact(regsAt', pipeAt', rl'.first, rl'.first, rl')
    BY DEF RowSoFar, Exact, At, Place, Pipes, Hidden, Content, Shown, Before
  <2>1. Exact(regsAt, pipeAt, rl.first, rl.first, rl)
    BY <1>2 DEF LineInv, RowSoFar
  <2>2. Exact(regsAt, pipeAt, rl'.first, rl'.first, rl')
    BY <1>1, <2>1 DEF Exact
  <2> QED  BY <2>2
<1>6. YSoFar'
  BY <1>1, <1>2 DEF LineInv, YSoFar, MaskAt, Late, Steps
<1>7. RowExact' /\ YOncePerLine' /\ NoHitMissed'
  BY DEF RowExact, YOncePerLine, NoHitMissed, RowFinished
<1> QED  BY <1>3, <1>4, <1>5, <1>6, <1>7 DEF LineInv

LEMMA BeginFrameKeeps == LineInv /\ BeginFrame => LineInv'
BY PixelsKeep DEF BeginFrame

LEMMA BeginPixelsKeeps == LineInv /\ BeginPixels => LineInv'
BY PixelsKeep DEF BeginPixels

\* Dot 256: what is left of the row is drawn, and the row is finished.
LEMMA LineEnd256Keeps == LineInv /\ LineEnd256 => LineInv'
<1> SUFFICES ASSUME LineInv, LineEnd256 PROVE LineInv'
  OBVIOUS
<1>1. /\ phase = "pixels" /\ pos >= Beam /\ phase' = "hblank" /\ rl' = LineEnd(rl, mask, look)
      /\ UNCHANGED <<sl, cut, pos, mask, look, taken, regsAt, pipeAt>>
      /\ next' \in Sprites \cup {NoSprite}
  BY DEF LineEnd256
<1>2. /\ rl \in LineState /\ rl.px <= rl.first /\ look \in Looks
      /\ rl.on = Drawing
  BY TypesOfLine DEF LineInv
<1>3. Drawing /\ ~Drawing'
  BY <1>1 DEF Drawing
<1>4. YPart(regsAt[Fetches], mask, look, rl)
  BY <1>3, YSoFarIs DEF LineInv
<1>5. /\ \A i \in Tile : i >= rl.first => regsAt[i] = <<mask, look>>
      /\ Exact(regsAt, pipeAt, rl.first, rl.first, rl)
  BY <1>3 DEF LineInv, TilesPassed, RowSoFar
<1>6. /\ rl' \in LineState /\ rl'.on = FALSE /\ rl'.px <= rl'.first
      /\ rl'.sprite # NoSprite => Overlap(rl') = {}
      /\ rl'.y = Steps(MaskAt(Fetches))
      /\ Exact(regsAt, pipeAt, Fetches, Fetches, rl')
  <2>1. rl.on = TRUE
    BY <1>2, <1>3
  <2>2. /\ LineEnd(rl, mask, look) \in LineState /\ LineEnd(rl, mask, look).on = FALSE
        /\ LineEnd(rl, mask, look).px <= LineEnd(rl, mask, look).first
        /\ LineEnd(rl, mask, look).sprite # NoSprite => Overlap(LineEnd(rl, mask, look)) = {}
        /\ LineEnd(rl, mask, look).y = Steps(regsAt[Fetches][1])
        /\ Exact(regsAt, pipeAt, Fetches, Fetches, LineEnd(rl, mask, look))
    BY <1>2, <1>4, <1>5, <2>1, LineEndKeeps
  <2> QED  BY <1>1, <2>2 DEF MaskAt
<1>7. Types'
  <2>1. rl'.on = Drawing'
    <3>1. rl'.on = FALSE /\ phase' = "hblank"
      BY <1>1, <1>6
    <3>2. Drawing' = FALSE
      <4>1. Drawing' = (phase' \in {"tail", "pixels"})
        BY DEF Drawing
      <4>2. (phase' \in {"tail", "pixels"}) = FALSE
        BY <3>1
      <4> QED  BY <4>1, <4>2
    <3> QED  BY <3>1, <3>2
  <2>2. next' \in Sprites \cup {NoSprite}
    BY <1>1
  <2>3. Types
    BY DEF LineInv
  <2> HIDE DEF NoSprite
  <2> QED  BY <1>1, <1>6, <2>1, <2>2, <2>3 DEF Types
<1>8. TilesPassed' /\ RowSoFar' /\ YSoFar'
  BY <1>3 DEF TilesPassed, RowSoFar, YSoFar
<1>9. RowExact'
  <2>1. ASSUME NEW p
        PROVE  Expected(p)' = Expected(p)
    <3>1. UNCHANGED regsAt /\ UNCHANGED pipeAt
      BY <1>1
    <3> QED  BY <3>1 DEF Expected, Shows, PositionOf, MaskAt, LookAt, Pipeline, FetchedBefore
  <2>2. ASSUME NEW p \in 0..(Tiles - 1)
        PROVE  rl'.row[p] = Expected(p)
    BY <1>6, ExactIsExpected
  <2> QED  BY <1>1, <2>1, <2>2 DEF RowExact
<1>10. YOncePerLine'
  BY <1>1, <1>6 DEF YOncePerLine, MaskAt, Steps
<1>11. NoHitMissed'
  <2>1. Overlap(rl)' = Overlap(rl')
    BY DEF Overlap
  <2> QED  BY <1>6, <2>1 DEF NoHitMissed
<1> QED  BY <1>7, <1>8, <1>9, <1>10, <1>11 DEF LineInv

-----------------------------------------------------------------------------
(* The theorems.                                                           *)

LEMMA InitHolds == Init => LineInv
<1> SUFFICES ASSUME Init PROVE LineInv
  OBVIOUS
<1>1. /\ phase = "vblank" /\ sl = 0 /\ cut = 0 /\ pos = 0 /\ next = NoSprite
      /\ rl = [on |-> FALSE, first |-> 0, px |-> 0, tofix |-> FALSE,
               row |-> [p \in 0..(Tiles - 1) |-> Blank], pipe |-> <<0, 0>>,
               sprite |-> NoSprite, hit |-> FALSE, y |-> 0]
      /\ regsAt = [i \in Entry |-> <<mask, look>>] /\ pipeAt = <<0, 0>> /\ taken = 0
  BY DEF Init, Entry
<1>2. <<mask, look>> \in Settings
  <2>1. PICK s \in Settings : mask = s[1] /\ look = s[2]
    BY DEF Init
  <2>2. s = <<s[1], s[2]>>
    BY LineAssumption
  <2> QED  BY <2>1, <2>2
<1>3. rl \in LineState
  <2>1. 0 \in 0..Fetches /\ 0 \in Tile
    BY LineSizes DEF Tile
  <2>2. [p \in 0..(Tiles - 1) |-> Blank] \in [0..(Tiles - 1) -> Contents]
    BY DEF Contents
  <2> HIDE DEF NoSprite
  <2> QED  BY <1>1, <2>1, <2>2 DEF LineState
<1>4. Types
  <2>1. 0 \in 0..(Lines - 1) /\ 0 \in Tile /\ 0 \in Nat /\ 0 \in 0..Fetches
    BY LineSizes DEF Tile
  <2>2. rl.px <= rl.first /\ rl.on = Drawing
    <3>1. (phase \in {"tail", "pixels"}) = FALSE
      BY <1>1
    <3>2. rl.px = 0 /\ rl.first = 0 /\ rl.on = FALSE
      BY <1>1
    <3>3. Drawing = FALSE
      BY <3>1 DEF Drawing
    <3>4. rl.px <= rl.first
      BY <3>2
    <3> QED  BY <3>2, <3>3, <3>4
  <2> HIDE DEF NoSprite
  <2> QED  BY <1>1, <1>2, <1>3, <2>1, <2>2 DEF Types
<1>5. ~Drawing /\ phase # "hblank"
  BY <1>1 DEF Drawing
<1> QED  BY <1>4, <1>5 DEF LineInv, TilesPassed, RowSoFar, YSoFar, RowExact,
                          YOncePerLine, NoHitMissed, RowFinished

\* Nothing but the history of writes moves in a stuttering step.
LEMMA StutterKeeps == LineInv /\ UNCHANGED vars => LineInv'
<1> SUFFICES ASSUME LineInv, UNCHANGED vars PROVE LineInv'
  OBVIOUS
<1>1. UNCHANGED <<phase, sl, cut, pos, mask, look, rl, next, taken, regsAt, pipeAt>>
  BY DEF vars
<1>2. Types' /\ TilesPassed' /\ YSoFar'
  BY <1>1 DEF LineInv, Types, TilesPassed, InTime, YSoFar, Late, Drawing, MaskAt, Steps
<1>3. RowSoFar'
  <2>1. Drawing' = Drawing
    BY <1>1 DEF Drawing
  <2> SUFFICES ASSUME Drawing
               PROVE  Exact(regsAt', pipeAt', rl'.first, rl'.first, rl')
    BY <1>1, <2>1 DEF RowSoFar, Exact, At, Place, Pipes, Hidden, Content, Shown, Before
  <2> QED  BY <1>1 DEF LineInv, RowSoFar
<1>4. RowExact' /\ YOncePerLine' /\ NoHitMissed'
  BY <1>1, FinishedKeeps DEF LineInv
<1> QED  BY <1>2, <1>3, <1>4 DEF LineInv

\* The renderer never leaves its invariant: what is drawn is what the clock has passed or
\* sprite 0 took ahead of it, exactly as the registers that count for it demand, and V's
\* increment is pending or done.  Line_sync() is called at every register access for its
\* sake.
THEOREM Invariant == Spec => []LineInv
<1>1. Init => LineInv
  BY InitHolds
<1>2. LineInv /\ [Next]_vars => LineInv'
  <2> SUFFICES ASSUME LineInv, [Next]_vars PROVE LineInv'
    OBVIOUS
  <2>1. CASE Program
    BY <2>1, ComputeKeeps, ReadKeeps, UpdateKeeps, UpdateOffLineKeeps DEF Program
  <2>2. CASE FrameCalls
    BY <2>2, ResetRegistersKeeps, EndVblankKeeps, LineStartFrameKeeps, BeginFrameKeeps,
       BeginPixelsKeeps, LineEnd256Keeps, LineNextKeeps, CarrySprite0Keeps DEF FrameCalls
  <2>3. CASE UNCHANGED vars
    BY <2>3, StutterKeeps
  <2> QED  BY <2>1, <2>2, <2>3 DEF Next
<1> QED  BY <1>1, <1>2, PTL DEF Spec

\* The renderer's state is well formed: a line has at most Tiles + 2 iterations and it is
\* on exactly between the calls that begin and end it.
THEOREM TypeCorrect == Spec => []TypeOK
<1>1. LineInv => TypeOK
  BY DEF LineInv, Types, TypeOK, LineState, Drawing, Tile
<1> QED  BY <1>1, Invariant, PTL

\* A row drawn lazily shows what the registers that count for each tile demand, for lines
\* of any width, instructions of any length, with or without an armed sprite 0 and any
\* number of register writes: whatever sequence of catch-ups the program's accesses cause,
\* line_end256() completes that row.
THEOREM RowsExact == Spec => []RowExact
<1>1. LineInv => RowExact
  BY DEF LineInv
<1> QED  BY <1>1, Invariant, PTL

\* The Y increment shared by line_sync() and line_end256() is done once on every line on
\* which rendering is on in the registers that count for it, and not at all on the others.
\* An access that returns early because sprite 0 had its tiles drawn before does not come
\* to the increment, and what it writes counts.
THEOREM YOnce == Spec => []YOncePerLine
<1>1. LineInv => YOncePerLine
  BY DEF LineInv
<1> QED  BY <1>1, Invariant, PTL

\* line_end256() takes the last look: no pixel of a sprite 0 still waiting meets the
\* background of the finished row.
THEOREM NoHitsMissed == Spec => []NoHitMissed
<1>1. LineInv => NoHitMissed
  BY DEF LineInv
<1> QED  BY <1>1, Invariant, PTL
=============================================================================
