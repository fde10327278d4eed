----------------------------- MODULE LineRenderer -----------------------------
(***************************************************************************)
(* The lazy line renderer of the PPU (src/src/ppu.cpp).  A visible line is *)
(* not drawn dot by dot: whenever the program touches a PPU register, when *)
(* the line begins and at dot 256, line_sync() brings the background up to *)
(* the tile the CPU clock has reached, with the registers as they are then.*)
(* The same catch-up performs the pending Y increment of V and finds the   *)
(* sprite-0 hit.  The frame loop around it is reduced to the slices that   *)
(* call into the renderer (FrameLoop models it in full).                   *)
(*                                                                         *)
(* Pixels are abstracted to tiles: a line position shows nothing, the      *)
(* backdrop, or the tile fetched in some iteration drawn with some setting *)
(* of the other synchronized registers (fine X, pattern table).  Fetched   *)
(* tiles are opaque.  Writes to $2007 and OAM do not cause a catch-up and  *)
(* are left out, and so are V's coarse X and the sprite pixels.            *)
(***************************************************************************)
EXTENDS Integers, FiniteSets

CONSTANTS
  Tiles,        \* tiles of a line (32)
  LateMargin,   \* dots before dot 256 from which a catch-up does the Y increment (4)
  HBlank,       \* dots from dot 256 to the start of the next line (6 + 63)
  Lines,        \* visible lines (240)
  Costs,        \* CPU cycles of an instruction, interrupt entry or DMA
  AccessCosts,  \* those of instructions that access a PPU register
  Overshoots,   \* overshoots, in dots, with which line 0 may start
  Settings,     \* what the program gives the synchronized registers: pairs of a value
                \* of $2001, a subset of {"bg", "spr", "left"}, and one of the others
  Sprites,      \* sprite-0 rows an evaluation can find: [x |-> ..., data |-> offsets]
  MaxWrites     \* bound: register writes per line

\* Iterations of a line: two tiles are in the pipeline before the first is shown.
Fetches == Tiles + 2
TileDots == 8
TailDots == 16
Dot256 == TileDots * Fetches
LineDots == Dot256 + HBlank

Masks == {s[1] : s \in Settings}
Looks == {s[2] : s \in Settings}

ASSUME LineAssumption ==
  /\ Tiles \in Nat \ {0, 1} /\ Lines \in Nat \ {0}
  /\ LateMargin \in 0..(TileDots - 1) /\ HBlank \in Nat \ {0}
  /\ Costs \subseteq Nat \ {0} /\ AccessCosts \subseteq Costs /\ Overshoots \subseteq Nat
  /\ \A c \in AccessCosts : 3 * c >= TileDots   \* absolute addressing takes 4 cycles
  /\ Settings \subseteq Masks \X Looks /\ \E k \in Looks : <<{}, k>> \in Settings
  /\ \A m \in Masks : m \subseteq {"bg", "spr", "left"}
  /\ \A s \in Sprites : /\ s.x \in 0..(TileDots * Tiles - 1)
                        /\ s.data # {} /\ s.data \subseteq 0..(TileDots - 1)

NoSprite == [x |-> -1, data |-> {}]
Blank == <<"blank">>
Backdrop == <<"backdrop">>

VARIABLES
  phase,    \* where the frame loop is: "vblank", "pre", or on a line "tail", "pixels", "hblank"
  sl,       \* the visible line
  cut,      \* 1 while line 0 is run a dot short (kook)
  pos,      \* CPU time in dots since the line's origin
  mask,     \* reg_mask, bits 1 ("left"), 3 ("bg") and 4 ("spr")
  look,     \* the other registers whose writes cause a catch-up
  rl,       \* the renderer's line state: rl_on, rl_first, rl_px, rl_tofix, the
            \* pipeline, the row, sprite 0, the hit flag, and V's Y increments
  next      \* nxt_sphitx and nxt_sphitdata, for the next line

(* History variables: read by properties only. *)
VARIABLES
  writes,   \* register writes on this line
  taken,    \* tiles drawn ahead of the clock for sprite 0, while the Y step was not due
  regsAt,   \* the registers that count for each tile of the line, and for the Y step
  pipeAt    \* the pipeline when the line began

vars == <<phase, sl, cut, pos, mask, look, rl, next, writes, taken, regsAt, pipeAt>>

Rendering(m) == m \cap {"bg", "spr"} # {}

-----------------------------------------------------------------------------
(* The catch-up. *)

\* One iteration of the loop in line_sync().  Rendering: the tile fetched two
\* iterations earlier is shown and a new one fetched; otherwise the backdrop is.
DrawTile(r, i, m, k) ==
  LET show(content) ==
        [row |-> IF r.px < Tiles THEN [r.row EXCEPT ![r.px] = content] ELSE r.row,
         px  |-> r.px + 1]
      shown == show(<<r.pipe[1], r.pipe[2], k>>)
      filled == show(Backdrop)
  IN  IF Rendering(m)
      THEN [r EXCEPT !.row = IF i >= 2 THEN shown.row ELSE r.row,
                     !.px = IF i >= 2 THEN shown.px ELSE r.px,
                     !.pipe = <<r.pipe[2], i>>]
      ELSE [r EXCEPT !.row = filled.row, !.px = filled.px]

\* Iterations r.first to n - 1.
DrawTiles(r, n, m, k) ==
  LET upTo[i \in r.first..n] ==
        IF i = r.first THEN r ELSE DrawTile(upTo[i - 1], i - 1, m, k)
  IN  upTo[n]

\* Positions repainted with the backdrop afterwards: the first one while the left
\* column is masked, all those of this catch-up while only sprites are on (O-35).
Repainted(first, n, m) ==
  {p \in 0..(Tiles - 1) :
     /\ Rendering(m)
     /\ \/ p = 0 /\ first <= 2 /\ 2 < n /\ "left" \notin m
        \/ "bg" \notin m /\ first - 2 <= p /\ p < n - 2}

\* y_increment()
YIncrement(r, m) == [r EXCEPT !.y = IF Rendering(m) THEN r.y + 1 ELSE r.y, !.tofix = FALSE]

Opaque(row, x) == row[x \div TileDots] \notin {Blank, Backdrop}

\* Pixels of sprite 0 that meet an opaque background pixel, the last column excepted.
Overlap(r) ==
  {x \in {r.sprite.x + d : d \in r.sprite.data} :
     x < TileDots * Tiles - 1 /\ Opaque(r.row, x)}

\* check_sprite_hit(): a hit pixel counts once it was output 16 dots ago.
CheckSpriteHit(r, lastpixel) ==
  IF \E x \in Overlap(r) : x < lastpixel - 16
  THEN [r EXCEPT !.hit = TRUE, !.sprite = NoSprite]
  ELSE r

\* A slip: one more for any waiting sprite 0 the output has passed.
LastTileAnyWaiting(r, lastpixel) ==
  LET n == lastpixel \div TileDots
      soon == r.sprite # NoSprite /\ ~r.hit /\ r.sprite.x < lastpixel - 16
      last == IF soon THEN n + 1 ELSE n
  IN  IF last > Fetches THEN Fetches ELSE last

\* Tiles to draw up to: one more when sprite 0 is about to be output (O-37).
LastTile(r, lastpixel) ==
  LET n == lastpixel \div TileDots
      soon == /\ r.sprite # NoSprite /\ ~r.hit
              /\ r.sprite.x < lastpixel - 16
              /\ r.sprite.x >= (n - 2) * TileDots
      last == IF soon THEN n + 1 ELSE n
  IN  IF last > Fetches THEN Fetches ELSE last

\* A slip: the threshold one dot late.
LateByOne(lastpixel) == lastpixel >= Dot256 - LateMargin + 1

\* The position from which a catch-up performs the pending Y increment (O-21).
Late(lastpixel) == lastpixel >= Dot256 - LateMargin

\* line_sync() with registers m and k.
LineSync(r, m, k, lastpixel) ==
  LET n == LastTile(r, lastpixel)
      drawn == DrawTiles(r, n, m, k)
      painted == [drawn EXCEPT
                    !.row = [p \in 0..(Tiles - 1) |->
                               IF p \in Repainted(r.first, n, m) THEN Backdrop
                               ELSE drawn.row[p]],
                    !.first = n]
      fixed == IF r.tofix /\ Late(lastpixel) THEN YIncrement(painted, m) ELSE painted
  IN  IF ~r.on \/ n <= r.first THEN r ELSE CheckSpriteHit(fixed, lastpixel)

\* line_begin(): the overshoot with which the line starts counts as well.
LineBegin(r, sprite, m, k, over) ==
  LET begun == [r EXCEPT !.on = TRUE, !.first = 0, !.px = 0, !.tofix = FALSE, !.y = 0,
                         !.row = [p \in 0..(Tiles - 1) |-> Blank],
                         !.sprite = sprite]
  IN  [LineSync(begun, m, k, over) EXCEPT !.tofix = TRUE]

\* The Y increment at dot 256, unless a late catch-up has done it.
PendingY(r, m) == IF r.tofix THEN YIncrement(r, m) ELSE r

\* Slips: no last look at the hit; the line stays on after its end.
LineEndUnchecked(r, m, k) ==
  [PendingY(LineSync(r, m, k, Dot256), m) EXCEPT !.on = FALSE]
LineEndLeftOn(r, m, k) ==
  CheckSpriteHit(PendingY(LineSync(r, m, k, Dot256), m), Dot256)

\* line_end256()
LineEnd(r, m, k) ==
  [CheckSpriteHit(PendingY(LineSync(r, m, k, Dot256), m), Dot256) EXCEPT !.on = FALSE]

\* resolve_sprites(): the prepared sprite 0 is armed for the next line (O-37).
ResolveSprites(r) == IF "spr" \in mask /\ ~r.hit THEN next ELSE NoSprite

-----------------------------------------------------------------------------
(* The program: instructions run while the clock is behind the beam, and a *)
(* register access takes effect at the end of its instruction (O-33).      *)

\* Dots of the line handed out in the current slice.
Beam == CASE phase = "tail" -> TailDots - cut
          [] phase = "pixels" -> Dot256 - cut
          [] phase = "hblank" -> LineDots - cut
          [] OTHER -> 0

OnLine == phase \in {"tail", "pixels", "hblank"}

\* History: at clock t, the pixels being output hold sprite 0's first (O-37).
Ahead(r, t) ==
  /\ r.sprite # NoSprite /\ ~r.hit /\ t < Dot256
  /\ r.sprite.x \in (TileDots * (t \div TileDots) - TailDots)..(t - TailDots - 1)

\* History: tiles of the line an access at clock t comes too late for.
Due(r, t) ==
  IF Ahead(r, t) THEN t \div TileDots + 1
  ELSE IF t < Dot256 THEN t \div TileDots ELSE Fetches

\* History: an access at clock t is to take the Y step if it draws (O-21).
StepDue(t) == t + LateMargin >= Dot256

\* History: an access at clock t draws tiles ahead of the clock, short of the Y step.
TakenBy(t) == taken' = IF Ahead(rl, t) /\ ~StepDue(t) THEN Due(rl, t) ELSE taken

\* History: what is written at clock t counts for tile i, if this access draws it not,
\* or (i = Fetches) for the Y step, if this access does not come to take it: before it
\* is due, or when nothing is left to draw because sprite 0 had it drawn before.
Counts(i, t) ==
  /\ rl.on /\ i >= taken
  /\ \/ i < Fetches /\ i >= Due(rl, t)
     \/ i = Fetches /\ (StepDue(t) => Due(rl, t) <= taken)

\* Registers m and k are written at clock t.
Write(m, k, t) ==
  /\ <<m, k>> # <<mask, look>> /\ writes < MaxWrites
  /\ mask' = m /\ look' = k /\ writes' = writes + 1
  /\ regsAt' = [i \in 0..Fetches |-> IF Counts(i, t) THEN <<m, k>> ELSE regsAt[i]]

\* No PPU register accessed.
Compute ==
  /\ OnLine /\ pos < Beam
  /\ \E c \in Costs : pos' = pos + 3 * c
  /\ UNCHANGED <<phase, sl, cut, mask, look, rl, next, writes, taken, regsAt, pipeAt>>

\* cpu_read() of any register.
Read ==
  /\ OnLine /\ pos < Beam
  /\ \E c \in AccessCosts :
       /\ pos' = pos + 3 * c
       /\ rl' = LineSync(rl, mask, look, pos')
       /\ TakenBy(pos')
  /\ UNCHANGED <<phase, sl, cut, mask, look, next, writes, regsAt, pipeAt>>

\* cpu_write() of $2000, $2001, $2005 or $2006: drawn up to here with the old values.
Update ==
  /\ OnLine /\ pos < Beam
  /\ \E c \in AccessCosts, s \in Settings :
       /\ pos' = pos + 3 * c
       /\ rl' = LineSync(rl, mask, look, pos')
       /\ TakenBy(pos') /\ Write(s[1], s[2], pos')
  /\ UNCHANGED <<phase, sl, cut, next, pipeAt>>

\* The same between the frames' pictures, where no line is being drawn.
UpdateOffLine ==
  /\ ~OnLine
  /\ \E s \in Settings : Write(s[1], s[2], 0)
  /\ UNCHANGED <<phase, sl, cut, pos, rl, next, taken, pipeAt>>

-----------------------------------------------------------------------------
(* The frame loop's calls.                                                 *)

Init ==
  /\ phase = "vblank" /\ sl = 0 /\ cut = 0 /\ pos = 0
  /\ \E s \in Settings : mask = s[1] /\ look = s[2]
  /\ rl = [on |-> FALSE, first |-> 0, px |-> 0, tofix |-> FALSE,
           row |-> [p \in 0..(Tiles - 1) |-> Blank], pipe |-> <<0, 0>>,
           sprite |-> NoSprite, hit |-> FALSE, y |-> 0]
  /\ next = NoSprite
  /\ writes = 0 /\ taken = 0
  /\ regsAt = [i \in 0..Fetches |-> <<mask, look>>] /\ pipeAt = <<0, 0>>

\* A line begins with sprite 0 as given and the clock `over` dots past its origin.
Begin(sprite, over) ==
  /\ phase' = "tail"
  /\ pos' = over
  /\ rl' = LineBegin(rl, sprite, mask, look, over)
  /\ writes' = 0
  /\ LET begun == [rl EXCEPT !.sprite = sprite]
     IN  taken' = IF Ahead(begun, over) THEN Due(begun, over) ELSE 0
  /\ regsAt' = [i \in 0..Fetches |-> <<mask, look>>]
  /\ pipeAt' = rl.pipe
  /\ UNCHANGED <<mask, look, next>>

\* snapshot_render(): the flags are cleared at the end of vblank.
EndVblank ==
  /\ phase = "vblank"
  /\ phase' = "pre"
  /\ rl' = [rl EXCEPT !.hit = FALSE]
  /\ UNCHANGED <<sl, cut, pos, mask, look, next, writes, taken, regsAt, pipeAt>>

\* reset_registers(), between two frames: rendering off and the flags clear, while an
\* armed sprite 0 is left as it is.
ResetRegisters ==
  /\ phase = "vblank"
  /\ mask' = {} /\ \E k \in Looks : <<{}, k>> \in Settings /\ look' = k
  /\ rl' = [rl EXCEPT !.hit = FALSE]
  /\ UNCHANGED <<phase, sl, cut, pos, next, writes, taken, regsAt, pipeAt>>

\* line_start_frame(): line 0 keeps the sprite 0 armed at the end of line 239 (O-37).
LineStartFrame ==
  /\ phase = "pre"
  /\ \E over \in Overshoots : Begin(rl.sprite, over)
  /\ sl' = 0
  /\ cut' \in {0, 1}

\* begin_frame() clears the sprite-0 hit flag once more.
BeginFrame ==
  /\ phase = "tail" /\ sl = 0 /\ pos >= Beam
  /\ phase' = "pixels"
  /\ rl' = [rl EXCEPT !.hit = FALSE]
  /\ UNCHANGED <<sl, cut, pos, mask, look, next, writes, taken, regsAt, pipeAt>>

BeginPixels ==
  /\ phase = "tail" /\ sl > 0 /\ pos >= Beam
  /\ phase' = "pixels"
  /\ UNCHANGED <<sl, cut, pos, mask, look, rl, next, writes, taken, regsAt, pipeAt>>

\* line_end256() and prepare_sprites(): the row is finished, and the sprite-0 row of
\* the next line, if any, is found while rendering is on.
LineEnd256 ==
  /\ phase = "pixels" /\ pos >= Beam
  /\ phase' = "hblank"
  /\ rl' = LineEnd(rl, mask, look)
  /\ next' \in IF Rendering(mask) THEN Sprites \cup {NoSprite} ELSE {NoSprite}
  /\ UNCHANGED <<sl, cut, pos, mask, look, writes, taken, regsAt, pipeAt>>

\* line_next()
LineNext ==
  /\ phase = "hblank" /\ pos >= Beam /\ sl + 1 < Lines
  /\ Begin(ResolveSprites(rl), pos - Beam)
  /\ sl' = sl + 1
  /\ cut' = 0

\* carry_sprite0()
CarrySprite0 ==
  /\ phase = "hblank" /\ pos >= Beam /\ sl + 1 = Lines
  /\ phase' = "vblank"
  /\ sl' = 0 /\ cut' = 0 /\ pos' = 0 /\ writes' = 0
  /\ rl' = [rl EXCEPT !.sprite = ResolveSprites(rl)]
  /\ UNCHANGED <<mask, look, next, taken, regsAt, pipeAt>>

Program == Compute \/ Read \/ Update \/ UpdateOffLine
FrameCalls ==
  \/ ResetRegisters \/ EndVblank \/ LineStartFrame \/ BeginFrame \/ BeginPixels
  \/ LineEnd256 \/ LineNext \/ CarrySprite0
Next == Program \/ FrameCalls

Spec == Init /\ [][Next]_vars

-----------------------------------------------------------------------------
(* What a finished row must show, from the registers that count for each   *)
(* tile and whatever the catch-ups were.                                   *)

MaskAt(i) == regsAt[i][1]
LookAt(i) == regsAt[i][2]

\* Iterations that put something on the row, and where.
Shows(i) == i >= 2 \/ ~Rendering(MaskAt(i))
PositionOf(i) == Cardinality({j \in 0..(i - 1) : Shows(j)})

\* The newest tile fetched before iteration i, and the one before that.
FetchedBefore(i) == {j \in 0..(i - 1) : Rendering(MaskAt(j))}
Newest(S, none) == IF S = {} THEN none ELSE CHOOSE j \in S : \A h \in S : h <= j
Pipeline(i) ==
  LET newest == Newest(FetchedBefore(i), pipeAt[2])
      older == IF FetchedBefore(i) = {} THEN pipeAt[1]
               ELSE Newest(FetchedBefore(i) \ {newest}, pipeAt[2])
  IN  <<older, newest>>

\* A position is the backdrop if rendering is off when it is shown, if only sprites
\* are on two tiles later, or if it is the first one and the left column is masked.
Expected(p) ==
  LET i == CHOOSE j \in 0..(Fetches - 1) : Shows(j) /\ PositionOf(j) = p
      spritesOnly == Rendering(MaskAt(p + 2)) /\ "bg" \notin MaskAt(p + 2)
      leftMasked == p = 0 /\ Rendering(MaskAt(2)) /\ "left" \notin MaskAt(2)
  IN  IF ~Rendering(MaskAt(i)) \/ spritesOnly \/ leftMasked THEN Backdrop
      ELSE <<Pipeline(i)[1], Pipeline(i)[2], LookAt(i)>>

RowFinished == phase = "hblank"

-----------------------------------------------------------------------------
(* Properties.                                                             *)

Contents == {Blank, Backdrop}
            \cup {<<i, j, k>> : i, j \in 0..(Fetches - 1), k \in Looks}

TypeOK ==
  /\ phase \in {"vblank", "pre", "tail", "pixels", "hblank"}
  /\ sl \in 0..(Lines - 1) /\ cut \in {0, 1} /\ pos \in Nat
  /\ <<mask, look>> \in Settings
  /\ rl.on \in BOOLEAN /\ rl.first \in 0..Fetches /\ rl.px \in 0..Fetches
  /\ rl.tofix \in BOOLEAN /\ rl.row \in [0..(Tiles - 1) -> Contents]
  /\ rl.pipe \in (0..(Fetches - 1)) \X (0..(Fetches - 1))
  /\ rl.sprite \in Sprites \cup {NoSprite} /\ next \in Sprites \cup {NoSprite}
  /\ rl.hit \in BOOLEAN /\ rl.y \in Nat
  /\ rl.on = (phase \in {"tail", "pixels"}) /\ taken \in 0..Fetches

\* Drawing lazily is drawing exactly: a finished row shows what the registers demand
\* that count for each tile, which are those in force when the clock passed the tile,
\* or those of the access that had it drawn one tile early for sprite 0.  It does so
\* whenever and however often the program touched the PPU, with the overshoot the line
\* began with, and whatever was switched in between (O-19, O-22, O-35, O-37).
RowExact == RowFinished => \A p \in 0..(Tiles - 1) : rl.row[p] = Expected(p)

\* When a row is finished V's Y part has stepped once if rendering was on in the
\* registers that count for the step, and not at all otherwise.  These are the
\* registers before the first access from dot 252 of the line on (LateMargin dots
\* before dot 256, position 268 in the code), and those at dot 256 if there is none
\* (O-12, O-21), except where sprite 0 had that access's tiles drawn before: such an
\* access returns before the step and leaves it, with the registers it writes, to the
\* next access that draws or to dot 256.  A line on which rendering was on for every
\* tile loses its step that way if the access switches rendering off.
YOncePerLine == RowFinished => rl.y = IF Rendering(MaskAt(Fetches)) THEN 1 ELSE 0

\* When a row is finished no hit is left undetected: sprite 0 is still waiting only
\* if none of its pixels meets the background of the row (O-23).
NoHitMissed == RowFinished /\ rl.sprite # NoSprite => Overlap(rl) = {}

\* The sprite-0 flag is cleared only with the other flags, at the end of vblank (O-13).
HitKeptUntilVblankEnd == [][rl.hit /\ ~rl'.hit => phase = "vblank"]_vars

=============================================================================
