------------------------------ MODULE VramAddress ------------------------------
(***************************************************************************)
(* The address registers of the PPU (src/src/ppu.cpp): V, T and the write  *)
(* toggle, which $2000, $2002, $2005, $2006 and $2007 share and the line   *)
(* renderer moves while it draws.  When a catch-up happens is left open:   *)
(* it reaches any tile not yet fetched (LineRenderer models the timing).   *)
(* Memory, the read buffer, the I/O latch and fine X are left out, and so  *)
(* are the writes to OAM; whether $2007 steps by a tile or by a row (bit 2 *)
(* of $2000) is left open.                                                 *)
(*                                                                         *)
(* An address is the number the code keeps.  Its fields, from the lowest:  *)
(* coarse X, coarse Y, nametable X, nametable Y, fine Y.                   *)
(***************************************************************************)
EXTENDS Integers

CONSTANTS
  Columns,    \* values of coarse X (32)
  Rows,       \* tile rows of a picture (30)
  RowCodes,   \* values of coarse Y (32)
  FineLines,  \* lines of a tile (8)
  LowCodes,   \* values of the low byte of an address (256)
  Fetches,    \* tiles fetched on a line (34)
  Lines,      \* visible lines (240)
  Scrolls,    \* values the program writes to $2005
  Highs,      \* values it writes to $2006 as high byte
  Lows,       \* and as low byte
  Tables,     \* nametables it selects through $2000
  MaxAccesses \* bound: accesses of the program per frame

Table == Columns * RowCodes      \* addresses of a nametable
Fine == 4 * Table                \* weight of fine Y
Space == FineLines * Fine        \* 15-bit addresses
WordCodes == 2 * Space           \* V is a 16-bit variable

ASSUME AddressAssumption ==
  /\ Columns \in Nat \ {0} /\ RowCodes \in Nat \ {0} /\ FineLines \in Nat \ {0}
  /\ Rows \in 1..RowCodes /\ LowCodes \in Nat \ {0} /\ Space % (2 * LowCodes) = 0
  /\ Fetches \in Nat \ {0} /\ Lines \in Nat \ {0}
  /\ Scrolls \subseteq Nat /\ Highs \subseteq Nat /\ Lows \subseteq 0..(LowCodes - 1)
  /\ Tables \subseteq 0..3

VARIABLES
  phase,      \* "off", or the part of a line: "tail" before it, "pixels", "fetch" (the
              \* 6 dots after dot 256), "blank" (the 63 after those)
  sl,         \* the visible line
  v, t, w,
  rendering,  \* bit 3 or 4 of reg_mask
  fetched,    \* rl_first: tiles fetched on this line
  tofix       \* rl_tofix: the Y increment of the line is still to come

(* History variables: read by properties only. *)
VARIABLES
  accesses,   \* accesses in this frame
  base,       \* T when the picture began
  across,     \* T when its horizontal bits were last copied
  clean       \* rendering on, and V untouched by the program, since the picture began

regs == <<v, t, w, rendering>>
vars == <<phase, sl, regs, fetched, tofix, accesses, base, across, clean>>

X(a) == a % Columns
Y(a) == (a \div Columns) % RowCodes
NtX(a) == (a \div Table) % 2
NtY(a) == (a \div (2 * Table)) % 2
FineY(a) == (a \div Fine) % FineLines

\* vis_scanline
Visible == phase # "off" /\ ~(phase = "tail" /\ sl = 0)

-----------------------------------------------------------------------------
(* How V moves while a line is drawn.                                      *)

\* A fetched tile advances coarse X, with a toggle of the nametable at its end.
NextTile(a) == IF X(a) = Columns - 1
               THEN a - X(a) + (IF NtX(a) = 0 THEN Table ELSE -Table)
               ELSE a + 1

Tiles(a, k) == LET after[i \in 0..k] == IF i = 0 THEN a ELSE NextTile(after[i - 1])
               IN  after[k]

\* y_increment(), and what a $2007 read during the picture does (O-34).
YIncrement(a) ==
  IF FineY(a) < FineLines - 1 THEN a + Fine
  ELSE LET top == a - FineY(a) * Fine
       IN  CASE Y(a) = Rows - 1 ->
                  top - Y(a) * Columns + (IF NtY(a) = 0 THEN 2 * Table ELSE -2 * Table)
             [] Y(a) # Rows - 1 /\ Y(a) = RowCodes - 1 -> top - Y(a) * Columns
             [] OTHER -> top + Columns

\* a with the horizontal bits of another address.
Horizontal(a, from) ==
  a + X(from) - X(a) + Table * (NtX(from) - NtX(a))

\* A slip: tiles are fetched whether or not rendering is on.
SyncedAlways(n, late) ==
  LET drawn == Tiles(v, n - fetched)
  IN  IF late /\ tofix /\ n > fetched THEN YIncrement(drawn) ELSE drawn

\* line_sync() up to tile n; `late`: at position 268 or beyond.
Synced(n, late) ==
  LET drawn == Tiles(v, n - fetched)
  IN  IF ~rendering THEN v
      ELSE IF late /\ tofix /\ n > fetched THEN YIncrement(drawn) ELSE drawn

\* sync_from_cpu(): the tile the clock has reached, on a line being drawn.
CatchUp(n, late) ==
  /\ IF phase \in {"tail", "pixels"}
     THEN /\ n \in fetched..Fetches
          /\ late => n >= Fetches - 1
     ELSE n = fetched /\ ~late
  /\ fetched' = n
  /\ tofix' = (tofix /\ ~(late /\ n > fetched))

-----------------------------------------------------------------------------
(* Accesses of the program.                                                *)

Access == accesses < MaxAccesses /\ accesses' = accesses + 1
                                 /\ UNCHANGED <<phase, sl, base, across>>

\* V is moved by the program itself.
Touch == clean' = FALSE

Steps == {1, Columns}

ReadStatus(n, late) ==
  /\ Access /\ CatchUp(n, late)
  /\ v' = Synced(n, late) /\ w' = 0
  /\ UNCHANGED <<t, rendering, clean>>

ReadData(n, late) ==
  /\ Access /\ CatchUp(n, late) /\ Touch
  /\ IF rendering /\ Visible THEN v' = YIncrement(Synced(n, late))
     ELSE \E step \in Steps : v' = (Synced(n, late) + step) % WordCodes
  /\ UNCHANGED <<t, w, rendering>>

\* Data writes cause no catch-up.
WriteData ==
  /\ Access /\ Touch
  /\ \E step \in Steps : v' = (v + step) % WordCodes
  /\ UNCHANGED <<t, w, rendering, fetched, tofix>>

WriteCtrl(n, late) ==
  /\ Access /\ CatchUp(n, late)
  /\ v' = Synced(n, late)
  /\ \E nt \in Tables : t' = t + Table * (nt - NtX(t) - 2 * NtY(t))
  /\ UNCHANGED <<w, rendering, clean>>

\* Drawn up to here with the old mask.
WriteMask(n, late) ==
  /\ Access /\ CatchUp(n, late)
  /\ v' = Synced(n, late)
  /\ rendering' \in BOOLEAN
  /\ clean' = (clean /\ rendering')
  /\ UNCHANGED <<t, w>>

\* First coarse X, then coarse and fine Y.
WriteScroll(n, late) ==
  /\ Access /\ CatchUp(n, late)
  /\ v' = Synced(n, late)
  /\ \E val \in Scrolls :
       t' = IF w = 0 THEN t - X(t) + ((val \div FineLines) % Columns)
            ELSE t + Columns * (((val \div FineLines) % RowCodes) - Y(t))
                   + Fine * ((val % FineLines) - FineY(t))
  /\ w' = 1 - w
  /\ UNCHANGED <<rendering, clean>>

\* A slip: the whole high byte.
WholeByte(high) == high

\* val & 0x3F
HighBits(high) == high % (Space \div (2 * LowCodes))

\* First the high byte without its top bits, then the low byte, which loads V.
WriteAddr(n, late) ==
  /\ Access /\ CatchUp(n, late)
  /\ IF w = 0
     THEN /\ \E high \in Highs : t' = (t % LowCodes) + LowCodes * HighBits(high)
          /\ v' = Synced(n, late) /\ clean' = clean
     ELSE /\ \E low \in Lows : t' = t - (t % LowCodes) + low
          /\ v' = t' /\ Touch
  /\ w' = 1 - w
  /\ UNCHANGED <<rendering>>

-----------------------------------------------------------------------------
(* The frame loop's calls.                                                 *)

Init ==
  /\ phase = "off" /\ sl = 0
  /\ v = 0 /\ t = 0 /\ w = 0 /\ rendering = FALSE
  /\ fetched = 0 /\ tofix = FALSE
  /\ accesses = 0 /\ base = 0 /\ across = 0 /\ clean = FALSE

\* reset_registers(), between two frames.
ResetRegisters ==
  /\ phase = "off"
  /\ v' = 0 /\ t' = 0 /\ w' = 0 /\ rendering' = FALSE
  /\ accesses' = 0 /\ clean' = FALSE
  /\ UNCHANGED <<phase, sl, fetched, tofix, base, across>>

\* line_begin(): tiles passed by the overshoot are fetched at once, and no catch-up of
\* the line before can leave its Y increment to this one.
LineBegin(from) ==
  /\ phase' = "tail"
  /\ \E n \in 0..Fetches : /\ fetched' = n
                           /\ v' = IF rendering THEN Tiles(from, n) ELSE from
  /\ tofix' = TRUE

\* copy_t_to_v() and line_start_frame(), at dot 325 of the pre-render line.
LineStartFrame ==
  /\ phase = "off"
  /\ LineBegin(IF rendering THEN t ELSE v)
  /\ sl' = 0
  /\ accesses' = 0 /\ base' = t /\ across' = t /\ clean' = rendering
  /\ UNCHANGED <<t, w, rendering>>

BeginPixels ==
  /\ phase = "tail"
  /\ phase' = "pixels"
  /\ UNCHANGED <<sl, regs, fetched, tofix, accesses, base, across, clean>>

\* A slip: the increment at dot 256 does not ask whether a catch-up has done it.
PendingYTwice(a) == YIncrement(a)

\* The Y increment of dot 256, unless a late catch-up has done it.
PendingY(a) == IF tofix THEN YIncrement(a) ELSE a

\* line_end256(): position 272 is late, so a tile left to fetch brings the increment.
LineEnd256 ==
  /\ phase = "pixels"
  /\ phase' = "fetch"
  /\ fetched' = Fetches /\ tofix' = FALSE
  /\ v' = IF rendering THEN PendingY(Tiles(v, Fetches - fetched)) ELSE v
  /\ UNCHANGED <<sl, t, w, rendering, accesses, base, across, clean>>

\* copy_horizontal_bits()
CopyHorizontalBits ==
  /\ phase = "fetch"
  /\ phase' = "blank"
  /\ v' = IF rendering THEN Horizontal(v, t) ELSE v
  /\ across' = t
  /\ UNCHANGED <<sl, t, w, rendering, fetched, tofix, accesses, base, clean>>

LineNext ==
  /\ phase = "blank" /\ sl + 1 < Lines
  /\ LineBegin(v)
  /\ sl' = sl + 1
  /\ UNCHANGED <<t, w, rendering, accesses, base, across, clean>>

LastLine ==
  /\ phase = "blank" /\ sl + 1 = Lines
  /\ phase' = "off" /\ sl' = 0
  /\ clean' = FALSE /\ base' = 0 /\ across' = 0
  /\ UNCHANGED <<regs, fetched, tofix, accesses>>

Program ==
  \/ WriteData
  \/ \E n \in 0..Fetches, late \in BOOLEAN :
       \/ ReadStatus(n, late) \/ ReadData(n, late) \/ WriteCtrl(n, late)
       \/ WriteMask(n, late) \/ WriteScroll(n, late) \/ WriteAddr(n, late)
FrameCalls ==
  \/ ResetRegisters \/ LineStartFrame \/ BeginPixels \/ LineEnd256
  \/ CopyHorizontalBits \/ LineNext \/ LastLine
Next == Program \/ FrameCalls

Spec == Init /\ [][Next]_vars

-----------------------------------------------------------------------------
(* Where V must be, counted from T.                                        *)

\* k tiles to the right, over two nametables side by side.
RightOf(a, k) ==
  (X(a) + Columns * NtX(a) + k) % (2 * Columns)

\* k lines below: pictures of Rows rows, one nametable above the other.  A scroll to
\* the rows beyond the picture runs through them to the top of the same nametable.
BelowOf(a, k) ==
  LET lines(rows) == rows * FineLines
      here == FineY(a) + lines(Y(a))
      beyond == Y(a) >= Rows
      spent == lines(RowCodes) - here     \* lines to the end of those rows
      from == IF beyond THEN 0 ELSE here
      left == IF beyond THEN k - spent ELSE k
  IN  IF beyond /\ k < spent THEN <<NtY(a), here + k>>
      ELSE <<(NtY(a) + (from + left) \div lines(Rows)) % 2, (from + left) % lines(Rows)>>

-----------------------------------------------------------------------------
(* Properties.                                                             *)

TypeOK ==
  /\ phase \in {"off", "tail", "pixels", "fetch", "blank"} /\ sl \in 0..(Lines - 1)
  /\ v \in 0..(WordCodes - 1) /\ t \in 0..(Space - 1) /\ w \in {0, 1}
  /\ rendering \in BOOLEAN
  /\ fetched \in 0..Fetches /\ tofix \in BOOLEAN
  /\ base \in 0..(Space - 1) /\ across \in 0..(Space - 1) /\ clean \in BOOLEAN

\* The scroll of every line follows from T: its column is T as it was at dot 262 of the
\* line before, and moves one tile per fetch; its row is T as it was when the picture
\* began, one line lower for each line, across the edges of nametables.  This holds
\* whatever catch-ups the program causes, and however it changes T for a split screen
\* (O-12, O-20, O-21).
ScrollFollowsT ==
  clean /\ phase # "off" =>
    /\ X(v) + Columns * NtX(v) = RightOf(across, IF phase = "blank" THEN 0 ELSE fetched)
    /\ <<NtY(v), FineY(v) + FineLines * Y(v)>> = BelowOf(base, IF tofix THEN sl ELSE sl + 1)

\* While rendering is off V moves only as the program moves it, by one $2007 step or by
\* loading T, whatever the frame loop and the catch-ups do: switching rendering on does
\* not make up for tiles and lines that were not drawn (O-12).
OffNeverMoves ==
  [][~rendering /\ v' # v =>
       v' = t' \/ (phase' = phase /\ \E step \in Steps : v' = (v + step) % WordCodes)]_vars
=============================================================================
