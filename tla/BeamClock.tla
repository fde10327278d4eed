------------------------------ MODULE BeamClock ------------------------------
(***************************************************************************)
(* What the frame loop promises to the program it runs, with the slices,   *)
(* the instructions and the interrupts left out: a beam that crosses       *)
(* frames of alternating length and a CPU that follows it.  The CPU works  *)
(* only while it is behind the beam, the beam moves only when the CPU has  *)
(* caught up, the vblank flag is visible only while the beam is in the     *)
(* vblank lines of a normal frame, and the visible-line flag is a function *)
(* of the beam's position.  FrameLoop implements this specification.       *)
(***************************************************************************)
EXTENDS Integers

CONSTANTS     \* all positive; the vblank dots come before the picture's
  Full,         \* dots of a full frame
  VblankStart,  \* dots before the vblank flag goes up
  VblankEnd,    \* dots before it goes down
  Picture,      \* dots of the visible lines, which end the frame
  Tail,         \* dots at the end of the last visible line that no longer count as visible
  MaxCost,      \* largest cost of an instruction or interrupt entry, in CPU cycles
  EntryDots     \* dots an interrupt entry costs

VARIABLES
  running,   \* a frame is in progress
  beam,      \* dots of the frame handed out
  lag,       \* dots the CPU is behind the beam; negative when it is ahead
  short,     \* 1 when the next normal frame (or the running one) is a dot shorter
  deadLeft,  \* frames to come without vblank
  dead,      \* the running frame is one of them
  vblank,    \* the vblank flag
  visible    \* the visible-line flag

beamVars == <<running, beam, lag, short, deadLeft, dead, vblank, visible>>

Length == IF dead THEN Full ELSE Full - short
InVblank(b) == ~dead /\ VblankStart < b /\ b <= VblankEnd
InPicture(b) == ~dead /\ Length - Picture < b /\ b <= Length - Tail

Init ==
  /\ running = FALSE /\ beam = 0 /\ lag = 0 /\ short = 0
  /\ deadLeft = 2 /\ dead = FALSE /\ vblank = FALSE /\ visible = FALSE

\* The CPU, while behind, executes something; a $2002 read may clear the flag.
Work ==
  /\ running /\ lag > 0
  /\ \E c \in 1..MaxCost : lag' = lag - 3 * c
  /\ vblank' \in {vblank, FALSE}
  /\ UNCHANGED <<running, beam, short, deadLeft, dead, visible>>

\* The beam moves on to b; crossing the start of vblank raises the flag, and an
\* NMI entry may be charged on the way.
Move ==
  /\ running /\ lag <= 0
  /\ \E b \in (beam + 1)..Length, entry \in {0, EntryDots} :
       /\ beam' = b
       /\ lag' = lag - entry + (b - beam)
       /\ vblank' = (InVblank(b) /\ (vblank \/ beam <= VblankStart))
       /\ visible' = InPicture(b)
  /\ UNCHANGED <<running, short, deadLeft, dead>>

Start ==
  /\ ~running
  /\ running' = TRUE
  /\ dead' = (deadLeft > 0)
  /\ deadLeft' = IF deadLeft > 0 THEN deadLeft - 1 ELSE 0
  /\ \E b \in 1..Full : beam' = b /\ lag' = lag + b
  /\ UNCHANGED <<short, vblank, visible>>

Finish ==
  /\ running /\ lag <= 0 /\ beam = Length
  /\ running' = FALSE
  /\ dead' = FALSE
  /\ short' = IF dead THEN short ELSE 1 - short
  /\ UNCHANGED <<beam, lag, deadLeft, vblank, visible>>

\* Reset keeps the CPU's lead over the beam, power-on clears it.
Reset ==
  /\ ~running
  /\ short' = 0 /\ deadLeft' = 2
  /\ lag' \in {lag, 0}
  /\ UNCHANGED <<running, beam, dead, vblank, visible>>

BeamNext == Work \/ Move \/ Start \/ Finish \/ Reset

BeamSpec == Init /\ [][BeamNext]_beamVars
=============================================================================
