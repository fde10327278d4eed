---------------------------- MODULE MCFrameLoop ----------------------------
(* Small instances of FrameLoop for TLC. *)
EXTENDS FrameLoop

\* Slices of a few dots with two visible lines: short enough that an instruction
\* can span several of them, long enough that several fit in the longer ones.
ShortSlices ==
  [s \in Slices |->
     CASE s = "post" -> 7    [] s = "window" -> 12 [] s = "vbl" -> 24
       [] s = "pre256" -> 6  [] s = "pre69" -> 4   [] s = "pre16" -> 5
       [] s = "l256" -> 8    [] s = "l6" -> 2      [] s = "l63" -> 4
       [] s = "l16" -> 4     [] s = "dead" -> 94]
=============================================================================
