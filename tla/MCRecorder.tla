----------------------------- MODULE MCRecorder -----------------------------
(* Frames of two lines; what each run is asked to record.                  *)
EXTENDS Recorder

One(n)       == {[lo |-> n, hi |-> n, step |-> 1]}
Every(n, to) == {[lo |-> 1, hi |-> to, step |-> n]}

\* The default lists: no dumps, all lines, PC triggers armed in all frames.
Plain ==
  [frames |-> 3, dumpFrames |-> {}, scanFrames |-> {}, scanlines |-> {All},
   pcFrames |-> {All}, pcs |-> {}, pcMax |-> 16, traceFrames |-> {}, dumpInsns |-> {},
   digest |-> FALSE, resets |-> {}, targets |-> {"p"}, room |-> 2]

\* Line 1 of frames 3 and 6; a reset leaves the frames 4 and 5 between without a picture.
OfPictures ==
  [Plain EXCEPT !.frames = 6, !.dumpFrames = {All}, !.scanFrames = One(3) \cup One(6),
                !.scanlines = One(1), !.resets = {4}, !.room = 2]

\* Two dumps for each of two addresses, in the frames 1 and 3, by file and by digest.
OfAddresses ==
  [Plain EXCEPT !.pcFrames = Every(2, 3), !.pcs = {"p", "q"}, !.pcMax = 2,
                !.targets = {"p", "q", "r"}, !.room = 4, !.dumpFrames = One(3), !.digest = TRUE]
OfOneAddress ==
  [Plain EXCEPT !.pcs = {"p"}, !.pcMax = 1, !.dumpInsns = Every(2, IntMax), !.room = 4,
                !.scanFrames = {All}]

\* Every instruction, until the numbers an int can hold come a second time; traces of
\* frames 1 and 3.
OfInstructions ==
  [Plain EXCEPT !.dumpInsns = {All}, !.traceFrames = One(1) \cup One(3), !.room = 15]

CommandLines == {OfPictures, OfAddresses, OfOneAddress, OfInstructions}
=============================================================================
