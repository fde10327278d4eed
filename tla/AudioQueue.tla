----------------------------- MODULE AudioQueue -----------------------------
(***************************************************************************)
(* What the audio output of the emulator promises (AudioSystem in          *)
(* src/src/nes1.cpp), without its buffers: the sound of a few frames waits *)
(* in a queue and is heard sample by sample, in the order in which it was  *)
(* offered and as it was offered; a sound is dropped only when the queue   *)
(* is full or nobody listens.                                              *)
(***************************************************************************)
EXTENDS Naturals, Sequences

CONSTANTS
  Sample,       \* the values of a sample
  Silence,      \* the sample heard before the first
  Room,         \* frames that may wait, the one being heard included
  Longest       \* samples of a frame, at most

VARIABLES
  open,         \* somebody listens
  offered,      \* the sound of the frame just emulated, if it is still to be placed
  waiting,      \* the sounds still to be heard
  heard         \* the sample heard last

Sound == UNION {[1..n -> Sample] : n \in 1..Longest}

Init == open \in BOOLEAN /\ offered = <<>> /\ waiting = <<>> /\ heard = Silence

Offer ==
  /\ offered = <<>>
  /\ offered' \in Sound
  /\ UNCHANGED <<open, waiting, heard>>

Add ==
  /\ offered # <<>> /\ open /\ Len(waiting) < Room
  /\ waiting' = Append(waiting, offered)
  /\ offered' = <<>>
  /\ UNCHANGED <<open, heard>>

Drop ==
  /\ offered # <<>>
  /\ ~open \/ Len(waiting) = Room
  /\ offered' = <<>>
  /\ UNCHANGED <<open, waiting, heard>>

\* The next sample is heard.
Hear ==
  /\ waiting # <<>> /\ Head(waiting) # <<>>
  /\ heard' = Head(waiting)[1]
  /\ waiting' = [waiting EXCEPT ![1] = Tail(@)]
  /\ UNCHANGED <<open, offered>>

\* A sound that was heard to its end makes room.
Remove ==
  /\ waiting # <<>> /\ Head(waiting) = <<>>
  /\ waiting' = Tail(waiting)
  /\ UNCHANGED <<open, offered, heard>>

Close ==
  /\ open' = FALSE /\ waiting' = <<>>
  /\ UNCHANGED <<offered, heard>>

Next == Offer \/ Add \/ Drop \/ Hear \/ Remove \/ Close

Spec == Init /\ [][Next]_<<open, offered, waiting, heard>>
=============================================================================
