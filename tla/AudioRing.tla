------------------------------ MODULE AudioRing ------------------------------
(***************************************************************************)
(* The audio output of the window program: AudioSystem and the main loop   *)
(* that feeds it (src/src/nes1.cpp).  A frame's samples are copied into    *)
(* the next buffer of a ring, which is handed to XAudio2 by address; the   *)
(* device plays the buffers on a thread of its own, out of the very memory *)
(* the emulator will write again, and the only thing the emulator asks is  *)
(* how many buffers are queued.                                            *)
(*                                                                         *)
(* Copying is a step per sample, so that the device may play between any   *)
(* two.  All samples of a frame are its number: what is told apart is      *)
(* whose sound is heard.                                                   *)
(***************************************************************************)
EXTENDS Integers, Sequences

CONSTANTS
  Buffers,      \* AUDIO_BUFFER_COUNT
  PerFrame,     \* AUDIO_SAMPLES_PER_FRAME: samples of an NTSC frame, rounded
  Made,         \* how many samples run_one_frame() may produce
  FrameMod      \* bound: frames are numbered modulo this

\* Samples a buffer has room for ("*2 for safety").
Capacity == 2 * PerFrame

Frames == 0..(FrameMod - 1)

\* The value of a buffer no frame was copied to yet.
Silence == FrameMod

Values == Frames \cup {Silence}

ASSUME BuffersAssumption == Buffers \in Nat \ {0}
ASSUME PerFrameAssumption == PerFrame \in Nat \ {0}
ASSUME MadeAssumption == Made \subseteq Nat \ {0}
ASSUME FrameModAssumption == FrameMod \in Nat \ {0}

VARIABLES
  phase,        \* the main loop: "wait", "emulated", "copy", "submit" or "closed"
  source,       \* AudioSystem.source exists: init() succeeded, destroy() did not run
  frame,        \* number of the frame emulated last
  samples,      \* audio_samples.size(), 0 outside the loop's body
  copied,       \* samples of it that memcpy() has moved, 0 outside submit()
  bufIdx,       \* buf_idx
  buf           \* buf: the samples in each buffer

(* XAudio2. *)
VARIABLES
  playing,      \* the source voice was started
  queue,        \* the submitted buffers: address and AudioBytes, the one playing first
  pos,          \* samples of the first that were played
  heard         \* the sample played last

loopVars   == <<phase, source, frame, samples, copied, bufIdx, buf>>
deviceVars == <<playing, queue, pos, heard>>
vars       == <<loopVars, deviceVars>>

Slots == 0..(Buffers - 1)

\* What is submitted: an XAUDIO2_BUFFER without the fields the code leaves 0.
Entry == [slot : Slots, count : 1..Capacity]

\* A slip: the voice is created and never started.
StartedSilent(ok) == playing = FALSE

\* init() ends with Start().
Started(ok) == playing = ok

\* After init(), which may fail: the program then runs without sound.
Init ==
  /\ source \in BOOLEAN
  /\ Started(source)
  /\ phase = "wait" /\ frame = 0 /\ samples = 0 /\ copied = 0
  /\ bufIdx = 0 /\ buf = [b \in Slots |-> [k \in 1..Capacity |-> Silence]]
  /\ queue = <<>> /\ pos = 0 /\ heard = Silence

-----------------------------------------------------------------------------
(* The main loop.                                                          *)

\* The frame interval has elapsed: one frame is emulated.
RunFrame ==
  /\ phase = "wait"
  /\ phase' = "emulated"
  /\ frame' = (frame + 1) % FrameMod
  /\ samples' \in Made
  /\ UNCHANGED <<source, copied, bufIdx, buf, deviceVars>>

\* A slip: a buffer too many may be queued.
QueueOverfull == Len(queue) > Buffers

\* GetState().BuffersQueued tells that the frame must be dropped.
QueueFull == Len(queue) >= Buffers

\* submit() returns at once: no voice, or too many buffers queued.
DropFrame ==
  /\ phase = "emulated"
  /\ ~source \/ QueueFull
  /\ phase' = "wait" /\ samples' = 0
  /\ UNCHANGED <<source, frame, copied, bufIdx, buf, deviceVars>>

\* submit() found room: the device may go on playing from here on.
BeginCopy ==
  /\ phase = "emulated"
  /\ source /\ ~QueueFull
  /\ phase' = "copy"
  /\ UNCHANGED <<source, frame, samples, copied, bufIdx, buf, deviceVars>>

\* Samples that go into the buffer.
Count == IF samples > Capacity THEN Capacity ELSE samples

\* One more sample of the memcpy().
CopySample ==
  /\ phase = "copy" /\ copied < Count
  /\ copied' = copied + 1
  /\ buf' = [buf EXCEPT ![bufIdx][copied + 1] = frame]
  /\ UNCHANGED <<phase, source, frame, samples, bufIdx, deviceVars>>

EndCopy ==
  /\ phase = "copy" /\ copied = Count
  /\ phase' = "submit"
  /\ UNCHANGED <<source, frame, samples, copied, bufIdx, buf, deviceVars>>

\* A slip: the index is not taken around the ring.
NextBufferStraight == bufIdx + 1

NextBuffer == (bufIdx + 1) % Buffers

\* A slip: the index was moved on before the buffer was handed over.
HandedNext == [slot |-> NextBuffer, count |-> Count]

\* What SubmitSourceBuffer() is given: the address, not the samples.
Handed == [slot |-> bufIdx, count |-> Count]

SubmitBuffer ==
  /\ phase = "submit"
  /\ queue' = Append(queue, Handed)
  /\ bufIdx' = NextBuffer
  /\ phase' = "wait" /\ samples' = 0 /\ copied' = 0
  /\ UNCHANGED <<source, frame, buf, playing, pos, heard>>

\* WM_QUIT: destroy() destroys the voice and what it had queued.
Quit ==
  /\ phase = "wait"
  /\ phase' = "closed"
  /\ source' = FALSE /\ playing' = FALSE
  /\ queue' = <<>> /\ pos' = 0
  /\ UNCHANGED <<frame, samples, copied, bufIdx, buf, heard>>

MainLoop ==
  RunFrame \/ DropFrame \/ BeginCopy \/ CopySample \/ EndCopy \/ SubmitBuffer \/ Quit

-----------------------------------------------------------------------------
(* XAudio2, from how the code uses it: it plays the buffers in the order   *)
(* of submission, reading each when its turn comes, and counts a buffer as *)
(* queued until its last sample was played.                                *)

PlaySample ==
  /\ playing /\ queue # <<>> /\ pos < Head(queue).count
  /\ heard' = buf[Head(queue).slot][pos + 1]
  /\ pos' = pos + 1
  /\ UNCHANGED <<loopVars, playing, queue>>

EndOfBuffer ==
  /\ playing /\ queue # <<>> /\ pos = Head(queue).count
  /\ queue' = Tail(queue)
  /\ pos' = 0
  /\ UNCHANGED <<loopVars, playing, heard>>

Device == PlaySample \/ EndOfBuffer

Next == MainLoop \/ Device

Spec == Init /\ [][Next]_vars

\* The device plays on while it has something to play; the emulator may rest.
FairSpec == Spec /\ WF_vars(Device)

-----------------------------------------------------------------------------
(* Properties.                                                             *)

\* Types; buf_idx stays on the ring.
TypeOK ==
  /\ phase \in {"wait", "emulated", "copy", "submit", "closed"}
  /\ source \in BOOLEAN /\ playing \in BOOLEAN
  /\ frame \in Frames
  /\ samples \in Made \cup {0}
  /\ copied \in 0..Capacity
  /\ bufIdx \in Slots
  /\ buf \in [Slots -> [1..Capacity -> Values]]
  /\ queue \in Seq(Entry)
  /\ pos \in 0..Capacity
  /\ heard \in Values

\* submit() writes a buffer and the device plays others of the same ring:
\* while a frame is copied, and until it is queued, none of the queued
\* buffers is the one written.  The check is made once, before the copying,
\* and counts buffers: nothing compares addresses.
NeverOverwritten ==
  phase \in {"copy", "submit"} =>
    \A i \in 1..Len(queue) : queue[i].slot # bufIdx

\* What is still to be heard of the i-th queued buffer, and of all: the samples
\* the device will read, at the addresses it was given, in the memory as it is
\* now.
Skip(i) == IF i = 1 THEN pos ELSE 0
Piece(i) == [k \in 1..(queue[i].count - Skip(i)) |-> buf[queue[i].slot][Skip(i) + k]]
Waiting == [i \in 1..Len(queue) |-> Piece(i)]

\* The sound of the frame that submit() is given.
Offered == [k \in 1..Count |-> frame]

Sounding == INSTANCE AudioQueue WITH
  Sample <- Values, Room <- Buffers, Longest <- Capacity,
  open <- source, offered <- Offered, waiting <- Waiting

\* The ring is a queue of sounds: every frame that finds room is heard as it
\* was emulated, in order, although the memory it is read from is written
\* again and again while the device reads it.
ImplementsQueue == Sounding!Spec

\* What is queued is played to its end, however full the ring was and
\* whatever the emulator does meanwhile, unless the program is closed.
RingDrains == \A n \in 1..Buffers : Len(queue) = n ~> Len(queue) # n
=============================================================================
