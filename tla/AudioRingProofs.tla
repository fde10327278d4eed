-------------------------- MODULE AudioRingProofs --------------------------
(***************************************************************************)
(* Proofs about the audio ring, for any number of buffers.  What has to be *)
(* found is where the queued buffers lie: they are the ones just before    *)
(* buf_idx, in the order in which they were filled (InOrder), and while a  *)
(* frame is copied there are fewer of them than buffers.                   *)
(***************************************************************************)
EXTENDS AudioRing, SequenceTheorems, TLAPS

\* The i-th queued buffer lies Len(queue) + 1 - i before bufIdx in the ring.
InOrder ==
  \A i \in 1..Len(queue) :
    \/ queue[i].slot + (Len(queue) + 1 - i) = bufIdx
    \/ queue[i].slot + (Len(queue) + 1 - i) = bufIdx + Buffers

\* There is room while a frame is copied.
HasRoom ==
  /\ Len(queue) <= Buffers
  /\ phase \in {"copy", "submit"} => Len(queue) < Buffers

\* Where the main loop is in its frame.
InFrame ==
  /\ samples = 0 <=> phase \in {"wait", "closed"}
  /\ phase \notin {"copy", "submit"} => copied = 0
  /\ phase = "copy" => copied <= Count
  /\ phase = "submit" => copied = Count
  /\ phase \in {"copy", "submit"} => source
  /\ ~source => queue = <<>>

\* The device is inside the first buffer.
InBuffer == pos <= (IF queue = <<>> THEN 0 ELSE Head(queue).count)

IInv == TypeOK /\ InOrder /\ HasRoom /\ InFrame /\ InBuffer

USE DEF Slots, Frames, Silence, Values, Capacity

\* The index goes round the ring.
LEMMA NextBufferIs ==
  ASSUME bufIdx \in Slots
  PROVE  NextBuffer = IF bufIdx + 1 = Buffers THEN 0 ELSE bufIdx + 1
<1>1. CASE bufIdx + 1 = Buffers
  BY <1>1, BuffersAssumption DEF NextBuffer
<1>2. CASE bufIdx + 1 # Buffers
  BY <1>2, BuffersAssumption DEF NextBuffer
<1> QED  BY <1>1, <1>2

\* What a sequence of entries holds, and its first.
LEMMA Entries ==
  ASSUME NEW q \in Seq(Entry)
  PROVE  /\ Len(q) \in Nat
         /\ \A i \in 1..Len(q) :
              q[i] \in Entry /\ q[i].slot \in 0..(Buffers - 1) /\ q[i].count \in 1..Capacity
         /\ q # <<>> => Len(q) >= 1 /\ Head(q) = q[1]
<1>1. \A i \in 1..Len(q) : q[i] \in Entry
  OBVIOUS
<1>2. \A i \in 1..Len(q) : q[i].slot \in 0..(Buffers - 1) /\ q[i].count \in 1..Capacity
  BY <1>1 DEF Entry
<1>3. Len(q) \in Nat /\ (q # <<>> => Len(q) >= 1 /\ Head(q) = q[1])
  OBVIOUS
<1> QED  BY <1>1, <1>2, <1>3

\* A buffer that lies d behind the index lies d + 1 behind the next one.
LEMMA OneFurther ==
  ASSUME NEW s \in 0..(Buffers - 1), NEW b \in 0..(Buffers - 1), NEW c,
         NEW n \in Nat, n <= Buffers - 1, NEW i \in 1..n,
         s + (n + 1 - i) = b \/ s + (n + 1 - i) = b + Buffers,
         c = IF b + 1 = Buffers THEN 0 ELSE b + 1
  PROVE  s + (n + 1 + 1 - i) = c \/ s + (n + 1 + 1 - i) = c + Buffers
  BY BuffersAssumption

LEMMA InitInv == Init => IInv
  BY BuffersAssumption, PerFrameAssumption, FrameModAssumption
  DEF Init, Started, IInv, TypeOK, InOrder, HasRoom, InFrame, InBuffer

\* The samples of a frame that has some fill part of a buffer.
LEMMA CountFits ==
  ASSUME TypeOK, InFrame, phase \in {"emulated", "copy", "submit"}
  PROVE  Count \in 1..Capacity
  BY PerFrameAssumption, MadeAssumption DEF TypeOK, InFrame, Count

LEMMA RunFrameInv == IInv /\ RunFrame => IInv'
<1> SUFFICES ASSUME IInv, RunFrame PROVE IInv'
  OBVIOUS
<1> USE BuffersAssumption, PerFrameAssumption, MadeAssumption, FrameModAssumption
<1>1. frame' \in Frames
  BY DEF IInv, TypeOK, RunFrame
<1>2. TypeOK'
  BY <1>1 DEF IInv, TypeOK, RunFrame, deviceVars
<1>3. (InOrder /\ HasRoom /\ InFrame /\ InBuffer)'
  BY DEF IInv, TypeOK, RunFrame, deviceVars, InOrder, HasRoom, InFrame, InBuffer
<1> QED  BY <1>2, <1>3 DEF IInv

LEMMA DropFrameInv == IInv /\ DropFrame => IInv'
  BY DEF IInv, TypeOK, DropFrame, deviceVars, InOrder, HasRoom, InFrame, InBuffer

LEMMA BeginCopyInv == IInv /\ BeginCopy => IInv'
<1> SUFFICES ASSUME IInv, BeginCopy PROVE IInv'
  OBVIOUS
<1>1. Count \in 1..Capacity
  BY CountFits DEF IInv, BeginCopy
<1>2. TypeOK'
  BY DEF IInv, TypeOK, BeginCopy, deviceVars
<1>3. (InOrder /\ HasRoom /\ InBuffer)'
  BY BuffersAssumption DEF IInv, TypeOK, BeginCopy, QueueFull, deviceVars, InOrder, HasRoom, InBuffer
<1>4. InFrame'
  BY <1>1, PerFrameAssumption DEF IInv, TypeOK, BeginCopy, deviceVars, InFrame, Count
<1> QED  BY <1>2, <1>3, <1>4 DEF IInv

LEMMA CopySampleInv == IInv /\ CopySample => IInv'
<1> SUFFICES ASSUME IInv, CopySample PROVE IInv'
  OBVIOUS
<1>1. Count \in 1..Capacity /\ copied + 1 \in 1..Capacity
  BY CountFits, PerFrameAssumption DEF IInv, TypeOK, CopySample
<1>2. buf' \in [Slots -> [1..Capacity -> Values]]
  BY <1>1 DEF IInv, TypeOK, CopySample
<1>3. TypeOK'
  BY <1>1, <1>2, PerFrameAssumption DEF IInv, TypeOK, CopySample, deviceVars
<1>4. (InOrder /\ HasRoom /\ InBuffer)'
  BY DEF IInv, TypeOK, CopySample, deviceVars, InOrder, HasRoom, InBuffer
<1>5. InFrame'
  <2>1. copied + 1 <= Count
    BY <1>1 DEF IInv, TypeOK, CopySample
  <2>2. Count' = Count
    BY DEF CopySample, Count
  <2> QED  BY <2>1, <2>2 DEF IInv, CopySample, InFrame
<1> QED  BY <1>3, <1>4, <1>5 DEF IInv

LEMMA EndCopyInv == IInv /\ EndCopy => IInv'
  BY DEF IInv, TypeOK, EndCopy, deviceVars, InOrder, HasRoom, InFrame, InBuffer, Count

LEMMA SubmitBufferInv == IInv /\ SubmitBuffer => IInv'
<1> SUFFICES ASSUME IInv, SubmitBuffer PROVE IInv'
  OBVIOUS
<1> USE BuffersAssumption
<1>1. Count \in 1..Capacity /\ Handed \in Entry
  BY CountFits DEF Entry, IInv, TypeOK, SubmitBuffer, Handed
<1>2. /\ queue' \in Seq(Entry)
      /\ Len(queue') = Len(queue) + 1
      /\ \A i \in 1..Len(queue) : queue'[i] = queue[i]
      /\ queue'[Len(queue) + 1] = Handed
  BY <1>1 DEF IInv, TypeOK, SubmitBuffer
<1>3. bufIdx' = (IF bufIdx + 1 = Buffers THEN 0 ELSE bufIdx + 1) /\ bufIdx' \in Slots
  BY NextBufferIs DEF IInv, TypeOK, SubmitBuffer
<1>4. TypeOK'
  BY <1>2, <1>3, PerFrameAssumption DEF IInv, TypeOK, SubmitBuffer
<1>5. Len(queue) \in Nat /\ bufIdx \in 0..(Buffers - 1)
  BY DEF IInv, TypeOK
<1>6. InOrder'
  <2> SUFFICES ASSUME NEW i \in 1..Len(queue')
               PROVE  \/ queue'[i].slot + (Len(queue') + 1 - i) = bufIdx'
                      \/ queue'[i].slot + (Len(queue') + 1 - i) = bufIdx' + Buffers
    BY DEF InOrder
  <2>0. i \in 1..(Len(queue) + 1)
    BY <1>2
  <2>1. CASE i = Len(queue) + 1
    <3>1. queue'[i].slot = bufIdx
      BY <2>1, <1>2 DEF Handed
    <3>2. Len(queue') + 1 - i = 1
      BY <2>1, <1>2, <1>5
    <3> QED  BY <3>1, <3>2, <1>3, <1>5
  <2>2. CASE i # Len(queue) + 1
    <3>1. i \in 1..Len(queue)
      BY <2>0, <2>2, <1>5
    <3>2. queue[i].slot \in 0..(Buffers - 1) /\ Len(queue) <= Buffers - 1
      BY <3>1, Entries DEF IInv, TypeOK, HasRoom, SubmitBuffer
    <3>3. \/ queue[i].slot + (Len(queue) + 1 - i) = bufIdx
          \/ queue[i].slot + (Len(queue) + 1 - i) = bufIdx + Buffers
      BY <3>1 DEF IInv, InOrder
    <3>4. \/ queue[i].slot + (Len(queue) + 1 + 1 - i) = bufIdx'
          \/ queue[i].slot + (Len(queue) + 1 + 1 - i) = bufIdx' + Buffers
      <4> DEFINE s == queue[i].slot
                 n == Len(queue)
                 b == bufIdx
                 c == bufIdx'
      <4>1. s \in 0..(Buffers - 1) /\ b \in 0..(Buffers - 1) /\ n \in Nat /\ n <= Buffers - 1
        BY <3>2, <1>5
      <4>2. c = IF b + 1 = Buffers THEN 0 ELSE b + 1
        BY <1>3
      <4>3. i \in 1..n
        BY <3>1
      <4>4. s + (n + 1 - i) = b \/ s + (n + 1 - i) = b + Buffers
        BY <3>3
      <4> HIDE DEF s, n, b, c
      <4>5. s + (n + 1 + 1 - i) = c \/ s + (n + 1 + 1 - i) = c + Buffers
        BY <4>1, <4>2, <4>3, <4>4, OneFurther
      <4> QED  BY <4>5 DEF s, n, b, c
    <3> QED  BY <3>1, <3>4, <1>2
  <2> QED  BY <2>1, <2>2
<1>7. HasRoom' /\ InFrame'
  <2>1. HasRoom'
    BY <1>2, <1>5 DEF IInv, SubmitBuffer, HasRoom
  <2>2. source'
    BY DEF IInv, InFrame, SubmitBuffer
  <2> QED  BY <2>1, <2>2 DEF SubmitBuffer, InFrame
<1>8. InBuffer'
  <2>1. queue' # <<>> /\ Head(queue') = queue'[1]
    BY <1>2, <1>5
  <2>2. CASE queue = <<>>
    <3>1. pos = 0 /\ pos' = pos
      BY <2>2 DEF IInv, TypeOK, InBuffer, SubmitBuffer
    <3>2. Head(queue').count \in 1..Capacity
      BY <2>1, <1>2, Entries
    <3> QED  BY <2>1, <3>1, <3>2, PerFrameAssumption DEF InBuffer
  <2>3. CASE queue # <<>>
    <3>1. Head(queue') = Head(queue) /\ pos' = pos
      BY <2>1, <2>3, <1>2, <1>5 DEF IInv, TypeOK, SubmitBuffer
    <3> QED  BY <2>1, <2>3, <3>1 DEF IInv, InBuffer
  <2> QED  BY <2>2, <2>3
<1> QED  BY <1>4, <1>6, <1>7, <1>8 DEF IInv

LEMMA QuitInv == IInv /\ Quit => IInv'
<1> SUFFICES ASSUME IInv, Quit PROVE IInv'
  OBVIOUS
<1>1. Len(queue') = 0 /\ queue' \in Seq(Entry)
  BY DEF Quit
<1>2. TypeOK'
  <2>1. source' \in BOOLEAN /\ playing' \in BOOLEAN
    BY Zenon DEF Quit
  <2>2. pos' \in 0..Capacity
    BY PerFrameAssumption DEF Quit
  <2>3. /\ frame' \in Frames /\ samples' \in Made \cup {0} /\ copied' \in 0..Capacity
        /\ bufIdx' \in Slots /\ buf' \in [Slots -> [1..Capacity -> Values]]
        /\ heard' \in Values /\ phase' = "closed"
    BY DEF IInv, TypeOK, Quit
  <2> QED  BY <2>1, <2>2, <2>3, <1>1 DEF TypeOK
<1>3. InOrder' /\ HasRoom'
  BY <1>1, BuffersAssumption DEF Quit, InOrder, HasRoom
<1>4. InFrame' /\ InBuffer'
  BY DEF IInv, InFrame, InBuffer, Quit
<1> QED  BY <1>2, <1>3, <1>4 DEF IInv

LEMMA PlaySampleInv == IInv /\ PlaySample => IInv'
<1> SUFFICES ASSUME IInv, PlaySample PROVE IInv'
  OBVIOUS
<1>1. Head(queue).slot \in Slots /\ Head(queue).count \in 1..Capacity
  BY Entries DEF IInv, TypeOK, PlaySample
<1>2. pos + 1 \in 1..Capacity /\ pos + 1 <= Head(queue).count
  BY <1>1, PerFrameAssumption DEF IInv, TypeOK, PlaySample
<1>3. heard' \in Values
  <2>1. buf[Head(queue).slot] \in [1..Capacity -> Values]
    BY <1>1 DEF IInv, TypeOK
  <2>2. buf[Head(queue).slot][pos + 1] \in Values
    BY <2>1, <1>2
  <2> QED  BY <2>2 DEF PlaySample
<1>4. TypeOK'
  BY <1>2, <1>3, PerFrameAssumption DEF IInv, TypeOK, PlaySample, loopVars
<1>5. (InOrder /\ HasRoom /\ InFrame)'
  BY DEF IInv, PlaySample, loopVars, InOrder, HasRoom, InFrame, Count
<1>6. InBuffer'
  BY <1>2 DEF PlaySample, InBuffer
<1> QED  BY <1>4, <1>5, <1>6 DEF IInv

LEMMA EndOfBufferInv == IInv /\ EndOfBuffer => IInv'
<1> SUFFICES ASSUME IInv, EndOfBuffer PROVE IInv'
  OBVIOUS
<1>1. /\ queue' \in Seq(Entry)
      /\ Len(queue) \in Nat \ {0}
      /\ Len(queue') = Len(queue) - 1
      /\ \A i \in 1..Len(queue') : queue'[i] = queue[i + 1]
  BY DEF IInv, TypeOK, EndOfBuffer
<1>2. TypeOK'
  BY <1>1, PerFrameAssumption DEF IInv, TypeOK, EndOfBuffer, loopVars
<1>3. InOrder'
  <2> SUFFICES ASSUME NEW i \in 1..Len(queue')
               PROVE  \/ queue'[i].slot + (Len(queue') + 1 - i) = bufIdx'
                      \/ queue'[i].slot + (Len(queue') + 1 - i) = bufIdx' + Buffers
    BY DEF InOrder
  <2>1. i + 1 \in 1..Len(queue) /\ Len(queue') + 1 - i = Len(queue) + 1 - (i + 1)
    BY <1>1
  <2>2. queue'[i] = queue[i + 1] /\ bufIdx' = bufIdx
    BY <1>1 DEF EndOfBuffer, loopVars
  <2>3. \/ queue[i + 1].slot + (Len(queue) + 1 - (i + 1)) = bufIdx
        \/ queue[i + 1].slot + (Len(queue) + 1 - (i + 1)) = bufIdx + Buffers
    BY <2>1 DEF IInv, InOrder
  <2> QED  BY <2>1, <2>2, <2>3
<1>4. HasRoom' /\ InFrame'
  BY <1>1, BuffersAssumption DEF IInv, EndOfBuffer, loopVars, HasRoom, InFrame, Count
<1>5. InBuffer'
  <2>1. queue' # <<>> => Head(queue').count \in 1..Capacity
    BY <1>1, Entries
  <2> QED  BY <2>1, PerFrameAssumption DEF EndOfBuffer, InBuffer
<1> QED  BY <1>2, <1>3, <1>4, <1>5 DEF IInv

LEMMA IdleInv == IInv /\ UNCHANGED vars => IInv'
  BY DEF IInv, TypeOK, vars, loopVars, deviceVars, InOrder, HasRoom, InFrame, InBuffer, Count

LEMMA StepInv == IInv /\ [Next]_vars => IInv'
  BY RunFrameInv, DropFrameInv, BeginCopyInv, CopySampleInv, EndCopyInv, SubmitBufferInv,
     QuitInv, PlaySampleInv, EndOfBufferInv, IdleInv DEF Next, MainLoop, Device

LEMMA InvAlways == Spec => []IInv
  BY InitInv, StepInv, PTL DEF Spec

\* In every run, with any number of buffers and frames of any length.
THEOREM TypeCorrect == Spec => []TypeOK
<1>1. IInv => TypeOK
  BY DEF IInv
<1> QED  BY <1>1, InvAlways, PTL

LEMMA FreeWhenWritten == IInv => NeverOverwritten
<1> SUFFICES ASSUME IInv, phase \in {"copy", "submit"}, NEW i \in 1..Len(queue)
             PROVE  queue[i].slot # bufIdx
  BY DEF NeverOverwritten
<1>1. Len(queue) \in Nat /\ Len(queue) < Buffers /\ queue[i].slot \in 0..(Buffers - 1)
  BY Entries DEF IInv, TypeOK, HasRoom
<1>2. \/ queue[i].slot + (Len(queue) + 1 - i) = bufIdx
      \/ queue[i].slot + (Len(queue) + 1 - i) = bufIdx + Buffers
  BY DEF IInv, InOrder
<1> QED  BY <1>1, <1>2, BuffersAssumption

\* submit() never writes a buffer that the device may be reading: counting the
\* queued buffers is enough, because they are the last ones filled.
THEOREM WritesOnlyFree == Spec => []NeverOverwritten
  BY FreeWhenWritten, InvAlways, PTL

-----------------------------------------------------------------------------
(* The ring implements the queue of sounds.                                *)

\* What was copied of the frame is in the buffer that is being filled.
Filled ==
  phase \in {"copy", "submit"} => \A k \in 1..copied : buf[bufIdx][k] = frame

LEMMA FilledAlways == Spec => []Filled
<1>1. Init => Filled
  BY DEF Init, Filled
<1>2. IInv /\ Filled /\ [Next]_vars => Filled'
  <2> SUFFICES ASSUME IInv, Filled, [Next]_vars PROVE Filled'
    OBVIOUS
  <2>1. CASE CopySample
    <3>1. bufIdx \in Slots /\ copied \in Nat /\ copied + 1 \in 1..Capacity
      BY <2>1, CountFits, PerFrameAssumption DEF IInv, TypeOK, CopySample
    <3>2. \A k \in 1..(copied + 1) : buf'[bufIdx][k] = frame
      <4>1. /\ buf[bufIdx] \in [1..Capacity -> Values]
            /\ buf'[bufIdx] = [buf[bufIdx] EXCEPT ![copied + 1] = frame]
        BY <2>1, <3>1 DEF IInv, TypeOK, CopySample
      <4>2. \A k \in 1..copied : buf[bufIdx][k] = frame
        BY <2>1 DEF CopySample, Filled
      <4>3. \A k \in 1..copied : k \in 1..Capacity /\ k # copied + 1
        BY <3>1, PerFrameAssumption
      <4>4. \A k \in 1..(copied + 1) : k = copied + 1 \/ k \in 1..copied
        BY <3>1
      <4> QED  BY <3>1, <4>1, <4>2, <4>3, <4>4
    <3> QED  BY <2>1, <3>2 DEF CopySample, Filled
  <2>2. CASE BeginCopy
    BY <2>2 DEF IInv, InFrame, BeginCopy, Filled
  <2>3. CASE EndCopy
    BY <2>3 DEF EndCopy, Filled
  <2>4. CASE RunFrame \/ DropFrame \/ SubmitBuffer \/ Quit
    BY <2>4 DEF RunFrame, DropFrame, SubmitBuffer, Quit, Filled
  <2>5. CASE Device \/ UNCHANGED vars
    BY <2>5 DEF Device, PlaySample, EndOfBuffer, loopVars, vars, Filled
  <2> QED  BY <2>1, <2>2, <2>3, <2>4, <2>5 DEF Next, MainLoop
<1> QED  BY <1>1, <1>2, InvAlways, PTL DEF Spec

\* A function on 1..n is a sequence of length n.
LEMMA FunctionIsSeq ==
  ASSUME NEW S, NEW n \in Nat, NEW f \in [1..n -> S]
  PROVE  f \in Seq(S) /\ Len(f) = n
  BY SeqDef, LenProperties

LEMMA NothingIsEmpty ==
  ASSUME NEW S, NEW f \in Seq(S), Len(f) = 0
  PROVE  f = <<>>
  BY EmptySeq

\* What is left of the queued buffers.
PieceFacts ==
  \A i \in 1..Len(queue) :
    /\ Piece(i) \in Seq(Values)
    /\ Len(Piece(i)) = queue[i].count - Skip(i)
    /\ queue[i].count - Skip(i) \in Nat
    /\ \A k \in 1..(queue[i].count - Skip(i)) : Piece(i)[k] = buf[queue[i].slot][Skip(i) + k]

LEMMA PieceIs == IInv => PieceFacts
<1> SUFFICES ASSUME IInv, NEW i \in 1..Len(queue)
             PROVE  /\ Piece(i) \in Seq(Values)
                    /\ Len(Piece(i)) = queue[i].count - Skip(i)
                    /\ queue[i].count - Skip(i) \in Nat
                    /\ \A k \in 1..(queue[i].count - Skip(i)) :
                         Piece(i)[k] = buf[queue[i].slot][Skip(i) + k]
  BY DEF PieceFacts
<1>1. queue[i].slot \in Slots /\ queue[i].count \in 1..Capacity
  BY Entries DEF IInv, TypeOK
<1>2. Skip(i) \in Nat /\ Skip(i) <= queue[i].count
  <2>1. CASE i = 1
    <3>1. Head(queue) = queue[1] /\ queue # <<>>
      BY <2>1 DEF IInv, TypeOK
    <3> QED  BY <2>1, <3>1 DEF IInv, TypeOK, InBuffer, Skip
  <2>2. CASE i # 1
    BY <2>2, <1>1 DEF Skip
  <2> QED  BY <2>1, <2>2
<1>3. queue[i].count - Skip(i) \in Nat /\ Capacity \in Nat
  BY <1>1, <1>2, PerFrameAssumption
<1>4. \A k \in 1..(queue[i].count - Skip(i)) : buf[queue[i].slot][Skip(i) + k] \in Values
  <2> SUFFICES ASSUME NEW k \in 1..(queue[i].count - Skip(i))
               PROVE  buf[queue[i].slot][Skip(i) + k] \in Values
    OBVIOUS
  <2>1. Skip(i) + k \in 1..Capacity
    BY <1>1, <1>2, <1>3
  <2>2. buf[queue[i].slot] \in [1..Capacity -> Values]
    BY <1>1 DEF IInv, TypeOK
  <2> QED  BY <2>1, <2>2
<1>5. Piece(i) \in [1..(queue[i].count - Skip(i)) -> Values]
  BY <1>4 DEF Piece
<1>6. \A k \in 1..(queue[i].count - Skip(i)) : Piece(i)[k] = buf[queue[i].slot][Skip(i) + k]
  BY DEF Piece
<1> QED  BY <1>3, <1>5, <1>6, FunctionIsSeq

WaitingFacts ==
  /\ Waiting \in Seq(Seq(Values))
  /\ Len(Waiting) = Len(queue)
  /\ Len(queue) \in Nat
  /\ \A i \in 1..Len(queue) : Waiting[i] = Piece(i)

LEMMA WaitingIs == IInv => WaitingFacts
<1> SUFFICES ASSUME IInv PROVE WaitingFacts
  OBVIOUS
<1>1. Len(queue) \in Nat
  BY Entries DEF IInv, TypeOK
<1>2. \A i \in 1..Len(queue) : Piece(i) \in Seq(Values)
  BY PieceIs DEF PieceFacts
<1>3. Waiting \in [1..Len(queue) -> Seq(Values)]
  BY <1>2 DEF Waiting
<1>4. \A i \in 1..Len(queue) : Waiting[i] = Piece(i)
  BY DEF Waiting
<1> QED  BY <1>1, <1>3, <1>4, FunctionIsSeq DEF WaitingFacts

\* The sound offered is empty outside the loop's body, and then only.
OfferedFacts ==
  /\ phase \in {"wait", "closed"} => Offered = <<>>
  /\ phase \in {"emulated", "copy", "submit"} =>
       /\ Offered \in Sounding!Sound /\ Offered \in Seq(Values)
       /\ Len(Offered) = Count /\ Offered # <<>>
       /\ \A k \in 1..Count : Offered[k] = frame

LEMMA OfferedIs == IInv => OfferedFacts
<1> SUFFICES ASSUME IInv PROVE OfferedFacts
  OBVIOUS
<1>1. frame \in Values
  BY DEF IInv, TypeOK
<1>2. CASE phase \in {"wait", "closed"}
  <2>1. Count = 0
    BY <1>2, PerFrameAssumption DEF IInv, InFrame, Count
  <2>2. Offered \in [1..0 -> Values]
    BY <2>1 DEF Offered
  <2> QED  BY <1>2, <2>2, FunctionIsSeq, NothingIsEmpty DEF OfferedFacts
<1>3. CASE phase \in {"emulated", "copy", "submit"}
  <2>1. Count \in 1..Capacity
    BY <1>3, CountFits DEF IInv
  <2>2. Offered \in [1..Count -> Values] /\ Count \in Nat
    BY <1>1, <2>1 DEF Offered
  <2>3. Offered \in Seq(Values) /\ Len(Offered) = Count
    BY <2>2, FunctionIsSeq
  <2>4. Offered \in Sounding!Sound
    BY <2>1, <2>2 DEF Sounding!Sound
  <2>5. Offered # <<>>
    BY <2>1, <2>3, EmptySeq
  <2>6. \A k \in 1..Count : Offered[k] = frame
    BY DEF Offered
  <2> QED  BY <1>3, <2>3, <2>4, <2>5, <2>6 DEF OfferedFacts
<1> QED  BY <1>2, <1>3 DEF IInv, TypeOK

\* The same of the state after a step.
LEMMA FactsNext == IInv' => PieceFacts' /\ WaitingFacts' /\ OfferedFacts'
  BY PieceIs, WaitingIs, OfferedIs, PTL

\* Waiting rests in a step that keeps queue, pos and the queued buffers.
LEMMA WaitingRests ==
  ASSUME queue' = queue, pos' = pos,
         \A i \in 1..Len(queue) : buf'[queue[i].slot] = buf[queue[i].slot]
  PROVE  Waiting' = Waiting
  BY DEF Waiting, Piece, Skip

LEMMA InitMaps == Init => Sounding!Init
<1> SUFFICES ASSUME Init PROVE Sounding!Init
  OBVIOUS
<1>1. IInv
  BY InitInv
<1>2. Waiting = <<>>
  <2>1. Len(queue) = 0
    BY DEF Init
  <2> QED  BY <1>1, <2>1, WaitingIs, FactsNext, NothingIsEmpty DEF WaitingFacts
<1>3. Offered = <<>>
  BY <1>1, OfferedIs DEF OfferedFacts, Init
<1> QED  BY <1>2, <1>3 DEF Init, Sounding!Init

\* The variables of the queue of sounds, as the ring shows them.
Shown == <<source, Offered, Waiting, heard>>

LEMMA RunFrameMaps == IInv /\ IInv' /\ RunFrame => Sounding!Offer
<1> SUFFICES ASSUME IInv, IInv', RunFrame PROVE Sounding!Offer
  OBVIOUS
<1>1. Offered = <<>>
  BY OfferedIs, FactsNext DEF OfferedFacts, RunFrame
<1>2. phase' = "emulated"
  BY DEF RunFrame
<1>3. Offered' \in Sounding!Sound
  BY <1>2, FactsNext DEF OfferedFacts
<1>4. Waiting' = Waiting
  BY WaitingRests DEF RunFrame, deviceVars
<1> QED  BY <1>1, <1>3, <1>4 DEF RunFrame, deviceVars, Sounding!Offer

LEMMA DropFrameMaps == IInv /\ IInv' /\ DropFrame => Sounding!Drop
<1> SUFFICES ASSUME IInv, IInv', DropFrame PROVE Sounding!Drop
  OBVIOUS
<1>1. Offered # <<>>
  BY OfferedIs, FactsNext DEF OfferedFacts, DropFrame
<1>2. Offered' = <<>>
  BY OfferedIs, FactsNext DEF OfferedFacts, DropFrame
<1>3. Waiting' = Waiting
  BY WaitingRests DEF DropFrame, deviceVars
<1>4. ~source \/ Len(Waiting) = Buffers
  BY WaitingIs, BuffersAssumption DEF WaitingFacts, DropFrame, QueueFull, IInv, HasRoom
<1> QED  BY <1>1, <1>2, <1>3, <1>4 DEF DropFrame, deviceVars, Sounding!Drop

\* Copying is not seen: the buffer it fills is none of those that are queued.
LEMMA CopyingMaps ==
  IInv /\ IInv' /\ (BeginCopy \/ CopySample \/ EndCopy) => UNCHANGED Shown
<1> SUFFICES ASSUME IInv, IInv', BeginCopy \/ CopySample \/ EndCopy PROVE UNCHANGED Shown
  OBVIOUS
<1>1. Offered' = Offered /\ source' = source /\ heard' = heard
  BY DEF BeginCopy, CopySample, EndCopy, deviceVars, Offered, Count
<1>2. queue' = queue /\ pos' = pos
  BY DEF BeginCopy, CopySample, EndCopy, deviceVars
<1>3. \A i \in 1..Len(queue) : buf'[queue[i].slot] = buf[queue[i].slot]
  <2>1. CASE BeginCopy \/ EndCopy
    BY <2>1 DEF BeginCopy, EndCopy
  <2>2. CASE CopySample
    <3>1. \A i \in 1..Len(queue) : queue[i].slot # bufIdx /\ queue[i].slot \in Slots
      BY <2>2, FreeWhenWritten, Entries DEF IInv, TypeOK, CopySample, NeverOverwritten
    <3> QED  BY <2>2, <3>1 DEF IInv, TypeOK, CopySample
  <2> QED  BY <2>1, <2>2
<1>4. Waiting' = Waiting
  BY <1>2, <1>3, WaitingRests
<1> QED  BY <1>1, <1>4 DEF Shown

LEMMA SubmitBufferMaps == IInv /\ IInv' /\ Filled /\ SubmitBuffer => Sounding!Add
<1> SUFFICES ASSUME IInv, IInv', Filled, SubmitBuffer PROVE Sounding!Add
  OBVIOUS
<1>0. PICK n \in Nat : n = Len(queue)
  BY WaitingIs DEF WaitingFacts
<1>1. /\ Offered \in Seq(Values) /\ Len(Offered) = Count /\ Offered # <<>>
      /\ \A k \in 1..Count : Offered[k] = frame
  BY OfferedIs, FactsNext DEF OfferedFacts, SubmitBuffer
<1>2. Offered' = <<>>
  BY OfferedIs, FactsNext DEF OfferedFacts, SubmitBuffer
<1>3. source
  BY DEF IInv, InFrame, SubmitBuffer
<1>4. /\ n = Len(queue) /\ n < Buffers /\ Len(queue') = n + 1
      /\ \A i \in 1..n : queue'[i] = queue[i]
      /\ queue'[n + 1] = Handed
  <2>1. Handed \in Entry
    BY CountFits DEF IInv, TypeOK, SubmitBuffer, Handed, Entry
  <2> QED  BY <1>0, <2>1, Entries DEF IInv, TypeOK, HasRoom, SubmitBuffer
<1>5. \A i \in 1..n : Piece(i)' = Piece(i)
  BY <1>4 DEF SubmitBuffer, Piece, Skip
<1>6. Piece(n + 1)' = Offered
  <2>1. n + 1 \in 1..Len(queue')
    BY <1>4
  <2>2. Skip(n + 1)' = 0
    <3>1. CASE n = 0
      <4>1. queue = <<>>
        BY <3>1, <1>0, Entries DEF IInv, TypeOK
      <4>2. pos = 0
        BY <4>1 DEF IInv, TypeOK, InBuffer
      <4> QED  BY <4>2 DEF SubmitBuffer, Skip
    <3>2. CASE n # 0
      BY <3>2, <1>4 DEF Skip
    <3> QED  BY <3>1, <3>2
  <2>3. queue'[n + 1].count = Count /\ queue'[n + 1].slot = bufIdx /\ Count \in Nat
    BY <1>1, <1>4 DEF Handed
  <2>4. /\ Piece(n + 1)' \in Seq(Values) /\ Len(Piece(n + 1)') = Count
        /\ \A k \in 1..Count : Piece(n + 1)'[k] = buf'[bufIdx][k]
    <3>1. queue'[n + 1].count - Skip(n + 1)' = Count
      BY <2>2, <2>3
    <3>2. /\ Piece(n + 1)' \in Seq(Values)
          /\ Len(Piece(n + 1)') = queue'[n + 1].count - Skip(n + 1)'
      BY <2>1, FactsNext DEF PieceFacts
    <3>3. \A k \in 1..Count : Piece(n + 1)'[k] = buf'[bufIdx][k]
      BY <2>2, <2>3, <3>1 DEF Piece
    <3> QED  BY <3>1, <3>2, <3>3
  <2>5. \A k \in 1..Count : buf'[bufIdx][k] = frame
    BY DEF IInv, InFrame, Filled, SubmitBuffer
  <2> QED  BY <1>1, <2>3, <2>4, <2>5, SeqEqual
<1>7. Waiting' = Append(Waiting, Offered)
  <2>1. /\ Waiting \in Seq(Seq(Values)) /\ Len(Waiting) = n
        /\ \A i \in 1..n : Waiting[i] = Piece(i)
    BY <1>0, WaitingIs DEF WaitingFacts
  <2>2. /\ Waiting' \in Seq(Seq(Values)) /\ Len(Waiting') = n + 1
        /\ \A i \in 1..(n + 1) : Waiting'[i] = Piece(i)'
    BY <1>4, FactsNext DEF WaitingFacts
  <2>3. /\ Append(Waiting, Offered) \in Seq(Seq(Values))
        /\ Len(Append(Waiting, Offered)) = n + 1
        /\ \A i \in 1..n : Append(Waiting, Offered)[i] = Waiting[i]
        /\ Append(Waiting, Offered)[n + 1] = Offered
    BY <2>1, <1>1, AppendProperties
  <2>4. \A i \in 1..(n + 1) : Waiting'[i] = Append(Waiting, Offered)[i]
    BY <1>4, <1>5, <1>6, <2>1, <2>2, <2>3
  <2> QED  BY <2>2, <2>3, <2>4, SeqEqual
<1>8. Len(Waiting) < Buffers
  BY <1>4, WaitingIs DEF WaitingFacts
<1> QED  BY <1>1, <1>2, <1>3, <1>7, <1>8 DEF SubmitBuffer, Sounding!Add

LEMMA QuitMaps == IInv /\ IInv' /\ Quit => Sounding!Close
<1> SUFFICES ASSUME IInv, IInv', Quit PROVE Sounding!Close
  OBVIOUS
<1>1. Len(queue') = 0
  BY DEF Quit
<1>2. Waiting' = <<>>
  BY <1>1, FactsNext, NothingIsEmpty DEF WaitingFacts
<1>3. Offered' = Offered
  BY DEF Quit, Offered, Count
<1> QED  BY <1>2, <1>3 DEF Quit, Sounding!Close

\* The first of what waits is what is left of the first buffer.
LEMMA FirstPiece ==
  ASSUME IInv, queue # <<>>
  PROVE  /\ 1 \in 1..Len(queue) /\ Waiting # <<>> /\ Head(Waiting) = Piece(1)
         /\ Len(Piece(1)) = Head(queue).count - pos
         /\ \A k \in 1..(Head(queue).count - pos) : Piece(1)[k] = buf[Head(queue).slot][pos + k]
<1>1. Len(queue) >= 1 /\ Len(queue) \in Nat /\ Head(queue) = queue[1]
  BY Entries DEF IInv, TypeOK
<1>2. Waiting \in Seq(Seq(Values)) /\ Len(Waiting) >= 1 /\ Waiting[1] = Piece(1)
  BY <1>1, WaitingIs DEF WaitingFacts
<1>3. Waiting # <<>> /\ Head(Waiting) = Waiting[1]
  BY <1>2
<1> QED  BY <1>1, <1>2, <1>3, PieceIs DEF PieceFacts, Skip

LEMMA PlaySampleMaps == IInv /\ IInv' /\ PlaySample => Sounding!Hear
<1> SUFFICES ASSUME IInv, IInv', PlaySample PROVE Sounding!Hear
  OBVIOUS
<1> DEFINE p == Piece(1)
           left == Head(queue).count - pos
<1>1. /\ queue # <<>> /\ queue' = queue /\ buf' = buf /\ pos' = pos + 1
      /\ pos \in Nat /\ left \in Nat /\ left >= 1
  BY Entries, PerFrameAssumption DEF IInv, TypeOK, PlaySample, loopVars
<1>2. /\ 1 \in 1..Len(queue) /\ Waiting # <<>> /\ Head(Waiting) = p
      /\ Head(queue) = queue[1] /\ Len(p) = left /\ p \in Seq(Values)
      /\ \A k \in 1..left : p[k] = buf[queue[1].slot][pos + k]
  BY <1>1, FirstPiece, PieceIs, Entries DEF PieceFacts, IInv, TypeOK
<1>3. p # <<>> /\ heard' = p[1]
  BY <1>1, <1>2, EmptySeq DEF PlaySample
<1>4. /\ Tail(p) \in Seq(Values) /\ Len(Tail(p)) = left - 1
      /\ \A k \in 1..(left - 1) : Tail(p)[k] = p[k + 1]
  BY <1>1, <1>2, <1>3, HeadTailProperties
<1>5. Piece(1)' = Tail(p)
  <2>1. Len(queue') = Len(queue) /\ queue'[1] = queue[1] /\ Skip(1)' = pos + 1
    BY <1>1 DEF Skip
  <2>2. queue'[1].count - Skip(1)' = left - 1
    <3>1. queue[1].count \in Nat
      BY <1>2, Entries, PerFrameAssumption DEF IInv, TypeOK
    <3> QED  BY <3>1, <2>1, <1>1, <1>2
  <2>3. Piece(1)' \in Seq(Values) /\ Len(Piece(1)') = left - 1
    BY <2>1, <2>2, <1>2, FactsNext DEF PieceFacts
  <2>4. \A k \in 1..(left - 1) : Piece(1)'[k] = buf[queue[1].slot][pos + 1 + k]
    BY <2>1, <2>2, <1>1 DEF Piece
  <2>5. \A k \in 1..(left - 1) : k + 1 \in 1..left /\ pos + 1 + k = pos + (k + 1)
    BY <1>1
  <2>6. \A k \in 1..(left - 1) : Piece(1)'[k] = Tail(p)[k]
    BY <2>4, <2>5, <1>2, <1>4
  <2> QED  BY <2>3, <2>6, <1>4, SeqEqual
<1>6. \A i \in 1..Len(queue) : i # 1 => Piece(i)' = Piece(i)
  BY <1>1 DEF Piece, Skip
<1>7. Waiting' = [Waiting EXCEPT ![1] = Tail(@)]
  <2> DEFINE W == [Waiting EXCEPT ![1] = Tail(p)]
  <2>1. /\ Waiting \in Seq(Seq(Values)) /\ Len(Waiting) = Len(queue) /\ Waiting[1] = p
        /\ \A i \in 1..Len(queue) : Waiting[i] = Piece(i)
    BY <1>2, WaitingIs DEF WaitingFacts
  <2>2. /\ W \in Seq(Seq(Values)) /\ Len(W) = Len(queue)
        /\ \A i \in 1..Len(queue) : W[i] = IF i = 1 THEN Tail(p) ELSE Waiting[i]
    BY <2>1, <1>2, <1>4, ExceptSeq
  <2>3. /\ Waiting' \in Seq(Seq(Values)) /\ Len(Waiting') = Len(queue)
        /\ \A i \in 1..Len(queue) : Waiting'[i] = Piece(i)'
    BY <1>1, FactsNext DEF WaitingFacts
  <2>4. \A i \in 1..Len(queue) : Waiting'[i] = W[i]
    BY <2>1, <2>2, <2>3, <1>5, <1>6
  <2>5. Waiting' = W
    BY <2>2, <2>3, <2>4, SeqEqual
  <2> QED  BY <2>1, <2>5
<1>8. Offered' = Offered /\ source' = source
  BY DEF PlaySample, loopVars, Offered, Count
<1> QED  BY <1>2, <1>3, <1>7, <1>8 DEF Sounding!Hear

LEMMA EndOfBufferMaps == IInv /\ IInv' /\ EndOfBuffer => Sounding!Remove
<1> SUFFICES ASSUME IInv, IInv', EndOfBuffer PROVE Sounding!Remove
  OBVIOUS
<1>1. queue # <<>> /\ queue' = Tail(queue) /\ buf' = buf /\ pos' = 0 /\ pos = Head(queue).count
  BY DEF EndOfBuffer, loopVars
<1>2. 1 \in 1..Len(queue) /\ Waiting # <<>> /\ Head(Waiting) = Piece(1)
  BY <1>1, FirstPiece
<1>3. Piece(1) = <<>>
  <2>1. Head(queue).count \in Nat
    BY <1>1, Entries, PerFrameAssumption DEF IInv, TypeOK
  <2>2. Len(Piece(1)) = 0 /\ Piece(1) \in Seq(Values)
    BY <2>1, <1>1, FirstPiece, PieceIs DEF PieceFacts
  <2> QED  BY <2>2, NothingIsEmpty
<1>4. /\ Len(queue') = Len(queue) - 1
      /\ \A i \in 1..Len(queue') : queue'[i] = queue[i + 1]
  BY <1>1, HeadTailProperties DEF IInv, TypeOK
<1>5. PICK n \in Nat : n = Len(queue) /\ n >= 1
  BY <1>2, WaitingIs DEF WaitingFacts
<1>6. \A i \in 1..(n - 1) : Piece(i)' = Piece(i + 1)
  <2> SUFFICES ASSUME NEW i \in 1..(n - 1) PROVE Piece(i)' = Piece(i + 1)
    OBVIOUS
  <2>1. queue'[i] = queue[i + 1] /\ i + 1 # 1
    BY <1>4, <1>5
  <2>2. Skip(i)' = 0 /\ Skip(i + 1) = 0
    BY <2>1, <1>1 DEF Skip
  <2> QED  BY <2>1, <2>2, <1>1 DEF Piece
<1>7. Waiting' = Tail(Waiting)
  <2>1. /\ Waiting \in Seq(Seq(Values)) /\ Len(Waiting) = n
        /\ \A i \in 1..n : Waiting[i] = Piece(i)
    BY <1>5, WaitingIs DEF WaitingFacts
  <2>2. /\ Waiting' \in Seq(Seq(Values)) /\ Len(Waiting') = n - 1
        /\ \A i \in 1..(n - 1) : Waiting'[i] = Piece(i)'
    BY <1>4, <1>5, FactsNext DEF WaitingFacts
  <2>3. /\ Tail(Waiting) \in Seq(Seq(Values)) /\ Len(Tail(Waiting)) = n - 1
        /\ \A i \in 1..(n - 1) : Tail(Waiting)[i] = Waiting[i + 1]
    BY <2>1, <1>2, HeadTailProperties
  <2>4. \A i \in 1..(n - 1) : i + 1 \in 1..n
    BY <1>5
  <2>5. \A i \in 1..(n - 1) : Waiting'[i] = Tail(Waiting)[i]
    BY <2>1, <2>2, <2>3, <2>4, <1>6
  <2> QED  BY <2>2, <2>3, <2>5, SeqEqual
<1>8. Offered' = Offered /\ source' = source /\ heard' = heard
  BY DEF EndOfBuffer, loopVars, Offered, Count
<1> QED  BY <1>2, <1>3, <1>7, <1>8 DEF Sounding!Remove

LEMMA StepMaps ==
  IInv /\ IInv' /\ Filled /\ [Next]_vars => [Sounding!Next]_Shown
<1>1. IInv /\ UNCHANGED vars => UNCHANGED Shown
  <2> SUFFICES ASSUME UNCHANGED vars PROVE UNCHANGED Shown
    OBVIOUS
  <2>1. Waiting' = Waiting
    BY WaitingRests DEF vars, loopVars, deviceVars
  <2> QED  BY <2>1 DEF Shown, Offered, Count, vars, loopVars, deviceVars
<1> QED
  BY <1>1, RunFrameMaps, DropFrameMaps, CopyingMaps, SubmitBufferMaps, QuitMaps, PlaySampleMaps,
     EndOfBufferMaps DEF Next, MainLoop, Device, Sounding!Next

\* The ring is a queue of sounds, for any number of buffers, samples per
\* frame and frames: ImplementsQueue for every instance.
THEOREM RingImplementsQueue == Spec => ImplementsQueue
  BY InitMaps, StepMaps, InvAlways, FilledAlways, PTL
  DEF Spec, ImplementsQueue, Sounding!Spec, Shown
=============================================================================
