-------------------------------- MODULE Replay --------------------------------
(***************************************************************************)
(* A headless run with a replay file: the file is read, checked against    *)
(* the ROM and the run, and then applied frame by frame by run_dump_mode() *)
(* (src/src/nes1.cpp): the four pads are set and the frame's power and     *)
(* reset commands carried out before the frame runs.  During a frame the   *)
(* program reads the controllers serially through $4016 and $4017          *)
(* (src/src/cpu.cpp): two ports, with a Four Score or a Famicom adapter,   *)
(* whose reports restart on the falling edge of the strobe.                *)
(***************************************************************************)
EXTENDS InputFile

CONSTANTS
  FileLines,    \* lines a replay file may consist of
  MaxLines,     \* bound: lines of a file
  Rom,          \* size and hash of the ROM that is run
  RunLengths,   \* values of --frames
  PadBits,      \* buttons of a pad (8)
  CounterMod,   \* the read counters are this wide (256)
  MaxReads      \* bound: reads of a port in a row

ASSUME ReplayAssumption ==
  /\ PadBits \in 1..8 /\ CounterMod \in Nat /\ CounterMod > 2 * PadBits + 3
  /\ RunLengths \subseteq Nat \ {0}
  /\ FileLines \subseteq Tokenized
  /\ \A l \in FileLines : l.kind = "field" => (l.good => l.key \in Keys)

Ports == {0, 1}

VARIABLES
  stage,      \* "load", "refused", "between" frames, in a "frame", or "done"
  file,       \* what has been read of the replay file
  total,      \* frames to run
  f,          \* the frame
  pads,       \* joypad1_state to joypad4_state
  readbit,    \* joy_readbit
  fcReadbit,  \* joy_fc_readbit
  strobe,     \* last_strobe
  got         \* the bits the last controller read returned: serial data and adapter data

(* History variables: read by properties only. *)
VARIABLES
  lines,      \* the lines read, while loading
  reads       \* reads of each port since its report restarted

vars == <<stage, file, total, f, pads, readbit, fcReadbit, strobe, got, lines, reads>>

Zero == [w \in Ports |-> 0]

Init ==
  /\ stage = "load" /\ file = Start /\ total = 0 /\ f = 0
  /\ pads = [i \in 1..4 |-> 0]
  /\ readbit = Zero /\ fcReadbit = Zero /\ strobe = 0 /\ got = <<0, 0>>
  /\ lines = <<>> /\ reads = Zero

-----------------------------------------------------------------------------
(* Loading. *)

ReadLine ==
  /\ stage = "load" /\ file.ok /\ Len(lines) < MaxLines
  /\ \E l \in FileLines : file' = TakeLine(file, l) /\ lines' = Append(lines, l)
  /\ UNCHANGED <<stage, total, f, pads, readbit, fcReadbit, strobe, got, reads>>

\* End of file, or the first rejected line; --frames is compared with the file last.
EndOfFile ==
  /\ stage = "load"
  /\ \E n \in RunLengths :
       IF Loaded(file) /\ ValidRom(file, Rom) /\ ValidRun(file, n)
       THEN stage' = "between" /\ total' = n /\ file' = file
       ELSE stage' = "refused" /\ total' = 0 /\ file' = Start
  /\ lines' = <<>>
  /\ UNCHANGED <<f, pads, readbit, fcReadbit, strobe, got, reads>>

-----------------------------------------------------------------------------
(* The frame loop of run_dump_mode(). *)

Has(command, bit) == (command \div bit) % 2 = 1

\* A slip: a power cycle leaves the reports where they were.
PowerControllersKept == pads' = [i \in 1..4 |-> 0] /\ UNCHANGED <<readbit, fcReadbit, strobe>>

\* What cpu.power() does to the controllers.
PowerControllers ==
  pads' = [i \in 1..4 |-> 0] /\ readbit' = Zero /\ fcReadbit' = Zero /\ strobe' = 0

\* The record's pads are set, then its commands carried out; a reset does not touch
\* the controllers.
BeginFrame ==
  /\ stage = "between" /\ f < total
  /\ stage' = "frame" /\ f' = f + 1
  /\ LET record == At(file, f + 1) IN
     IF Has(record.commands, PowerBit)
     THEN PowerControllers /\ reads' = Zero
     ELSE pads' = record.pads /\ UNCHANGED <<readbit, fcReadbit, strobe, reads>>
  /\ UNCHANGED <<file, total, got, lines>>

EndFrame ==
  /\ stage = "frame"
  /\ stage' = "between"
  /\ UNCHANGED <<file, total, f, pads, readbit, fcReadbit, strobe, got, lines, reads>>

Finish ==
  /\ stage = "between" /\ f = total
  /\ stage' = "done"
  /\ UNCHANGED <<file, total, f, pads, readbit, fcReadbit, strobe, got, lines, reads>>

-----------------------------------------------------------------------------
(* The program's accesses. *)

Button(pad, position) == (pad \div 2 ^ position) % 2

FourScore == Setting(file, "fourscore") = 1
Famicom4 == Setting(file, "port2") = 3
Enabled(w) == Setting(file, IF w = 0 THEN "port0" ELSE "port1") = 1

\* The serial bit of port w at position pos, from the pads as they are now.
SerialBit(w, pos) ==
  LET data == IF pos < PadBits THEN Button(pads[w + 1], pos)
              ELSE IF pos < 2 * PadBits THEN Button(pads[w + 3], pos - PadBits) ELSE 0
      fill == ~FourScore /\ pos >= PadBits
      signature == FourScore /\ pos = 2 * PadBits + 3 - w
  IN  IF fill \/ signature THEN 1 ELSE data

\* The adapter's bit at position pos.
AdapterBit(w, pos) == IF pos >= PadBits THEN 1 ELSE Button(pads[w + 3], pos)

\* A slip: the counter is wider than the hardware's.
CountUp(n) == n + 1

\* ++joy_readbit
NextPosition(n) == (n + 1) % CounterMod

\* A read of $4016 (w = 0) or $4017 (w = 1).
Read(w) ==
  /\ stage = "frame" /\ reads[w] < MaxReads
  /\ got' = <<IF Enabled(w) THEN SerialBit(w, readbit[w]) ELSE 0,
              IF Famicom4 THEN AdapterBit(w, fcReadbit[w]) ELSE 0>>
  /\ readbit' = [readbit EXCEPT ![w] = IF Enabled(w) THEN NextPosition(@) ELSE @]
  /\ fcReadbit' = [fcReadbit EXCEPT ![w] = IF Famicom4 /\ @ < PadBits THEN @ + 1 ELSE @]
  /\ reads' = [reads EXCEPT ![w] = @ + 1]
  /\ UNCHANGED <<stage, file, total, f, pads, strobe, lines>>

\* A slip: the report restarts when the strobe rises.
RestartsWhenRising(b) == strobe = 0 /\ b = 1

Restarts(b) == strobe = 1 /\ b = 0

\* A write of $4016 with bit 0 equal to b: a falling edge restarts all reports.
Strobe(b) ==
  /\ stage = "frame"
  /\ strobe' = b
  /\ IF Restarts(b) THEN readbit' = Zero /\ fcReadbit' = Zero
                    ELSE UNCHANGED <<readbit, fcReadbit>>
  /\ reads' = IF strobe = 1 /\ b = 0 THEN Zero ELSE reads
  /\ UNCHANGED <<stage, file, total, f, pads, got, lines>>

Next ==
  \/ ReadLine \/ EndOfFile \/ BeginFrame \/ EndFrame \/ Finish
  \/ \E w \in Ports : Read(w)
  \/ \E b \in {0, 1} : Strobe(b)

Spec == Init /\ [][Next]_vars

-----------------------------------------------------------------------------
(* Properties.                                                             *)

TypeOK ==
  /\ stage \in {"load", "refused", "between", "frame", "done"}
  /\ file.mode \in {"start", "header", "data", "legacy"}
  /\ DOMAIN file.settings \subseteq Keys /\ file.ok \in BOOLEAN
  /\ \A i \in DOMAIN file.frames : file.frames[i].commands \in Commands
  /\ f \in 0..total
  /\ pads \in [1..4 -> Nat]
  /\ readbit \in [Ports -> 0..(CounterMod - 1)] /\ fcReadbit \in [Ports -> 0..PadBits]
  /\ strobe \in {0, 1} /\ got \in {0, 1} \X {0, 1}

\* The reader accepts exactly the files of the grammar in input_replay.md and takes
\* from them exactly their frame lines, in order, whatever the order of the metadata
\* and wherever blank lines stand.
FileMatchesGrammar ==
  stage = "load" =>
    /\ Loaded(file) <=> WellFormed(lines)
    /\ Loaded(file) => file.frames = FramesOf(lines)

\* What the n-th read after a restart returns, from the attachments and the record of
\* the frame (O-39, O-43): the standard report wraps with its counter, the adapter's
\* does not.
ReportOf(w, n, record) ==
  LET pos == n % CounterMod
      standard == CASE ~Enabled(w) -> 0
                    [] Enabled(w) /\ pos < PadBits -> Button(record.pads[w + 1], pos)
                    [] Enabled(w) /\ pos >= PadBits /\ ~FourScore -> 1
                    [] OTHER -> IF pos \in PadBits..(2 * PadBits - 1)
                                THEN Button(record.pads[w + 3], pos - PadBits)
                                ELSE IF pos = 2 * PadBits + 3 - w THEN 1 ELSE 0
      adapter == IF ~Famicom4 THEN 0
                 ELSE IF n < PadBits THEN Button(record.pads[w + 3], n) ELSE 1
  IN  <<standard, adapter>>

\* Every controller read returns the bit of the frame's record that its place in the
\* report demands, however reads of both ports, strobe writes and frame boundaries
\* are mixed and also after a power cycle (frames with a power command excepted).
ReportsFollowRecord ==
  [][\A w \in Ports :
       Read(w) /\ ~Has(At(file, f).commands, PowerBit)
         => got' = ReportOf(w, reads[w], At(file, f))]_vars

\* Each record's pads are applied to its frame, frames with commands included: "a
\* command frame still counts as an ordinary replay frame" (src/doc/input_replay.md).
PadsFollowRecord == stage = "frame" => pads = At(file, f).pads
=============================================================================
