------------------------------ MODULE InputFile ------------------------------
(***************************************************************************)
(* The controller replay file (src/common/nesinput.h): the line-by-line    *)
(* reader of InputFile::load() with its checks, and, for comparison, the   *)
(* grammar of src/doc/input_replay.md.                                     *)
(*                                                                         *)
(* A line is what the tokenizer makes of it.  Blank lines and comments are *)
(* the same, and so are the ways in which a byte can be malformed.         *)
(***************************************************************************)
EXTENDS Integers, FiniteSets, SequencesExt

CONSTANT Keys   \* metadata a versioned file must give (the seven of nesinput.h)

ASSUME KeysAssumption ==
  /\ IsFiniteSet(Keys)
  /\ {"fourscore", "port0", "port1", "port2"} \subseteq Keys

Blank == [kind |-> "blank"]           \* nothing, or a comment
Broken == [kind |-> "broken"]         \* too long, or with a NUL byte
Magic(good) == [kind |-> "magic", good |-> good]      \* NESINPUT with version 1 or not
DataMark == [kind |-> "data"]
\* key=value; `good` if the key is known and the value allowed for it
Field(key, value, good) == [kind |-> "field", key |-> key, value |-> value, good |-> good]
\* hexadecimal tokens; `good` if each is a byte of one or two digits
Record(bytes, good) == [kind |-> "record", bytes |-> bytes, good |-> good]

\* What the tokenizer can make of a line.
Tokenized ==
  {Blank, Broken, DataMark} \cup [kind : {"magic"}, good : BOOLEAN]
  \cup [kind : {"field"}, key : STRING, value : Nat, good : BOOLEAN]
  \cup [kind : {"record"}, bytes : Seq(0..255), good : BOOLEAN]

\* Bits of a versioned record's command byte.
ResetBit == 1
PowerBit == 2
Commands == 0..(ResetBit + PowerBit)

Frame(commands, pads) ==
  [commands |-> commands, pads |-> [i \in 1..4 |-> IF i <= Len(pads) THEN pads[i] ELSE 0]]
NeutralFrame == Frame(0, <<>>)

-----------------------------------------------------------------------------
(* load() *)

\* Nothing read yet.  `mode` stands for first, versioned and data.
Start ==
  [mode |-> "start", settings |-> <<>>, frames |-> <<>>, ok |-> TRUE]

Reject(p) == [p EXCEPT !.ok = FALSE]

\* A slip: metadata given twice is not noticed.
HeaderLineTwice(p, l) ==
  CASE l.kind = "data" /\ DOMAIN p.settings = Keys -> [p EXCEPT !.mode = "data"]
    [] l.kind = "field" /\ l.good ->
         [p EXCEPT !.settings = [k \in DOMAIN p.settings \cup {l.key} |->
                                   IF k = l.key THEN l.value ELSE p.settings[k]]]
    [] OTHER -> Reject(p)

\* Metadata: known, allowed, once each; `data` ends it when it is complete.
HeaderLine(p, l) ==
  CASE l.kind = "data" /\ DOMAIN p.settings = Keys -> [p EXCEPT !.mode = "data"]
    [] l.kind = "field" /\ l.good /\ l.key \notin DOMAIN p.settings ->
         [p EXCEPT !.settings = [k \in DOMAIN p.settings \cup {l.key} |->
                                   IF k = l.key THEN l.value ELSE p.settings[k]]]
    [] OTHER -> Reject(p)

\* COMMAND P1 P2 P3 P4
VersionedLine(p, l) ==
  IF l.kind = "record" /\ l.good /\ Len(l.bytes) = 5 /\ l.bytes[1] \in Commands
  THEN [p EXCEPT !.frames = Append(p.frames, Frame(l.bytes[1], Tail(l.bytes)))]
  ELSE Reject(p)

\* P1 [P2]
LegacyLine(p, l) ==
  IF l.kind = "record" /\ l.good /\ Len(l.bytes) \in 1..2
  THEN [p EXCEPT !.mode = "legacy", !.frames = Append(p.frames, Frame(0, l.bytes))]
  ELSE Reject(p)

\* One line; reading stops at the first that is rejected.
TakeLine(p, l) ==
  IF l.kind = "broken" THEN Reject(p)
  ELSE IF l.kind = "blank" THEN p
  ELSE CASE l.kind = "magic" /\ p.mode = "start" ->
              IF l.good THEN [p EXCEPT !.mode = "header"] ELSE Reject(p)
         [] p.mode = "header" -> HeaderLine(p, l)
         [] p.mode = "data" -> VersionedLine(p, l)
         [] OTHER -> LegacyLine(p, l)

Versioned(p) == p.mode \in {"header", "data"}

\* A setting of the file, a legacy file having the defaults.
Setting(p, key) ==
  IF Versioned(p) THEN p.settings[key]
  ELSE CASE key \in {"port0", "port1"} -> 1 [] OTHER -> 0

\* The checks after the last line.
Loaded(p) ==
  /\ p.ok /\ p.frames # <<>>
  /\ Versioned(p) => p.mode = "data"
  /\ Setting(p, "fourscore") = 1 => Setting(p, "port0") = 1 /\ Setting(p, "port1") = 1

\* validate_rom(): a versioned file belongs to the ROM it names.
RomKeys == {"rom_hash", "rom_size"} \cap Keys
ValidRom(p, rom) == Versioned(p) => \A k \in RomKeys : p.settings[k] = rom[k]

\* validate_run(): a versioned file must be long enough.
ValidRun(p, count) == Versioned(p) => count <= Len(p.frames)

\* at(): beyond its end a legacy file is neutral.
At(p, f) == IF f \in 1..Len(p.frames) THEN p.frames[f] ELSE NeutralFrame

-----------------------------------------------------------------------------
(* The grammar. *)

IsRecord(l, lengths) == l.kind = "record" /\ l.good /\ Len(l.bytes) \in lengths

\* A legacy file is frame lines only.
LegacyFile(s) == s # <<>> /\ \A i \in DOMAIN s : IsRecord(s[i], 1..2)

\* A versioned file is the magic line, each metadata field once in any order, `data`,
\* and frame lines; a Four Score needs both ports.
VersionedFile(s) ==
  LET n == Cardinality(Keys)
      gives(key, value) == \E i \in 2..(n + 1) : s[i].key = key /\ s[i].value = value
  IN  /\ Len(s) >= n + 3
      /\ s[1] = Magic(TRUE)
      /\ \A i \in 2..(n + 1) : s[i].kind = "field" /\ s[i].good
      /\ {s[i].key : i \in 2..(n + 1)} = Keys
      /\ s[n + 2] = DataMark
      /\ \A i \in (n + 3)..Len(s) : IsRecord(s[i], {5}) /\ s[i].bytes[1] \in Commands
      /\ gives("fourscore", 1) => gives("port0", 1) /\ gives("port1", 1)

\* The lines that count.
Counting(l) == IF l = Blank THEN <<>> ELSE <<l>>
Significant(lines) == FlattenSeq([i \in DOMAIN lines |-> Counting(lines[i])])
WellFormed(lines) == LegacyFile(Significant(lines)) \/ VersionedFile(Significant(lines))

\* The frames a well-formed file gives: its frame lines in their order.
FrameOf(l) ==
  IF l.kind # "record" THEN <<>>
  ELSE IF Len(l.bytes) = 5 THEN <<Frame(l.bytes[1], Tail(l.bytes))>> ELSE <<Frame(0, l.bytes)>>
FramesOf(lines) == FlattenSeq([i \in DOMAIN lines |-> FrameOf(lines[i])])
=============================================================================
