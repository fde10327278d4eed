------------------------------ MODULE Recorder ------------------------------
(***************************************************************************)
(* The headless dump run as an observer of the machine: the recorder       *)
(* (src/common/nesdump.h), the state dumper that calls it                  *)
(* (src/src/statedump.cpp) and the places of run_dump_mode() and           *)
(* run_one_frame() (src/src/nes1.cpp) that call the dumper.                *)
(*                                                                         *)
(* The machine is reduced to the moments the dumper sees: instructions,    *)
(* finished rows, ends of lines and frames.  Of a dump's contents only     *)
(* what the recorder itself keeps or decides is modelled: its name, its    *)
(* position, the instruction count, and which frame each row it shows was  *)
(* drawn in.                                                               *)
(***************************************************************************)
EXTENDS Integers, Sequences, FiniteSets, SequencesExt, TLC

CONSTANTS
  Configs,      \* the command lines: see MCRecorder
  Lines,        \* visible lines of a frame (240)
  IntMax        \* INT_MAX: instruction numbers are compared as int

ASSUME LinesAssumption == Lines \in Nat \ {0}
ASSUME IntMaxAssumption == IntMax \in Nat

\* What RangeList::parse() accepts: no range is empty, no number negative or too large
\* for an int.
RangeLists ==
  SUBSET {r \in [lo : 0..IntMax, hi : 0..IntMax, step : 1..IntMax] : r.lo <= r.hi}

\* The parser refuses a run without frames.  A negative cap on the dumps of a PC acts
\* like 0.  Bound: the instructions a run has room for, any number of them.
ASSUME ConfigsAssumption ==
  \A c \in Configs :
    /\ c.frames \in Nat \ {0} /\ c.pcMax \in Nat /\ c.room \in Nat
    /\ c.dumpInsns \in RangeLists

VARIABLES
  config,       \* Config: what is asked for
  phase,        \* "start", "idle", "dead", "blank", "before", "after", "end", "closed" or "refused"
  ppudead,      \* g_ppudead
  line,         \* sl of run_one_frame(), -1 outside the visible lines
  drawn         \* fb_idx: the frame each row was drawn in

(* StateDumper and Recorder. *)
VARIABLES
  frame,        \* StateDumper.frame
  scanline,     \* StateDumper.scanline
  insnTotal,    \* insn_total_
  frameInsn,    \* frame_insn_
  hits,         \* hits_: dumps of each PC
  counts,       \* counts_: dumps of each kind
  listing,      \* events.txt or digest.txt, with what the dumps show
  trace,        \* trace_: the frame whose trace is open, or 0
  traces,       \* the trace files: the PCs in each
  manifest      \* run.txt, once it is written: counts and instructions

(* History variables: read by properties only. *)
VARIABLES
  moments,      \* what the machine did, in order
  lost          \* what could not be created: <<moment, name>> of a dump, <<0, name>> of a trace

machine  == <<config, phase, ppudead, line, drawn>>
recorder == <<frame, scanline, insnTotal, frameInsn, hits, counts, listing, trace, traces, manifest>>
history  == <<moments, lost>>
vars     == <<machine, recorder, history>>

Rows  == 0..(Lines - 1)
Kinds == {"frame", "scanline", "pc", "insn"}

\* RangeList::contains(): a list is a set of ranges [lo, hi, step].
InList(list, n) == \E it \in list : it.lo <= n /\ n <= it.hi /\ (n - it.lo) % it.step = 0

\* The token "all".
All == [lo |-> 0, hi |-> IntMax, step |-> 1]

\* A cast to int of a number that may be too large for it.
AsInt(n) == ((n + IntMax + 1) % (2 * (IntMax + 1))) - (IntMax + 1)

Init ==
  /\ config \in Configs
  /\ phase = "start" /\ ppudead = 2 /\ line = -1
  /\ drawn = [r \in Rows |-> 0]
  /\ frame = 0 /\ scanline = -1 /\ insnTotal = 0 /\ frameInsn = 0
  /\ hits = [pc \in config.targets |-> 0]
  /\ counts = [k \in Kinds |-> 0]
  /\ listing = <<>> /\ trace = 0 /\ traces = <<>> /\ manifest = <<>>
  /\ moments = <<>> /\ lost = {}

-----------------------------------------------------------------------------
(* Recorder.                                                               *)

\* A slip: the row being drawn is shown as well.
FbRowsCurrent(event) ==
  IF event.kind = "frame" THEN Lines
  ELSE IF event.scanline >= 0 THEN event.scanline + 1 ELSE 0

\* fb_rows(): the rows an event may show.
FbRows(event) ==
  IF event.kind = "frame" THEN Lines
  ELSE IF event.kind = "scanline" THEN event.scanline + 1
  ELSE IF event.scanline > 0 THEN event.scanline ELSE 0

\* A dump as it is listed.
Dump(event, insns) ==
  [name |-> event.name, frame |-> event.frame, scanline |-> event.scanline,
   insns |-> insns, rows |-> [r \in 0..(FbRows(event) - 1) |-> drawn[r]]]

\* A slip: dumps are counted when they are tried.
CountedTried(written, events) ==
  [k \in Kinds |-> counts[k] + Cardinality({i \in DOMAIN events : events[i].kind = k})]

\* write_event() counts a dump after it was written.
Counted(written, events) ==
  [k \in Kinds |-> counts[k] + Cardinality({i \in DOMAIN written : written[i].kind = k})]

\* The events of a moment, at most two, without those whose files could not be created.
Kept(events, failed) ==
  IF failed = {} THEN events
  ELSE IF failed = DOMAIN events THEN <<>>
  ELSE <<events[CHOOSE i \in DOMAIN events : i \notin failed]>>

\* write_event() for the events of a moment, one after the other.  A full
\* dump has a file of its own, which cannot always be created; nobody is told.
\* Bound: files fail at one moment of a run.
Write(events, insns) ==
  \E failed \in SUBSET (IF config.digest THEN {} ELSE DOMAIN events) :
    LET written == Kept(events, failed)
    IN  /\ failed # {} => lost = {}
        /\ listing' = listing \o [i \in DOMAIN written |-> Dump(written[i], insns)]
        /\ counts' = Counted(written, events)
        /\ lost' = lost \cup {<<Len(moments) + 1, events[i].name>> : i \in failed}

\* begin_frame(): StateDumper's and the recorder's.  A trace that cannot be
\* created is left out.
RecordFrame ==
  /\ frame' = frame + 1 /\ scanline' = -1
  /\ frameInsn' = 0
  /\ IF ~InList(config.traceFrames, frame + 1)
     THEN UNCHANGED <<trace, traces, lost>>
     ELSE \/ /\ trace' = frame + 1
             /\ traces' = [f \in DOMAIN traces \cup {frame + 1} |->
                              IF f = frame + 1 THEN <<>> ELSE traces[f]]
             /\ lost' = lost
          \/ /\ lost = {}
             /\ lost' = {<<0, <<"trace", frame + 1>>>>}
             /\ trace' = 0 /\ traces' = traces

\* A slip: the trace of a frame is left open when it ends.
TraceLeftOpen == trace' = trace

\* end_frame()
TraceClosed == trace' = 0

\* A slip: the cap on the dumps of a PC lets one more through.
BelowCapOrAt(pc) == hits[pc] <= config.pcMax

BelowCap(pc) == hits[pc] < config.pcMax

WantPc(pc) == pc \in config.pcs /\ InList(config.pcFrames, frame) /\ BelowCap(pc)

\* A slip: executions in frames that are not watched count as well.
HitsUnarmed(pc) ==
  IF pc \in config.pcs /\ BelowCap(pc) THEN [hits EXCEPT ![pc] = @ + 1] ELSE hits

\* want_pc() counts the executions that it wants dumped.
HitsWith(pc) ==
  IF WantPc(pc) THEN [hits EXCEPT ![pc] = @ + 1] ELSE hits

Event(kind, name) == [kind |-> kind, name |-> name, frame |-> frame, scanline |-> scanline]

-----------------------------------------------------------------------------
(* The run.                                                                *)

\* run_dump_mode() gives up when the list of events cannot be created.
Open ==
  /\ phase = "start"
  /\ phase' \in {"idle", "refused"}
  /\ UNCHANGED <<config, ppudead, line, drawn, recorder, history>>

\* The commands of the frame, then the frame begins: without a picture for two
\* frames after power-on or a command.
BeginFrame ==
  /\ phase = "idle" /\ frame < config.frames
  /\ LET dead == IF frame + 1 \in config.resets THEN 2 ELSE ppudead
     IN  /\ phase' = IF dead > 0 THEN "dead" ELSE "blank"
         /\ ppudead' = IF dead > 0 THEN dead - 1 ELSE 0
  /\ RecordFrame
  /\ UNCHANGED <<config, line, drawn, insnTotal, hits, counts, listing, manifest, moments>>

Running == phase \in {"dead", "blank", "before", "after"}

\* on_instruction(), before the instruction runs: a dump for its address first,
\* then one for its number.
Instruction(pc) ==
  /\ Running /\ insnTotal < config.room
  /\ insnTotal' = insnTotal + 1 /\ frameInsn' = frameInsn + 1
  /\ traces' = IF trace = 0 THEN traces ELSE [traces EXCEPT ![trace] = Append(@, pc)]
  /\ hits' = HitsWith(pc)
  /\ LET byPc   == IF WantPc(pc) THEN <<Event("pc", <<"pc", pc, hits'[pc]>>)>> ELSE <<>>
         number == AsInt(insnTotal')
         byNo   == IF InList(config.dumpInsns, number)
                   THEN <<Event("insn", <<"insn", number>>)>> ELSE <<>>
     IN  Write(byPc \o byNo, frameInsn')
  /\ moments' = Append(moments, [is |-> "insn", pc |-> pc, frame |-> frame, line |-> line])
  /\ UNCHANGED <<machine, frame, scanline, trace, manifest>>

\* A frame without a picture ends with a grey one.
EndDead ==
  /\ phase = "dead"
  /\ phase' = "end"
  /\ drawn' = [r \in Rows |-> frame]
  /\ UNCHANGED <<config, ppudead, line, recorder, history>>

\* A visible line begins: the first after the blank, the next after a line.
BeginLine ==
  /\ phase = "blank"
  /\ phase' = "before"
  /\ line' = 0 /\ scanline' = 0
  /\ UNCHANGED <<config, ppudead, drawn, frame, insnTotal, frameInsn, hits, counts, listing,
                 trace, traces, manifest, history>>

\* line_end256(): the row is finished, and the line goes on.
FinishRow ==
  /\ phase = "before"
  /\ phase' = "after"
  /\ drawn' = [drawn EXCEPT ![line] = frame]
  /\ UNCHANGED <<config, ppudead, line, recorder, history>>

\* on_scanline_end(): the dump of a line names it.
LineEvent == [Event("scanline", <<"scanline", frame, line>>) EXCEPT !.scanline = line]

\* on_scanline_end(), and the next line sets the dumper's line again.
EndLine ==
  /\ phase = "after"
  /\ Write(IF InList(config.scanFrames, frame) /\ InList(config.scanlines, line)
           THEN <<LineEvent>> ELSE <<>>, frameInsn)
  /\ IF line + 1 < Lines
     THEN phase' = "before" /\ line' = line + 1 /\ scanline' = line + 1
     ELSE phase' = "end" /\ line' = -1 /\ scanline' = -1
  /\ moments' = Append(moments, [is |-> "line", frame |-> frame, line |-> line])
  /\ UNCHANGED <<config, ppudead, drawn, frame, insnTotal, frameInsn, hits, trace, traces, manifest>>

\* on_frame_end()
EndFrame ==
  /\ phase = "end"
  /\ phase' = "idle"
  /\ Write(IF InList(config.dumpFrames, frame)
           THEN <<Event("frame", <<"frame", frame>>)>> ELSE <<>>, frameInsn)
  /\ TraceClosed
  /\ moments' = Append(moments, [is |-> "frame", frame |-> frame, line |-> -1])
  /\ UNCHANGED <<config, ppudead, line, drawn, frame, scanline, insnTotal, frameInsn, hits,
                 traces, manifest>>

\* close(): the manifest, unless its file cannot be created.
Close ==
  /\ phase = "idle" /\ frame = config.frames
  /\ phase' = "closed" /\ trace' = 0
  /\ manifest' \in {<<>>, <<counts, insnTotal>>}
  /\ UNCHANGED <<config, ppudead, line, drawn, frame, scanline, insnTotal, frameInsn, hits,
                 counts, listing, traces, history>>

Next ==
  \/ Open \/ BeginFrame \/ EndDead \/ BeginLine \/ FinishRow \/ EndLine \/ EndFrame \/ Close
  \/ \E pc \in config.targets : Instruction(pc)

Spec == Init /\ [][Next]_vars
-----------------------------------------------------------------------------
\* Types; StateDumper's line is the visible line being run, and -1 everywhere else,
\* however the run began and wherever a command cut in; no PC is dumped beyond its cap.
TypeOK ==
  /\ config \in Configs
  /\ phase \in {"start", "idle", "dead", "blank", "before", "after", "end", "closed", "refused"}
  /\ ppudead \in 0..2
  /\ frame \in 0..config.frames
  /\ line \in Rows \cup {-1} /\ scanline = line
  /\ line # -1 <=> phase \in {"before", "after"}
  /\ drawn \in [Rows -> 0..frame]
  /\ insnTotal \in 0..config.room /\ frameInsn \in 0..insnTotal
  /\ hits \in [config.targets -> 0..config.pcMax]
  /\ counts \in [Kinds -> Nat]
  /\ trace \in {0, frame}
  /\ DOMAIN traces \subseteq 1..frame

\* The instructions among the first i moments.
InsnsTo(i) == {j \in 1..i : moments[j].is = "insn"}

\* The instruction of moment i is at an address and in a frame that is watched.
Armed(i) == moments[i].pc \in config.pcs /\ InList(config.pcFrames, moments[i].frame)

HitOf(i) == Cardinality({j \in InsnsTo(i) : Armed(j) /\ moments[j].pc = moments[i].pc})

\* A dump promised for moment i: where the machine is and how many of the
\* frame's instructions it has begun.
Promise(i, name) ==
  [name |-> name, frame |-> moments[i].frame, scanline |-> moments[i].line,
   insns |-> Cardinality({j \in InsnsTo(i) : moments[j].frame = moments[i].frame})]

\* The dumps the command line asks for at moment i (doc/state_dump.md, "Event
\* definitions"), those aside that could not be created.  Instructions are
\* numbered by an int: from IntMax + 1 on the numbers are negative and in no list,
\* and from 2 * (IntMax + 1) on they come again.
Promised(i) ==
  LET m       == moments[i]
      If(c, name) == IF c /\ <<i, name>> \notin lost THEN <<Promise(i, name)>> ELSE <<>>
      number  == AsInt(Cardinality(InsnsTo(i)))
  IN  CASE m.is = "insn"  -> If(Armed(i) /\ HitOf(i) <= config.pcMax, <<"pc", m.pc, HitOf(i)>>)
                             \o If(InList(config.dumpInsns, number), <<"insn", number>>)
        [] m.is = "line"  -> If(InList(config.scanFrames, m.frame) /\ InList(config.scanlines, m.line),
                                <<"scanline", m.frame, m.line>>)
        [] m.is = "frame" -> If(InList(config.dumpFrames, m.frame), <<"frame", m.frame>>)

\* A dump without the rows it shows.
Entry(d) == [name |-> d.name, frame |-> d.frame, scanline |-> d.scanline, insns |-> d.insns]

\* The list of dumps is the one that follows from what the machine did, in
\* its order: hit numbers and caps per address, instruction numbers over the
\* whole run as an int holds them, positions on the screen, and the frame's
\* instruction count.  Two runs can be compared event by event because of this.
ListingAsPromised ==
  [i \in DOMAIN listing |-> Entry(listing[i])]
    = FlattenSeq([i \in DOMAIN moments |-> Promised(i)])

\* Every row a dump shows was drawn in its own frame, and the dumps at the end
\* of a line or a frame leave none out: the frame buffer still holds the rows
\* of the frame before, and in a frame without a picture all of them.
ShownRowsFresh ==
  \A i \in DOMAIN listing :
    LET d == listing[i]
    IN  /\ \A r \in DOMAIN d.rows : d.rows[r] = d.frame
        /\ d.name[1] = "scanline" => DOMAIN d.rows = 0..d.name[3]
        /\ d.name[1] = "frame" => DOMAIN d.rows = Rows

\* The manifest counts the files on disk (tool/compare_dumps.py refuses a run
\* where it does not), also when a dump could not be created; and no dump
\* took the file of another, as long as the run had no more than 2 * IntMax + 1
\* instructions: after that the numbers of instructions come again.
ManifestAgrees ==
  manifest # <<>> =>
    /\ \A k \in Kinds : manifest[1][k] = Cardinality({i \in DOMAIN listing : listing[i].name[1] = k})
    /\ manifest[2] <= 2 * IntMax + 1 =>
         Cardinality({listing[i].name : i \in DOMAIN listing}) = Len(listing)

\* What moment i adds to the trace of frame f.
Traced(i, f) ==
  IF moments[i].is = "insn" /\ moments[i].frame = f THEN <<moments[i].pc>> ELSE <<>>

\* A frame that is traced has, if it could be created, a file with all its instructions and no others.
TraceWhole ==
  /\ DOMAIN traces = {f \in 1..frame : InList(config.traceFrames, f) /\ <<0, <<"trace", f>>>> \notin lost}
  /\ \A f \in DOMAIN traces : traces[f] = FlattenSeq([i \in DOMAIN moments |-> Traced(i, f)])
=============================================================================
