# Formal model of the nes1 emulator

This directory holds TLA+ specifications of the emulator core in `src/` (C++), TLC
configurations that check them on small instances, and machine-checked TLAPS proofs of
every safety property for instances of any size. References such as `nes1.cpp:384` are
lines of the source; numbers such as O-38 are the observations of `src/doc/parity_spec.md`,
the repository's list of what the emulator must do to equal FCEUX.

## 1. Inventory

One thread runs everything but the audio device. The difficulty is mostly not parallelism
but *interleaving by budget*: CPU, PPU, APU and frame loop take turns in portions that never
line up, an instruction may overrun several portions, and work is done lazily (the picture
when a register is touched) or late (cycles are told to the APU one instruction later).

| Component | State | Operations | Talks to |
|---|---|---|---|
| frame scheduler (`nes1.cpp`) | dot budget, frame alternation, dead-frame count | `run_one_frame`, `run_ppu`, `machine_reset`, `machine_power`, `run_dump_mode` | steps the CPU; moves PPU flags; starts and ends lines |
| CPU interrupts (`cpu.cpp`) | `nmi_state`, `jammed`, I flag and its delayed copy `rpi`, cycle count | `nmi`, `take_pending_nmi`, `irq_pending`, `irq`, `reset`, `hot_reset` | asked by the scheduler at every instruction boundary |
| CPU instructions (`cpu.cpp`) | registers, RAM | `step` | calls the PPU and APU register handlers, advances the APU |
| PPU registers (`ppu.cpp`) | V, T, toggle, `$2000`-`$2007`, OAM, I/O latch | `cpu_read`, `cpu_write`, `raise_vblank`, `snapshot_render`, `copy_*` | arms the delayed NMI; catches the renderer up |
| line renderer (`ppu.cpp`) | tiles fetched, pipeline, row, sprite-0 state, pending Y increment | `line_sync`, `line_begin`, `line_end256`, `line_next`, `carry_sprite0` | reads the CPU clock; moves V; sets status bits |
| sprite evaluation (`ppu.cpp`) | sprites of the next line | `prepare_sprites`, `resolve_sprites` | overflow flag |
| APU (`apu.cpp`, `apu.h`) | sequencer, length counters, envelopes, sweeps, linear counter, DMC, IRQ flags | `advance`, `write`, `read_status`, `reset`, `power` | IRQ line to the CPU; steals CPU cycles |
| replay file (`nesinput.h`) | settings and frames | `load`, `validate_*`, `at` | read by the headless run |
| controllers (`cpu.cpp`, `nes1.cpp`) | pads, read counters, strobe | `$4016`/`$4017` | set from the replay file or the keyboard |
| recorder (`nesdump.h`) | triggers, counters, open files | `begin_frame`, `insn`, `want_pc`, `write_event`, ... | called by the scheduler and the CPU loop |
| state dumper (`statedump.cpp`) | frame and scanline | `begin_frame`, `on_instruction`, `on_scanline_end`, `on_frame_end` | called by the run loop; asks the recorder, copies the machine state |
| GUI and audio (`nes1.cpp`) | window, timer, ring of three audio buffers | `submit`, message loop | XAudio2 plays buffers concurrently |
| developer modes (`nes1.cpp`) | own loops | `run_autotest`, `run_frametest`, `run_scanlinetrace` | the same machine |
| ROM loader, whole-frame drawing, exports | none | I/O and computation | |
| scripts in `src/tool`, vendored FCEUX | none | compare dumps, make probe ROMs, reference | |

What makes each modelled component correct:

* **Scheduler.** CPU and beam never drift; overshoot is bounded by one instruction; frames
  alternate 89342/89341 dots; vblank is seen only in the vblank lines; two quiet frames
  after a reset; an NMI or IRQ comes at the right boundary; a frame ends whatever runs.
* **Line renderer.** A row does not depend on when it was caught up, the Y increment of a
  line happens once, and no sprite-0 hit is lost.
* **V and T.** Each line's scroll follows from T, whatever was touched in between.
* **CPU instructions.** Results and flags are those of integer arithmetic; every bus access is
  made when its instruction is fully charged; a stack frame comes back as it was pushed.
* **OAM.** A DMA puts every byte where the two counters demand, wherever it starts.
* **APU.** No sequencer step is overdue, clocks do not drift, what `$4015` reports is true,
  timers stay in range, notes fade as programmed, the DMC never starves.
* **Recorder.** The listing, the counts, the rows shown and the traces are those the command
  line asks for, whatever happens in a frame and whichever file cannot be created.
* **Audio ring.** What is heard is what was emulated, frame by frame, although the memory it
  is read from is written again and again.
* **Replay.** Exactly the well-formed files are accepted, and every bit the program reads is
  the one its frame's record gives.

`PROJECT.json` lists every hazard of the code at its line with the properties that cover
it, or why none does yet.

## 2. Modules and how they correspond to the code

| Module | Models | Remarks |
|---|---|---|
| `BeamClock` | abstract: what the frame loop promises | beam, CPU lag, vblank and visible-line windows; no slices, no instructions |
| `FrameLoop` | `run_one_frame`, `run_ppu`, CPU interrupts, reset and power | implements `BeamClock` (`Beam == INSTANCE ... WITH`) |
| `LineRenderer` | lazy renderer with the slices that call it | precise in dots; pixels abstracted to tiles |
| `VramAddress` | V, T, the write toggle and all that moves them | the time of a catch-up is left open |
| `ApuUnits` | envelope, sweep and linear counter as pure functions | |
| `Apu` | sequencer, length counters, DMC, and how `step()` drives them | extends `ApuUnits`; timers, waveforms and mixer left out |
| `CpuAlu` | what each operation does to registers and flags, as pure functions, and the arithmetic they must agree with | |
| `PpuPorts` | vblank flag, I/O latch and OAM behind `$2002`-`$2004` | extends `CpuAlu` |
| `Cpu` | instructions on the bus: dummy accesses, charges, DMA, stack, interrupt entries | extends `PpuPorts` |
| `Recorder` | recorder, state dumper and the calls of the run loop | |
| `AudioQueue` | abstract: what the audio output promises | a queue of sounds |
| `AudioRing` | `AudioSystem` and the main loop, XAudio2 reading concurrently | implements `AudioQueue` |
| `InputFile` | the replay file reader as operators, and the grammar of `input_replay.md` as reference | |
| `Replay` | loading, the frame loop of the headless run, serial controllers | extends `InputFile` |
| `FrameLoopProofs`, `LineProofs`, `VramProofs`, `ApuProofs`, `CpuProofs`, `RecorderProofs`, `AudioRingProofs`, `ReplayProofs` | theorems about `FrameLoop`, `LineRenderer`, `VramAddress`, `Apu`, `Cpu` with `CpuAlu` and `PpuPorts`, `Recorder`, `AudioRing`, `Replay` with `InputFile` | section 4; lemmas about remainders and induction stand in each module that needs them |
| `MC*` | small instances | define what the `.cfg` files substitute |

**FrameLoop.** `slice` names the `run_ppu()` call being served and `at` the place in its
loop (before the interrupt checks, or before `step()`). `Boundary` actions are the checks of
`nes1.cpp:341-353`, `Execute` actions an instruction, `BetweenSlices` actions the code of
`run_one_frame()` between two `run_ppu()` calls together with the dots the next one hands
out. An instruction is its cost and its effect on interrupts: it may read `$2002`, write
`$2000` (once, or twice as read-modify-write instructions do), change I, return, break or
jam; after each one the APU may have changed its IRQ line. `budget` is `g_ppu_budget`,
negative after an overshoot. History variables (`dots`, `frameDots`, `quiet`,
`nmiEdge`, `lastOp`, `iBefore`, `sinceArm`) are written only.

**LineRenderer.** `pos` is the CPU time in dots since the line's origin; an access takes
effect at the end of its instruction, as `pending_instruction_cycles` makes it do. `rl` is
the state of the renderer (`rl_on`, `rl_first`, `rl_px`, `rl_tofix`, pipeline, row, sprite
0, hit flag). A row position holds the pair of pipeline tiles and the register setting it
was drawn with, or the backdrop. An instruction makes at most one PPU access here;
read-modify-write and dummy reads make two at the same clock.

The reference `Expected` computes a finished row without any catch-up, from the registers that
*count* for each tile (`regsAt`, history). Those are the registers in force when the clock
passed the tile; the tile after it is drawn early if an access comes while the output holds
sprite 0's first pixels (`Ahead`), and then what that access found counts. For the Y step the
registers before the first access from dot 252 on count, and those at dot 256 if there is none
(`StepDue`; the code compares positions, 268 and 272). There is one way past this rule. Sprite 0
at x 248 to 250, waiting, can make an access at position 265 to 267 draw the last iteration, one
early and before the step is due. The next access then has nothing to draw and returns at
`ppu.cpp:1069`, before the step at 1098. If it comes before dot 256 is handled and writes 0 to
`$2001`, `line_end256()` finds rendering off, and the line has no Y step although rendering was on
for every tile of it. `YOncePerLine` says exactly this (`taken` remembers the tiles drawn early),
the instance reaches it, and `YOnce` proves it. O-21 says that the step "is performed by the
first catch-up whose position is >= 268"; a catch-up that returns early is not one of them in
the code, nor in FCEUX, whose `RefreshLine` (`src/tool/fceux-2.6.6/src/ppu.cpp:1130`) returns in
the same place, so it is not counted among the disagreements of section 6.

**VramAddress.** Addresses are the numbers the code keeps, with field widths as constants.
`LineRenderer` says when a catch-up happens, `VramAddress` what it does to V at any time at
all; together they cover `line_sync()`.

**Apu.** `apu` is one record, so that `advance()` is a composition of functions:
`Output(Fetch(Sequencer(a)))`, and a half-frame clock one of the functions of `ApuUnits`.
`lag` is `cpu.cycle - apu_cycle`, the cycles of page crossings, stalls, DMA and interrupt
entries that only the next call counts. `age` is history: quarter-frame clocks since a unit
was started.

**Cpu.** Registers are real bytes with real flags; `&`, `|` and `^` act on the sets of their
operands' bits. An instruction is chosen from what the
program at hand may use, with its operand and, for memory operands, its base address;
nothing is decoded from memory. The bus `d` carries what an access may change, and a log of
the accesses with the cycles charged at each, which is what `pending_instruction_cycles`
shows to the PPU. Every address outside page `$01`, the PPU and the unmapped area holds its
low byte. `depth` and `frames` are history: how many bytes the program has pushed, and the calls and
interrupts that have not returned, each with the depth it was entered at.

**Recorder.** The machine is reduced to the moments the dumper sees (an instruction, the end
of a row, line or frame). A dump is its name, its position, its instruction count and, for
every row it shows, the frame in which the row was drawn. `moments` is history, and
`Promised` computes from it and the command line what must be listed, without hit counters.
An instruction's number is what `(int)insn_total_` makes of it (`AsInt`): negative, and in no
list, after 2^31 instructions, and the same again after 2^32, when a listed number is listed a
second time and its dump takes the file of the first. `ListingAsPromised` follows the numbers
through both; that names are unique, `ManifestAgrees` says of runs that stay below the second.

**AudioRing.** `memcpy()` is a step per sample, and the device may play between any two. A
buffer is queued by address, as `SubmitSourceBuffer()` is given it; what is heard is read from
memory when its turn comes. All samples of a frame are the frame's number.

**InputFile, Replay.** A line is what the tokenizer makes of it (a metadata field that is
known and allowed or not, bytes that parse or not). `BeginFrame` sets the pads and then
carries out the record's commands, in the order of `run_dump_mode()`.

Operators commented as "A slip" are plausible mistakes in the definition that follows them;
no specification uses them. Substituting one for its neighbour must break the property
`PROJECT.json` pairs it with under "mutants", which shows that the property can fail.

## 3. Runs

| Run | Module, configuration | Shows |
|---|---|---|
| `frame` | `MCFrameLoop`, `Frame.cfg` | bounded overshoot, no drift over a wrapping counter, quiet after reset, NMI and IRQ at the promised boundary, every frame ends, refinement of `BeamClock` |
| `line` | `MCLineRenderer`, `Line.cfg` | rows are exact, one Y increment per line where the registers ask for it, no hit missed in a row |
| `vram_address` | `MCVramAddress`, `VramAddress.cfg` | scroll of each line follows from T; V rests while rendering is off |
| `apu` | `MCApu`, `Apu.cfg` | sequencer and modes, `$4015`, notes, sweeps, DMC |
| `cpu` | `MCCpu`, `Cpu.cfg` | arithmetic, bus accesses and DMA, stack and interrupts |
| `recorder` | `MCRecorder`, `Recorder.cfg` | listing, counts, rows shown, traces |
| `audio` | `MCAudioRing`, `Audio.cfg` | no queued buffer is written, refinement of `AudioQueue`, the ring drains |
| `replay` | `MCReplay`, `Replay.cfg` | accepted files, controller reports |
| `nmi_twice`, `hit_flag_lost`, `open_bus`, `power_drops_pads` | violations | section 6 |

Deadlock is checked everywhere but in `Replay`, `Recorder` and `AudioRing`, where a run of the
program ends.

**Bounds.** The instances shrink sizes, never the control.

* `FrameLoop`: two visible lines with slices of 2 to 24 dots instead of 240 lines with 6 to
  6808. What matters is the relation of slices to instructions: costs of 3, 7 (entries) and 8
  cycles (9 to 24 dots) fit several times into `dead`, and span up to four slices of a
  line; `vbl` is longer than an interrupt entry, as in the code (assumption
  `SliceAssumption`). The cycle counter is kept modulo 2, so it wraps all the time; what no
  instance can show, that `ClockExact` holds for every modulus, is proved
  (`ClockNeverDrifts`).
* `LineRenderer`: three tiles (five iterations), costs from below a tile to beyond half a
  line, overshoots at line start of none, less than a tile and nearly the whole line; at most two
  register writes per line, which allows switching on and off again and
  a change between two catch-ups. Sprite 0 at both edges, where the 255th-column
  exception, the left column and the tile drawn early matter. The real line has 34 iterations of the same body.
* `VramAddress`: two columns, four row codes of which two make a picture, two fine lines,
  two visible lines and four fetches, so that every wrap (column, picture row, rows beyond
  the picture, fine line) happens within a frame; two accesses per frame anywhere. Values
  written are few, and carry across frames.
* `Apu`: a step of 7.5 cycles and calls of 2 to 7 cycles and stalls keep the ratio that
  matters: a call is at most one step long (`ApuAssumption`; in the code 7457.5 cycles against
  at most 8 + 4 and 513 for a DMA). Seven programs, each with one or two register groups and
  one channel: the channels meet only in the sequencer, and the programs that write
  `$4017` cover it together with lengths. Timers have four bits instead of eleven, envelopes
  three levels instead of sixteen, volumes 0 and 2; the DMC has two-bit samples of one and three
  bytes and calls longer than a sample byte.
* `Cpu`: registers have their eight bits, and a property that speaks of "every operand" tries
  all 256. Seven programs: arithmetic with shifts and branches, accesses next to page
  boundaries onto `$2002`, `$4014` and unmapped addresses, DMA, and four kinds of stack use
  with at most seven bytes kept. OAM has eight bytes with a head of two instead of 256 with
  eight (the counters wrap at `OamSize`, and `OamAssumption` keeps the head a divisor), so a
  DMA copies eight bytes.
* `Recorder`: frames of two lines, up to six frames with a reset, four command lines that
  between them use every kind of trigger, caps of one and two, and `IntMax = 6`, with
  room for 15 instructions in a run that dumps by number, so that the number becomes negative
  and, at the fourteenth, starts again at 0. Files fail at one moment of a run.
* `AudioRing`: three buffers as in the code, of two samples; frames of one sample and of three,
  of which the last does not fit. Frames are numbered modulo 2: the code copies samples without
  looking at them, so two values are enough to tell a frame's sound from what the buffer held
  before. The theorems hold for any number of buffers and frames.
* `Replay`: two buttons per pad and counters modulo 8, four metadata keys of the seven, and
  files of up to eight lines from eighteen kinds, enough for the magic line, all keys, `data`
  and two frames; ten reads between restarts run past report, filler and wrap. ROM identity
  is in `InputFile` (`ValidRom`), but the run uses none of the keys concerned.

**Fairness.** `FrameEnds` assumes `WF_vars(Emulate)`: the loop inside a frame goes on. One
thread runs it without waiting for anything, so this holds of the code by construction.
Nothing is assumed about *which* instruction comes next: the CPU may jam or take an
interrupt at every boundary, and the frame still ends. Starting frames and giving commands is
left to the user and not fair. `RingDrains` assumes `WF_vars(Device)`: XAudio2 plays a started
voice as long as a buffer is queued. Nothing is assumed about the emulator, which may stop for
ever in the middle of a copy.

## 4. What is proved

Every invariant and action property of a passing run is a theorem, and so are the two
refinements. The theorems hold for every value of the constants that the modules' named assumptions admit; TLC
evaluates the assumptions on the instances it checks. They come from the code:

* `FrameLoop`: slices are positive, `pre16` is longer than the dot it may lose, `vbl` at least one
  interrupt entry long, costs at most `MaxCost`, the counter not empty. The true values (slices
  of 341, 12, 6808, ..., 16 dots; 240 lines; costs up to 513 cycles and stalls; 32 bits) satisfy
  them.
* `Apu`: a call with all that may be left for it is not longer than a sequencer step, the shift
  count has three bits, no triangle is a pulse, periods and lengths are positive.
* `LineRenderer`: at least two tiles, `LateMargin` below a tile, a setting is a mask with a look,
  and an instruction that accesses the PPU lasts at least a tile's eight dots (absolute
  addressing takes four cycles, twelve dots).
  `VramAddress`: fields of any width that leave the picture's rows below the row codes.
* `Cpu`: programs use bytes, words and the modes of the opcode table, jump only within their
  code, and keep at most 255 bytes on the stack page; the sprite memory has at most 256 bytes and
  its head divides it.
* `Replay`: pads of one to eight buttons, counters wide enough for a whole report, lines the
  tokenizer can produce, and fields it calls good only under a known key.
* `Recorder`: what the parser of the command line lets through (`--frames` at least one, ranges
  not empty). A run may have any number of instructions.
* `AudioRing`: any number of buffers, any frame length, any numbering of frames.

**The frame loop** (`FrameLoopProofs`).

| Theorem | Property | Argument |
|---|---|---|
| `TypeCorrect` | `TypeOK` | each action separately; the modulus keeps counters in range |
| `DebtAlwaysBounded` | `DebtBounded` | not inductive alone: `DebtInv` adds `Awake`, the CPU executes only with dots left. Then a charge of at most `3 * MaxCost` from above 0 stays above the bound; the vblank NMI, charged although the budget may be negative, is repaid by the `vbl` slice handed out with it |
| `ClockNeverDrifts` | `ClockExact` | every action that charges cycles takes three dots per cycle, and every hand-out adds to both sides; congruences of remainders |
| `AlwaysQuietAfterReset` | `QuietAfterReset` | `QuietInv` adds `Countdown` (dead frames run and to come make two) and `NormalAfterTwo` (a normal slice means two are over) |
| `IrqNeverEarly` | `IrqLatency` | `SeenClear` relates the delayed I flag to the last operation |
| `DelayedNmiExact` | `DelayedNmiAfterOne` | `OneInstructionDue`: between conversion and the next boundary exactly one instruction runs |
| `FollowsBeam` | `ImplementsBeam` | `BeamInv` adds to `DebtInv` where the beam stands in each slice (`BeamPlace`) and in which slices vblank and visible lines are told (`FlagPlace`); each of the loop's steps is then a phase of `BeamClock` or a stutter |

**The line renderer** (`LineProofs`). `RowsExact` (`RowExact`), `YOnce` (`YOncePerLine`) and
`NoHitsMissed` (`NoHitMissed`) rest on

    LineInv == Types /\ TilesPassed /\ RowSoFar /\ YSoFar /\ Passed256 /\ (the three properties)

The properties speak of finished rows; what makes them true is said of unfinished ones.
`TilesPassed`: the tiles already drawn are behind the clock, but for one that sprite 0 may have
had drawn early, and the registers that count for all others are those in force now, so that a
catch-up that uses the present registers uses the right ones. `YSoFar` says the same of the Y
step. `RowSoFar`: position by position, the row is that of the reference with the tiles drawn
so far. Drawing many tiles at once is induction over their number; places and pipelines come
from counting the tiles before one that show something.

**V and T** (`VramProofs`). `ScrollKept` (`ScrollFollowsT`) rests on `VramInv`, which adds that
V undisturbed means rendering is on and that after dot 256 no Y increment is pending. Its main
lemma is that k tiles and l lines from an address give column, row, table and fine line in
closed form, for fields of any width; k tiles and the Y steps are induction. `OffStays` states
`OffNeverMoves`.

**The APU** (`ApuProofs`). The invariant is

    ApuInv == Sound(apu) /\ NoStepOverdue /\ CallsShort /\ HalfSum (with the types)

`Sound` is types, `StatusTrue` and `Fades`, proved operator by operator along
`Output(Fetch(Sequencer(a)))` and for each register write; `CallsShort` (a call after any access
still fits into a step) makes `NoStepOverdue` inductive; `HalfSum` (time since the last half
frame plus time to the next step is a whole number of steps) gives `HalfFramesOnTime`. The
theorems are `StatusTold`, `StepsKeepUp`, `NotesKeepPace`, `HalfFramesKept` and `SamplesFlow`
(`NoUnderrun`).

**The CPU** (`CpuProofs`, about real bytes, words and flags; `Programs` is any set of programs).

| Theorem | Property | Argument |
|---|---|---|
| `TypeCorrect` | `TypeOK` | `Machine`, operator by operator: a sum of bits is a byte, every operation keeps `Sound` registers, every bus access keeps `Devices` |
| `AccessesLast` | `AccessesAtEnd` | `EndsWell` of the last access: the log's last entry carries the cost of the table, of a page crossing and of the DMA the instruction itself started |
| `FramesKept` | `FramesIntact` | `AllHeld`, below |
| `Returns` | `ReturnsWhereItLeft` | from `AllHeld`, what RTS and RTI pull are the cells of the frame |
| `DmaPlaces` | `DmaPlacesBytes` | induction over the bytes copied (`Filled`, `Advanced`): after n bytes the counters have moved by n and the n bytes lie where the counters were; a whole round leaves both counters where they were, since they count modulo the size |
| `ArithmeticKept` | `ArithmeticExact` | pure lemmas on `Add`, `Subtract` and `Compare`: sums modulo 256 and 65536 against signed and unsigned integers |
| `CombinedKept` | `CombinedAsTwo` | pure lemmas: the second part reads only what `Similar` registers share, whatever the first did to Z and N |

The inductive invariant is

    IInv == Proper /\ EndsWell(last) /\ AllHeld(frames, regs.s, stack, depth)

`Proper` is types with the program's limits: `pc` within its code, `depth` within its room.
`AllHeld` says of every frame that the cells at its distance from the stack pointer, modulo 256,
show its return address and flags. A push moves the pointer and the depth together, so the
distance of every cell stays; it overwrites the cell below the pointer, which is none of a
frame's because fewer than 256 bytes are kept. After an instruction that changes page `$01` or
the pointer directly (a store, TXS, LAS), `frames` is empty and counting starts afresh, since
nothing is promised to a program that moves its own stack. JSR pushes its last byte's address;
for one at `$FFFD` the address pulled plus one wraps to 0, as `rpc` does, and `FramesIntact`
says so: no instance has a program there, the proof needs it.

**Replay** (`ReplayProofs`). `ReadsReport` (`ReportsFollowRecord`) rests on `ReplayInv`:
each report counter stands where the number of reads puts it, modulo its width, and the pads
of a frame are its record's unless a power command took them away. `GrammarKept`
(`FileMatchesGrammar`) compares a reader that goes line by line with a grammar of whole files.
Its invariant `LinesRead` says, for each mode of the reader, what the lines so far look like
(`ReadsAs`), and that a file one of whose lines was rejected is not well formed. That the
metadata are complete is counted by the reader and a matter of sets in the grammar; cardinalities
of finite sets connect the two.

**The recorder** (`RecorderProofs`). `RowsFresh`, `ManifestCounts`, `ListingKept` and `TracesKept`
follow from

    Account == Ledger /\ Following /\ Tracing

`Ledger`: the rows above the current one are this frame's, counters count the list, and, as long
as the instruction numbers have not come again, the names listed so far belong to moments that
are past, so that no later dump can take one of them. A dump that was lost is remembered with
its moment, so a later dump of the same name is told apart from it. `Following`: every counter, and the list itself, is the
function of the moments that `Promised` gives, which has no counters. `Tracing`: so are
the traces. A new moment appends to both sides; that the promise of old moments does not change
when one is added is where most of the work lies.

**The audio ring** (`AudioRingProofs`). Every variable keeps its type (`TypeCorrect`), no queued
buffer is ever written (`WritesOnlyFree` states `NeverOverwritten`), and the ring implements the
queue of sounds (`RingImplementsQueue` states `ImplementsQueue`). The inductive invariant is

    IInv == TypeOK /\ InOrder /\ HasRoom /\ InFrame /\ InBuffer

`InOrder` is what the code relies on without saying it: the i-th queued buffer lies
`Len(queue) + 1 - i` places before `buf_idx` on the ring. With `HasRoom` (fewer buffers queued
than exist while one is filled, since the device only removes some after the check) it
follows that the buffer being filled is not queued. `NeverOverwritten` alone is not
inductive: it says nothing about where the queue will be after the index has moved on. For
the refinement, `Filled` adds that what was copied of the frame so far is in the buffer;
then a copied sample changes no sound that waits, submitting appends the offered sound, and a
played sample takes one off the head; every other step is a stutter or the abstract action
of its name.

**Induction.** The prover cannot use the library's induction theorems, whose predicate is
an operator. The proof modules therefore state induction about a set of numbers
(`SetInduction`, from the well-foundedness of `<`), and what is to be proved is put into a set.
This reaches `DrawTiles`, the tiles and lines of V, the bytes of a DMA, and `FlattenSeq`, for
which `FlattenMore` says what one element more adds; a recursive function is first shown to
exist.

**Only model-checked.**

* `FrameEnds` and `RingDrains`: liveness under fairness and ENABLED are beyond the proof system.
* The four properties of section 6, which the code does not have.

## 5. What is not modelled

* The memory behind `$2007` with its read buffer and palette mirrors: a table look-up per
  access; when V moves is in `VramAddress`, what the access leaves on the bus in `PpuPorts`.
* Sprite pixels and the overflow flag (a sprite-0 row is chosen freely); the eight-sprite limit
  cannot drop sprite 0, which is evaluated first.
* The decoding of instructions from memory, the extra cycles of taken branches, and RAM other
  than the stack page: `Cpu` chooses operands freely instead.
* Timers' countdowns, waveforms and mixer of the APU; the parsing of command-line options and
  the text of dumps; window, painting and the frame timer: data without control.
* The developer run modes, which drive the same machine with loops of their own. Two hazards
  of theirs are listed in `PROJECT.json` without a property.
* ROM loading, whole-frame drawing, exports, scripts and the vendored FCEUX. The latter is by
  far the largest part of `src/`; it is third-party code that the repository reads as a
  reference and does not build into the emulator.

The components are checked separately. They meet where one module leaves a choice open that
another one makes: the IRQ line of `FrameLoop` is free where `Apu` computes it, costs are
free where `Apu` adds stalls and `Cpu` page crossings and DMA, catch-up times are free in
`VramAddress` where `LineRenderer` computes them. Each module therefore allows at least the behaviours the others produce.

## 6. Disagreements found

1. **One write, two NMIs** (`nmi_twice`). A `$2000` write that enables NMI in the 12 dots
   after the vblank flag went up arms the delayed NMI; step 4 (`nes1.cpp:384`) enters the
   handler at once and leaves it armed, so the handler is entered again (O-38 says such a
   write raises *an* NMI).
2. **A hit on line 0 is forgotten** (`hit_flag_lost`). `begin_frame()` (`ppu.cpp:1283`)
   clears the sprite-0 flag 16 dots after line 0 began; O-13 says the flags are cleared
   together at the end of vblank, O-37 that sprite 0 at Y = 239 can hit on line 0.
3. **Open bus through a pointer** (`open_bus`). `LDA (zp,X)` and `LDA (zp),Y` take the pointer
   straight from memory (`cpu.cpp:688-709`), so the data bus still holds the operand when an
   unmapped address is read; O-32 says that it reads the high byte of the address last
   fetched, and FCEUX reads the pointer through the bus.
4. **A power command drops its frame's buttons** (`power_drops_pads`). `run_dump_mode()` sets
   the pads, then `machine_power()` zeroes them (`cpu.cpp:486`); `input_replay.md` says that
   a command frame still counts as an ordinary replay frame.

## 7. Plan

Done: `FrameLoop` and `BeamClock` first, since every other component is driven by them; the
renderer, V and T, replay with controllers; then the APU's units, CPU instructions on the bus
with OAM, the recorder, and the audio ring. Proofs for all of them.

Next, in this order:

1. The hazards of the developer run modes, which have no property yet.
2. The memory behind `$2007` with its read buffer.
