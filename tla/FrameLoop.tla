------------------------------ MODULE FrameLoop ------------------------------
(***************************************************************************)
(* The frame scheduler of the emulator: run_one_frame() and its run_ppu()  *)
(* loop (src/src/nes1.cpp), which hands out PPU dots in slices, lets the   *)
(* CPU run while any dot is left, delivers NMI and IRQ at instruction      *)
(* boundaries, and moves the vblank flag, the visible-line flag and the    *)
(* line origins; with the interrupt side of the CPU (nmi, irq, the delayed *)
(* I flag, the jam) and the frame driver of the headless run (two dead     *)
(* frames, the reset and power commands).                                  *)
(*                                                                         *)
(* What an instruction computes is left out: an instruction is its cost in *)
(* CPU cycles and what it does to the interrupt state, chosen freely.  The *)
(* APU's IRQ line may change with every instruction.                       *)
(***************************************************************************)
EXTENDS Integers

CONSTANTS
  SliceDots,    \* dots handed out by each run_ppu() call, by slice name
  Lines,        \* visible lines of a frame (240)
  Costs,        \* CPU cycles an ordinary instruction may take (stalls and DMA included)
  KilCost,      \* CPU cycles one execution of a KIL opcode takes (257)
  MaxCost,      \* the largest of these costs and of an interrupt entry's
  CycleMod      \* the cycle counter wraps at this value (2^32)

Slices == {"dead", "post", "window", "vbl", "pre256", "pre69", "pre16",
           "l256", "l6", "l63", "l16"}

\* Cycles of an NMI or IRQ entry, and the dots they take.
EntryCost == 7
EntryDots == 3 * EntryCost

\* Dots of a visible line and of a whole frame (341 and 262 * 341).
LineDots == SliceDots["l256"] + SliceDots["l6"] + SliceDots["l63"] + SliceDots["l16"]
FullFrame == SliceDots["post"] + SliceDots["window"] + SliceDots["vbl"]
             + SliceDots["pre256"] + SliceDots["pre69"] + SliceDots["pre16"]
             + Lines * LineDots

ASSUME SliceAssumption ==
  /\ SliceDots \in [Slices -> Nat \ {0}]
  /\ SliceDots["pre16"] > 1
  /\ SliceDots["vbl"] >= EntryDots
  /\ SliceDots["dead"] = FullFrame
ASSUME LinesAssumption == Lines \in Nat \ {0}
ASSUME CostAssumption ==
  /\ MaxCost \in Nat
  /\ Costs \subseteq 1..MaxCost
  /\ KilCost \in 1..MaxCost
  /\ EntryCost <= MaxCost
ASSUME CycleModAssumption == CycleMod \in Nat \ {0}

VARIABLES
  slice,        \* the run_ppu() call in progress, or "idle" between frames
  at,           \* inside run_ppu(): "check" the interrupts or "exec" an instruction
  line,         \* sl, the visible line being run
  budget,       \* g_ppu_budget: dots the CPU may still use; negative is overshoot
  cycle,        \* cpu.cycle
  kook,         \* g_kook: 1 when the next pre-render line is a dot shorter
  ppudead,      \* g_ppudead: dead frames still to run
  nmiState,     \* cpu.nmi_state: 0 none, 1 armed, 2 due
  jammed,       \* cpu.jammed
  iFlag,        \* the I bit of rp
  iSeen,        \* the I bit of rpi: what the IRQ check sees
  irqLine,      \* apu.irq_line()
  vblank,       \* bit 7 of reg_status
  nmiEnable,    \* bit 7 of reg_ctrl
  visScanline,  \* ppu.vis_scanline
  origin        \* ppu.rl_origin modulo CycleMod: only its residue is ever used

(* History variables: read by properties only. *)
VARIABLES
  dots,         \* dots handed out since power-on, modulo CycleMod
  frameDots,    \* dots handed out in the current frame
  quiet,        \* dead frames completed since the last reset or power-on, up to 2
  nmiEdge,      \* vblank /\ nmiEnable has risen and no NMI was entered since
  lastOp,       \* what the CPU did last: "instr", "rti", "brk", "entry" or "reset"
  iBefore,      \* the I flag before that
  sinceArm      \* instructions run since nmi_state was armed, up to 2

cpuVars  == <<nmiState, jammed, iFlag, iSeen, irqLine>>
ppuVars  == <<vblank, nmiEnable, visScanline, origin>>
loopVars == <<slice, at, line, budget, cycle, kook, ppudead>>
history  == <<dots, frameDots, quiet, nmiEdge, lastOp, iBefore, sinceArm>>
vars     == <<loopVars, cpuVars, ppuVars, history>>

\* Dots of a slice: the pre-render tail is a dot shorter in every other frame.
Width(s) == IF s = "pre16" THEN SliceDots[s] - kook ELSE SliceDots[s]

Init ==
  /\ slice = "idle" /\ at = "check" /\ line = 0
  /\ budget = 0 /\ cycle = 0 /\ kook = 0 /\ ppudead = 2
  /\ nmiState = 0 /\ jammed = FALSE /\ iFlag = TRUE /\ iSeen = TRUE
  /\ irqLine = FALSE
  /\ vblank = FALSE /\ nmiEnable = FALSE /\ visScanline = FALSE
  /\ origin = 0
  /\ dots = 0 /\ frameDots = 0 /\ quiet = 0
  /\ nmiEdge = FALSE /\ lastOp = "reset" /\ iBefore = TRUE /\ sinceArm = 0

-----------------------------------------------------------------------------
(* The loop of run_ppu(): check the interrupts, run one instruction, until *)
(* the budget is used up.                                                  *)

\* A slip: starting an instruction with nothing left in the budget.
BehindOrEven == budget >= 0

\* The CPU may start an instruction: any part of a cycle is left (O-9).
Behind == budget > 0

Charge(c) ==
  /\ budget' = budget - 3 * c
  /\ cycle' = (cycle + c) % CycleMod

\* A slip: the I flag the IRQ check uses is left as it was.
EnterHandlerUnseen ==
  /\ iFlag' = TRUE /\ iSeen' = iSeen
  /\ lastOp' = "entry" /\ iBefore' = iFlag

\* nmi() and irq(): the handler starts with I set, and the IRQ check sees it at once.
EnterHandler ==
  /\ iFlag' = TRUE /\ iSeen' = TRUE
  /\ lastOp' = "entry" /\ iBefore' = iFlag

\* An entry inside run_ppu() is charged to the budget; when that uses it up,
\* the slice ends before the handler's first instruction.
TakeInterrupt ==
  /\ EnterHandler
  /\ Charge(EntryCost)
  /\ at' = IF budget > EntryDots THEN "exec" ELSE "check"

AtBoundary == slice # "idle" /\ at = "check" /\ Behind

\* A slip: the NMI that became due is taken without letting an instruction run.
GoOnChecking == at' = "check"

\* After the conversion of an armed NMI the loop runs an instruction.
GoOnRunning == at' = "exec"

\* An NMI armed by a $2000 write becomes due, and one instruction runs first.
ConvertNmi ==
  /\ AtBoundary /\ nmiState = 1
  /\ nmiState' = 2
  /\ GoOnRunning
  /\ UNCHANGED <<slice, line, budget, cycle, kook, ppudead,
                 jammed, iFlag, iSeen, irqLine, ppuVars, history>>

\* take_pending_nmi()
TakeNmi ==
  /\ AtBoundary /\ nmiState = 2 /\ ~jammed
  /\ TakeInterrupt
  /\ nmiState' = 0
  /\ nmiEdge' = FALSE
  /\ UNCHANGED <<slice, line, kook, ppudead, jammed, irqLine, ppuVars,
                 dots, frameDots, quiet, sinceArm>>

\* irq_pending() and irq()
TakeIrq ==
  /\ AtBoundary /\ nmiState = 0 /\ irqLine /\ ~iSeen /\ ~jammed
  /\ TakeInterrupt
  /\ UNCHANGED <<slice, line, kook, ppudead, nmiState, jammed, irqLine, ppuVars,
                 dots, frameDots, quiet, nmiEdge, sinceArm>>

\* Nothing to service: a due NMI waits while the CPU is jammed, and the IRQ line
\* is not looked at while an NMI is armed or due.
NoInterrupt ==
  /\ AtBoundary
  /\ \/ nmiState = 2 /\ jammed
     \/ nmiState = 0 /\ (~irqLine \/ iSeen \/ jammed)
  /\ at' = "exec"
  /\ UNCHANGED <<slice, line, budget, cycle, kook, ppudead, cpuVars, ppuVars, history>>

\* What every instruction shares: it costs c cycles, the APU is advanced (so the
\* IRQ line may change) and the loop goes on.  `arms`: it arms a delayed NMI.
Instruction(c, arms) ==
  /\ at = "exec" /\ at' = "check"
  /\ Charge(c)
  /\ irqLine' \in BOOLEAN
  /\ nmiState' = IF arms /\ nmiState = 0 THEN 1 ELSE nmiState
  /\ iBefore' = iFlag
  /\ sinceArm' = IF nmiState = 0 THEN 0 ELSE IF sinceArm < 2 THEN sinceArm + 1 ELSE 2
  /\ UNCHANGED <<slice, line, kook, ppudead, visScanline, origin,
                 dots, frameDots, quiet>>

\* A $2000 write that turns the NMI enable bit on while the vblank flag is set arms a
\* delayed NMI (O-38).  A read-modify-write instruction writes twice, `first` and
\* `second`; no write at all is a write of the old value.
ArmsNmi(flag, first, second) ==
  flag /\ ((~nmiEnable /\ first) \/ (~first /\ second))

\* Any instruction but those below.  It may read $2002, which clears the vblank flag,
\* and then write $2000.
PlainInstr(c, readsStatus, first, second) ==
  LET flag == vblank /\ ~readsStatus
      arms == ArmsNmi(flag, first, second)
  IN  /\ ~jammed
      /\ Instruction(c, arms)
      /\ vblank' = flag
      /\ nmiEnable' = second
      /\ nmiEdge' = (nmiEdge \/ arms)
      /\ iSeen' = iFlag
      /\ lastOp' = "instr"
      /\ UNCHANGED <<jammed, iFlag>>

\* CLI, SEI and PLP: the IRQ check sees the new flag one instruction late.
FlagInstr(c, i) ==
  /\ ~jammed
  /\ Instruction(c, FALSE)
  /\ iFlag' = i /\ iSeen' = iFlag
  /\ lastOp' = "instr"
  /\ UNCHANGED <<jammed, vblank, nmiEnable, nmiEdge>>

\* RTI: the restored flag counts at once.
ReturnInstr(c, i) ==
  /\ ~jammed
  /\ Instruction(c, FALSE)
  /\ iFlag' = i /\ iSeen' = i
  /\ lastOp' = "rti"
  /\ UNCHANGED <<jammed, vblank, nmiEnable, nmiEdge>>

\* BRK sets I, and no IRQ is taken right after it.
BreakInstr(c) ==
  /\ ~jammed
  /\ Instruction(c, FALSE)
  /\ iFlag' = TRUE /\ iSeen' = TRUE
  /\ lastOp' = "brk"
  /\ UNCHANGED <<jammed, vblank, nmiEnable, nmiEdge>>

\* A slip: a jammed CPU uses no cycles, as before O-5 was fixed.
KilFree == 0

\* The cycles of a KIL in the opcode table.
KilCycles == KilCost

\* KIL jams the CPU; PC stays on it, so a jammed CPU runs nothing else (O-7).
KilInstr ==
  /\ Instruction(KilCycles, FALSE)
  /\ jammed' = TRUE
  /\ iSeen' = iFlag
  /\ lastOp' = "instr"
  /\ UNCHANGED <<iFlag, vblank, nmiEnable, nmiEdge>>

-----------------------------------------------------------------------------
(* run_one_frame(): what happens between two run_ppu() calls, and the dots *)
(* the next one hands out.                                                 *)

\* The run_ppu() call for slice s has returned.
Done(s) == slice = s /\ at = "check" /\ ~Behind

\* Calls run_ppu() for slice s after `charged` more dots were used up.
Run(s, charged) ==
  /\ slice' = s
  /\ at' = "check"
  /\ budget' = budget - charged + Width(s)
  /\ dots' = (dots + Width(s)) % CycleMod
  /\ frameDots' = frameDots + Width(s)

loopKept    == <<line, cycle, kook, ppudead>>
historyKept == <<quiet, lastOp, iBefore, sinceArm>>

\* Post-render line over: the vblank flag goes up.
RaiseVblank ==
  /\ Done("post")
  /\ Run("window", 0)
  /\ vblank' = TRUE
  /\ nmiEdge' = (nmiEdge \/ nmiEnable)
  /\ UNCHANGED <<loopKept, cpuVars, nmiEnable, visScanline, origin, historyKept>>

\* A slip: the dots of the entry are not taken out of the budget.
VblankNmiFree == 0

\* cpu.nmi() adds the entry's cycles itself, so the loop takes its dots back.
VblankNmiCharge == EntryDots

\* The vblank NMI, fired here whatever the budget; its cycles are charged in dots.
\* An armed delayed NMI stays armed.
VblankNmi ==
  /\ Done("window") /\ nmiEnable /\ ~jammed
  /\ EnterHandler
  /\ cycle' = (cycle + EntryCost) % CycleMod
  /\ Run("vbl", VblankNmiCharge)
  /\ nmiEdge' = FALSE
  /\ UNCHANGED <<line, kook, ppudead, nmiState, jammed, irqLine, ppuVars,
                 quiet, sinceArm>>

NoVblankNmi ==
  /\ Done("window") /\ (~nmiEnable \/ jammed)
  /\ Run("vbl", 0)
  /\ UNCHANGED <<loopKept, cpuVars, ppuVars, historyKept, nmiEdge>>

\* A slip: the flag is left up.
KeepVblank == UNCHANGED vblank

\* The status bits cleared by snapshot_render().
ClearVblank == vblank' = FALSE

\* snapshot_render(): the vblank flag goes down.
EndVblank ==
  /\ Done("vbl")
  /\ Run("pre256", 0)
  /\ ClearVblank
  /\ UNCHANGED <<loopKept, cpuVars, nmiEnable, visScanline, origin, historyKept, nmiEdge>>

PreRenderMiddle ==
  /\ Done("pre256")
  /\ Run("pre69", 0)
  /\ UNCHANGED <<loopKept, cpuVars, ppuVars, historyKept, nmiEdge>>

\* cycle * 3 + budget: the absolute dot at which a line starts.
LineOrigin == (3 * cycle + budget) % CycleMod

\* line_start_frame(): line 0 begins at dot 325 of the pre-render line.
FirstLine ==
  /\ Done("pre69")
  /\ Run("pre16", 0)
  /\ line' = 0
  /\ origin' = LineOrigin
  /\ UNCHANGED <<cycle, kook, ppudead, cpuVars, vblank, nmiEnable, visScanline,
                 historyKept, nmiEdge>>

\* A slip: the alternation counts on.
CountKook == kook' = kook + 1

\* kook ^= 1
FlipKook == kook' = 1 - kook

\* begin_frame(): the visible lines begin and the alternation advances.
BeginVisible ==
  /\ Done("pre16")
  /\ Run("l256", 0)
  /\ FlipKook
  /\ visScanline' = TRUE
  /\ UNCHANGED <<line, cycle, ppudead, cpuVars, vblank, nmiEnable, origin,
                 historyKept, nmiEdge>>

\* line_end256() and copy_horizontal_bits() touch nothing modelled here.
LineMiddle ==
  /\ \/ Done("l256") /\ Run("l6", 0)
     \/ Done("l6") /\ Run("l63", 0)
  /\ UNCHANGED <<loopKept, cpuVars, ppuVars, historyKept, nmiEdge>>

\* The next line begins 16 dots before the end of this one; after the last one
\* the tail no longer counts as visible.
NextLine ==
  /\ Done("l63")
  /\ Run("l16", 0)
  /\ origin' = IF line + 1 < Lines THEN LineOrigin ELSE origin
  /\ visScanline' = (line + 1 < Lines)
  /\ UNCHANGED <<loopKept, cpuVars, vblank, nmiEnable, historyKept, nmiEdge>>

LineTail ==
  /\ Done("l16") /\ line + 1 < Lines
  /\ Run("l256", 0)
  /\ line' = line + 1
  /\ UNCHANGED <<cycle, kook, ppudead, cpuVars, ppuVars, historyKept, nmiEdge>>

\* run_one_frame() returns.
EndFrame ==
  /\ (Done("l16") /\ line + 1 = Lines) \/ Done("dead")
  /\ slice' = "idle"
  /\ line' = 0
  /\ quiet' = IF slice = "dead" /\ quiet < 2 THEN quiet + 1 ELSE quiet
  /\ UNCHANGED <<at, budget, cycle, kook, ppudead, cpuVars, ppuVars,
                 dots, frameDots, nmiEdge, lastOp, iBefore, sinceArm>>

-----------------------------------------------------------------------------
(* The frame driver of the headless run: one frame after another, the reset *)
(* and power commands applied between two frames.                          *)

\* The next frame starts, dead while g_ppudead says so.
StartFrame ==
  /\ slice = "idle"
  /\ LET s == IF ppudead > 0 THEN "dead" ELSE "post" IN
     /\ slice' = s
     /\ budget' = budget + Width(s)
     /\ dots' = (dots + Width(s)) % CycleMod
     /\ frameDots' = Width(s)
  /\ ppudead' = IF ppudead > 0 THEN ppudead - 1 ELSE 0
  /\ UNCHANGED <<at, line, cycle, kook, cpuVars, ppuVars, historyKept, nmiEdge>>

\* A slip: an armed NMI survives the reset.
KeepNmi == UNCHANGED nmiState

\* hot_reset() and reset() drop an armed NMI.
DropNmi == nmiState' = 0

\* Common to reset and power: CPU out of a jam with I set, no interrupt pending,
\* PPU registers cleared, two dead frames to come.
Restart ==
  /\ slice = "idle"
  /\ DropNmi
  /\ jammed' = FALSE /\ iFlag' = TRUE /\ iSeen' = TRUE
  /\ irqLine' = FALSE
  /\ vblank' = FALSE /\ nmiEnable' = FALSE
  /\ kook' = 0 /\ ppudead' = 2
  /\ quiet' = 0 /\ nmiEdge' = FALSE
  /\ lastOp' = "reset" /\ iBefore' = TRUE /\ sinceArm' = 0
  /\ UNCHANGED <<slice, at, line, visScanline, origin, frameDots>>

\* machine_reset(): the cycle count and the overshoot are kept.
MachineReset ==
  /\ Restart
  /\ UNCHANGED <<budget, cycle, dots>>

\* machine_power()
MachinePower ==
  /\ Restart
  /\ budget' = 0 /\ cycle' = 0 /\ dots' = 0

Boundary == ConvertNmi \/ TakeNmi \/ TakeIrq \/ NoInterrupt
Execute ==
  \/ \E c \in Costs, r, first, second \in BOOLEAN : PlainInstr(c, r, first, second)
  \/ \E c \in Costs, i \in BOOLEAN : FlagInstr(c, i) \/ ReturnInstr(c, i)
  \/ \E c \in Costs : BreakInstr(c)
  \/ KilInstr
BetweenSlices ==
  \/ RaiseVblank \/ VblankNmi \/ NoVblankNmi \/ EndVblank \/ PreRenderMiddle
  \/ FirstLine \/ BeginVisible \/ LineMiddle \/ NextLine \/ LineTail

Emulate == Boundary \/ Execute \/ BetweenSlices \/ EndFrame
Command == MachineReset \/ MachinePower
Next == Emulate \/ StartFrame \/ Command

Spec == Init /\ [][Next]_vars

\* One thread runs the loop: inside a frame it always goes on.
FairSpec == Spec /\ WF_vars(Emulate)

-----------------------------------------------------------------------------
(* Properties.                                                             *)

TypeOK ==
  /\ slice \in Slices \cup {"idle"} /\ at \in {"check", "exec"}
  /\ line \in 0..(Lines - 1)
  /\ budget \in Int /\ cycle \in 0..(CycleMod - 1)
  /\ kook \in {0, 1} /\ ppudead \in 0..2
  /\ nmiState \in 0..2
  /\ jammed \in BOOLEAN /\ iFlag \in BOOLEAN /\ iSeen \in BOOLEAN /\ irqLine \in BOOLEAN
  /\ vblank \in BOOLEAN /\ nmiEnable \in BOOLEAN /\ visScanline \in BOOLEAN
  /\ origin \in 0..(CycleMod - 1)
  /\ dots \in 0..(CycleMod - 1) /\ frameDots \in Nat
  /\ quiet \in 0..2 /\ nmiEdge \in BOOLEAN
  /\ lastOp \in {"instr", "rti", "brk", "entry", "reset"}
  /\ iBefore \in BOOLEAN /\ sinceArm \in 0..2

\* The beam and the CPU never drift apart: the dots handed out are the dots the
\* CPU has used plus what is left in the budget, whatever the instructions,
\* interrupts and resets were, also after the cycle counter has wrapped.  Line
\* origins (cycle * 3 + budget) are therefore exact beam positions.
ClockExact == (3 * cycle + budget) % CycleMod = dots

\* The CPU overshoots a slice by less than its longest instruction, however many
\* slices that instruction spans and wherever an interrupt entry was charged.
DebtBounded == budget > -3 * MaxCost

\* After a reset or power-on the program sees no vblank flag, and no NMI is even
\* armed, until two whole frames have run (ppudead, O-41).
QuietAfterReset == (vblank \/ nmiState # 0) => quiet = 2

\* An NMI armed by a $2000 write is taken after exactly one more instruction (O-38).
DelayedNmiAfterOne == [][TakeNmi => sinceArm = 1]_vars

\* An IRQ is taken only if I was already clear before the last instruction, or the
\* last instruction was an RTI that cleared it; never right after BRK, after an
\* interrupt entry or after a reset (O-28, O-30).
IrqLatency ==
  [][TakeIrq => \/ lastOp = "instr" /\ ~iBefore
                \/ lastOp = "rti" /\ ~iFlag]_vars

\* Whatever the program does (jam, interrupt storm), a started frame ends.
FrameEnds == slice # "idle" ~> slice = "idle"

\* A $2000 write that turns NMI on during vblank raises one NMI (O-38): when the
\* delayed NMI is taken, the edge that armed it has not been answered already.
OneNmiPerWrite == [][TakeNmi => nmiEdge]_vars

\* The abstract beam and CPU this loop implements: the beam is where the dots
\* handed out end, the CPU's lag is the budget, and the alternation counts for the
\* frame it shortens until that frame is over.
Beam == INSTANCE BeamClock WITH
  Full        <- FullFrame,
  VblankStart <- SliceDots["post"],
  VblankEnd   <- SliceDots["post"] + SliceDots["window"] + SliceDots["vbl"],
  Picture     <- Lines * LineDots,
  Tail        <- SliceDots["l16"],
  running     <- slice # "idle",
  beam        <- frameDots,
  lag         <- budget,
  short       <- IF slice \in {"l256", "l6", "l63", "l16"} THEN 1 - kook ELSE kook,
  deadLeft    <- ppudead,
  dead        <- slice = "dead",
  visible     <- visScanline

\* The frame loop implements BeamClock: the program sees vblank and the visible
\* lines exactly where the beam is, the CPU works only while behind, and frames
\* have the promised lengths.
ImplementsBeam == Beam!BeamSpec
=============================================================================
