--------------------------- MODULE FrameLoopProofs ---------------------------
(***************************************************************************)
(* Theorems about FrameLoop for every slice width, line count, instruction *)
(* cost and counter width its assumptions allow.                           *)
(***************************************************************************)
EXTENDS FrameLoop, TLAPS

-----------------------------------------------------------------------------
(* Remainders: the cycle counter wraps.                                    *)

\* A residue is smaller than the modulus.
LEMMA ModRange ==
  ASSUME NEW M \in Nat \ {0}, NEW x \in Int
  PROVE  x % M \in 0..(M - 1)
  OBVIOUS

\* Quotient and remainder give the number back.
LEMMA ModQuotient ==
  ASSUME NEW M \in Nat \ {0}, NEW x \in Int
  PROVE  /\ x \div M \in Int
         /\ x = M * (x \div M) + (x % M)
  OBVIOUS

\* A positive multiple of M is at least M.
LEMMA MultipleAtLeast ==
  ASSUME NEW M \in Nat \ {0}, NEW d \in Int, d >= 1
  PROVE  M * d >= M
  OBVIOUS

\* Two residues that differ by a multiple of M are equal.
LEMMA ResidueUnique ==
  ASSUME NEW M \in Nat \ {0}, NEW d \in Int,
         NEW r \in 0..(M - 1), NEW s \in 0..(M - 1), M * d + r = s
  PROVE  r = s
<1>1. M * d \in Int
  OBVIOUS
<1>2. CASE d >= 1
  <2>1. M * d >= M  BY <1>2, MultipleAtLeast
  <2> QED  BY <1>1, <2>1
<1>3. CASE d <= -1
  <2>1. M * (-d) >= M  BY <1>3, MultipleAtLeast
  <2>2. M * (-d) = -(M * d)  OBVIOUS
  <2> QED  BY <1>1, <2>1, <2>2
<1>4. CASE d = 0
  BY <1>4
<1> QED  BY <1>2, <1>3, <1>4

\* Numbers that differ by a multiple of M have the same residue.
LEMMA ModShift ==
  ASSUME NEW M \in Nat \ {0}, NEW x \in Int, NEW y \in Int, NEW q \in Int,
         x = y + M * q
  PROVE  x % M = y % M
<1>1. PICK a \in Int : y = M * a + (y % M)
  BY ModQuotient
<1>2. PICK b \in Int : x = M * b + (x % M)
  BY ModQuotient
<1>3. a + q - b \in Int
  OBVIOUS
<1>4. M * (a + q - b) = M * a + M * q - M * b
  OBVIOUS
<1>5. /\ M * a \in Int /\ M * q \in Int /\ M * b \in Int
      /\ y % M \in Int /\ x % M \in Int
  BY ModRange
<1>6. M * (a + q - b) + (y % M) = x % M
  BY <1>1, <1>2, <1>4, <1>5
<1>7. y % M \in 0..(M - 1) /\ x % M \in 0..(M - 1)
  BY ModRange
<1> QED  BY <1>3, <1>6, <1>7, ResidueUnique

\* Reducing one summand first does not change the residue of a sum.
LEMMA ModPlus ==
  ASSUME NEW M \in Nat \ {0}, NEW x \in Int, NEW y \in Int
  PROVE  ((x % M) + y) % M = (x + y) % M
<1>1. PICK a \in Int : x = M * a + (x % M)
  BY ModQuotient
<1>2. x % M \in Int /\ M * a \in Int
  BY ModRange
<1>0. \A r, m \in Int : x = m + r => x + y = (r + y) + m
  OBVIOUS
<1>3. x + y = ((x % M) + y) + M * a
  BY <1>1, <1>2, <1>0
<1>4. x + y \in Int /\ (x % M) + y \in Int
  BY <1>2
<1> QED  BY <1>3, <1>4, ModShift

\* The constants, in the form the proofs use.
LEMMA Constants ==
  /\ \A s \in Slices : SliceDots[s] \in Nat \ {0}
  /\ SliceDots["pre16"] > 1 /\ SliceDots["vbl"] >= 21
  /\ Lines \in Nat \ {0} /\ CycleMod \in Nat \ {0}
  /\ MaxCost \in Nat /\ KilCost \in 1..MaxCost /\ 7 <= MaxCost
  /\ \A c \in Costs : c \in 1..MaxCost
  /\ 0 \in 0..(Lines - 1) /\ 0 \in 0..(CycleMod - 1)
  BY SliceAssumption, LinesAssumption, CostAssumption, CycleModAssumption
     DEF EntryDots, EntryCost

\* A slice always hands out at least one dot.
LEMMA WidthPositive ==
  ASSUME TypeOK, NEW s \in Slices
  PROVE  Width(s) \in Nat \ {0}
<1>1. kook \in {0, 1}
  BY DEF TypeOK
<1>2. CASE s = "pre16"
  <2>1. SliceDots["pre16"] \in Nat /\ SliceDots["pre16"] > 1
    BY <1>2, Constants DEF Slices
  <2> QED  BY <1>1, <1>2, <2>1 DEF Width
<1>3. CASE s # "pre16"
  BY <1>3, Constants DEF Width
<1> QED  BY <1>2, <1>3

\* The slices run_one_frame() names are slices.
LEMMA SliceNames ==
  /\ \A s \in {"dead", "post", "window", "vbl", "pre256", "pre69", "pre16",
               "l256", "l6", "l63", "l16"} : s \in Slices
  /\ "idle" \notin Slices
  BY DEF Slices

\* Charging an instruction keeps the types of the budget and of the counter.
LEMMA ChargeType ==
  ASSUME TypeOK, NEW c \in Nat, Charge(c)
  PROVE  budget' \in Int /\ cycle' \in 0..(CycleMod - 1)
<1>1. cycle + c \in Int /\ budget - 3 * c \in Int
  BY DEF TypeOK
<1> QED  BY <1>1, Constants, ModRange DEF Charge

\* Handing out a slice keeps the types of the loop's variables.
LEMMA RunType ==
  ASSUME TypeOK, NEW s \in Slices, NEW c \in Nat, Run(s, c)
  PROVE  /\ slice' \in Slices /\ at' = "check"
         /\ budget' \in Int /\ dots' \in 0..(CycleMod - 1) /\ frameDots' \in Nat
<1>1. Width(s) \in Nat
  BY WidthPositive
<1>2. dots + Width(s) \in Int
  BY <1>1 DEF TypeOK
<1>3. dots' \in 0..(CycleMod - 1)
  BY <1>2, Constants, ModRange DEF Run
<1> QED  BY <1>1, <1>3 DEF Run, TypeOK

\* An instruction keeps the types of what every instruction touches.
LEMMA InstructionType ==
  ASSUME TypeOK, NEW c \in Nat, NEW arms \in BOOLEAN, Instruction(c, arms)
  PROVE  /\ slice' \in Slices \cup {"idle"} /\ at' = "check"
         /\ line' \in 0..(Lines - 1)
         /\ budget' \in Int /\ cycle' \in 0..(CycleMod - 1)
         /\ kook' \in {0, 1} /\ ppudead' \in 0..2 /\ nmiState' \in 0..2
         /\ irqLine' \in BOOLEAN /\ visScanline' \in BOOLEAN
         /\ origin' \in 0..(CycleMod - 1) /\ dots' \in 0..(CycleMod - 1)
         /\ frameDots' \in Nat /\ quiet' \in 0..2
         /\ iBefore' \in BOOLEAN /\ sinceArm' \in 0..2
<1>1. Charge(c)
  BY DEF Instruction
<1>2. budget' \in Int /\ cycle' \in 0..(CycleMod - 1)
  BY <1>1, ChargeType
<1> QED  BY <1>2 DEF Instruction, TypeOK

LEMMA LineOriginType ==
  ASSUME TypeOK
  PROVE  LineOrigin \in 0..(CycleMod - 1)
<1>1. 3 * cycle + budget \in Int
  BY DEF TypeOK
<1> QED  BY <1>1, Constants, ModRange DEF LineOrigin

-----------------------------------------------------------------------------
(* Types. *)

LEMMA InitType == Init => TypeOK
<1> SUFFICES ASSUME Init PROVE TypeOK
  OBVIOUS
<1>1. /\ jammed \in BOOLEAN /\ iFlag \in BOOLEAN /\ iSeen \in BOOLEAN
      /\ irqLine \in BOOLEAN /\ vblank \in BOOLEAN /\ nmiEnable \in BOOLEAN
      /\ visScanline \in BOOLEAN /\ nmiEdge \in BOOLEAN /\ iBefore \in BOOLEAN
  BY DEF Init
<1> QED  BY <1>1, Constants DEF Init, TypeOK

LEMMA BoundaryType == TypeOK /\ Boundary => TypeOK'
<1> SUFFICES ASSUME TypeOK, Boundary PROVE TypeOK'
  OBVIOUS
<1>1. CASE ConvertNmi
  BY <1>1 DEF ConvertNmi, GoOnRunning, TypeOK, history, ppuVars
<1>2. CASE TakeNmi
  <2>1. budget' \in Int /\ cycle' \in 0..(CycleMod - 1)
    BY <1>2, ChargeType DEF TakeNmi, TakeInterrupt, EntryCost
  <2>2. nmiEdge' \in BOOLEAN
    BY <1>2 DEF TakeNmi
  <2> QED  BY <1>2, <2>1, <2>2 DEF TakeNmi, TakeInterrupt, EnterHandler, TypeOK, ppuVars
<1>3. CASE TakeIrq
  <2>1. budget' \in Int /\ cycle' \in 0..(CycleMod - 1)
    BY <1>3, ChargeType DEF TakeIrq, TakeInterrupt, EntryCost
  <2> QED  BY <1>3, <2>1 DEF TakeIrq, TakeInterrupt, EnterHandler, TypeOK, ppuVars
<1>4. CASE NoInterrupt
  BY <1>4 DEF NoInterrupt, TypeOK, cpuVars, ppuVars, history
<1> QED  BY <1>1, <1>2, <1>3, <1>4 DEF Boundary

LEMMA ExecuteType == TypeOK /\ Execute => TypeOK'
<1> SUFFICES ASSUME TypeOK, Execute PROVE TypeOK'
  OBVIOUS
<1>0. \A c \in Costs : c \in Nat
  BY Constants
<1>1. CASE \E c \in Costs, r, first, second \in BOOLEAN : PlainInstr(c, r, first, second)
  <2>1. PICK c \in Costs, r, first, second \in BOOLEAN : PlainInstr(c, r, first, second)
    BY <1>1
  <2>2. vblank \in BOOLEAN /\ nmiEnable \in BOOLEAN /\ nmiEdge \in BOOLEAN
    BY DEF TypeOK
  <2> DEFINE flag == vblank /\ ~r
             arms == flag /\ ((~nmiEnable /\ first) \/ (~first /\ second))
  <2>3. flag \in BOOLEAN /\ arms \in BOOLEAN
    OBVIOUS
  <2>4. /\ Instruction(c, arms) /\ vblank' = flag /\ nmiEnable' = second
        /\ nmiEdge' = (nmiEdge \/ arms) /\ iSeen' = iFlag /\ lastOp' = "instr"
        /\ jammed' = jammed /\ iFlag' = iFlag
    BY <2>1 DEF PlainInstr, ArmsNmi
  <2>5. nmiEdge' \in BOOLEAN
    BY <2>4
  <2> HIDE DEF flag, arms
  <2> QED  BY <1>0, <2>3, <2>4, <2>5, InstructionType DEF TypeOK
<1>2. CASE \E c \in Costs, i \in BOOLEAN : FlagInstr(c, i) \/ ReturnInstr(c, i)
  <2>1. PICK c \in Costs, i \in BOOLEAN : FlagInstr(c, i) \/ ReturnInstr(c, i)
    BY <1>2
  <2>2. Instruction(c, FALSE)
    BY <2>1 DEF FlagInstr, ReturnInstr
  <2> QED  BY <1>0, <2>1, <2>2, InstructionType DEF FlagInstr, ReturnInstr, TypeOK
<1>3. CASE \E c \in Costs : BreakInstr(c)
  BY <1>0, <1>3, InstructionType DEF BreakInstr, TypeOK
<1>4. CASE KilInstr
  <2>1. KilCost \in Nat
    BY Constants
  <2> QED  BY <1>4, <2>1, InstructionType DEF KilInstr, KilCycles, TypeOK
<1> QED  BY <1>1, <1>2, <1>3, <1>4 DEF Execute

LEMMA BetweenType == TypeOK /\ BetweenSlices => TypeOK'
<1> SUFFICES ASSUME TypeOK, BetweenSlices PROVE TypeOK'
  OBVIOUS
<1> USE SliceNames
<1>1. CASE RaiseVblank
  <2>1. Run("window", 0)  BY <1>1 DEF RaiseVblank
  <2> QED  BY <1>1, <2>1, RunType
           DEF RaiseVblank, TypeOK, loopKept, cpuVars, historyKept
<1>2. CASE VblankNmi
  <2>1. Run("vbl", 21)  BY <1>2 DEF VblankNmi, VblankNmiCharge, EntryDots, EntryCost
  <2>2. cycle + 7 \in Int  BY DEF TypeOK
  <2>3. cycle' \in 0..(CycleMod - 1)
    BY <1>2, <2>2, Constants, ModRange DEF VblankNmi, EntryCost
  <2> QED  BY <1>2, <2>1, <2>3, RunType DEF VblankNmi, EnterHandler, TypeOK, ppuVars
<1>3. CASE NoVblankNmi
  <2>1. Run("vbl", 0)  BY <1>3 DEF NoVblankNmi
  <2> QED  BY <1>3, <2>1, RunType
           DEF NoVblankNmi, TypeOK, loopKept, cpuVars, ppuVars, historyKept
<1>4. CASE EndVblank
  <2>1. Run("pre256", 0)  BY <1>4 DEF EndVblank
  <2>2. vblank' \in BOOLEAN
    BY <1>4 DEF EndVblank, ClearVblank
  <2> QED  BY <1>4, <2>1, <2>2, RunType
           DEF EndVblank, ClearVblank, TypeOK, loopKept, cpuVars, historyKept
<1>5. CASE PreRenderMiddle
  <2>1. Run("pre69", 0)  BY <1>5 DEF PreRenderMiddle
  <2> QED  BY <1>5, <2>1, RunType
           DEF PreRenderMiddle, TypeOK, loopKept, cpuVars, ppuVars, historyKept
<1>6. CASE FirstLine
  <2>1. Run("pre16", 0)  BY <1>6 DEF FirstLine
  <2> QED  BY <1>6, <2>1, RunType, LineOriginType, Constants
           DEF FirstLine, TypeOK, cpuVars, historyKept
<1>7. CASE BeginVisible
  <2>1. Run("l256", 0)  BY <1>7 DEF BeginVisible
  <2> QED  BY <1>7, <2>1, RunType
           DEF BeginVisible, FlipKook, TypeOK, cpuVars, historyKept
<1>8. CASE LineMiddle
  <2>1. Run("l6", 0) \/ Run("l63", 0)  BY <1>8 DEF LineMiddle
  <2> QED  BY <1>8, <2>1, RunType
           DEF LineMiddle, TypeOK, loopKept, cpuVars, ppuVars, historyKept
<1>9. CASE NextLine
  <2>1. Run("l16", 0)  BY <1>9 DEF NextLine
  <2> QED  BY <1>9, <2>1, RunType, LineOriginType
           DEF NextLine, TypeOK, loopKept, cpuVars, historyKept
<1>10. CASE LineTail
  <2>1. Run("l256", 0)  BY <1>10 DEF LineTail
  <2>2. line' \in 0..(Lines - 1)  BY <1>10, Constants DEF LineTail, TypeOK
  <2> QED  BY <1>10, <2>1, <2>2, RunType
           DEF LineTail, TypeOK, cpuVars, ppuVars, historyKept
<1> QED  BY <1>1, <1>2, <1>3, <1>4, <1>5, <1>6, <1>7, <1>8, <1>9, <1>10 DEF BetweenSlices

LEMMA FrameType == TypeOK /\ (EndFrame \/ StartFrame) => TypeOK'
<1> SUFFICES ASSUME TypeOK, EndFrame \/ StartFrame PROVE TypeOK'
  OBVIOUS
<1>1. CASE EndFrame
  BY <1>1, Constants DEF EndFrame, TypeOK, cpuVars, ppuVars
<1>2. CASE StartFrame
  <2> DEFINE s == IF ppudead > 0 THEN "dead" ELSE "post"
  <2>1. s \in Slices
    BY SliceNames
  <2>2. /\ slice' = s /\ budget' = budget + Width(s)
        /\ dots' = (dots + Width(s)) % CycleMod /\ frameDots' = Width(s)
    BY <1>2 DEF StartFrame
  <2> HIDE DEF s
  <2>3. Width(s) \in Nat
    BY <2>1, WidthPositive
  <2>4. dots + Width(s) \in Int
    BY <2>3 DEF TypeOK
  <2>5. dots' \in 0..(CycleMod - 1)
    BY <2>2, <2>4, Constants, ModRange
  <2>6. slice' \in Slices /\ budget' \in Int /\ frameDots' \in Nat
    BY <2>1, <2>2, <2>3 DEF TypeOK
  <2> QED  BY <1>2, <2>5, <2>6 DEF StartFrame, TypeOK, cpuVars, ppuVars, historyKept
<1> QED  BY <1>1, <1>2

LEMMA CommandType == TypeOK /\ Command => TypeOK'
<1> SUFFICES ASSUME TypeOK, Command PROVE TypeOK'
  OBVIOUS
<1>1. Restart /\ DropNmi
  BY DEF Command, MachineReset, MachinePower, Restart
<1>2. /\ jammed' \in BOOLEAN /\ iFlag' \in BOOLEAN /\ iSeen' \in BOOLEAN
      /\ irqLine' \in BOOLEAN /\ vblank' \in BOOLEAN /\ nmiEnable' \in BOOLEAN
      /\ nmiEdge' \in BOOLEAN /\ iBefore' \in BOOLEAN
  BY <1>1 DEF Restart
<1>3. budget' \in Int /\ cycle' \in 0..(CycleMod - 1) /\ dots' \in 0..(CycleMod - 1)
  BY Constants DEF Command, MachineReset, MachinePower, TypeOK
<1> QED  BY <1>1, <1>2, <1>3 DEF Restart, DropNmi, TypeOK

LEMMA StutterType == TypeOK /\ UNCHANGED vars => TypeOK'
  BY DEF TypeOK, vars, loopVars, cpuVars, ppuVars, history

LEMMA StepType == TypeOK /\ [Next]_vars => TypeOK'
  BY BoundaryType, ExecuteType, BetweenType, FrameType, CommandType, StutterType
     DEF Next, Emulate

\* Every variable of the frame loop keeps its type: the alternation stays 0 or 1,
\* the line counter stays inside the picture, counters stay below their wrap.
THEOREM TypeCorrect == Spec => []TypeOK
<1>1. Init => TypeOK
  BY InitType
<1>2. TypeOK /\ [Next]_vars => TypeOK'
  BY StepType
<1> QED  BY <1>1, <1>2, PTL DEF Spec

-----------------------------------------------------------------------------
(* The overshoot. *)

\* An instruction is under way only inside a slice that has dots left.
Awake == at = "exec" => slice # "idle" /\ budget > 0

DebtInv == TypeOK /\ Awake /\ DebtBounded

LEMMA DebtBoundary == DebtInv /\ Boundary => Awake' /\ DebtBounded'
<1> SUFFICES ASSUME DebtInv, Boundary PROVE Awake' /\ DebtBounded'
  OBVIOUS
<1> USE Constants DEF DebtInv, TypeOK, Awake, DebtBounded, AtBoundary, Behind
<1>1. CASE ConvertNmi
  BY <1>1 DEF ConvertNmi, GoOnRunning
<1>2. CASE TakeNmi
  BY <1>2 DEF TakeNmi, TakeInterrupt, Charge, EntryCost, EntryDots
<1>3. CASE TakeIrq
  BY <1>3 DEF TakeIrq, TakeInterrupt, Charge, EntryCost, EntryDots
<1>4. CASE NoInterrupt
  BY <1>4 DEF NoInterrupt
<1> QED  BY <1>1, <1>2, <1>3, <1>4 DEF Boundary

LEMMA DebtExecute == DebtInv /\ Execute => Awake' /\ DebtBounded'
<1> SUFFICES ASSUME DebtInv, Execute PROVE Awake' /\ DebtBounded'
  OBVIOUS
<1>1. \A arms : \A c \in 1..MaxCost : Instruction(c, arms) => at' = "check" /\ DebtBounded'
  BY Constants DEF DebtInv, TypeOK, Awake, DebtBounded, Instruction, Charge
<1>2. \E arms : \E c \in 1..MaxCost : Instruction(c, arms)
  <2>1. CASE \E c \in Costs, r, first, second \in BOOLEAN : PlainInstr(c, r, first, second)
    BY <2>1, Constants DEF PlainInstr, ArmsNmi
  <2>2. CASE \E c \in Costs, i \in BOOLEAN : FlagInstr(c, i) \/ ReturnInstr(c, i)
    BY <2>2, Constants DEF FlagInstr, ReturnInstr
  <2>3. CASE \E c \in Costs : BreakInstr(c)
    BY <2>3, Constants DEF BreakInstr
  <2>4. CASE KilInstr
    BY <2>4, Constants DEF KilInstr, KilCycles
  <2> QED  BY <2>1, <2>2, <2>3, <2>4 DEF Execute
<1> QED  BY <1>1, <1>2 DEF Awake

\* A slice handed out, even after an NMI entry was charged, leaves the CPU with no
\* more overshoot than it had.
LEMMA DebtRun ==
  ASSUME DebtInv, NEW s \in Slices, NEW c \in {0, EntryDots}, Run(s, c),
         c = 0 \/ s = "vbl"
  PROVE  Awake' /\ DebtBounded'
<1>1. Width(s) \in Nat
  BY WidthPositive DEF DebtInv
<1>2. c <= Width(s) /\ c \in Nat
  BY <1>1, Constants DEF Width, EntryDots, EntryCost
<1> QED  BY <1>1, <1>2, Constants DEF DebtInv, TypeOK, Awake, DebtBounded, Run

LEMMA DebtBetween == DebtInv /\ BetweenSlices => Awake' /\ DebtBounded'
<1> SUFFICES ASSUME DebtInv, BetweenSlices PROVE Awake' /\ DebtBounded'
  OBVIOUS
<1>1. \/ \E s \in Slices : Run(s, 0)
      \/ Run("vbl", EntryDots)
  BY SliceNames DEF BetweenSlices, RaiseVblank, VblankNmi, VblankNmiCharge, NoVblankNmi,
     EndVblank, PreRenderMiddle, FirstLine, BeginVisible, LineMiddle, NextLine, LineTail
<1> QED  BY <1>1, DebtRun, SliceNames

LEMMA DebtFrame == DebtInv /\ (EndFrame \/ StartFrame \/ Command) => Awake' /\ DebtBounded'
<1> SUFFICES ASSUME DebtInv, EndFrame \/ StartFrame \/ Command PROVE Awake' /\ DebtBounded'
  OBVIOUS
<1> USE Constants DEF DebtInv, TypeOK, Awake, DebtBounded
<1>1. CASE EndFrame
  BY <1>1 DEF EndFrame, Done
<1>2. CASE StartFrame
  <2>1. Width("dead") \in Nat /\ Width("post") \in Nat
    BY WidthPositive, SliceNames
  <2> QED  BY <1>2, <2>1 DEF StartFrame
<1>3. CASE Command
  BY <1>3 DEF Command, MachineReset, MachinePower, Restart
<1> QED  BY <1>1, <1>2, <1>3

LEMMA DebtInvStep == DebtInv /\ [Next]_vars => DebtInv'
<1> SUFFICES ASSUME DebtInv, [Next]_vars PROVE DebtInv'
  OBVIOUS
<1>1. TypeOK'
  BY StepType DEF DebtInv
<1>2. Awake' /\ DebtBounded'
  <2>1. CASE UNCHANGED vars
    BY <2>1 DEF DebtInv, Awake, DebtBounded, vars, loopVars
  <2>2. CASE Next
    BY <2>2, DebtBoundary, DebtExecute, DebtBetween, DebtFrame DEF Next, Emulate
  <2> QED  BY <2>1, <2>2
<1> QED  BY <1>1, <1>2 DEF DebtInv

\* However long instructions and interrupt entries are, and whatever slices they
\* span, the CPU overshoots the dots it was given by less than the largest cost:
\* an entry is charged while dots are left, or before a slice that covers it.
THEOREM DebtAlwaysBounded == Spec => []DebtBounded
<1>1. Init => DebtInv
  BY InitType, Constants DEF DebtInv, Awake, DebtBounded, Init
<1>2. DebtInv /\ [Next]_vars => DebtInv'
  BY DebtInvStep
<1>3. DebtInv => DebtBounded
  BY DEF DebtInv
<1> QED  BY <1>1, <1>2, <1>3, PTL DEF Spec

-----------------------------------------------------------------------------
(* The clock. *)

\* Cycles charged to the budget, three dots each, leave the sum of both clocks as
\* it was, also when the cycle counter wraps.
LEMMA ChargeKeepsClock ==
  ASSUME TypeOK, ClockExact, NEW c \in Int, NEW b \in Int,
         cycle' = (cycle + c) % CycleMod, budget' = b - 3 * c
  PROVE  (3 * cycle' + budget') % CycleMod = (3 * cycle + b) % CycleMod
<1>1. cycle \in Int /\ budget \in Int /\ cycle + c \in Int
  BY DEF TypeOK
<1>2. PICK q \in Int : cycle + c = CycleMod * q + cycle'
  BY <1>1, Constants, ModQuotient
<1>3. cycle' \in Int /\ CycleMod * q \in Int /\ CycleMod * (-3 * q) = -3 * (CycleMod * q)
  BY <1>1, Constants, ModRange
<1>0. \A m, n \in Int : cycle + c = m + n
        => 3 * n + (b - 3 * c) = (3 * cycle + b) + (-3 * m)
  BY <1>1
<1>4. 3 * cycle' + budget' = (3 * cycle + b) + CycleMod * (-3 * q)
  BY <1>2, <1>3, <1>0
<1>5. 3 * cycle' + budget' \in Int /\ 3 * cycle + b \in Int /\ -3 * q \in Int
  BY <1>1, <1>3
<1> DEFINE x == 3 * cycle' + budget'
           y == 3 * cycle + b
           r == -3 * q
<1>6. x \in Int /\ y \in Int /\ r \in Int /\ x = y + CycleMod * r
  BY <1>4, <1>5
<1> HIDE DEF x, y, r
<1>7. x % CycleMod = y % CycleMod
  BY <1>6, Constants, ModShift
<1> QED  BY <1>7 DEF x, y

\* Dots handed out move both sides by the same amount.
LEMMA DotsKeepClock ==
  ASSUME TypeOK, ClockExact, NEW w \in Nat
  PROVE  (3 * cycle + (budget + w)) % CycleMod = (dots + w) % CycleMod
<1>1. 3 * cycle + budget \in Int /\ 3 * cycle + (budget + w) = (3 * cycle + budget) + w
  BY DEF TypeOK
<1> QED  BY <1>1, Constants, ModPlus DEF ClockExact

LEMMA ClockBoundary == TypeOK /\ ClockExact /\ Boundary => ClockExact'
<1> SUFFICES ASSUME TypeOK, ClockExact, Boundary PROVE ClockExact'
  OBVIOUS
<1>1. CASE TakeNmi \/ TakeIrq
  <2>1. Charge(EntryCost) /\ dots' = dots
    BY <1>1 DEF TakeNmi, TakeIrq, TakeInterrupt
  <2>2. budget \in Int
    BY DEF TypeOK
  <2> QED  BY <2>1, <2>2, ChargeKeepsClock DEF Charge, EntryCost, ClockExact
<1>2. CASE ConvertNmi \/ NoInterrupt
  BY <1>2 DEF ConvertNmi, NoInterrupt, history, ClockExact
<1> QED  BY <1>1, <1>2 DEF Boundary

LEMMA ClockExecute == TypeOK /\ ClockExact /\ Execute => ClockExact'
<1> SUFFICES ASSUME TypeOK, ClockExact, Execute PROVE ClockExact'
  OBVIOUS
<1>1. \E c \in 1..MaxCost : \E arms : Instruction(c, arms)
  <2>1. CASE \E c \in Costs, r, first, second \in BOOLEAN : PlainInstr(c, r, first, second)
    BY <2>1, Constants DEF PlainInstr, ArmsNmi
  <2>2. CASE \E c \in Costs, i \in BOOLEAN : FlagInstr(c, i) \/ ReturnInstr(c, i)
    BY <2>2, Constants DEF FlagInstr, ReturnInstr
  <2>3. CASE \E c \in Costs : BreakInstr(c)
    BY <2>3, Constants DEF BreakInstr
  <2>4. CASE KilInstr
    BY <2>4, Constants DEF KilInstr, KilCycles
  <2> QED  BY <2>1, <2>2, <2>3, <2>4 DEF Execute
<1>2. PICK c \in 1..MaxCost : Charge(c) /\ dots' = dots
  BY <1>1 DEF Instruction
<1>3. c \in Int /\ budget \in Int
  BY Constants DEF TypeOK
<1> QED  BY <1>2, <1>3, ChargeKeepsClock DEF Charge, ClockExact

LEMMA ClockBetween == TypeOK /\ ClockExact /\ BetweenSlices => ClockExact'
<1> SUFFICES ASSUME TypeOK, ClockExact, BetweenSlices PROVE ClockExact'
  OBVIOUS
<1>1. CASE VblankNmi
  <2> DEFINE w == Width("vbl")
  <2>1. w \in Nat
    BY WidthPositive, SliceNames
  <2>2. /\ cycle' = (cycle + EntryCost) % CycleMod
        /\ budget' = budget - EntryDots + w /\ dots' = (dots + w) % CycleMod
    BY <1>1 DEF VblankNmi, VblankNmiCharge, Run
  <2> HIDE DEF w
  <2>3. EntryCost \in Int /\ budget + w \in Int /\ budget' = (budget + w) - 3 * EntryCost
    BY <2>1, <2>2 DEF TypeOK, EntryDots, EntryCost
  <2> QED  BY <2>1, <2>2, <2>3, ChargeKeepsClock, DotsKeepClock DEF ClockExact
<1>2. CASE ~VblankNmi
  <2>1. cycle' = cycle /\ \E s \in Slices : Run(s, 0)
    BY <1>2, SliceNames DEF BetweenSlices, RaiseVblank, NoVblankNmi, EndVblank,
       PreRenderMiddle, FirstLine, BeginVisible, LineMiddle, NextLine, LineTail, loopKept
  <2>2. PICK s \in Slices : Run(s, 0)
    BY <2>1
  <2>3. Width(s) \in Nat
    BY WidthPositive
  <2>4. budget' = budget + Width(s) /\ dots' = (dots + Width(s)) % CycleMod
    BY <2>2, <2>3 DEF Run, TypeOK
  <2> QED  BY <2>1, <2>3, <2>4, DotsKeepClock DEF ClockExact
<1> QED  BY <1>1, <1>2

LEMMA ClockFrame ==
  TypeOK /\ ClockExact /\ (EndFrame \/ StartFrame \/ Command) => ClockExact'
<1> SUFFICES ASSUME TypeOK, ClockExact, EndFrame \/ StartFrame \/ Command PROVE ClockExact'
  OBVIOUS
<1>1. CASE EndFrame \/ MachineReset
  BY <1>1 DEF EndFrame, MachineReset, ClockExact
<1>2. CASE StartFrame
  <2>1. PICK s \in Slices : budget' = budget + Width(s) /\ dots' = (dots + Width(s)) % CycleMod
    BY <1>2, SliceNames DEF StartFrame
  <2>2. Width(s) \in Nat /\ cycle' = cycle
    BY <1>2, WidthPositive DEF StartFrame
  <2> QED  BY <2>1, <2>2, DotsKeepClock DEF ClockExact
<1>3. CASE MachinePower
  <2>1. 3 * cycle' + budget' = 0 + CycleMod * 0 /\ dots' = 0
    BY <1>3, Constants DEF MachinePower
  <2>2. 0 % CycleMod = 0
    BY Constants
  <2> QED  BY <2>1, <2>2, Constants DEF ClockExact
<1> QED  BY <1>1, <1>2, <1>3 DEF Command

\* The dots handed out since power-on and the dots the CPU has used plus its budget
\* agree modulo the width of the cycle counter, for ever: overshoot, interrupt
\* entries, resets and wraps of the counter lose or invent no dot.
THEOREM ClockNeverDrifts == Spec => []ClockExact
<1> DEFINE I == TypeOK /\ ClockExact
<1>1. Init => I
  <2>1. Init => 0 % CycleMod = 0 /\ TypeOK
    BY InitType, Constants
  <2> QED  BY <2>1 DEF Init, ClockExact
<1>2. I /\ [Next]_vars => I'
  <2> SUFFICES ASSUME I, [Next]_vars PROVE I'
    OBVIOUS
  <2>1. TypeOK'
    BY StepType
  <2>2. ClockExact'
    <3>1. CASE UNCHANGED vars
      BY <3>1 DEF ClockExact, vars, loopVars, history
    <3>2. CASE Next
      BY <3>2, ClockBoundary, ClockExecute, ClockBetween, ClockFrame DEF Next, Emulate
    <3> QED  BY <3>1, <3>2
  <2> QED  BY <2>1, <2>2
<1>3. I => ClockExact
  OBVIOUS
<1> QED  BY <1>1, <1>2, <1>3, PTL DEF Spec

-----------------------------------------------------------------------------
(* Quiet after a reset. *)

\* The two dead frames: completed, still to come, and the one being run.
Countdown == quiet + ppudead + (IF slice = "dead" THEN 1 ELSE 0) = 2

\* A frame with a vblank is run only when both are over.
NormalAfterTwo == slice \in Slices \ {"dead"} => quiet = 2

QuietInv == TypeOK /\ Countdown /\ NormalAfterTwo /\ QuietAfterReset

\* While the CPU runs, the slice and the dead frames stay, and an NMI is armed only
\* while the vblank flag is up.
LEMMA QuietCpu == QuietInv /\ (Boundary \/ Execute) => QuietInv'
<1> SUFFICES ASSUME QuietInv, Boundary \/ Execute PROVE QuietInv'
  OBVIOUS
<1>1. TypeOK'
  BY StepType DEF QuietInv, Next, Emulate
<1>2. UNCHANGED <<slice, quiet, ppudead>>
  BY DEF Boundary, ConvertNmi, TakeNmi, TakeIrq, NoInterrupt, history, Execute,
     PlainInstr, ArmsNmi, FlagInstr, ReturnInstr, BreakInstr, KilInstr, Instruction
<1>3. (vblank' \/ nmiState' # 0) => (vblank \/ nmiState # 0)
  <2>1. CASE Boundary
    BY <2>1 DEF Boundary, ConvertNmi, TakeNmi, TakeIrq, NoInterrupt, ppuVars, cpuVars
  <2>2. CASE Execute
    <3>1. CASE \E c \in Costs, r, first, second \in BOOLEAN : PlainInstr(c, r, first, second)
      BY <3>1 DEF PlainInstr, ArmsNmi, Instruction
    <3>2. CASE \E c \in Costs, i \in BOOLEAN : FlagInstr(c, i) \/ ReturnInstr(c, i)
      BY <3>2 DEF FlagInstr, ReturnInstr, Instruction
    <3>3. CASE (\E c \in Costs : BreakInstr(c)) \/ KilInstr
      BY <3>3 DEF BreakInstr, KilInstr, Instruction
    <3> QED  BY <2>2, <3>1, <3>2, <3>3 DEF Execute
  <2> QED  BY <2>1, <2>2
<1> QED  BY <1>1, <1>2, <1>3 DEF QuietInv, Countdown, NormalAfterTwo, QuietAfterReset

LEMMA QuietBetween == QuietInv /\ BetweenSlices => QuietInv'
<1> SUFFICES ASSUME QuietInv, BetweenSlices PROVE QuietInv'
  OBVIOUS
<1>1. TypeOK'
  BY StepType DEF QuietInv, Next, Emulate
<1>2. /\ slice \in Slices \ {"dead"} /\ slice' \in Slices \ {"dead"}
      /\ quiet' = quiet /\ ppudead' = ppudead
  BY SliceNames DEF BetweenSlices, RaiseVblank, VblankNmi, NoVblankNmi,
     EndVblank, PreRenderMiddle, FirstLine, BeginVisible, LineMiddle, NextLine, LineTail,
     Done, Run, loopKept, historyKept
<1> QED  BY <1>1, <1>2 DEF QuietInv, Countdown, NormalAfterTwo, QuietAfterReset

LEMMA QuietFrame == QuietInv /\ (EndFrame \/ StartFrame \/ Command) => QuietInv'
<1> SUFFICES ASSUME QuietInv, EndFrame \/ StartFrame \/ Command PROVE QuietInv'
  OBVIOUS
<1>1. TypeOK'
  BY StepType DEF QuietInv, Next, Emulate
<1> USE SliceNames DEF QuietInv, Countdown, NormalAfterTwo, QuietAfterReset
<1>2. CASE EndFrame
  BY <1>1, <1>2 DEF EndFrame, Done, TypeOK, cpuVars, ppuVars
<1>3. CASE StartFrame
  <2>1. UNCHANGED <<quiet, vblank, nmiState>> /\ slice = "idle"
    BY <1>3 DEF StartFrame, cpuVars, ppuVars, historyKept
  <2>2. CASE ppudead > 0
    BY <1>1, <1>3, <2>1, <2>2 DEF StartFrame, TypeOK
  <2>3. CASE ~(ppudead > 0)
    BY <1>1, <1>3, <2>1, <2>3 DEF StartFrame, TypeOK
  <2> QED  BY <2>2, <2>3
<1>4. CASE Command
  <2>1. Restart /\ DropNmi
    BY <1>4 DEF Command, MachineReset, MachinePower, Restart
  <2> QED  BY <1>1, <2>1 DEF Restart, DropNmi
<1> QED  BY <1>2, <1>3, <1>4

\* After a reset or power-on, also one during vblank or with an NMI armed, neither
\* the vblank flag nor an armed NMI shows before two whole frames have run.
THEOREM AlwaysQuietAfterReset == Spec => []QuietAfterReset
<1>1. Init => QuietInv
  BY InitType DEF Init, QuietInv, Countdown, NormalAfterTwo, QuietAfterReset, Slices
<1>2. QuietInv /\ [Next]_vars => QuietInv'
  <2> SUFFICES ASSUME QuietInv, [Next]_vars PROVE QuietInv'
    OBVIOUS
  <2>1. CASE UNCHANGED vars
    <3>1. TypeOK'
      BY <2>1, StutterType DEF QuietInv
    <3> QED  BY <2>1, <3>1 DEF QuietInv, Countdown, NormalAfterTwo, QuietAfterReset,
                vars, loopVars, cpuVars, ppuVars, history
  <2>2. CASE Next
    BY <2>2, QuietCpu, QuietBetween, QuietFrame DEF Next, Emulate
  <2> QED  BY <2>1, <2>2
<1>3. QuietInv => QuietAfterReset
  BY DEF QuietInv
<1> QED  BY <1>1, <1>2, <1>3, PTL DEF Spec

-----------------------------------------------------------------------------
(* When interrupts are taken. *)

\* Why the IRQ check sees I clear.
SeenClear ==
  ~iSeen => \/ lastOp = "instr" /\ ~iBefore
            \/ lastOp = "rti" /\ ~iFlag

LEMMA SeenClearStep == SeenClear /\ [Next]_vars => SeenClear'
<1> SUFFICES ASSUME SeenClear, [Next]_vars PROVE SeenClear'
  OBVIOUS
<1> USE DEF SeenClear
<1>1. CASE TakeNmi \/ TakeIrq \/ VblankNmi
  BY <1>1 DEF TakeNmi, TakeIrq, TakeInterrupt, VblankNmi, EnterHandler
<1>2. CASE ConvertNmi \/ NoInterrupt
  BY <1>2 DEF ConvertNmi, NoInterrupt, cpuVars, history
<1>3. CASE \E c \in Costs, r, first, second \in BOOLEAN : PlainInstr(c, r, first, second)
  BY <1>3 DEF PlainInstr, ArmsNmi, Instruction
<1>4. CASE \E c \in Costs, i \in BOOLEAN : FlagInstr(c, i) \/ ReturnInstr(c, i)
  BY <1>4 DEF FlagInstr, ReturnInstr, Instruction
<1>5. CASE (\E c \in Costs : BreakInstr(c)) \/ KilInstr
  BY <1>5 DEF BreakInstr, KilInstr, Instruction
<1>6. CASE BetweenSlices /\ ~VblankNmi
  BY <1>6 DEF BetweenSlices, RaiseVblank, NoVblankNmi, EndVblank, PreRenderMiddle,
     FirstLine, BeginVisible, LineMiddle, NextLine, LineTail, cpuVars, historyKept
<1>7. CASE EndFrame \/ StartFrame
  BY <1>7 DEF EndFrame, StartFrame, cpuVars, historyKept
<1>8. CASE Command
  BY <1>8 DEF Command, MachineReset, MachinePower, Restart
<1>9. CASE UNCHANGED vars
  BY <1>9 DEF vars, cpuVars, history
<1> QED  BY <1>1, <1>2, <1>3, <1>4, <1>5, <1>6, <1>7, <1>8, <1>9
         DEF Next, Emulate, Boundary, Execute

\* An IRQ is never taken on the strength of an I flag that CLI or PLP cleared in the
\* very last instruction, nor right after BRK, an interrupt entry or a reset.
THEOREM IrqNeverEarly == Spec => IrqLatency
<1>1. Init => SeenClear
  BY DEF Init, SeenClear
<1>2. SeenClear /\ [Next]_vars =>
        [TakeIrq => (lastOp = "instr" /\ ~iBefore) \/ (lastOp = "rti" /\ ~iFlag)]_vars
  BY DEF SeenClear, TakeIrq
<1>3. SeenClear /\ [Next]_vars => SeenClear'
  BY SeenClearStep
<1> QED  BY <1>1, <1>2, <1>3, PTL DEF Spec, IrqLatency

\* An armed NMI waits for the boundary; once due, it waits for one instruction
\* unless the CPU is jammed.
OneInstructionDue ==
  /\ nmiState = 1 => at = "check" /\ sinceArm = 0
  /\ nmiState = 2 /\ ~jammed => sinceArm = IF at = "exec" THEN 0 ELSE 1

LEMMA OneInstructionDueStep ==
  TypeOK /\ Awake /\ OneInstructionDue /\ [Next]_vars => OneInstructionDue'
<1> SUFFICES ASSUME TypeOK, Awake, OneInstructionDue, [Next]_vars PROVE OneInstructionDue'
  OBVIOUS
<1> USE DEF TypeOK, OneInstructionDue
<1>1. CASE ConvertNmi
  BY <1>1 DEF ConvertNmi, GoOnRunning, history
<1>2. CASE TakeNmi
  BY <1>2 DEF TakeNmi
<1>3. CASE TakeIrq
  BY <1>3 DEF TakeIrq
<1>4. CASE NoInterrupt
  BY <1>4 DEF NoInterrupt, cpuVars, history
<1>5. CASE \E c \in Costs, r, first, second \in BOOLEAN : PlainInstr(c, r, first, second)
  BY <1>5 DEF PlainInstr, ArmsNmi, Instruction
<1>6. CASE \E c \in Costs, i \in BOOLEAN : FlagInstr(c, i) \/ ReturnInstr(c, i)
  BY <1>6 DEF FlagInstr, ReturnInstr, Instruction
<1>7. CASE (\E c \in Costs : BreakInstr(c)) \/ KilInstr
  BY <1>7 DEF BreakInstr, KilInstr, Instruction
<1>8. CASE BetweenSlices
  <2>1. at = "check" /\ at' = "check" /\ UNCHANGED <<nmiState, jammed, sinceArm>>
    BY <1>8 DEF BetweenSlices, RaiseVblank, VblankNmi, NoVblankNmi, EndVblank,
       PreRenderMiddle, FirstLine, BeginVisible, LineMiddle, NextLine, LineTail,
       Done, Run, cpuVars, historyKept
  <2> QED  BY <2>1
<1>9. CASE EndFrame \/ StartFrame
  BY <1>9 DEF EndFrame, StartFrame, cpuVars, historyKept
<1>10. CASE Command
  BY <1>10 DEF Command, MachineReset, MachinePower, Restart, DropNmi
<1>11. CASE UNCHANGED vars
  BY <1>11 DEF vars, loopVars, cpuVars, history
<1> QED  BY <1>1, <1>2, <1>3, <1>4, <1>5, <1>6, <1>7, <1>8, <1>9, <1>10, <1>11
         DEF Next, Emulate, Boundary, Execute

\* The NMI armed by a $2000 write is taken after exactly one more instruction, at
\* whatever point of the frame the write was and however slices end in between.
THEOREM DelayedNmiExact == Spec => DelayedNmiAfterOne
<1> DEFINE I == DebtInv /\ OneInstructionDue
<1>1. Init => I
  BY InitType, Constants
     DEF Init, DebtInv, Awake, DebtBounded, OneInstructionDue
<1>2. I /\ [Next]_vars => I'
  BY DebtInvStep, OneInstructionDueStep DEF DebtInv
<1>3. I /\ [Next]_vars => [TakeNmi => sinceArm = 1]_vars
  BY DEF OneInstructionDue, TakeNmi, AtBoundary
<1> QED  BY <1>1, <1>2, <1>3, PTL DEF Spec, DelayedNmiAfterOne

-----------------------------------------------------------------------------
(* The refinement of BeamClock. *)

\* Dots of a frame before its visible lines, and before visible line n.
PictureStart == SliceDots["post"] + SliceDots["window"] + SliceDots["vbl"]
                + SliceDots["pre256"] + SliceDots["pre69"] + SliceDots["pre16"]
LineBase(n) == n * LineDots

\* Where the line being run starts, in a frame whose alternation has been flipped.
LineStart == PictureStart - (1 - kook) + LineBase(line)

\* The dot by which the frame is short: see FrameLoop's Beam.
ShortDots == IF slice \in {"l256", "l6", "l63", "l16"} THEN 1 - kook ELSE kook

\* Where the beam is at the end of the slice handed out.
BeamPlace ==
  /\ slice = "dead" => frameDots = FullFrame
  /\ slice = "post" => frameDots = SliceDots["post"]
  /\ slice = "window" => frameDots = SliceDots["post"] + SliceDots["window"]
  /\ slice = "vbl" => frameDots = SliceDots["post"] + SliceDots["window"] + SliceDots["vbl"]
  /\ slice = "pre256" => frameDots = PictureStart - SliceDots["pre16"] - SliceDots["pre69"]
  /\ slice = "pre69" => frameDots = PictureStart - SliceDots["pre16"]
  /\ slice = "pre16" => frameDots = PictureStart - kook /\ line = 0
  /\ slice = "l256" => frameDots = LineStart + SliceDots["l256"]
  /\ slice = "l6" => frameDots = LineStart + SliceDots["l256"] + SliceDots["l6"]
  /\ slice = "l63" => frameDots = LineStart + LineDots - SliceDots["l16"]
  /\ slice = "l16" => frameDots = LineStart + LineDots

\* The slices in which the two flags are up.
FlagPlace ==
  /\ vblank => slice \in {"window", "vbl"}
  /\ visScanline <=> slice \in {"l256", "l6", "l63"} \/ (slice = "l16" /\ line + 1 < Lines)

BeamInv == DebtInv /\ BeamPlace /\ FlagPlace

\* The lines of a frame, one after the other, fill the picture exactly.
LEMMA PictureDots ==
  /\ LineDots \in Nat /\ PictureStart \in Nat
  /\ FullFrame = PictureStart + LineBase(Lines)
  /\ LineBase(0) = 0 /\ LineBase(Lines) \in Nat
  /\ \A n \in 0..(Lines - 1) : /\ LineBase(n) \in Nat
                               /\ LineBase(n + 1) = LineBase(n) + LineDots
                               /\ LineBase(n + 1) <= LineBase(Lines)
<1>1. \A s \in Slices : SliceDots[s] \in Nat
  BY Constants
<1>2. LineDots \in Nat /\ PictureStart \in Nat
  BY <1>1, SliceNames DEF LineDots, PictureStart
<1>3. FullFrame = PictureStart + LineBase(Lines)
  BY DEF FullFrame, PictureStart, LineBase
<1> DEFINE d == LineDots
<1> HIDE DEF d
<1>4. d \in Nat /\ Lines \in Nat
  BY <1>2, Constants DEF d
<1>5. 0 * d = 0
  BY <1>4
<1>6. \A n \in Nat : n * d \in Nat /\ (n + 1) * d = n * d + d
  BY <1>4
<1>7. \A n \in Nat : n + 1 <= Lines => (n + 1) * d <= Lines * d
  BY <1>4
<1> QED  BY <1>2, <1>3, <1>5, <1>6, <1>7, Constants DEF LineBase, d

\* A run_ppu() call that stays inside the frame is a step of the abstract beam.
LEMMA RunMoves ==
  ASSUME TypeOK, NEW s \in Slices \ {"dead"}, NEW c \in {0, EntryDots},
         slice \in Slices \ {"dead"}, ~Behind, Run(s, c),
         ShortDots' = ShortDots, ppudead' = ppudead,
         frameDots' <= FullFrame - ShortDots,
         vblank' \in BOOLEAN, visScanline' \in BOOLEAN,
         vblank' <=> /\ SliceDots["post"] < frameDots'
                     /\ frameDots' <= SliceDots["post"] + SliceDots["window"] + SliceDots["vbl"]
                     /\ (vblank \/ frameDots <= SliceDots["post"]),
         visScanline' <=> /\ FullFrame - ShortDots - LineBase(Lines) < frameDots'
                          /\ frameDots' <= FullFrame - ShortDots - SliceDots["l16"]
  PROVE  Beam!Move
<1>1. Width(s) \in Nat \ {0}
  BY WidthPositive
<1>2. FullFrame \in Nat /\ LineBase(Lines) \in Nat /\ SliceDots["l16"] \in Nat
  BY PictureDots, Constants, SliceNames
<1>3. /\ frameDots' = frameDots + Width(s) /\ budget' = budget - c + Width(s)
      /\ slice' = s
  BY DEF Run
<1>4. frameDots \in Nat /\ budget \in Int /\ c \in Int
  BY DEF TypeOK, EntryDots, EntryCost
<1>5. /\ slice # "idle" /\ slice # "dead" /\ slice' # "idle" /\ slice' # "dead"
  BY <1>3, SliceNames
<1>6. ShortDots \in {0, 1}
  BY DEF ShortDots, TypeOK
<1>7. Beam!Length = FullFrame - ShortDots
  BY <1>5 DEF Beam!Length, ShortDots
<1>8. frameDots' \in (frameDots + 1)..(FullFrame - ShortDots)
  BY <1>1, <1>2, <1>3, <1>4, <1>6
<1>9. budget' = budget - c + (frameDots' - frameDots)
  BY <1>1, <1>3, <1>4
<1>10. budget <= 0
  BY <1>4 DEF Behind
<1>11. vblank' = (Beam!InVblank(frameDots') /\ (vblank \/ frameDots <= SliceDots["post"]))
  BY <1>5 DEF Beam!InVblank
<1>12. visScanline' = Beam!InPicture(frameDots')
  BY <1>5, <1>7 DEF Beam!InPicture, LineBase
<1>13. UNCHANGED <<slice # "idle", ShortDots, ppudead, slice = "dead">>
  BY <1>5
<1> QED  BY <1>5, <1>7, <1>8, <1>9, <1>10, <1>11, <1>12, <1>13
         DEF Beam!Move, ShortDots
\* What the CPU does, at a boundary or in an instruction, is the abstract beam's
\* work or no step of it at all.
LEMMA CpuWorks ==
  BeamInv /\ (Boundary \/ Execute) =>
    /\ Beam!Work \/ UNCHANGED Beam!beamVars
    /\ UNCHANGED <<slice, line, kook, frameDots, visScanline>>
    /\ vblank' \in {vblank, FALSE}
<1> SUFFICES ASSUME BeamInv, Boundary \/ Execute
             PROVE  /\ Beam!Work \/ UNCHANGED Beam!beamVars
                    /\ UNCHANGED <<slice, line, kook, frameDots, visScanline>>
                    /\ vblank' \in {vblank, FALSE}
  OBVIOUS
<1>1. CASE ConvertNmi \/ NoInterrupt
  BY <1>1 DEF ConvertNmi, NoInterrupt, cpuVars, ppuVars, history, Beam!beamVars
<1>2. CASE TakeNmi \/ TakeIrq \/ Execute
  <2>1. \E c \in 1..MaxCost : Charge(c)
    <3>1. CASE TakeNmi \/ TakeIrq
      BY <3>1, Constants DEF TakeNmi, TakeIrq, TakeInterrupt, EntryCost
    <3>2. CASE \E c \in Costs, r, first, second \in BOOLEAN : PlainInstr(c, r, first, second)
      BY <3>2, Constants DEF PlainInstr, Instruction
    <3>3. CASE \E c \in Costs, i \in BOOLEAN : FlagInstr(c, i) \/ ReturnInstr(c, i)
      BY <3>3, Constants DEF FlagInstr, ReturnInstr, Instruction
    <3>4. CASE \E c \in Costs : BreakInstr(c)
      BY <3>4, Constants DEF BreakInstr, Instruction
    <3>5. CASE KilInstr
      BY <3>5, Constants DEF KilInstr, KilCycles, Instruction
    <3> QED  BY <1>2, <3>1, <3>2, <3>3, <3>4, <3>5 DEF Execute
  <2>2. UNCHANGED <<slice, line, kook, ppudead, frameDots, visScanline>>
    BY <1>2 DEF TakeNmi, TakeIrq, ppuVars, Execute, PlainInstr, FlagInstr, ReturnInstr,
       BreakInstr, KilInstr, Instruction
  <2>3. vblank' \in {vblank, FALSE}
    <3>1. CASE \E c \in Costs, r, first, second \in BOOLEAN : PlainInstr(c, r, first, second)
      BY <3>1 DEF PlainInstr, BeamInv, DebtInv, TypeOK
    <3>2. CASE \/ TakeNmi \/ TakeIrq \/ KilInstr
               \/ \E c \in Costs, i \in BOOLEAN : FlagInstr(c, i) \/ ReturnInstr(c, i)
               \/ \E c \in Costs : BreakInstr(c)
      BY <3>2 DEF TakeNmi, TakeIrq, ppuVars, FlagInstr, ReturnInstr, BreakInstr, KilInstr
    <3> QED  BY <1>2, <3>1, <3>2 DEF Execute
  <2>4. slice # "idle" /\ budget > 0
    BY <1>2 DEF BeamInv, DebtInv, Awake, TakeNmi, TakeIrq, AtBoundary, Behind,
       Execute, PlainInstr, FlagInstr, ReturnInstr, BreakInstr, KilInstr, Instruction
  <2>5. \E c \in 1..MaxCost : budget' = budget - 3 * c
    BY <2>1 DEF Charge
  <2> QED  BY <2>2, <2>3, <2>4, <2>5 DEF Beam!Work
<1> QED  BY <1>1, <1>2 DEF Boundary

LEMMA BeamInvCpu == BeamInv /\ (Boundary \/ Execute) => BeamInv'
<1> SUFFICES ASSUME BeamInv, Boundary \/ Execute PROVE BeamInv'
  OBVIOUS
<1>1. DebtInv'
  BY DebtInvStep DEF BeamInv, Next, Emulate
<1>2. UNCHANGED <<slice, line, kook, frameDots, visScanline>> /\ vblank' \in {vblank, FALSE}
  BY CpuWorks
<1>3. LineStart' = LineStart
  BY <1>2 DEF LineStart, LineBase
<1>4. BeamPlace'
  BY <1>2, <1>3 DEF BeamInv, BeamPlace
<1>5. FlagPlace'
  <2>1. vblank' => vblank
    BY <1>2
  <2>2. slice' = slice /\ line' = line /\ visScanline' = visScanline
    BY <1>2
  <2> QED  BY <2>1, <2>2, Zenon DEF BeamInv, FlagPlace
<1> QED  BY <1>1, <1>4, <1>5 DEF BeamInv
\* What the arithmetic of a frame rests on: the widths, the lines, the place of the beam.
LEMMA FrameArithmetic ==
  ASSUME BeamInv
  PROVE  /\ SliceDots["post"] \in Nat \ {0} /\ SliceDots["window"] \in Nat \ {0}
         /\ SliceDots["vbl"] \in Nat \ {0} /\ SliceDots["pre256"] \in Nat \ {0}
         /\ SliceDots["pre69"] \in Nat \ {0} /\ SliceDots["l256"] \in Nat \ {0}
         /\ SliceDots["l6"] \in Nat \ {0} /\ SliceDots["l63"] \in Nat \ {0}
         /\ SliceDots["l16"] \in Nat \ {0}
         /\ SliceDots["pre16"] \in Nat /\ SliceDots["pre16"] > 1
         /\ LineDots = SliceDots["l256"] + SliceDots["l6"] + SliceDots["l63"] + SliceDots["l16"]
         /\ PictureStart = SliceDots["post"] + SliceDots["window"] + SliceDots["vbl"]
                           + SliceDots["pre256"] + SliceDots["pre69"] + SliceDots["pre16"]
         /\ FullFrame = PictureStart + LineBase(Lines)
         /\ LineBase(0) = 0 /\ LineBase(line) \in Nat /\ LineBase(Lines) \in Nat
         /\ LineBase(line + 1) = LineBase(line) + LineDots
         /\ LineBase(line + 1) <= LineBase(Lines)
         /\ kook \in {0, 1} /\ frameDots \in Nat
         /\ line \in 0..(Lines - 1) /\ Lines \in Nat
         /\ Width("pre16") = SliceDots["pre16"] - kook
         /\ \A s \in Slices \ {"pre16"} : Width(s) = SliceDots[s]
<1>1. line \in 0..(Lines - 1) /\ kook \in {0, 1} /\ frameDots \in Nat
  BY DEF BeamInv, DebtInv, TypeOK
<1>2. \A s \in Slices : SliceDots[s] \in Nat \ {0}
  BY Constants
<1>3. /\ SliceDots["post"] \in Nat \ {0} /\ SliceDots["window"] \in Nat \ {0}
      /\ SliceDots["vbl"] \in Nat \ {0} /\ SliceDots["pre256"] \in Nat \ {0}
      /\ SliceDots["pre69"] \in Nat \ {0} /\ SliceDots["l256"] \in Nat \ {0}
      /\ SliceDots["l6"] \in Nat \ {0} /\ SliceDots["l63"] \in Nat \ {0}
      /\ SliceDots["l16"] \in Nat \ {0} /\ SliceDots["pre16"] \in Nat
  BY <1>2 DEF Slices
<1>4. SliceDots["pre16"] > 1 /\ Lines \in Nat
  BY Constants
<1>5. /\ FullFrame = PictureStart + LineBase(Lines)
      /\ LineBase(0) = 0 /\ LineBase(line) \in Nat /\ LineBase(Lines) \in Nat
      /\ LineBase(line + 1) = LineBase(line) + LineDots
      /\ LineBase(line + 1) <= LineBase(Lines)
  BY <1>1, PictureDots
<1> QED  BY <1>1, <1>3, <1>4, <1>5 DEF LineDots, PictureStart, Width

LEMMA BeamBlank ==
  BeamInv /\ (RaiseVblank \/ VblankNmi \/ NoVblankNmi \/ EndVblank)
    => Beam!Move /\ BeamPlace' /\ FlagPlace'
<1> SUFFICES ASSUME BeamInv, RaiseVblank \/ VblankNmi \/ NoVblankNmi \/ EndVblank
             PROVE  Beam!Move /\ BeamPlace' /\ FlagPlace'
  OBVIOUS
<1> USE SliceNames
<1>0. TypeOK
  BY DEF BeamInv, DebtInv
<1>1. CASE RaiseVblank
  <2>1. /\ slice = "post" /\ ~Behind /\ Run("window", 0)
        /\ kook' = kook /\ ppudead' = ppudead /\ vblank' = TRUE /\ visScanline' = visScanline
    BY <1>1 DEF RaiseVblank, Done, loopKept
  <2>2. /\ slice' = "window" /\ frameDots = SliceDots["post"]
        /\ frameDots' = SliceDots["post"] + SliceDots["window"] /\ ~visScanline
    BY <2>1, FrameArithmetic DEF Run, BeamInv, BeamPlace, FlagPlace
  <2>3. BeamPlace'
    BY <2>2 DEF BeamPlace
  <2>4. FlagPlace'
    BY <2>1, <2>2 DEF FlagPlace
  <2> QED  BY <1>0, <2>1, <2>2, <2>3, <2>4, RunMoves, FrameArithmetic DEF ShortDots, TypeOK
<1>2. CASE VblankNmi \/ NoVblankNmi
  <2>1. PICK c \in {0, EntryDots} :
          /\ slice = "window" /\ ~Behind /\ Run("vbl", c)
          /\ kook' = kook /\ ppudead' = ppudead
          /\ vblank' = vblank /\ visScanline' = visScanline
    BY <1>2 DEF VblankNmi, NoVblankNmi, VblankNmiCharge, Done, loopKept, ppuVars
  <2>2. /\ slice' = "vbl" /\ frameDots = SliceDots["post"] + SliceDots["window"]
        /\ frameDots' = SliceDots["post"] + SliceDots["window"] + SliceDots["vbl"]
        /\ ~visScanline
    BY <2>1, FrameArithmetic DEF Run, BeamInv, BeamPlace, FlagPlace
  <2>3. BeamPlace'
    BY <2>2 DEF BeamPlace
  <2>4. FlagPlace'
    BY <2>1, <2>2 DEF FlagPlace
  <2> QED  BY <1>0, <2>1, <2>2, <2>3, <2>4, RunMoves, FrameArithmetic DEF ShortDots, TypeOK
<1>3. CASE EndVblank
  <2>1. /\ slice = "vbl" /\ ~Behind /\ Run("pre256", 0)
        /\ kook' = kook /\ ppudead' = ppudead /\ vblank' = FALSE /\ visScanline' = visScanline
    BY <1>3 DEF EndVblank, ClearVblank, Done, loopKept
  <2>2. /\ slice' = "pre256"
        /\ frameDots = SliceDots["post"] + SliceDots["window"] + SliceDots["vbl"]
        /\ frameDots' = frameDots + SliceDots["pre256"]
        /\ frameDots' = PictureStart - SliceDots["pre16"] - SliceDots["pre69"]
        /\ ~visScanline
    BY <2>1, FrameArithmetic DEF Run, BeamInv, BeamPlace, FlagPlace
  <2>3. BeamPlace'
    BY <2>2 DEF BeamPlace
  <2>4. FlagPlace'
    BY <2>1, <2>2 DEF FlagPlace
  <2>5. ShortDots = kook /\ ShortDots' = kook
    BY <2>1, <2>2 DEF ShortDots
  <2>6. /\ frameDots' \in Nat /\ frameDots' <= FullFrame - ShortDots
        /\ frameDots' > SliceDots["post"] + SliceDots["window"] + SliceDots["vbl"]
        /\ frameDots' <= FullFrame - ShortDots - LineBase(Lines)
    BY <2>2, <2>5, FrameArithmetic
  <2>7. /\ vblank' \in BOOLEAN /\ visScanline' \in BOOLEAN
        /\ slice \in Slices \ {"dead"}
        /\ vblank' <=> /\ SliceDots["post"] < frameDots'
                       /\ frameDots' <= SliceDots["post"] + SliceDots["window"] + SliceDots["vbl"]
                       /\ (vblank \/ frameDots <= SliceDots["post"])
        /\ visScanline' <=> /\ FullFrame - ShortDots - LineBase(Lines) < frameDots'
                            /\ frameDots' <= FullFrame - ShortDots - SliceDots["l16"]
    <3>1. vblank \in BOOLEAN /\ visScanline \in BOOLEAN
      BY <1>0 DEF TypeOK
    <3>2. ~vblank' /\ ~visScanline' /\ vblank' \in BOOLEAN /\ visScanline' \in BOOLEAN
      BY <2>1, <2>2, <3>1
    <3> QED  BY <2>1, <2>2, <2>5, <2>6, <3>2, FrameArithmetic
  <2> QED  BY <1>0, <2>1, <2>3, <2>4, <2>5, <2>6, <2>7, RunMoves
<1> QED  BY <1>1, <1>2, <1>3

LEMMA BeamPreRender ==
  BeamInv /\ (PreRenderMiddle \/ FirstLine \/ BeginVisible)
    => Beam!Move /\ BeamPlace' /\ FlagPlace'
<1> SUFFICES ASSUME BeamInv, PreRenderMiddle \/ FirstLine \/ BeginVisible
             PROVE  Beam!Move /\ BeamPlace' /\ FlagPlace'
  OBVIOUS
<1> USE SliceNames
<1>0. TypeOK
  BY DEF BeamInv, DebtInv
<1>1. CASE PreRenderMiddle
  <2>1. /\ slice = "pre256" /\ ~Behind /\ Run("pre69", 0)
        /\ kook' = kook /\ ppudead' = ppudead /\ vblank' = vblank /\ visScanline' = visScanline
    BY <1>1 DEF PreRenderMiddle, Done, loopKept, ppuVars
  <2>2. /\ slice' = "pre69" /\ frameDots = PictureStart - SliceDots["pre16"] - SliceDots["pre69"]
        /\ frameDots' = PictureStart - SliceDots["pre16"]
        /\ ~visScanline /\ ~vblank
    BY <2>1, FrameArithmetic DEF Run, BeamInv, BeamPlace, FlagPlace
  <2>3. BeamPlace'
    BY <2>2 DEF BeamPlace
  <2>4. FlagPlace'
    BY <2>1, <2>2 DEF FlagPlace
  <2> QED  BY <1>0, <2>1, <2>2, <2>3, <2>4, RunMoves, FrameArithmetic DEF ShortDots, TypeOK
<1>2. CASE FirstLine
  <2>1. /\ slice = "pre69" /\ ~Behind /\ Run("pre16", 0) /\ line' = 0
        /\ kook' = kook /\ ppudead' = ppudead /\ vblank' = vblank /\ visScanline' = visScanline
    BY <1>2 DEF FirstLine, Done
  <2>2. /\ slice' = "pre16" /\ frameDots = PictureStart - SliceDots["pre16"]
        /\ frameDots' = PictureStart - kook
        /\ ~visScanline /\ ~vblank
    BY <2>1, FrameArithmetic DEF Run, BeamInv, BeamPlace, FlagPlace
  <2>3. BeamPlace'
    BY <2>1, <2>2 DEF BeamPlace
  <2>4. FlagPlace'
    BY <2>1, <2>2 DEF FlagPlace
  <2> QED  BY <1>0, <2>1, <2>2, <2>3, <2>4, RunMoves, FrameArithmetic DEF ShortDots, TypeOK
<1>3. CASE BeginVisible
  <2>1. /\ slice = "pre16" /\ ~Behind /\ Run("l256", 0) /\ line' = line
        /\ kook' = 1 - kook /\ ppudead' = ppudead /\ vblank' = vblank /\ visScanline' = TRUE
    BY <1>3 DEF BeginVisible, FlipKook, Done
  <2>2. /\ slice' = "l256" /\ frameDots = PictureStart - kook /\ line = 0
        /\ frameDots' = PictureStart - kook + SliceDots["l256"] /\ ~vblank
    BY <2>1, FrameArithmetic DEF Run, BeamInv, BeamPlace, FlagPlace
  <2>3. LineStart' = PictureStart - kook
    BY <2>1, <2>2, FrameArithmetic DEF LineStart
  <2>4. BeamPlace'
    BY <2>2, <2>3 DEF BeamPlace
  <2>5. FlagPlace'
    BY <2>1, <2>2 DEF FlagPlace
  <2>6. ShortDots = kook /\ ShortDots' = kook
    BY <2>1, <2>2, FrameArithmetic DEF ShortDots
  <2> QED  BY <1>0, <2>1, <2>2, <2>4, <2>5, <2>6, RunMoves, FrameArithmetic DEF TypeOK
<1> QED  BY <1>1, <1>2, <1>3

LEMMA BeamLine ==
  BeamInv /\ (LineMiddle \/ NextLine \/ LineTail)
    => Beam!Move /\ BeamPlace' /\ FlagPlace'
<1> SUFFICES ASSUME BeamInv, LineMiddle \/ NextLine \/ LineTail
             PROVE  Beam!Move /\ BeamPlace' /\ FlagPlace'
  OBVIOUS
<1> USE SliceNames
<1>0. TypeOK
  BY DEF BeamInv, DebtInv
<1>1. CASE LineMiddle
  <2>1. /\ \/ slice = "l256" /\ Run("l6", 0)
           \/ slice = "l6" /\ Run("l63", 0)
        /\ ~Behind /\ line' = line
        /\ kook' = kook /\ ppudead' = ppudead /\ vblank' = vblank /\ visScanline' = visScanline
    BY <1>1 DEF LineMiddle, Done, loopKept, ppuVars
  <2>2. LineStart' = LineStart /\ LineStart = PictureStart - (1 - kook) + LineBase(line)
    BY <2>1 DEF LineStart
  <2>3. /\ slice' = "l6" \/ slice' = "l63"
        /\ slice' = "l6" => frameDots' = LineStart + SliceDots["l256"] + SliceDots["l6"]
        /\ slice' = "l63" => frameDots' = LineStart + LineDots - SliceDots["l16"]
        /\ frameDots' > frameDots /\ frameDots >= LineStart
        /\ visScanline /\ ~vblank
    BY <2>1, <2>2, FrameArithmetic DEF Run, BeamInv, BeamPlace, FlagPlace
  <2>4. BeamPlace'
    BY <2>2, <2>3 DEF BeamPlace
  <2>5. FlagPlace'
    BY <2>1, <2>3 DEF FlagPlace
  <2>6. ShortDots = 1 - kook /\ ShortDots' = 1 - kook
    BY <2>1, <2>3 DEF ShortDots
  <2>7. /\ frameDots' \in Nat /\ frameDots' <= FullFrame - ShortDots
        /\ frameDots' > SliceDots["post"] + SliceDots["window"] + SliceDots["vbl"]
        /\ FullFrame - ShortDots - LineBase(Lines) < frameDots'
        /\ frameDots' <= FullFrame - ShortDots - SliceDots["l16"]
    BY <2>2, <2>3, <2>6, FrameArithmetic
  <2>8. /\ vblank' \in BOOLEAN /\ visScanline' \in BOOLEAN
        /\ slice \in Slices \ {"dead"}
        /\ vblank' <=> /\ SliceDots["post"] < frameDots'
                       /\ frameDots' <= SliceDots["post"] + SliceDots["window"] + SliceDots["vbl"]
                       /\ (vblank \/ frameDots <= SliceDots["post"])
        /\ visScanline' <=> /\ FullFrame - ShortDots - LineBase(Lines) < frameDots'
                            /\ frameDots' <= FullFrame - ShortDots - SliceDots["l16"]
    <3>1. vblank \in BOOLEAN /\ visScanline \in BOOLEAN
      BY <1>0 DEF TypeOK
    <3>2. ~vblank' /\ visScanline' /\ vblank' \in BOOLEAN /\ visScanline' \in BOOLEAN
      BY <2>1, <2>3, <3>1
    <3> QED  BY <2>1, <2>3, <2>7, <3>2, FrameArithmetic
  <2> QED  BY <1>0, <2>1, <2>4, <2>5, <2>6, <2>7, <2>8, RunMoves
<1>2. CASE NextLine
  <2>1. /\ slice = "l63" /\ ~Behind /\ Run("l16", 0) /\ line' = line
        /\ kook' = kook /\ ppudead' = ppudead /\ vblank' = vblank
        /\ visScanline' \in BOOLEAN /\ (visScanline' <=> line + 1 < Lines)
    <3>1. visScanline' = (line + 1 < Lines)
      BY <1>2 DEF NextLine
    <3> DEFINE more == line + 1 < Lines
    <3>2. more \in BOOLEAN /\ visScanline' = more
      BY <3>1
    <3> HIDE DEF more
    <3>3. visScanline' \in BOOLEAN /\ (visScanline' <=> more)
      BY <3>2
    <3> QED  BY <1>2, <3>3 DEF NextLine, Done, more, loopKept
  <2>2. LineStart' = LineStart /\ LineStart = PictureStart - (1 - kook) + LineBase(line)
    BY <2>1 DEF LineStart
  <2>3. /\ slice' = "l16" /\ frameDots = LineStart + LineDots - SliceDots["l16"]
        /\ frameDots' = LineStart + LineDots /\ ~vblank
    BY <2>1, <2>2, FrameArithmetic DEF Run, BeamInv, BeamPlace, FlagPlace
  <2>4. BeamPlace'
    BY <2>2, <2>3 DEF BeamPlace
  <2>5. FlagPlace'
    BY <2>1, <2>3 DEF FlagPlace
  <2>6. ShortDots = 1 - kook /\ ShortDots' = 1 - kook
    BY <2>1, <2>3 DEF ShortDots
  <2>7. line + 1 < Lines => LineBase(line + 1) + LineDots <= LineBase(Lines)
    BY PictureDots, FrameArithmetic
  <2>8. line + 1 >= Lines => LineBase(line + 1) = LineBase(Lines)
    BY FrameArithmetic
  <2>9. /\ frameDots' <= FullFrame - ShortDots
        /\ frameDots' > SliceDots["post"] + SliceDots["window"] + SliceDots["vbl"]
        /\ FullFrame - ShortDots - LineBase(Lines) < frameDots'
        /\ (line + 1 < Lines) <=> frameDots' <= FullFrame - ShortDots - SliceDots["l16"]
    BY <2>2, <2>3, <2>6, <2>7, <2>8, FrameArithmetic
  <2>10. /\ vblank' \in BOOLEAN /\ visScanline' \in BOOLEAN
         /\ slice \in Slices \ {"dead"}
         /\ vblank' <=> /\ SliceDots["post"] < frameDots'
                        /\ frameDots' <= SliceDots["post"] + SliceDots["window"] + SliceDots["vbl"]
                        /\ (vblank \/ frameDots <= SliceDots["post"])
         /\ visScanline' <=> /\ FullFrame - ShortDots - LineBase(Lines) < frameDots'
                             /\ frameDots' <= FullFrame - ShortDots - SliceDots["l16"]
    BY <1>0, <2>1, <2>3, <2>9, FrameArithmetic DEF TypeOK
  <2> QED  BY <1>0, <2>1, <2>4, <2>5, <2>6, <2>9, <2>10, RunMoves
<1>3. CASE LineTail
  <2>1. /\ slice = "l16" /\ ~Behind /\ Run("l256", 0) /\ line' = line + 1 /\ line + 1 < Lines
        /\ kook' = kook /\ ppudead' = ppudead /\ vblank' = vblank /\ visScanline' = visScanline
    BY <1>3 DEF LineTail, Done, ppuVars
  <2>2. /\ LineStart = PictureStart - (1 - kook) + LineBase(line)
        /\ LineStart' = LineStart + LineDots
    BY <2>1, FrameArithmetic, PictureDots DEF LineStart
  <2>3. /\ slice' = "l256" /\ frameDots = LineStart + LineDots
        /\ frameDots' = LineStart + LineDots + SliceDots["l256"]
        /\ visScanline /\ ~vblank
    BY <2>1, <2>2, FrameArithmetic DEF Run, BeamInv, BeamPlace, FlagPlace
  <2>4. BeamPlace'
    BY <2>2, <2>3 DEF BeamPlace
  <2>5. FlagPlace'
    BY <2>1, <2>3 DEF FlagPlace
  <2>6. ShortDots = 1 - kook /\ ShortDots' = 1 - kook
    BY <2>1, <2>3 DEF ShortDots
  <2>7. LineBase(line + 1) + LineDots <= LineBase(Lines)
    BY <2>1, PictureDots, FrameArithmetic
  <2>8. /\ frameDots' <= FullFrame - ShortDots
        /\ frameDots' > SliceDots["post"] + SliceDots["window"] + SliceDots["vbl"]
        /\ FullFrame - ShortDots - LineBase(Lines) < frameDots'
        /\ frameDots' <= FullFrame - ShortDots - SliceDots["l16"]
    BY <2>2, <2>3, <2>6, <2>7, FrameArithmetic
  <2>9. /\ vblank' \in BOOLEAN /\ visScanline' \in BOOLEAN
        /\ slice \in Slices \ {"dead"}
        /\ vblank' <=> /\ SliceDots["post"] < frameDots'
                       /\ frameDots' <= SliceDots["post"] + SliceDots["window"] + SliceDots["vbl"]
                       /\ (vblank \/ frameDots <= SliceDots["post"])
        /\ visScanline' <=> /\ FullFrame - ShortDots - LineBase(Lines) < frameDots'
                            /\ frameDots' <= FullFrame - ShortDots - SliceDots["l16"]
    BY <1>0, <2>1, <2>3, <2>8, FrameArithmetic DEF TypeOK
  <2> QED  BY <1>0, <2>1, <2>4, <2>5, <2>6, <2>8, <2>9, RunMoves
<1> QED  BY <1>1, <1>2, <1>3

LEMMA BeamEnd == BeamInv /\ EndFrame => Beam!Finish /\ BeamPlace' /\ FlagPlace'
<1> SUFFICES ASSUME BeamInv, EndFrame PROVE Beam!Finish /\ BeamPlace' /\ FlagPlace'
  OBVIOUS
<1>1. /\ slice' = "idle" /\ slice \in {"l16", "dead"} /\ ~Behind
      /\ slice = "l16" => line + 1 = Lines
      /\ UNCHANGED <<budget, kook, ppudead, vblank, visScanline, frameDots>>
  BY DEF EndFrame, Done, cpuVars, ppuVars
<1>2. /\ slice = "l16" => frameDots = LineStart + LineDots
      /\ slice = "dead" => frameDots = FullFrame
      /\ ~vblank /\ ~visScanline
  BY <1>1, FrameArithmetic DEF BeamInv, BeamPlace, FlagPlace
<1>3. Beam!Length = frameDots
  <2>1. CASE slice = "l16"
    BY <1>1, <1>2, <2>1, FrameArithmetic DEF Beam!Length, LineStart
  <2>2. CASE slice = "dead"
    BY <1>2, <2>2 DEF Beam!Length
  <2> QED  BY <1>1, <2>1, <2>2
<1>4. budget <= 0
  BY <1>1 DEF Behind, BeamInv, DebtInv, TypeOK
<1>5. ShortDots' = IF slice = "dead" THEN ShortDots ELSE 1 - ShortDots
  <2>1. ShortDots' = kook
    BY <1>1 DEF ShortDots
  <2>2. CASE slice = "l16"
    BY <2>1, <2>2, FrameArithmetic DEF ShortDots
  <2>3. CASE slice = "dead"
    BY <2>1, <2>3 DEF ShortDots
  <2> QED  BY <1>1, <2>2, <2>3
<1>6. Beam!Finish
  BY <1>1, <1>3, <1>4, <1>5 DEF Beam!Finish, ShortDots
<1>7. BeamPlace'
  BY <1>1 DEF BeamPlace
<1>8. FlagPlace'
  BY <1>1, <1>2 DEF FlagPlace
<1> QED  BY <1>6, <1>7, <1>8

LEMMA BeamStart == BeamInv /\ StartFrame => Beam!Start /\ BeamPlace' /\ FlagPlace'
<1> SUFFICES ASSUME BeamInv, StartFrame PROVE Beam!Start /\ BeamPlace' /\ FlagPlace'
  OBVIOUS
<1>1. /\ slice = "idle" /\ slice' = IF ppudead > 0 THEN "dead" ELSE "post"
      /\ budget' = budget + Width(slice') /\ frameDots' = Width(slice')
      /\ ppudead' = IF ppudead > 0 THEN ppudead - 1 ELSE 0
      /\ UNCHANGED <<kook, vblank, visScanline>>
  BY DEF StartFrame, cpuVars, ppuVars
<1>2. slice' = "dead" => Width(slice') = FullFrame
  BY SliceNames, SliceAssumption DEF Width
<1>3. slice' = "post" => Width(slice') = SliceDots["post"]
  BY DEF Width
<1>4. /\ FullFrame \in Nat \ {0}
      /\ SliceDots["post"] \in 1..FullFrame
  BY FrameArithmetic
<1>5. Width(slice') \in 1..FullFrame
  BY <1>1, <1>2, <1>3, <1>4
<1>6. ~vblank /\ ~visScanline
  BY <1>1 DEF BeamInv, FlagPlace
<1>7. BeamPlace'
  BY <1>1, <1>2, <1>3 DEF BeamPlace
<1>8. FlagPlace'
  BY <1>1, <1>6 DEF FlagPlace
<1>9. ShortDots' = ShortDots
  BY <1>1 DEF ShortDots
<1>10. ppudead \in 0..2
  BY DEF BeamInv, DebtInv, TypeOK
<1>11. (slice' = "dead") = (ppudead > 0)
  BY <1>1
<1>12. Beam!Start
  BY <1>1, <1>5, <1>9, <1>11 DEF Beam!Start, ShortDots
<1> QED  BY <1>7, <1>8, <1>12

LEMMA BeamReset == BeamInv /\ Command => Beam!Reset /\ BeamPlace' /\ FlagPlace'
<1> SUFFICES ASSUME BeamInv, Command PROVE Beam!Reset /\ BeamPlace' /\ FlagPlace'
  OBVIOUS
<1>1. /\ slice = "idle" /\ slice' = "idle" /\ kook' = 0 /\ ppudead' = 2
      /\ vblank' = FALSE /\ UNCHANGED <<visScanline, frameDots>>
      /\ budget' \in {budget, 0}
  BY DEF Command, MachineReset, MachinePower, Restart
<1>2. vblank \in BOOLEAN /\ ~vblank /\ ~visScanline
  BY <1>1 DEF BeamInv, FlagPlace, DebtInv, TypeOK
<1>3. Beam!Reset
  BY <1>1, <1>2 DEF Beam!Reset
<1>4. BeamPlace' /\ FlagPlace'
  BY <1>1, <1>2 DEF BeamPlace, FlagPlace
<1> QED  BY <1>3, <1>4

\* Every step of the loop keeps the invariant and is a step of the abstract beam or
\* none at all.
LEMMA BeamStep ==
  BeamInv /\ [Next]_vars => BeamInv' /\ [Beam!BeamNext]_(Beam!beamVars)
<1> SUFFICES ASSUME BeamInv, [Next]_vars
             PROVE  BeamInv' /\ [Beam!BeamNext]_(Beam!beamVars)
  OBVIOUS
<1>1. DebtInv'
  BY DebtInvStep DEF BeamInv
<1>2. CASE Boundary \/ Execute
  BY <1>2, CpuWorks, BeamInvCpu DEF Beam!BeamNext
<1>3. CASE BetweenSlices
  BY <1>1, <1>3, BeamBlank, BeamPreRender, BeamLine
     DEF BetweenSlices, Beam!BeamNext, BeamInv
<1>4. CASE EndFrame \/ StartFrame \/ Command
  BY <1>1, <1>4, BeamEnd, BeamStart, BeamReset DEF Beam!BeamNext, BeamInv
<1>5. CASE UNCHANGED vars
  <2>1. UNCHANGED <<slice, line, budget, kook, ppudead, vblank, visScanline, frameDots>>
    BY <1>5 DEF vars, loopVars, ppuVars, history
  <2>2. BeamPlace'
    BY <2>1 DEF BeamInv, BeamPlace, LineStart, LineBase
  <2>3. FlagPlace'
    BY <2>1 DEF BeamInv, FlagPlace
  <2> QED  BY <1>1, <2>1, <2>2, <2>3 DEF BeamInv, Beam!beamVars
<1> QED  BY <1>2, <1>3, <1>4, <1>5 DEF Next, Emulate

\* The frame loop implements BeamClock, whatever the widths of the slices, the number
\* of lines, the instructions and the program's resets are: every run_ppu() call moves
\* the beam by the dots it hands out and only when the CPU has caught up, frames have
\* alternating lengths, and both flags are up exactly where the beam says.
THEOREM FollowsBeam == Spec => ImplementsBeam
<1>1. Init => BeamInv /\ Beam!Init
  <2> SUFFICES ASSUME Init PROVE BeamInv /\ Beam!Init
    OBVIOUS
  <2>1. DebtInv
    BY InitType, Constants DEF DebtInv, Awake, DebtBounded, Init
  <2>2. BeamPlace /\ FlagPlace
    BY DEF Init, BeamPlace, FlagPlace
  <2>3. Beam!Init
    BY DEF Init, Beam!Init
  <2> QED  BY <2>1, <2>2, <2>3 DEF BeamInv
<1>2. BeamInv /\ [Next]_vars => BeamInv' /\ [Beam!BeamNext]_(Beam!beamVars)
  BY BeamStep
<1> QED  BY <1>1, <1>2, PTL DEF Spec, ImplementsBeam, Beam!BeamSpec
=============================================================================
