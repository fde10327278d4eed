---------------------------------- MODULE Cpu ----------------------------------
(***************************************************************************)
(* The CPU's instructions (step() in src/src/cpu.cpp): what they compute   *)
(* (CpuAlu), the bus accesses they make and when (O-33), what they leave   *)
(* on the data bus (O-14), OAM DMA, the stack, jumps, subroutines and the  *)
(* entries of NMI and IRQ; on a bus with the PPU's registers (PpuPorts).   *)
(*                                                                         *)
(* Instructions and operands are chosen freely within what the running     *)
(* program is given to use, instead of being decoded from memory: every    *)
(* address holds its low byte, and only writes to page $01 are kept.       *)
(* A DMA copies the first OamSize bytes of its page.  $4015-$4017 are not  *)
(* used here (Apu, Replay), and writes to $4000-$4013 only reach the bus;  *)
(* when an interrupt is taken is in FrameLoop.                             *)
(***************************************************************************)
EXTENDS PpuPorts, Sequences

CONSTANTS
  Programs,     \* what the program may use: records
                \* [ops, modes, bases, operands, x, y, code, targets, vector, room]:
                \* room bounds the bytes it keeps on the stack
  OpcodeByte,   \* the byte of an opcode, where only its identity on the bus matters
  DmcBytes      \* bytes a DMC fetch may leave on the bus before an instruction

VARIABLES
  program,      \* what the program may use
  regs,         \* ra, rx, ry, rsp and rp, a record
  pc,           \* rpc
  bus,          \* data_bus
  ppu,          \* the PPU's ports
  stack         \* page $01

(* History variables: read by properties only. *)
VARIABLES
  last,         \* the memory accesses of the last instruction
  depth,        \* bytes on the stack since the stack pointer was last set
  frames        \* the calls and interrupts not yet returned from, a set

vars == <<program, regs, pc, bus, ppu, stack, last, depth, frames>>

NoAccess == [kind |-> "none", base |-> 0, eff |-> 0, cost |-> 0, log |-> <<>>]

Init ==
  /\ program \in Programs
  /\ \E x \in program.x, y \in program.y :
       regs = [a |-> 0, x |-> x, y |-> y, s |-> 253, p |-> {"I", "U"}]
  /\ pc = program.vector /\ bus = pc \div Size
  /\ ppu = PpuPowerOn
  /\ stack = [k \in Byte |-> k]
  /\ last = NoAccess /\ depth = 0 /\ frames = {}

-----------------------------------------------------------------------------
(* The bus: d carries the data bus, the PPU, page $01, the value read, the *)
(* cycles a DMA added, and a log of the accesses with the cycles charged   *)
(* when each was made.                                                     *)

PageOf(addr) == addr \div Size

AreaOf(addr) ==
  IF addr < 8192 THEN (IF PageOf(addr) % 8 = 1 THEN "stack" ELSE "memory")   \* below $2000
  ELSE IF addr < 16384 THEN "ppu"                                            \* below $4000
  ELSE IF addr < 24576 THEN "open" ELSE "memory"                             \* below $6000

\* mem_read(); what the data port gives is not followed and taken as 0.
BusRead(d, addr, at) ==
  LET area == AreaOf(addr)
      v == CASE area = "memory" -> addr % Size
             [] area = "stack" -> d.stack[addr % Size]
             [] area = "ppu" -> PortValue(d.ppu, addr % 8, 0)
             [] area = "open" -> d.bus
  IN  [d EXCEPT !.bus = v, !.val = v,
                !.ppu = IF area = "ppu" THEN PortRead(d.ppu, addr % 8, 0) ELSE d.ppu,
                !.log = Append(d.log, [op |-> "read", addr |-> addr, val |-> v, at |-> at])]

\* The $4014 handler: a page is read through the bus and written to $2004, two cycles a
\* byte; the bus shows the value of before until the first read, and the page after.
DmaPort == 16404
CopyByte(d, page, i, cost) ==
  LET r == BusRead(d, page * Size + i, cost + d.stolen + 1)
  IN  [r EXCEPT !.ppu = PortWrite(r.ppu, 4, r.val), !.log = d.log, !.stolen = d.stolen + 2]

Dma(d, page, cost) ==
  LET copied[n \in 0..OamSize] ==
        IF n = 0 THEN d ELSE CopyByte(copied[n - 1], page, n - 1, cost)
  IN  [copied[OamSize] EXCEPT !.bus = page]

\* mem_write(); the cycles of a DMA count for the accesses after it.
BusWrite(d, addr, val, cost) ==
  LET at == cost + d.stolen
      area == AreaOf(addr)
      done == IF addr = DmaPort THEN Dma(d, val, cost)
              ELSE [d EXCEPT !.bus = val,
                             !.ppu = IF area = "ppu" THEN PortWrite(d.ppu, addr % 8, val) ELSE d.ppu,
                             !.stack = IF area = "stack" THEN [d.stack EXCEPT ![addr % Size] = val]
                                       ELSE d.stack]
  IN  [done EXCEPT !.log = Append(d.log, [op |-> "write", addr |-> addr, val |-> val, at |-> at])]

-----------------------------------------------------------------------------
(* Opcodes and addressing                                                  *)

Arithmetic == {"ORA", "AND", "EOR", "ADC", "CMP", "SBC", "LDA"}
Shifts == {"ASL", "ROL", "LSR", "ROR"}
Combined == {"SLO", "RLA", "SRE", "RRA", "DCP", "ISB"}
Unstable == {"AHX", "TAS", "SHY", "SHX"}
Everywhere == Arithmetic \cup Combined \cup {"STA"}

\* The opcode table: the instructions a mode exists for.  The three zero-page modes are
\* one, their index makes no difference here.
OpsOf ==
  [imm  |-> Arithmetic \cup {"LDX", "LDY", "CPX", "CPY", "NOP", "ANC", "ALR", "ARR", "XAA", "ATX", "AXS"},
   acc  |-> Shifts,
   zp   |-> Everywhere \cup Shifts \cup {"INC", "DEC", "STX", "STY", "SAX", "LAX", "LDX", "LDY", "CPX",
                                         "CPY", "BIT", "NOP"},
   abs  |-> Everywhere \cup Shifts \cup {"INC", "DEC", "STX", "STY", "SAX", "LAX", "LDX", "LDY", "CPX",
                                         "CPY", "BIT", "NOP"},
   absX |-> Everywhere \cup Shifts \cup {"INC", "DEC", "LDY", "NOP", "SHY"},
   absY |-> Everywhere \cup {"LDX", "LAX", "LAS", "TAS", "SHX", "AHX"},
   indX |-> Everywhere \cup {"LAX", "SAX"},
   indY |-> Everywhere \cup {"LAX", "AHX"}]

ASSUME CpuAssumption ==
  /\ OpcodeByte \in Byte /\ DmcBytes \subseteq Byte
  /\ \A g \in Programs :
       /\ g.modes \subseteq DOMAIN OpsOf
       /\ g.bases \subseteq Word /\ g.operands \subseteq Byte
       /\ g.x \subseteq Byte /\ g.y \subseteq Byte
       /\ g.code \subseteq Word /\ g.targets \subseteq g.code /\ g.vector \in g.code
       /\ g.room \in 0..(Size - 1)

Direct == {"imm", "acc", "zp"}
Indexed == {"absX", "absY", "indY"}
Indirect == {"indX", "indY"}

ClassOf(op) == IF op \in Reads THEN "load" ELSE IF op \in Rmw THEN "rmw" ELSE "store"
BytesOf(mode) == CASE mode = "acc" -> 1 [] mode \in {"abs", "absX", "absY"} -> 3 [] OTHER -> 2

\* The cost the table gives an instruction with a memory access.
CostOf(op, mode) ==
  IF op = "LAS" THEN 4
  ELSE CASE mode = "abs" -> (IF op \in Rmw THEN 6 ELSE 4)
         [] mode \in {"absX", "absY"} -> (IF op \in Rmw THEN 7 ELSE IF op \in Reads THEN 4 ELSE 5)
         [] mode = "indX" -> (IF op \in Rmw THEN 8 ELSE 6)
         [] mode = "indY" -> (IF op \in Rmw THEN 8 ELSE IF op \in Reads THEN 5 ELSE 6)

IndexOf(mode, r) ==
  CASE mode = "absX" -> r.x [] mode \in {"absY", "indY"} -> r.y [] OTHER -> 0

Crossed(base, eff) == PageOf(base) # PageOf(eff)
Uncorrected(base, eff) == PageOf(base) * Size + (eff % Size)

\* eff ^ 0x0100
PageFlipped(eff) == IF PageOf(eff) % 2 = 1 THEN eff - Size ELSE eff + Size

\* The access before the address is corrected: always for stores and read-modify-write,
\* for loads when a page is crossed.
DummyRead(d, class, mode, base, eff, cost) ==
  IF mode \notin Indexed THEN d
  ELSE IF class # "load" THEN BusRead(d, Uncorrected(base, eff), cost)
  ELSE IF Crossed(base, eff) THEN BusRead(d, PageFlipped(eff), cost)
  ELSE d

\* The table's extra cycle for a crossed page: loads only.
CrossingCost(op, mode, base, eff) ==
  IF op \in Reads /\ mode \in Indexed /\ Crossed(base, eff) THEN 1 ELSE 0

\* A slip: the cycle of a crossed page is charged after the read.
ChargedLate(op, mode, base, eff) == CostOf(op, mode)

\* What is charged when the real access is made.
Charged(op, mode, base, eff) == CostOf(op, mode) + CrossingCost(op, mode, base, eff)

-----------------------------------------------------------------------------
(* Instructions with a memory operand: the registers after it, and the bus *)

Load(op, r, d, eff, cost) ==
  LET e == BusRead(d, eff, cost) IN [regs |-> Operate(op, r, e.val), d |-> e]

\* Read, written back unchanged, written.
Change(op, r, d, eff, cost) ==
  LET e == BusRead(d, eff, cost)
      v == Written(op, r, e.val)
      f == BusWrite(BusWrite(e, eff, e.val, cost), eff, v, cost)
  IN  [regs |-> Modify(op, r, e.val), d |-> [f EXCEPT !.bus = v]]

Store(op, r, d, eff, cost) ==
  LET v == Stored(op, r) IN [regs |-> r, d |-> [BusWrite(d, eff, v, cost) EXCEPT !.bus = v]]

\* The unstable stores: the value is masked with a high byte plus one; SHY and SHX also
\* take it for the high byte of their target.
StoreUnstable(op, r, d, base, eff, cost) ==
  LET v == CASE op \in {"AHX", "TAS"} -> And(r.a, r.x) [] op = "SHY" -> r.y [] op = "SHX" -> r.x
      retargeted == op \in {"SHY", "SHX"}
      masked == And(v, (PageOf(IF retargeted THEN eff ELSE base) + 1) % Size)
      target == IF retargeted THEN masked * Size + (eff % Size) ELSE eff
  IN  [regs |-> IF op = "TAS" THEN [r EXCEPT !.s = v] ELSE r,
       d |-> BusWrite(d, target, masked, cost)]

Device(fetched) ==
  [bus |-> fetched, ppu |-> ppu, stack |-> stack, val |-> 0, log |-> <<>>, stolen |-> 0]

\* Execution goes on inside the program.
GoTo(addr) == addr \in program.code /\ pc' = addr
GoOn(bytes) == GoTo((pc + bytes) % (Size * Size))

\* The last byte fetched is on the bus before the accesses.
MemoryInstruction(op, mode, base, operand) ==
  LET class == ClassOf(op)
      eff == (base + IndexOf(mode, regs)) % (Size * Size)
      cost == Charged(op, mode, base, eff)
      fetched == IF mode \in Indirect THEN operand ELSE PageOf(base)
      d == DummyRead(Device(fetched), class, mode, base, eff, CostOf(op, mode))
      result == IF op \in Unstable THEN StoreUnstable(op, regs, d, base, eff, cost)
                ELSE CASE class = "load" -> Load(op, regs, d, eff, cost)
                       [] class = "store" -> Store(op, regs, d, eff, cost)
                       [] class = "rmw" -> Change(op, regs, d, eff, cost)
  IN  /\ regs' = result.regs
      /\ bus' = result.d.bus /\ ppu' = result.d.ppu /\ stack' = result.d.stack
      /\ last' = [kind |-> class, base |-> base, eff |-> eff,
                  log |-> result.d.log,
                  cost |-> CostOf(op, mode) + CrossingCost(op, mode, base, eff) + result.d.stolen]

\* Immediate, accumulator and zero-page modes make no bus access of their own; what they
\* leave on the bus is the operand, the byte written, or for accumulator shifts and NOPs
\* what was there after the fetch.
DirectInstruction(op, mode, m, fetched) ==
  /\ regs' = IF op \in Rmw
             THEN LET r == Modify(op, regs, m) IN
                  IF mode = "acc" THEN [r EXCEPT !.a = Written(op, regs, m)] ELSE r
             ELSE IF op \in Stores THEN regs ELSE Operate(op, regs, m)
  /\ bus' = IF mode = "acc" \/ op = "NOP" THEN fetched
            ELSE IF op \in Rmw THEN Written(op, regs, m)
            ELSE IF op \in Stores THEN Stored(op, regs)
            ELSE m
  /\ last' = NoAccess
  /\ UNCHANGED <<ppu, stack>>

\* The opcode, or the byte a DMC fetch put on the bus.
Fetched == {OpcodeByte} \cup DmcBytes

\* The history ends where the program moves its stack pointer or writes to the stack.
Unwound ==
  IF regs'.s = regs.s /\ stack' = stack THEN UNCHANGED <<depth, frames>>
  ELSE depth' = 0 /\ frames' = {}

Data ==
  \E mode \in program.modes : \E op \in program.ops \cap OpsOf[mode] :
    /\ GoOn(BytesOf(mode))
    /\ IF mode \in Direct
       THEN \E m \in program.operands, fetched \in Fetched :
              /\ mode = "acc" => m = regs.a
              /\ DirectInstruction(op, mode, m, fetched)
       ELSE \E base \in program.bases, operand \in program.operands :
              MemoryInstruction(op, mode, base, operand)
    /\ Unwound
    /\ UNCHANGED program

\* Instructions without an operand.
Simple ==
  \E op \in program.ops \cap Implied, fetched \in Fetched :
    /\ GoOn(1)
    /\ regs' = Imply(op, regs)
    /\ bus' = fetched
    /\ last' = NoAccess
    /\ UNCHANGED <<program, ppu, stack>>
    /\ Unwound

\* raise_vblank() and snapshot_render(), between two instructions.
Vblank ==
  /\ "vblank" \in program.ops
  /\ ppu' = IF ppu.vblank THEN ClearVblank(ppu) ELSE RaiseVblank(ppu)
  /\ last' = NoAccess
  /\ UNCHANGED <<program, regs, pc, bus, stack, depth, frames>>

-----------------------------------------------------------------------------
(* The stack                                                               *)

Pointer(fetched) == [s |-> regs.s, stack |-> stack, bus |-> fetched, val |-> 0]

\* STACK_PUSH, STACK_PUSH_PC
Push(m, v) == [m EXCEPT !.stack[m.s] = v, !.s = (m.s - 1) % Size, !.bus = v]
PushPc(m, addr) == Push(Push(m, PageOf(addr)), addr % Size)

\* STACK_POP
Pull(m) ==
  LET s == (m.s + 1) % Size
  IN  [m EXCEPT !.s = s, !.val = m.stack[s], !.bus = m.stack[s]]

\* A slip: bit 4 of the byte is kept.
FlagsPulledAll(v) == FlagsOf(v) \cup {"U"}

\* A slip: I is not restored.
FlagsPulledMasked(v) == (FlagsOf(v) \cup {"U", "I"}) \ {"B"}

\* Bit 4 is not part of P, bit 5 always is.
FlagsPulled(v) == (FlagsOf(v) \cup {"U"}) \ {"B"}

\* n bytes are pushed; entered holds the call or interrupt they belong to, if any.
Pushed(m, n, entered) ==
  /\ depth + n <= program.room
  /\ stack' = m.stack
  /\ depth' = depth + n
  /\ frames' = frames \cup entered

\* n bytes are pulled, and calls whose bytes they were are forgotten.
Pulled(m, n) ==
  /\ depth >= n
  /\ depth' = depth - n
  /\ frames' = {f \in frames : f.at <= depth - n}
  /\ UNCHANGED stack

Aside == last' = NoAccess /\ UNCHANGED <<program, ppu>>

PushInstruction(op, fetched) ==
  LET m == Push(Pointer(fetched), IF op = "PHA" THEN regs.a ELSE FlagsByte(regs.p \cup {"B"}))
  IN  /\ regs' = [regs EXCEPT !.s = m.s] /\ bus' = m.bus
      /\ Pushed(m, 1, {})
      /\ GoOn(1)
      /\ Aside

PullInstruction(op, fetched) ==
  LET m == Pull(Pointer(fetched))
      r == [regs EXCEPT !.s = m.s]
  IN  /\ regs' = IF op = "PLA" THEN LoadA(r, m.val) ELSE [r EXCEPT !.p = FlagsPulled(m.val)]
      /\ bus' = m.bus
      /\ Pulled(m, 1)
      /\ GoOn(1)
      /\ Aside

Stacking ==
  \E fetched \in Fetched :
    \/ \E op \in program.ops \cap {"PHA", "PHP"} : PushInstruction(op, fetched)
    \/ \E op \in program.ops \cap {"PLA", "PLP"} : PullInstruction(op, fetched)

-----------------------------------------------------------------------------
(* Jumps, subroutines, interrupts                                          *)

BranchIf ==
  [BCC |-> <<"C", FALSE>>, BCS |-> <<"C", TRUE>>, BNE |-> <<"Z", FALSE>>, BEQ |-> <<"Z", TRUE>>,
   BPL |-> <<"N", FALSE>>, BMI |-> <<"N", TRUE>>, BVC |-> <<"V", FALSE>>, BVS |-> <<"V", TRUE>>]

\* A branch that is not taken leaves the opcode on the bus, a taken one its offset.
Branch ==
  /\ \E op \in program.ops \cap DOMAIN BranchIf, offset \in program.operands, fetched \in Fetched :
       LET taken == (BranchIf[op][1] \in regs.p) = BranchIf[op][2] IN
       /\ bus' = IF taken THEN offset ELSE fetched
       /\ GoOn(IF taken THEN 2 + Signed(offset) ELSE 2)
  /\ Aside
  /\ UNCHANGED <<regs, stack, depth, frames>>

\* Absolute and indirect: both leave the high byte of the target on the bus.
Jmp ==
  /\ "JMP" \in program.ops
  /\ \E target \in program.targets : pc' = target /\ bus' = PageOf(target)
  /\ Aside
  /\ UNCHANGED <<regs, stack, depth, frames>>

\* The address pushed is that of the last byte of the JSR.
Jsr ==
  /\ "JSR" \in program.ops
  /\ \E target \in program.targets :
       LET m == PushPc(Pointer(0), (pc + 2) % (Size * Size)) IN
       /\ regs' = [regs EXCEPT !.s = m.s]
       /\ pc' = target /\ bus' = PageOf(target)
       /\ Pushed(m, 2, {[kind |-> "call", at |-> depth + 2, pc |-> (pc + 3) % (Size * Size), p |-> regs.p]})
  /\ Aside

Rts ==
  /\ "RTS" \in program.ops
  /\ \E fetched \in Fetched :
       LET low == Pull(Pointer(fetched))
           high == Pull(low)
       IN  /\ regs' = [regs EXCEPT !.s = high.s] /\ bus' = high.bus
           /\ Pulled(high, 2)
           /\ GoTo((high.val * Size + low.val + 1) % (Size * Size))
  /\ Aside

\* Return address and flags pushed, I set, the vector's high byte left on the bus.
EnterHandler(kind, back, image) ==
  LET m == Push(PushPc(Pointer(0), back), FlagsByte(image)) IN
  /\ regs' = [regs EXCEPT !.s = m.s, !.p = regs.p \cup {"I"}]
  /\ pc' = program.vector /\ bus' = PageOf(program.vector)
  /\ Pushed(m, 3, {[kind |-> kind, at |-> depth + 3, pc |-> back, p |-> regs.p]})
  /\ Aside

\* The byte after BRK is skipped.
Brk == "BRK" \in program.ops /\ EnterHandler("brk", (pc + 2) % (Size * Size), regs.p \cup {"B"})

\* A slip: NMI and IRQ push P as BRK does.
InterruptImageB(p) == p \cup {"B"}

InterruptImage(p) == p \ {"B"}

\* nmi() and irq(), between two instructions.
Interrupt == "interrupt" \in program.ops /\ EnterHandler("irq", pc, InterruptImage(regs.p))

Rti ==
  /\ "RTI" \in program.ops
  /\ \E fetched \in Fetched :
       LET flags == Pull(Pointer(fetched))
           low == Pull(flags)
           high == Pull(low)
       IN  /\ regs' = [regs EXCEPT !.s = high.s, !.p = FlagsPulled(flags.val)]
           /\ bus' = high.bus
           /\ Pulled(high, 3)
           /\ GoTo(high.val * Size + low.val)
  /\ Aside

Next ==
  \/ Data \/ Simple \/ Stacking \/ Vblank
  \/ Branch \/ Jmp \/ Jsr \/ Rts \/ Brk \/ Interrupt \/ Rti

Spec == Init /\ [][Next]_vars

-----------------------------------------------------------------------------
(* Properties                                                              *)

\* Types; bit 4 is never part of P and bit 5 always is (O-2), whatever bytes a program
\* pulls into it.
TypeOK ==
  /\ regs \in [a : Byte, x : Byte, y : Byte, s : Byte, p : SUBSET FlagNames]
  /\ "U" \in regs.p /\ "B" \notin regs.p
  /\ pc \in program.code /\ bus \in Byte
  /\ stack \in [Byte -> Byte]
  /\ ppu.oam \in [OamIndex -> Byte] /\ ppu.latch \in Byte
  /\ ppu.oamAddr \in OamIndex /\ ppu.oamCount \in OamIndex
  /\ depth \in 0..program.room

\* Addition, subtraction and comparison agree with arithmetic on integers, carry in and out
\* and signed overflow included, for every operand in every state reached; so do the
\* instructions that shift or count first.
ArithmeticExact ==
  "ADC" \in program.ops => LET c == Carry(regs) IN
  \A m \in Byte :
    /\ IsSum(regs, Operate("ADC", regs, m), m, c)
    /\ IsDifference(regs, Operate("SBC", regs, m), m, 1 - c)
    /\ IsComparison(Operate("CMP", regs, m), regs.a, m)

\* A combined instruction is its two parts one after the other, in registers, flags and
\* the byte written (the RMW cases of the operation switch).
CombinedAsTwo ==
  \A m \in program.operands :
    LET Then(first, second) == Operate(second, Modify(first, regs, m), Written(first, regs, m))
        Is(op, first, second) ==
          /\ Modify(op, regs, m) = Then(first, second)
          /\ Written(op, regs, m) = Written(first, regs, m)
    IN  /\ Is("SLO", "ASL", "ORA") /\ Is("RLA", "ROL", "AND") /\ Is("SRE", "LSR", "EOR")
        /\ Is("RRA", "ROR", "ADC") /\ Is("DCP", "DEC", "CMP") /\ Is("ISB", "INC", "SBC")

\* The accesses of an instruction come at its end (O-33 (a)): all but the dummy read of a
\* load are made when everything is charged, and a read-modify-write gives the byte back
\* before it writes the result, the second time after any DMA the first started.
AccessesAtEnd ==
  LET log == last.log
      n == Len(log)
  IN  n > 0 =>
        /\ log[n].at + (IF log[n].addr = DmaPort /\ log[n].op = "write" THEN 2 * OamSize ELSE 0) = last.cost
        /\ last.kind = "load" => log[n].addr = last.eff
        /\ last.kind = "rmw" => /\ log[n].addr = last.eff /\ log[n - 1].addr = last.eff
                                /\ log[n - 1].op = "write" /\ log[n - 2].op = "read"
                                /\ log[n - 1].val = log[n - 2].val

\* Where a DMA puts the bytes of a RAM page, counters wrapping anywhere in it: the head is
\* filled by counter, the rest by address, except for the bytes that went to the head.
DmaPlacesBytes ==
  [][ LET final == last'.log[Len(last'.log)]
          page == Size * final.val
      IN  (last'.kind = "store" /\ final.addr = DmaPort /\ page < 8192) =>
        LET byte(k) == IF AreaOf(page) = "stack" THEN stack[k] ELSE k
            turn(k) == (k - ppu.oamAddr) % OamSize            \* the write that has address k
        IN  /\ ppu'.oamAddr = ppu.oamAddr /\ ppu'.oamCount = ppu.oamCount
            /\ \A k \in OamIndex :
                 ppu'.oam[k] = IF k < OamHead THEN byte((k - ppu.oamCount) % OamSize)
                               ELSE IF (ppu.oamCount + turn(k)) % OamSize < OamHead THEN ppu.oam[k]
                               ELSE byte(turn(k)) ]_vars

\* As long as a call or an interrupt has not returned, its bytes are on the stack: the
\* return address and, for an interrupt, P with bit 4 set by BRK only (O-6).
FramesIntact ==
  \A f \in frames :
    LET Cell(k) == stack[(regs.s + (depth - f.at) + k) % Size]
        Address(k) == Cell(k) + Size * Cell(k + 1)
    IN  IF f.kind = "call" THEN (Address(1) + 1) % (Size * Size) = f.pc
        ELSE /\ Address(2) = f.pc
             /\ FlagsOf(Cell(1)) = f.p \cup (IF f.kind = "brk" THEN {"B"} ELSE {})

\* RTS and RTI that pull a frame whole come back to where it was entered, with the flags
\* of then after RTI, whatever nested in between and wherever the stack pointer wrapped.
ReturnsWhereItLeft ==
  [][ \A f \in frames :
        /\ (Rts /\ f.kind = "call" /\ f.at = depth) => pc' = f.pc
        /\ (Rti /\ f.kind # "call" /\ f.at = depth) => pc' = f.pc /\ regs'.p = f.p ]_vars

\* An unmapped address reads as the high byte of the address last fetched (O-32).
OpenBusIsHighByte ==
  (last.kind = "load" /\ AreaOf(last.eff) = "open") => last.log[Len(last.log)].val = PageOf(last.base)
=============================================================================
