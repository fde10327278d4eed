-------------------------------- MODULE CpuAlu --------------------------------
(***************************************************************************)
(* What the data instructions of the 6502 compute (the operation switch of *)
(* step(), src/src/cpu.cpp): an operator takes the registers r = [a, x, y, *)
(* s, p] and the operand m, and returns the registers after the            *)
(* instruction; an instruction that writes its result back to memory has a *)
(* second operator for that byte.  The flags are a set of names; "U"       *)
(* stands for bit 5.                                                       *)
(***************************************************************************)
EXTENDS Integers

Size == 256
Byte == 0..(Size - 1)
Top == Size \div 2
Word == 0..(Size * Size - 1)

Bit(v, k) == (v \div 2^k) % 2
Sign(v) == Bit(v, 7)

FlagBit == [C |-> 0, Z |-> 1, I |-> 2, D |-> 3, B |-> 4, U |-> 5, V |-> 6, N |-> 7]
FlagNames == DOMAIN FlagBit
FlagsOf(v) == {f \in FlagNames : Bit(v, FlagBit[f]) = 1}
FlagsByte(p) == LET w(f) == IF f \in p THEN 2^FlagBit[f] ELSE 0
                IN  w("C") + w("Z") + w("I") + w("D") + w("B") + w("U") + w("V") + w("N")

\* &, | and ^ on bytes.
Bits(v) == {k \in 0..7 : Bit(v, k) = 1}
ByteOf(K) == LET w(k) == IF k \in K THEN 2^k ELSE 0
             IN  w(0) + w(1) + w(2) + w(3) + w(4) + w(5) + w(6) + w(7)
And(v, w) == ByteOf(Bits(v) \cap Bits(w))
Or(v, w) == ByteOf(Bits(v) \cup Bits(w))
Xor(v, w) == ByteOf((Bits(v) \ Bits(w)) \cup (Bits(w) \ Bits(v)))

With(p, flag, on) == IF on THEN p \cup {flag} ELSE p \ {flag}
NZ(p, v) == With(With(p, "Z", v = 0), "N", Sign(v) = 1)
Carry(r) == IF "C" \in r.p THEN 1 ELSE 0

-----------------------------------------------------------------------------
(* Arithmetic                                                              *)

\* A slip: the sign of the first operand is not compared.
AddUnsigned(r, m) ==
  LET sum == r.a + m + Carry(r)
      v == sum % Size
  IN  [r EXCEPT !.a = v,
                !.p = NZ(With(With(r.p, "C", sum >= Size), "V", Sign(m) # Sign(v)), v)]

\* ADC
Add(r, m) ==
  LET sum == r.a + m + Carry(r)
      v == sum % Size
  IN  [r EXCEPT !.a = v,
                !.p = NZ(With(With(r.p, "C", sum >= Size),
                              "V", Sign(r.a) = Sign(m) /\ Sign(r.a) # Sign(v)), v)]

\* A slip: the carry is not inverted.
SubtractCarry(r, m) ==
  LET sum == (r.a + (-m - 1) + Carry(r)) % (Size * Size)
      v == sum % Size
  IN  [r EXCEPT !.a = v,
                !.p = NZ(With(With(r.p, "C", sum >= Size),
                              "V", Sign(r.a) # Sign(m) /\ Sign(r.a) # Sign(v)), v)]

\* SBC adds the complement; the 16-bit sum wraps when there is a borrow.
Subtract(r, m) ==
  LET sum == (r.a + (-m - 1) + Carry(r)) % (Size * Size)
      v == sum % Size
  IN  [r EXCEPT !.a = v,
                !.p = NZ(With(With(r.p, "C", sum < Size),
                              "V", Sign(r.a) # Sign(m) /\ Sign(r.a) # Sign(v)), v)]

\* CMP, CPX, CPY
Compare(r, reg, m) == [r EXCEPT !.p = NZ(With(r.p, "C", reg >= m), (reg - m) % Size)]

\* LDA, TXA, TYA, PLA and the logical instructions end like this.
LoadA(r, v) == [r EXCEPT !.a = v, !.p = NZ(r.p, v)]
LoadX(r, v) == [r EXCEPT !.x = v, !.p = NZ(r.p, v)]
LoadY(r, v) == [r EXCEPT !.y = v, !.p = NZ(r.p, v)]

BitTest(r, m) ==
  [r EXCEPT !.p = With(With(With(r.p, "N", Sign(m) = 1), "V", Bit(m, 6) = 1),
                       "Z", And(r.a, m) = 0)]

-----------------------------------------------------------------------------
(* Read-modify-write instructions: the byte written ...                    *)

ShiftIn(r) == Carry(r) * Top
Rmw == {"ASL", "LSR", "ROL", "ROR", "INC", "DEC",
        "SLO", "RLA", "SRE", "RRA", "DCP", "ISB", "LAS"}
LeftShifts == {"ASL", "ROL", "SLO", "RLA"}
RightShifts == {"LSR", "ROR", "SRE", "RRA"}

Written(op, r, m) ==
  CASE op \in {"ASL", "SLO"} -> (2 * m) % Size
    [] op \in {"ROL", "RLA"} -> (2 * m + Carry(r)) % Size
    [] op \in {"LSR", "SRE"} -> m \div 2
    [] op \in {"ROR", "RRA"} -> m \div 2 + ShiftIn(r)
    [] op \in {"INC", "ISB"} -> (m + 1) % Size
    [] op \in {"DEC", "DCP"} -> (m - 1) % Size
    [] op = "LAS" -> m

\* ... and the registers: the shifts set C from the bit shifted out; the combined ones
\* go on with that carry.
Shifted(op, r, m) ==
  [r EXCEPT !.p = IF op \in LeftShifts THEN With(r.p, "C", Sign(m) = 1)
                  ELSE IF op \in RightShifts THEN With(r.p, "C", m % 2 = 1) ELSE r.p]

\* A slip: the combined instructions use the carry of before.
ModifyOldCarry(op, r, m) ==
  LET v == Written(op, r, m)
      q == Shifted(op, r, m)
  IN  CASE op \in {"ASL", "LSR", "ROL", "ROR", "INC", "DEC"} -> [q EXCEPT !.p = NZ(q.p, v)]
        [] op = "SLO" -> LoadA(q, Or(r.a, v))
        [] op = "RLA" -> LoadA(q, And(r.a, v))
        [] op = "SRE" -> LoadA(q, Xor(r.a, v))
        [] op = "RRA" -> Add(r, v)
        [] op = "DCP" -> Compare(r, r.a, v)
        [] op = "ISB" -> Subtract(r, v)
        [] op = "LAS" -> LET seen == And(m, r.s) IN LoadX(LoadA([r EXCEPT !.s = seen], seen), seen)

Modify(op, r, m) ==
  LET v == Written(op, r, m)
      q == Shifted(op, r, m)
  IN  CASE op \in {"ASL", "LSR", "ROL", "ROR", "INC", "DEC"} -> [q EXCEPT !.p = NZ(q.p, v)]
        [] op = "SLO" -> LoadA(q, Or(r.a, v))
        [] op = "RLA" -> LoadA(q, And(r.a, v))
        [] op = "SRE" -> LoadA(q, Xor(r.a, v))
        [] op = "RRA" -> Add(q, v)
        [] op = "DCP" -> Compare(r, r.a, v)
        [] op = "ISB" -> Subtract(r, v)
        [] op = "LAS" -> LET seen == And(m, r.s) IN LoadX(LoadA([r EXCEPT !.s = seen], seen), seen)

-----------------------------------------------------------------------------
(* Reading instructions, and those without a memory operand                *)

Reads == {"ADC", "SBC", "AND", "ORA", "EOR", "CMP", "CPX", "CPY", "BIT", "LDA", "LDX", "LDY",
          "LAX", "NOP", "ANC", "ALR", "ARR", "XAA", "ATX", "AXS"}

\* ARR takes its carry and overflow from the two bits below the sign of the result.
RotateAnd(r, m) ==
  LET v == And(r.a, m) \div 2 + ShiftIn(r)
      q == LoadA(r, v)
  IN  [q EXCEPT !.p = With(With(q.p, "C", Bit(v, 6) = 1),
                           "V", Bit(v, 6) # Bit(v, 5))]

\* AXS subtracts from A & X without the carry.
SubtractX(r, m) ==
  LET ax == And(r.a, r.x) IN LoadX([r EXCEPT !.p = With(r.p, "C", ax >= m)], (ax - m) % Size)

Operate(op, r, m) ==
  CASE op = "ADC" -> Add(r, m)
    [] op = "SBC" -> Subtract(r, m)
    [] op = "AND" -> LoadA(r, And(r.a, m))
    [] op = "ORA" -> LoadA(r, Or(r.a, m))
    [] op = "EOR" -> LoadA(r, Xor(r.a, m))
    [] op = "CMP" -> Compare(r, r.a, m)
    [] op = "CPX" -> Compare(r, r.x, m)
    [] op = "CPY" -> Compare(r, r.y, m)
    [] op = "BIT" -> BitTest(r, m)
    [] op = "LDA" -> LoadA(r, m)
    [] op = "LDX" -> LoadX(r, m)
    [] op = "LDY" -> LoadY(r, m)
    [] op \in {"LAX", "ATX"} -> [LoadA(r, m) EXCEPT !.x = m]
    [] op = "NOP" -> r
    [] op = "ANC" -> LET q == LoadA(r, And(r.a, m)) IN [q EXCEPT !.p = With(q.p, "C", Sign(q.a) = 1)]
    [] op = "ALR" -> LET v == And(r.a, m) IN LoadA([r EXCEPT !.p = With(r.p, "C", v % 2 = 1)], v \div 2)
    [] op = "ARR" -> RotateAnd(r, m)
    [] op = "XAA" -> LoadA(r, And(Or(r.a, 238), And(r.x, m)))   \* 238 is $EE
    [] op = "AXS" -> SubtractX(r, m)

Implied == {"INX", "INY", "DEX", "DEY", "TAX", "TAY", "TXA", "TYA", "TSX", "TXS",
            "CLC", "SEC", "CLI", "SEI", "CLD", "SED", "CLV", "NOP"}

Imply(op, r) ==
  CASE op = "INX" -> LoadX(r, (r.x + 1) % Size)
    [] op = "INY" -> LoadY(r, (r.y + 1) % Size)
    [] op = "DEX" -> LoadX(r, (r.x - 1) % Size)
    [] op = "DEY" -> LoadY(r, (r.y - 1) % Size)
    [] op = "TAX" -> LoadX(r, r.a)
    [] op = "TAY" -> LoadY(r, r.a)
    [] op = "TXA" -> LoadA(r, r.x)
    [] op = "TYA" -> LoadA(r, r.y)
    [] op = "TSX" -> LoadX(r, r.s)
    [] op = "TXS" -> [r EXCEPT !.s = r.x]
    [] op = "CLC" -> [r EXCEPT !.p = r.p \ {"C"}]
    [] op = "SEC" -> [r EXCEPT !.p = r.p \cup {"C"}]
    [] op = "CLI" -> [r EXCEPT !.p = r.p \ {"I"}]
    [] op = "SEI" -> [r EXCEPT !.p = r.p \cup {"I"}]
    [] op = "CLD" -> [r EXCEPT !.p = r.p \ {"D"}]
    [] op = "SED" -> [r EXCEPT !.p = r.p \cup {"D"}]
    [] op = "CLV" -> [r EXCEPT !.p = r.p \ {"V"}]
    [] op = "NOP" -> r

\* Pure stores: the value, except for the unstable ones.
Stores == {"STA", "STX", "STY", "SAX"}
Stored(op, r) ==
  CASE op = "STA" -> r.a [] op = "STX" -> r.x [] op = "STY" -> r.y [] op = "SAX" -> And(r.a, r.x)

-----------------------------------------------------------------------------
(* Reference arithmetic                                                    *)

Signed(v) == IF v >= Top THEN v - Size ELSE v
Flag(r, f) == IF f \in r.p THEN 1 ELSE 0
FlagsFit(r, v) == ("Z" \in r.p <=> v = 0) /\ ("N" \in r.p <=> Signed(v) < 0)

\* r2 is r1 plus m plus a carry: with the carry out the sum is exact, and V tells that
\* the signed sum does not fit.
IsSum(r1, r2, m, c) ==
  /\ Size * Flag(r2, "C") + r2.a = r1.a + m + c
  /\ "V" \in r2.p <=> Signed(r1.a) + Signed(m) + c \notin (-Top)..(Top - 1)
  /\ FlagsFit(r2, r2.a)

\* r2 is r1 minus m minus a borrow.
IsDifference(r1, r2, m, borrow) ==
  /\ r2.a - Size * (1 - Flag(r2, "C")) = r1.a - m - borrow
  /\ "V" \in r2.p <=> Signed(r1.a) - Signed(m) - borrow \notin (-Top)..(Top - 1)
  /\ FlagsFit(r2, r2.a)

\* The flags tell how reg compares with m, as unsigned numbers.
IsComparison(r2, reg, m) ==
  ("C" \in r2.p <=> reg >= m) /\ ("Z" \in r2.p <=> reg = m)
=============================================================================
