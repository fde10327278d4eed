------------------------------- MODULE CpuProofs -------------------------------
(***************************************************************************)
(* Proofs about Cpu, for every set of programs, every operand and every    *)
(* size of sprite memory: types, exact arithmetic, combined instructions   *)
(* as their two parts, the place of an instruction's accesses among its    *)
(* cycles, where a DMA puts its bytes, and that calls and interrupts come  *)
(* back to where they were entered.                                        *)
(*                                                                         *)
(* The registers are followed through every operator (Sound), the bus, the *)
(* ports and the log through every access (Devices), and page $01 through  *)
(* pushes and pulls, each cell counted from the stack pointer (CellOf).    *)
(***************************************************************************)
EXTENDS Cpu, SequenceTheorems, WellFoundedInduction, TLAPS

-----------------------------------------------------------------------------
(* Bytes, words and flags                                                  *)

\* The weights of the bits.
LEMMA Powers ==
  2^0 = 1 /\ 2^1 = 2 /\ 2^2 = 4 /\ 2^3 = 8 /\ 2^4 = 16 /\ 2^5 = 32 /\ 2^6 = 64 /\ 2^7 = 128
OBVIOUS

\* A set of bits makes a byte.
LEMMA ByteOfType ==
  ASSUME NEW K
  PROVE  ByteOf(K) \in Byte
BY Powers DEF ByteOf, Byte, Size

\* The eight flags, and the bit of each.
LEMMA FlagNamesAre == FlagNames = {"C", "Z", "I", "D", "B", "U", "V", "N"}
BY DEF FlagNames, FlagBit

LEMMA FlagBits ==
  /\ FlagBit["C"] = 0 /\ FlagBit["Z"] = 1 /\ FlagBit["I"] = 2 /\ FlagBit["D"] = 3
  /\ FlagBit["B"] = 4 /\ FlagBit["U"] = 5 /\ FlagBit["V"] = 6 /\ FlagBit["N"] = 7
BY DEF FlagBit

\* The eight bits of a sum of powers.
LEMMA SumBits ==
  ASSUME NEW b0 \in 0..1, NEW b1 \in 0..1, NEW b2 \in 0..1, NEW b3 \in 0..1,
         NEW b4 \in 0..1, NEW b5 \in 0..1, NEW b6 \in 0..1, NEW b7 \in 0..1,
         NEW v, v = b0 + 2 * b1 + 4 * b2 + 8 * b3 + 16 * b4 + 32 * b5 + 64 * b6 + 128 * b7
  PROVE  /\ v \in Byte
         /\ Bit(v, 0) = b0 /\ Bit(v, 1) = b1 /\ Bit(v, 2) = b2 /\ Bit(v, 3) = b3
         /\ Bit(v, 4) = b4 /\ Bit(v, 5) = b5 /\ Bit(v, 6) = b6 /\ Bit(v, 7) = b7
<1>1. v \in Byte
  BY DEF Byte, Size
<1>2. v % 2 = b0 /\ (v \div 2) % 2 = b1 /\ (v \div 4) % 2 = b2 /\ (v \div 8) % 2 = b3
  OBVIOUS
<1>3. (v \div 16) % 2 = b4 /\ (v \div 32) % 2 = b5 /\ (v \div 64) % 2 = b6 /\ (v \div 128) % 2 = b7
  OBVIOUS
<1>4. v \div 1 = v
  BY <1>1 DEF Byte, Size
<1> QED  BY <1>1, <1>2, <1>3, <1>4, Powers DEF Bit

\* The byte pushed for P gives the same flags when it is pulled (STACK_PUSH of FLAGS, PLP, RTI).
LEMMA FlagsRoundTrip ==
  ASSUME NEW q, q \subseteq FlagNames
  PROVE  FlagsByte(q) \in Byte /\ FlagsOf(FlagsByte(q)) = q
<1> DEFINE b(f) == IF f \in q THEN 1 ELSE 0
           v == FlagsByte(q)
<1>1. v = b("C") + 2 * b("Z") + 4 * b("I") + 8 * b("D") + 16 * b("B") + 32 * b("U") + 64 * b("V") + 128 * b("N")
  BY Powers, FlagBits DEF FlagsByte
<1>2. \A f : b(f) \in 0..1
  OBVIOUS
<1>3. \A f : f \in q <=> b(f) = 1
  OBVIOUS
<1> HIDE DEF b, v
<1>4. /\ v \in Byte
      /\ Bit(v, 0) = b("C") /\ Bit(v, 1) = b("Z") /\ Bit(v, 2) = b("I") /\ Bit(v, 3) = b("D")
      /\ Bit(v, 4) = b("B") /\ Bit(v, 5) = b("U") /\ Bit(v, 6) = b("V") /\ Bit(v, 7) = b("N")
  BY <1>1, <1>2, SumBits
<1>5. \A f \in FlagNames : Bit(v, FlagBit[f]) = b(f)
  BY <1>4, FlagNamesAre, FlagBits
<1>6. FlagsOf(v) = q
  BY <1>3, <1>5 DEF FlagsOf
<1> QED  BY <1>4, <1>6 DEF v

\* Bytes and words as inequalities.
LEMMA InByte == \A n : n \in Byte <=> n \in Int /\ 0 <= n /\ n <= 255
BY DEF Byte, Size

LEMMA InWord == \A n : n \in Word <=> n \in Int /\ 0 <= n /\ n <= 65535
<1> DEFINE top == Size * Size - 1
<1>1. top = 65535
  BY DEF Size
<1>2. top \in Int
  BY <1>1
<1> HIDE DEF top
<1>3. \A n : n \in 0..top <=> n \in Int /\ 0 <= n /\ n <= top
  BY <1>2
<1>4. \A n : n \in Word <=> n \in Int /\ 0 <= n /\ n <= top
  BY <1>3 DEF Word, top
<1> QED  BY <1>1, <1>4

-----------------------------------------------------------------------------
(* The registers and what instructions make of them                        *)

\* What P may be: bit 4 is not part of it, bit 5 always is.
Flags(q) == q \subseteq FlagNames /\ "U" \in q /\ "B" \notin q

Registers == [a : Byte, x : Byte, y : Byte, s : Byte, p : SUBSET FlagNames]
Sound(r) == r \in Registers /\ Flags(r.p)

\* Setting or clearing a flag keeps bits 4 and 5 of P.
LEMMA WithFlags ==
  ASSUME NEW q, Flags(q), NEW f \in FlagNames \ {"U", "B"}, NEW on
  PROVE  Flags(With(q, f, on))
BY FlagNamesAre DEF With, Flags

LEMMA NZFlags ==
  ASSUME NEW q, Flags(q), NEW v
  PROVE  Flags(NZ(q, v))
<1>1. "Z" \in FlagNames \ {"U", "B"} /\ "N" \in FlagNames \ {"U", "B"}
  BY FlagNamesAre
<1> QED  BY <1>1, WithFlags DEF NZ

\* A register takes a byte, P other flags.
LEMMA SoundSet ==
  ASSUME NEW r, Sound(r), NEW v \in Byte, NEW q, Flags(q)
  PROVE  /\ Sound([r EXCEPT !.a = v]) /\ Sound([r EXCEPT !.x = v])
         /\ Sound([r EXCEPT !.y = v]) /\ Sound([r EXCEPT !.s = v])
         /\ Sound([r EXCEPT !.p = q])
         /\ Sound([r EXCEPT !.a = v, !.p = q]) /\ Sound([r EXCEPT !.x = v, !.p = q])
         /\ Sound([r EXCEPT !.y = v, !.p = q])
<1>1. r \in Registers /\ q \in SUBSET FlagNames /\ Flags(r.p)
  BY DEF Sound, Flags
<1>2. /\ [r EXCEPT !.a = v] \in Registers /\ [r EXCEPT !.a = v].p = r.p
      /\ [r EXCEPT !.x = v] \in Registers /\ [r EXCEPT !.x = v].p = r.p
      /\ [r EXCEPT !.y = v] \in Registers /\ [r EXCEPT !.y = v].p = r.p
      /\ [r EXCEPT !.s = v] \in Registers /\ [r EXCEPT !.s = v].p = r.p
  BY <1>1 DEF Registers
<1>3. [r EXCEPT !.p = q] \in Registers /\ [r EXCEPT !.p = q].p = q
  BY <1>1 DEF Registers
<1>4. [r EXCEPT !.a = v, !.p = q] \in Registers /\ [r EXCEPT !.a = v, !.p = q].p = q
  BY <1>1 DEF Registers
<1>5. [r EXCEPT !.x = v, !.p = q] \in Registers /\ [r EXCEPT !.x = v, !.p = q].p = q
  BY <1>1 DEF Registers
<1>6. [r EXCEPT !.y = v, !.p = q] \in Registers /\ [r EXCEPT !.y = v, !.p = q].p = q
  BY <1>1 DEF Registers
<1> QED  BY <1>1, <1>2, <1>3, <1>4, <1>5, <1>6 DEF Sound

\* What sound registers give.
LEMMA SoundHas ==
  ASSUME NEW r, Sound(r)
  PROVE  /\ r.a \in Byte /\ r.x \in Byte /\ r.y \in Byte /\ r.s \in Byte
         /\ r.p \subseteq FlagNames /\ Flags(r.p) /\ Carry(r) \in 0..1
BY DEF Sound, Registers, Carry

\* Every operator that loads or computes leaves sound registers.
LEMMA LoadSound ==
  ASSUME NEW r, Sound(r), NEW v \in Byte
  PROVE  Sound(LoadA(r, v)) /\ Sound(LoadX(r, v)) /\ Sound(LoadY(r, v))
<1>1. Flags(NZ(r.p, v))
  BY SoundHas, NZFlags
<1> QED  BY <1>1, SoundSet DEF LoadA, LoadX, LoadY

\* Reduced numbers are bytes and words.
LEMMA Residues ==
  \A n \in Int : n % Size \in Byte /\ n % (Size * Size) \in Word
<1> TAKE n \in Int
<1>1. Size = 256 /\ Size * Size = 65536
  BY DEF Size
<1>2. n % 256 \in Int /\ 0 <= n % 256 /\ n % 256 <= 255
  OBVIOUS
<1>3. n % 65536 \in Int /\ 0 <= n % 65536 /\ n % 65536 <= 65535
  OBVIOUS
<1>4. n % Size \in Byte
  BY <1>1, <1>2, InByte
<1>5. n % (Size * Size) \in Word
  BY <1>1, <1>3, InWord
<1> QED  BY <1>4, <1>5

\* The flags that instructions set.
LEMMA SomeFlags == {"C", "Z", "V", "N", "I", "D"} \subseteq FlagNames \ {"U", "B"}
BY FlagNamesAre

LEMMA AddSound ==
  ASSUME NEW r, Sound(r), NEW m \in Byte
  PROVE  Sound(Add(r, m)) /\ Sound(Subtract(r, m)) /\ \A g, n : Sound(Compare(r, g, n))
<1>0. /\ r.a \in Byte /\ Flags(r.p) /\ Carry(r) \in 0..1
  BY SoundHas
<1>1. \A k, l : Flags(With(With(r.p, "C", k), "V", l)) /\ Flags(With(r.p, "C", k))
  BY <1>0, WithFlags, SomeFlags
<1>2. \A k, l, v : Flags(NZ(With(With(r.p, "C", k), "V", l), v)) /\ Flags(NZ(With(r.p, "C", k), v))
  BY <1>1, NZFlags
<1>3. (r.a + m + Carry(r)) % Size \in Byte
  <2>1. \A k, n \in Byte, c \in 0..1 : (k + n + c) % Size \in Byte
    BY DEF Byte, Size
  <2> QED  BY <1>0, <2>1
<1>4. ((r.a + (-m - 1) + Carry(r)) % (Size * Size)) % Size \in Byte
  <2>1. \A k, n \in Byte, c \in 0..1 : ((k + (-n - 1) + c) % (Size * Size)) % Size \in Byte
    BY DEF Byte, Size
  <2> QED  BY <1>0, <2>1
<1>5. Sound(Add(r, m))
  BY <1>2, <1>3, SoundSet DEF Add
<1>6. Sound(Subtract(r, m))
  BY <1>2, <1>4, SoundSet DEF Subtract
<1> QED  BY <1>2, <1>5, <1>6, SoundSet DEF Compare

\* Results of the logical operators and of a right shift.
LEMMA LogicBytes ==
  \A v, w : And(v, w) \in Byte /\ Or(v, w) \in Byte /\ Xor(v, w) \in Byte
BY ByteOfType DEF And, Or, Xor

LEMMA Halves ==
  \A v \in Byte : v \div 2 \in Byte /\ v \div 2 < Top
BY DEF Byte, Size, Top

\* Every instruction that reads leaves proper registers.
LEMMA OperateSound ==
  ASSUME NEW r, Sound(r), NEW m \in Byte, NEW op \in Reads
  PROVE  Sound(Operate(op, r, m))
<1>1. /\ r.a \in Byte /\ r.x \in Byte /\ r.y \in Byte /\ Flags(r.p) /\ Carry(r) \in 0..1
  BY SoundHas
<1>2. /\ Sound(Add(r, m)) /\ Sound(Subtract(r, m))
      /\ \A g, n : Sound(Compare(r, g, n))
  BY AddSound
<1>3. \A v \in Byte : Sound(LoadA(r, v)) /\ Sound(LoadX(r, v)) /\ Sound(LoadY(r, v))
  BY LoadSound
<1>4. And(r.a, m) \in Byte /\ Or(r.a, m) \in Byte /\ Xor(r.a, m) \in Byte
      /\ And(Or(r.a, 238), And(r.x, m)) \in Byte /\ And(r.a, r.x) \in Byte
  BY LogicBytes
<1>5. Sound(BitTest(r, m))
  BY <1>1, WithFlags, SomeFlags, SoundSet DEF BitTest
<1>6. Sound([LoadA(r, m) EXCEPT !.x = m])
  <2>1. Sound(LoadA(r, m))
    BY <1>3
  <2> QED  BY <1>1, <2>1, SoundSet
<1>7. \A q : Sound(q) => \A on : Sound([q EXCEPT !.p = With(q.p, "C", on)])
  <2> SUFFICES ASSUME NEW q, Sound(q), NEW on
               PROVE  Sound([q EXCEPT !.p = With(q.p, "C", on)])
    OBVIOUS
  <2>1. Flags(With(q.p, "C", on))
    BY SoundHas, WithFlags, SomeFlags
  <2> QED  BY <2>1, <1>1, SoundSet
<1>8. Sound(RotateAnd(r, m))
  <2> DEFINE v == And(r.a, m) \div 2 + ShiftIn(r)
             q == LoadA(r, v)
             new == With(With(q.p, "C", Bit(v, 6) = 1), "V", Bit(v, 6) # Bit(v, 5))
  <2>1. v \in Byte
    <3>1. \A n \in Byte, c \in 0..1 : n \div 2 + c * Top \in Byte
      BY DEF Byte, Size, Top
    <3> QED  BY <1>1, <1>4, <3>1 DEF ShiftIn
  <2> HIDE DEF v
  <2>2. Sound(q)
    BY <1>3, <2>1
  <2> HIDE DEF q
  <2>3. Flags(new)
    BY <2>2, SoundHas, WithFlags, SomeFlags
  <2>4. RotateAnd(r, m) = [q EXCEPT !.p = new]
    BY DEF RotateAnd, q, v
  <2> HIDE DEF new
  <2>5. Sound([q EXCEPT !.p = new])
    BY <1>1, <2>2, <2>3, SoundSet
  <2> QED  BY <2>4, <2>5
<1>9. Sound(SubtractX(r, m))
  <2> DEFINE q == [r EXCEPT !.p = With(r.p, "C", And(r.a, r.x) >= m)]
  <2>1. Sound(q)
    BY <1>7
  <2>2. (And(r.a, r.x) - m) % Size \in Byte
    <3>1. \A n, k \in Byte : (n - k) % Size \in Byte
      BY DEF Byte, Size
    <3> QED  BY <1>4, <3>1
  <2>3. SubtractX(r, m) = LoadX(q, (And(r.a, r.x) - m) % Size)
    BY DEF SubtractX
  <2> HIDE DEF q
  <2> QED  BY <2>1, <2>2, <2>3, LoadSound
<1>10. Sound([LoadA(r, And(r.a, m)) EXCEPT
               !.p = With(LoadA(r, And(r.a, m)).p, "C", Sign(LoadA(r, And(r.a, m)).a) = 1)])
  BY <1>3, <1>4, <1>7
<1>11. Sound(LoadA([r EXCEPT !.p = With(r.p, "C", And(r.a, m) % 2 = 1)], And(r.a, m) \div 2))
  <2> DEFINE q == [r EXCEPT !.p = With(r.p, "C", And(r.a, m) % 2 = 1)]
  <2>1. Sound(q)
    BY <1>7
  <2>2. And(r.a, m) \div 2 \in Byte
    BY <1>4, Halves
  <2> HIDE DEF q
  <2>3. Sound(LoadA(q, And(r.a, m) \div 2))
    BY <2>1, <2>2, LoadSound
  <2> QED  BY <2>3 DEF q
<1>12. CASE op \in {"ADC", "SBC", "AND", "ORA", "EOR", "CMP", "CPX", "CPY", "BIT"}
  BY <1>2, <1>3, <1>4, <1>5, <1>12 DEF Operate
<1>13. CASE op \in {"LDA", "LDX", "LDY", "LAX", "ATX", "NOP", "XAA"}
  BY <1>3, <1>4, <1>6, <1>13 DEF Operate
<1>14. CASE op \in {"ANC", "ALR", "ARR", "AXS"}
  BY <1>8, <1>9, <1>10, <1>11, <1>14 DEF Operate
<1> QED  BY <1>12, <1>13, <1>14 DEF Reads

\* The byte a read-modify-write instruction writes.
LEMMA WrittenByte ==
  ASSUME NEW r, Sound(r), NEW m \in Byte, NEW op \in Rmw
  PROVE  Written(op, r, m) \in Byte
<1>1. Carry(r) \in 0..1
  BY SoundHas
<1>2. \A n \in Byte, c \in 0..1 :
        /\ (2 * n) % Size \in Byte /\ (2 * n + c) % Size \in Byte
        /\ n \div 2 \in Byte /\ n \div 2 + c * Top \in Byte
        /\ (n + 1) % Size \in Byte /\ (n - 1) % Size \in Byte
  BY DEF Byte, Size, Top
<1>3. /\ (2 * m) % Size \in Byte /\ (2 * m + Carry(r)) % Size \in Byte
      /\ m \div 2 \in Byte /\ m \div 2 + ShiftIn(r) \in Byte
      /\ (m + 1) % Size \in Byte /\ (m - 1) % Size \in Byte
  BY <1>1, <1>2 DEF ShiftIn
<1>4. CASE op \in {"ASL", "SLO"}
  BY <1>3, <1>4 DEF Written
<1>5. CASE op \in {"ROL", "RLA"}
  BY <1>3, <1>5 DEF Written
<1>6. CASE op \in {"LSR", "SRE"}
  BY <1>3, <1>6 DEF Written
<1>7. CASE op \in {"ROR", "RRA"}
  BY <1>3, <1>7 DEF Written
<1>8. CASE op \in {"INC", "ISB"}
  BY <1>3, <1>8 DEF Written
<1>9. CASE op \in {"DEC", "DCP", "LAS"}
  BY <1>3, <1>9 DEF Written
<1> QED  BY <1>4, <1>5, <1>6, <1>7, <1>8, <1>9 DEF Rmw

\* Every instruction that changes memory leaves proper registers.
LEMMA ModifySound ==
  ASSUME NEW r, Sound(r), NEW m \in Byte, NEW op \in Rmw
  PROVE  Sound(Modify(op, r, m))
<1> DEFINE v == Written(op, r, m)
           q == Shifted(op, r, m)
<1>1. v \in Byte
  BY WrittenByte
<1>2. Sound(q)
  <2>1. /\ r.a \in Byte /\ Flags(r.p)
        /\ \A on : Flags(With(r.p, "C", on))
    BY SoundHas, WithFlags, SomeFlags
  <2>2. Sound([r EXCEPT !.p = With(r.p, "C", Sign(m) = 1)])
        /\ Sound([r EXCEPT !.p = With(r.p, "C", m % 2 = 1)])
        /\ Sound([r EXCEPT !.p = r.p])
    BY <2>1, SoundSet
  <2>3. CASE op \in LeftShifts
    BY <2>2, <2>3 DEF Shifted
  <2>4. CASE op \notin LeftShifts /\ op \in RightShifts
    BY <2>2, <2>4 DEF Shifted
  <2>5. CASE op \notin LeftShifts /\ op \notin RightShifts
    BY <2>2, <2>5 DEF Shifted
  <2> QED  BY <2>3, <2>4, <2>5
<1> HIDE DEF v, q
<1>3. Sound([q EXCEPT !.p = NZ(q.p, v)])
  <2>1. q.a \in Byte /\ Flags(NZ(q.p, v))
    BY <1>2, SoundHas, NZFlags
  <2> QED  BY <1>2, <2>1, SoundSet
<1>4. \A n \in Byte : Sound(LoadA(q, n))
  BY <1>2, LoadSound
<1>5. Or(r.a, v) \in Byte /\ And(r.a, v) \in Byte /\ Xor(r.a, v) \in Byte /\ And(m, r.s) \in Byte
  BY LogicBytes
<1>6. Sound(Add(q, v)) /\ Sound(Subtract(r, v)) /\ Sound(Compare(r, r.a, v))
  BY <1>1, <1>2, AddSound
<1>7. Sound(LoadX(LoadA([r EXCEPT !.s = And(m, r.s)], And(m, r.s)), And(m, r.s)))
  <2>1. Flags(r.p)
    BY SoundHas
  <2>2. Sound([r EXCEPT !.s = And(m, r.s)])
    BY <1>5, <2>1, SoundSet
  <2>3. Sound(LoadA([r EXCEPT !.s = And(m, r.s)], And(m, r.s)))
    BY <1>5, <2>2, LoadSound
  <2> QED  BY <1>5, <2>3, LoadSound
<1>8. Modify(op, r, m) =
        CASE op \in {"ASL", "LSR", "ROL", "ROR", "INC", "DEC"} -> [q EXCEPT !.p = NZ(q.p, v)]
          [] op = "SLO" -> LoadA(q, Or(r.a, v))
          [] op = "RLA" -> LoadA(q, And(r.a, v))
          [] op = "SRE" -> LoadA(q, Xor(r.a, v))
          [] op = "RRA" -> Add(q, v)
          [] op = "DCP" -> Compare(r, r.a, v)
          [] op = "ISB" -> Subtract(r, v)
          [] op = "LAS" -> LoadX(LoadA([r EXCEPT !.s = And(m, r.s)], And(m, r.s)), And(m, r.s))
  BY DEF Modify, v, q
<1>9. CASE op \in {"ASL", "LSR", "ROL", "ROR", "INC", "DEC"}
  BY <1>3, <1>8, <1>9
<1>10. CASE op \in {"SLO", "RLA", "SRE"}
  BY <1>4, <1>5, <1>8, <1>10
<1>11. CASE op \in {"RRA", "DCP", "ISB"}
  BY <1>6, <1>8, <1>11
<1>12. CASE op = "LAS"
  BY <1>7, <1>8, <1>12
<1> QED  BY <1>9, <1>10, <1>11, <1>12 DEF Rmw

\* Instructions without an operand.
LEMMA ImplySound ==
  ASSUME NEW r, Sound(r), NEW op \in Implied
  PROVE  Sound(Imply(op, r))
<1>1. /\ r.a \in Byte /\ r.x \in Byte /\ r.y \in Byte /\ r.s \in Byte /\ Flags(r.p)
  BY SoundHas
<1>2. \A v \in Byte : Sound(LoadA(r, v)) /\ Sound(LoadX(r, v)) /\ Sound(LoadY(r, v))
  BY LoadSound
<1>3. \A n \in Byte : (n + 1) % Size \in Byte /\ (n - 1) % Size \in Byte
  BY DEF Byte, Size
<1>4. \A f \in {"C", "I", "D", "V"} : Flags(r.p \cup {f}) /\ Flags(r.p \ {f})
  BY <1>1, FlagNamesAre DEF Flags
<1>5. \A q : Flags(q) => Sound([r EXCEPT !.p = q])
  BY <1>1, SoundSet
<1>6. \A f \in {"C", "I", "D", "V"} :
        Sound([r EXCEPT !.p = r.p \cup {f}]) /\ Sound([r EXCEPT !.p = r.p \ {f}])
  BY <1>4, <1>5
<1>7. Sound([r EXCEPT !.s = r.x])
  BY <1>1, SoundSet
<1>8. CASE op \in {"INX", "INY", "DEX", "DEY"}
  BY <1>1, <1>2, <1>3, <1>8 DEF Imply
<1>9. CASE op \in {"TAX", "TAY", "TXA", "TYA", "TSX", "TXS", "NOP"}
  BY <1>1, <1>2, <1>7, <1>9 DEF Imply
<1>10. CASE op \in {"CLC", "SEC", "CLI", "SEI"}
  BY <1>6, <1>10 DEF Imply
<1>11. CASE op \in {"CLD", "SED", "CLV"}
  BY <1>6, <1>11 DEF Imply
<1> QED  BY <1>8, <1>9, <1>10, <1>11 DEF Implied

\* The byte a store writes.
LEMMA StoredByte ==
  ASSUME NEW r, Sound(r), NEW op \in Stores
  PROVE  Stored(op, r) \in Byte
BY SoundHas, LogicBytes DEF Stored, Stores

-----------------------------------------------------------------------------
(* The PPU's registers and sprite memory                                   *)

\* Induction over the naturals, by the set of those that satisfy the claim.
LEMMA SetInduction ==
  ASSUME NEW S, 0 \in S, \A n \in Nat : n \in S => n + 1 \in S
  PROVE  Nat \subseteq S
<1> DEFINE R == OpToRel(<, Nat)
           T == Nat \ S
<1> SUFFICES ASSUME T # {} PROVE FALSE
  OBVIOUS
<1>1. IsWellFoundedOn(R, Nat)
  BY NatLessThanWellFounded
<1>2. \A x, y \in Nat : y < x => <<y, x>> \in R
  BY DEF OpToRel
<1> HIDE DEF R
<1>3. PICK x \in T : \A y \in T : ~(<<y, x>> \in R)
  BY <1>1, WFMin
<1>4. x \in Nat /\ x \notin S /\ x # 0
  OBVIOUS
<1>5. x - 1 \in Nat /\ x - 1 < x
  BY <1>4
<1>6. <<x - 1, x>> \in R
  BY <1>2, <1>4, <1>5
<1>7. x - 1 \in S
  BY <1>3, <1>5, <1>6
<1>8. (x - 1) + 1 \in S
  BY <1>5, <1>7
<1> QED  BY <1>4, <1>8

\* The sizes of sprite memory.
LEMMA OamFacts ==
  /\ OamSize \in Nat /\ 1 <= OamSize /\ OamSize <= 256 /\ OamHead \in 1..OamSize
  /\ OamIndex = 0..(OamSize - 1) /\ 0 \in OamIndex
  /\ \A n \in Int : n % OamSize \in OamIndex /\ n % OamHead \in OamIndex
<1>1. OamSize \in Nat /\ 1 <= OamSize /\ OamSize <= 256 /\ OamHead \in 1..OamSize
  BY OamAssumption DEF Size
<1>2. OamSize \in Nat \ {0} /\ OamHead \in Nat \ {0} /\ OamHead <= OamSize
  BY <1>1
<1>3. \A n \in Int, k \in Nat \ {0} : n % k \in 0..(k - 1)
  OBVIOUS
<1>4. \A n \in Int : n % OamSize \in OamIndex /\ n % OamHead \in OamIndex
  <2> TAKE n \in Int
  <2>1. n % OamSize \in 0..(OamSize - 1) /\ n % OamHead \in 0..(OamHead - 1)
    BY <1>2, <1>3
  <2> QED  BY <1>2, <2>1 DEF OamIndex
<1>5. OamIndex = 0..(OamSize - 1) /\ 0 \in OamIndex
  BY <1>1 DEF OamIndex
<1> QED  BY <1>1, <1>4, <1>5

\* A counter reduced to sprite memory.
LEMMA OamResidue == \A n \in Int : n % OamSize \in OamIndex
BY OamFacts

PpuState == [vblank : BOOLEAN, latch : Byte, oamAddr : OamIndex, oamCount : OamIndex,
             oam : [OamIndex -> Byte]]

LEMMA PpuSet ==
  ASSUME NEW u \in PpuState
  PROVE  /\ \A v \in Byte : [u EXCEPT !.latch = v] \in PpuState
         /\ \A v \in Byte, n, k \in OamIndex :
              [u EXCEPT !.latch = v, !.oamAddr = n, !.oamCount = k] \in PpuState
         /\ \A v \in Byte : [u EXCEPT !.vblank = FALSE, !.latch = v] \in PpuState
<1>1. \A v \in Byte : [u EXCEPT !.latch = v] \in PpuState
  BY DEF PpuState
<1>2. \A v \in Byte, n, k \in OamIndex :
        [u EXCEPT !.latch = v, !.oamAddr = n, !.oamCount = k] \in PpuState
  BY DEF PpuState
<1>3. \A v \in Byte : [u EXCEPT !.vblank = FALSE, !.latch = v] \in PpuState
  BY DEF PpuState
<1> QED  BY <1>1, <1>2, <1>3

\* A register read keeps the PPU's types and its sprite memory.
LEMMA PortReadState ==
  ASSUME NEW u \in PpuState, NEW reg
  PROVE  /\ PortValue(u, reg, 0) \in Byte
         /\ PortRead(u, reg, 0) \in PpuState
         /\ PortRead(u, reg, 0).oam = u.oam
         /\ PortRead(u, reg, 0).oamAddr = u.oamAddr
         /\ PortRead(u, reg, 0).oamCount = u.oamCount
<1>1. u.latch \in Byte /\ 0 \in Byte
  BY DEF PpuState, Byte, Size
<1>2. StatusByte(u) \in Byte
  <2>1. \A n \in Byte : Top + (n % Top) \in Byte /\ 0 + (n % Top) \in Byte
    BY DEF Byte, Size, Top
  <2> QED  BY <1>1, <2>1 DEF StatusByte
<1>3. CASE reg = 2
  <2>1. PortRead(u, reg, 0) = [u EXCEPT !.vblank = FALSE, !.latch = StatusByte(u)]
    BY <1>3 DEF PortRead
  <2>2. [u EXCEPT !.vblank = FALSE, !.latch = StatusByte(u)] \in PpuState
    BY <1>2, PpuSet
  <2>3. PortValue(u, reg, 0) \in Byte
    BY <1>2, <1>3 DEF PortValue
  <2> QED  BY <2>1, <2>2, <2>3 DEF PpuState
<1>4. CASE reg = 7
  <2>1. PortRead(u, reg, 0) = [u EXCEPT !.latch = 0]
    BY <1>4 DEF PortRead
  <2>2. [u EXCEPT !.latch = 0] \in PpuState
    BY <1>1, PpuSet
  <2>3. PortValue(u, reg, 0) \in Byte
    BY <1>1, <1>4 DEF PortValue
  <2> QED  BY <2>1, <2>2, <2>3 DEF PpuState
<1>5. CASE reg # 2 /\ reg # 7
  BY <1>1, <1>5 DEF PortRead, PortValue
<1> QED  BY <1>3, <1>4, <1>5

\* A byte written to $2004: where it goes, and how address and counter move on.
LEMMA OamWrite ==
  ASSUME NEW u \in PpuState, NEW v \in Byte
  PROVE  /\ WriteOam(u, v) \in PpuState
         /\ WriteOam(u, v).oamAddr = (u.oamAddr + 1) % OamSize
         /\ WriteOam(u, v).oamCount = (u.oamCount + 1) % OamSize
         /\ \A k \in OamIndex :
              WriteOam(u, v).oam[k] =
                IF u.oamCount < OamHead THEN (IF k = u.oamCount THEN v ELSE u.oam[k])
                ELSE IF u.oamAddr >= OamHead THEN (IF k = u.oamAddr THEN v ELSE u.oam[k])
                ELSE u.oam[k]
<1> DEFINE moved == [u EXCEPT !.latch = v, !.oamAddr = (u.oamAddr + 1) % OamSize,
                              !.oamCount = (u.oamCount + 1) % OamSize]
<1>1. u.oamAddr \in OamIndex /\ u.oamCount \in OamIndex /\ u.oam \in [OamIndex -> Byte]
  BY DEF PpuState
<1>2. (u.oamAddr + 1) % OamSize \in OamIndex /\ (u.oamCount + 1) % OamSize \in OamIndex
  <2>1. u.oamAddr + 1 \in Int /\ u.oamCount + 1 \in Int
    <3>1. \A n \in OamIndex : n + 1 \in Int
      BY OamFacts DEF OamIndex
    <3> QED  BY <1>1, <3>1
  <2> QED  BY <2>1, OamFacts
<1>3. moved \in PpuState
  BY <1>2, PpuSet
<1>4. /\ moved.oamAddr = (u.oamAddr + 1) % OamSize
      /\ moved.oamCount = (u.oamCount + 1) % OamSize
      /\ moved.oam = u.oam
  BY DEF PpuState
<1>5. \A q \in PpuState, n \in OamIndex :
        /\ [q EXCEPT !.oam[n] = v] \in PpuState
        /\ [q EXCEPT !.oam[n] = v].oamAddr = q.oamAddr
        /\ [q EXCEPT !.oam[n] = v].oamCount = q.oamCount
        /\ \A k \in OamIndex : [q EXCEPT !.oam[n] = v].oam[k] = IF k = n THEN v ELSE q.oam[k]
  <2> SUFFICES ASSUME NEW q \in PpuState, NEW n \in OamIndex
               PROVE  /\ [q EXCEPT !.oam[n] = v] \in PpuState
                      /\ [q EXCEPT !.oam[n] = v].oamAddr = q.oamAddr
                      /\ [q EXCEPT !.oam[n] = v].oamCount = q.oamCount
                      /\ \A k \in OamIndex :
                           [q EXCEPT !.oam[n] = v].oam[k] = IF k = n THEN v ELSE q.oam[k]
    OBVIOUS
  <2>1. [q EXCEPT !.oam[n] = v] = [q EXCEPT !.oam = [q.oam EXCEPT ![n] = v]]
    BY DEF PpuState
  <2>2. [q.oam EXCEPT ![n] = v] \in [OamIndex -> Byte]
    BY DEF PpuState
  <2>3. [q EXCEPT !.oam = [q.oam EXCEPT ![n] = v]] \in PpuState
    BY <2>2 DEF PpuState
  <2>4. \A k \in OamIndex : [q.oam EXCEPT ![n] = v][k] = IF k = n THEN v ELSE q.oam[k]
    BY DEF PpuState
  <2>5. /\ [q EXCEPT !.oam = [q.oam EXCEPT ![n] = v]].oam = [q.oam EXCEPT ![n] = v]
        /\ [q EXCEPT !.oam = [q.oam EXCEPT ![n] = v]].oamAddr = q.oamAddr
        /\ [q EXCEPT !.oam = [q.oam EXCEPT ![n] = v]].oamCount = q.oamCount
    BY DEF PpuState
  <2> QED  BY <2>1, <2>3, <2>4, <2>5
<1>6. WriteOam(u, v) = IF u.oamCount < OamHead THEN [moved EXCEPT !.oam[u.oamCount] = v]
                       ELSE IF u.oamAddr >= OamHead THEN [moved EXCEPT !.oam[u.oamAddr] = v]
                       ELSE moved
  BY DEF WriteOam
<1> HIDE DEF moved
<1>7. CASE u.oamCount < OamHead
  <2>1. WriteOam(u, v) = [moved EXCEPT !.oam[u.oamCount] = v]
    BY <1>6, <1>7
  <2> DEFINE w == [moved EXCEPT !.oam[u.oamCount] = v]
  <2>2. /\ w \in PpuState /\ w.oamAddr = moved.oamAddr /\ w.oamCount = moved.oamCount
        /\ \A k \in OamIndex : w.oam[k] = IF k = u.oamCount THEN v ELSE moved.oam[k]
    BY <1>1, <1>3, <1>5
  <2>3. WriteOam(u, v) = w
    BY <2>1
  <2> HIDE DEF w
  <2> QED  BY <1>4, <1>7, <2>2, <2>3
<1>8. CASE ~(u.oamCount < OamHead) /\ u.oamAddr >= OamHead
  <2>1. WriteOam(u, v) = [moved EXCEPT !.oam[u.oamAddr] = v]
    BY <1>6, <1>8
  <2> DEFINE w == [moved EXCEPT !.oam[u.oamAddr] = v]
  <2>2. /\ w \in PpuState /\ w.oamAddr = moved.oamAddr /\ w.oamCount = moved.oamCount
        /\ \A k \in OamIndex : w.oam[k] = IF k = u.oamAddr THEN v ELSE moved.oam[k]
    BY <1>1, <1>3, <1>5
  <2>3. WriteOam(u, v) = w
    BY <2>1
  <2> HIDE DEF w
  <2> QED  BY <1>4, <1>8, <2>2, <2>3
<1>9. CASE ~(u.oamCount < OamHead) /\ ~(u.oamAddr >= OamHead)
  <2>1. WriteOam(u, v) = moved
    BY <1>6, <1>9
  <2> QED  BY <1>3, <1>4, <1>9, <2>1
<1> QED  BY <1>7, <1>8, <1>9

\* A register write keeps the PPU's types.
LEMMA PortWriteState ==
  ASSUME NEW u \in PpuState, NEW reg, NEW v \in Byte
  PROVE  PortWrite(u, reg, v) \in PpuState
<1>1. CASE reg = 3
  <2>1. v \in Int
    BY DEF Byte, Size
  <2>2. v % OamSize \in OamIndex /\ v % OamHead \in OamIndex
    BY <2>1, OamFacts
  <2>3. [u EXCEPT !.latch = v, !.oamAddr = v % OamSize, !.oamCount = v % OamHead] \in PpuState
    BY <2>2, PpuSet
  <2> QED  BY <1>1, <2>3 DEF PortWrite
<1>2. CASE reg = 4
  BY <1>2, OamWrite DEF PortWrite
<1>3. CASE reg # 3 /\ reg # 4
  <2>1. [u EXCEPT !.latch = v] \in PpuState
    BY PpuSet
  <2> QED  BY <1>3, <2>1 DEF PortWrite
<1> QED  BY <1>1, <1>2, <1>3

-----------------------------------------------------------------------------
(* Accesses of the bus                                                     *)

Accesses == [op : {"read", "write"}, addr : Word, val : Byte, at : Nat]
Devices == [bus : Byte, ppu : PpuState, stack : [Byte -> Byte], val : Byte,
            log : Seq(Accesses), stolen : Nat]

ReadOf(addr, v, at) == [op |-> "read", addr |-> addr, val |-> v, at |-> at]
WriteOf(addr, v, at) == [op |-> "write", addr |-> addr, val |-> v, at |-> at]

\* The parts of a device.
LEMMA DeviceHas ==
  ASSUME NEW d \in Devices
  PROVE  /\ d.bus \in Byte /\ d.ppu \in PpuState /\ d.stack \in [Byte -> Byte] /\ d.val \in Byte
         /\ d.log \in Seq(Accesses) /\ d.stolen \in Nat
BY DEF Devices

\* A read: a byte, one more line in the log, and nothing written; RAM gives what is there.
LEMMA ReadValue ==
  ASSUME NEW d \in Devices, NEW addr \in Word, NEW at \in Nat
  PROVE  /\ BusRead(d, addr, at) \in Devices
         /\ BusRead(d, addr, at).log = Append(d.log, ReadOf(addr, BusRead(d, addr, at).val, at))
         /\ BusRead(d, addr, at).stolen = d.stolen
         /\ BusRead(d, addr, at).stack = d.stack
         /\ BusRead(d, addr, at).ppu.oam = d.ppu.oam
         /\ BusRead(d, addr, at).ppu.oamAddr = d.ppu.oamAddr
         /\ BusRead(d, addr, at).ppu.oamCount = d.ppu.oamCount
         /\ AreaOf(addr) = "memory" => BusRead(d, addr, at).val = addr % Size
         /\ AreaOf(addr) = "stack" => BusRead(d, addr, at).val = d.stack[addr % Size]
<1> DEFINE area == AreaOf(addr)
           v == CASE area = "memory" -> addr % Size
                  [] area = "stack" -> d.stack[addr % Size]
                  [] area = "ppu" -> PortValue(d.ppu, addr % 8, 0)
                  [] area = "open" -> d.bus
           u == IF area = "ppu" THEN PortRead(d.ppu, addr % 8, 0) ELSE d.ppu
           l == Append(d.log, ReadOf(addr, v, at))
<1>0. area \in {"memory", "stack", "ppu", "open"}
  BY DEF AreaOf
<1>1. v \in Byte
  <2>1. addr % Size \in Byte
    BY DEF Word, Byte, Size
  <2>2. d.stack[addr % Size] \in Byte
    BY <2>1, DeviceHas
  <2> HIDE DEF area
  <2> QED  BY <1>0, <2>1, <2>2, DeviceHas, PortReadState
<1>2. /\ u \in PpuState /\ u.oam = d.ppu.oam /\ u.oamAddr = d.ppu.oamAddr
      /\ u.oamCount = d.ppu.oamCount
  BY DeviceHas, PortReadState
<1>3. l \in Seq(Accesses)
  <2>1. ReadOf(addr, v, at) \in Accesses
    BY <1>1 DEF ReadOf, Accesses
  <2>2. d.log \in Seq(Accesses)
    BY DeviceHas
  <2> QED  BY <2>1, <2>2, AppendProperties
<1>4. BusRead(d, addr, at) = [d EXCEPT !.bus = v, !.val = v, !.ppu = u, !.log = l]
  BY DEF BusRead, ReadOf
<1>5. /\ area = "memory" => v = addr % Size
      /\ area = "stack" => v = d.stack[addr % Size]
  OBVIOUS
<1>6. l = Append(d.log, ReadOf(addr, v, at))
  OBVIOUS
<1> HIDE DEF v, u, l
<1>7. [d EXCEPT !.bus = v, !.val = v, !.ppu = u, !.log = l] \in Devices
  BY <1>1, <1>2, <1>3 DEF Devices
<1> DEFINE e == [d EXCEPT !.bus = v, !.val = v, !.ppu = u, !.log = l]
<1>8. e.val = v /\ e.log = l /\ e.stolen = d.stolen /\ e.stack = d.stack /\ e.ppu = u
  BY DEF Devices
<1>9. BusRead(d, addr, at) = e /\ e \in Devices
  BY <1>4, <1>7
<1> HIDE DEF e
<1> QED  BY <1>2, <1>5, <1>6, <1>8, <1>9 DEF area

\* The bytes of a page.
LEMMA PageAndByte ==
  ASSUME NEW n \in Byte, NEW k \in Byte
  PROVE  /\ n * Size + k \in Word
         /\ (n * Size + k) % Size = k
         /\ (n * Size + k) \div Size = n
<1>1. n \in Int /\ k \in Int /\ 0 <= n /\ n <= 255 /\ 0 <= k /\ k <= 255
  BY InByte
<1>2. n * 256 + k <= 65535 /\ n * 256 + k >= 0 /\ n * 256 + k \in Int
  BY <1>1
<1>3. (n * 256 + k) % 256 = k /\ (n * 256 + k) \div 256 = n
  BY <1>1
<1>4. n * Size + k = n * 256 + k /\ Size = 256
  BY DEF Size
<1> QED  BY <1>2, <1>3, <1>4, InWord

\* One byte of a DMA: where it goes, and what moves on.
CopiedOne(d, page, i, e) ==
  /\ e \in Devices
  /\ e.log = d.log /\ e.stolen = d.stolen + 2 /\ e.stack = d.stack
  /\ \E v \in Byte :
       /\ AreaOf(page * Size + i) = "memory" => v = i
       /\ AreaOf(page * Size + i) = "stack" => v = d.stack[i]
       /\ e.ppu.oamAddr = (d.ppu.oamAddr + 1) % OamSize
       /\ e.ppu.oamCount = (d.ppu.oamCount + 1) % OamSize
       /\ \A k \in OamIndex :
            e.ppu.oam[k] =
              IF d.ppu.oamCount < OamHead THEN (IF k = d.ppu.oamCount THEN v ELSE d.ppu.oam[k])
              ELSE IF d.ppu.oamAddr >= OamHead THEN (IF k = d.ppu.oamAddr THEN v ELSE d.ppu.oam[k])
              ELSE d.ppu.oam[k]

\* The $4014 handler, one byte at a time.
LEMMA CopyByteState ==
  ASSUME NEW d \in Devices, NEW page \in Byte, NEW i \in OamIndex, NEW cost \in Nat
  PROVE  CopiedOne(d, page, i, CopyByte(d, page, i, cost))
<1> DEFINE addr == page * Size + i
           at == cost + d.stolen + 1
           q == BusRead(d, addr, at)
           w == WriteOam(q.ppu, q.val)
           e == CopyByte(d, page, i, cost)
           copied == [q EXCEPT !.ppu = w, !.log = d.log, !.stolen = d.stolen + 2]
<1>1. addr \in Word /\ addr % Size = i /\ at \in Nat
  <2>1. page \in Byte /\ i \in Byte
    <3>1. i \in Int /\ 0 <= i /\ i <= OamSize - 1 /\ OamSize \in Nat /\ OamSize <= 256
      BY OamFacts DEF OamIndex
    <3>2. i <= 255
      BY <3>1
    <3> QED  BY <3>1, <3>2, InByte
  <2>2. page * Size + i \in Word /\ (page * Size + i) % Size = i
    BY <2>1, PageAndByte
  <2>3. cost + d.stolen + 1 \in Nat
    BY DeviceHas
  <2> QED  BY <2>2, <2>3
<1> HIDE DEF addr, at
<1>2. /\ q \in Devices /\ q.stack = d.stack /\ q.ppu.oam = d.ppu.oam
      /\ q.ppu.oamAddr = d.ppu.oamAddr /\ q.ppu.oamCount = d.ppu.oamCount
      /\ AreaOf(addr) = "memory" => q.val = addr % Size
      /\ AreaOf(addr) = "stack" => q.val = d.stack[addr % Size]
  BY <1>1, ReadValue
<1> HIDE DEF q
<1>3. q.ppu \in PpuState /\ q.val \in Byte
  BY <1>2, DeviceHas
<1>4. /\ w \in PpuState
      /\ w.oamAddr = (q.ppu.oamAddr + 1) % OamSize
      /\ w.oamCount = (q.ppu.oamCount + 1) % OamSize
      /\ \A k \in OamIndex :
              w.oam[k] =
                IF q.ppu.oamCount < OamHead THEN (IF k = q.ppu.oamCount THEN q.val ELSE q.ppu.oam[k])
                ELSE IF q.ppu.oamAddr >= OamHead THEN (IF k = q.ppu.oamAddr THEN q.val ELSE q.ppu.oam[k])
                ELSE q.ppu.oam[k]
  BY <1>3, OamWrite
<1>5. e = copied
  BY DEF CopyByte, PortWrite, copied, w, q, addr, at
<1> HIDE DEF e, w
<1>6. /\ copied \in Devices /\ copied.log = d.log /\ copied.stolen = d.stolen + 2
      /\ copied.stack = q.stack /\ copied.ppu = w
  <2>1. d.log \in Seq(Accesses) /\ d.stolen + 2 \in Nat
    BY DeviceHas
  <2> QED  BY <1>2, <1>4, <2>1 DEF Devices
<1> HIDE DEF copied
<1>7. /\ AreaOf(addr) = "memory" => q.val = i
      /\ AreaOf(addr) = "stack" => q.val = d.stack[i]
      /\ e.ppu.oamAddr = (d.ppu.oamAddr + 1) % OamSize
      /\ e.ppu.oamCount = (d.ppu.oamCount + 1) % OamSize
      /\ \A k \in OamIndex :
           e.ppu.oam[k] =
             IF d.ppu.oamCount < OamHead THEN (IF k = d.ppu.oamCount THEN q.val ELSE d.ppu.oam[k])
             ELSE IF d.ppu.oamAddr >= OamHead THEN (IF k = d.ppu.oamAddr THEN q.val ELSE d.ppu.oam[k])
             ELSE d.ppu.oam[k]
  BY <1>1, <1>2, <1>4, <1>5, <1>6
<1>8. e \in Devices /\ e.log = d.log /\ e.stolen = d.stolen + 2 /\ e.stack = d.stack
  BY <1>2, <1>5, <1>6
<1>9. CopiedOne(d, page, i, e)
  BY <1>3, <1>7, <1>8 DEF addr, CopiedOne
<1> QED  BY <1>9 DEF e

-----------------------------------------------------------------------------
(* Remainders                                                              *)

\* Quotient and remainder give the number back.
LEMMA ModQuotient ==
  ASSUME NEW M \in Nat \ {0}, NEW x \in Int
  PROVE  /\ x \div M \in Int
         /\ x = M * (x \div M) + (x % M)
  OBVIOUS

\* A positive multiple of M is at least M.
LEMMA MultipleAtLeast ==
  ASSUME NEW M \in Nat \ {0}, NEW d \in Int, d >= 1
  PROVE  M * d >= M
  OBVIOUS

\* Two residues that differ by a multiple of M are equal.
LEMMA ResidueUnique ==
  ASSUME NEW M \in Nat \ {0}, NEW d \in Int,
         NEW r \in 0..(M - 1), NEW s \in 0..(M - 1), M * d + r = s
  PROVE  r = s
<1>1. M * d \in Int
  OBVIOUS
<1>2. CASE d >= 1
  <2>1. M * d >= M  BY <1>2, MultipleAtLeast
  <2> QED  BY <1>1, <2>1
<1>3. CASE d <= -1
  <2>1. M * (-d) >= M  BY <1>3, MultipleAtLeast
  <2>2. M * (-d) = -(M * d)  OBVIOUS
  <2> QED  BY <1>1, <2>1, <2>2
<1>4. CASE d = 0
  BY <1>4
<1> QED  BY <1>2, <1>3, <1>4

\* A residue is known from a representation.
LEMMA ResidueIs ==
  ASSUME NEW M \in Nat \ {0}, NEW x \in Int, NEW q \in Int, NEW r \in 0..(M - 1), x = M * q + r
  PROVE  x % M = r
<1>1. PICK a \in Int : x = M * a + (x % M)
  BY ModQuotient
<1>2. x % M \in 0..(M - 1)
  OBVIOUS
<1> DEFINE s == x % M
<1>3. s \in 0..(M - 1) /\ x = M * a + s
  BY <1>1, <1>2
<1> HIDE DEF s
<1>4. a - q \in Int /\ M * (a - q) = M * a - M * q
  OBVIOUS
<1>5. M * a \in Int /\ M * q \in Int
  OBVIOUS
<1>6. M * (a - q) + s = r
  BY <1>3, <1>4, <1>5
<1> DEFINE e == a - q
<1>7. e \in Int /\ M * e + s = r
  BY <1>4, <1>6
<1> HIDE DEF e
<1>8. s = r
  BY <1>3, <1>7, ResidueUnique
<1> QED  BY <1>8 DEF s

\* Within one turn around M.
LEMMA OneTurn ==
  ASSUME NEW M \in Nat \ {0}, NEW x \in Int
  PROVE  /\ 0 <= x /\ x < M => x % M = x
         /\ M <= x /\ x < 2 * M => x % M = x - M
         /\ -M <= x /\ x < 0 => x % M = x + M
<1>1. ASSUME 0 <= x, x < M PROVE x % M = x
  <2>1. x \in 0..(M - 1) /\ x = M * 0 + x
    BY <1>1
  <2> QED  BY <2>1, ResidueIs
<1>2. ASSUME M <= x, x < 2 * M PROVE x % M = x - M
  <2>1. x - M \in 0..(M - 1) /\ x = M * 1 + (x - M)
    BY <1>2
  <2> QED  BY <2>1, ResidueIs
<1>3. ASSUME -M <= x, x < 0 PROVE x % M = x + M
  <2>1. x + M \in 0..(M - 1) /\ -1 \in Int /\ M * (-1) = -M
    BY <1>3
  <2>2. x = M * (-1) + (x + M)
    BY <2>1
  <2> QED  BY <2>1, <2>2, ResidueIs
<1> QED  BY <1>1, <1>2, <1>3

\* The n-th place after c is k exactly if k is n places after c.
LEMMA PlaceOf ==
  ASSUME NEW M \in Nat \ {0}, NEW c \in 0..(M - 1), NEW k \in 0..(M - 1), NEW n \in 0..(M - 1)
  PROVE  (k - c) % M = n <=> k = (c + n) % M
<1>1. (k - c) % M = IF k >= c THEN k - c ELSE k - c + M
  <2> DEFINE x == k - c
  <2>1. x \in Int /\ x < M /\ -M <= x /\ (k >= c <=> 0 <= x)
    OBVIOUS
  <2> HIDE DEF x
  <2>2. CASE 0 <= x
    <3>1. x % M = x
      BY <2>1, <2>2, OneTurn
    <3> QED  BY <2>1, <2>2, <3>1 DEF x
  <2>3. CASE x < 0
    <3>1. x % M = x + M
      BY <2>1, <2>3, OneTurn
    <3> QED  BY <2>1, <2>3, <3>1 DEF x
  <2> QED  BY <2>1, <2>2, <2>3
<1>2. (c + n) % M = IF c + n < M THEN c + n ELSE c + n - M
  <2> DEFINE x == c + n
  <2>1. x \in Int /\ 0 <= x /\ x < 2 * M
    OBVIOUS
  <2> HIDE DEF x
  <2>2. CASE x < M
    <3>1. x % M = x
      BY <2>1, <2>2, OneTurn
    <3> QED  BY <2>2, <3>1 DEF x
  <2>3. CASE M <= x
    <3>1. x % M = x - M
      BY <2>1, <2>3, OneTurn
    <3> QED  BY <2>1, <2>3, <3>1 DEF x
  <2> QED  BY <2>1, <2>2, <2>3
<1> QED  BY <1>1, <1>2

-----------------------------------------------------------------------------
(* OAM DMA, one byte at a time.                                            *)

IsCopied(f, d, page, cost, n) ==
  f = [i \in 0..n |-> IF i = 0 THEN d ELSE CopyByte(f[i - 1], page, i - 1, cost)]

\* The function that Dma defines byte by byte exists.
LEMMA CopiedExists ==
  ASSUME NEW d, NEW page, NEW cost
  PROVE  \A n \in Nat : \E f : IsCopied(f, d, page, cost, n)
<1> DEFINE S == {n \in Nat : \E f : IsCopied(f, d, page, cost, n)}
<1>1. 0 \in S
  <2> DEFINE g == [i \in 0..0 |-> d]
  <2>1. g = [i \in 0..0 |-> IF i = 0 THEN d ELSE CopyByte(g[i - 1], page, i - 1, cost)]
    OBVIOUS
  <2> HIDE DEF g
  <2>2. IsCopied(g, d, page, cost, 0)
    BY <2>1 DEF IsCopied
  <2> QED  BY <2>2
<1>2. ASSUME NEW n \in Nat, n \in S
      PROVE  n + 1 \in S
  <2>1. PICK f : IsCopied(f, d, page, cost, n)
    BY <1>2
  <2> DEFINE more == CopyByte(f[n], page, n, cost)
             g == [i \in 0..(n + 1) |-> IF i <= n THEN f[i] ELSE more]
  <2>2. \A i \in 0..n : f[i] = IF i = 0 THEN d ELSE CopyByte(f[i - 1], page, i - 1, cost)
    BY <2>1 DEF IsCopied
  <2>3. ASSUME NEW i \in 0..(n + 1)
        PROVE  g[i] = IF i = 0 THEN d ELSE CopyByte(g[i - 1], page, i - 1, cost)
    <3>1. CASE i <= n
      <4>1. i \in 0..n /\ (i # 0 => i - 1 \in 0..(n + 1) /\ i - 1 <= n)
        BY <3>1
      <4>2. g[i] = f[i] /\ (i # 0 => g[i - 1] = f[i - 1])
        BY <3>1, <4>1
      <4> HIDE DEF g
      <4> QED  BY <2>2, <4>1, <4>2
    <3>2. CASE ~(i <= n)
      <4>1. i = n + 1 /\ i # 0 /\ i - 1 = n /\ n \in 0..(n + 1) /\ n <= n
        BY <3>2
      <4>2. g[i] = more /\ g[n] = f[n]
        BY <3>2, <4>1
      <4> HIDE DEF g
      <4> QED  BY <4>1, <4>2
    <3> QED  BY <3>1, <3>2
  <2>4. g = [i \in 0..(n + 1) |-> g[i]]
    OBVIOUS
  <2> HIDE DEF g
  <2>5. g = [i \in 0..(n + 1) |-> IF i = 0 THEN d ELSE CopyByte(g[i - 1], page, i - 1, cost)]
    BY <2>3, <2>4
  <2>6. IsCopied(g, d, page, cost, n + 1)
    BY <2>5 DEF IsCopied
  <2> QED  BY <2>6
<1> HIDE DEF S
<1>3. Nat \subseteq S
  BY <1>1, <1>2, SetInduction
<1> QED  BY <1>3 DEF S

\* Dma takes its last value.
LEMMA DmaIs ==
  ASSUME NEW d, NEW page, NEW cost
  PROVE  Dma(d, page, cost)
           = [(CHOOSE f : IsCopied(f, d, page, cost, OamSize))[OamSize] EXCEPT !.bus = page]
BY DEF Dma, IsCopied

\* Page page of RAM, and the byte of it that turn n copies.
RamByte(d, page, n) == IF AreaOf(page * Size) = "stack" THEN d.stack[n] ELSE n

\* What the first n bytes of a DMA leave in sprite memory.
Filled(d, page, u, n) ==
  LET turn(k) == (k - d.ppu.oamAddr) % OamSize
      place(k) == (k - d.ppu.oamCount) % OamSize
  IN  \A k \in OamIndex :
        u.oam[k] = IF k < OamHead
                   THEN (IF place(k) < n THEN RamByte(d, page, place(k)) ELSE d.ppu.oam[k])
                   ELSE IF turn(k) < n /\ ~((d.ppu.oamCount + turn(k)) % OamSize < OamHead)
                   THEN RamByte(d, page, turn(k)) ELSE d.ppu.oam[k]

Advanced(d, page, e, n) ==
  /\ e \in Devices /\ e.log = d.log /\ e.stolen = d.stolen + 2 * n /\ e.stack = d.stack
  /\ e.ppu.oamAddr = (d.ppu.oamAddr + n) % OamSize
  /\ e.ppu.oamCount = (d.ppu.oamCount + n) % OamSize
  /\ page * Size < 8192 => Filled(d, page, e.ppu, n)

\* A page of RAM is all stack or all memory.
LEMMA RamAreas ==
  ASSUME NEW page \in Byte, page * Size < 8192, NEW n \in OamIndex
  PROVE  /\ AreaOf(page * Size + n) = AreaOf(page * Size)
         /\ AreaOf(page * Size) \in {"stack", "memory"}
<1>1. n \in Byte /\ 0 \in Byte
  <2>1. n \in Int /\ 0 <= n /\ n <= OamSize - 1 /\ OamSize \in Nat /\ OamSize <= 256
    BY OamFacts DEF OamIndex
  <2>2. n <= 255
    BY <2>1
  <2> QED  BY <2>1, <2>2, InByte
<1>2. (page * Size + n) \div Size = page /\ (page * Size + 0) \div Size = page
  BY <1>1, PageAndByte
<1>3. page * Size + n < 8192
  <2>1. page \in Int /\ n \in Int /\ n <= 255
    BY <1>1, InByte
  <2> QED  BY <2>1 DEF Size
<1>4. page * Size + 0 = page * Size
  <2>1. page \in Int
    BY InByte
  <2> QED  BY <2>1 DEF Size
<1>5. PageOf(page * Size + n) = page /\ PageOf(page * Size) = page
  BY <1>2, <1>4 DEF PageOf
<1> QED  BY <1>3, <1>5 DEF AreaOf

\* Reducing before a step does not matter.
LEMMA StepAround ==
  ASSUME NEW M \in Nat \ {0}, NEW c \in 0..(M - 1), NEW n \in 0..(M - 1)
  PROVE  (((c + n) % M) + 1) % M = (c + n + 1) % M
<1> DEFINE x == c + n
           z == x % M
           w == x + 1
<1>1. x \in Int /\ 0 <= x /\ x < 2 * M /\ w \in Int /\ w = x + 1 /\ w < 2 * M
  OBVIOUS
<1> HIDE DEF x, w
<1>2. CASE x < M
  <2>1. z = x
    BY <1>1, <1>2, OneTurn
  <2> QED  BY <1>1, <2>1 DEF x, w
<1>3. CASE M <= x
  <2>1. z = x - M
    BY <1>1, <1>3, OneTurn
  <2>0. M <= w
    BY <1>1, <1>3
  <2>2. w % M = w - M
    BY <1>1, <2>0, OneTurn
  <2> DEFINE v == z + 1
  <2>3. v \in Int /\ 0 <= v /\ v < M /\ v = w - M
    BY <1>1, <1>3, <2>1
  <2> HIDE DEF v
  <2>4. v % M = v
    BY <2>3, OneTurn
  <2> QED  BY <1>1, <2>2, <2>3, <2>4 DEF v, x, w, z
<1> QED  BY <1>1, <1>2, <1>3

\* Before the first byte.
LEMMA AdvancedNone ==
  ASSUME NEW d \in Devices, NEW page \in Byte
  PROVE  Advanced(d, page, d, 0)
<1>1. d.ppu \in PpuState /\ d.stolen \in Nat
  BY DeviceHas
<1>2. d.ppu.oamAddr \in OamIndex /\ d.ppu.oamCount \in OamIndex
  BY <1>1 DEF PpuState
<1>3. \A c \in OamIndex : c + 0 = c /\ c % OamSize = c
  <2> TAKE c \in OamIndex
  <2>1. c \in Int /\ 0 <= c /\ c < OamSize /\ OamSize \in Nat \ {0}
    BY OamFacts DEF OamIndex
  <2> QED  BY <2>1, OneTurn
<1>4. /\ (d.ppu.oamAddr + 0) % OamSize = d.ppu.oamAddr
      /\ (d.ppu.oamCount + 0) % OamSize = d.ppu.oamCount
  BY <1>2, <1>3
<1>5. Filled(d, page, d.ppu, 0)
  <2>1. \A c, k \in OamIndex : (k - c) % OamSize \in OamIndex
    BY OamFacts DEF OamIndex
  <2>2. \A c, k \in OamIndex : ~((k - c) % OamSize < 0)
    <3>1. \A c \in OamIndex : ~(c < 0)
      BY OamFacts DEF OamIndex
    <3> QED  BY <2>1, <3>1
  <2> QED  BY <1>2, <2>2 DEF Filled
<1>6. d.stolen + 2 * 0 = d.stolen
  BY <1>1
<1> QED  BY <1>4, <1>5, <1>6 DEF Advanced

\* One byte more in sprite memory: by counter into the head, by address elsewhere.
LEMMA FilledMore ==
  ASSUME NEW d \in Devices, NEW page \in Byte, page * Size < 8192, NEW n \in OamIndex,
         NEW u \in PpuState, NEW w \in PpuState, Filled(d, page, u, n),
         u.oamAddr = (d.ppu.oamAddr + n) % OamSize,
         u.oamCount = (d.ppu.oamCount + n) % OamSize,
         \A k \in OamIndex :
           w.oam[k] = IF u.oamCount < OamHead
                      THEN (IF k = u.oamCount THEN RamByte(d, page, n) ELSE u.oam[k])
                      ELSE IF u.oamAddr >= OamHead
                      THEN (IF k = u.oamAddr THEN RamByte(d, page, n) ELSE u.oam[k])
                      ELSE u.oam[k]
  PROVE  Filled(d, page, w, n + 1)
<1> DEFINE turn(k) == (k - d.ppu.oamAddr) % OamSize
           place(k) == (k - d.ppu.oamCount) % OamSize
           skip(t) == (d.ppu.oamCount + t) % OamSize < OamHead
<1>0. OamSize \in Nat \ {0} /\ OamIndex = 0..(OamSize - 1) /\ \A k \in OamIndex : k \in Nat
  BY OamFacts DEF OamIndex
<1>1. d.ppu.oamAddr \in OamIndex /\ d.ppu.oamCount \in OamIndex /\ n \in Nat
  <2>1. d.ppu \in PpuState
    BY DeviceHas
  <2> QED  BY <1>0, <2>1 DEF PpuState
<1>2. \A k \in OamIndex : turn(k) \in OamIndex /\ place(k) \in OamIndex
  <2>1. \A j \in Int : j % OamSize \in OamIndex
    BY OamResidue
  <2>2. \A k \in OamIndex : k - d.ppu.oamAddr \in Int /\ k - d.ppu.oamCount \in Int
    BY <1>0, <1>1
  <2> QED  BY <2>1, <2>2
<1>3. \A k \in OamIndex : turn(k) = n <=> k = u.oamAddr
  <2> TAKE k \in OamIndex
  <2>1. turn(k) = n <=> k = (d.ppu.oamAddr + n) % OamSize
    <3> DEFINE c == d.ppu.oamAddr
    <3>1. k \in 0..(OamSize - 1) /\ n \in 0..(OamSize - 1) /\ c \in 0..(OamSize - 1)
      BY <1>0, <1>1
    <3> HIDE DEF c
    <3>2. (k - c) % OamSize = n <=> k = (c + n) % OamSize
      BY <1>0, <3>1, PlaceOf
    <3> QED  BY <3>2 DEF c
  <2> QED  BY <2>1
<1>4. \A k \in OamIndex : place(k) = n <=> k = u.oamCount
  <2> TAKE k \in OamIndex
  <2>1. place(k) = n <=> k = (d.ppu.oamCount + n) % OamSize
    <3> DEFINE c == d.ppu.oamCount
    <3>1. k \in 0..(OamSize - 1) /\ n \in 0..(OamSize - 1) /\ c \in 0..(OamSize - 1)
      BY <1>0, <1>1
    <3> HIDE DEF c
    <3>2. (k - c) % OamSize = n <=> k = (c + n) % OamSize
      BY <1>0, <3>1, PlaceOf
    <3> QED  BY <3>2 DEF c
  <2> QED  BY <2>1
<1>5. \A c \in OamIndex : c < n + 1 <=> (c < n \/ c = n)
  <2>1. \A c, m \in Nat : c < m + 1 <=> (c < m \/ c = m)
    OBVIOUS
  <2> QED  BY <1>0, <1>1, <2>1
<1>6. skip(n) <=> u.oamCount < OamHead
  OBVIOUS
<1>7. \A k \in OamIndex :
        u.oam[k] = IF k < OamHead
                   THEN (IF place(k) < n THEN RamByte(d, page, place(k)) ELSE d.ppu.oam[k])
                   ELSE IF turn(k) < n /\ ~skip(turn(k))
                   THEN RamByte(d, page, turn(k)) ELSE d.ppu.oam[k]
  BY DEF Filled
<1>8. u.oamAddr \in OamIndex /\ u.oamCount \in OamIndex
  BY DEF PpuState
<1>9. \A k \in OamIndex : k \in Int /\ OamHead \in Int
  BY OamFacts DEF OamIndex
<1>10. ASSUME NEW k \in OamIndex
       PROVE  w.oam[k] = IF k < OamHead
                   THEN (IF place(k) < n + 1 THEN RamByte(d, page, place(k)) ELSE d.ppu.oam[k])
                   ELSE IF turn(k) < n + 1 /\ ~skip(turn(k))
                   THEN RamByte(d, page, turn(k)) ELSE d.ppu.oam[k]
  <2>1. /\ place(k) < n + 1 <=> (place(k) < n \/ place(k) = n)
        /\ turn(k) < n + 1 <=> (turn(k) < n \/ turn(k) = n)
    BY <1>2, <1>5
  <2>2. (turn(k) = n <=> k = u.oamAddr) /\ (place(k) = n <=> k = u.oamCount)
    BY <1>3, <1>4
  <2>3. turn(k) = n => (skip(turn(k)) <=> u.oamCount < OamHead)
    BY <1>6
  <2>4. ~(n < n)
    BY <1>1
  <2>5. u.oamAddr >= OamHead <=> ~(u.oamAddr < OamHead)
    BY <1>8, <1>9
  <2> HIDE DEF turn, place, skip
  <2>6. u.oam[k] = IF k < OamHead
                   THEN (IF place(k) < n THEN RamByte(d, page, place(k)) ELSE d.ppu.oam[k])
                   ELSE IF turn(k) < n /\ ~skip(turn(k))
                   THEN RamByte(d, page, turn(k)) ELSE d.ppu.oam[k]
    BY <1>7
  <2>7. CASE k < OamHead /\ place(k) = n
    BY <2>1, <2>2, <2>7
  <2>8. CASE k < OamHead /\ place(k) # n
    BY <2>1, <2>2, <2>5, <2>6, <2>8
  <2>9. CASE ~(k < OamHead) /\ turn(k) = n
    BY <2>1, <2>2, <2>3, <2>4, <2>5, <2>6, <2>9
  <2>10. CASE ~(k < OamHead) /\ turn(k) # n
    BY <2>1, <2>2, <2>5, <2>6, <2>10
  <2> QED  BY <2>7, <2>8, <2>9, <2>10
<1> QED  BY <1>10 DEF Filled

\* One byte more of a DMA.
LEMMA AdvancedMore ==
  ASSUME NEW d \in Devices, NEW page \in Byte, NEW cost \in Nat, NEW n \in OamIndex,
         NEW e, Advanced(d, page, e, n), NEW m, m = n + 1
  PROVE  Advanced(d, page, CopyByte(e, page, n, cost), m)
<1> DEFINE c == CopyByte(e, page, n, cost)
<1>1. /\ e \in Devices /\ e.log = d.log /\ e.stolen = d.stolen + 2 * n /\ e.stack = d.stack
      /\ e.ppu.oamAddr = (d.ppu.oamAddr + n) % OamSize
      /\ e.ppu.oamCount = (d.ppu.oamCount + n) % OamSize
  BY DEF Advanced
<1>2. c = CopyByte(e, page, n, cost)
  OBVIOUS
<1> HIDE DEF c
<1>3. /\ c \in Devices
      /\ c.log = e.log /\ c.stolen = e.stolen + 2 /\ c.stack = e.stack
      /\ \E v \in Byte :
           /\ AreaOf(page * Size + n) = "memory" => v = n
           /\ AreaOf(page * Size + n) = "stack" => v = e.stack[n]
           /\ c.ppu.oamAddr = (e.ppu.oamAddr + 1) % OamSize
           /\ c.ppu.oamCount = (e.ppu.oamCount + 1) % OamSize
           /\ \A k \in OamIndex :
                c.ppu.oam[k] =
                  IF e.ppu.oamCount < OamHead THEN (IF k = e.ppu.oamCount THEN v ELSE e.ppu.oam[k])
                  ELSE IF e.ppu.oamAddr >= OamHead THEN (IF k = e.ppu.oamAddr THEN v ELSE e.ppu.oam[k])
                  ELSE e.ppu.oam[k]
  <2>1. CopiedOne(e, page, n, c)
    BY <1>1, <1>2, CopyByteState
  <2> QED  BY <2>1 DEF CopiedOne
<1>4. OamSize \in Nat \ {0} /\ n \in 0..(OamSize - 1) /\ d.stolen \in Nat
      /\ d.ppu.oamAddr \in 0..(OamSize - 1) /\ d.ppu.oamCount \in 0..(OamSize - 1)
  <2>1. d.ppu.oamAddr \in OamIndex /\ d.ppu.oamCount \in OamIndex /\ d.stolen \in Nat
    BY DeviceHas DEF PpuState
  <2>2. OamSize \in Nat \ {0}
    BY OamFacts
  <2> QED  BY <2>1, <2>2 DEF OamIndex
<1>5. \A a \in 0..(OamSize - 1) : (((a + n) % OamSize) + 1) % OamSize = (a + m) % OamSize
  <2> TAKE a \in 0..(OamSize - 1)
  <2>1. (((a + n) % OamSize) + 1) % OamSize = (a + n + 1) % OamSize
    BY <1>4, StepAround
  <2>2. a + n + 1 = a + m
    BY <1>4
  <2> QED  BY <2>1, <2>2
<1>6. c.ppu.oamAddr = (d.ppu.oamAddr + m) % OamSize /\ c.ppu.oamCount = (d.ppu.oamCount + m) % OamSize
  BY <1>1, <1>3, <1>4, <1>5
<1>7. c.stolen = d.stolen + 2 * m
  BY <1>1, <1>3, <1>4
<1>8. ASSUME page * Size < 8192
      PROVE  Filled(d, page, c.ppu, m)
  <2>0. PICK v \in Byte :
           /\ AreaOf(page * Size + n) = "memory" => v = n
           /\ AreaOf(page * Size + n) = "stack" => v = e.stack[n]
           /\ \A k \in OamIndex :
                c.ppu.oam[k] =
                  IF e.ppu.oamCount < OamHead THEN (IF k = e.ppu.oamCount THEN v ELSE e.ppu.oam[k])
                  ELSE IF e.ppu.oamAddr >= OamHead THEN (IF k = e.ppu.oamAddr THEN v ELSE e.ppu.oam[k])
                  ELSE e.ppu.oam[k]
    BY <1>3
  <2>1. AreaOf(page * Size + n) = AreaOf(page * Size) /\ AreaOf(page * Size) \in {"stack", "memory"}
    BY <1>8, RamAreas
  <2>2. v = RamByte(d, page, n)
    BY <1>1, <2>0, <2>1 DEF RamByte
  <2>3. Filled(d, page, e.ppu, n)
    BY <1>8 DEF Advanced
  <2>4. e.ppu \in PpuState /\ c.ppu \in PpuState
    BY <1>1, <1>3, DeviceHas
  <2>5. \A k \in OamIndex :
           c.ppu.oam[k] = IF e.ppu.oamCount < OamHead
                      THEN (IF k = e.ppu.oamCount THEN RamByte(d, page, n) ELSE e.ppu.oam[k])
                      ELSE IF e.ppu.oamAddr >= OamHead
                      THEN (IF k = e.ppu.oamAddr THEN RamByte(d, page, n) ELSE e.ppu.oam[k])
                      ELSE e.ppu.oam[k]
    BY <2>0, <2>2
  <2>6. Filled(d, page, c.ppu, n + 1)
    BY <1>1, <1>8, <2>3, <2>4, <2>5, FilledMore
  <2> QED  BY <2>6
<1>9. Advanced(d, page, c, m)
  BY <1>1, <1>3, <1>6, <1>7, <1>8 DEF Advanced
<1> QED  BY <1>9 DEF c

\* All bytes of a DMA.
LEMMA DmaState ==
  ASSUME NEW d \in Devices, NEW page \in Byte, NEW cost \in Nat
  PROVE  \E e : /\ Advanced(d, page, e, OamSize)
                /\ Dma(d, page, cost) = [e EXCEPT !.bus = page]
<1> DEFINE f == CHOOSE g : IsCopied(g, d, page, cost, OamSize)
<1>0. OamSize \in Nat /\ OamIndex = 0..(OamSize - 1)
  BY OamFacts
<1>1. IsCopied(f, d, page, cost, OamSize)
  <2>1. \E g : IsCopied(g, d, page, cost, OamSize)
    BY <1>0, CopiedExists
  <2> QED  BY <2>1
<1>2. Dma(d, page, cost) = [f[OamSize] EXCEPT !.bus = page]
  BY DmaIs
<1> HIDE DEF f
<1>3. \A i \in 0..OamSize : f[i] = IF i = 0 THEN d ELSE CopyByte(f[i - 1], page, i - 1, cost)
  BY <1>1 DEF IsCopied
<1> DEFINE S == {n \in Nat : n <= OamSize => Advanced(d, page, f[n], n)}
<1>4. 0 \in S
  <2>1. f[0] = d
    BY <1>0, <1>3
  <2> QED  BY <2>1, AdvancedNone
<1>5. ASSUME NEW n \in Nat, n \in S
      PROVE  n + 1 \in S
  <2> DEFINE m == n + 1
  <2> SUFFICES ASSUME m <= OamSize PROVE Advanced(d, page, f[m], m)
    OBVIOUS
  <2>1. m \in 0..OamSize /\ m # 0 /\ m - 1 = n /\ n <= OamSize /\ n \in OamIndex /\ m = n + 1
    BY <1>0
  <2>2. Advanced(d, page, f[n], n)
    BY <1>5, <2>1
  <2> HIDE DEF m
  <2>3. f[m] = CopyByte(f[n], page, n, cost)
    BY <1>3, <2>1
  <2> QED  BY <2>1, <2>2, <2>3, AdvancedMore
<1> HIDE DEF S
<1>6. Nat \subseteq S
  BY <1>4, <1>5, SetInduction
<1>7. Advanced(d, page, f[OamSize], OamSize)
  BY <1>0, <1>6 DEF S
<1> QED  BY <1>2, <1>7

\* What a DMA of a page of RAM makes of sprite memory.
FilledAll(u, w, page, st) ==
  LET b(k) == IF AreaOf(Size * page) = "stack" THEN st[k] ELSE k
      turn(k) == (k - u.oamAddr) % OamSize
  IN  \A k \in OamIndex :
        w.oam[k] = IF k < OamHead THEN b((k - u.oamCount) % OamSize)
                   ELSE IF (u.oamCount + turn(k)) % OamSize < OamHead THEN u.oam[k]
                   ELSE b(turn(k))

\* A whole DMA: address and counter are back where they were, and sprite memory is filled from there.
LEMMA DmaResult ==
  ASSUME NEW d \in Devices, NEW page \in Byte, NEW cost \in Nat
  PROVE  /\ Dma(d, page, cost) \in Devices
         /\ Dma(d, page, cost).log = d.log
         /\ Dma(d, page, cost).stolen = d.stolen + 2 * OamSize
         /\ Dma(d, page, cost).stack = d.stack
         /\ Dma(d, page, cost).ppu.oamAddr = d.ppu.oamAddr
         /\ Dma(d, page, cost).ppu.oamCount = d.ppu.oamCount
         /\ Size * page < 8192 => FilledAll(d.ppu, Dma(d, page, cost).ppu, page, d.stack)
<1>1. PICK e : Advanced(d, page, e, OamSize) /\ Dma(d, page, cost) = [e EXCEPT !.bus = page]
  BY DmaState
<1> DEFINE q == [e EXCEPT !.bus = page]
<1>2. e \in Devices
  BY <1>1 DEF Advanced
<1>3. q \in Devices /\ q.log = e.log /\ q.stolen = e.stolen /\ q.stack = e.stack /\ q.ppu = e.ppu
  BY <1>2 DEF Devices
<1>4. Dma(d, page, cost) = q
  BY <1>1
<1> HIDE DEF q
<1>5. OamSize \in Nat \ {0} /\ d.ppu.oamAddr \in OamIndex /\ d.ppu.oamCount \in OamIndex
  <2>1. d.ppu.oamAddr \in OamIndex /\ d.ppu.oamCount \in OamIndex
    BY DeviceHas DEF PpuState
  <2>2. OamSize \in Nat \ {0}
    BY OamFacts
  <2> QED  BY <2>1, <2>2
<1>6. \A a \in OamIndex : (a + OamSize) % OamSize = a
  <2> TAKE a \in OamIndex
  <2> DEFINE x == a + OamSize
  <2>1. a \in Int /\ 0 <= a /\ a < OamSize
    BY <1>5 DEF OamIndex
  <2>2. x \in Int /\ OamSize <= x /\ x < 2 * OamSize /\ x - OamSize = a
    BY <1>5, <2>1
  <2> HIDE DEF x
  <2>3. x % OamSize = x - OamSize
    BY <1>5, <2>2, OneTurn
  <2> QED  BY <2>2, <2>3 DEF x
<1>7. q.ppu.oamAddr = d.ppu.oamAddr /\ q.ppu.oamCount = d.ppu.oamCount
  BY <1>1, <1>3, <1>5, <1>6 DEF Advanced
<1>8. ASSUME Size * page < 8192
      PROVE  FilledAll(d.ppu, q.ppu, page, d.stack)
  <2>1. Size * page = page * Size
    BY InByte DEF Size
  <2>2. Filled(d, page, q.ppu, OamSize)
    BY <1>1, <1>3, <1>8, <2>1 DEF Advanced
  <2>3. \A a, k \in OamIndex : (k - a) % OamSize < OamSize
    <3>1. \A a, k \in OamIndex : k - a \in Int
      BY <1>5 DEF OamIndex
    <3>2. \A k \in OamIndex : k < OamSize
      BY <1>5 DEF OamIndex
    <3> QED  BY <3>1, <3>2, OamResidue
  <2>4. \A k \in OamIndex : (k - d.ppu.oamAddr) % OamSize < OamSize /\ (k - d.ppu.oamCount) % OamSize < OamSize
    BY <1>5, <2>3
  <2>5. \A k : RamByte(d, page, k) = IF AreaOf(Size * page) = "stack" THEN d.stack[k] ELSE k
    BY <2>1 DEF RamByte
  <2> QED  BY <2>2, <2>4, <2>5 DEF Filled, FilledAll
<1>9. q.log = d.log /\ q.stolen = d.stolen + 2 * OamSize /\ q.stack = d.stack
  BY <1>1, <1>3 DEF Advanced
<1> QED  BY <1>3, <1>4, <1>7, <1>8, <1>9

-----------------------------------------------------------------------------
(* mem_write()                                                             *)

Stolen(addr) == IF addr = DmaPort THEN 2 * OamSize ELSE 0

\* A DMA adds a natural number of cycles.
LEMMA StolenNat == \A addr : Stolen(addr) \in Nat
<1>1. OamSize \in Nat
  BY OamFacts
<1> QED  BY <1>1 DEF Stolen

\* A device after a write of val to addr.
WroteTo(d, addr, val, at, e) ==
  /\ e \in Devices
  /\ e.log = Append(d.log, WriteOf(addr, val, at))
  /\ e.stolen = d.stolen + Stolen(addr)
  /\ addr = DmaPort =>
       /\ e.ppu.oamAddr = d.ppu.oamAddr /\ e.ppu.oamCount = d.ppu.oamCount
       /\ Size * val < 8192 => FilledAll(d.ppu, e.ppu, val, d.stack)

\* A log that grows.
LEMMA LogMore ==
  ASSUME NEW e \in Devices, NEW l \in Accesses
  PROVE  /\ [e EXCEPT !.log = Append(e.log, l)] \in Devices
         /\ [e EXCEPT !.log = Append(e.log, l)].log = Append(e.log, l)
         /\ [e EXCEPT !.log = Append(e.log, l)].stolen = e.stolen
         /\ [e EXCEPT !.log = Append(e.log, l)].ppu = e.ppu
<1>1. e.log \in Seq(Accesses)
  BY DeviceHas
<1>2. Append(e.log, l) \in Seq(Accesses)
  BY <1>1, AppendProperties
<1> QED  BY <1>2 DEF Devices

\* mem_write(), the DMA included.
LEMMA WriteState ==
  ASSUME NEW d \in Devices, NEW addr \in Word, NEW val \in Byte, NEW cost \in Nat,
         NEW at, at = cost + d.stolen
  PROVE  WroteTo(d, addr, val, at, BusWrite(d, addr, val, cost))
<1> DEFINE area == AreaOf(addr)
           u == IF area = "ppu" THEN PortWrite(d.ppu, addr % 8, val) ELSE d.ppu
           t == IF area = "stack" THEN [d.stack EXCEPT ![addr % Size] = val] ELSE d.stack
           plain == [d EXCEPT !.bus = val, !.ppu = u, !.stack = t]
           l == WriteOf(addr, val, at)
           done == IF addr = DmaPort THEN Dma(d, val, cost) ELSE plain
           e == BusWrite(d, addr, val, cost)
<1>0. d.ppu \in PpuState /\ d.stack \in [Byte -> Byte] /\ d.stolen \in Nat /\ d.log \in Seq(Accesses)
  BY DeviceHas
<1>1. at \in Nat /\ l \in Accesses
  BY <1>0 DEF WriteOf, Accesses
<1>2. u \in PpuState
  BY <1>0, PortWriteState
<1>3. t \in [Byte -> Byte]
  BY <1>0
<1>4. e = [done EXCEPT !.log = Append(d.log, l)]
  BY DEF BusWrite, WriteOf
<1> HIDE DEF u, t, l
<1>5. plain \in Devices /\ plain.log = d.log /\ plain.stolen = d.stolen
  BY <1>2, <1>3 DEF Devices
<1> HIDE DEF plain
<1>6. done \in Devices /\ done.log = d.log /\ done.stolen = d.stolen + Stolen(addr)
  <2>1. CASE addr = DmaPort
    BY <2>1, DmaResult DEF Stolen
  <2>2. CASE addr # DmaPort
    BY <1>0, <1>5, <2>2 DEF Stolen
  <2> QED  BY <2>1, <2>2
<1>7. ASSUME addr = DmaPort
      PROVE  /\ done.ppu.oamAddr = d.ppu.oamAddr /\ done.ppu.oamCount = d.ppu.oamCount
             /\ Size * val < 8192 => FilledAll(d.ppu, done.ppu, val, d.stack)
  BY <1>7, DmaResult
<1> HIDE DEF done
<1> DEFINE q == [done EXCEPT !.log = Append(done.log, l)]
<1>8. q \in Devices /\ q.log = Append(done.log, l) /\ q.stolen = done.stolen /\ q.ppu = done.ppu
  BY <1>1, <1>6, LogMore
<1>9. e = q
  BY <1>4, <1>6
<1> HIDE DEF q, e
<1>10. WroteTo(d, addr, val, at, e)
  BY <1>6, <1>7, <1>8, <1>9 DEF WroteTo, l
<1> QED  BY <1>10 DEF e

-----------------------------------------------------------------------------
(* What an instruction leaves: its accesses and the registers.             *)

\* A device that has taken n cycles from the program.
Kept(d, e) ==
  /\ e \in Devices /\ e.stolen = d.stolen /\ e.stack = d.stack
  /\ e.ppu.oam = d.ppu.oam /\ e.ppu.oamAddr = d.ppu.oamAddr /\ e.ppu.oamCount = d.ppu.oamCount

\* The addresses of the dummy reads are words.
LEMMA FlippedWord ==
  ASSUME NEW base \in Word, NEW eff \in Word
  PROVE  /\ PageFlipped(eff) \in Word
         /\ Uncorrected(base, eff) \in Word
         /\ PageOf(eff) \in Byte
         /\ eff % Size \in Byte
<1>1. \A a \in Word : PageOf(a) \in Byte /\ a % Size \in Byte
  <2> TAKE a \in Word
  <2>1. a \in Int /\ 0 <= a /\ a <= 65535
    BY InWord
  <2>2. a \div 256 \in Int /\ 0 <= a \div 256 /\ a \div 256 <= 255
    BY <2>1
  <2>3. a % 256 \in Int /\ 0 <= a % 256 /\ a % 256 <= 255
    BY <2>1
  <2> QED  BY <2>2, <2>3, InByte DEF PageOf, Size
<1>2. Uncorrected(base, eff) \in Word
  <2>1. PageOf(base) \in Byte /\ eff % Size \in Byte
    BY <1>1
  <2> QED  BY <2>1, PageAndByte DEF Uncorrected
<1>3. PageFlipped(eff) \in Word
  <2>1. eff \in Int /\ 0 <= eff /\ eff <= 65535
    BY InWord
  <2>2. CASE (eff \div 256) % 2 = 1
    <3>1. eff - 256 \in Int /\ 0 <= eff - 256 /\ eff - 256 <= 65535
      BY <2>1, <2>2
    <3> QED  BY <2>2, <3>1, InWord DEF PageFlipped, PageOf, Size
  <2>3. CASE ~((eff \div 256) % 2 = 1)
    <3>1. eff + 256 \in Int /\ 0 <= eff + 256 /\ eff + 256 <= 65535
      BY <2>1, <2>3
    <3> QED  BY <2>3, <3>1, InWord DEF PageFlipped, PageOf, Size
  <2> QED  BY <2>2, <2>3
<1> QED  BY <1>1, <1>2, <1>3

\* The dummy read leaves sprite memory and the stack alone.
LEMMA DummyState ==
  ASSUME NEW d \in Devices, NEW class, NEW mode, NEW base \in Word, NEW eff \in Word, NEW cost \in Nat
  PROVE  Kept(d, DummyRead(d, class, mode, base, eff, cost))
<1>1. \A a \in Word : Kept(d, BusRead(d, a, cost))
  BY ReadValue DEF Kept
<1>2. Kept(d, d)
  BY DEF Kept
<1> QED  BY <1>1, <1>2, FlippedWord DEF DummyRead

\* AccessesAtEnd, of any record of accesses.
EndsWell(l) ==
  Len(l.log) > 0 =>
    /\ l.log[Len(l.log)].at
         + (IF l.log[Len(l.log)].addr = DmaPort /\ l.log[Len(l.log)].op = "write" THEN 2 * OamSize ELSE 0)
         = l.cost
    /\ l.kind = "load" => l.log[Len(l.log)].addr = l.eff
    /\ l.kind = "rmw" => /\ l.log[Len(l.log)].addr = l.eff /\ l.log[Len(l.log) - 1].addr = l.eff
                         /\ l.log[Len(l.log) - 1].op = "write" /\ l.log[Len(l.log) - 2].op = "read"
                         /\ l.log[Len(l.log) - 1].val = l.log[Len(l.log) - 2].val

\* It is the invariant, of the last instruction.
LEMMA EndsWellIs == AccessesAtEnd <=> EndsWell(last)
BY DEF AccessesAtEnd, EndsWell

\* The place after the last one.
LEMMA AppendLast ==
  ASSUME NEW S, NEW s \in Seq(S), NEW x \in S
  PROVE  /\ Append(s, x) \in Seq(S)
         /\ Len(Append(s, x)) = Len(s) + 1 /\ Len(s) \in Nat
         /\ Append(s, x)[Len(s) + 1] = x
         /\ \A i \in 1..Len(s) : Append(s, x)[i] = s[i]
BY AppendProperties

\* A load: one read at the end.
Loaded(d, eff, cost, o) ==
  /\ Sound(o.regs) /\ o.d \in Devices /\ o.d.stolen = d.stolen
  /\ \E v \in Byte : o.d.log = Append(d.log, ReadOf(eff, v, cost))

\* What a load does.
LEMMA LoadOutcome ==
  ASSUME NEW r, Sound(r), NEW d \in Devices, NEW eff \in Word, NEW cost \in Nat, NEW op \in Reads,
         NEW o, o = Load(op, r, d, eff, cost)
  PROVE  Loaded(d, eff, cost, o)
<1> DEFINE e == BusRead(d, eff, cost)
<1>1. e \in Devices /\ e.log = Append(d.log, ReadOf(eff, e.val, cost)) /\ e.stolen = d.stolen
  BY ReadValue
<1>2. o.regs = Operate(op, r, e.val) /\ o.d = e
  BY DEF Load
<1> HIDE DEF e
<1>3. e.val \in Byte
  BY <1>1, DeviceHas
<1>4. Sound(o.regs)
  BY <1>2, <1>3, OperateSound
<1> QED  BY <1>1, <1>2, <1>3, <1>4 DEF Loaded

\* The record of a read: it ends when all is charged.
LEMMA LoadEnds ==
  ASSUME NEW s \in Seq(Accesses), NEW eff \in Word, NEW v \in Byte, NEW cost \in Nat,
         NEW l, l.kind = "load", l.eff = eff, l.cost = cost,
         l.log = Append(s, ReadOf(eff, v, cost))
  PROVE  EndsWell(l)
<1> DEFINE x == ReadOf(eff, v, cost)
<1>1. x \in Accesses /\ x.at = cost /\ x.addr = eff /\ x.op = "read"
  BY DEF ReadOf, Accesses
<1>2. l.log = Append(s, x)
  OBVIOUS
<1> HIDE DEF x
<1>3. Len(l.log) = Len(s) + 1 /\ Len(s) \in Nat /\ l.log[Len(s) + 1] = x
  BY <1>1, <1>2, AppendLast
<1> QED  BY <1>1, <1>3 DEF EndsWell

\* The record of a store: the cycles of a DMA come after the write that starts it.
LEMMA StoreEnds ==
  ASSUME NEW s \in Seq(Accesses), NEW addr \in Word, NEW v \in Byte, NEW at \in Nat,
         NEW l, l.kind = "store", l.cost = at + Stolen(addr),
         l.log = Append(s, WriteOf(addr, v, at))
  PROVE  EndsWell(l)
<1> DEFINE x == WriteOf(addr, v, at)
<1>1. x \in Accesses /\ x.at = at /\ x.addr = addr /\ x.op = "write"
  BY DEF WriteOf, Accesses
<1>2. l.log = Append(s, x)
  OBVIOUS
<1> HIDE DEF x
<1>3. Len(l.log) = Len(s) + 1 /\ Len(s) \in Nat /\ l.log[Len(s) + 1] = x
  BY <1>1, <1>2, AppendLast
<1> QED  BY <1>1, <1>3 DEF EndsWell, Stolen

\* The accesses s, then those of a read-modify-write.
ThreeMore(s, eff, v, w, c, at) ==
  Append(Append(Append(s, ReadOf(eff, v, c)), WriteOf(eff, v, c)), WriteOf(eff, w, at))

\* Read, written back, written.
Changed(d, eff, cost, o) ==
  /\ Sound(o.regs) /\ o.d \in Devices
  /\ o.d.stolen = d.stolen + Stolen(eff) + Stolen(eff)
  /\ \E v, w \in Byte : \E at \in Nat :
       /\ at = cost + d.stolen + Stolen(eff)
       /\ o.d.log = Append(Append(Append(d.log, ReadOf(eff, v, cost)),
                                  WriteOf(eff, v, cost + d.stolen)), WriteOf(eff, w, at))

\* What a read-modify-write does.
LEMMA ChangeOutcome ==
  ASSUME NEW r, Sound(r), NEW d \in Devices, NEW eff \in Word, NEW cost \in Nat, NEW op \in Rmw,
         NEW o, o = Change(op, r, d, eff, cost)
  PROVE  Changed(d, eff, cost, o)
<1> DEFINE e == BusRead(d, eff, cost)
           v == Written(op, r, e.val)
           g == BusWrite(e, eff, e.val, cost)
           f == BusWrite(g, eff, v, cost)
           h == [f EXCEPT !.bus = v]
           at1 == cost + d.stolen
           at2 == cost + g.stolen
<1>1. e \in Devices /\ e.log = Append(d.log, ReadOf(eff, e.val, cost)) /\ e.stolen = d.stolen
  BY ReadValue
<1>2. o.regs = Modify(op, r, e.val) /\ o.d = h
  BY DEF Change
<1> HIDE DEF e
<1>3. e.val \in Byte
  BY <1>1, DeviceHas
<1>4. Sound(o.regs) /\ v \in Byte
  BY <1>2, <1>3, ModifySound, WrittenByte
<1> HIDE DEF v
<1>5. at1 = cost + e.stolen /\ d.stolen \in Nat
  BY <1>1, DeviceHas
<1>6. WroteTo(e, eff, e.val, at1, g)
  <2> HIDE DEF at1
  <2> QED  BY <1>1, <1>3, <1>5, WriteState
<1> HIDE DEF g
<1>7. g \in Devices /\ g.log = Append(e.log, WriteOf(eff, e.val, at1)) /\ g.stolen = e.stolen + Stolen(eff)
  BY <1>6 DEF WroteTo
<1>8. WroteTo(g, eff, v, at2, f)
  BY <1>4, <1>7, WriteState
<1> HIDE DEF f
<1>9. f \in Devices /\ f.log = Append(g.log, WriteOf(eff, v, at2)) /\ f.stolen = g.stolen + Stolen(eff)
  BY <1>8 DEF WroteTo
<1>10. h \in Devices /\ h.log = f.log /\ h.stolen = f.stolen
  BY <1>4, <1>9 DEF Devices
<1> HIDE DEF h
<1>11. at2 \in Nat /\ at2 = cost + d.stolen + Stolen(eff)
       /\ h.stolen = d.stolen + Stolen(eff) + Stolen(eff)
  BY <1>1, <1>5, <1>7, <1>9, <1>10, StolenNat
<1>12. h.log = Append(Append(Append(d.log, ReadOf(eff, e.val, cost)),
                             WriteOf(eff, e.val, at1)), WriteOf(eff, v, at2))
  BY <1>1, <1>7, <1>9, <1>10
<1> HIDE DEF at2
<1> QED  BY <1>2, <1>3, <1>4, <1>10, <1>11, <1>12 DEF Changed

\* The record of a read-modify-write: the byte is given back before the result is written.
LEMMA ChangeEnds ==
  ASSUME NEW s \in Seq(Accesses), NEW eff \in Word, NEW v \in Byte, NEW w \in Byte,
         NEW c \in Nat, NEW at \in Nat,
         NEW l, l.eff = eff, l.kind = "rmw", l.cost = at + Stolen(eff),
         l.log = ThreeMore(s, eff, v, w, c, at)
  PROVE  EndsWell(l)
<1> DEFINE x == ReadOf(eff, v, c)
           y == WriteOf(eff, v, c)
           z == WriteOf(eff, w, at)
           s1 == Append(s, x)
           s2 == Append(s1, y)
           s3 == Append(s2, z)
<1>1. /\ x \in Accesses /\ x.addr = eff /\ x.op = "read" /\ x.val = v
      /\ y \in Accesses /\ y.addr = eff /\ y.op = "write" /\ y.val = v
      /\ z \in Accesses /\ z.addr = eff /\ z.op = "write" /\ z.at = at
  BY DEF ReadOf, WriteOf, Accesses
<1>2. l.log = s3
  BY DEF ThreeMore
<1> HIDE DEF x, y, z
<1>3. s1 \in Seq(Accesses) /\ Len(s1) = Len(s) + 1 /\ Len(s) \in Nat /\ s1[Len(s) + 1] = x
  BY <1>1, AppendLast
<1> HIDE DEF s1
<1>4. /\ s2 \in Seq(Accesses) /\ Len(s2) = Len(s1) + 1 /\ s2[Len(s1) + 1] = y
      /\ \A i \in 1..Len(s1) : s2[i] = s1[i]
  BY <1>1, <1>3, AppendLast
<1> HIDE DEF s2
<1>5. /\ Len(s3) = Len(s2) + 1 /\ s3[Len(s2) + 1] = z
      /\ \A i \in 1..Len(s2) : s3[i] = s2[i]
  BY <1>1, <1>4, AppendLast
<1> HIDE DEF s3
<1> DEFINE n == Len(s3)
<1>6. n \in Nat /\ n = Len(s) + 3 /\ n - 1 = Len(s2) /\ n - 2 = Len(s1) /\ Len(s) + 1 = Len(s1)
      /\ Len(s1) + 1 = Len(s2) /\ Len(s2) + 1 = n
      /\ Len(s1) \in 1..Len(s1) /\ Len(s1) \in 1..Len(s2) /\ Len(s2) \in 1..Len(s2)
  BY <1>3, <1>4, <1>5
<1>7. s3[n] = z
  BY <1>5, <1>6
<1>8. s3[n - 1] = y
  BY <1>4, <1>5, <1>6
<1>9. s3[n - 2] = x
  BY <1>3, <1>4, <1>5, <1>6
<1>10. l.log = s3 /\ n = Len(l.log)
  BY <1>2
<1> HIDE DEF n
<1> QED  BY <1>1, <1>7, <1>8, <1>9, <1>10 DEF EndsWell, Stolen

\* The stores: one write at the end, to the address or, for SHY and SHX, near it.
LEMMA StoreOutcome ==
  ASSUME NEW r, Sound(r), NEW d \in Devices, NEW base \in Word, NEW eff \in Word,
         NEW cost \in Nat, NEW op, op \in Stores \cup Unstable,
         NEW o, o = IF op \in Unstable THEN StoreUnstable(op, r, d, base, eff, cost)
                    ELSE Store(op, r, d, eff, cost)
  PROVE  /\ Sound(o.regs)
         /\ \E addr \in Word, v \in Byte : WroteTo(d, addr, v, cost + d.stolen, o.d)
<1>0. r.a \in Byte /\ r.x \in Byte /\ r.y \in Byte /\ Flags(r.p) /\ d.stolen \in Nat
  BY SoundHas, DeviceHas
<1>1. CASE op \in Unstable
  <2> DEFINE v == CASE op \in {"AHX", "TAS"} -> And(r.a, r.x) [] op = "SHY" -> r.y [] op = "SHX" -> r.x
             retargeted == op \in {"SHY", "SHX"}
             masked == And(v, (PageOf(IF retargeted THEN eff ELSE base) + 1) % Size)
             target == IF retargeted THEN masked * Size + (eff % Size) ELSE eff
             rr == IF op = "TAS" THEN [r EXCEPT !.s = v] ELSE r
  <2>1. v \in Byte
    <3>1. And(r.a, r.x) \in Byte
      BY LogicBytes
    <3> QED  BY <1>0, <1>1, <3>1 DEF Unstable
  <2>2. o.regs = rr /\ o.d = BusWrite(d, target, masked, cost)
    BY <1>1 DEF StoreUnstable
  <2> HIDE DEF v
  <2>3. masked \in Byte
    BY LogicBytes
  <2> HIDE DEF masked
  <2>4. target \in Word
    <3>1. eff % Size \in Byte
      BY FlippedWord
    <3> QED  BY <2>3, <3>1, PageAndByte
  <2> HIDE DEF target
  <2>5. Sound(rr)
    <3>1. Sound([r EXCEPT !.s = v])
      BY <1>0, <2>1, SoundSet
    <3> QED  BY <3>1
  <2> HIDE DEF rr
  <2>6. WroteTo(d, target, masked, cost + d.stolen, o.d)
    BY <2>2, <2>3, <2>4, WriteState
  <2> QED  BY <2>2, <2>3, <2>4, <2>5, <2>6
<1>2. CASE op \notin Unstable
  <2> DEFINE v == Stored(op, r)
             e == BusWrite(d, eff, v, cost)
             h == [e EXCEPT !.bus = v]
             at == cost + d.stolen
  <2>1. v \in Byte
    BY <1>2, StoredByte
  <2>2. o.regs = r /\ o.d = h
    BY <1>2 DEF Store
  <2> HIDE DEF v
  <2>3. WroteTo(d, eff, v, at, e)
    BY <2>1, WriteState
  <2> HIDE DEF e
  <2>4. e \in Devices
    BY <2>3 DEF WroteTo
  <2>5. h \in Devices /\ h.log = e.log /\ h.stolen = e.stolen /\ h.ppu = e.ppu
    BY <2>1, <2>4 DEF Devices
  <2> HIDE DEF h
  <2>6. WroteTo(d, eff, v, at, h)
    BY <2>3, <2>5 DEF WroteTo
  <2> QED  BY <2>1, <2>2, <2>6
<1> QED  BY <1>1, <1>2

-----------------------------------------------------------------------------
(* The opcode table                                                        *)

Ops == Reads \cup Rmw \cup Stores \cup Unstable

\* No instruction is in two groups.
LEMMA Groups ==
  /\ \A op \in Reads : op \notin Rmw /\ op \notin Stores /\ op \notin Unstable
  /\ \A op \in Rmw : op \notin Stores /\ op \notin Unstable
  /\ \A op \in Stores : op \notin Unstable
<1>1. \A op \in Reads : op \notin Rmw
  BY DEF Reads, Rmw
<1>2. \A op \in Reads : op \notin Stores /\ op \notin Unstable
  BY DEF Reads, Stores, Unstable
<1>3. \A op \in Rmw : op \notin Stores /\ op \notin Unstable
  BY DEF Rmw, Stores, Unstable
<1>4. \A op \in Stores : op \notin Unstable
  BY DEF Stores, Unstable
<1> QED  BY <1>1, <1>2, <1>3, <1>4

\* The groups that the rows of the table name.
LEMMA EverywhereOps == Everywhere \subseteq Ops \ Unstable /\ Shifts \subseteq Rmw
<1>1. Arithmetic \subseteq Reads /\ Combined \subseteq Rmw /\ Shifts \subseteq Rmw
  BY DEF Arithmetic, Reads, Combined, Rmw, Shifts
<1>2. "STA" \in Stores
  BY DEF Stores
<1> QED  BY <1>1, <1>2, Groups DEF Everywhere, Ops

LEMMA OthersOps ==
  /\ {"LDX", "LDY", "CPX", "CPY", "NOP", "ANC", "ALR", "ARR", "XAA", "ATX", "AXS", "LAX", "BIT"} \subseteq Reads
  /\ {"INC", "DEC", "LAS"} \subseteq Rmw
  /\ {"STX", "STY", "SAX"} \subseteq Stores
  /\ {"AHX", "TAS", "SHY", "SHX"} \subseteq Unstable
BY DEF Reads, Rmw, Stores, Unstable

\* The rows of the opcode table.
LEMMA Modes == DOMAIN OpsOf = {"imm", "acc", "zp", "abs", "absX", "absY", "indX", "indY"}
BY DEF OpsOf

\* Each entry is an instruction of a group; the unstable stores have no direct mode.
LEMMA ModeOps ==
  ASSUME NEW mode \in DOMAIN OpsOf, NEW op \in OpsOf[mode]
  PROVE  /\ op \in Ops
         /\ mode \in Direct => op \notin Unstable
<1>0. /\ Reads \subseteq Ops \ Unstable /\ Rmw \subseteq Ops \ Unstable /\ Stores \subseteq Ops \ Unstable
      /\ Unstable \subseteq Ops
  BY Groups DEF Ops
<1>1. CASE mode \in {"imm", "acc", "zp"}
  <2>1. op \in Everywhere \cup Shifts \cup {"INC", "DEC", "STX", "STY", "SAX", "LAX", "LDX", "LDY", "CPX", "CPY",
                                            "BIT", "NOP", "ANC", "ALR", "ARR", "XAA", "ATX", "AXS"}
    BY <1>1 DEF OpsOf, Everywhere
  <2> QED  BY <1>0, <2>1, EverywhereOps, OthersOps
<1>2. CASE mode \in {"abs", "absX", "absY", "indX", "indY"}
  <2>1. op \in Everywhere \cup Shifts \cup {"INC", "DEC", "STX", "STY", "SAX", "LAX", "LDX", "LDY", "CPX", "CPY",
                                            "BIT", "NOP", "LAS", "TAS", "SHX", "SHY", "AHX"}
    BY <1>2 DEF OpsOf
  <2>2. mode \notin Direct
    BY <1>2 DEF Direct
  <2>3. op \in Ops
    BY <1>0, <2>1, EverywhereOps, OthersOps
  <2> QED  BY <2>2, <2>3
<1> QED  BY <1>1, <1>2, Modes

\* The class of an instruction follows its group.
LEMMA Classes ==
  ASSUME NEW op \in Ops
  PROVE  /\ ClassOf(op) = "load" <=> op \in Reads
         /\ ClassOf(op) = "rmw" <=> op \in Rmw
         /\ ClassOf(op) = "store" <=> op \in Stores \cup Unstable
         /\ op \in Unstable => ClassOf(op) = "store"
BY Groups DEF Ops, ClassOf

\* Costs are natural numbers, and what is charged is the cost and the crossing.
LEMMA Costs ==
  ASSUME NEW mode \in DOMAIN OpsOf, mode \notin Direct, NEW op, NEW base, NEW eff
  PROVE  /\ CostOf(op, mode) \in Nat
         /\ CrossingCost(op, mode, base, eff) \in Nat
         /\ Charged(op, mode, base, eff) = CostOf(op, mode) + CrossingCost(op, mode, base, eff)
<1>1. mode \in {"abs", "absX", "absY", "indX", "indY"}
  BY Modes DEF Direct
<1>2. CostOf(op, mode) \in Nat
  BY <1>1 DEF CostOf
<1>3. CrossingCost(op, mode, base, eff) \in Nat
  BY DEF CrossingCost
<1> QED  BY <1>2, <1>3 DEF Charged

-----------------------------------------------------------------------------
(* An instruction with a memory operand                                    *)

Final(l) == l.log[Len(l.log)]

\* What DmaPlacesBytes says of a step.
DmaStep ==
  (last'.kind = "store" /\ Final(last').addr = DmaPort /\ Size * Final(last').val < 8192) =>
    /\ ppu'.oamAddr = ppu.oamAddr /\ ppu'.oamCount = ppu.oamCount
    /\ FilledAll(ppu, ppu', Final(last').val, stack)

\* The state of the machine has its types.
Machine(r, b, u, t) == Sound(r) /\ b \in Byte /\ u \in PpuState /\ t \in [Byte -> Byte]

\* A device is what the machine goes on with.
LEMMA MachineAfter ==
  ASSUME NEW r, Sound(r), NEW d \in Devices
  PROVE  Machine(r, d.bus, d.ppu, d.stack)
BY DeviceHas DEF Machine

\* An instruction with a memory operand keeps the types, makes its last access when everything is
\* charged, and a DMA it starts puts its bytes where they belong.
LEMMA MemoryStep ==
  ASSUME NEW mode \in DOMAIN OpsOf, mode \notin Direct, NEW op \in Ops, NEW base \in Word,
         NEW operand \in Byte, Machine(regs, bus, ppu, stack),
         MemoryInstruction(op, mode, base, operand)
  PROVE  Machine(regs', bus', ppu', stack') /\ EndsWell(last') /\ DmaStep
<1> DEFINE class == ClassOf(op)
           index == IndexOf(mode, regs)
           eff == (base + index) % (Size * Size)
           plain == CostOf(op, mode)
           extra == CrossingCost(op, mode, base, eff)
           cost == Charged(op, mode, base, eff)
           fetched == IF mode \in Indirect THEN operand ELSE PageOf(base)
           dev == Device(fetched)
           d == DummyRead(dev, class, mode, base, eff, plain)
           result == IF op \in Unstable THEN StoreUnstable(op, regs, d, base, eff, cost)
                     ELSE CASE class = "load" -> Load(op, regs, d, eff, cost)
                            [] class = "store" -> Store(op, regs, d, eff, cost)
                            [] class = "rmw" -> Change(op, regs, d, eff, cost)
           l == [kind |-> class, base |-> base, eff |-> eff, log |-> result.d.log,
                 cost |-> plain + extra + result.d.stolen]
<1>1. /\ regs' = result.regs /\ bus' = result.d.bus /\ ppu' = result.d.ppu /\ stack' = result.d.stack
      /\ last' = l
  BY DEF MemoryInstruction
<1>2. Sound(regs) /\ ppu \in PpuState /\ stack \in [Byte -> Byte]
  BY DEF Machine
<1>3. eff \in Word
  <2>1. regs.x \in Byte /\ regs.y \in Byte
    BY <1>2, SoundHas
  <2>2. index \in Int
    BY <2>1, InByte DEF IndexOf
  <2>3. base \in Int
    BY InWord
  <2> HIDE DEF index
  <2>4. base + index \in Int
    BY <2>2, <2>3
  <2> QED  BY <2>4, Residues
<1>4. plain \in Nat /\ extra \in Nat /\ cost = plain + extra /\ cost \in Nat
  BY Costs
<1>5. fetched \in Byte
  BY <1>3, FlippedWord
<1>6. /\ dev \in Devices /\ dev.stolen = 0 /\ dev.ppu = ppu /\ dev.stack = stack /\ dev.log = <<>>
  <2>1. <<>> \in Seq(Accesses) /\ 0 \in Byte
    BY DEF Byte, Size
  <2> HIDE DEF fetched
  <2> QED  BY <1>2, <1>5, <2>1 DEF Device, Devices
<1> HIDE DEF eff, plain, extra, cost, dev
<1>7. Kept(dev, d)
  BY <1>3, <1>4, <1>6, DummyState
<1> HIDE DEF d
<1>8. d \in Devices /\ d.stolen = 0 /\ d.stack = stack /\ d.ppu.oam = ppu.oam
      /\ d.ppu.oamAddr = ppu.oamAddr /\ d.ppu.oamCount = ppu.oamCount /\ d.log \in Seq(Accesses)
  BY <1>6, <1>7, DeviceHas DEF Kept
<1>9. CASE op \in Reads
  <2>1. class = "load" /\ op \notin Unstable /\ class # "store"
    BY <1>9, Classes, Groups
  <2>2. result = Load(op, regs, d, eff, cost)
    BY <2>1
  <2> HIDE DEF result
  <2>3. Loaded(d, eff, cost, result)
    BY <1>2, <1>3, <1>4, <1>8, <1>9, <2>2, LoadOutcome
  <2>4. PICK v \in Byte : result.d.log = Append(d.log, ReadOf(eff, v, cost))
    BY <2>3 DEF Loaded
  <2>5. Sound(result.regs) /\ result.d \in Devices /\ result.d.stolen = d.stolen
    BY <2>3 DEF Loaded
  <2>6. l.kind = "load" /\ l.eff = eff /\ l.cost = cost /\ l.log = Append(d.log, ReadOf(eff, v, cost))
    BY <1>4, <1>8, <2>1, <2>4, <2>5
  <2> HIDE DEF l
  <2>7. EndsWell(l)
    BY <1>3, <1>4, <1>8, <2>6, LoadEnds
  <2>8. Machine(result.regs, result.d.bus, result.d.ppu, result.d.stack)
    BY <2>5, MachineAfter
  <2> QED  BY <1>1, <2>6, <2>7, <2>8 DEF DmaStep
<1>10. CASE op \in Rmw
  <2>1. class = "rmw" /\ op \notin Unstable /\ class # "store"
    BY <1>10, Classes, Groups
  <2>2. result = Change(op, regs, d, eff, cost)
    BY <2>1
  <2> HIDE DEF result
  <2>3. Changed(d, eff, cost, result)
    BY <1>2, <1>3, <1>4, <1>8, <1>10, <2>2, ChangeOutcome
  <2>4. PICK v, w \in Byte, at \in Nat :
          /\ at = cost + d.stolen + Stolen(eff)
          /\ result.d.log = Append(Append(Append(d.log, ReadOf(eff, v, cost)),
                                         WriteOf(eff, v, cost + d.stolen)), WriteOf(eff, w, at))
    BY <2>3 DEF Changed
  <2>5. Sound(result.regs) /\ result.d \in Devices
        /\ result.d.stolen = d.stolen + Stolen(eff) + Stolen(eff)
    BY <2>3 DEF Changed
  <2>6. cost + d.stolen = cost
    BY <1>4, <1>8
  <2>7. /\ l.kind = "rmw" /\ l.eff = eff /\ l.cost = at + Stolen(eff)
        /\ l.log = ThreeMore(d.log, eff, v, w, cost, at)
    <3>1. l.cost = at + Stolen(eff)
      BY <1>4, <1>8, <2>4, <2>5, StolenNat
    <3>2. result.d.log = ThreeMore(d.log, eff, v, w, cost, at)
      BY <2>4, <2>6 DEF ThreeMore
    <3> QED  BY <2>1, <3>1, <3>2
  <2> HIDE DEF l
  <2>8. EndsWell(l)
    BY <1>3, <1>4, <1>8, <2>7, ChangeEnds
  <2>9. Machine(result.regs, result.d.bus, result.d.ppu, result.d.stack)
    BY <2>5, MachineAfter
  <2> QED  BY <1>1, <2>7, <2>8, <2>9 DEF DmaStep
<1>11. CASE op \in Stores \cup Unstable
  <2>1. class = "store"
    BY <1>11, Classes
  <2>2. result = IF op \in Unstable THEN StoreUnstable(op, regs, d, base, eff, cost)
                 ELSE Store(op, regs, d, eff, cost)
    BY <2>1
  <2> HIDE DEF result
  <2>3. /\ Sound(result.regs)
        /\ \E addr \in Word, v \in Byte : WroteTo(d, addr, v, cost + d.stolen, result.d)
    BY <1>2, <1>3, <1>4, <1>8, <1>11, <2>2, StoreOutcome
  <2>4. PICK addr \in Word, v \in Byte : WroteTo(d, addr, v, cost + d.stolen, result.d)
    BY <2>3
  <2>5. cost + d.stolen = cost
    BY <1>4, <1>8
  <2>6. /\ result.d \in Devices /\ result.d.log = Append(d.log, WriteOf(addr, v, cost))
        /\ result.d.stolen = Stolen(addr)
        /\ addr = DmaPort =>
             /\ result.d.ppu.oamAddr = ppu.oamAddr /\ result.d.ppu.oamCount = ppu.oamCount
             /\ Size * v < 8192 => FilledAll(d.ppu, result.d.ppu, v, stack)
    BY <1>8, <2>4, <2>5, StolenNat DEF WroteTo
  <2>7. l.kind = "store" /\ l.cost = cost + Stolen(addr) /\ l.log = Append(d.log, WriteOf(addr, v, cost))
    BY <1>4, <2>1, <2>6
  <2> HIDE DEF l
  <2>8. EndsWell(l)
    BY <1>4, <1>8, <2>7, StoreEnds
  <2>9. Final(l).addr = addr /\ Final(l).val = v
    <3> DEFINE x == WriteOf(addr, v, cost)
    <3>1. x \in Accesses /\ x.addr = addr /\ x.val = v
      BY <1>4 DEF WriteOf, Accesses
    <3>2. l.log = Append(d.log, x)
      BY <2>7
    <3> HIDE DEF x
    <3>3. Len(l.log) = Len(d.log) + 1 /\ l.log[Len(d.log) + 1] = x
      BY <1>8, <3>1, <3>2, AppendLast
    <3> QED  BY <3>1, <3>3 DEF Final
  <2>10. \A w : FilledAll(d.ppu, w, v, stack) => FilledAll(ppu, w, v, stack)
    BY <1>8 DEF FilledAll
  <2>11. Machine(result.regs, result.d.bus, result.d.ppu, result.d.stack)
    BY <2>3, <2>6, MachineAfter
  <2> QED  BY <1>1, <2>6, <2>8, <2>9, <2>10, <2>11 DEF DmaStep
<1> QED  BY <1>9, <1>10, <1>11 DEF Ops

\* An instruction that makes no access of its own.
LEMMA DirectStep ==
  ASSUME NEW mode \in Direct, NEW op \in Ops \ Unstable, NEW m \in Byte, NEW fetched \in Byte,
         Machine(regs, bus, ppu, stack), DirectInstruction(op, mode, m, fetched)
  PROVE  Machine(regs', bus', ppu', stack') /\ last' = NoAccess
<1>1. Sound(regs) /\ regs.a \in Byte /\ ppu' \in PpuState /\ stack' \in [Byte -> Byte] /\ last' = NoAccess
  BY SoundHas DEF Machine, DirectInstruction
<1>2. CASE op \in Rmw
  <2> DEFINE r == Modify(op, regs, m)
             v == Written(op, regs, m)
  <2>1. Sound(r) /\ v \in Byte
    BY <1>1, <1>2, ModifySound, WrittenByte
  <2>2. /\ regs' = IF mode = "acc" THEN [r EXCEPT !.a = v] ELSE r
        /\ bus' = IF mode = "acc" \/ op = "NOP" THEN fetched ELSE v
    BY <1>2 DEF DirectInstruction
  <2> HIDE DEF r, v
  <2>3. Sound([r EXCEPT !.a = v])
    <3>1. Flags(r.p)
      BY <2>1 DEF Sound
    <3> QED  BY <2>1, <3>1, SoundSet
  <2> QED  BY <1>1, <2>1, <2>2, <2>3 DEF Machine
<1>3. CASE op \in Stores
  <2>1. op \notin Rmw
    BY <1>3, Groups
  <2>2. Stored(op, regs) \in Byte
    BY <1>1, <1>3, StoredByte
  <2>3. /\ regs' = regs
        /\ bus' = IF mode = "acc" \/ op = "NOP" THEN fetched ELSE Stored(op, regs)
    BY <1>3, <2>1 DEF DirectInstruction
  <2> QED  BY <1>1, <2>2, <2>3 DEF Machine
<1>4. CASE op \in Reads
  <2>1. op \notin Rmw /\ op \notin Stores
    BY <1>4, Groups
  <2>2. Sound(Operate(op, regs, m))
    BY <1>1, <1>4, OperateSound
  <2>3. /\ regs' = Operate(op, regs, m)
        /\ bus' = IF mode = "acc" \/ op = "NOP" THEN fetched ELSE m
    BY <2>1 DEF DirectInstruction
  <2> QED  BY <1>1, <2>2, <2>3 DEF Machine
<1> QED  BY <1>2, <1>3, <1>4 DEF Ops

-----------------------------------------------------------------------------
(* The invariant                                                           *)

\* The byte i places above the stack pointer.
CellOf(t, s, i) == t[(s + i) % Size]

Frames == [kind : {"call", "brk", "irq"}, at : Nat, pc : Word, p : SUBSET FlagNames]
FrameSize(f) == IF f.kind = "call" THEN 2 ELSE 3
FrameOk(f) == f \in Frames /\ Flags(f.p) /\ FrameSize(f) <= f.at

\* Three bytes are those of a frame.
Shows(f, c1, c2, c3) ==
  IF f.kind = "call" THEN (c1 + Size * c2 + 1) % (Size * Size) = f.pc
  ELSE c2 + Size * c3 = f.pc /\ FlagsOf(c1) = f.p \cup (IF f.kind = "brk" THEN {"B"} ELSE {})

\* A frame is on the stack, of n bytes below the pointer s.
Held(f, s, t, n) ==
  Shows(f, CellOf(t, s, (n - f.at) + 1), CellOf(t, s, (n - f.at) + 2), CellOf(t, s, (n - f.at) + 3))

AllHeld(F, s, t, n) == \A f \in F : FrameOk(f) /\ f.at <= n /\ Held(f, s, t, n)

\* The invariant about the frames is the property FramesIntact.
LEMMA FramesAre ==
  ASSUME AllHeld(frames, regs.s, stack, depth), regs.s \in Byte, depth \in Nat
  PROVE  FramesIntact
<1> SUFFICES ASSUME NEW f \in frames
             PROVE  LET Cell(k) == stack[(regs.s + (depth - f.at) + k) % Size]
                        Address(k) == Cell(k) + Size * Cell(k + 1)
                    IN  IF f.kind = "call" THEN (Address(1) + 1) % (Size * Size) = f.pc
                        ELSE /\ Address(2) = f.pc
                             /\ FlagsOf(Cell(1)) = f.p \cup (IF f.kind = "brk" THEN {"B"} ELSE {})
  BY DEF FramesIntact
<1> DEFINE Cell(k) == stack[(regs.s + (depth - f.at) + k) % Size]
<1>1. FrameOk(f) /\ Held(f, regs.s, stack, depth) /\ f.at \in Nat
  BY DEF AllHeld, FrameOk, Frames
<1>2. \A s, n, k \in Int : s + n + k = s + (n + k)
  OBVIOUS
<1>3. /\ Cell(1) = CellOf(stack, regs.s, (depth - f.at) + 1)
      /\ Cell(2) = CellOf(stack, regs.s, (depth - f.at) + 2)
      /\ Cell(3) = CellOf(stack, regs.s, (depth - f.at) + 3)
  <2>1. regs.s \in Int /\ depth - f.at \in Int
    BY <1>1, InByte
  <2> QED  BY <1>2, <2>1 DEF CellOf
<1>4. 1 + 1 = 2 /\ 2 + 1 = 3
  OBVIOUS
<1> HIDE DEF Cell
<1>5. Shows(f, Cell(1), Cell(2), Cell(3))
  BY <1>1, <1>3 DEF Held
<1>6. IF f.kind = "call" THEN ((Cell(1) + Size * Cell(1 + 1)) + 1) % (Size * Size) = f.pc
      ELSE /\ Cell(2) + Size * Cell(2 + 1) = f.pc
           /\ FlagsOf(Cell(1)) = f.p \cup (IF f.kind = "brk" THEN {"B"} ELSE {})
  BY <1>4, <1>5 DEF Shows
<1> QED  BY <1>6 DEF Cell

Proper ==
  /\ program \in Programs /\ pc \in program.code /\ depth \in 0..program.room
  /\ Machine(regs, bus, ppu, stack)

IInv == Proper /\ EndsWell(last) /\ AllHeld(frames, regs.s, stack, depth)

\* What a program may use.
LEMMA ProgramHas ==
  ASSUME NEW g \in Programs
  PROVE  /\ g.modes \subseteq DOMAIN OpsOf /\ g.bases \subseteq Word /\ g.operands \subseteq Byte
         /\ g.x \subseteq Byte /\ g.y \subseteq Byte
         /\ g.code \subseteq Word /\ g.targets \subseteq g.code /\ g.vector \in g.code
         /\ g.room \in 0..(Size - 1) /\ g.room \in Nat /\ g.room <= 255
         /\ Fetched \subseteq Byte /\ g.vector \in Word
<1>1. g.room \in 0..(Size - 1)
  BY CpuAssumption
<1>2. g.room \in Nat /\ g.room <= 255
  BY <1>1 DEF Size
<1> QED  BY <1>1, <1>2, CpuAssumption DEF Fetched

\* Nothing to show of an instruction without accesses, and of no frames.
LEMMA NoneEnds == EndsWell(NoAccess)
BY DEF EndsWell, NoAccess

LEMMA NoneHeld == \A s, t, n : AllHeld({}, s, t, n)
BY DEF AllHeld

\* Small numbers are bytes.
LEMMA ZeroByte == \A k \in 0..4 : k \in Byte
BY DEF Byte, Size

\* Power-on.
LEMMA InitInv == Init => IInv
<1> SUFFICES ASSUME Init PROVE IInv
  OBVIOUS
<1>1. program \in Programs /\ pc = program.vector /\ depth = 0 /\ frames = {} /\ last = NoAccess
  BY DEF Init
<1>2. Sound(regs)
  <2>1. PICK x \in program.x, y \in program.y : regs = [a |-> 0, x |-> x, y |-> y, s |-> 253, p |-> {"I", "U"}]
    BY DEF Init
  <2>2. x \in Byte /\ y \in Byte /\ 0 \in Byte /\ 253 \in Byte
    BY <1>1, ProgramHas DEF Byte, Size
  <2> QED  BY <2>1, <2>2, FlagNamesAre DEF Sound, Registers, Flags
<1>3. bus \in Byte
  <2>1. pc \in Word /\ bus = PageOf(pc)
    BY <1>1, ProgramHas DEF Init, PageOf
  <2> QED  BY <2>1, FlippedWord
<1>4. ppu \in PpuState
  <2>1. ppu = PpuPowerOn /\ 0 \in Byte /\ 0 \in OamIndex
    BY OamFacts DEF Init, Byte, Size
  <2> QED  BY <2>1 DEF PpuPowerOn, PpuState
<1>5. stack \in [Byte -> Byte]
  BY DEF Init
<1>6. pc \in program.code /\ depth \in 0..program.room
  BY <1>1, ProgramHas
<1> QED  BY <1>1, <1>2, <1>3, <1>4, <1>5, <1>6, NoneEnds, NoneHeld DEF IInv, Proper, Machine

-----------------------------------------------------------------------------
(* Steps that leave the stack alone, or end its history                    *)

\* A step without an access.
LEMMA NoDma ==
  ASSUME last' = NoAccess
  PROVE  DmaStep /\ EndsWell(last')
BY NoneEnds DEF DmaStep, NoAccess

\* Where the program moves its stack pointer, the frames are forgotten.
LEMMA UnwoundStep ==
  ASSUME IInv, Unwound, program' = program
  PROVE  depth' \in 0..program'.room /\ AllHeld(frames', regs'.s, stack', depth')
<1>1. depth \in 0..program.room /\ AllHeld(frames, regs.s, stack, depth) /\ program.room \in Nat
  BY ProgramHas DEF IInv, Proper
<1>2. CASE regs'.s = regs.s /\ stack' = stack
  <2>1. depth' = depth /\ frames' = frames
    BY <1>2 DEF Unwound
  <2> QED  BY <1>1, <1>2, <2>1
<1>3. CASE ~(regs'.s = regs.s /\ stack' = stack)
  <2>1. depth' = 0 /\ frames' = {}
    BY <1>3 DEF Unwound
  <2> QED  BY <1>1, <2>1, NoneHeld
<1> QED  BY <1>2, <1>3

\* The step lemmas: one for each action.
LEMMA DataStep ==
  ASSUME IInv, Data
  PROVE  IInv' /\ DmaStep
<1>1. PICK mode \in program.modes : \E op \in program.ops \cap OpsOf[mode] :
        /\ GoOn(BytesOf(mode))
        /\ IF mode \in Direct
           THEN \E m \in program.operands, fetched \in Fetched :
                  /\ mode = "acc" => m = regs.a
                  /\ DirectInstruction(op, mode, m, fetched)
           ELSE \E base \in program.bases, operand \in program.operands :
                  MemoryInstruction(op, mode, base, operand)
  BY DEF Data
<1>2. PICK op \in program.ops \cap OpsOf[mode] :
        /\ GoOn(BytesOf(mode))
        /\ IF mode \in Direct
           THEN \E m \in program.operands, fetched \in Fetched :
                  /\ mode = "acc" => m = regs.a
                  /\ DirectInstruction(op, mode, m, fetched)
           ELSE \E base \in program.bases, operand \in program.operands :
                  MemoryInstruction(op, mode, base, operand)
  BY <1>1
<1>3. Unwound /\ program' = program
  BY DEF Data
<1>4. program \in Programs /\ Machine(regs, bus, ppu, stack)
  BY DEF IInv, Proper
<1>5. mode \in DOMAIN OpsOf /\ op \in Ops /\ (mode \in Direct => op \notin Unstable)
  BY <1>2, <1>4, ProgramHas, ModeOps
<1>6. pc' \in program.code
  BY <1>2 DEF GoOn, GoTo
<1>7. Machine(regs', bus', ppu', stack') /\ EndsWell(last') /\ DmaStep
  <2>1. CASE mode \in Direct
    <3>1. PICK m \in program.operands, fetched \in Fetched : DirectInstruction(op, mode, m, fetched)
      BY <1>2, <2>1
    <3>2. m \in Byte /\ fetched \in Byte
      BY <1>4, ProgramHas
    <3>3. Machine(regs', bus', ppu', stack') /\ last' = NoAccess
      BY <1>4, <1>5, <2>1, <3>1, <3>2, DirectStep
    <3> QED  BY <3>3, NoDma
  <2>2. CASE mode \notin Direct
    <3>1. PICK base \in program.bases, operand \in program.operands : MemoryInstruction(op, mode, base, operand)
      BY <1>2, <2>2
    <3>2. base \in Word /\ operand \in Byte
      BY <1>4, ProgramHas
    <3> QED  BY <1>4, <1>5, <2>2, <3>1, <3>2, MemoryStep
  <2> QED  BY <2>1, <2>2
<1>8. depth' \in 0..program'.room /\ AllHeld(frames', regs'.s, stack', depth')
  BY <1>3, UnwoundStep
<1> QED  BY <1>3, <1>4, <1>6, <1>7, <1>8 DEF IInv, Proper

LEMMA SimpleStep ==
  ASSUME IInv, Simple
  PROVE  IInv' /\ DmaStep
<1>1. PICK op \in program.ops \cap Implied, fetched \in Fetched :
        GoOn(1) /\ regs' = Imply(op, regs) /\ bus' = fetched
  BY DEF Simple
<1>2. Unwound /\ program' = program /\ ppu' = ppu /\ stack' = stack /\ last' = NoAccess
  BY DEF Simple
<1>3. program \in Programs /\ Machine(regs, bus, ppu, stack)
  BY DEF IInv, Proper
<1>4. pc' \in program.code
  BY <1>1 DEF GoOn, GoTo
<1>5. Machine(regs', bus', ppu', stack')
  <2>1. Sound(regs) /\ fetched \in Byte
    BY <1>3, ProgramHas DEF Machine
  <2>2. Sound(regs')
    BY <1>1, <2>1, ImplySound
  <2> QED  BY <1>1, <1>2, <1>3, <2>1, <2>2 DEF Machine
<1>6. depth' \in 0..program'.room /\ AllHeld(frames', regs'.s, stack', depth')
  BY <1>2, UnwoundStep
<1> QED  BY <1>2, <1>3, <1>4, <1>5, <1>6, NoDma DEF IInv, Proper

LEMMA VblankStep ==
  ASSUME IInv, Vblank
  PROVE  IInv' /\ DmaStep
<1>1. /\ ppu' = IF ppu.vblank THEN ClearVblank(ppu) ELSE RaiseVblank(ppu)
      /\ last' = NoAccess
      /\ UNCHANGED <<program, regs, pc, bus, stack, depth, frames>>
  BY DEF Vblank
<1>2. ppu \in PpuState
  BY DEF IInv, Proper, Machine
<1>3. ClearVblank(ppu) \in PpuState /\ RaiseVblank(ppu) \in PpuState
  <2>1. 0 \in OamIndex
    BY OamFacts
  <2>2. ClearVblank(ppu) \in PpuState
    BY <1>2 DEF ClearVblank, PpuState
  <2>3. RaiseVblank(ppu) \in PpuState
    BY <1>2, <2>1 DEF RaiseVblank, PpuState
  <2> QED  BY <2>2, <2>3
<1>4. ppu' \in PpuState
  BY <1>1, <1>3
<1> QED  BY <1>1, <1>4, NoDma DEF IInv, Proper, Machine

LEMMA BranchStep ==
  ASSUME IInv, Branch
  PROVE  IInv' /\ DmaStep
<1>1. PICK op \in program.ops \cap DOMAIN BranchIf, offset \in program.operands, fetched \in Fetched :
        LET taken == (BranchIf[op][1] \in regs.p) = BranchIf[op][2] IN
        /\ bus' = IF taken THEN offset ELSE fetched
        /\ GoOn(IF taken THEN 2 + Signed(offset) ELSE 2)
  BY DEF Branch
<1>2. last' = NoAccess /\ UNCHANGED <<program, ppu, regs, stack, depth, frames>>
  BY DEF Branch, Aside
<1>3. offset \in Byte /\ fetched \in Byte
  BY ProgramHas DEF IInv, Proper
<1>4. pc' \in program.code /\ bus' \in Byte
  BY <1>1, <1>3 DEF GoOn, GoTo
<1> QED  BY <1>2, <1>4, NoDma DEF IInv, Proper, Machine

LEMMA JmpStep ==
  ASSUME IInv, Jmp
  PROVE  IInv' /\ DmaStep
<1>1. PICK target \in program.targets : pc' = target /\ bus' = PageOf(target)
  BY DEF Jmp
<1>2. last' = NoAccess /\ UNCHANGED <<program, ppu, regs, stack, depth, frames>>
  BY DEF Jmp, Aside
<1>3. target \in program.code /\ target \in Word
  BY ProgramHas DEF IInv, Proper
<1>4. PageOf(target) \in Byte
  BY <1>3, FlippedWord
<1> QED  BY <1>1, <1>2, <1>3, <1>4, NoDma DEF IInv, Proper, Machine

-----------------------------------------------------------------------------
(* The stack                                                               *)

Pointers == [s : Byte, stack : [Byte -> Byte], bus : Byte, val : Byte]

\* The parts of a pointer.
LEMMA PointerHas ==
  ASSUME NEW m \in Pointers
  PROVE  m.s \in Byte /\ m.stack \in [Byte -> Byte] /\ m.bus \in Byte /\ m.val \in Byte
BY DEF Pointers

\* A place below the pointer, reckoned from the one after a push, and after a pull.
LEMMA Around ==
  ASSUME NEW s \in Byte
  PROVE  /\ (s - 1) % Size \in Byte /\ (s + 1) % Size \in Byte
         /\ \A i \in Int : (s + i) % Size \in Byte
         /\ (((s - 1) % Size) + 1) % Size = s
         /\ \A i \in Nat : 1 <= i /\ i <= 255 =>
              /\ (((s - 1) % Size) + (i + 1)) % Size = (s + i) % Size
              /\ (s + i) % Size # s
         /\ \A i \in Int : (((s + 1) % Size) + i) % Size = (s + (i + 1)) % Size
<1>1. s \in Int /\ 0 <= s /\ s <= 255
  BY InByte
<1>2. \A i \in Int : (s + i) % Size \in Byte
  BY <1>1, Residues
<1>3. (s - 1) % Size \in Byte /\ (s + 1) % Size \in Byte
  BY <1>1, Residues
<1>4. (((s - 1) % 256) + 1) % 256 = s
  BY <1>1
<1>5. ASSUME NEW i \in Nat, 1 <= i, i <= 255
      PROVE  (((s - 1) % 256) + (i + 1)) % 256 = (s + i) % 256 /\ (s + i) % 256 # s
  BY <1>1, <1>5
<1>6. ASSUME NEW i \in Int
      PROVE  (((s + 1) % 256) + i) % 256 = (s + (i + 1)) % 256
  BY <1>1, <1>6
<1> QED  BY <1>2, <1>3, <1>4, <1>5, <1>6 DEF Size

\* A push: the byte is on top and every other one a place further.
LEMMA PushIs ==
  ASSUME NEW m \in Pointers, NEW v \in Byte, NEW q, q = Push(m, v)
  PROVE  /\ q \in Pointers /\ q.bus = v
         /\ CellOf(q.stack, q.s, 1) = v
         /\ \A i \in Nat : 1 <= i /\ i <= 255 => CellOf(q.stack, q.s, i + 1) = CellOf(m.stack, m.s, i)
<1> DEFINE t == [m.stack EXCEPT ![m.s] = v]
           s == (m.s - 1) % Size
<1>1. m.s \in Byte /\ m.stack \in [Byte -> Byte]
  BY PointerHas
<1>2. t \in [Byte -> Byte] /\ t[m.s] = v /\ \A k \in Byte : k # m.s => t[k] = m.stack[k]
  BY <1>1
<1>3. s \in Byte
  BY <1>1, Around
<1>4. q = [m EXCEPT !.stack = t, !.s = s, !.bus = v]
  BY DEF Push
<1>5. (s + 1) % Size = m.s
  BY <1>1, Around
<1>6. \A i \in Nat : 1 <= i /\ i <= 255 =>
        (s + (i + 1)) % Size = (m.s + i) % Size /\ (m.s + i) % Size # m.s /\ (m.s + i) % Size \in Byte
  BY <1>1, Around
<1> HIDE DEF t, s
<1>7. q \in Pointers /\ q.bus = v /\ q.stack = t /\ q.s = s
  BY <1>2, <1>3, <1>4 DEF Pointers
<1>8. CellOf(q.stack, q.s, 1) = v
  BY <1>2, <1>5, <1>7 DEF CellOf
<1>9. ASSUME NEW i \in Nat, 1 <= i, i <= 255
      PROVE  CellOf(q.stack, q.s, i + 1) = CellOf(m.stack, m.s, i)
  BY <1>2, <1>6, <1>7, <1>9 DEF CellOf
<1> QED  BY <1>7, <1>8, <1>9

\* A pull: the byte on top, and every other one a place nearer.
LEMMA PullIs ==
  ASSUME NEW m \in Pointers, NEW q, q = Pull(m)
  PROVE  /\ q \in Pointers /\ q.stack = m.stack /\ q.bus = q.val
         /\ q.val = CellOf(m.stack, m.s, 1)
         /\ \A i \in Int : CellOf(q.stack, q.s, i) = CellOf(m.stack, m.s, i + 1)
<1> DEFINE s == (m.s + 1) % Size
           v == m.stack[s]
<1>1. m.s \in Byte /\ m.stack \in [Byte -> Byte]
  BY PointerHas
<1>2. s \in Byte /\ v \in Byte
  BY <1>1, Around
<1>3. q = [m EXCEPT !.s = s, !.val = v, !.bus = v]
  BY DEF Pull
<1>4. \A i \in Int : (s + i) % Size = (m.s + (i + 1)) % Size
  BY <1>1, Around
<1>5. v = CellOf(m.stack, m.s, 1)
  BY DEF CellOf
<1> HIDE DEF s, v
<1>6. q \in Pointers /\ q.stack = m.stack /\ q.bus = v /\ q.val = v /\ q.s = s
  BY <1>1, <1>2, <1>3 DEF Pointers
<1> QED  BY <1>4, <1>5, <1>6 DEF CellOf

\* The frames on the stack stay there when a byte is pushed: it takes none of their cells.
LEMMA PushHolds ==
  ASSUME NEW F, NEW m \in Pointers, NEW v \in Byte, NEW q, q = Push(m, v),
         NEW n \in Nat, n <= 254, AllHeld(F, m.s, m.stack, n), NEW k, k = n + 1
  PROVE  AllHeld(F, q.s, q.stack, k)
<1> SUFFICES ASSUME NEW f \in F
             PROVE  FrameOk(f) /\ f.at <= k /\ Held(f, q.s, q.stack, k)
  BY DEF AllHeld
<1>1. /\ FrameOk(f) /\ f.at <= n /\ Held(f, m.s, m.stack, n) /\ f.at \in Nat /\ FrameSize(f) <= f.at
  BY DEF AllHeld, FrameOk, Frames
<1>2. \A i \in Nat : 1 <= i /\ i <= 255 => CellOf(q.stack, q.s, i + 1) = CellOf(m.stack, m.s, i)
  BY PushIs
<1> DEFINE j == n - f.at
<1>3. j \in Nat /\ k - f.at = j + 1 /\ f.at <= k /\ j + FrameSize(f) <= 254
  BY <1>1 DEF FrameSize
<1>4. FrameSize(f) >= 2
  BY DEF FrameSize
<1>5. Shows(f, CellOf(m.stack, m.s, j + 1), CellOf(m.stack, m.s, j + 2), CellOf(m.stack, m.s, j + 3))
  BY <1>1 DEF Held
<1> HIDE DEF j
<1>6. ASSUME NEW i \in {1, 2, 3}, j + i <= 255
      PROVE  CellOf(q.stack, q.s, (k - f.at) + i) = CellOf(m.stack, m.s, j + i)
  <2>1. (k - f.at) + i = (j + i) + 1 /\ j + i \in Nat /\ 1 <= j + i
    BY <1>3
  <2> QED  BY <1>2, <1>6, <2>1
<1>7. CellOf(q.stack, q.s, (k - f.at) + 1) = CellOf(m.stack, m.s, j + 1)
      /\ CellOf(q.stack, q.s, (k - f.at) + 2) = CellOf(m.stack, m.s, j + 2)
  <2>1. j + 1 <= 255 /\ j + 2 <= 255
    BY <1>3 DEF FrameSize
  <2> QED  BY <1>6, <2>1
<1>8. CASE f.kind = "call"
  BY <1>1, <1>3, <1>5, <1>7, <1>8 DEF Held, Shows
<1>9. CASE f.kind # "call"
  <2>1. j + 3 <= 255
    BY <1>3, <1>9 DEF FrameSize
  <2>2. CellOf(q.stack, q.s, (k - f.at) + 3) = CellOf(m.stack, m.s, j + 3)
    BY <1>6, <2>1
  <2> QED  BY <1>1, <1>3, <1>5, <1>7, <2>2 DEF Held
<1> QED  BY <1>8, <1>9

\* And those below it when a byte is pulled.
LEMMA PullHolds ==
  ASSUME NEW F, NEW G, G \subseteq F, NEW m \in Pointers, NEW q, q = Pull(m),
         NEW n \in Nat, NEW k \in Nat, n = k + 1, AllHeld(F, m.s, m.stack, n),
         \A f \in G : f.at <= k
  PROVE  AllHeld(G, q.s, q.stack, k)
<1> SUFFICES ASSUME NEW f \in G
             PROVE  FrameOk(f) /\ f.at <= k /\ Held(f, q.s, q.stack, k)
  BY DEF AllHeld
<1>1. FrameOk(f) /\ f.at <= k /\ Held(f, m.s, m.stack, n) /\ f.at \in Nat
  BY DEF AllHeld, FrameOk, Frames
<1>2. \A i \in Int : CellOf(q.stack, q.s, i) = CellOf(m.stack, m.s, i + 1)
  BY PullIs
<1>3. ASSUME NEW i \in Int
      PROVE  CellOf(q.stack, q.s, (k - f.at) + i) = CellOf(m.stack, m.s, (n - f.at) + i)
  <2>1. ((k - f.at) + i) + 1 = (n - f.at) + i /\ (k - f.at) + i \in Int
    BY <1>1
  <2> QED  BY <1>2, <2>1
<1>4. 1 \in Int /\ 2 \in Int /\ 3 \in Int
  OBVIOUS
<1>5. Held(f, q.s, q.stack, k)
  BY <1>1, <1>3, <1>4 DEF Held
<1> QED  BY <1>1, <1>5

\* The frames when n bytes more are on the stack.
LEMMA PointerIs ==
  ASSUME IInv, NEW b \in Byte
  PROVE  /\ Pointer(b) \in Pointers /\ Pointer(b).s = regs.s /\ Pointer(b).stack = stack
         /\ AllHeld(frames, regs.s, stack, depth)
         /\ Sound(regs) /\ ppu \in PpuState /\ program \in Programs
         /\ depth \in Nat /\ pc \in Word
<1>1. Sound(regs) /\ stack \in [Byte -> Byte] /\ ppu \in PpuState /\ program \in Programs /\ pc \in program.code
  BY DEF IInv, Proper, Machine
<1>2. regs.s \in Byte /\ 0 \in Byte
  BY <1>1, SoundHas, ZeroByte
<1>3. Pointer(b) \in Pointers /\ Pointer(b).s = regs.s /\ Pointer(b).stack = stack
  BY <1>1, <1>2 DEF Pointer, Pointers
<1>4. depth \in Nat /\ AllHeld(frames, regs.s, stack, depth)
  BY <1>1, ProgramHas DEF IInv, Proper
<1>5. pc \in Word
  BY <1>1, ProgramHas
<1> QED  BY <1>1, <1>3, <1>4, <1>5

\* A moved stack pointer, and P with it, in the registers.
LEMMA PointerSound ==
  ASSUME NEW r, Sound(r), NEW s \in Byte, NEW q, Flags(q)
  PROVE  Sound([r EXCEPT !.s = s]) /\ Sound([r EXCEPT !.s = s, !.p = q])
<1>1. Sound([r EXCEPT !.s = s])
  <2>1. Flags(r.p)
    BY DEF Sound
  <2> QED  BY <2>1, SoundSet
<1>2. [r EXCEPT !.s = s, !.p = q] \in Registers /\ [r EXCEPT !.s = s, !.p = q].p = q
  <2>1. r \in Registers /\ q \in SUBSET FlagNames
    BY DEF Sound, Flags
  <2> QED  BY <2>1 DEF Registers
<1> QED  BY <1>1, <1>2 DEF Sound

\* Whatever byte is pulled into P, bit 4 is not in it and bit 5 is (O-2).
LEMMA FlagsPulledAre == \A v : Flags(FlagsPulled(v))
BY FlagNamesAre DEF Flags, FlagsPulled, FlagsOf

\* The state after a step that pushes, or one that pulls.
LEMMA StackedInv ==
  ASSUME IInv, Aside, pc' \in program.code, bus' \in Byte, Sound(regs'),
         stack' \in [Byte -> Byte], depth' \in 0..program.room,
         AllHeld(frames', regs'.s, stack', depth')
  PROVE  IInv' /\ DmaStep
<1>1. last' = NoAccess /\ program' = program /\ ppu' = ppu
  BY DEF Aside
<1> QED  BY <1>1, NoDma DEF IInv, Proper, Machine

\* PHA and PHP.
LEMMA PushStep ==
  ASSUME IInv, NEW op, NEW fetched \in Fetched, PushInstruction(op, fetched)
  PROVE  IInv' /\ DmaStep
<1> DEFINE v == IF op = "PHA" THEN regs.a ELSE FlagsByte(regs.p \cup {"B"})
           o == Pointer(fetched)
           m == Push(o, v)
<1>1. /\ regs' = [regs EXCEPT !.s = m.s] /\ bus' = m.bus
      /\ Pushed(m, 1, {}) /\ GoOn(1) /\ Aside
  BY DEF PushInstruction
<1>2. fetched \in Byte /\ program.room \in Nat /\ program.room <= 255
  BY ProgramHas DEF IInv, Proper
<1>3. /\ o \in Pointers /\ o.s = regs.s /\ o.stack = stack /\ AllHeld(frames, regs.s, stack, depth)
      /\ Sound(regs) /\ depth \in Nat
  BY <1>2, PointerIs
<1>4. v \in Byte
  <2>1. regs.p \cup {"B"} \subseteq FlagNames /\ regs.a \in Byte
    BY <1>3, SoundHas, FlagNamesAre
  <2> QED  BY <2>1, FlagsRoundTrip
<1> HIDE DEF o, v
<1>5. m \in Pointers
  BY <1>3, <1>4, PushIs
<1>6. depth + 1 <= program.room /\ stack' = m.stack /\ depth' = depth + 1 /\ frames' = frames
  BY <1>1 DEF Pushed
<1>7. depth <= 254 /\ depth' \in 0..program.room
  BY <1>2, <1>3, <1>6
<1>8. AllHeld(frames, m.s, m.stack, depth')
  BY <1>3, <1>4, <1>6, <1>7, PushHolds
<1> HIDE DEF m
<1>9. m.s \in Byte /\ m.bus \in Byte /\ m.stack \in [Byte -> Byte]
  BY <1>5, PointerHas
<1>10. Sound(regs') /\ regs'.s = m.s
  <2>1. Flags(regs.p) /\ regs \in Registers
    BY <1>3 DEF Sound
  <2> QED  BY <1>1, <1>3, <1>9, <2>1, SoundSet DEF Registers
<1>11. pc' \in program.code
  BY <1>1 DEF GoOn, GoTo
<1> QED  BY <1>1, <1>6, <1>7, <1>8, <1>9, <1>10, <1>11, StackedInv

\* PLA and PLP.
LEMMA PullStep ==
  ASSUME IInv, NEW op, NEW fetched \in Fetched, PullInstruction(op, fetched)
  PROVE  IInv' /\ DmaStep
<1> DEFINE o == Pointer(fetched)
           m == Pull(o)
           r == [regs EXCEPT !.s = m.s]
           f == FlagsPulled(m.val)
<1>1. /\ regs' = IF op = "PLA" THEN LoadA(r, m.val) ELSE [r EXCEPT !.p = f]
      /\ bus' = m.bus
      /\ Pulled(m, 1) /\ GoOn(1) /\ Aside
  BY DEF PullInstruction
<1>2. fetched \in Byte /\ program.room \in Nat
  BY ProgramHas DEF IInv, Proper
<1>3. /\ o \in Pointers /\ o.s = regs.s /\ o.stack = stack /\ AllHeld(frames, regs.s, stack, depth)
      /\ Sound(regs) /\ depth \in Nat /\ depth <= program.room
  BY <1>2, PointerIs DEF IInv, Proper
<1> HIDE DEF o
<1>4. m \in Pointers /\ m.stack = stack
  BY <1>3, PullIs
<1>5. /\ depth >= 1 /\ stack' = stack /\ depth' = depth - 1
      /\ frames' = {g \in frames : g.at <= depth - 1}
  BY <1>1 DEF Pulled
<1>6. frames' \subseteq frames /\ \A g \in frames' : g.at <= depth'
  BY <1>5
<1>7. depth' \in Nat /\ depth = depth' + 1 /\ depth' \in 0..program.room
  BY <1>2, <1>3, <1>5
<1>8. AllHeld(frames', m.s, m.stack, depth')
  BY <1>3, <1>6, <1>7, PullHolds
<1> HIDE DEF m
<1>9. m.s \in Byte /\ m.bus \in Byte /\ m.val \in Byte /\ stack \in [Byte -> Byte] /\ Flags(f)
  BY <1>4, PointerHas, FlagsPulledAre
<1> HIDE DEF f
<1>10. Sound(r) /\ r.s = m.s
  <2>1. Flags(regs.p) /\ regs \in Registers
    BY <1>3 DEF Sound
  <2> QED  BY <1>3, <1>9, <2>1, SoundSet DEF Registers
<1> HIDE DEF r
<1>11. Sound(regs') /\ regs'.s = m.s
  <2>1. Sound(LoadA(r, m.val)) /\ Sound([r EXCEPT !.p = f])
    BY <1>9, <1>10, LoadSound, SoundSet
  <2>2. LoadA(r, m.val).s = r.s /\ [r EXCEPT !.p = f].s = r.s
    <3>1. r \in Registers
      BY <1>10 DEF Sound
    <3> QED  BY <3>1 DEF LoadA, Registers
  <2> QED  BY <1>1, <1>10, <2>1, <2>2
<1>12. pc' \in program.code
  BY <1>1 DEF GoOn, GoTo
<1> QED  BY <1>1, <1>4, <1>5, <1>7, <1>8, <1>9, <1>11, <1>12, StackedInv

\* Either of them.
LEMMA StackingStep ==
  ASSUME IInv, Stacking
  PROVE  IInv' /\ DmaStep
<1>1. PICK fetched \in Fetched :
        \/ \E op \in program.ops \cap {"PHA", "PHP"} : PushInstruction(op, fetched)
        \/ \E op \in program.ops \cap {"PLA", "PLP"} : PullInstruction(op, fetched)
  BY DEF Stacking
<1>2. CASE \E op \in program.ops \cap {"PHA", "PHP"} : PushInstruction(op, fetched)
  BY <1>2, PushStep
<1>3. CASE \E op \in program.ops \cap {"PLA", "PLP"} : PullInstruction(op, fetched)
  BY <1>3, PullStep
<1> QED  BY <1>1, <1>2, <1>3

-----------------------------------------------------------------------------
(* Calls and interrupts                                                    *)

\* A word is its two bytes.
LEMMA WordParts ==
  ASSUME NEW a \in Word
  PROVE  a % Size \in Byte /\ PageOf(a) \in Byte /\ (a % Size) + Size * PageOf(a) = a
<1>1. a % Size \in Byte /\ PageOf(a) \in Byte
  BY FlippedWord
<1>2. a \in Int
  BY InWord
<1>3. (a % 256) + 256 * (a \div 256) = a
  BY <1>2
<1> QED  BY <1>1, <1>3 DEF PageOf, Size

\* The address pushed is one short of the one after the call.
LEMMA ShortByOne ==
  ASSUME NEW n \in Word
  PROVE  (((n + 2) % (Size * Size)) + 1) % (Size * Size) = (n + 3) % (Size * Size)
<1>1. n \in Int /\ 0 <= n /\ n <= 65535
  BY InWord
<1>2. (((n + 2) % 65536) + 1) % 65536 = (n + 3) % 65536
  BY <1>1
<1>3. Size * Size = 65536
  BY DEF Size
<1> QED  BY <1>2, <1>3

\* An address is on top of the stack, above the frames F.
OnTop(F, m, a, n) ==
  /\ m \in Pointers /\ AllHeld(F, m.s, m.stack, n)
  /\ CellOf(m.stack, m.s, 1) = a % Size /\ CellOf(m.stack, m.s, 2) = PageOf(a)

\* STACK_PUSH_PC.
LEMMA PcPushed ==
  ASSUME NEW F, NEW o \in Pointers, NEW a \in Word, NEW m, m = PushPc(o, a),
         NEW n \in Nat, NEW k \in Nat, k = n + 2, k <= 255, AllHeld(F, o.s, o.stack, n)
  PROVE  OnTop(F, m, a, k)
<1> DEFINE hi == PageOf(a)
           lo == a % Size
           q == Push(o, hi)
           j == n + 1
<1>1. hi \in Byte /\ lo \in Byte
  BY WordParts
<1>2. m = Push(q, lo)
  BY DEF PushPc
<1> HIDE DEF hi, lo
<1>3. j \in Nat /\ k = j + 1 /\ j <= 254 /\ n <= 254 /\ j = n + 1
  OBVIOUS
<1> HIDE DEF j
<1>4. q \in Pointers /\ AllHeld(F, q.s, q.stack, j) /\ CellOf(q.stack, q.s, 1) = hi
  <2>1. q \in Pointers /\ CellOf(q.stack, q.s, 1) = hi
    BY <1>1, PushIs
  <2>2. AllHeld(F, q.s, q.stack, j)
    BY <1>1, <1>3, PushHolds
  <2> QED  BY <2>1, <2>2
<1> HIDE DEF q
<1>5. m \in Pointers /\ AllHeld(F, m.s, m.stack, k)
  <2>1. m \in Pointers
    BY <1>1, <1>2, <1>4, PushIs
  <2>2. AllHeld(F, m.s, m.stack, k)
    BY <1>1, <1>2, <1>3, <1>4, PushHolds
  <2> QED  BY <2>1, <2>2
<1>6. CellOf(m.stack, m.s, 1) = lo
      /\ \A i \in Nat : 1 <= i /\ i <= 255 => CellOf(m.stack, m.s, i + 1) = CellOf(q.stack, q.s, i)
  BY <1>1, <1>2, <1>4, PushIs
<1>7. CellOf(m.stack, m.s, 2) = hi
  <2>1. 1 \in Nat /\ 1 <= 1 /\ 1 <= 255 /\ 1 + 1 = 2
    OBVIOUS
  <2> QED  BY <1>4, <1>6, <2>1
<1> QED  BY <1>5, <1>6, <1>7 DEF hi, lo, OnTop

\* A frame just pushed.
LEMMA NewFrame ==
  ASSUME NEW F, NEW s, NEW t, NEW n \in Nat, AllHeld(F, s, t, n),
         NEW f, FrameOk(f), f.at = n, Shows(f, CellOf(t, s, 1), CellOf(t, s, 2), CellOf(t, s, 3))
  PROVE  AllHeld(F \cup {f}, s, t, n)
<1>1. (n - f.at) + 1 = 1 /\ (n - f.at) + 2 = 2 /\ (n - f.at) + 3 = 3 /\ f.at <= n
  OBVIOUS
<1>2. Held(f, s, t, n)
  BY <1>1 DEF Held
<1> QED  BY <1>1, <1>2 DEF AllHeld

\* JSR: the frame of the call is on top.
LEMMA JsrStep ==
  ASSUME IInv, Jsr
  PROVE  IInv' /\ DmaStep
<1> DEFINE a == (pc + 2) % (Size * Size)
           back == (pc + 3) % (Size * Size)
           f == [kind |-> "call", at |-> depth + 2, pc |-> back, p |-> regs.p]
           o == Pointer(0)
           m == PushPc(o, a)
           n == depth + 2
<1>1. PICK target \in program.targets :
        /\ regs' = [regs EXCEPT !.s = m.s]
        /\ pc' = target /\ bus' = PageOf(target)
        /\ Pushed(m, 2, {f})
  BY DEF Jsr
<1>2. Aside
  BY DEF Jsr
<1>3. /\ o \in Pointers /\ o.s = regs.s /\ o.stack = stack /\ AllHeld(frames, regs.s, stack, depth)
      /\ Sound(regs) /\ depth \in Nat /\ pc \in Word /\ program \in Programs
  BY ZeroByte, PointerIs
<1>4. program.room \in Nat /\ program.room <= 255 /\ target \in program.code /\ target \in Word
  BY <1>3, ProgramHas
<1>5. depth + 2 <= program.room /\ stack' = m.stack /\ depth' = n /\ frames' = frames \cup {f}
  BY <1>1 DEF Pushed
<1>6. n \in Nat /\ n <= 255 /\ n \in 0..program.room /\ n >= 2
  BY <1>3, <1>4, <1>5
<1>7. a \in Word /\ back \in Word /\ (a + 1) % (Size * Size) = back
  <2>1. pc \in Int
    BY <1>3, InWord
  <2> QED  BY <1>3, <2>1, Residues, ShortByOne
<1> HIDE DEF o, a, back
<1>8. /\ m \in Pointers /\ AllHeld(frames, m.s, m.stack, n)
      /\ CellOf(m.stack, m.s, 1) = a % Size /\ CellOf(m.stack, m.s, 2) = PageOf(a)
  <2>1. n = depth + 2
    OBVIOUS
  <2> HIDE DEF m, n
  <2>2. m = PushPc(o, a)
    BY DEF m
  <2>3. AllHeld(frames, o.s, o.stack, depth)
    BY <1>3
  <2>4. OnTop(frames, m, a, n)
    BY <1>3, <1>6, <1>7, <2>1, <2>2, <2>3, PcPushed
  <2> QED  BY <2>4 DEF OnTop
<1> HIDE DEF m, n
<1>9. FrameOk(f) /\ f.at = n /\ f.kind = "call" /\ f.pc = back
  <2>1. Flags(regs.p) /\ regs.p \in SUBSET FlagNames
    BY <1>3, SoundHas
  <2>2. f.at = n /\ f.kind = "call" /\ f.pc = back /\ f.p = regs.p
    BY DEF n
  <2>3. f \in Frames
    BY <1>6, <1>7, <2>1, <2>2 DEF Frames
  <2> HIDE DEF f
  <2> QED  BY <1>6, <2>1, <2>2, <2>3 DEF FrameOk, FrameSize
<1> HIDE DEF f
<1>10. Shows(f, CellOf(m.stack, m.s, 1), CellOf(m.stack, m.s, 2), CellOf(m.stack, m.s, 3))
  <2>1. (a % Size) + Size * PageOf(a) = a
    BY <1>7, WordParts
  <2> QED  BY <1>7, <1>8, <1>9, <2>1 DEF Shows
<1>11. AllHeld(frames', m.s, m.stack, n)
  BY <1>5, <1>6, <1>8, <1>9, <1>10, NewFrame
<1>12. m.s \in Byte /\ m.stack \in [Byte -> Byte] /\ PageOf(target) \in Byte
  BY <1>4, <1>8, PointerHas, WordParts
<1>13. Sound(regs') /\ regs'.s = m.s
  <2>1. Sound([regs EXCEPT !.s = m.s])
    <3>1. Flags(regs.p)
      BY <1>3 DEF Sound
    <3> QED  BY <1>3, <1>12, <3>1, PointerSound
  <2>2. regs \in Registers
    BY <1>3 DEF Sound
  <2> QED  BY <1>1, <2>1, <2>2 DEF Registers
<1> QED  BY <1>1, <1>2, <1>4, <1>5, <1>6, <1>11, <1>12, <1>13, StackedInv

\* An interrupt or BRK: the frame on top is the return address under the image of P.
LEMMA HandlerStep ==
  ASSUME IInv, NEW kind \in {"brk", "irq"}, NEW back \in Word, NEW image, image \subseteq FlagNames,
         image = regs.p \cup (IF kind = "brk" THEN {"B"} ELSE {}),
         EnterHandler(kind, back, image)
  PROVE  IInv' /\ DmaStep
<1> DEFINE f == [kind |-> kind, at |-> depth + 3, pc |-> back, p |-> regs.p]
           o == Pointer(0)
           q == PushPc(o, back)
           v == FlagsByte(image)
           m == Push(q, v)
           i == depth + 2
           n == depth + 3
           p2 == regs.p \cup {"I"}
<1>1. /\ regs' = [regs EXCEPT !.s = m.s, !.p = p2]
      /\ pc' = program.vector /\ bus' = PageOf(program.vector)
      /\ Pushed(m, 3, {f}) /\ Aside
  BY DEF EnterHandler
<1>2. /\ o \in Pointers /\ o.s = regs.s /\ o.stack = stack /\ AllHeld(frames, regs.s, stack, depth)
      /\ Sound(regs) /\ depth \in Nat /\ program \in Programs
  BY ZeroByte, PointerIs
<1>3. program.room \in Nat /\ program.room <= 255 /\ program.vector \in program.code
      /\ program.vector \in Word
  BY <1>2, ProgramHas
<1>4. depth + 3 <= program.room /\ stack' = m.stack /\ depth' = n /\ frames' = frames \cup {f}
  BY <1>1 DEF Pushed
<1>5. /\ n \in Nat /\ n <= 255 /\ n \in 0..program.room /\ n >= 3
      /\ i \in Nat /\ i <= 254 /\ i <= 255 /\ n = i + 1 /\ i = depth + 2
  BY <1>2, <1>3, <1>4
<1> HIDE DEF o, i
<1>6. /\ q \in Pointers /\ AllHeld(frames, q.s, q.stack, i)
      /\ CellOf(q.stack, q.s, 1) = back % Size /\ CellOf(q.stack, q.s, 2) = PageOf(back)
  <2> HIDE DEF q
  <2>1. q = PushPc(o, back)
    BY DEF q
  <2>2. AllHeld(frames, o.s, o.stack, depth)
    BY <1>2
  <2>3. OnTop(frames, q, back, i)
    BY <1>2, <1>5, <2>1, <2>2, PcPushed
  <2> QED  BY <2>3 DEF OnTop
<1> HIDE DEF q
<1>7. v \in Byte /\ FlagsOf(v) = image
  BY FlagsRoundTrip
<1> HIDE DEF v
<1>8. m \in Pointers /\ AllHeld(frames, m.s, m.stack, n) /\ CellOf(m.stack, m.s, 1) = v
      /\ \A k \in Nat : 1 <= k /\ k <= 255 => CellOf(m.stack, m.s, k + 1) = CellOf(q.stack, q.s, k)
  <2> HIDE DEF n
  <2> QED  BY <1>5, <1>6, <1>7, PushIs, PushHolds
<1> HIDE DEF m
<1>9. CellOf(m.stack, m.s, 2) = back % Size /\ CellOf(m.stack, m.s, 3) = PageOf(back)
  <2>1. 1 \in Nat /\ 2 \in Nat /\ 1 <= 1 /\ 1 <= 2 /\ 1 <= 255 /\ 2 <= 255 /\ 1 + 1 = 2 /\ 2 + 1 = 3
    OBVIOUS
  <2> QED  BY <1>6, <1>8, <2>1
<1>10. FrameOk(f) /\ f.at = n /\ f.kind = kind /\ f.pc = back /\ f.p = regs.p
  <2>1. Flags(regs.p) /\ regs.p \in SUBSET FlagNames
    BY <1>2, SoundHas
  <2>2. f.at = n /\ f.kind = kind /\ f.pc = back /\ f.p = regs.p
    OBVIOUS
  <2>3. f \in Frames
    BY <1>5, <2>1, <2>2 DEF Frames
  <2> HIDE DEF f, n
  <2> QED  BY <1>5, <2>1, <2>2, <2>3 DEF FrameOk, FrameSize
<1> HIDE DEF f, n
<1>11. Shows(f, CellOf(m.stack, m.s, 1), CellOf(m.stack, m.s, 2), CellOf(m.stack, m.s, 3))
  <2>1. (back % Size) + Size * PageOf(back) = back
    BY WordParts
  <2>2. kind # "call"
    OBVIOUS
  <2> QED  BY <1>7, <1>8, <1>9, <1>10, <2>1, <2>2 DEF Shows
<1>12. AllHeld(frames', m.s, m.stack, n)
  BY <1>4, <1>5, <1>8, <1>10, <1>11, NewFrame
<1>13. m.s \in Byte /\ m.stack \in [Byte -> Byte] /\ PageOf(program.vector) \in Byte
  BY <1>3, <1>8, PointerHas, WordParts
<1>14. Sound(regs') /\ regs'.s = m.s
  <2>1. Flags(p2) /\ regs \in Registers
    BY <1>2, FlagNamesAre DEF Sound, Flags
  <2> HIDE DEF p2
  <2>2. Sound([regs EXCEPT !.s = m.s, !.p = p2])
    BY <1>2, <1>13, <2>1, PointerSound
  <2>3. [regs EXCEPT !.s = m.s, !.p = p2].s = m.s
    BY <2>1 DEF Registers
  <2> QED  BY <1>1, <2>2, <2>3
<1> QED  BY <1>1, <1>3, <1>4, <1>5, <1>12, <1>13, <1>14, StackedInv

\* BRK pushes P with bit 4.
LEMMA BrkStep ==
  ASSUME IInv, Brk
  PROVE  IInv' /\ DmaStep
<1>1. EnterHandler("brk", (pc + 2) % (Size * Size), regs.p \cup {"B"})
  BY DEF Brk
<1>2. Sound(regs) /\ pc \in Word
  BY ZeroByte, PointerIs
<1>3. (pc + 2) % (Size * Size) \in Word
  <2>1. pc + 2 \in Int
    BY <1>2, InWord
  <2> QED  BY <2>1, Residues
<1>4. regs.p \cup {"B"} \subseteq FlagNames
  BY <1>2, SoundHas, FlagNamesAre
<1> QED  BY <1>1, <1>3, <1>4, HandlerStep

\* nmi() and irq() push it without, and bit 4 is never in P.
LEMMA InterruptStep ==
  ASSUME IInv, Interrupt
  PROVE  IInv' /\ DmaStep
<1>1. EnterHandler("irq", pc, InterruptImage(regs.p))
  BY DEF Interrupt
<1>2. Sound(regs) /\ pc \in Word
  BY ZeroByte, PointerIs
<1>3. InterruptImage(regs.p) = regs.p /\ regs.p \subseteq FlagNames
  BY <1>2 DEF Sound, Flags, InterruptImage
<1>4. regs.p = regs.p \cup (IF "irq" = "brk" THEN {"B"} ELSE {})
  OBVIOUS
<1> QED  BY <1>1, <1>2, <1>3, <1>4, HandlerStep

\* Three bytes pulled, one after the other.
ThreePulled(o, q1, q2, q3) ==
  /\ q1 \in Pointers /\ q2 \in Pointers /\ q3 \in Pointers
  /\ q1.stack = o.stack /\ q2.stack = o.stack /\ q3.stack = o.stack
  /\ q1.val = CellOf(o.stack, o.s, 1) /\ q2.val = CellOf(o.stack, o.s, 2)
  /\ q3.val = CellOf(o.stack, o.s, 3)

\* The values are the three bytes on top.
LEMMA PullThree ==
  ASSUME NEW o \in Pointers, NEW q1, q1 = Pull(o), NEW q2, q2 = Pull(q1), NEW q3, q3 = Pull(q2)
  PROVE  ThreePulled(o, q1, q2, q3)
<1>0. 1 \in Int /\ 2 \in Int /\ 1 + 1 = 2 /\ 2 + 1 = 3
  OBVIOUS
<1>1. /\ q1 \in Pointers /\ q1.stack = o.stack /\ q1.val = CellOf(o.stack, o.s, 1)
      /\ \A i \in Int : CellOf(q1.stack, q1.s, i) = CellOf(o.stack, o.s, i + 1)
  BY PullIs
<1>2. /\ q2 \in Pointers /\ q2.stack = q1.stack /\ q2.val = CellOf(q1.stack, q1.s, 1)
      /\ \A i \in Int : CellOf(q2.stack, q2.s, i) = CellOf(q1.stack, q1.s, i + 1)
  BY <1>1, PullIs
<1>3. q3 \in Pointers /\ q3.stack = q2.stack /\ q3.val = CellOf(q2.stack, q2.s, 1)
  BY <1>2, PullIs
<1>4. q2.val = CellOf(o.stack, o.s, 2)
  BY <1>0, <1>1, <1>2
<1>5. q3.val = CellOf(q1.stack, q1.s, 2)
  BY <1>0, <1>2, <1>3
<1>6. q3.val = CellOf(o.stack, o.s, 3)
  BY <1>0, <1>1, <1>5
<1> QED  BY <1>1, <1>2, <1>3, <1>4, <1>6 DEF ThreePulled

\* The frame on top shows in the first three bytes.
LEMMA TopShows ==
  ASSUME NEW f \in frames, IInv, f.at = depth
  PROVE  /\ Shows(f, CellOf(stack, regs.s, 1), CellOf(stack, regs.s, 2), CellOf(stack, regs.s, 3))
         /\ FrameOk(f)
<1>1. FrameOk(f) /\ Held(f, regs.s, stack, depth)
  BY DEF IInv, AllHeld
<1>2. depth \in Nat
  BY ZeroByte, PointerIs
<1>3. (depth - f.at) + 1 = 1 /\ (depth - f.at) + 2 = 2 /\ (depth - f.at) + 3 = 3
  BY <1>2
<1> QED  BY <1>1, <1>3 DEF Held

\* RTS keeps the frames below it, and from a call's frame on top returns to where it left.
LEMMA RtsStep ==
  ASSUME IInv, Rts
  PROVE  /\ IInv' /\ DmaStep
         /\ \A f \in frames : (f.kind = "call" /\ f.at = depth) => pc' = f.pc
<1>1. PICK fetched \in Fetched :
        LET low == Pull(Pointer(fetched))
            high == Pull(low)
        IN  /\ regs' = [regs EXCEPT !.s = high.s] /\ bus' = high.bus
            /\ Pulled(high, 2)
            /\ GoTo((high.val * Size + low.val + 1) % (Size * Size))
  BY DEF Rts
<1> DEFINE o == Pointer(fetched)
           q1 == Pull(o)
           q2 == Pull(q1)
           q3 == Pull(q2)
           j == depth - 1
           k == depth - 2
<1>2. /\ regs' = [regs EXCEPT !.s = q2.s] /\ bus' = q2.bus /\ Pulled(q2, 2)
      /\ GoTo((q2.val * Size + q1.val + 1) % (Size * Size))
  BY <1>1
<1>3. Aside
  BY DEF Rts
<1>4. fetched \in Byte /\ program.room \in Nat
  BY ProgramHas DEF IInv, Proper
<1>5. /\ o \in Pointers /\ o.s = regs.s /\ o.stack = stack /\ AllHeld(frames, regs.s, stack, depth)
      /\ Sound(regs) /\ depth \in Nat /\ depth <= program.room
  BY <1>4, PointerIs DEF IInv, Proper
<1> HIDE DEF o
<1>6. /\ depth >= 2 /\ stack' = stack /\ depth' = k /\ frames' = {f \in frames : f.at <= k}
  BY <1>2 DEF Pulled
<1>7. frames' \subseteq frames /\ \A f \in frames' : f.at <= k /\ f.at <= j
  <2>1. \A f \in frames : f.at \in Nat
    BY <1>5 DEF AllHeld, FrameOk, Frames
  <2>2. \A n \in Nat : n <= k => n <= j
    BY <1>5
  <2> HIDE DEF j, k
  <2> QED  BY <1>6, <2>1, <2>2
<1>8. j \in Nat /\ k \in Nat /\ depth = j + 1 /\ j = k + 1 /\ k \in 0..program.room
  BY <1>4, <1>5, <1>6
<1> HIDE DEF j, k
<1>9. ThreePulled(o, q1, q2, q3)
  BY <1>5, PullThree
<1>10. AllHeld(frames', q1.s, q1.stack, j)
  <2>1. AllHeld(frames, o.s, o.stack, depth)
    BY <1>5
  <2> QED  BY <1>5, <1>7, <1>8, <2>1, PullHolds
<1>11. /\ q1 \in Pointers /\ q2 \in Pointers /\ q2.stack = stack
       /\ q1.val = CellOf(stack, regs.s, 1) /\ q2.val = CellOf(stack, regs.s, 2)
  BY <1>5, <1>9 DEF ThreePulled
<1> HIDE DEF q1
<1>12. AllHeld(frames', q2.s, q2.stack, k)
  BY <1>7, <1>8, <1>10, <1>11, PullHolds
<1> HIDE DEF q2
<1>13. q2.s \in Byte /\ q2.bus \in Byte /\ stack \in [Byte -> Byte] /\ q1.val \in Byte /\ q2.val \in Byte
  BY <1>11, PointerHas
<1>14. Sound(regs') /\ regs'.s = q2.s
  <2>1. Flags(regs.p) /\ regs \in Registers
    BY <1>5 DEF Sound
  <2>2. Sound([regs EXCEPT !.s = q2.s])
    BY <1>5, <1>13, <2>1, PointerSound
  <2> QED  BY <1>2, <2>1, <2>2 DEF Registers
<1>15. pc' \in program.code /\ pc' = (q2.val * Size + q1.val + 1) % (Size * Size)
  BY <1>2 DEF GoTo
<1>16. IInv' /\ DmaStep
  BY <1>2, <1>3, <1>6, <1>8, <1>11, <1>12, <1>13, <1>14, <1>15, StackedInv
<1>17. ASSUME NEW f \in frames, f.kind = "call", f.at = depth
       PROVE  pc' = f.pc
  <2>1. (q1.val + Size * q2.val + 1) % (Size * Size) = f.pc
    BY <1>11, <1>17, TopShows DEF Shows
  <2>2. q1.val + Size * q2.val + 1 = q2.val * Size + q1.val + 1
    <3>1. q1.val \in Int /\ q2.val \in Int
      BY <1>13, InByte
    <3> QED  BY <3>1 DEF Size
  <2> QED  BY <1>15, <2>1, <2>2
<1> QED  BY <1>16, <1>17

\* RTI keeps the frames below it, and from an interrupt's frame on top restores place and flags.
LEMMA RtiStep ==
  ASSUME IInv, Rti
  PROVE  /\ IInv' /\ DmaStep
         /\ \A f \in frames : (f.kind # "call" /\ f.at = depth) => pc' = f.pc /\ regs'.p = f.p
<1>1. PICK fetched \in Fetched :
        LET flags == Pull(Pointer(fetched))
            low == Pull(flags)
            high == Pull(low)
        IN  /\ regs' = [regs EXCEPT !.s = high.s, !.p = FlagsPulled(flags.val)]
            /\ bus' = high.bus
            /\ Pulled(high, 3)
            /\ GoTo(high.val * Size + low.val)
  BY DEF Rti
<1> DEFINE o == Pointer(fetched)
           q1 == Pull(o)
           q2 == Pull(q1)
           q3 == Pull(q2)
           p2 == FlagsPulled(q1.val)
           i == depth - 1
           j == depth - 2
           k == depth - 3
<1>2. /\ regs' = [regs EXCEPT !.s = q3.s, !.p = p2] /\ bus' = q3.bus /\ Pulled(q3, 3)
      /\ GoTo(q3.val * Size + q2.val)
  BY <1>1
<1>3. Aside
  BY DEF Rti
<1>4. fetched \in Byte /\ program.room \in Nat
  BY ProgramHas DEF IInv, Proper
<1>5. /\ o \in Pointers /\ o.s = regs.s /\ o.stack = stack /\ AllHeld(frames, regs.s, stack, depth)
      /\ Sound(regs) /\ depth \in Nat /\ depth <= program.room
  BY <1>4, PointerIs DEF IInv, Proper
<1> HIDE DEF o
<1>6. /\ depth >= 3 /\ stack' = stack /\ depth' = k /\ frames' = {f \in frames : f.at <= k}
  BY <1>2 DEF Pulled
<1>7. frames' \subseteq frames /\ \A f \in frames' : f.at <= k /\ f.at <= j /\ f.at <= i
  <2>1. \A f \in frames : f.at \in Nat
    BY <1>5 DEF AllHeld, FrameOk, Frames
  <2>2. \A n \in Nat : n <= k => n <= j /\ n <= i
    BY <1>5
  <2> HIDE DEF i, j, k
  <2> QED  BY <1>6, <2>1, <2>2
<1>8. /\ i \in Nat /\ j \in Nat /\ k \in Nat /\ depth = i + 1 /\ i = j + 1 /\ j = k + 1
      /\ k \in 0..program.room
  BY <1>4, <1>5, <1>6
<1> HIDE DEF i, j, k
<1>9. ThreePulled(o, q1, q2, q3)
  BY <1>5, PullThree
<1>10. AllHeld(frames', q1.s, q1.stack, i)
  <2>1. AllHeld(frames, o.s, o.stack, depth)
    BY <1>5
  <2> QED  BY <1>5, <1>7, <1>8, <2>1, PullHolds
<1>11. /\ q1 \in Pointers /\ q2 \in Pointers /\ q3 \in Pointers /\ q3.stack = stack
       /\ q1.val = CellOf(stack, regs.s, 1) /\ q2.val = CellOf(stack, regs.s, 2)
       /\ q3.val = CellOf(stack, regs.s, 3)
  BY <1>5, <1>9 DEF ThreePulled
<1> HIDE DEF q1
<1>12. AllHeld(frames', q2.s, q2.stack, j)
  BY <1>7, <1>8, <1>10, <1>11, PullHolds
<1> HIDE DEF q2
<1>13. AllHeld(frames', q3.s, q3.stack, k)
  BY <1>7, <1>8, <1>11, <1>12, PullHolds
<1> HIDE DEF q3
<1>14. /\ q3.s \in Byte /\ q3.bus \in Byte /\ stack \in [Byte -> Byte]
       /\ q2.val \in Byte /\ q3.val \in Byte
  BY <1>11, PointerHas
<1>15. Sound(regs') /\ regs'.s = q3.s /\ regs'.p = p2
  <2>1. Flags(p2) /\ regs \in Registers
    BY <1>5, FlagsPulledAre DEF Sound
  <2> HIDE DEF p2
  <2>2. Sound([regs EXCEPT !.s = q3.s, !.p = p2])
    BY <1>5, <1>14, <2>1, PointerSound
  <2>3. [regs EXCEPT !.s = q3.s, !.p = p2].s = q3.s /\ [regs EXCEPT !.s = q3.s, !.p = p2].p = p2
    BY <2>1 DEF Registers
  <2> QED  BY <1>2, <2>2, <2>3
<1>16. pc' \in program.code /\ pc' = q3.val * Size + q2.val
  BY <1>2 DEF GoTo
<1>17. IInv' /\ DmaStep
  BY <1>2, <1>3, <1>6, <1>8, <1>11, <1>13, <1>14, <1>15, <1>16, StackedInv
<1>18. ASSUME NEW f \in frames, f.kind # "call", f.at = depth
       PROVE  pc' = f.pc /\ regs'.p = f.p
  <2>1. /\ q2.val + Size * q3.val = f.pc
        /\ FlagsOf(q1.val) = f.p \cup (IF f.kind = "brk" THEN {"B"} ELSE {})
        /\ FrameOk(f)
    BY <1>11, <1>18, TopShows DEF Shows
  <2>2. q2.val + Size * q3.val = q3.val * Size + q2.val
    <3>1. q2.val \in Int /\ q3.val \in Int
      BY <1>14, InByte
    <3> QED  BY <3>1 DEF Size
  <2>3. p2 = f.p
    <3>1. "U" \in f.p /\ "B" \notin f.p
      BY <2>1 DEF FrameOk, Flags
    <3> QED  BY <2>1, <3>1 DEF FlagsPulled
  <2> QED  BY <1>15, <1>16, <2>1, <2>2, <2>3
<1> QED  BY <1>17, <1>18

\* A step that changes nothing.
LEMMA StutterStep ==
  ASSUME IInv, UNCHANGED vars
  PROVE  IInv'
BY DEF IInv, Proper, vars

\* Every step keeps the invariant, and puts the bytes of a DMA where they belong.
LEMMA NextInv ==
  ASSUME IInv, Next
  PROVE  IInv' /\ DmaStep
<1>1. CASE Data  BY <1>1, DataStep
<1>2. CASE Simple  BY <1>2, SimpleStep
<1>3. CASE Stacking  BY <1>3, StackingStep
<1>4. CASE Vblank  BY <1>4, VblankStep
<1>5. CASE Branch  BY <1>5, BranchStep
<1>6. CASE Jmp  BY <1>6, JmpStep
<1>7. CASE Jsr  BY <1>7, JsrStep
<1>8. CASE Rts  BY <1>8, RtsStep
<1>9. CASE Brk  BY <1>9, BrkStep
<1>10. CASE Interrupt  BY <1>10, InterruptStep
<1>11. CASE Rti  BY <1>11, RtiStep
<1> QED  BY <1>1, <1>2, <1>3, <1>4, <1>5, <1>6, <1>7, <1>8, <1>9, <1>10, <1>11 DEF Next

-----------------------------------------------------------------------------
(* The invariant, and what follows from it                                 *)

\* The inductive invariant holds in every state, for every set of programs and every size of sprite memory.
THEOREM Invariant == Spec => []IInv
<1>1. IInv /\ [Next]_vars => IInv'
  BY NextInv, StutterStep
<1> QED  BY InitInv, <1>1, PTL DEF Spec

\* The registers, the bus, the stack and the PPU's ports keep their types, and whatever byte PLP or RTI
\* pulls, bit 4 is never part of P and bit 5 always is (O-2).
THEOREM TypeCorrect == Spec => []TypeOK
<1>1. IInv => TypeOK
  <2> SUFFICES ASSUME IInv PROVE TypeOK
    OBVIOUS
  <2>1. Sound(regs) /\ bus \in Byte /\ ppu \in PpuState /\ stack \in [Byte -> Byte]
        /\ pc \in program.code /\ depth \in 0..program.room
    BY DEF IInv, Proper, Machine
  <2>2. regs \in [a : Byte, x : Byte, y : Byte, s : Byte, p : SUBSET FlagNames]
        /\ "U" \in regs.p /\ "B" \notin regs.p
    BY <2>1 DEF Sound, Registers, Flags
  <2>3. /\ ppu.oam \in [OamIndex -> Byte] /\ ppu.latch \in Byte
        /\ ppu.oamAddr \in OamIndex /\ ppu.oamCount \in OamIndex
    BY <2>1 DEF PpuState
  <2> QED  BY <2>1, <2>2, <2>3 DEF TypeOK
<1> QED  BY <1>1, Invariant, PTL

\* Every memory instruction makes its last access when everything is charged (O-33 (a)): page crossings
\* included, and for a read-modify-write on $4014 after the DMA that the first write started.
THEOREM AccessesLast == Spec => []AccessesAtEnd
<1>1. IInv => AccessesAtEnd
  BY EndsWellIs DEF IInv
<1> QED  BY <1>1, Invariant, PTL

\* As long as a call, a BRK or an interrupt has not returned, its return address and flags are on the
\* stack, wherever the stack pointer wrapped (O-6).
THEOREM FramesKept == Spec => []FramesIntact
<1>1. IInv => FramesIntact
  <2> SUFFICES ASSUME IInv PROVE FramesIntact
    OBVIOUS
  <2>1. Sound(regs) /\ depth \in Nat /\ AllHeld(frames, regs.s, stack, depth)
    BY ZeroByte, PointerIs
  <2>2. regs.s \in Byte
    BY <2>1, SoundHas
  <2> QED  BY <2>1, <2>2, FramesAre
<1> QED  BY <1>1, Invariant, PTL

\* RTS and RTI that pull a frame whole come back to where it was entered, RTI with the flags of then.
THEOREM Returns == Spec => ReturnsWhereItLeft
<1>1. IInv /\ [Next]_vars =>
        [\A f \in frames :
           /\ (Rts /\ f.kind = "call" /\ f.at = depth) => pc' = f.pc
           /\ (Rti /\ f.kind # "call" /\ f.at = depth) => pc' = f.pc /\ regs'.p = f.p]_vars
  BY RtsStep, RtiStep
<1> QED  BY <1>1, Invariant, PTL DEF Spec, ReturnsWhereItLeft

\* A DMA of a RAM page puts each byte where counter and address say, wherever they started, and leaves
\* both as they were (O-15, O-16).
THEOREM DmaPlaces == Spec => DmaPlacesBytes
<1> DEFINE Placed ==
      LET final == last'.log[Len(last'.log)]
          page == Size * final.val
      IN  (last'.kind = "store" /\ final.addr = DmaPort /\ page < 8192) =>
        LET byte(k) == IF AreaOf(page) = "stack" THEN stack[k] ELSE k
            turn(k) == (k - ppu.oamAddr) % OamSize
        IN  /\ ppu'.oamAddr = ppu.oamAddr /\ ppu'.oamCount = ppu.oamCount
            /\ \A k \in OamIndex :
                 ppu'.oam[k] = IF k < OamHead THEN byte((k - ppu.oamCount) % OamSize)
                               ELSE IF (ppu.oamCount + turn(k)) % OamSize < OamHead THEN ppu.oam[k]
                               ELSE byte(turn(k))
<1>1. DmaStep => Placed
  BY DEF DmaStep, Final, FilledAll
<1>2. IInv /\ [Next]_vars => [Placed]_vars
  BY <1>1, NextInv
<1> QED  BY <1>2, Invariant, PTL DEF Spec, DmaPlacesBytes

-----------------------------------------------------------------------------
(* Arithmetic                                                              *)

\* Bit 7 is the sign.
LEMMA SignIs ==
  ASSUME NEW v \in Byte
  PROVE  /\ Sign(v) \in {0, 1}
         /\ Sign(v) = 1 <=> v >= 128
         /\ Signed(v) = IF v >= 128 THEN v - 256 ELSE v
<1>1. v \in Int /\ 0 <= v /\ v <= 255
  BY InByte
<1>2. Top = 128
  BY DEF Top, Size
<1>3. Signed(v) = IF v >= 128 THEN v - 256 ELSE v
  BY <1>2 DEF Signed, Size
<1>4. Sign(v) = (v \div 128) % 2
  BY Powers DEF Sign, Bit
<1>5. (v \div 128) % 2 \in {0, 1} /\ ((v \div 128) % 2 = 1 <=> v >= 128)
  BY <1>1
<1> QED  BY <1>3, <1>4, <1>5

\* N and Z tell the result.
LEMMA NZFit ==
  ASSUME NEW r, NEW v \in Byte, NEW q, r.p = NZ(q, v)
  PROVE  FlagsFit(r, v)
<1>1. "Z" \in NZ(q, v) <=> v = 0
  BY DEF NZ, With
<1>2. "N" \in NZ(q, v) <=> Sign(v) = 1
  BY DEF NZ, With
<1>3. Signed(v) < 0 <=> v >= 128
  <2>1. v \in Int /\ 0 <= v /\ v <= 255
    BY InByte
  <2> QED  BY <2>1, SignIs
<1> QED  BY <1>1, <1>2, <1>3, SignIs DEF FlagsFit

\* C and V, below the N and Z of the result.
LEMMA CarryOverflow ==
  ASSUME NEW q, NEW v, NEW c \in BOOLEAN, NEW o \in BOOLEAN
  PROVE  /\ "C" \in NZ(With(With(q, "C", c), "V", o), v) <=> c
         /\ "V" \in NZ(With(With(q, "C", c), "V", o), v) <=> o
         /\ "C" \in NZ(With(q, "C", c), v) <=> c
BY DEF NZ, With

\* A sum of two bytes and a carry: what is lost of it, and when its sign is wrong.
LEMMA SumOf ==
  ASSUME NEW a \in Byte, NEW m \in Byte, NEW c \in 0..1, NEW v, v = (a + m + c) % Size
  PROVE  /\ v \in Byte
         /\ a + m + c >= Size => Size + v = a + m + c
         /\ ~(a + m + c >= Size) => v = a + m + c
         /\ (Sign(a) = Sign(m) /\ Sign(a) # Sign(v))
              <=> Signed(a) + Signed(m) + c \notin (-Top)..(Top - 1)
<1>1. /\ a \in Int /\ 0 <= a /\ a <= 255 /\ m \in Int /\ 0 <= m /\ m <= 255
      /\ c \in Int /\ 0 <= c /\ c <= 1
  BY InByte
<1>2. v = (a + m + c) % 256 /\ Size = 256 /\ Top = 128
  BY DEF Size, Top
<1>3. /\ a + m + c >= 256 => v = a + m + c - 256
      /\ ~(a + m + c >= 256) => v = a + m + c
  BY <1>1, <1>2
<1>4. v \in Int /\ 0 <= v /\ v <= 255
  BY <1>1, <1>3
<1>5. v \in Byte
  BY <1>4, InByte
<1>6. Signed(a) + Signed(m) + c \in (-Top)..(Top - 1)
        <=> -128 <= Signed(a) + Signed(m) + c /\ Signed(a) + Signed(m) + c <= 127
  <2>1. Signed(a) \in Int /\ Signed(m) \in Int
    BY <1>1, SignIs
  <2> QED  BY <1>1, <1>2, <2>1
<1>7. /\ Sign(a) \in {0, 1} /\ Sign(m) \in {0, 1} /\ Sign(v) \in {0, 1}
      /\ Sign(a) = 1 <=> a >= 128
      /\ Sign(m) = 1 <=> m >= 128
      /\ Sign(v) = 1 <=> v >= 128
      /\ Signed(a) = IF a >= 128 THEN a - 256 ELSE a
      /\ Signed(m) = IF m >= 128 THEN m - 256 ELSE m
  BY <1>5, SignIs
<1>8. (Sign(a) = Sign(m) /\ Sign(a) # Sign(v))
        <=> ~(-128 <= Signed(a) + Signed(m) + c /\ Signed(a) + Signed(m) + c <= 127)
  <2>1. CASE a >= 128 /\ m >= 128
    BY <1>1, <1>3, <1>7, <2>1
  <2>2. CASE a >= 128 /\ m < 128
    BY <1>1, <1>3, <1>7, <2>2
  <2>3. CASE a < 128 /\ m >= 128
    BY <1>1, <1>3, <1>7, <2>3
  <2>4. CASE a < 128 /\ m < 128
    BY <1>1, <1>3, <1>7, <2>4
  <2> QED  BY <1>1, <2>1, <2>2, <2>3, <2>4
<1> QED  BY <1>1, <1>2, <1>3, <1>5, <1>6, <1>8

\* ADC
LEMMA AddExact ==
  ASSUME NEW r, Sound(r), NEW m \in Byte
  PROVE  IsSum(r, Add(r, m), m, Carry(r))
<1> DEFINE sum == r.a + m + Carry(r)
           v == sum % Size
           c == sum >= Size
           o == Sign(r.a) = Sign(m) /\ Sign(r.a) # Sign(v)
           p2 == NZ(With(With(r.p, "C", c), "V", o), v)
           q == Add(r, m)
<1>1. r \in Registers /\ r.a \in Byte /\ Carry(r) \in 0..1
  BY SoundHas DEF Sound
<1>2. q = [r EXCEPT !.a = v, !.p = p2]
  BY DEF Add
<1>3. /\ v \in Byte
      /\ c => Size + v = sum
      /\ ~c => v = sum
      /\ o <=> Signed(r.a) + Signed(m) + Carry(r) \notin (-Top)..(Top - 1)
  BY <1>1, SumOf
<1>4. ("C" \in p2 <=> c) /\ ("V" \in p2 <=> o)
  <2>1. c \in BOOLEAN /\ o \in BOOLEAN
    OBVIOUS
  <2> HIDE DEF c, o, v
  <2> QED  BY <2>1, CarryOverflow
<1> DEFINE rest == With(With(r.p, "C", c), "V", o)
<1>5. p2 = NZ(rest, v)
  OBVIOUS
<1> HIDE DEF p2, rest
<1>6. q.a = v /\ q.p = p2
  BY <1>1, <1>2 DEF Registers
<1>7. FlagsFit(q, v)
  BY <1>3, <1>5, <1>6, NZFit
<1>8. Size * Flag(q, "C") + q.a = sum
  <2>1. CASE c
    <3>1. Flag(q, "C") = 1
      BY <1>4, <1>6, <2>1 DEF Flag
    <3> QED  BY <1>3, <1>6, <2>1, <3>1 DEF Size
  <2>2. CASE ~c
    <3>1. Flag(q, "C") = 0
      BY <1>4, <1>6, <2>2 DEF Flag
    <3>2. v \in Int
      BY <1>3, InByte
    <3> QED  BY <1>3, <1>6, <2>2, <3>1, <3>2 DEF Size
  <2> QED  BY <2>1, <2>2
<1>9. "V" \in q.p <=> Signed(r.a) + Signed(m) + Carry(r) \notin (-Top)..(Top - 1)
  BY <1>3, <1>4, <1>6
<1> QED  BY <1>6, <1>7, <1>8, <1>9 DEF IsSum

\* A difference of two bytes and a borrow, taken modulo 2^16 first.
LEMMA DifferenceOf ==
  ASSUME NEW a \in Byte, NEW m \in Byte, NEW c \in 0..1,
         NEW sum, sum = (a + (-m - 1) + c) % (Size * Size), NEW v, v = sum % Size
  PROVE  /\ v \in Byte
         /\ sum < Size => v = a - m - (1 - c)
         /\ ~(sum < Size) => v - Size = a - m - (1 - c)
         /\ (Sign(a) # Sign(m) /\ Sign(a) # Sign(v))
              <=> Signed(a) - Signed(m) - (1 - c) \notin (-Top)..(Top - 1)
<1>1. /\ a \in Int /\ 0 <= a /\ a <= 255 /\ m \in Int /\ 0 <= m /\ m <= 255
      /\ c \in Int /\ 0 <= c /\ c <= 1
  BY InByte
<1>2. sum = (a + (-m - 1) + c) % 65536 /\ v = sum % 256 /\ Size = 256 /\ Top = 128
  <2>1. Size * Size = 65536
    BY DEF Size
  <2> QED  BY <2>1 DEF Size, Top
<1> DEFINE d == a - m - (1 - c)
<1>3. /\ d \in Int /\ -256 <= d /\ d <= 255 /\ d = a + (-m - 1) + c
  BY <1>1
<1>4. sum = IF d >= 0 THEN d ELSE d + 65536
  BY <1>2, <1>3
<1>5. /\ sum < 256 <=> d >= 0
      /\ d >= 0 => v = d
      /\ d < 0 => v = d + 256
  BY <1>2, <1>3, <1>4
<1>6. v \in Int /\ 0 <= v /\ v <= 255
  BY <1>3, <1>5
<1>7. v \in Byte
  BY <1>6, InByte
<1>8. /\ sum < 256 => v = d
      /\ ~(sum < 256) => v - 256 = d
  BY <1>3, <1>5
<1>9. Signed(a) - Signed(m) - (1 - c) \in (-Top)..(Top - 1)
        <=> -128 <= Signed(a) - Signed(m) - (1 - c) /\ Signed(a) - Signed(m) - (1 - c) <= 127
  <2>1. Signed(a) \in Int /\ Signed(m) \in Int
    BY <1>1, SignIs
  <2> QED  BY <1>1, <1>2, <2>1
<1>10. /\ Sign(a) \in {0, 1} /\ Sign(m) \in {0, 1} /\ Sign(v) \in {0, 1}
       /\ Sign(a) = 1 <=> a >= 128
       /\ Sign(m) = 1 <=> m >= 128
       /\ Sign(v) = 1 <=> v >= 128
       /\ Signed(a) = IF a >= 128 THEN a - 256 ELSE a
       /\ Signed(m) = IF m >= 128 THEN m - 256 ELSE m
  BY <1>7, SignIs
<1>11. (Sign(a) # Sign(m) /\ Sign(a) # Sign(v))
         <=> ~(-128 <= Signed(a) - Signed(m) - (1 - c) /\ Signed(a) - Signed(m) - (1 - c) <= 127)
  <2>1. CASE a >= 128 /\ m >= 128
    BY <1>1, <1>3, <1>5, <1>10, <2>1
  <2>2. CASE a >= 128 /\ m < 128
    BY <1>1, <1>3, <1>5, <1>10, <2>2
  <2>3. CASE a < 128 /\ m >= 128
    BY <1>1, <1>3, <1>5, <1>10, <2>3
  <2>4. CASE a < 128 /\ m < 128
    BY <1>1, <1>3, <1>5, <1>10, <2>4
  <2> QED  BY <1>1, <2>1, <2>2, <2>3, <2>4
<1> QED  BY <1>2, <1>7, <1>8, <1>9, <1>11

\* SBC
LEMMA SubtractExact ==
  ASSUME NEW r, Sound(r), NEW m \in Byte
  PROVE  IsDifference(r, Subtract(r, m), m, 1 - Carry(r))
<1> DEFINE sum == (r.a + (-m - 1) + Carry(r)) % (Size * Size)
           v == sum % Size
           c == sum < Size
           o == Sign(r.a) # Sign(m) /\ Sign(r.a) # Sign(v)
           p2 == NZ(With(With(r.p, "C", c), "V", o), v)
           q == Subtract(r, m)
           d == r.a - m - (1 - Carry(r))
<1>1. r \in Registers /\ r.a \in Byte /\ Carry(r) \in 0..1
  BY SoundHas DEF Sound
<1>2. q = [r EXCEPT !.a = v, !.p = p2]
  BY DEF Subtract
<1>3. /\ v \in Byte
      /\ c => v = d
      /\ ~c => v - Size = d
      /\ o <=> Signed(r.a) - Signed(m) - (1 - Carry(r)) \notin (-Top)..(Top - 1)
  <2> HIDE DEF sum
  <2>1. sum = (r.a + (-m - 1) + Carry(r)) % (Size * Size)
    BY DEF sum
  <2> QED  BY <1>1, <2>1, DifferenceOf
<1>4. ("C" \in p2 <=> c) /\ ("V" \in p2 <=> o)
  <2>1. c \in BOOLEAN /\ o \in BOOLEAN
    OBVIOUS
  <2> HIDE DEF c, o, v
  <2> QED  BY <2>1, CarryOverflow
<1> DEFINE rest == With(With(r.p, "C", c), "V", o)
<1>5. p2 = NZ(rest, v)
  OBVIOUS
<1> HIDE DEF p2, rest
<1>6. q.a = v /\ q.p = p2
  BY <1>1, <1>2 DEF Registers
<1>7. FlagsFit(q, v)
  BY <1>3, <1>5, <1>6, NZFit
<1>8. q.a - Size * (1 - Flag(q, "C")) = d
  <2>0. v \in Int
    BY <1>3, InByte
  <2>1. CASE c
    <3>1. Flag(q, "C") = 1
      BY <1>4, <1>6, <2>1 DEF Flag
    <3> HIDE DEF v, c, d
    <3> QED  BY <1>3, <1>6, <2>0, <2>1, <3>1 DEF Size
  <2>2. CASE ~c
    <3>1. Flag(q, "C") = 0
      BY <1>4, <1>6, <2>2 DEF Flag
    <3> HIDE DEF v, c, d
    <3> QED  BY <1>3, <1>6, <2>0, <2>2, <3>1 DEF Size
  <2> QED  BY <2>1, <2>2
<1>9. "V" \in q.p <=> Signed(r.a) - Signed(m) - (1 - Carry(r)) \notin (-Top)..(Top - 1)
  BY <1>3, <1>4, <1>6
<1> QED  BY <1>6, <1>7, <1>8, <1>9 DEF IsDifference

\* CMP
LEMMA CompareExact ==
  ASSUME NEW r, Sound(r), NEW m \in Byte
  PROVE  IsComparison(Compare(r, r.a, m), r.a, m)
<1> DEFINE c == r.a >= m
           v == (r.a - m) % Size
           p2 == NZ(With(r.p, "C", c), v)
           q == Compare(r, r.a, m)
<1>1. r \in Registers /\ r.a \in Byte
  BY SoundHas DEF Sound
<1>2. q.p = p2
  BY <1>1 DEF Compare, Registers
<1>3. "C" \in p2 <=> c
  <2>1. c \in BOOLEAN
    OBVIOUS
  <2> HIDE DEF c, v
  <2> QED  BY <2>1 DEF NZ, With
<1>4. "Z" \in p2 <=> v = 0
  <2> HIDE DEF c, v
  <2> QED  BY DEF NZ, With
<1>5. v = 0 <=> r.a = m
  <2>1. \A k, n \in Int : 0 <= k /\ k <= 255 /\ 0 <= n /\ n <= 255 => ((k - n) % 256 = 0 <=> k = n)
    OBVIOUS
  <2>2. r.a \in Int /\ 0 <= r.a /\ r.a <= 255 /\ m \in Int /\ 0 <= m /\ m <= 255
    BY <1>1, InByte
  <2> QED  BY <2>1, <2>2 DEF Size
<1> QED  BY <1>2, <1>3, <1>4, <1>5 DEF IsComparison

\* ADC, SBC and CMP agree with arithmetic on integers, carry, borrow and signed overflow included, in
\* every state and for every operand.
THEOREM ArithmeticKept == Spec => []ArithmeticExact
<1>1. IInv => ArithmeticExact
  <2> SUFFICES ASSUME IInv, NEW m \in Byte
               PROVE  /\ IsSum(regs, Operate("ADC", regs, m), m, Carry(regs))
                      /\ IsDifference(regs, Operate("SBC", regs, m), m, 1 - Carry(regs))
                      /\ IsComparison(Operate("CMP", regs, m), regs.a, m)
    BY DEF ArithmeticExact
  <2>1. Sound(regs)
    BY DEF IInv, Proper, Machine
  <2>2. /\ Operate("ADC", regs, m) = Add(regs, m)
        /\ Operate("SBC", regs, m) = Subtract(regs, m)
        /\ Operate("CMP", regs, m) = Compare(regs, regs.a, m)
    BY DEF Operate
  <2> QED  BY <2>1, <2>2, AddExact, SubtractExact, CompareExact
<1> QED  BY <1>1, Invariant, PTL

-----------------------------------------------------------------------------
(* Combined instructions                                                   *)

\* The same flags, N and Z aside.
Alike(p, q) == \A f : f \notin {"N", "Z"} => (f \in p <=> f \in q)

\* Setting flags alike keeps them alike; N and Z are set anew.
LEMMA AlikeWith ==
  ASSUME NEW p, NEW q, Alike(p, q)
  PROVE  /\ \A f, on : Alike(With(p, f, on), With(q, f, on))
         /\ \A v : NZ(p, v) = NZ(q, v)
         /\ \A v : Alike(NZ(p, v), p)
<1>1. \A f, on : Alike(With(p, f, on), With(q, f, on))
  BY DEF Alike, With
<1>2. ASSUME NEW v
      PROVE  NZ(p, v) = NZ(q, v)
  <2>1. \A f : f \in NZ(p, v) <=> f \in NZ(q, v)
    BY DEF Alike, With, NZ
  <2> QED  BY <2>1 DEF NZ, With
<1>3. \A v : Alike(NZ(p, v), p)
  BY DEF Alike, With, NZ
<1> QED  BY <1>1, <1>2, <1>3

\* Registers are equal if all of them are.
LEMMA RegistersEqual ==
  ASSUME NEW r \in Registers, NEW q \in Registers,
         r.a = q.a, r.x = q.x, r.y = q.y, r.s = q.s, r.p = q.p
  PROVE  r = q
BY DEF Registers

\* Registers that differ in N and Z only.
Similar(r, q) ==
  /\ Sound(r) /\ Sound(q) /\ Alike(r.p, q.p)
  /\ r.a = q.a /\ r.x = q.x /\ r.y = q.y /\ r.s = q.s

\* N and Z of before make no difference to what the second part does.
LEMMA SecondPart ==
  ASSUME NEW r, NEW q, Similar(r, q), NEW w \in Byte
  PROVE  /\ LoadA(r, w) = LoadA(q, w)
         /\ Add(r, w) = Add(q, w)
         /\ Subtract(r, w) = Subtract(q, w)
         /\ Compare(r, r.a, w) = Compare(q, q.a, w)
<1>1. /\ r \in Registers /\ q \in Registers /\ Alike(r.p, q.p) /\ Sound(r) /\ Sound(q)
      /\ r.a = q.a /\ r.x = q.x /\ r.y = q.y /\ r.s = q.s
  BY DEF Similar, Sound
<1>2. Carry(r) = Carry(q)
  BY <1>1 DEF Alike, Carry
<1>3. LoadA(r, w) = LoadA(q, w)
  <2>1. LoadA(r, w) \in Registers /\ LoadA(q, w) \in Registers
    BY <1>1, LoadSound DEF Sound
  <2>2. NZ(r.p, w) = NZ(q.p, w)
    BY <1>1, AlikeWith
  <2>3. /\ LoadA(r, w).a = w /\ LoadA(r, w).x = r.x /\ LoadA(r, w).y = r.y /\ LoadA(r, w).s = r.s
        /\ LoadA(r, w).p = NZ(r.p, w)
        /\ LoadA(q, w).a = w /\ LoadA(q, w).x = q.x /\ LoadA(q, w).y = q.y /\ LoadA(q, w).s = q.s
        /\ LoadA(q, w).p = NZ(q.p, w)
    BY <1>1 DEF LoadA, Registers
  <2> QED  BY <1>1, <2>1, <2>2, <2>3, RegistersEqual
<1>4. ASSUME NEW c, NEW o, NEW v
      PROVE  NZ(With(With(r.p, "C", c), "V", o), v) = NZ(With(With(q.p, "C", c), "V", o), v)
  <2>1. Alike(With(r.p, "C", c), With(q.p, "C", c))
    BY <1>1, AlikeWith
  <2>2. Alike(With(With(r.p, "C", c), "V", o), With(With(q.p, "C", c), "V", o))
    BY <2>1, AlikeWith
  <2> QED  BY <2>2, AlikeWith
<1>5. Add(r, w) = Add(q, w)
  <2> DEFINE sum == q.a + w + Carry(q)
             v == sum % Size
             c == sum >= Size
             o == Sign(q.a) = Sign(w) /\ Sign(q.a) # Sign(v)
             p1 == NZ(With(With(r.p, "C", c), "V", o), v)
             p2 == NZ(With(With(q.p, "C", c), "V", o), v)
  <2>1. p1 = p2
    BY <1>4
  <2>2. Add(r, w) = [r EXCEPT !.a = v, !.p = p1] /\ Add(q, w) = [q EXCEPT !.a = v, !.p = p2]
    BY <1>1, <1>2 DEF Add
  <2>3. Add(r, w) \in Registers /\ Add(q, w) \in Registers
    BY <1>1, AddSound DEF Sound
  <2> HIDE DEF p1, p2, v
  <2>4. /\ Add(r, w).a = v /\ Add(r, w).x = r.x /\ Add(r, w).y = r.y /\ Add(r, w).s = r.s
        /\ Add(r, w).p = p1
        /\ Add(q, w).a = v /\ Add(q, w).x = q.x /\ Add(q, w).y = q.y /\ Add(q, w).s = q.s
        /\ Add(q, w).p = p2
    BY <1>1, <2>2 DEF Registers
  <2> QED  BY <1>1, <2>1, <2>3, <2>4, RegistersEqual
<1>6. Subtract(r, w) = Subtract(q, w)
  <2> DEFINE sum == (q.a + (-w - 1) + Carry(q)) % (Size * Size)
             v == sum % Size
             c == sum < Size
             o == Sign(q.a) # Sign(w) /\ Sign(q.a) # Sign(v)
             p1 == NZ(With(With(r.p, "C", c), "V", o), v)
             p2 == NZ(With(With(q.p, "C", c), "V", o), v)
  <2>1. p1 = p2
    BY <1>4
  <2>2. Subtract(r, w) = [r EXCEPT !.a = v, !.p = p1] /\ Subtract(q, w) = [q EXCEPT !.a = v, !.p = p2]
    BY <1>1, <1>2 DEF Subtract
  <2>3. Subtract(r, w) \in Registers /\ Subtract(q, w) \in Registers
    BY <1>1, AddSound DEF Sound
  <2> HIDE DEF p1, p2, v
  <2>4. /\ Subtract(r, w).a = v /\ Subtract(r, w).x = r.x /\ Subtract(r, w).y = r.y
        /\ Subtract(r, w).s = r.s /\ Subtract(r, w).p = p1
        /\ Subtract(q, w).a = v /\ Subtract(q, w).x = q.x /\ Subtract(q, w).y = q.y
        /\ Subtract(q, w).s = q.s /\ Subtract(q, w).p = p2
    BY <1>1, <2>2 DEF Registers
  <2> QED  BY <1>1, <2>1, <2>3, <2>4, RegistersEqual
<1>7. Compare(r, r.a, w) = Compare(q, q.a, w)
  <2> DEFINE c == q.a >= w
             v == (q.a - w) % Size
             p1 == NZ(With(r.p, "C", c), v)
             p2 == NZ(With(q.p, "C", c), v)
  <2>1. p1 = p2
    <3>1. Alike(With(r.p, "C", c), With(q.p, "C", c))
      BY <1>1, AlikeWith
    <3> QED  BY <3>1, AlikeWith
  <2>2. Compare(r, r.a, w) = [r EXCEPT !.p = p1] /\ Compare(q, q.a, w) = [q EXCEPT !.p = p2]
    BY <1>1 DEF Compare
  <2>3. Compare(r, r.a, w) \in Registers /\ Compare(q, q.a, w) \in Registers
    BY <1>1, AddSound DEF Sound
  <2> HIDE DEF p1, p2
  <2>4. /\ Compare(r, r.a, w).a = r.a /\ Compare(r, r.a, w).x = r.x /\ Compare(r, r.a, w).y = r.y
        /\ Compare(r, r.a, w).s = r.s /\ Compare(r, r.a, w).p = p1
        /\ Compare(q, q.a, w).a = q.a /\ Compare(q, q.a, w).x = q.x /\ Compare(q, q.a, w).y = q.y
        /\ Compare(q, q.a, w).s = q.s /\ Compare(q, q.a, w).p = p2
    BY <1>1, <2>2 DEF Registers
  <2> QED  BY <1>1, <2>1, <2>3, <2>4, RegistersEqual
<1> QED  BY <1>3, <1>5, <1>6, <1>7

\* The registers after the first part are those that the second one of a combined
\* instruction starts with, N and Z aside.
LEMMA FirstPart ==
  ASSUME NEW r, Sound(r), NEW m \in Byte, NEW op \in {"ASL", "LSR", "ROL", "ROR", "INC", "DEC"},
         NEW both \in {"SLO", "RLA", "SRE", "RRA", "DCP", "ISB"},
         Written(both, r, m) = Written(op, r, m), Shifted(both, r, m) = Shifted(op, r, m)
  PROVE  Similar(Modify(op, r, m), Shifted(both, r, m))
<1> DEFINE q == Shifted(op, r, m)
           v == Written(op, r, m)
           e == NZ(q.p, v)
<1>1. op \in Rmw
  BY DEF Rmw
<1>2. Modify(op, r, m) = [q EXCEPT !.p = e]
  BY DEF Modify
<1>3. Sound(q)
  <2>1. \A on : Flags(With(r.p, "C", on))
    BY SoundHas, WithFlags, SomeFlags
  <2>2. Flags(r.p)
    BY SoundHas
  <2>3. 0 \in Byte
    BY ZeroByte
  <2> DEFINE p2 == IF op \in LeftShifts THEN With(r.p, "C", Sign(m) = 1)
                   ELSE IF op \in RightShifts THEN With(r.p, "C", m % 2 = 1) ELSE r.p
  <2>4. Flags(p2)
    BY <2>1, <2>2
  <2>5. q = [r EXCEPT !.p = p2]
    BY DEF Shifted
  <2> HIDE DEF p2, q
  <2> QED  BY <2>3, <2>4, <2>5, SoundSet
<1>4. Sound(Modify(op, r, m))
  BY <1>1, ModifySound
<1>5. Alike(e, q.p)
  <2>1. Alike(q.p, q.p)
    BY DEF Alike
  <2> QED  BY <2>1, AlikeWith
<1> HIDE DEF q, e
<1> DEFINE z == [q EXCEPT !.p = e]
<1>6. z.p = e /\ z.a = q.a /\ z.x = q.x /\ z.y = q.y /\ z.s = q.s
  BY <1>3 DEF Sound, Registers
<1>7. Shifted(both, r, m) = q
  BY DEF q
<1> HIDE DEF z
<1>8. Modify(op, r, m) = z
  BY <1>2 DEF z
<1> QED  BY <1>3, <1>4, <1>5, <1>6, <1>7, <1>8 DEF Similar

\* A combined instruction shifts or counts like its first part.
LEMMA SameWritten ==
  ASSUME NEW r, NEW m
  PROVE  /\ Written("SLO", r, m) = Written("ASL", r, m) /\ Shifted("SLO", r, m) = Shifted("ASL", r, m)
         /\ Written("RLA", r, m) = Written("ROL", r, m) /\ Shifted("RLA", r, m) = Shifted("ROL", r, m)
         /\ Written("SRE", r, m) = Written("LSR", r, m) /\ Shifted("SRE", r, m) = Shifted("LSR", r, m)
         /\ Written("RRA", r, m) = Written("ROR", r, m) /\ Shifted("RRA", r, m) = Shifted("ROR", r, m)
         /\ Written("DCP", r, m) = Written("DEC", r, m) /\ Shifted("DCP", r, m) = Shifted("DEC", r, m)
         /\ Written("ISB", r, m) = Written("INC", r, m) /\ Shifted("ISB", r, m) = Shifted("INC", r, m)
<1>1. /\ Written("SLO", r, m) = Written("ASL", r, m) /\ Written("RLA", r, m) = Written("ROL", r, m)
      /\ Written("SRE", r, m) = Written("LSR", r, m) /\ Written("RRA", r, m) = Written("ROR", r, m)
      /\ Written("DCP", r, m) = Written("DEC", r, m) /\ Written("ISB", r, m) = Written("INC", r, m)
  BY DEF Written
<1>2. /\ Shifted("SLO", r, m) = Shifted("ASL", r, m) /\ Shifted("RLA", r, m) = Shifted("ROL", r, m)
      /\ Shifted("SRE", r, m) = Shifted("LSR", r, m) /\ Shifted("RRA", r, m) = Shifted("ROR", r, m)
      /\ Shifted("DCP", r, m) = Shifted("DEC", r, m) /\ Shifted("ISB", r, m) = Shifted("INC", r, m)
  BY DEF Shifted, LeftShifts, RightShifts
<1> QED  BY <1>1, <1>2

\* The second part, on the registers of the first.
TwoParts(r, m, op, first, second) ==
  /\ Modify(op, r, m) = Operate(second, Modify(first, r, m), Written(first, r, m))
  /\ Written(op, r, m) = Written(first, r, m)

\* The six combined instructions.
LEMMA CombinedParts ==
  ASSUME NEW r, Sound(r), NEW m \in Byte
  PROVE  /\ TwoParts(r, m, "SLO", "ASL", "ORA") /\ TwoParts(r, m, "RLA", "ROL", "AND")
         /\ TwoParts(r, m, "SRE", "LSR", "EOR") /\ TwoParts(r, m, "RRA", "ROR", "ADC")
         /\ TwoParts(r, m, "DCP", "DEC", "CMP") /\ TwoParts(r, m, "ISB", "INC", "SBC")
<1>1. ASSUME NEW op \in {"SLO", "RLA", "SRE", "RRA", "DCP", "ISB"}
      PROVE  Shifted(op, r, m).a = r.a /\ Written(op, r, m) \in Byte
  <2>1. op \in Rmw /\ r \in Registers
    BY DEF Rmw, Sound
  <2>2. Shifted(op, r, m).a = r.a
    BY <2>1 DEF Shifted, Registers
  <2> QED  BY <2>1, <2>2, WrittenByte
<1>2. TwoParts(r, m, "SLO", "ASL", "ORA")
  <2> DEFINE q == Shifted("SLO", r, m)
             v == Written("SLO", r, m)
             e == Modify("ASL", r, m)
  <2>1. Similar(e, q)
    BY SameWritten, FirstPart
  <2>2. Modify("SLO", r, m) = LoadA(q, Or(r.a, v))
    BY DEF Modify
  <2>3. Operate("ORA", e, v) = LoadA(e, Or(e.a, v))
    BY DEF Operate
  <2>4. e.a = r.a /\ Or(r.a, v) \in Byte
    BY <1>1, <2>1, LogicBytes DEF Similar
  <2> HIDE DEF e, q
  <2>5. LoadA(e, Or(r.a, v)) = LoadA(q, Or(r.a, v))
    BY <2>1, <2>4, SecondPart
  <2> QED  BY <2>2, <2>3, <2>4, <2>5, SameWritten DEF TwoParts, e
<1>3. TwoParts(r, m, "RLA", "ROL", "AND")
  <2> DEFINE q == Shifted("RLA", r, m)
             v == Written("RLA", r, m)
             e == Modify("ROL", r, m)
  <2>1. Similar(e, q)
    BY SameWritten, FirstPart
  <2>2. Modify("RLA", r, m) = LoadA(q, And(r.a, v))
    BY DEF Modify
  <2>3. Operate("AND", e, v) = LoadA(e, And(e.a, v))
    BY DEF Operate
  <2>4. e.a = r.a /\ And(r.a, v) \in Byte
    BY <1>1, <2>1, LogicBytes DEF Similar
  <2> HIDE DEF e, q
  <2>5. LoadA(e, And(r.a, v)) = LoadA(q, And(r.a, v))
    BY <2>1, <2>4, SecondPart
  <2> QED  BY <2>2, <2>3, <2>4, <2>5, SameWritten DEF TwoParts, e
<1>4. TwoParts(r, m, "SRE", "LSR", "EOR")
  <2> DEFINE q == Shifted("SRE", r, m)
             v == Written("SRE", r, m)
             e == Modify("LSR", r, m)
  <2>1. Similar(e, q)
    BY SameWritten, FirstPart
  <2>2. Modify("SRE", r, m) = LoadA(q, Xor(r.a, v))
    BY DEF Modify
  <2>3. Operate("EOR", e, v) = LoadA(e, Xor(e.a, v))
    BY DEF Operate
  <2>4. e.a = r.a /\ Xor(r.a, v) \in Byte
    BY <1>1, <2>1, LogicBytes DEF Similar
  <2> HIDE DEF e, q
  <2>5. LoadA(e, Xor(r.a, v)) = LoadA(q, Xor(r.a, v))
    BY <2>1, <2>4, SecondPart
  <2> QED  BY <2>2, <2>3, <2>4, <2>5, SameWritten DEF TwoParts, e
<1>5. TwoParts(r, m, "RRA", "ROR", "ADC")
  <2> DEFINE q == Shifted("RRA", r, m)
             v == Written("RRA", r, m)
             e == Modify("ROR", r, m)
  <2>1. Similar(e, q) /\ v \in Byte
    BY <1>1, SameWritten, FirstPart
  <2>2. Modify("RRA", r, m) = Add(q, v)
    BY DEF Modify
  <2>3. Operate("ADC", e, v) = Add(e, v)
    BY DEF Operate
  <2> HIDE DEF e, q, v
  <2>4. Add(e, v) = Add(q, v)
    BY <2>1, SecondPart
  <2> QED  BY <2>2, <2>3, <2>4, SameWritten DEF TwoParts, e, v
<1>6. TwoParts(r, m, "DCP", "DEC", "CMP")
  <2> DEFINE q == Shifted("DCP", r, m)
             v == Written("DCP", r, m)
             e == Modify("DEC", r, m)
  <2>1. Similar(e, q) /\ v \in Byte
    BY <1>1, SameWritten, FirstPart
  <2>2. Modify("DCP", r, m) = Compare(r, r.a, v)
    BY DEF Modify
  <2>3. Operate("CMP", e, v) = Compare(e, e.a, v)
    BY DEF Operate
  <2>4. q = r
    <3>1. q = [r EXCEPT !.p = r.p]
      BY DEF Shifted, LeftShifts, RightShifts
    <3> QED  BY <3>1 DEF Sound, Registers
  <2> HIDE DEF e, q, v
  <2>5. Compare(e, e.a, v) = Compare(q, q.a, v)
    BY <2>1, SecondPart
  <2> QED  BY <2>2, <2>3, <2>4, <2>5, SameWritten DEF TwoParts, e, v
<1>7. TwoParts(r, m, "ISB", "INC", "SBC")
  <2> DEFINE q == Shifted("ISB", r, m)
             v == Written("ISB", r, m)
             e == Modify("INC", r, m)
  <2>1. Similar(e, q) /\ v \in Byte
    BY <1>1, SameWritten, FirstPart
  <2>2. Modify("ISB", r, m) = Subtract(r, v)
    BY DEF Modify
  <2>3. Operate("SBC", e, v) = Subtract(e, v)
    BY DEF Operate
  <2>4. q = r
    <3>1. q = [r EXCEPT !.p = r.p]
      BY DEF Shifted, LeftShifts, RightShifts
    <3> QED  BY <3>1 DEF Sound, Registers
  <2> HIDE DEF e, q, v
  <2>5. Subtract(e, v) = Subtract(q, v)
    BY <2>1, SecondPart
  <2> QED  BY <2>2, <2>3, <2>4, <2>5, SameWritten DEF TwoParts, e, v
<1> QED  BY <1>2, <1>3, <1>4, <1>5, <1>6, <1>7

\* Each combined instruction is its two parts one after the other, in registers, flags and the byte
\* written, in every state.
THEOREM CombinedKept == Spec => []CombinedAsTwo
<1>1. IInv => CombinedAsTwo
  <2> SUFFICES ASSUME IInv, NEW m \in program.operands
               PROVE  /\ TwoParts(regs, m, "SLO", "ASL", "ORA") /\ TwoParts(regs, m, "RLA", "ROL", "AND")
                      /\ TwoParts(regs, m, "SRE", "LSR", "EOR") /\ TwoParts(regs, m, "RRA", "ROR", "ADC")
                      /\ TwoParts(regs, m, "DCP", "DEC", "CMP") /\ TwoParts(regs, m, "ISB", "INC", "SBC")
    BY DEF CombinedAsTwo, TwoParts
  <2>1. Sound(regs) /\ m \in Byte
    BY ProgramHas DEF IInv, Proper, Machine
  <2> QED  BY <2>1, CombinedParts
<1> QED  BY <1>1, Invariant, PTL
================================================================================
