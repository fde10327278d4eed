------------------------------ MODULE VramProofs ------------------------------
(***************************************************************************)
(* Theorems about VramAddress for every size of the fields, every value    *)
(* the program writes and any number of accesses: the types, that V stands *)
(* still while rendering is off, and that the scroll of every line follows *)
(* from T.                                                                 *)
(***************************************************************************)
EXTENDS VramAddress, WellFoundedInduction, TLAPS

-----------------------------------------------------------------------------
(* Counting, remainders and induction.                                     *)

\* A residue is smaller than the modulus.
LEMMA ModRange ==
  ASSUME NEW M \in Nat \ {0}, NEW x \in Int
  PROVE  x % M \in 0..(M - 1)
  OBVIOUS

\* Quotient and remainder give the number back.
LEMMA ModQuotient ==
  ASSUME NEW M \in Nat \ {0}, NEW x \in Int
  PROVE  /\ x \div M \in Int
         /\ x = M * (x \div M) + (x % M)
  OBVIOUS

\* A positive multiple of M is at least M.
LEMMA MultipleAtLeast ==
  ASSUME NEW M \in Nat \ {0}, NEW d \in Int, d >= 1
  PROVE  M * d >= M
  OBVIOUS

\* Two residues that differ by a multiple of M are equal.
LEMMA ResidueUnique ==
  ASSUME NEW M \in Nat \ {0}, NEW d \in Int,
         NEW r \in 0..(M - 1), NEW s \in 0..(M - 1), M * d + r = s
  PROVE  r = s
<1>1. M * d \in Int
  OBVIOUS
<1>2. CASE d >= 1
  <2>1. M * d >= M  BY <1>2, MultipleAtLeast
  <2> QED  BY <1>1, <2>1
<1>3. CASE d <= -1
  <2>1. M * (-d) >= M  BY <1>3, MultipleAtLeast
  <2>2. M * (-d) = -(M * d)  OBVIOUS
  <2> QED  BY <1>1, <2>1, <2>2
<1>4. CASE d = 0
  BY <1>4
<1> QED  BY <1>2, <1>3, <1>4

\* Numbers that differ by a multiple of M have the same residue.
LEMMA ModShift ==
  ASSUME NEW M \in Nat \ {0}, NEW x \in Int, NEW y \in Int, NEW q \in Int,
         x = y + M * q
  PROVE  x % M = y % M
<1>1. PICK a \in Int : y = M * a + (y % M)
  BY ModQuotient
<1>2. PICK b \in Int : x = M * b + (x % M)
  BY ModQuotient
<1>3. a + q - b \in Int
  OBVIOUS
<1>4. M * (a + q - b) = M * a + M * q - M * b
  OBVIOUS
<1>5. /\ M * a \in Int /\ M * q \in Int /\ M * b \in Int
      /\ y % M \in Int /\ x % M \in Int
  BY ModRange
<1>6. M * (a + q - b) + (y % M) = x % M
  BY <1>1, <1>2, <1>4, <1>5
<1>7. y % M \in 0..(M - 1) /\ x % M \in 0..(M - 1)
  BY ModRange
<1> QED  BY <1>3, <1>6, <1>7, ResidueUnique

\* Reducing one summand first does not change the residue of a sum.
LEMMA ModPlus ==
  ASSUME NEW M \in Nat \ {0}, NEW x \in Int, NEW y \in Int
  PROVE  ((x % M) + y) % M = (x + y) % M
<1>1. PICK a \in Int : x = M * a + (x % M)
  BY ModQuotient
<1>2. x % M \in Int /\ M * a \in Int
  BY ModRange
<1>0. \A r, m \in Int : x = m + r => x + y = (r + y) + m
  OBVIOUS
<1>3. x + y = ((x % M) + y) + M * a
  BY <1>1, <1>2, <1>0
<1>4. x + y \in Int /\ (x % M) + y \in Int
  BY <1>2
<1> QED  BY <1>3, <1>4, ModShift

\* A quotient of natural numbers, and what it leaves.
LEMMA DivMod ==
  ASSUME NEW x \in Nat, NEW p \in Nat \ {0}
  PROVE  /\ x \div p \in Nat /\ x % p \in 0..(p - 1)
         /\ x = p * (x \div p) + (x % p)
         /\ p * (x \div p) \in Nat
  OBVIOUS

\* Products grow with their factors.
LEMMA TimesGrows ==
  ASSUME NEW p \in Nat, NEW m \in Nat, NEW n \in Nat, m <= n
  PROVE  /\ p * m \in Nat /\ p * n \in Nat /\ p * m <= p * n
         /\ p * (m + 1) = p * m + p
  OBVIOUS

\* A number below a multiple of p has a quotient below the factor.
LEMMA DivBelow ==
  ASSUME NEW x \in Nat, NEW p \in Nat \ {0}, NEW n \in Nat, x < p * n
  PROVE  x \div p < n
<1> DEFINE q == x \div p
<1>1. q \in Nat /\ p * q <= x
  BY DivMod
<1> HIDE DEF q
<1>2. ~(n <= q)
  <2> SUFFICES ASSUME n <= q PROVE FALSE
    OBVIOUS
  <2>1. p * n <= p * q /\ p * n \in Nat /\ p * q \in Nat
    BY <1>1, TimesGrows
  <2> QED  BY <1>1, <2>1
<1>3. q < n
  BY <1>1, <1>2
<1> QED  BY <1>3 DEF q

\* Quotient and remainder are determined by the number.
LEMMA DivUnique ==
  ASSUME NEW p \in Nat \ {0}, NEW q \in Nat, NEW r \in 0..(p - 1)
  PROVE  /\ (p * q + r) \div p = q
         /\ (p * q + r) % p = r
<1> DEFINE x == p * q + r
           k == x \div p
           s == x % p
<1>1. p * q \in Nat /\ x \in Nat
  BY TimesGrows
<1>2. k \in Nat /\ s \in 0..(p - 1) /\ x = p * k + s /\ p * k \in Nat
  BY <1>1, DivMod
<1>3. x = p * q + r
  OBVIOUS
<1> HIDE DEF x, k, s
<1>4. ~(k < q)
  <2> SUFFICES ASSUME k < q PROVE FALSE
    OBVIOUS
  <2>1. p * (k + 1) <= p * q /\ p * (k + 1) = p * k + p
    BY <1>2, TimesGrows
  <2> QED  BY <1>1, <1>2, <1>3, <2>1
<1>5. ~(q < k)
  <2> SUFFICES ASSUME q < k PROVE FALSE
    OBVIOUS
  <2>1. p * (q + 1) <= p * k /\ p * (q + 1) = p * q + p
    BY <1>2, TimesGrows
  <2> QED  BY <1>1, <1>2, <1>3, <2>1
<1>6. k = q
  BY <1>2, <1>4, <1>5
<1>7. s = r
  BY <1>1, <1>2, <1>3, <1>6
<1> QED  BY <1>6, <1>7 DEF x, k, s

(* them all, because < has no infinite descent.                             *)

\* A set that holds 0 and with every number the next one holds them all: < has no
\* infinite descent.
LEMMA SetInduction ==
  ASSUME NEW S, 0 \in S, \A n \in Nat : n \in S => n + 1 \in S
  PROVE  Nat \subseteq S
<1> DEFINE R == OpToRel(<, Nat)
           T == Nat \ S
<1> SUFFICES ASSUME T # {} PROVE FALSE
  OBVIOUS
<1>1. IsWellFoundedOn(R, Nat)
  BY NatLessThanWellFounded
<1>2. \A x, y \in Nat : y < x => <<y, x>> \in R
  BY DEF OpToRel
<1> HIDE DEF R
<1>3. PICK x \in T : \A y \in T : ~(<<y, x>> \in R)
  BY <1>1, WFMin
<1>4. x \in Nat /\ x \notin S /\ x # 0
  OBVIOUS
<1>5. x - 1 \in Nat /\ x - 1 < x
  BY <1>4
<1>6. <<x - 1, x>> \in R
  BY <1>2, <1>4, <1>5
<1>7. x - 1 \in S
  BY <1>3, <1>5, <1>6
<1>8. (x - 1) + 1 \in S
  BY <1>5, <1>7
<1> QED  BY <1>4, <1>8

-----------------------------------------------------------------------------
(* Recursion: k tiles.                                                     *)

IsTilesFrom(f, a, k) == f = [i \in 0..k |-> IF i = 0 THEN a ELSE NextTile(f[i - 1])]

LEMMA TilesExist ==
  ASSUME NEW a
  PROVE  \A k \in Nat : \E f : IsTilesFrom(f, a, k)
<1> DEFINE S == {k \in Nat : \E f : IsTilesFrom(f, a, k)}
<1>1. 0 \in S
  <2>1. IsTilesFrom([i \in 0..0 |-> a], a, 0)
    BY DEF IsTilesFrom
  <2> QED  BY <2>1
<1>2. ASSUME NEW k \in Nat, k \in S
      PROVE  k + 1 \in S
  <2>1. PICK f : IsTilesFrom(f, a, k)
    BY <1>2
  <2> DEFINE g == [i \in 0..(k + 1) |-> IF i <= k THEN f[i] ELSE NextTile(f[k])]
  <2>2. \A i \in 0..k : f[i] = IF i = 0 THEN a ELSE NextTile(f[i - 1])
    BY <2>1 DEF IsTilesFrom
  <2>3. ASSUME NEW i \in 0..(k + 1)
        PROVE  g[i] = IF i = 0 THEN a ELSE NextTile(g[i - 1])
    <3>1. CASE i = 0
      BY <2>2, <3>1
    <3>2. CASE i # 0 /\ i <= k
      BY <2>2, <3>2
    <3>3. CASE i = k + 1
      BY <3>3
    <3> QED  BY <3>1, <3>2, <3>3
  <2>4. g = [i \in 0..(k + 1) |-> g[i]]
    OBVIOUS
  <2> HIDE DEF g
  <2>5. IsTilesFrom(g, a, k + 1)
    BY <2>3, <2>4 DEF IsTilesFrom
  <2> QED  BY <2>5
<1> HIDE DEF S
<1>3. Nat \subseteq S
  BY <1>1, <1>2, SetInduction
<1> QED  BY <1>3 DEF S

LEMMA TilesAgree ==
  ASSUME NEW a, NEW f, NEW g, NEW k \in Nat, NEW m \in Nat,
         IsTilesFrom(f, a, k), IsTilesFrom(g, a, m)
  PROVE  \A i \in Nat : i <= k /\ i <= m => f[i] = g[i]
<1> DEFINE S == {i \in Nat : i <= k /\ i <= m => f[i] = g[i]}
<1>1. /\ \A i \in 0..k : f[i] = IF i = 0 THEN a ELSE NextTile(f[i - 1])
      /\ \A i \in 0..m : g[i] = IF i = 0 THEN a ELSE NextTile(g[i - 1])
  BY DEF IsTilesFrom
<1>2. 0 \in S
  BY <1>1
<1>3. ASSUME NEW i \in Nat, i \in S
      PROVE  i + 1 \in S
  <2> SUFFICES ASSUME i + 1 <= k, i + 1 <= m PROVE f[i + 1] = g[i + 1]
    OBVIOUS
  <2>1. f[i] = g[i]
    BY <1>3
  <2>2. i + 1 \in 0..k /\ i + 1 \in 0..m /\ i + 1 # 0 /\ (i + 1) - 1 = i
    OBVIOUS
  <2> QED  BY <1>1, <2>1, <2>2
<1> HIDE DEF S
<1>4. Nat \subseteq S
  BY <1>2, <1>3, SetInduction
<1> QED  BY <1>4 DEF S

LEMMA TilesStep ==
  ASSUME NEW a
  PROVE  /\ Tiles(a, 0) = a
         /\ \A k \in Nat : Tiles(a, k + 1) = NextTile(Tiles(a, k))
<1> DEFINE after(k) == CHOOSE f : IsTilesFrom(f, a, k)
<1>1. ASSUME NEW k \in Nat
      PROVE  Tiles(a, k) = after(k)[k]
  BY DEF Tiles, IsTilesFrom
<1>2. ASSUME NEW k \in Nat
      PROVE  IsTilesFrom(after(k), a, k)
  BY TilesExist
<1> HIDE DEF after
<1>3. Tiles(a, 0) = a
  <2>1. after(0)[0] = a
    BY <1>2 DEF IsTilesFrom
  <2> QED  BY <1>1, <2>1
<1>4. ASSUME NEW k \in Nat
      PROVE  Tiles(a, k + 1) = NextTile(Tiles(a, k))
  <2>1. k + 1 \in Nat /\ k + 1 \in 0..(k + 1) /\ k + 1 # 0 /\ (k + 1) - 1 = k
    OBVIOUS
  <2>2. IsTilesFrom(after(k), a, k) /\ IsTilesFrom(after(k + 1), a, k + 1)
    BY <1>2, <2>1
  <2>3. after(k + 1)[k + 1] = NextTile(after(k + 1)[k])
    BY <2>1, <2>2 DEF IsTilesFrom
  <2>4. after(k + 1)[k] = after(k)[k]
    BY <2>1, <2>2, TilesAgree
  <2> QED  BY <1>1, <2>1, <2>3, <2>4
<1> QED  BY <1>3, <1>4

-----------------------------------------------------------------------------
(* The fields of an address.                                               *)

Place(x, y, nx, ny, fy, top) ==
  x + Columns * y + Table * nx + (2 * Table) * ny + Fine * fy + Space * top

LEMMA Sizes ==
  /\ Columns \in Nat \ {0} /\ RowCodes \in Nat \ {0} /\ FineLines \in Nat \ {0}
  /\ Table \in Nat \ {0} /\ Fine \in Nat \ {0} /\ Space \in Nat \ {0}
  /\ Table = Columns * RowCodes /\ Fine = 4 * Table /\ Space = Fine * FineLines
<1>1. /\ Columns \in Nat \ {0} /\ RowCodes \in Nat \ {0} /\ FineLines \in Nat \ {0}
  BY AddressAssumption
<1>2. \A m, n \in Nat \ {0} : m * n \in Nat \ {0}
  <2> SUFFICES ASSUME NEW m \in Nat \ {0}, NEW n \in Nat \ {0} PROVE m * n \in Nat \ {0}
    OBVIOUS
  <2>1. m * 1 <= m * n /\ m * n \in Nat
    BY TimesGrows
  <2> QED  BY <2>1
<1>3. Table \in Nat \ {0} /\ Table = Columns * RowCodes
  BY <1>1, <1>2 DEF Table
<1>4. Fine \in Nat \ {0} /\ Fine = 4 * Table
  BY <1>3 DEF Fine
<1>5. Space \in Nat \ {0} /\ Space = Fine * FineLines
  BY <1>1, <1>2, <1>4 DEF Space
<1> QED  BY <1>1, <1>3, <1>4, <1>5

\* Two digits side by side make one of the product's size.
LEMMA TwoDigits ==
  ASSUME NEW m \in Nat \ {0}, NEW n \in Nat \ {0}, NEW d \in 0..(m - 1), NEW e \in 0..(n - 1)
  PROVE  d + m * e \in 0..(m * n - 1)
<1>1. m * (e + 1) <= m * n /\ m * (e + 1) = m * e + m /\ m * e \in Nat /\ m * n \in Nat
  BY TimesGrows
<1> QED  BY <1>1

HasFields(a, x, y, nx, ny, fy, top) ==
  /\ a \in Nat /\ a < Space * (top + 1) /\ a >= Space * top
  /\ X(a) = x /\ Y(a) = y /\ NtX(a) = nx /\ NtY(a) = ny /\ FineY(a) = fy

\* The fields of a number put together from fields.
LEMMA FieldsOfPlace ==
  ASSUME NEW x \in 0..(Columns - 1), NEW y \in 0..(RowCodes - 1), NEW nx \in 0..1,
         NEW ny \in 0..1, NEW fy \in 0..(FineLines - 1), NEW top \in Nat
  PROVE  HasFields(Place(x, y, nx, ny, fy, top), x, y, nx, ny, fy, top)
<1> DEFINE a == Place(x, y, nx, ny, fy, top)
           t1 == x + Columns * y
           t2 == t1 + Table * nx
           t3 == t2 + (2 * Table) * ny
           t4 == t3 + Fine * fy
           q4 == fy + FineLines * top
           q3 == ny + 2 * q4
           q2 == nx + 2 * q3
           q1 == y + RowCodes * q2
<1>1. /\ q4 \in Nat /\ q3 \in Nat /\ q2 \in Nat /\ q1 \in Nat
  <2>1. q4 \in Nat
    BY Sizes
  <2>2. q3 \in Nat
    BY <2>1
  <2>3. q2 \in Nat
    BY <2>2
  <2> HIDE DEF q2
  <2>4. q1 \in Nat
    BY <2>3, Sizes
  <2> QED  BY <2>1, <2>2, <2>3, <2>4
<1>2. t1 \in 0..(Table - 1)
  BY Sizes, TwoDigits
<1> HIDE DEF t1
<1>3. t2 \in 0..(2 * Table - 1)
  BY <1>2, Sizes
<1>4. t3 \in 0..(Fine - 1)
  BY <1>2, Sizes
<1> HIDE DEF t2, t3
<1>5. t4 \in 0..(Space - 1)
  BY <1>4, Sizes, TwoDigits
<1> HIDE DEF t4
<1>6. a = Space * top + t4
  BY Sizes, <1>5 DEF Place, t4, t3, t2, t1
<1>7. a = Fine * q4 + t3
  <2>1. Fine * q4 = Fine * fy + Space * top
    BY Sizes
  <2> QED  BY <2>1, Sizes, <1>4 DEF Place, t3, t2, t1
<1>8. a = (2 * Table) * q3 + t2
  <2> HIDE DEF q4
  <2>1. (2 * Table) * q3 = (2 * Table) * ny + Fine * q4
    BY <1>1, Sizes
  <2> QED  BY <2>1, <1>1, <1>3, <1>7, Sizes DEF t3
<1>9. a = Table * q2 + t1
  <2> HIDE DEF q3
  <2>1. Table * q2 = Table * nx + (2 * Table) * q3
    BY <1>1, Sizes
  <2> QED  BY <2>1, <1>1, <1>2, <1>8, Sizes DEF t2
<1>10. a = Columns * q1 + x
  <2> HIDE DEF q2
  <2>1. Columns * q1 = Columns * y + Table * q2
    BY <1>1, Sizes
  <2> QED  BY <2>1, <1>1, <1>9, Sizes DEF t1
<1> HIDE DEF a, q1, q2, q3, q4
<1>11. a \div Columns = q1 /\ a % Columns = x
  BY <1>1, <1>10, Sizes, DivUnique
<1>12. q1 % RowCodes = y
  BY <1>1, Sizes, DivUnique DEF q1
<1>13. a \div Table = q2 /\ q2 % 2 = nx
  BY <1>1, <1>2, <1>9, Sizes, DivUnique DEF q2
<1>14. a \div (2 * Table) = q3 /\ q3 % 2 = ny
  <2>1. 2 * Table \in Nat \ {0}
    BY Sizes
  <2>2. a \div (2 * Table) = q3
    BY <1>1, <1>3, <1>8, <2>1, DivUnique
  <2> QED  BY <1>1, <2>2 DEF q3
<1>15. a \div Fine = q4 /\ q4 % FineLines = fy
  <2>1. a \div Fine = q4
    BY <1>1, <1>4, <1>7, Sizes, DivUnique
  <2>2. q4 = FineLines * top + fy
    BY Sizes DEF q4
  <2>3. (FineLines * top + fy) % FineLines = fy
    BY Sizes, DivUnique
  <2> QED  BY <2>1, <2>2, <2>3
<1>16. a \in Nat /\ a < Space * (top + 1) /\ a >= Space * top
  <2>1. Space * top \in Nat /\ Space * (top + 1) = Space * top + Space
    BY Sizes, TimesGrows
  <2> QED  BY <1>5, <1>6, <2>1, Sizes
<1>17. /\ X(a) = x /\ Y(a) = y /\ NtX(a) = nx /\ NtY(a) = ny /\ FineY(a) = fy
  BY <1>11, <1>12, <1>13, <1>14, <1>15 DEF X, Y, NtX, NtY, FineY
<1> QED  BY <1>16, <1>17 DEF a, HasFields

\* Every number is put together from its fields.
LEMMA PlaceOfFields ==
  ASSUME NEW a \in Nat
  PROVE  /\ X(a) \in 0..(Columns - 1) /\ Y(a) \in 0..(RowCodes - 1) /\ NtX(a) \in 0..1
         /\ NtY(a) \in 0..1 /\ FineY(a) \in 0..(FineLines - 1)
         /\ \E top \in Nat : a = Place(X(a), Y(a), NtX(a), NtY(a), FineY(a), top)
<1> DEFINE q1 == a \div Columns
           q2 == q1 \div RowCodes
           q3 == q2 \div 2
           q4 == q3 \div 2
           dtop == q4 \div FineLines
           dx == a % Columns
           dy == q1 % RowCodes
           dnx == q2 % 2
           dny == q3 % 2
           dfy == q4 % FineLines
<1>1. q1 \in Nat /\ dx \in 0..(Columns - 1) /\ a = Columns * q1 + dx
  BY Sizes, DivMod
<1> HIDE DEF q1, dx
<1>2. q2 \in Nat /\ dy \in 0..(RowCodes - 1) /\ q1 = RowCodes * q2 + dy
  BY <1>1, Sizes, DivMod
<1> HIDE DEF q2, dy
<1>3. q3 \in Nat /\ dnx \in 0..1 /\ q2 = 2 * q3 + dnx
  BY <1>2
<1> HIDE DEF q3, dnx
<1>4. q4 \in Nat /\ dny \in 0..1 /\ q3 = 2 * q4 + dny
  BY <1>3
<1> HIDE DEF q4, dny
<1>5. dtop \in Nat /\ dfy \in 0..(FineLines - 1) /\ q4 = FineLines * dtop + dfy
  BY <1>4, Sizes, DivMod
<1> HIDE DEF dtop, dfy
<1>6. a = Place(dx, dy, dnx, dny, dfy, dtop)
  <2>1. Columns * q1 = Table * q2 + Columns * dy
    BY <1>1, <1>2, Sizes
  <2>2. Table * q2 = (2 * Table) * q3 + Table * dnx
    BY <1>2, <1>3, Sizes
  <2>3. (2 * Table) * q3 = Fine * q4 + (2 * Table) * dny
    BY <1>3, <1>4, Sizes
  <2>4. Fine * q4 = Space * dtop + Fine * dfy
    BY <1>4, <1>5, Sizes
  <2>5. /\ Table * dnx \in Nat /\ (2 * Table) * dny \in Nat /\ Fine * dfy \in Nat
        /\ Space * dtop \in Nat /\ Columns * dy \in Nat
    BY <1>1, <1>2, <1>3, <1>4, <1>5, Sizes
  <2> QED  BY <1>1, <2>1, <2>2, <2>3, <2>4, <2>5 DEF Place
<1>7. /\ X(a) = dx /\ Y(a) = dy /\ NtX(a) = dnx /\ NtY(a) = dny /\ FineY(a) = dfy
  <2> DEFINE b == Place(dx, dy, dnx, dny, dfy, dtop)
  <2>1. /\ dx \in 0..(Columns - 1) /\ dy \in 0..(RowCodes - 1) /\ dnx \in 0..1
        /\ dny \in 0..1 /\ dfy \in 0..(FineLines - 1) /\ dtop \in Nat
    BY <1>1, <1>2, <1>3, <1>4, <1>5
  <2>2. HasFields(b, dx, dy, dnx, dny, dfy, dtop)
    BY <2>1, FieldsOfPlace
  <2> QED  BY <1>6, <2>2 DEF HasFields
<1> QED  BY <1>1, <1>2, <1>3, <1>4, <1>5, <1>6, <1>7

\* b is the address with the given fields, as far up the memory as a.
Becomes(a, b, x, y, nx, ny, fy) ==
  /\ b \in Nat
  /\ X(b) = x /\ Y(b) = y /\ NtX(b) = nx /\ NtY(b) = ny /\ FineY(b) = fy
  /\ a < Space => b < Space
  /\ a < WordCodes => b < WordCodes

LEMMA FieldsChange ==
  ASSUME NEW a \in Nat, NEW top \in Nat,
         a = Place(X(a), Y(a), NtX(a), NtY(a), FineY(a), top),
         NEW x \in 0..(Columns - 1), NEW y \in 0..(RowCodes - 1), NEW nx \in 0..1,
         NEW ny \in 0..1, NEW fy \in 0..(FineLines - 1)
  PROVE  Becomes(a, Place(x, y, nx, ny, fy, top), x, y, nx, ny, fy)
<1> DEFINE b == Place(x, y, nx, ny, fy, top)
<1>1. /\ b \in Nat /\ b < Space * (top + 1)
      /\ X(b) = x /\ Y(b) = y /\ NtX(b) = nx /\ NtY(b) = ny /\ FineY(b) = fy
  <2>1. HasFields(b, x, y, nx, ny, fy, top)
    BY FieldsOfPlace
  <2> HIDE DEF b
  <2> QED  BY <2>1 DEF HasFields
<1>2. a >= Space * top
  <2>1. /\ X(a) \in 0..(Columns - 1) /\ Y(a) \in 0..(RowCodes - 1) /\ NtX(a) \in 0..1
        /\ NtY(a) \in 0..1 /\ FineY(a) \in 0..(FineLines - 1)
    BY PlaceOfFields
  <2> DEFINE c == Place(X(a), Y(a), NtX(a), NtY(a), FineY(a), top)
  <2>2. HasFields(c, X(a), Y(a), NtX(a), NtY(a), FineY(a), top)
    BY <2>1, FieldsOfPlace
  <2>3. a = c
    OBVIOUS
  <2> HIDE DEF c
  <2> QED  BY <2>2, <2>3 DEF HasFields
<1> HIDE DEF b
<1>3. ASSUME NEW n \in Nat, a < Space * n
      PROVE  b < Space * n
  <2>1. top < n
    <3> SUFFICES ASSUME n <= top PROVE FALSE
      OBVIOUS
    <3>1. Space * n <= Space * top /\ Space * n \in Nat /\ Space * top \in Nat
      BY Sizes, TimesGrows
    <3> QED  BY <1>2, <1>3, <3>1
  <2>2. Space * (top + 1) <= Space * n /\ Space * n \in Nat /\ Space * (top + 1) \in Nat
    BY <2>1, Sizes, TimesGrows
  <2> QED  BY <1>1, <2>2
<1>4. Space * 1 = Space /\ Space * 2 = WordCodes
  BY Sizes DEF WordCodes
<1>5. a < Space => b < Space
  BY <1>3, <1>4
<1>6. a < WordCodes => b < WordCodes
  BY <1>3, <1>4
<1> QED  BY <1>1, <1>5, <1>6 DEF Becomes, b

LEMMA NextTileMoves ==
  ASSUME NEW a \in Nat
  PROVE  Becomes(a, NextTile(a), IF X(a) = Columns - 1 THEN 0 ELSE X(a) + 1, Y(a),
                 IF X(a) = Columns - 1 THEN 1 - NtX(a) ELSE NtX(a), NtY(a), FineY(a))
<1>1. /\ X(a) \in 0..(Columns - 1) /\ Y(a) \in 0..(RowCodes - 1) /\ NtX(a) \in 0..1
      /\ NtY(a) \in 0..1 /\ FineY(a) \in 0..(FineLines - 1)
  BY PlaceOfFields
<1>2. PICK top \in Nat : a = Place(X(a), Y(a), NtX(a), NtY(a), FineY(a), top)
  BY PlaceOfFields
<1> DEFINE p == Columns * Y(a)
           q == (2 * Table) * NtY(a)
           r == Fine * FineY(a)
           u == Space * top
<1>3. p \in Nat /\ q \in Nat /\ r \in Nat /\ u \in Nat
  BY <1>1, Sizes
<1>4. \A c, n \in Int : Place(c, Y(a), n, NtY(a), FineY(a), top) = c + p + Table * n + q + r + u
  BY DEF Place
<1>5. a = X(a) + p + Table * NtX(a) + q + r + u
  BY <1>1, <1>2, <1>4
<1> HIDE DEF p, q, r, u
<1>6. CASE X(a) = Columns - 1
  <2>1. NextTile(a) = a - X(a) + (IF NtX(a) = 0 THEN Table ELSE -Table)
    BY <1>6 DEF NextTile
  <2>2. Place(0, Y(a), 1 - NtX(a), NtY(a), FineY(a), top)
          = 0 + p + Table * (1 - NtX(a)) + q + r + u
    BY <1>1, <1>4
  <2>3. CASE NtX(a) = 0
    <3>1. NextTile(a) = Place(0, Y(a), 1 - NtX(a), NtY(a), FineY(a), top)
      BY <1>1, <1>3, <1>5, <2>1, <2>2, <2>3, Sizes
    <3> QED  BY <1>1, <1>2, <1>6, <2>3, <3>1, Sizes, FieldsChange
  <2>4. CASE NtX(a) = 1
    <3>1. NextTile(a) = Place(0, Y(a), 1 - NtX(a), NtY(a), FineY(a), top)
      BY <1>1, <1>3, <1>5, <2>1, <2>2, <2>4, Sizes
    <3> QED  BY <1>1, <1>2, <1>6, <2>4, <3>1, Sizes, FieldsChange
  <2> QED  BY <1>1, <2>3, <2>4
<1>7. CASE X(a) # Columns - 1
  <2>1. NextTile(a) = a + 1
    BY <1>7 DEF NextTile
  <2>2. X(a) + 1 \in 0..(Columns - 1)
    BY <1>1, <1>7, Sizes
  <2>3. NextTile(a) = Place(X(a) + 1, Y(a), NtX(a), NtY(a), FineY(a), top)
    <3>1. Table * NtX(a) \in Nat
      BY <1>1, Sizes
    <3>2. Place(X(a) + 1, Y(a), NtX(a), NtY(a), FineY(a), top)
            = (X(a) + 1) + p + Table * NtX(a) + q + r + u
      BY <1>1, <1>4
    <3> QED  BY <1>1, <1>3, <1>5, <2>1, <3>1, <3>2
  <2> QED  BY <1>1, <1>2, <1>7, <2>2, <2>3, FieldsChange
<1> QED  BY <1>6, <1>7

\* The tile to the right, over two nametables side by side.
Column(a) == X(a) + Columns * NtX(a)

LEMMA ColumnRange ==
  ASSUME NEW a \in Nat
  PROVE  Column(a) \in 0..(2 * Columns - 1)
<1>1. X(a) \in 0..(Columns - 1) /\ NtX(a) \in 0..1
  BY PlaceOfFields
<1> QED  BY <1>1, Sizes DEF Column

\* A remainder after the step to the next number.
LEMMA NextMod ==
  ASSUME NEW n \in Nat, NEW m \in Nat \ {0}
  PROVE  /\ n % m < m - 1 => (n + 1) % m = (n % m) + 1 /\ (n + 1) \div m = n \div m
         /\ n % m = m - 1 => (n + 1) % m = 0 /\ (n + 1) \div m = (n \div m) + 1
<1> DEFINE q == n \div m
           d == n % m
<1>1. q \in Nat /\ d \in 0..(m - 1) /\ n = m * q + d /\ m * q \in Nat
  BY DivMod
<1> HIDE DEF q, d
<1>2. ASSUME d < m - 1
      PROVE  (n + 1) % m = d + 1 /\ (n + 1) \div m = q
  <2> DEFINE e == d + 1
  <2>1. e \in 0..(m - 1) /\ n + 1 = m * q + e
    BY <1>1, <1>2
  <2> HIDE DEF e
  <2>2. (m * q + e) \div m = q /\ (m * q + e) % m = e
    BY <1>1, <2>1, DivUnique
  <2> QED  BY <2>1, <2>2 DEF e
<1>3. ASSUME d = m - 1
      PROVE  (n + 1) % m = 0 /\ (n + 1) \div m = q + 1
  <2> PICK e \in 0..(m - 1) : e = 0
    OBVIOUS
  <2> DEFINE k == q + 1
  <2>1. k \in Nat /\ m * k = m * q + m
    BY <1>1
  <2> HIDE DEF k
  <2>2. (m * k + e) \div m = k /\ (m * k + e) % m = e
    BY <2>1, DivUnique
  <2>3. n + 1 = m * k + e
    BY <1>1, <1>3, <2>1
  <2> QED  BY <2>2, <2>3 DEF k
<1> QED  BY <1>2, <1>3 DEF q, d

\* A tile fetched moves V a column on, and only that.
LEMMA NextTileColumn ==
  ASSUME NEW a \in Nat, NEW n \in Nat, Column(a) = n % (2 * Columns)
  PROVE  /\ NextTile(a) \in Nat
         /\ Column(NextTile(a)) = (n + 1) % (2 * Columns)
         /\ Y(NextTile(a)) = Y(a) /\ NtY(NextTile(a)) = NtY(a)
         /\ FineY(NextTile(a)) = FineY(a)
         /\ a < Space => NextTile(a) < Space
         /\ a < WordCodes => NextTile(a) < WordCodes
<1> DEFINE b == NextTile(a)
           m == 2 * Columns
<1>1. X(a) \in 0..(Columns - 1) /\ NtX(a) \in 0..1 /\ Columns \in Nat \ {0} /\ m \in Nat \ {0}
  BY PlaceOfFields, Sizes
<1>2. /\ b \in Nat /\ Y(b) = Y(a) /\ NtY(b) = NtY(a) /\ FineY(b) = FineY(a)
      /\ a < Space => b < Space
      /\ a < WordCodes => b < WordCodes
      /\ X(b) = (IF X(a) = Columns - 1 THEN 0 ELSE X(a) + 1)
      /\ NtX(b) = (IF X(a) = Columns - 1 THEN 1 - NtX(a) ELSE NtX(a))
  BY NextTileMoves DEF Becomes
<1> HIDE DEF b
<1>3. m = 2 * Columns
  OBVIOUS
<1> HIDE DEF m
<1>4. /\ n % m < m - 1 => (n + 1) % m = (n % m) + 1
      /\ n % m = m - 1 => (n + 1) % m = 0
  BY <1>1, NextMod
<1>5. Column(a) = X(a) + Columns * NtX(a) /\ Column(b) = X(b) + Columns * NtX(b) /\ Column(a) = n % m
  BY <1>3 DEF Column
<1>6. CASE NtX(a) = 0
  <2>1. Column(a) = X(a) /\ n % m < m - 1
    BY <1>1, <1>3, <1>5, <1>6
  <2>2. Column(b) = X(a) + 1
    BY <1>1, <1>2, <1>5, <1>6
  <2> QED  BY <1>2, <1>3, <1>4, <1>5, <2>1, <2>2 DEF b
<1>7. CASE NtX(a) = 1
  <2>1. Column(a) = X(a) + Columns
    BY <1>1, <1>5, <1>7
  <2>2. Column(b) = IF X(a) = Columns - 1 THEN 0 ELSE X(a) + 1 + Columns
    BY <1>1, <1>2, <1>5, <1>7
  <2>3. Column(b) = (n + 1) % m
    BY <1>1, <1>3, <1>4, <1>5, <2>1, <2>2
  <2> QED  BY <1>2, <1>3, <2>3 DEF b
<1> QED  BY <1>1, <1>6, <1>7

\* So do k tiles.
SameRow(a, b) ==
  /\ b \in Nat /\ Y(b) = Y(a) /\ NtY(b) = NtY(a) /\ FineY(b) = FineY(a)
  /\ a < Space => b < Space
  /\ a < WordCodes => b < WordCodes

LEMMA TilesColumn ==
  ASSUME NEW a \in Nat
  PROVE  \A k \in Nat : /\ SameRow(a, Tiles(a, k))
                        /\ Column(Tiles(a, k)) = (Column(a) + k) % (2 * Columns)
<1> DEFINE c == Column(a)
           m == 2 * Columns
           Good(k) == SameRow(a, Tiles(a, k)) /\ Column(Tiles(a, k)) = (c + k) % m
           S == {k \in Nat : Good(k)}
<1>1. c \in 0..(m - 1) /\ m \in Nat \ {0}
  BY ColumnRange, Sizes
<1>2. 0 \in S
  <2>1. Tiles(a, 0) = a
    BY TilesStep
  <2>2. (c + 0) % m = c
    <3> HIDE DEF c, m
    <3> QED  BY <1>1
  <2>3. Good(0)
    BY <2>1, <2>2 DEF SameRow
  <2> HIDE DEF Good
  <2> QED  BY <2>3
<1>3. ASSUME NEW k \in Nat, k \in S
      PROVE  k + 1 \in S
  <2> DEFINE t0 == Tiles(a, k)
             t1 == Tiles(a, k + 1)
             n == c + k
  <2>1. SameRow(a, t0) /\ Column(t0) = n % m
    BY <1>3
  <2>2. t1 = NextTile(t0)
    BY TilesStep
  <2>3. n \in Nat /\ t0 \in Nat
    BY <1>1, <2>1 DEF SameRow
  <2> HIDE DEF t0, t1, n
  <2>4. SameRow(t0, t1) /\ Column(t1) = (n + 1) % m
    BY <2>1, <2>2, <2>3, NextTileColumn DEF SameRow
  <2>5. SameRow(a, t1)
    BY <2>1, <2>4 DEF SameRow
  <2>6. n + 1 = c + (k + 1)
    BY <1>1 DEF n
  <2>7. Good(k + 1)
    BY <2>4, <2>5, <2>6 DEF t1
  <2> HIDE DEF Good
  <2> QED  BY <2>7
<1> HIDE DEF S
<1>4. Nat \subseteq S
  BY <1>2, <1>3, SetInduction
<1> QED  BY <1>4 DEF S

\* The line a row of the screen is counted by.
RowLine(a) == FineY(a) + FineLines * Y(a)

\* One line down: a row of the tile, then the next row of tiles; from the picture's last
\* one into the other nametable, from the last of all to the first of the same one.
LEMMA YIncrementFields ==
  ASSUME NEW a \in Nat
  PROVE  /\ FineY(a) < FineLines - 1 =>
              Becomes(a, YIncrement(a), X(a), Y(a), NtX(a), NtY(a), FineY(a) + 1)
         /\ FineY(a) = FineLines - 1 /\ Y(a) = Rows - 1 =>
              Becomes(a, YIncrement(a), X(a), 0, NtX(a), 1 - NtY(a), 0)
         /\ FineY(a) = FineLines - 1 /\ Y(a) # Rows - 1 /\ Y(a) = RowCodes - 1 =>
              Becomes(a, YIncrement(a), X(a), 0, NtX(a), NtY(a), 0)
         /\ FineY(a) = FineLines - 1 /\ Y(a) # Rows - 1 /\ Y(a) # RowCodes - 1 =>
              Becomes(a, YIncrement(a), X(a), Y(a) + 1, NtX(a), NtY(a), 0)
<1>1. /\ X(a) \in 0..(Columns - 1) /\ Y(a) \in 0..(RowCodes - 1) /\ NtX(a) \in 0..1
      /\ NtY(a) \in 0..1 /\ FineY(a) \in 0..(FineLines - 1)
  BY PlaceOfFields
<1>2. PICK top \in Nat : a = Place(X(a), Y(a), NtX(a), NtY(a), FineY(a), top)
  BY PlaceOfFields
<1> DEFINE ey == Y(a)
           en == NtY(a)
           ef == FineY(a)
           rest == X(a) + Table * NtX(a) + Space * top
           c == Columns * ey
           g == Fine * ef
           h == (2 * Table) * en
<1>3. rest \in Int /\ c \in Int /\ g \in Int /\ h \in Int
  BY <1>1, Sizes
<1>4. ASSUME NEW yy \in Int, NEW nn \in Int, NEW ff \in Int
      PROVE  Place(X(a), yy, NtX(a), nn, ff, top)
               = rest + Columns * yy + (2 * Table) * nn + Fine * ff
  <2> DEFINE p == Columns * yy
             q == (2 * Table) * nn
             r == Fine * ff
             s == Table * NtX(a)
             u == Space * top
  <2>1. p \in Int /\ q \in Int /\ r \in Int /\ s \in Int /\ u \in Int /\ X(a) \in Int
    BY <1>1, Sizes
  <2>2. /\ Place(X(a), yy, NtX(a), nn, ff, top) = X(a) + p + s + q + r + u
        /\ rest = X(a) + s + u
    BY DEF Place
  <2> HIDE DEF p, q, r, s, u, rest
  <2>3. Place(X(a), yy, NtX(a), nn, ff, top) = rest + p + q + r
    BY <2>1, <2>2
  <2> QED  BY <2>3 DEF p, q, r
<1>5. a = rest + c + h + g
  BY <1>1, <1>2, <1>4
<1>6. /\ Columns * (ey + 1) = c + Columns /\ Columns * 0 = 0
      /\ Fine * (ef + 1) = g + Fine /\ Fine * 0 = 0
      /\ ey * Columns = c /\ ef * Fine = g
      /\ Columns \in Int /\ Fine \in Int /\ Table \in Int
  BY <1>1, Sizes
<1>7. /\ (2 * Table) * (1 - en) = h + (IF en = 0 THEN 2 * Table ELSE -2 * Table)
  BY <1>1, Sizes
<1> HIDE DEF rest, c, g, h, ey, en, ef
<1>8. /\ ey \in 0..(RowCodes - 1) /\ en \in 0..1 /\ ef \in 0..(FineLines - 1)
      /\ ey = Y(a) /\ en = NtY(a) /\ ef = FineY(a)
  BY <1>1 DEF ey, en, ef
<1>9. 0 \in 0..(RowCodes - 1) /\ 0 \in 0..(FineLines - 1) /\ 0 \in Int
  BY Sizes
<1>10. ASSUME ef < FineLines - 1
       PROVE  Becomes(a, YIncrement(a), X(a), ey, NtX(a), en, ef + 1)
  <2>1. YIncrement(a) = a + Fine
    BY <1>8, <1>10 DEF YIncrement
  <2>2. ef + 1 \in 0..(FineLines - 1) /\ ef + 1 \in Int /\ ey \in Int /\ en \in Int
    BY <1>8, <1>10, Sizes
  <2>3. Place(X(a), ey, NtX(a), en, ef + 1, top) = rest + c + h + Fine * (ef + 1)
    BY <1>4, <2>2 DEF c, h
  <2>4. YIncrement(a) = Place(X(a), ey, NtX(a), en, ef + 1, top)
    BY <1>3, <1>5, <1>6, <2>1, <2>3
  <2> QED  BY <1>1, <1>2, <1>8, <2>2, <2>4, FieldsChange
<1>11. ASSUME ef = FineLines - 1
       PROVE  a - FineY(a) * Fine = rest + c + h
  BY <1>3, <1>5, <1>6, <1>8
<1>12. ASSUME ef = FineLines - 1, ey = Rows - 1
       PROVE  Becomes(a, YIncrement(a), X(a), 0, NtX(a), 1 - en, 0)
  <2>1. YIncrement(a) = (a - FineY(a) * Fine) - Y(a) * Columns
                          + (IF NtY(a) = 0 THEN 2 * Table ELSE -2 * Table)
    BY <1>8, <1>12 DEF YIncrement
  <2>2. 1 - en \in 0..1 /\ 1 - en \in Int
    BY <1>8
  <2>3. Place(X(a), 0, NtX(a), 1 - en, 0, top) = rest + 0 + (2 * Table) * (1 - en) + 0
    BY <1>4, <1>6, <1>9, <2>2
  <2>4. YIncrement(a) = Place(X(a), 0, NtX(a), 1 - en, 0, top)
    <3>1. Y(a) * Columns = c /\ NtY(a) = en
      BY <1>6, <1>8
    <3> QED  BY <1>3, <1>6, <1>7, <1>11, <1>12, <2>1, <2>3, <3>1
  <2> QED  BY <1>1, <1>2, <1>9, <2>2, <2>4, FieldsChange
<1>13. ASSUME ef = FineLines - 1, ey # Rows - 1, ey = RowCodes - 1
       PROVE  Becomes(a, YIncrement(a), X(a), 0, NtX(a), en, 0)
  <2>1. YIncrement(a) = (a - FineY(a) * Fine) - Y(a) * Columns
    BY <1>8, <1>13 DEF YIncrement
  <2>2. Place(X(a), 0, NtX(a), en, 0, top) = rest + 0 + h + 0
    BY <1>4, <1>6, <1>8, <1>9 DEF h
  <2>3. YIncrement(a) = Place(X(a), 0, NtX(a), en, 0, top)
    <3>1. Y(a) * Columns = c
      BY <1>6, <1>8
    <3> QED  BY <1>3, <1>11, <1>13, <2>1, <2>2, <3>1
  <2> QED  BY <1>1, <1>2, <1>8, <1>9, <2>3, FieldsChange
<1>14. ASSUME ef = FineLines - 1, ey # Rows - 1, ey # RowCodes - 1
       PROVE  Becomes(a, YIncrement(a), X(a), ey + 1, NtX(a), en, 0)
  <2>1. YIncrement(a) = (a - FineY(a) * Fine) + Columns
    BY <1>8, <1>14 DEF YIncrement
  <2>2. ey + 1 \in 0..(RowCodes - 1) /\ ey + 1 \in Int
    BY <1>8, <1>14, Sizes
  <2>3. Place(X(a), ey + 1, NtX(a), en, 0, top) = rest + Columns * (ey + 1) + h + 0
    BY <1>4, <1>6, <1>8, <1>9, <2>2 DEF h
  <2>4. YIncrement(a) = Place(X(a), ey + 1, NtX(a), en, 0, top)
    BY <1>3, <1>6, <1>11, <1>14, <2>1, <2>3
  <2> QED  BY <1>1, <1>2, <1>8, <1>9, <2>2, <2>4, FieldsChange
<1> QED  BY <1>8, <1>10, <1>12, <1>13, <1>14

\* A number with a remainder is no multiple.
LEMMA MultipleOf ==
  ASSUME NEW m \in Nat \ {0}, NEW q \in Nat, NEW d \in 0..(m - 1), NEW k \in Nat, m * q + d = m * k
  PROVE  q = k /\ d = 0
<1> PICK e \in 0..(m - 1) : e = 0
  OBVIOUS
<1>1. (m * q + d) \div m = q /\ (m * q + d) % m = d
  BY DivUnique
<1>2. (m * k + e) \div m = k /\ (m * k + e) % m = e
  BY DivUnique
<1>3. m * k + e = m * k
  OBVIOUS
<1> QED  BY <1>1, <1>2, <1>3

\* From line n of nametable p to the next one.
RowMoves(p, n, q, m) ==
  /\ n = Rows * FineLines - 1 => q = 1 - p /\ m = 0
  /\ n # Rows * FineLines - 1 /\ n = RowCodes * FineLines - 1 => q = p /\ m = 0
  /\ n # Rows * FineLines - 1 /\ n # RowCodes * FineLines - 1 => q = p /\ m = n + 1

LEMMA YIncrementRow ==
  ASSUME NEW a \in Nat
  PROVE  /\ YIncrement(a) \in Nat
         /\ Column(YIncrement(a)) = Column(a)
         /\ a < Space => YIncrement(a) < Space
         /\ a < WordCodes => YIncrement(a) < WordCodes
         /\ RowMoves(NtY(a), RowLine(a), NtY(YIncrement(a)), RowLine(YIncrement(a)))
<1> DEFINE b == YIncrement(a)
           ey == Y(a)
           ef == FineY(a)
           line == FineLines * ey
           p == Rows * FineLines
           r == RowCodes * FineLines
<1>1. /\ ey \in 0..(RowCodes - 1) /\ ef \in 0..(FineLines - 1)
      /\ FineLines \in Nat \ {0} /\ Rows \in Nat /\ RowCodes \in Nat
  BY PlaceOfFields, Sizes, AddressAssumption
<1>2. line \in Nat /\ RowLine(a) = line + ef /\ p = FineLines * Rows /\ r = FineLines * RowCodes
      /\ FineLines * (ey + 1) = line + FineLines /\ FineLines * 0 = 0 /\ p \in Nat /\ r \in Nat
  BY <1>1 DEF RowLine
<1>3. /\ ef < FineLines - 1 => Becomes(a, b, X(a), ey, NtX(a), NtY(a), ef + 1)
      /\ ef = FineLines - 1 /\ ey = Rows - 1 => Becomes(a, b, X(a), 0, NtX(a), 1 - NtY(a), 0)
      /\ ef = FineLines - 1 /\ ey # Rows - 1 /\ ey = RowCodes - 1 =>
           Becomes(a, b, X(a), 0, NtX(a), NtY(a), 0)
      /\ ef = FineLines - 1 /\ ey # Rows - 1 /\ ey # RowCodes - 1 =>
           Becomes(a, b, X(a), ey + 1, NtX(a), NtY(a), 0)
  BY YIncrementFields
<1>4. ASSUME NEW nn, NEW yy, NEW ff, Becomes(a, b, X(a), yy, NtX(a), nn, ff)
      PROVE  /\ b \in Nat /\ Column(b) = Column(a) /\ NtY(b) = nn
             /\ a < Space => b < Space
             /\ a < WordCodes => b < WordCodes
             /\ RowLine(b) = ff + FineLines * yy
  BY <1>4 DEF Becomes, Column, RowLine
<1>5. ASSUME NEW k \in Nat, NEW d \in 0..(FineLines - 1), line + d = FineLines * k
      PROVE  ey = k /\ d = 0
  BY <1>1, <1>5, MultipleOf
<1> HIDE DEF b, ey, ef, line, p, r
<1>6. CASE ef < FineLines - 1
  <2>1. ef + 1 \in 0..(FineLines - 1) /\ ef + 1 # 0
    BY <1>1, <1>6
  <2>2. line + (ef + 1) # p /\ line + (ef + 1) # r
    BY <1>1, <1>2, <1>5, <2>1
  <2>3. RowLine(a) # p - 1 /\ RowLine(a) # r - 1
    BY <1>1, <1>2, <2>2
  <2>4. /\ b \in Nat /\ Column(b) = Column(a) /\ NtY(b) = NtY(a)
        /\ a < Space => b < Space
        /\ a < WordCodes => b < WordCodes
        /\ RowLine(b) = ef + 1 + line
    BY <1>3, <1>4, <1>6 DEF line
  <2>5. RowLine(b) = RowLine(a) + 1
    BY <1>1, <1>2, <2>4
  <2> QED  BY <2>3, <2>4, <2>5 DEF RowMoves, b, p, r
<1>7. CASE ef = FineLines - 1
  <2>1. RowLine(a) = FineLines * (ey + 1) - 1
    BY <1>1, <1>2, <1>7
  <2>2. ASSUME NEW k \in Nat, FineLines * (ey + 1) = FineLines * k
        PROVE  ey = k - 1
    <3>1. 0 \in 0..(FineLines - 1) /\ ey + 1 \in Nat
      BY <1>1
    <3>2. FineLines * (ey + 1) + 0 = FineLines * k
      BY <1>1, <1>2, <2>2
    <3>3. ey + 1 = k
      BY <1>1, <3>1, <3>2, MultipleOf
    <3> QED  BY <1>1, <3>3
  <2>3. RowLine(a) = p - 1 <=> ey = Rows - 1
    <3>1. ASSUME RowLine(a) = p - 1 PROVE ey = Rows - 1
      BY <1>1, <1>2, <2>1, <2>2, <3>1
    <3>2. ASSUME ey = Rows - 1 PROVE RowLine(a) = p - 1
      <4>1. ey + 1 = Rows
        BY <1>1, <3>2
      <4> QED  BY <1>2, <2>1, <4>1
    <3> QED  BY <3>1, <3>2
  <2>4. RowLine(a) = r - 1 <=> ey = RowCodes - 1
    <3>1. ASSUME RowLine(a) = r - 1 PROVE ey = RowCodes - 1
      BY <1>1, <1>2, <2>1, <2>2, <3>1
    <3>2. ASSUME ey = RowCodes - 1 PROVE RowLine(a) = r - 1
      <4>1. ey + 1 = RowCodes
        BY <1>1, <3>2
      <4> QED  BY <1>2, <2>1, <4>1
    <3> QED  BY <3>1, <3>2
  <2>5. CASE ey = Rows - 1
    <3>1. /\ b \in Nat /\ Column(b) = Column(a) /\ NtY(b) = 1 - NtY(a)
          /\ a < Space => b < Space
          /\ a < WordCodes => b < WordCodes
          /\ RowLine(b) = 0 + FineLines * 0
      BY <1>3, <1>4, <1>7, <2>5
    <3>2. RowLine(b) = 0
      BY <1>2, <3>1
    <3> QED  BY <2>3, <2>5, <3>1, <3>2 DEF RowMoves, b, p, r
  <2>6. CASE ey # Rows - 1 /\ ey = RowCodes - 1
    <3>1. /\ b \in Nat /\ Column(b) = Column(a) /\ NtY(b) = NtY(a)
          /\ a < Space => b < Space
          /\ a < WordCodes => b < WordCodes
          /\ RowLine(b) = 0 + FineLines * 0
      BY <1>3, <1>4, <1>7, <2>6
    <3>2. RowLine(b) = 0
      BY <1>2, <3>1
    <3> QED  BY <2>3, <2>4, <2>6, <3>1, <3>2 DEF RowMoves, b, p, r
  <2>7. CASE ey # Rows - 1 /\ ey # RowCodes - 1
    <3>1. /\ b \in Nat /\ Column(b) = Column(a) /\ NtY(b) = NtY(a)
          /\ a < Space => b < Space
          /\ a < WordCodes => b < WordCodes
          /\ RowLine(b) = 0 + FineLines * (ey + 1)
      BY <1>3, <1>4, <1>7, <2>7
    <3>2. RowLine(b) = RowLine(a) + 1
      BY <1>1, <1>2, <2>1, <3>1
    <3> QED  BY <2>3, <2>4, <2>7, <3>1, <3>2 DEF RowMoves, b, p, r
  <2> QED  BY <2>5, <2>6, <2>7
<1> QED  BY <1>1, <1>6, <1>7

\* Down a stack of pictures: line i of the stack, counted in nametable p.
LEMMA PagesStep ==
  ASSUME NEW p \in 0..1, NEW i \in Nat, NEW q, NEW m,
         RowMoves((p + i \div (Rows * FineLines)) % 2, i % (Rows * FineLines), q, m)
  PROVE  /\ q = (p + (i + 1) \div (Rows * FineLines)) % 2
         /\ m = (i + 1) % (Rows * FineLines)
<1> DEFINE l == Rows * FineLines
           r == RowCodes * FineLines
           d == i \div l
           e == i % l
           d1 == (i + 1) \div l
           e1 == (i + 1) % l
<1>1. l \in Nat \ {0} /\ r \in Nat /\ l <= r
  <2>1. FineLines \in Nat \ {0} /\ Rows \in Nat \ {0} /\ RowCodes \in Nat /\ Rows <= RowCodes
    BY AddressAssumption
  <2>2. l = FineLines * Rows /\ r = FineLines * RowCodes
    BY <2>1
  <2>3. /\ FineLines * Rows <= FineLines * RowCodes /\ FineLines * 1 <= FineLines * Rows
        /\ FineLines * Rows \in Nat /\ FineLines * RowCodes \in Nat
    BY <2>1, TimesGrows
  <2> HIDE DEF l, r
  <2> QED  BY <2>1, <2>2, <2>3
<1>2. RowMoves((p + d) % 2, e, q, m)
  OBVIOUS
<1> HIDE DEF l
<1>3. d \in Nat /\ e \in 0..(l - 1)
  BY <1>1, DivMod
<1>4. /\ e < l - 1 => e1 = e + 1 /\ d1 = d
      /\ e = l - 1 => e1 = 0 /\ d1 = d + 1
  BY <1>1, NextMod
<1> HIDE DEF d, e, d1, e1, r
<1>5. CASE e < l - 1
  <2>1. e # l - 1 /\ e # r - 1
    BY <1>1, <1>3, <1>5
  <2>2. q = (p + d) % 2 /\ m = e + 1
    BY <1>2, <2>1 DEF RowMoves, l, r
  <2>3. q = (p + d1) % 2 /\ m = e1
    BY <1>4, <1>5, <2>2
  <2> QED  BY <2>3 DEF d1, e1, l
<1>6. CASE e = l - 1
  <2>1. q = 1 - ((p + d) % 2) /\ m = 0
    BY <1>2, <1>6 DEF RowMoves, l
  <2>2. (p + (d + 1)) % 2 = 1 - ((p + d) % 2)
    BY <1>3
  <2>3. q = (p + d1) % 2 /\ m = e1
    BY <1>4, <1>6, <2>1, <2>2
  <2> QED  BY <2>3 DEF d1, e1, l
<1> QED  BY <1>1, <1>3, <1>5, <1>6

\* BelowOf, its cases apart.
LEMMA BelowCases ==
  ASSUME NEW a \in Nat, NEW k \in Nat
  PROVE  /\ NtY(a) \in 0..1 /\ RowLine(a) \in 0..(RowCodes * FineLines - 1)
         /\ Y(a) >= Rows <=> RowLine(a) >= Rows * FineLines
         /\ Y(a) >= Rows /\ k < RowCodes * FineLines - RowLine(a) =>
              BelowOf(a, k) = <<NtY(a), RowLine(a) + k>>
         /\ Y(a) >= Rows /\ k >= RowCodes * FineLines - RowLine(a) =>
              BelowOf(a, k) = <<(NtY(a) + (k - (RowCodes * FineLines - RowLine(a)))
                                          \div (Rows * FineLines)) % 2,
                                (k - (RowCodes * FineLines - RowLine(a))) % (Rows * FineLines)>>
         /\ Y(a) < Rows => BelowOf(a, k) = <<(NtY(a) + (RowLine(a) + k) \div (Rows * FineLines)) % 2,
                                             (RowLine(a) + k) % (Rows * FineLines)>>
<1> DEFINE ey == Y(a)
           ef == FineY(a)
           here == ef + ey * FineLines
           spent == RowCodes * FineLines - here
<1>1. /\ ey \in 0..(RowCodes - 1) /\ ef \in 0..(FineLines - 1) /\ NtY(a) \in 0..1
      /\ FineLines \in Nat \ {0} /\ Rows \in Nat \ {0} /\ RowCodes \in Nat \ {0}
  BY PlaceOfFields, Sizes, AddressAssumption
<1>2. here = RowLine(a) /\ here \in Nat
  BY <1>1 DEF RowLine
<1>3. BelowOf(a, k) =
        IF Y(a) >= Rows /\ k < spent THEN <<NtY(a), here + k>>
        ELSE <<(NtY(a) + ((IF Y(a) >= Rows THEN 0 ELSE here)
                            + (IF Y(a) >= Rows THEN k - spent ELSE k)) \div (Rows * FineLines)) % 2,
               ((IF Y(a) >= Rows THEN 0 ELSE here)
                            + (IF Y(a) >= Rows THEN k - spent ELSE k)) % (Rows * FineLines)>>
  BY DEF BelowOf
<1>4. here \in 0..(RowCodes * FineLines - 1)
  <2>1. ef + FineLines * ey \in 0..(FineLines * RowCodes - 1)
    BY <1>1, TwoDigits
  <2>2. here = ef + FineLines * ey /\ FineLines * RowCodes = RowCodes * FineLines
    BY <1>1
  <2> QED  BY <2>1, <2>2
<1>5. Y(a) >= Rows <=> here >= Rows * FineLines
  <2>1. ASSUME ey >= Rows PROVE here >= Rows * FineLines
    <3>1. /\ FineLines * Rows <= FineLines * ey /\ FineLines * Rows \in Nat
          /\ FineLines * ey \in Nat
      BY <1>1, <2>1, TimesGrows
    <3>2. here = ef + FineLines * ey /\ Rows * FineLines = FineLines * Rows
      BY <1>1
    <3> QED  BY <1>1, <3>1, <3>2
  <2>2. ASSUME ~(ey >= Rows) PROVE ~(here >= Rows * FineLines)
    <3>1. ey + 1 <= Rows /\ ey + 1 \in Nat
      BY <1>1, <2>2
    <3>2. /\ FineLines * (ey + 1) <= FineLines * Rows /\ FineLines * Rows \in Nat
          /\ FineLines * (ey + 1) \in Nat
      BY <1>1, <3>1, TimesGrows
    <3>3. /\ here = ef + FineLines * ey /\ Rows * FineLines = FineLines * Rows
          /\ FineLines * (ey + 1) = FineLines * ey + FineLines /\ FineLines * ey \in Nat
      BY <1>1
    <3> QED  BY <1>1, <3>2, <3>3
  <2> QED  BY <2>1, <2>2
<1>6. ASSUME Y(a) >= Rows, k < spent
      PROVE  BelowOf(a, k) = <<NtY(a), here + k>>
  <2> HIDE DEF here, spent
  <2> QED  BY <1>3, <1>6
<1>7. ASSUME Y(a) >= Rows, k >= spent
      PROVE  BelowOf(a, k) = <<(NtY(a) + (k - spent) \div (Rows * FineLines)) % 2,
                               (k - spent) % (Rows * FineLines)>>
  <2>1. spent \in Int /\ 0 + (k - spent) = k - spent /\ ~(k < spent)
    BY <1>1, <1>2, <1>7
  <2> HIDE DEF here, spent
  <2>2. BelowOf(a, k) = <<(NtY(a) + (0 + (k - spent)) \div (Rows * FineLines)) % 2,
                          (0 + (k - spent)) % (Rows * FineLines)>>
    BY <1>3, <1>7, <2>1
  <2> QED  BY <2>1, <2>2
<1>8. ASSUME Y(a) < Rows
      PROVE  BelowOf(a, k) = <<(NtY(a) + (here + k) \div (Rows * FineLines)) % 2,
                               (here + k) % (Rows * FineLines)>>
  <2>1. ~(Y(a) >= Rows)
    BY <1>1, <1>8
  <2> HIDE DEF here, spent
  <2> QED  BY <1>3, <2>1
<1> HIDE DEF here, ey, ef
<1> QED  BY <1>1, <1>2, <1>4, <1>5, <1>6, <1>7, <1>8 DEF ey

\* A line more below T is a Y increment more.
LEMMA BelowStep ==
  ASSUME NEW z \in Nat, NEW k \in Nat, NEW a \in Nat, <<NtY(a), RowLine(a)>> = BelowOf(z, k)
  PROVE  <<NtY(YIncrement(a)), RowLine(YIncrement(a))>> = BelowOf(z, k + 1)
<1> DEFINE p == NtY(z)
           here == RowLine(z)
           l == Rows * FineLines
           r == RowCodes * FineLines
           q == NtY(YIncrement(a))
           m == RowLine(YIncrement(a))
<1>1. /\ p \in 0..1 /\ here \in 0..(r - 1) /\ Y(z) \in Nat /\ Rows \in Nat /\ r \in Nat
      /\ Y(z) >= Rows <=> here >= l
  <2>1. Rows \in Nat /\ RowCodes \in Nat /\ FineLines \in Nat /\ Y(z) \in Nat
    BY AddressAssumption, PlaceOfFields
  <2>2. r \in Nat
    BY <2>1
  <2>3. p \in 0..1 /\ here \in 0..(r - 1) /\ (Y(z) >= Rows <=> here >= l)
    BY BelowCases
  <2> QED  BY <2>1, <2>2, <2>3
<1>2. k + 1 \in Nat
  OBVIOUS
<1>3. RowMoves(NtY(a), RowLine(a), q, m)
  BY YIncrementRow
<1>4. CASE Y(z) >= Rows /\ k + 1 < r - here
  <2>1. k < r - here
    BY <1>1, <1>4
  <2>2. BelowOf(z, k) = <<p, here + k>>
    BY <1>4, <2>1, BelowCases
  <2>3. BelowOf(z, k + 1) = <<p, here + (k + 1)>>
    BY <1>2, <1>4, BelowCases
  <2>4. NtY(a) = p /\ RowLine(a) = here + k
    BY <2>2
  <2> HIDE DEF p, here, l, r, q, m
  <2>5. l \in Int
    BY AddressAssumption DEF l
  <2>6. here + k # l - 1 /\ here + k # r - 1
    BY <1>1, <1>4, <2>5
  <2>7. q = p /\ m = (here + k) + 1
    BY <1>3, <2>4, <2>6 DEF RowMoves, l, r
  <2>8. m = here + (k + 1)
    BY <1>1, <2>7
  <2> QED  BY <2>3, <2>7, <2>8 DEF q, m
<1>5. CASE Y(z) >= Rows /\ k + 1 = r - here
  <2>1. k < r - here /\ k + 1 >= r - here /\ (k + 1) - (r - here) = 0
    BY <1>1, <1>5
  <2>2. BelowOf(z, k) = <<p, here + k>>
    BY <1>5, <2>1, BelowCases
  <2>3. BelowOf(z, k + 1) = <<(p + ((k + 1) - (r - here)) \div l) % 2, ((k + 1) - (r - here)) % l>>
    BY <1>2, <1>5, <2>1, BelowCases
  <2>4. NtY(a) = p /\ RowLine(a) = here + k
    BY <2>2
  <2> HIDE DEF p, here, r, q, m
  <2>5. l \in Nat \ {0}
    BY AddressAssumption, TimesGrows
  <2>6. here + k # l - 1 /\ here + k = r - 1
    <3> HIDE DEF l
    <3> QED  BY <1>1, <1>5, <2>5
  <2>7. q = p /\ m = 0
    BY <1>3, <2>4, <2>6 DEF RowMoves, r
  <2>8. (p + 0 \div l) % 2 = p /\ 0 % l = 0
    <3> HIDE DEF l
    <3>1. 0 \div l = 0 /\ 0 % l = 0
      BY <2>5
    <3> QED  BY <1>1, <3>1
  <2> QED  BY <2>1, <2>3, <2>7, <2>8 DEF q, m
<1>6. ASSUME NEW j \in Nat, Y(z) >= Rows, j >= r - here
      PROVE  BelowOf(z, j) = <<(p + (j - (r - here)) \div l) % 2, (j - (r - here)) % l>>
  BY <1>6, BelowCases
<1>10. ASSUME NEW i \in Nat, BelowOf(z, k) = <<(p + i \div l) % 2, i % l>>
      PROVE  <<q, m>> = <<(p + (i + 1) \div l) % 2, (i + 1) % l>>
  <2>1. NtY(a) = (p + i \div l) % 2 /\ RowLine(a) = i % l
    BY <1>10
  <2>2. RowMoves((p + i \div l) % 2, i % l, q, m)
    BY <1>3, <2>1
  <2> HIDE DEF p, q, m
  <2> QED  BY <1>1, <2>2, PagesStep
<1>7. CASE Y(z) >= Rows /\ k + 1 > r - here
  <2> DEFINE i == k - (r - here)
  <2>1. i \in Nat /\ k >= r - here /\ k + 1 >= r - here /\ (k + 1) - (r - here) = i + 1
    BY <1>1, <1>7
  <2>2. BelowOf(z, k) = <<(p + i \div l) % 2, i % l>>
    BY <1>7, <2>1, BelowCases
  <2>3. BelowOf(z, k + 1) = <<(p + ((k + 1) - (r - here)) \div l) % 2, ((k + 1) - (r - here)) % l>>
    <3> HIDE DEF i
    <3>1. Y(z) >= Rows /\ k + 1 >= r - here
      BY <1>7, <2>1
    <3> QED  BY <1>2, <1>6, <3>1
  <2>4. <<q, m>> = <<(p + (i + 1) \div l) % 2, (i + 1) % l>>
    BY <1>10, <2>1, <2>2
  <2> QED  BY <2>1, <2>3, <2>4
<1>8. CASE Y(z) < Rows
  <2> DEFINE i == here + k
  <2>1. i \in Nat /\ here + (k + 1) = i + 1
    BY <1>1
  <2>2. BelowOf(z, k) = <<(p + i \div l) % 2, i % l>>
    BY <1>8, BelowCases
  <2>3. BelowOf(z, k + 1) = <<(p + (here + (k + 1)) \div l) % 2, (here + (k + 1)) % l>>
    BY <1>2, <1>8, BelowCases
  <2>4. <<q, m>> = <<(p + (i + 1) \div l) % 2, (i + 1) % l>>
    BY <1>10, <2>1, <2>2
  <2> QED  BY <2>1, <2>3, <2>4
<1>9. \/ Y(z) < Rows
      \/ Y(z) >= Rows /\ k + 1 < r - here
      \/ Y(z) >= Rows /\ k + 1 = r - here
      \/ Y(z) >= Rows /\ k + 1 > r - here
  <2> HIDE DEF here, r
  <2> QED  BY <1>1
<1> QED  BY <1>4, <1>5, <1>7, <1>8, <1>9

\* No line below is T's own row.
LEMMA BelowNone ==
  ASSUME NEW a \in Nat
  PROVE  BelowOf(a, 0) = <<NtY(a), RowLine(a)>>
<1> DEFINE p == NtY(a)
           here == RowLine(a)
           l == Rows * FineLines
           r == RowCodes * FineLines
<1>1. /\ p \in 0..1 /\ here \in 0..(r - 1) /\ Y(a) \in Nat /\ Rows \in Nat
      /\ Y(a) >= Rows <=> here >= l
  <2>1. Y(a) \in Nat /\ Rows \in Nat
    BY PlaceOfFields, AddressAssumption
  <2>2. p \in 0..1 /\ here \in 0..(r - 1) /\ (Y(a) >= Rows <=> here >= l)
    BY BelowCases
  <2> QED  BY <2>1, <2>2
<1>2. r \in Nat /\ l \in Nat
  BY AddressAssumption
<1>3. CASE Y(a) >= Rows
  <2>1. 0 < r - here /\ here + 0 = here
    BY <1>1, <1>2
  <2>2. BelowOf(a, 0) = <<p, here + 0>>
    BY <1>3, <2>1, BelowCases
  <2> QED  BY <2>1, <2>2
<1>4. CASE Y(a) < Rows
  <2>1. BelowOf(a, 0) = <<(p + (here + 0) \div l) % 2, (here + 0) % l>>
    BY <1>4, BelowCases
  <2> HIDE DEF here, l, r, p
  <2>2. here \in 0..(l - 1) /\ l \in Nat \ {0} /\ here + 0 = here
    BY <1>1, <1>2, <1>4
  <2>3. here \div l = 0 /\ here % l = here
    BY <2>2
  <2>4. (p + 0) % 2 = p
    BY <1>1
  <2>5. BelowOf(a, 0) = <<p, here>>
    BY <2>1, <2>2, <2>3, <2>4
  <2> QED  BY <2>5 DEF p, here
<1> QED  BY <1>1, <1>3, <1>4

-----------------------------------------------------------------------------
(* What the program and the end of a line put into an address.             *)

\* Differences of fields, added to an address, replace its fields.
LEMMA FieldsReplaced ==
  ASSUME NEW a \in Nat, NEW x \in 0..(Columns - 1), NEW y \in 0..(RowCodes - 1),
         NEW nx \in 0..1, NEW ny \in 0..1, NEW fy \in 0..(FineLines - 1)
  PROVE  Becomes(a, a + (x - X(a)) + Columns * (y - Y(a)) + Table * (nx - NtX(a))
                      + (2 * Table) * (ny - NtY(a)) + Fine * (fy - FineY(a)), x, y, nx, ny, fy)
<1>1. /\ X(a) \in 0..(Columns - 1) /\ Y(a) \in 0..(RowCodes - 1) /\ NtX(a) \in 0..1
      /\ NtY(a) \in 0..1 /\ FineY(a) \in 0..(FineLines - 1)
  BY PlaceOfFields
<1>2. PICK top \in Nat : a = Place(X(a), Y(a), NtX(a), NtY(a), FineY(a), top)
  BY PlaceOfFields
<1>3. \A m \in Int, d, e \in Int : m * (d - e) = m * d - m * e /\ m * d \in Int
  OBVIOUS
<1> DEFINE ax == X(a)
           ay == Y(a)
           an == NtX(a)
           am == NtY(a)
           af == FineY(a)
           u == Space * top
           y0 == Columns * ay
           y1 == Columns * y
           n0 == Table * an
           n1 == Table * nx
           m0 == (2 * Table) * am
           m1 == (2 * Table) * ny
           f0 == Fine * af
           f1 == Fine * fy
           b == a + (x - ax) + Columns * (y - ay) + Table * (nx - an)
                  + (2 * Table) * (ny - am) + Fine * (fy - af)
<1>4. a = ax + y0 + n0 + m0 + f0 + u
  BY <1>2 DEF Place
<1>5. Place(x, y, nx, ny, fy, top) = x + y1 + n1 + m1 + f1 + u
  BY DEF Place
<1>6. /\ Columns * (y - ay) = y1 - y0 /\ Table * (nx - an) = n1 - n0
      /\ (2 * Table) * (ny - am) = m1 - m0 /\ Fine * (fy - af) = f1 - f0
  <2>1. /\ Columns \in Int /\ Table \in Int /\ 2 * Table \in Int /\ Fine \in Int
        /\ y \in Int /\ ay \in Int /\ nx \in Int /\ an \in Int /\ ny \in Int /\ am \in Int
        /\ fy \in Int /\ af \in Int
    BY <1>1, Sizes
  <2> HIDE DEF ay, an, am, af
  <2>2. Columns * (y - ay) = y1 - y0
    BY <1>3, <2>1
  <2>3. Table * (nx - an) = n1 - n0
    BY <1>3, <2>1
  <2>4. (2 * Table) * (ny - am) = m1 - m0
    <3> DEFINE s == 2 * Table
    <3>1. s \in Int
      BY <2>1
    <3> HIDE DEF s
    <3>2. s * (ny - am) = s * ny - s * am
      BY <1>3, <2>1, <3>1
    <3> QED  BY <3>2 DEF s
  <2>5. Fine * (fy - af) = f1 - f0
    BY <1>3, <2>1
  <2> QED  BY <2>2, <2>3, <2>4, <2>5
<1>7. /\ y0 \in Int /\ y1 \in Int /\ n0 \in Int /\ n1 \in Int /\ m0 \in Int /\ m1 \in Int
      /\ f0 \in Int /\ f1 \in Int /\ u \in Int /\ ax \in Int
  BY <1>1, Sizes
<1>8. b = a + (x - ax) + (y1 - y0) + (n1 - n0) + (m1 - m0) + (f1 - f0)
  BY <1>6
<1> HIDE DEF ax, u, y0, y1, n0, n1, m0, m1, f0, f1, b
<1>9. b = Place(x, y, nx, ny, fy, top)
  BY <1>4, <1>5, <1>7, <1>8
<1>10. Becomes(a, b, x, y, nx, ny, fy)
  BY <1>2, <1>9, FieldsChange
<1> QED  BY <1>10 DEF b, ax

\* copy_horizontal_bits()
LEMMA HorizontalMoves ==
  ASSUME NEW a \in Nat, NEW from \in Nat
  PROVE  /\ Horizontal(a, from) \in Nat
         /\ Column(Horizontal(a, from)) = Column(from)
         /\ NtY(Horizontal(a, from)) = NtY(a)
         /\ RowLine(Horizontal(a, from)) = RowLine(a)
         /\ a < WordCodes => Horizontal(a, from) < WordCodes
<1>1. /\ X(from) \in 0..(Columns - 1) /\ NtX(from) \in 0..1
      /\ X(a) \in 0..(Columns - 1) /\ NtX(a) \in 0..1
      /\ Y(a) \in 0..(RowCodes - 1) /\ NtY(a) \in 0..1 /\ FineY(a) \in 0..(FineLines - 1)
  BY PlaceOfFields
<1> DEFINE b == Horizontal(a, from)
           d == Table * (NtX(from) - NtX(a))
<1>2. d \in Int
  BY <1>1, Sizes
<1>3. /\ Columns * (Y(a) - Y(a)) = 0 /\ (2 * Table) * (NtY(a) - NtY(a)) = 0
      /\ Fine * (FineY(a) - FineY(a)) = 0
  BY <1>1, Sizes
<1>4. a + (X(from) - X(a)) + Columns * (Y(a) - Y(a)) + d
        + (2 * Table) * (NtY(a) - NtY(a)) + Fine * (FineY(a) - FineY(a))
        = a + (X(from) - X(a)) + d
  <2> HIDE DEF d
  <2> QED  BY <1>1, <1>2, <1>3
<1>5. b = a + (X(from) - X(a)) + d
  BY <1>1, <1>2 DEF Horizontal
<1>6. Becomes(a, b, X(from), Y(a), NtX(from), NtY(a), FineY(a))
  BY <1>1, <1>4, <1>5, FieldsReplaced
<1> HIDE DEF b
<1>7. /\ b \in Nat /\ Column(b) = Column(from) /\ NtY(b) = NtY(a) /\ RowLine(b) = RowLine(a)
      /\ a < WordCodes => b < WordCodes
  BY <1>6 DEF Becomes, Column, RowLine
<1> QED  BY <1>7 DEF b

\* $2000: the nametable bits.
LEMMA CtrlKeepsSpace ==
  ASSUME NEW a \in 0..(Space - 1), NEW nt \in 0..3
  PROVE  a + Table * (nt - NtX(a) - 2 * NtY(a)) \in 0..(Space - 1)
<1>0. a \in Nat /\ a < Space
  BY Sizes
<1>1. /\ X(a) \in 0..(Columns - 1) /\ Y(a) \in 0..(RowCodes - 1) /\ NtX(a) \in 0..1
      /\ NtY(a) \in 0..1 /\ FineY(a) \in 0..(FineLines - 1)
  BY <1>0, PlaceOfFields
<1>2. PICK nx \in 0..1, ny \in 0..1 : nt = nx + 2 * ny
  <2>1. CASE nt = 0
    <3>1. 0 \in 0..1 /\ nt = 0 + 2 * 0
      BY <2>1
    <3> QED  BY <3>1
  <2>2. CASE nt = 1
    <3>1. 0 \in 0..1 /\ 1 \in 0..1 /\ nt = 1 + 2 * 0
      BY <2>2
    <3> QED  BY <3>1
  <2>3. CASE nt = 2
    <3>1. 0 \in 0..1 /\ 1 \in 0..1 /\ nt = 0 + 2 * 1
      BY <2>3
    <3> QED  BY <3>1
  <2>4. CASE nt = 3
    <3>1. 1 \in 0..1 /\ nt = 1 + 2 * 1
      BY <2>4
    <3> QED  BY <3>1
  <2> QED  BY <2>1, <2>2, <2>3, <2>4
<1> DEFINE dx == X(a) - X(a)
           dy == Columns * (Y(a) - Y(a))
           dn == Table * (nx - NtX(a))
           dm == (2 * Table) * (ny - NtY(a))
           df == Fine * (FineY(a) - FineY(a))
           b == a + dx + dy + dn + dm + df
<1>3. b \in Nat /\ b < Space
  <2>1. Becomes(a, b, X(a), Y(a), nx, ny, FineY(a))
    BY <1>0, <1>1, FieldsReplaced
  <2> QED  BY <1>0, <2>1 DEF Becomes
<1>4. dx = 0 /\ dy = 0 /\ df = 0 /\ dn \in Int /\ dm \in Int
  BY <1>1, Sizes
<1>5. Table * (nt - NtX(a) - 2 * NtY(a)) = dn + dm
  BY <1>1, <1>2, Sizes
<1> HIDE DEF dx, dy, dn, dm, df
<1>6. b = a + (dn + dm)
  BY <1>0, <1>4
<1> HIDE DEF b
<1> QED  BY <1>3, <1>5, <1>6, Sizes

\* The first write to $2005: coarse X.
LEMMA ScrollXKeepsSpace ==
  ASSUME NEW a \in 0..(Space - 1), NEW d \in 0..(Columns - 1)
  PROVE  a - X(a) + d \in 0..(Space - 1)
<1>0. a \in Nat /\ a < Space
  BY Sizes
<1>1. /\ X(a) \in 0..(Columns - 1) /\ Y(a) \in 0..(RowCodes - 1) /\ NtX(a) \in 0..1
      /\ NtY(a) \in 0..1 /\ FineY(a) \in 0..(FineLines - 1)
  BY <1>0, PlaceOfFields
<1> DEFINE dy == Columns * (Y(a) - Y(a))
           dn == Table * (NtX(a) - NtX(a))
           dm == (2 * Table) * (NtY(a) - NtY(a))
           df == Fine * (FineY(a) - FineY(a))
           b == a + (d - X(a)) + dy + dn + dm + df
<1>2. b \in Nat /\ b < Space
  <2>1. Becomes(a, b, d, Y(a), NtX(a), NtY(a), FineY(a))
    BY <1>0, <1>1, FieldsReplaced
  <2> QED  BY <1>0, <2>1 DEF Becomes
<1>3. dy = 0 /\ dn = 0 /\ dm = 0 /\ df = 0
  BY <1>1, Sizes
<1> HIDE DEF dy, dn, dm, df
<1>4. b = a - X(a) + d
  BY <1>0, <1>1, <1>3
<1> HIDE DEF b
<1> QED  BY <1>2, <1>4, Sizes

\* The second: coarse and fine Y.
LEMMA ScrollYKeepsSpace ==
  ASSUME NEW a \in 0..(Space - 1), NEW d \in 0..(RowCodes - 1), NEW e \in 0..(FineLines - 1)
  PROVE  a + Columns * (d - Y(a)) + Fine * (e - FineY(a)) \in 0..(Space - 1)
<1>0. a \in Nat /\ a < Space
  BY Sizes
<1>1. /\ X(a) \in 0..(Columns - 1) /\ Y(a) \in 0..(RowCodes - 1) /\ NtX(a) \in 0..1
      /\ NtY(a) \in 0..1 /\ FineY(a) \in 0..(FineLines - 1)
  BY <1>0, PlaceOfFields
<1> DEFINE dx == X(a) - X(a)
           dy == Columns * (d - Y(a))
           dn == Table * (NtX(a) - NtX(a))
           dm == (2 * Table) * (NtY(a) - NtY(a))
           df == Fine * (e - FineY(a))
           b == a + dx + dy + dn + dm + df
<1>2. b \in Nat /\ b < Space
  <2>1. Becomes(a, b, X(a), d, NtX(a), NtY(a), e)
    BY <1>0, <1>1, FieldsReplaced
  <2> QED  BY <1>0, <2>1 DEF Becomes
<1>3. dx = 0 /\ dn = 0 /\ dm = 0 /\ dy \in Int /\ df \in Int
  BY <1>1, Sizes
<1>4. a + Columns * (d - Y(a)) + Fine * (e - FineY(a)) = a + dy + df
  OBVIOUS
<1> HIDE DEF dx, dy, dn, dm, df
<1>5. b = a + dy + df
  BY <1>0, <1>3
<1> HIDE DEF b
<1> QED  BY <1>2, <1>4, <1>5, Sizes

\* $2006: six bits above the low byte, then the low byte.
LEMMA AddrKeepsSpace ==
  ASSUME NEW a \in 0..(Space - 1)
  PROVE  /\ \A high \in Nat : (a % LowCodes) + LowCodes * HighBits(high) \in 0..(Space - 1)
         /\ \A low \in 0..(LowCodes - 1) : a - (a % LowCodes) + low \in 0..(Space - 1)
<1>0. a \in Nat /\ a < Space /\ LowCodes \in Nat \ {0} /\ Space \in Nat \ {0}
      /\ Space % (2 * LowCodes) = 0 /\ 2 * LowCodes \in Nat \ {0}
  BY Sizes, AddressAssumption
<1> DEFINE m == 2 * LowCodes
           half == Space \div m
           d == a % LowCodes
           q == a \div LowCodes
<1>1. half \in Nat /\ Space = m * half + (Space % m)
  BY <1>0, DivMod
<1>2. Space = m * half /\ half \in Nat \ {0}
  <2>1. Space = m * half + 0
    BY <1>0, <1>1
  <2> HIDE DEF half
  <2>2. m * half \in Nat /\ Space = m * half
    BY <1>0, <1>1, <2>1
  <2>3. half # 0
    BY <1>0, <2>2
  <2> QED  BY <1>1, <2>2, <2>3
<1>3. d \in 0..(LowCodes - 1) /\ q \in Nat /\ a = LowCodes * q + d /\ LowCodes * q \in Nat
  BY <1>0, DivMod
<1>4. Space = LowCodes * (2 * half) /\ LowCodes * half \in Nat
      /\ LowCodes * (2 * half) = LowCodes * half + LowCodes * half
  BY <1>0, <1>1, <1>2
<1>5. ASSUME NEW n \in Nat, NEW e \in 0..(LowCodes - 1), n < 2 * half
      PROVE  LowCodes * n + e \in 0..(Space - 1)
  <2> HIDE DEF half
  <2>1. n + 1 <= 2 * half /\ n + 1 \in Nat /\ 2 * half \in Nat
    BY <1>1, <1>5
  <2>2. /\ LowCodes * (n + 1) <= LowCodes * (2 * half)
        /\ LowCodes * (n + 1) \in Nat /\ LowCodes * (2 * half) \in Nat
    BY <1>0, <2>1, TimesGrows
  <2>3. LowCodes * (n + 1) = LowCodes * n + LowCodes /\ LowCodes * n \in Nat
    BY <1>0
  <2> QED  BY <1>0, <1>4, <1>5, <2>2, <2>3
<1>6. ASSUME NEW high \in Nat
      PROVE  d + LowCodes * HighBits(high) \in 0..(Space - 1)
  <2>1. HighBits(high) = high % half
    BY DEF HighBits
  <2> HIDE DEF half, d
  <2>2. HighBits(high) \in Nat /\ HighBits(high) < 2 * half
    BY <1>2, <2>1
  <2>3. LowCodes * HighBits(high) + d \in 0..(Space - 1)
    BY <1>3, <1>5, <2>2
  <2>4. LowCodes * HighBits(high) \in Int /\ d \in Int
    BY <1>0, <1>3, <2>2
  <2> QED  BY <2>3, <2>4
<1>7. ASSUME NEW low \in 0..(LowCodes - 1)
      PROVE  a - d + low \in 0..(Space - 1)
  <2> HIDE DEF half, d, q
  <2>1. q < 2 * half
    <3>1. a < LowCodes * (2 * half) /\ 2 * half \in Nat
      BY <1>0, <1>1, <1>4
    <3>2. a \div LowCodes < 2 * half
      BY <1>0, <3>1, DivBelow
    <3> QED  BY <3>2 DEF q
  <2>2. LowCodes * q + low \in 0..(Space - 1)
    BY <1>3, <1>5, <2>1
  <2>3. a - d + low = LowCodes * q + low
    BY <1>3
  <2> QED  BY <2>2, <2>3
<1> QED  BY <1>6, <1>7

-----------------------------------------------------------------------------
(* Where V is.                                                             *)

\* a is k tiles to the right of x and d lines below y.
At(a, x, y, k, d) ==
  /\ Column(a) = (Column(x) + k) % (2 * Columns)
  /\ <<NtY(a), RowLine(a)>> = BelowOf(y, d)

\* V holds 16 bits.
Word == 0..(WordCodes - 1)

LEMMA SpaceInWord ==
  /\ WordCodes \in Nat \ {0} /\ 0 \in 0..(Space - 1)
  /\ \A a \in 0..(Space - 1) : a \in Word /\ a \in Nat
BY Sizes DEF WordCodes, Word

\* Tiles that follow tiles.
LEMMA AtTiles ==
  ASSUME NEW a \in Word, NEW x \in Nat, NEW y \in Nat, NEW k \in Nat, NEW d \in Nat,
         NEW j \in Nat
  PROVE  /\ Tiles(a, j) \in Word
         /\ At(a, x, y, k, d) => At(Tiles(a, j), x, y, k + j, d)
<1> DEFINE b == Tiles(a, j)
           m == 2 * Columns
           c == Column(x)
<1>1. a \in Nat /\ a < WordCodes
  BY SpaceInWord DEF Word
<1>2. SameRow(a, b) /\ Column(b) = (Column(a) + j) % m
  BY <1>1, TilesColumn
<1>3. b \in Word
  BY <1>1, <1>2, SpaceInWord DEF SameRow, Word
<1>4. ASSUME At(a, x, y, k, d)
      PROVE  At(b, x, y, k + j, d)
  <2>1. Column(a) = (c + k) % m /\ c \in Nat /\ m \in Nat \ {0}
    BY <1>4, ColumnRange, Sizes DEF At
  <2> HIDE DEF b, c, m
  <2>2. Column(b) = (((c + k) % m) + j) % m
    BY <1>2, <2>1
  <2>3. c + k \in Int /\ (c + k) + j = c + (k + j)
    BY <2>1
  <2>4. Column(b) = (c + (k + j)) % m
    <3> DEFINE s == c + k
    <3>1. s \in Int /\ s + j = c + (k + j) /\ Column(b) = ((s % m) + j) % m
      BY <2>2, <2>3
    <3> HIDE DEF s
    <3>2. s \in Int /\ j \in Int /\ m \in Nat \ {0}
      BY <2>1, <3>1
    <3>3. ((s % m) + j) % m = (s + j) % m
      BY <3>2, ModPlus
    <3> QED  BY <3>1, <3>3
  <2>5. NtY(b) = NtY(a) /\ RowLine(b) = RowLine(a)
    BY <1>2 DEF SameRow, RowLine
  <2>6. <<NtY(b), RowLine(b)>> = BelowOf(y, d)
    BY <1>4, <2>5 DEF At
  <2> QED  BY <2>4, <2>6 DEF At, c, m
<1> QED  BY <1>3, <1>4

\* The end of a line.
LEMMA AtNextLine ==
  ASSUME NEW a \in Word, NEW x \in Nat, NEW y \in Nat, NEW k \in Nat, NEW d \in Nat
  PROVE  /\ YIncrement(a) \in Word
         /\ At(a, x, y, k, d) => At(YIncrement(a), x, y, k, d + 1)
<1>1. a \in Nat /\ a < WordCodes
  BY SpaceInWord DEF Word
<1>2. /\ YIncrement(a) \in Nat /\ YIncrement(a) < WordCodes
      /\ Column(YIncrement(a)) = Column(a)
  BY <1>1, YIncrementRow
<1>3. ASSUME At(a, x, y, k, d)
      PROVE  At(YIncrement(a), x, y, k, d + 1)
  <2>1. <<NtY(a), RowLine(a)>> = BelowOf(y, d)
    BY <1>3 DEF At
  <2>2. <<NtY(YIncrement(a)), RowLine(YIncrement(a))>> = BelowOf(y, d + 1)
    BY <1>1, <2>1, BelowStep
  <2> QED  BY <1>2, <1>3, <2>2 DEF At
<1> QED  BY <1>2, <1>3, SpaceInWord DEF Word

\* T itself.
LEMMA AtStart ==
  ASSUME NEW a \in Nat
  PROVE  At(a, a, a, 0, 0)
<1> DEFINE c == Column(a)
           m == 2 * Columns
<1>1. c \in 0..(m - 1) /\ m \in Nat
  BY ColumnRange, Sizes
<1>2. (c + 0) % m = c
  <2> HIDE DEF c, m
  <2> QED  BY <1>1
<1> QED  BY <1>2, BelowNone DEF At

\* The end of a line, horizontally.
LEMMA AtHorizontal ==
  ASSUME NEW a \in Word, NEW x \in Nat, NEW y \in Nat, NEW k \in Nat, NEW d \in Nat,
         NEW from \in Nat
  PROVE  /\ Horizontal(a, from) \in Word
         /\ At(a, x, y, k, d) => At(Horizontal(a, from), from, y, 0, d)
<1>1. a \in Nat /\ a < WordCodes
  BY SpaceInWord DEF Word
<1> DEFINE b == Horizontal(a, from)
           c == Column(from)
           m == 2 * Columns
<1>2. /\ b \in Nat /\ Column(b) = c /\ NtY(b) = NtY(a) /\ RowLine(b) = RowLine(a)
      /\ b < WordCodes
  BY <1>1, HorizontalMoves
<1>3. c \in 0..(m - 1) /\ m \in Nat
  BY ColumnRange, Sizes
<1> HIDE DEF b
<1>4. (c + 0) % m = c
  <2> HIDE DEF c, m
  <2> QED  BY <1>3
<1>5. ASSUME At(a, x, y, k, d)
      PROVE  At(b, from, y, 0, d)
  BY <1>2, <1>4, <1>5 DEF At
<1> QED  BY <1>2, <1>5, SpaceInWord DEF Word, b

-----------------------------------------------------------------------------
(* The invariant.                                                          *)

\* The tiles and the lines V is away from T.
TilesDone == IF phase = "blank" THEN 0 ELSE fetched
LinesDone == IF tofix THEN sl ELSE sl + 1

InPlace == clean /\ phase # "off" => At(v, across, base, TilesDone, LinesDone)

\* V touched by nobody but the drawing is drawn with; and after dot 256 no increment of
\* the line is left.
VramInv ==
  /\ TypeOK
  /\ InPlace
  /\ clean => rendering
  /\ phase \in {"fetch", "blank"} => ~tofix

LEMMA InPlaceIsScroll == InPlace <=> ScrollFollowsT
BY DEF InPlace, ScrollFollowsT, At, TilesDone, LinesDone, Column, RowLine, RightOf

LEMMA TypesOfV ==
  ASSUME TypeOK
  PROVE  /\ v \in Word /\ t \in 0..(Space - 1) /\ base \in Nat /\ across \in Nat
         /\ base \in 0..(Space - 1) /\ across \in 0..(Space - 1) /\ t \in Nat /\ t \in Word
         /\ fetched \in 0..Fetches /\ fetched \in Nat /\ Fetches \in Nat /\ sl \in Nat
         /\ tofix \in BOOLEAN /\ clean \in BOOLEAN /\ rendering \in BOOLEAN
BY SpaceInWord, AddressAssumption DEF TypeOK, Word

\* A catch-up takes V along with the tiles it draws, and the line's increment if it is
\* the one to do it.
LEMMA CatchUpKeeps ==
  ASSUME VramInv, NEW n \in 0..Fetches, NEW late \in BOOLEAN, CatchUp(n, late)
  PROVE  /\ Synced(n, late) \in Word
         /\ fetched' = n /\ tofix' \in BOOLEAN
         /\ phase \in {"fetch", "blank"} => ~tofix'
         /\ clean /\ phase # "off" =>
              At(Synced(n, late), across, base, IF phase = "blank" THEN 0 ELSE n,
                 IF tofix' THEN sl ELSE sl + 1)
<1> DEFINE j == n - fetched
           drawn == Tiles(v, j)
           k == IF phase = "blank" THEN 0 ELSE n
<1>1. /\ v \in Word /\ base \in Nat /\ across \in Nat /\ fetched \in Nat /\ sl \in Nat
      /\ sl + 1 \in Nat /\ tofix \in BOOLEAN /\ n \in Nat /\ rendering \in BOOLEAN
  BY TypesOfV DEF VramInv
<1>2. /\ fetched' = n /\ tofix' = (tofix /\ ~(late /\ n > fetched)) /\ j \in Nat
      /\ phase \in {"fetch", "blank", "off"} => j = 0
  BY <1>1 DEF CatchUp
<1>3. tofix' \in BOOLEAN /\ (phase \in {"fetch", "blank"} => ~tofix')
  BY <1>2 DEF VramInv
<1>4. CASE ~rendering
  <2>1. Synced(n, late) = v /\ ~clean
    BY <1>4 DEF Synced, VramInv
  <2> QED  BY <1>1, <1>2, <1>3, <2>1
<1>5. CASE rendering
  <2>1. drawn \in Word
    BY <1>1, <1>2, AtTiles
  <2>2. ASSUME clean, phase # "off"
        PROVE  At(drawn, across, base, k, LinesDone) /\ k \in Nat /\ LinesDone \in Nat
    <3>1. At(v, across, base, TilesDone, LinesDone)
      BY <2>2 DEF VramInv, InPlace
    <3>2. TilesDone \in Nat /\ LinesDone \in Nat /\ k \in Nat
      BY <1>1 DEF TilesDone, LinesDone
    <3>3. TilesDone + j = k
      BY <1>1, <1>2 DEF TilesDone
    <3> HIDE DEF j
    <3>4. At(drawn, across, base, TilesDone + j, LinesDone)
      BY <1>1, <1>2, <3>1, <3>2, AtTiles
    <3> QED  BY <3>2, <3>3, <3>4
  <2> HIDE DEF drawn, k
  <2>3. CASE late /\ tofix /\ n > fetched
    <3>1. Synced(n, late) = YIncrement(drawn) /\ ~tofix' /\ LinesDone = sl
      BY <1>2, <1>5, <2>3 DEF Synced, drawn, LinesDone
    <3>2. YIncrement(drawn) \in Word
      BY <1>1, <2>1, AtNextLine
    <3>3. ASSUME clean, phase # "off"
          PROVE  At(YIncrement(drawn), across, base, k, sl + 1)
      BY <1>1, <2>1, <2>2, <3>1, <3>3, AtNextLine
    <3> QED  BY <1>2, <1>3, <3>1, <3>2, <3>3 DEF k
  <2>4. CASE ~(late /\ tofix /\ n > fetched)
    <3>1. Synced(n, late) = drawn /\ tofix' = tofix
      BY <1>1, <1>2, <1>5, <2>4 DEF Synced, drawn
    <3>2. LinesDone = IF tofix' THEN sl ELSE sl + 1
      BY <3>1 DEF LinesDone
    <3> QED  BY <1>2, <1>3, <2>1, <2>2, <3>1, <3>2 DEF k
  <2> QED  BY <2>3, <2>4
<1> QED  BY <1>1, <1>4, <1>5

\* What the accesses with a catch-up have in common.
LEMMA AccessKeeps ==
  ASSUME VramInv, NEW n \in 0..Fetches, NEW late \in BOOLEAN, CatchUp(n, late),
         UNCHANGED <<phase, sl, base, across>>,
         v' = Synced(n, late) \/ (v' \in Word /\ ~clean'),
         t' \in 0..(Space - 1), w' \in {0, 1}, rendering' \in BOOLEAN, clean' \in BOOLEAN,
         clean' => clean /\ rendering'
  PROVE  VramInv'
<1>1. /\ Synced(n, late) \in Word
      /\ fetched' = n /\ tofix' \in BOOLEAN
      /\ phase \in {"fetch", "blank"} => ~tofix'
      /\ clean /\ phase # "off" =>
           At(Synced(n, late), across, base, IF phase = "blank" THEN 0 ELSE n,
              IF tofix' THEN sl ELSE sl + 1)
  BY CatchUpKeeps
<1>2. TypeOK'
  BY <1>1 DEF VramInv, TypeOK, Word
<1>3. InPlace'
  <2> SUFFICES ASSUME clean', phase # "off"
               PROVE  At(v', across, base, TilesDone', LinesDone')
    BY DEF InPlace, At, BelowOf, Column, RowLine, X, Y, NtX, NtY, FineY
  <2>1. TilesDone' = (IF phase = "blank" THEN 0 ELSE n)
        /\ LinesDone' = (IF tofix' THEN sl ELSE sl + 1)
    BY <1>1 DEF TilesDone, LinesDone
  <2> QED  BY <1>1, <2>1
<1> QED  BY <1>1, <1>2, <1>3 DEF VramInv

LEMMA ReadStatusKeeps ==
  ASSUME VramInv, NEW n \in 0..Fetches, NEW late \in BOOLEAN, ReadStatus(n, late)
  PROVE  VramInv'
<1>1. /\ CatchUp(n, late) /\ UNCHANGED <<phase, sl, base, across>> /\ v' = Synced(n, late)
      /\ t' = t /\ w' = 0 /\ rendering' = rendering /\ clean' = clean
  BY DEF ReadStatus, Access
<1>2. /\ t' \in 0..(Space - 1) /\ w' \in {0, 1} /\ rendering' \in BOOLEAN /\ clean' \in BOOLEAN
      /\ clean' => clean /\ rendering'
  BY <1>1 DEF VramInv, TypeOK
<1> QED  BY <1>1, <1>2, AccessKeeps

\* One $2007 step.
LEMMA StepInWord ==
  ASSUME NEW a \in Word, NEW step \in Steps
  PROVE  (a + step) % WordCodes \in Word
<1>1. a + step \in Int /\ WordCodes \in Nat \ {0}
  BY SpaceInWord, Sizes DEF Word, Steps
<1> QED  BY <1>1, ModRange DEF Word

LEMMA ReadDataKeeps ==
  ASSUME VramInv, NEW n \in 0..Fetches, NEW late \in BOOLEAN, ReadData(n, late)
  PROVE  VramInv'
<1>1. /\ CatchUp(n, late) /\ UNCHANGED <<phase, sl, base, across>>
      /\ t' = t /\ w' = w /\ rendering' = rendering /\ clean' = FALSE
  BY DEF ReadData, Access, Touch
<1>2. Synced(n, late) \in Word
  BY <1>1, CatchUpKeeps
<1>3. v' \in Word
  <2>1. CASE rendering /\ Visible
    <3>1. v' = YIncrement(Synced(n, late))
      BY <2>1 DEF ReadData
    <3>2. 0 \in Nat
      OBVIOUS
    <3> QED  BY <1>2, <3>1, <3>2, AtNextLine
  <2>2. CASE ~(rendering /\ Visible)
    <3>1. PICK step \in Steps : v' = (Synced(n, late) + step) % WordCodes
      BY <2>2 DEF ReadData
    <3> QED  BY <1>2, <3>1, StepInWord
  <2> QED  BY <2>1, <2>2
<1>4. /\ t' \in 0..(Space - 1) /\ w' \in {0, 1} /\ rendering' \in BOOLEAN /\ clean' \in BOOLEAN
      /\ clean' => clean /\ rendering'
  BY <1>1 DEF VramInv, TypeOK
<1> QED  BY <1>1, <1>3, <1>4, AccessKeeps

LEMMA WriteDataKeeps ==
  ASSUME VramInv, WriteData
  PROVE  VramInv'
<1>1. /\ UNCHANGED <<phase, sl, base, across, t, w, rendering, fetched, tofix>> /\ clean' = FALSE
      /\ \E step \in Steps : v' = (v + step) % WordCodes
  BY DEF WriteData, Access, Touch
<1>2. v' \in Word
  <2>1. v \in Word
    BY TypesOfV DEF VramInv
  <2>2. PICK step \in Steps : v' = (v + step) % WordCodes
    BY <1>1
  <2> QED  BY <2>1, <2>2, StepInWord
<1> QED  BY <1>1, <1>2 DEF VramInv, TypeOK, InPlace, Word

LEMMA WriteCtrlKeeps ==
  ASSUME VramInv, NEW n \in 0..Fetches, NEW late \in BOOLEAN, WriteCtrl(n, late)
  PROVE  VramInv'
<1>1. /\ CatchUp(n, late) /\ UNCHANGED <<phase, sl, base, across>> /\ v' = Synced(n, late)
      /\ w' = w /\ rendering' = rendering /\ clean' = clean
  BY DEF WriteCtrl, Access
<1>2. t' \in 0..(Space - 1)
  <2>1. PICK nt \in Tables : t' = t + Table * (nt - NtX(t) - 2 * NtY(t))
    BY DEF WriteCtrl
  <2>2. nt \in 0..3 /\ t \in 0..(Space - 1)
    BY AddressAssumption DEF VramInv, TypeOK
  <2> QED  BY <2>1, <2>2, CtrlKeepsSpace
<1>3. /\ w' \in {0, 1} /\ rendering' \in BOOLEAN /\ clean' \in BOOLEAN
      /\ clean' => clean /\ rendering'
  BY <1>1 DEF VramInv, TypeOK
<1> QED  BY <1>1, <1>2, <1>3, AccessKeeps

LEMMA WriteMaskKeeps ==
  ASSUME VramInv, NEW n \in 0..Fetches, NEW late \in BOOLEAN, WriteMask(n, late)
  PROVE  VramInv'
<1>1. /\ CatchUp(n, late) /\ UNCHANGED <<phase, sl, base, across>> /\ v' = Synced(n, late)
      /\ w' = w /\ t' = t /\ rendering' \in BOOLEAN /\ clean' = (clean /\ rendering')
  BY DEF WriteMask, Access
<1>2. /\ t' \in 0..(Space - 1) /\ w' \in {0, 1} /\ clean' \in BOOLEAN
      /\ clean' => clean /\ rendering'
  BY <1>1 DEF VramInv, TypeOK
<1> QED  BY <1>1, <1>2, AccessKeeps

LEMMA WriteScrollKeeps ==
  ASSUME VramInv, NEW n \in 0..Fetches, NEW late \in BOOLEAN, WriteScroll(n, late)
  PROVE  VramInv'
<1>1. /\ CatchUp(n, late) /\ UNCHANGED <<phase, sl, base, across>> /\ v' = Synced(n, late)
      /\ w' = 1 - w /\ rendering' = rendering /\ clean' = clean
  BY DEF WriteScroll, Access
<1>2. t' \in 0..(Space - 1)
  <2>1. PICK val \in Scrolls :
          t' = IF w = 0 THEN t - X(t) + ((val \div FineLines) % Columns)
               ELSE t + Columns * (((val \div FineLines) % RowCodes) - Y(t))
                      + Fine * ((val % FineLines) - FineY(t))
    BY DEF WriteScroll
  <2>2. val \in Nat /\ t \in 0..(Space - 1)
    BY AddressAssumption DEF VramInv, TypeOK
  <2>3. val \div FineLines \in Nat /\ val % FineLines \in 0..(FineLines - 1)
    BY <2>2, Sizes, DivMod
  <2>4. /\ (val \div FineLines) % Columns \in 0..(Columns - 1)
        /\ (val \div FineLines) % RowCodes \in 0..(RowCodes - 1)
    BY <2>3, Sizes, DivMod
  <2>5. CASE w = 0
    BY <2>1, <2>2, <2>4, <2>5, ScrollXKeepsSpace
  <2>6. CASE w # 0
    BY <2>1, <2>2, <2>3, <2>4, <2>6, ScrollYKeepsSpace
  <2> QED  BY <2>5, <2>6
<1>3. /\ w' \in {0, 1} /\ rendering' \in BOOLEAN /\ clean' \in BOOLEAN
      /\ clean' => clean /\ rendering'
  BY <1>1 DEF VramInv, TypeOK
<1> QED  BY <1>1, <1>2, <1>3, AccessKeeps

LEMMA WriteAddrKeeps ==
  ASSUME VramInv, NEW n \in 0..Fetches, NEW late \in BOOLEAN, WriteAddr(n, late)
  PROVE  VramInv'
<1>1. /\ CatchUp(n, late) /\ UNCHANGED <<phase, sl, base, across>>
      /\ w' = 1 - w /\ rendering' = rendering
  BY DEF WriteAddr, Access
<1>2. t \in 0..(Space - 1) /\ w \in {0, 1} /\ rendering \in BOOLEAN /\ clean \in BOOLEAN
      /\ (clean => rendering)
  BY DEF VramInv, TypeOK
<1>3. CASE w = 0
  <2>1. v' = Synced(n, late) /\ clean' = clean
    BY <1>3 DEF WriteAddr
  <2>2. PICK high \in Highs : t' = (t % LowCodes) + LowCodes * HighBits(high)
    BY <1>3 DEF WriteAddr
  <2>3. t' \in 0..(Space - 1)
    BY <1>2, <2>2, AddrKeepsSpace, AddressAssumption
  <2>4. w' \in {0, 1}
    BY <1>1, <1>2
  <2> QED  BY <1>1, <1>2, <2>1, <2>3, <2>4, AccessKeeps
<1>4. CASE w # 0
  <2>1. v' = t' /\ clean' = FALSE
    BY <1>4 DEF WriteAddr, Touch
  <2>2. PICK low \in Lows : t' = t - (t % LowCodes) + low
    BY <1>4 DEF WriteAddr
  <2>3. t' \in 0..(Space - 1)
    BY <1>2, <2>2, AddrKeepsSpace, AddressAssumption
  <2>4. w' \in {0, 1} /\ v' \in Word
    BY <1>1, <1>2, <2>1, <2>3, SpaceInWord
  <2> QED  BY <1>1, <1>2, <2>1, <2>3, <2>4, AccessKeeps
<1> QED  BY <1>3, <1>4

\* line_begin(): from an address at the start of a line.
LEMMA LineBeginKeeps ==
  ASSUME NEW from \in Word, LineBegin(from),
         base' \in 0..(Space - 1), across' \in 0..(Space - 1), sl' \in 0..(Lines - 1),
         clean' \in BOOLEAN, rendering \in BOOLEAN, rendering' = rendering,
         t' \in 0..(Space - 1), w' \in {0, 1}, clean' => rendering,
         clean' => At(from, across', base', 0, sl')
  PROVE  VramInv'
<1>1. PICK n \in 0..Fetches : fetched' = n /\ v' = IF rendering THEN Tiles(from, n) ELSE from
  BY DEF LineBegin
<1>2. phase' = "tail" /\ tofix' = TRUE
  BY DEF LineBegin
<1>3. n \in Nat /\ base' \in Nat /\ across' \in Nat /\ sl' \in Nat /\ 0 \in Nat /\ 0 + n = n
  BY AddressAssumption, SpaceInWord
<1>4. v' \in Word
  BY <1>1, <1>3, AtTiles
<1>5. TypeOK'
  BY <1>1, <1>2, <1>4 DEF TypeOK, Word
<1>6. InPlace'
  <2> SUFFICES ASSUME clean', phase' # "off"
               PROVE  At(v', across', base', TilesDone', LinesDone')
    BY DEF InPlace, At, BelowOf, Column, RowLine, X, Y, NtX, NtY, FineY
  <2>1. TilesDone' = n /\ LinesDone' = sl'
    BY <1>1, <1>2 DEF TilesDone, LinesDone
  <2>2. v' = Tiles(from, n)
    BY <1>1
  <2>3. At(Tiles(from, n), across', base', 0 + n, sl')
    BY <1>3, AtTiles
  <2> QED  BY <1>3, <2>1, <2>2, <2>3
<1> QED  BY <1>2, <1>5, <1>6 DEF VramInv

LEMMA LineStartFrameKeeps ==
  ASSUME VramInv, LineStartFrame
  PROVE  VramInv'
<1>1. /\ LineBegin(IF rendering THEN t ELSE v)
      /\ sl' = 0 /\ base' = t /\ across' = t /\ clean' = rendering
      /\ t' = t /\ w' = w /\ rendering' = rendering
  BY DEF LineStartFrame
<1>2. /\ v \in Word /\ t \in Word /\ t \in 0..(Space - 1) /\ t \in Nat /\ rendering \in BOOLEAN
      /\ w \in {0, 1} /\ 0 \in 0..(Lines - 1)
  BY TypesOfV, AddressAssumption DEF VramInv, TypeOK
<1> DEFINE from == IF rendering THEN t ELSE v
<1>3. from \in Word
  BY <1>2
<1>4. clean' => At(from, across', base', 0, sl')
  BY <1>1, <1>2, AtStart
<1> HIDE DEF from
<1>5. LineBegin(from)
  BY <1>1 DEF from
<1> QED  BY <1>1, <1>2, <1>3, <1>4, <1>5, LineBeginKeeps

LEMMA LineNextKeeps ==
  ASSUME VramInv, LineNext
  PROVE  VramInv'
<1>1. /\ LineBegin(v) /\ phase = "blank" /\ sl + 1 < Lines
      /\ sl' = sl + 1 /\ base' = base /\ across' = across /\ clean' = clean
      /\ t' = t /\ w' = w /\ rendering' = rendering
  BY DEF LineNext
<1>2. /\ v \in Word /\ t \in 0..(Space - 1) /\ rendering \in BOOLEAN /\ w \in {0, 1}
      /\ sl + 1 \in 0..(Lines - 1) /\ clean \in BOOLEAN
      /\ base \in 0..(Space - 1) /\ across \in 0..(Space - 1) /\ (clean => rendering)
  BY <1>1, TypesOfV, AddressAssumption DEF VramInv, TypeOK
<1>3. clean => At(v, across, base, 0, sl + 1)
  BY <1>1 DEF VramInv, InPlace, TilesDone, LinesDone
<1>4. clean' => At(v, across', base', 0, sl')
  BY <1>1, <1>3
<1> QED  BY <1>1, <1>2, <1>4, LineBeginKeeps

LEMMA LineEnd256Keeps ==
  ASSUME VramInv, LineEnd256
  PROVE  VramInv'
<1>1. /\ phase = "pixels" /\ phase' = "fetch" /\ fetched' = Fetches /\ tofix' = FALSE
      /\ v' = IF rendering THEN PendingY(Tiles(v, Fetches - fetched)) ELSE v
      /\ UNCHANGED <<sl, t, w, rendering, accesses, base, across, clean>>
  BY DEF LineEnd256
<1> DEFINE j == Fetches - fetched
           drawn == Tiles(v, j)
<1>2. /\ v \in Word /\ base \in Nat /\ across \in Nat /\ fetched \in Nat /\ sl \in Nat
      /\ sl + 1 \in Nat /\ tofix \in BOOLEAN /\ Fetches \in Nat /\ rendering \in BOOLEAN
      /\ j \in Nat /\ fetched + j = Fetches
  BY TypesOfV DEF VramInv
<1>3. drawn \in Word
  BY <1>2, AtTiles
<1>4. clean => At(drawn, across, base, Fetches, LinesDone)
  <2> SUFFICES ASSUME clean PROVE At(drawn, across, base, Fetches, LinesDone)
    OBVIOUS
  <2>1. At(v, across, base, fetched, LinesDone) /\ LinesDone \in Nat
    BY <1>1, <1>2 DEF VramInv, InPlace, TilesDone, LinesDone
  <2> HIDE DEF j
  <2>2. At(drawn, across, base, fetched + j, LinesDone)
    BY <1>2, <2>1, AtTiles
  <2> QED  BY <1>2, <2>2
<1> HIDE DEF drawn
<1>5. PendingY(drawn) \in Word
      /\ (clean => At(PendingY(drawn), across, base, Fetches, sl + 1))
  <2>1. CASE tofix
    BY <1>2, <1>3, <1>4, <2>1, AtNextLine DEF PendingY, LinesDone
  <2>2. CASE ~tofix
    BY <1>3, <1>4, <2>2 DEF PendingY, LinesDone
  <2> QED  BY <2>1, <2>2
<1>6. v' \in Word /\ (clean => At(v', across, base, Fetches, sl + 1))
  <2>1. clean => rendering
    BY DEF VramInv
  <2> QED  BY <1>1, <1>2, <1>5, <2>1 DEF drawn
<1>7. TypeOK'
  <2>1. Fetches \in 0..Fetches
    BY AddressAssumption
  <2> QED  BY <1>1, <1>6, <2>1 DEF VramInv, TypeOK, Word
<1>8. InPlace'
  <2> SUFFICES ASSUME clean PROVE At(v', across, base, TilesDone', LinesDone')
    BY <1>1 DEF InPlace, At, BelowOf, Column, RowLine, X, Y, NtX, NtY, FineY
  <2>1. TilesDone' = Fetches /\ LinesDone' = sl + 1
    BY <1>1 DEF TilesDone, LinesDone
  <2> QED  BY <1>6, <2>1
<1> QED  BY <1>1, <1>7, <1>8 DEF VramInv

LEMMA CopyHorizontalBitsKeeps ==
  ASSUME VramInv, CopyHorizontalBits
  PROVE  VramInv'
<1>1. /\ phase = "fetch" /\ phase' = "blank"
      /\ v' = (IF rendering THEN Horizontal(v, t) ELSE v) /\ across' = t
      /\ UNCHANGED <<sl, t, w, rendering, fetched, tofix, accesses, base, clean>>
  BY DEF CopyHorizontalBits
<1>2. /\ v \in Word /\ base \in Nat /\ across \in Nat /\ fetched \in Nat /\ sl \in Nat
      /\ sl + 1 \in Nat /\ t \in Nat /\ ~tofix /\ (clean => rendering)
  BY <1>1, TypesOfV DEF VramInv
<1>3. clean => At(v, across, base, fetched, sl + 1)
  BY <1>1, <1>2 DEF VramInv, InPlace, TilesDone, LinesDone
<1>4. v' \in Word /\ (clean => At(v', t, base, 0, sl + 1))
  <2>1. Horizontal(v, t) \in Word
    BY <1>2, AtHorizontal
  <2>2. clean => At(Horizontal(v, t), t, base, 0, sl + 1)
    BY <1>2, <1>3, AtHorizontal
  <2> QED  BY <1>1, <1>2, <2>1, <2>2
<1>5. TypeOK'
  BY <1>1, <1>4 DEF VramInv, TypeOK, Word
<1>6. InPlace'
  <2> SUFFICES ASSUME clean PROVE At(v', t, base, TilesDone', LinesDone')
    BY <1>1 DEF InPlace, At, BelowOf, Column, RowLine, X, Y, NtX, NtY, FineY
  <2>1. TilesDone' = 0 /\ LinesDone' = sl + 1
    BY <1>1, <1>2 DEF TilesDone, LinesDone
  <2> QED  BY <1>4, <2>1
<1> QED  BY <1>1, <1>2, <1>5, <1>6 DEF VramInv

LEMMA QuietCallsKeep ==
  ASSUME VramInv, ResetRegisters \/ BeginPixels \/ LastLine
  PROVE  VramInv'
<1>1. 0 \in 0..(Lines - 1) /\ 0 \in 0..(Space - 1) /\ 0 \in 0..(WordCodes - 1)
  BY SpaceInWord, AddressAssumption DEF Word
<1>2. CASE ResetRegisters
  <2>1. TypeOK'
    BY <1>1, <1>2 DEF VramInv, TypeOK, ResetRegisters
  <2> QED  BY <1>2, <2>1 DEF VramInv, ResetRegisters, InPlace
<1>3. CASE BeginPixels
  <2>1. TypeOK'
    BY <1>3 DEF VramInv, TypeOK, BeginPixels, regs
  <2>2. InPlace'
    BY <1>3 DEF VramInv, BeginPixels, regs, InPlace, TilesDone, LinesDone, At, BelowOf,
                Column, RowLine, X, Y, NtX, NtY, FineY
  <2> QED  BY <1>3, <2>1, <2>2 DEF VramInv, BeginPixels, regs
<1>4. CASE LastLine
  <2>1. TypeOK'
    BY <1>1, <1>4 DEF VramInv, TypeOK, LastLine, regs
  <2> QED  BY <1>4, <2>1 DEF VramInv, LastLine, regs, InPlace
<1> QED  BY <1>2, <1>3, <1>4

\* The invariant the other theorems follow from.
THEOREM Invariant == Spec => []VramInv
<1>1. Init => VramInv
  <2>1. 0 \in 0..(Lines - 1) /\ 0 \in 0..(Space - 1) /\ 0 \in 0..(WordCodes - 1) /\ 0 \in 0..Fetches
    BY SpaceInWord, AddressAssumption DEF Word
  <2> QED  BY <2>1 DEF Init, VramInv, TypeOK, InPlace
<1>2. ASSUME VramInv, [Next]_vars
      PROVE  VramInv'
  <2>1. CASE FrameCalls
    BY <1>2, <2>1, LineStartFrameKeeps, LineNextKeeps, LineEnd256Keeps,
       CopyHorizontalBitsKeeps, QuietCallsKeep DEF FrameCalls
  <2>2. CASE Program
    BY <1>2, <2>2, WriteDataKeeps, ReadStatusKeeps, ReadDataKeeps, WriteCtrlKeeps,
       WriteMaskKeeps, WriteScrollKeeps, WriteAddrKeeps DEF Program
  <2>3. CASE UNCHANGED vars
    BY <1>2, <2>3 DEF VramInv, vars, regs, TypeOK, InPlace, TilesDone, LinesDone, At, BelowOf,
                      Column, RowLine, X, Y, NtX, NtY, FineY
  <2> QED  BY <1>2, <2>1, <2>2, <2>3 DEF Next
<1> QED  BY <1>1, <1>2, PTL DEF Spec

\* Every register keeps its width: V 16 bits and T 15, whatever the program writes and
\* whenever a catch-up moves V.
THEOREM TypeCorrect == Spec => []TypeOK
BY Invariant, PTL DEF VramInv

\* On every line of a picture the program leaves V alone in, V is where T tells it to be,
\* whatever the catch-ups: the property ScrollFollowsT, for pictures, nametables and
\* tiles of any size.
THEOREM ScrollKept == Spec => []ScrollFollowsT
<1>1. VramInv => ScrollFollowsT
  BY InPlaceIsScroll DEF VramInv
<1> QED  BY <1>1, Invariant, PTL

\* While rendering is off, V moves only as the program moves it: the property
\* OffNeverMoves.
THEOREM OffStays == Spec => OffNeverMoves
<1>1. ASSUME [Next]_vars
      PROVE  [~rendering /\ v' # v =>
                v' = t' \/ (phase' = phase /\ \E step \in Steps : v' = (v + step) % WordCodes)]_vars
  <2> SUFFICES ASSUME Next, ~rendering, v' # v
               PROVE  \/ v' = t'
                      \/ phase' = phase /\ \E step \in Steps : v' = (v + step) % WordCodes
    BY <1>1
  <2>1. ASSUME NEW n, NEW late
        PROVE  Synced(n, late) = v
    BY DEF Synced
  <2>2. CASE FrameCalls
    <3>1. ResetRegisters => v' = t'
      BY DEF ResetRegisters
    <3>2. LineStartFrame => v' = v
      BY DEF LineStartFrame, LineBegin
    <3>3. BeginPixels \/ LastLine => v' = v
      BY DEF BeginPixels, LastLine, regs
    <3>4. LineEnd256 => v' = v
      BY DEF LineEnd256
    <3>5. CopyHorizontalBits => v' = v
      BY DEF CopyHorizontalBits
    <3>6. LineNext => v' = v
      BY DEF LineNext, LineBegin
    <3> QED  BY <2>2, <3>1, <3>2, <3>3, <3>4, <3>5, <3>6 DEF FrameCalls
  <2>3. CASE Program
    <3>1. CASE WriteData
      BY <3>1 DEF WriteData, Access
    <3>2. ASSUME NEW n \in 0..Fetches, NEW late \in BOOLEAN,
                 \/ ReadStatus(n, late) \/ WriteCtrl(n, late) \/ WriteMask(n, late)
                 \/ WriteScroll(n, late)
          PROVE  v' = v
      BY <2>1, <3>2 DEF ReadStatus, WriteCtrl, WriteMask, WriteScroll
    <3>3. ASSUME NEW n \in 0..Fetches, NEW late \in BOOLEAN, ReadData(n, late)
          PROVE  phase' = phase /\ \E step \in Steps : v' = (v + step) % WordCodes
      BY <2>1, <3>3 DEF ReadData, Access
    <3>4. ASSUME NEW n \in 0..Fetches, NEW late \in BOOLEAN, WriteAddr(n, late)
          PROVE  v' = v \/ v' = t'
      BY <2>1, <3>4 DEF WriteAddr
    <3> QED  BY <2>3, <3>1, <3>2, <3>3, <3>4 DEF Program
  <2> QED  BY <2>2, <2>3 DEF Next
<1> QED  BY <1>1, PTL DEF Spec, OffNeverMoves
=============================================================================
