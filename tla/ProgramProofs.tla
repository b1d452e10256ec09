--------------------------- MODULE ProgramProofs ---------------------------
(***************************************************************************)
(* The listing of a program, for every size it starts with, every command  *)
(* and every file: proofs about Program.                                   *)
(***************************************************************************)
EXTENDS Program, DataLemmas, SequenceTheorems

-----------------------------------------------------------------------------
(* Digits and the numbers they stand for.                                  *)

LEMMA PowerSteps ==
  /\ Power[0] = 1
  /\ \A k \in Nat : Power[k] \in Nat \ {0} /\ Power[k + 1] = 16 * Power[k]
<1> DEFINE S == Nat \ {0}
           step == [p \in Nat \X S |-> 16 * p[2]]
           G(g) == g = [k \in Nat |-> IF k = 0 THEN 1 ELSE 16 * g[k - 1]]
<1>1. step \in [Nat \X S -> S] /\ 1 \in S
  OBVIOUS
<1>2. PICK f \in [Nat -> S] : f[0] = 1 /\ \A n \in Nat : f[n + 1] = step[<<n, f[n]>>]
  <2> HIDE DEF step, S
  <2>1. HasRecursive(S, 1, step)
    BY ONLY <1>1, Recursion
  <2> QED
    BY <2>1 DEF HasRecursive
<1>3. \A n \in Nat : f[n + 1] = 16 * f[n]
  BY <1>2
<1>4. G(f)
  <2>1. \A k \in Nat : k # 0 => k - 1 \in Nat /\ (k - 1) + 1 = k
    OBVIOUS
  <2>2. \A k \in Nat : f[k] = IF k = 0 THEN 1 ELSE 16 * f[k - 1]
    BY <1>2, <1>3, <2>1
  <2> QED
    BY <1>2, <2>2
<1>5. Power = CHOOSE g : G(g)
  BY DEF Power
<1>6. G(Power)
  <2> HIDE DEF G
  <2> QED
    BY <1>4, <1>5
<1> HIDE DEF step
<1>7. \A k \in Nat : Power[k] = IF k = 0 THEN 1 ELSE 16 * Power[k - 1]
  BY <1>6
<1>8. Power[0] = 1
  BY <1>7
<1>9. \A k \in Nat : Power[k + 1] = 16 * Power[k]
  <2>1. \A k \in Nat : k + 1 \in Nat /\ k + 1 # 0 /\ (k + 1) - 1 = k
    OBVIOUS
  <2> QED
    BY <1>7, <2>1
<1>10. \A k \in Nat : Power[k] \in S
  <2> DEFINE T == {k \in Nat : Power[k] \in S}
  <2>1. 0 \in T
    BY <1>8
  <2>2. \A k \in T : k + 1 \in T
    BY <1>9
  <2>3. T \in SUBSET Nat
    OBVIOUS
  <2> HIDE DEF T
  <2>4. T = Nat
    BY <2>1, <2>2, <2>3, Induction
  <2> QED
    BY <2>4 DEF T
<1> QED
  BY <1>8, <1>9, <1>10

LEMMA PowerGrows ==
  ASSUME NEW j \in Nat, NEW k \in Nat, j <= k
  PROVE  Power[j] <= Power[k]
<1> DEFINE T == {d \in Nat : Power[j] <= Power[j + d]}
<1>1. 0 \in T
  BY PowerSteps
<1>2. ASSUME NEW d \in T
      PROVE  d + 1 \in T
  <2>1. d \in Nat /\ Power[j] <= Power[j + d]
    BY <1>2
  <2>2. j + d \in Nat /\ j + (d + 1) = (j + d) + 1
    BY <2>1
  <2>3. Power[j + (d + 1)] = 16 * Power[j + d] /\ Power[j + d] \in Nat /\ Power[j] \in Nat
    BY <2>2, PowerSteps
  <2>4. Power[j] <= Power[j + (d + 1)]
    BY <2>1, <2>3
  <2> QED
    BY <2>1, <2>4
<1>3. T \in SUBSET Nat
  OBVIOUS
<1> HIDE DEF T
<1>4. T = Nat
  BY <1>1, <1>2, <1>3, Induction
<1>5. k - j \in T /\ j + (k - j) = k
  BY <1>4
<1> QED
  BY <1>5 DEF T

\* The loop that reads a field, one character after the other.
LEMMA NumberSteps ==
  ASSUME NEW field \in Seq(Char)
  PROVE  \E value \in [0..Len(field) -> Nat] :
           /\ value[0] = 0
           /\ \A i \in 1..Len(field) : value[i] = 16 * value[i - 1] + HexCharToInt(field[i])
           /\ Number(field) = value[Len(field)]
<1> DEFINE n == Len(field)
           digit(i) == IF i \in 1..n THEN HexCharToInt(field[i]) ELSE 0
           step == [p \in Nat \X Nat |-> 16 * p[2] + digit(p[1] + 1)]
           G(g) == g = [i \in 0..n |-> IF i = 0 THEN 0
                                      ELSE 16 * g[i - 1] + HexCharToInt(field[i])]
           v == CHOOSE g : G(g)
<1>0. n \in Nat
  OBVIOUS
<1>1. \A i \in 1..n : HexCharToInt(field[i]) \in Nat
  BY DEF HexCharToInt, ERR_BAD_PARAMETER, Char, OtherChar
<1>2. \A i \in Nat : digit(i) \in Nat
  BY <1>1
<1>3. step \in [Nat \X Nat -> Nat]
  <2> HIDE DEF digit
  <2>1. \A i \in Nat : digit(i + 1) \in Nat
    BY <1>2
  <2>2. \A m, d \in Nat : 16 * m + d \in Nat
    OBVIOUS
  <2>3. \A i, m \in Nat : 16 * m + digit(i + 1) \in Nat
    BY <2>1, <2>2
  <2> QED
    BY <2>3
<1>4. PICK f \in [Nat -> Nat] : f[0] = 0 /\ \A m \in Nat : f[m + 1] = step[<<m, f[m]>>]
  <2>1. 0 \in Nat
    OBVIOUS
  <2> HIDE DEF step
  <2>2. HasRecursive(Nat, 0, step)
    BY ONLY <1>3, <2>1, Recursion
  <2> QED
    BY <2>2 DEF HasRecursive
<1>5. \A m \in Nat : f[m + 1] = 16 * f[m] + digit(m + 1)
  <2> HIDE DEF digit
  <2> QED
    BY <1>4
<1>6. \A i \in 1..n : i - 1 \in Nat /\ (i - 1) + 1 = i /\ i - 1 \in 0..n
  OBVIOUS
<1>7. \A i \in 1..n : f[i] = 16 * f[i - 1] + HexCharToInt(field[i])
  BY <1>5, <1>6
<1> DEFINE g0 == [i \in 0..n |-> f[i]]
<1>8. G(g0)
  <2>1. \A i \in 0..n : g0[i] = IF i = 0 THEN 0 ELSE 16 * g0[i - 1] + HexCharToInt(field[i])
    <3> HIDE DEF n
    <3> QED
      BY <1>0, <1>4, <1>6, <1>7
  <2> QED
    BY <2>1
<1>9. G(v)
  <2> HIDE DEF G, g0
  <2> QED
    BY <1>8
<1>10. Number(field) = v[n]
  BY DEF Number
<1> HIDE DEF v, digit, step, g0
<1>11. v[0] = 0 /\ \A i \in 1..n : v[i] = 16 * v[i - 1] + HexCharToInt(field[i])
  <2> HIDE DEF n
  <2>1. \A i \in 0..n : v[i] = IF i = 0 THEN 0 ELSE 16 * v[i - 1] + HexCharToInt(field[i])
    BY <1>9
  <2> QED
    BY <1>0, <2>1
<1>12. \A i \in Nat : i <= n => v[i] \in Nat
  <2> DEFINE T == {i \in Nat : i <= n => v[i] \in Nat}
  <2> HIDE DEF n, G
  <2>1. 0 \in T
    BY <1>11
  <2>2. ASSUME NEW i \in T
        PROVE  i + 1 \in T
    <3>1. i \in Nat /\ i + 1 \in Nat
      BY <2>2
    <3>2. SUFFICES ASSUME i + 1 <= n PROVE v[i + 1] \in Nat
      BY <3>1
    <3>3. i + 1 \in 1..n /\ i <= n /\ (i + 1) - 1 = i
      BY <1>0, <3>1, <3>2
    <3>4. v[i] \in Nat
      BY <2>2, <3>3
    <3>5. v[i + 1] = 16 * v[i] + HexCharToInt(field[i + 1])
      BY <1>11, <3>3
    <3>6. HexCharToInt(field[i + 1]) \in Nat
      BY <1>1, <3>3
    <3> DEFINE x == v[i]
               d == HexCharToInt(field[i + 1])
    <3>7. x \in Nat /\ d \in Nat /\ v[i + 1] = 16 * x + d
      BY <3>4, <3>5, <3>6
    <3> HIDE DEF x, d
    <3>8. 16 * x + d \in Nat
      BY <3>7
    <3> QED
      BY <3>7, <3>8
  <2>3. T \in SUBSET Nat
    OBVIOUS
  <2> HIDE DEF T
  <2>4. T = Nat
    BY <2>1, <2>2, <2>3, Induction
  <2> QED
    BY <2>4 DEF T
<1>13. v \in [0..n -> Nat]
  <2> HIDE DEF n
  <2>1. DOMAIN v = 0..n /\ v = [i \in 0..n |-> v[i]]
    BY <1>9
  <2>2. \A i \in 0..n : v[i] \in Nat
    BY <1>0, <1>12
  <2> QED
    BY <2>1, <2>2
<1> QED
  BY <1>10, <1>11, <1>13

\* k characters are a number of k hexadecimal digits.
LEMMA NumberBound ==
  ASSUME NEW field \in Seq(Char)
  PROVE  Number(field) \in Nat /\ Number(field) < Power[Len(field)]
<1> DEFINE n == Len(field)
<1>0. n \in Nat
  OBVIOUS
<1>1. PICK v \in [0..n -> Nat] :
        /\ v[0] = 0
        /\ \A i \in 1..n : v[i] = 16 * v[i - 1] + HexCharToInt(field[i])
        /\ Number(field) = v[n]
  BY NumberSteps
<1>2. \A i \in 1..n : HexCharToInt(field[i]) \in 0..15
  BY DEF HexCharToInt, ERR_BAD_PARAMETER, Char, OtherChar
<1> HIDE DEF n
<1> DEFINE T == {i \in Nat : i <= n => v[i] < Power[i]}
<1>3. 0 \in T
  BY <1>1, PowerSteps
<1>4. ASSUME NEW i \in T
      PROVE  i + 1 \in T
  <2>1. i \in Nat /\ i + 1 \in Nat
    BY <1>4
  <2>2. SUFFICES ASSUME i + 1 <= n PROVE v[i + 1] < Power[i + 1]
    BY <2>1
  <2>3. i + 1 \in 1..n /\ i \in 0..n /\ i <= n /\ (i + 1) - 1 = i
    BY <1>0, <2>1, <2>2
  <2>4. v[i] < Power[i] /\ v[i] \in Nat /\ Power[i] \in Nat /\ Power[i + 1] = 16 * Power[i]
    BY <1>1, <1>4, <2>1, <2>3, PowerSteps
  <2>5. v[i + 1] = 16 * v[i] + HexCharToInt(field[i + 1]) /\ HexCharToInt(field[i + 1]) \in 0..15
    BY <1>1, <1>2, <2>3
  <2> DEFINE x == v[i]
             p == Power[i]
             d == HexCharToInt(field[i + 1])
  <2>6. x < p /\ x \in Nat /\ p \in Nat /\ d \in 0..15
    BY <2>4, <2>5
  <2>7. v[i + 1] = 16 * x + d /\ Power[i + 1] = 16 * p
    BY <2>4, <2>5
  <2> HIDE DEF x, p, d
  <2>8. 16 * x + d < 16 * p
    BY <2>6
  <2> QED
    BY <2>7, <2>8
<1>5. T \in SUBSET Nat
  OBVIOUS
<1> HIDE DEF T
<1>6. T = Nat
  BY <1>3, <1>4, <1>5, Induction
<1>7. v[n] < Power[n] /\ v[n] \in Nat
  BY <1>0, <1>1, <1>6 DEF T
<1> QED
  BY <1>1, <1>7 DEF n

\* What is left of a number by two divisions.
LEMMA DivideTwice ==
  ASSUME NEW n \in Nat, NEW L \in Nat \ {0}
  PROVE  n \div L \in Nat /\ (n \div L) % 16 \in 0..15
         /\ 16 * (n \div (16 * L)) + ((n \div L) % 16) = n \div L
<1> DEFINE q == n \div L
           p == q \div 16
           b == q % 16
           r == n % L
<1>1. Splits(n, L, q, r) /\ q \in Nat
  BY DivMod, Cut
<1>2. Splits(q, 16, p, b)
  <2>1. 16 \in Nat \ {0} /\ q \in Nat
    BY <1>1
  <2> HIDE DEF q
  <2> QED
    BY ONLY <2>1, DivMod, Zenon
<1>3. b \in 0..15 /\ q = 16 * p + b
  BY <1>2 DEF Splits
<1>4. n \div (16 * L) = p
  <2> HIDE DEF q, p, b, r
  <2>1. Splits(n, L * 16, p, L * b + r)
    BY <1>1, <1>2, SplitMultiple
  <2>2. 16 * L = L * 16 /\ L * 16 \in Nat \ {0}
    OBVIOUS
  <2>3. n \div (L * 16) = p
    BY <2>1, <2>2, Parts
  <2> QED
    BY <2>2, <2>3
<1> QED
  <2>1. b = (n \div L) % 16 /\ q = n \div L
    OBVIOUS
  <2> HIDE DEF q, p, b, r
  <2> QED
    BY <1>1, <1>3, <1>4, <2>1

\* The last k hexadecimal digits of n.
Numeral(n, k) == [i \in 1..k |-> (n \div Power[k - i]) % 16]

LEMMA NumeralType ==
  ASSUME NEW n \in Nat, NEW k \in Nat
  PROVE  Numeral(n, k) \in Seq(0..15) /\ Numeral(n, k) \in Seq(Char) /\ Len(Numeral(n, k)) = k
<1>1. ASSUME NEW i \in 1..k
      PROVE  (n \div Power[k - i]) % 16 \in 0..15
  <2>1. k - i \in Nat
    OBVIOUS
  <2>2. Power[k - i] \in Nat \ {0}
    BY <2>1, PowerSteps
  <2> QED
    BY <2>2, DivideTwice
<1>2. Numeral(n, k) \in [1..k -> 0..15]
  BY <1>1 DEF Numeral
<1>3. Numeral(n, k) \in Seq(0..15) /\ Len(Numeral(n, k)) = k
  BY <1>2
<1>4. 0..15 \subseteq Char
  BY DEF Char, OtherChar
<1>5. Numeral(n, k) \in [1..k -> Char]
  BY <1>2, <1>4
<1> QED
  BY <1>3, <1>5

LEMMA NumeralRead ==
  ASSUME NEW n \in Nat, NEW k \in Nat, n < Power[k]
  PROVE  Number(Numeral(n, k)) = n
<1> DEFINE field == Numeral(n, k)
<1>1. field \in Seq(Char) /\ field \in Seq(0..15) /\ Len(field) = k
  BY NumeralType
<1>2. \A i \in 1..k : field[i] = (n \div Power[k - i]) % 16
  BY DEF Numeral
<1> HIDE DEF field
<1>3. \A i \in 1..k : HexCharToInt(field[i]) = field[i]
  <2>1. \A i \in 1..k : field[i] \in 0..15
    BY <1>1
  <2>2. \A c \in 0..15 : HexCharToInt(c) = c
    BY DEF HexCharToInt, OtherChar
  <2> QED
    BY <2>1, <2>2
<1>4. PICK v \in [0..k -> Nat] :
        /\ v[0] = 0
        /\ \A i \in 1..k : v[i] = 16 * v[i - 1] + HexCharToInt(field[i])
        /\ Number(field) = v[k]
  BY <1>1, NumberSteps
<1> DEFINE T == {i \in Nat : i <= k => v[i] = n \div Power[k - i]}
<1>5. 0 \in T
  <2>1. k - 0 = k /\ Power[k] \in Nat \ {0}
    BY PowerSteps
  <2>2. Splits(n, Power[k], 0, n)
    BY <2>1 DEF Splits
  <2>3. n \div Power[k] = 0
    BY <2>1, <2>2, Parts
  <2> QED
    BY <1>4, <2>1, <2>3
<1>6. ASSUME NEW i \in T
      PROVE  i + 1 \in T
  <2>1. i \in Nat /\ i + 1 \in Nat
    BY <1>6
  <2>2. SUFFICES ASSUME i + 1 <= k PROVE v[i + 1] = n \div Power[k - (i + 1)]
    BY <2>1
  <2> DEFINE j == k - (i + 1)
             L == Power[j]
  <2>3. i + 1 \in 1..k /\ i <= k /\ (i + 1) - 1 = i /\ j \in Nat /\ j + 1 = k - i
    BY <2>1, <2>2
  <2>4. v[i] = n \div Power[k - i]
    BY <1>6, <2>3
  <2>5. L \in Nat \ {0} /\ Power[k - i] = 16 * L
    <3> HIDE DEF j
    <3> QED
      BY <2>3, PowerSteps
  <2>6. v[i + 1] = 16 * v[i] + field[i + 1]
    BY <1>3, <1>4, <2>3
  <2>7. field[i + 1] = (n \div L) % 16
    BY <1>2, <2>3
  <2> HIDE DEF L, j
  <2>8. 16 * (n \div (16 * L)) + ((n \div L) % 16) = n \div L
    BY <2>5, DivideTwice
  <2>9. v[i + 1] = n \div L
    BY <2>4, <2>5, <2>6, <2>7, <2>8
  <2> QED
    BY <2>9 DEF L, j
<1>7. T \in SUBSET Nat
  OBVIOUS
<1> HIDE DEF T
<1>8. T = Nat
  BY <1>5, <1>6, <1>7, Induction
<1>9. v[k] = n \div Power[k - k]
  <2>1. k \in T /\ k <= k
    BY <1>8
  <2> QED
    BY <2>1 DEF T
<1>10. k - k = 0 /\ n \div 1 = n
  OBVIOUS
<1> QED
  BY <1>4, <1>9, <1>10, PowerSteps DEF field

\* Digits prints a number with as many digits as it has, and width at least.
LEMMA DigitsChosen ==
  ASSUME NEW n \in Nat, NEW width \in Nat, n < Power[width + WORD_DIGITS]
  PROVE  \E k \in width..width+WORD_DIGITS :
           /\ n < Power[k] /\ \A j \in width..k-1 : n >= Power[j]
           /\ Digits(n, width) = Numeral(n, k)
<1> DEFINE R == width..width+WORD_DIGITS
           fits == {k \in R : n < Power[k]}
           P(k) == n < Power[k] /\ \A j \in width..k-1 : n >= Power[j]
<1>0. WORD_DIGITS \in Nat /\ width + WORD_DIGITS \in R
  BY ProgramAssumption
<1>1. fits \in SUBSET Nat /\ fits # {}
  BY <1>0
<1>2. PICK m \in fits : \A y \in fits : m <= y
  <2> HIDE DEF fits
  <2> QED
    BY <1>1, Smallest
<1>3. m \in R /\ P(m)
  <2>1. ASSUME NEW j \in width..m-1
        PROVE  n >= Power[j]
    <3>1. m \in R /\ j \in R /\ ~(m <= j) /\ j \in Nat
      BY <1>0, <1>2
    <3>2. ~(n < Power[j])
      BY <1>2, <3>1
    <3>3. Power[j] \in Nat
      BY <3>1, PowerSteps
    <3> QED
      BY <3>2, <3>3
  <2> QED
    BY <1>2, <2>1
<1> DEFINE k == CHOOSE k \in R : P(k)
<1>4. k \in R /\ P(k)
  <2> HIDE DEF P, R
  <2> QED
    BY <1>3
<1>5. Digits(n, width) = Numeral(n, k)
  BY DEF Digits, Numeral
<1> HIDE DEF k
<1> QED
  BY <1>4, <1>5

(***************************************************************************)
(* What program_print writes of a number is read back by write_procedure   *)
(* and address_procedure as that number, whichever width it is padded to   *)
(* and however many digits more it takes.                                  *)
(***************************************************************************)
THEOREM DigitsRead ==
  ASSUME NEW n \in Nat, NEW width \in Nat, n < Power[width + WORD_DIGITS]
  PROVE  Number(Digits(n, width)) = n
<1>1. PICK k \in width..width+WORD_DIGITS : n < Power[k] /\ Digits(n, width) = Numeral(n, k)
  BY DigitsChosen
<1>2. k \in Nat
  BY ProgramAssumption
<1> QED
  BY <1>1, <1>2, NumeralRead

\* A number of w digits at most is printed with no more, if the width allows.
LEMMA DigitsFit ==
  ASSUME NEW n \in Nat, NEW width \in Nat, NEW w \in width..width+WORD_DIGITS, n < Power[w]
  PROVE  /\ Digits(n, width) \in Seq(Char)
         /\ Len(Digits(n, width)) \in width..w
         /\ Number(Digits(n, width)) = n
<1>0. WORD_DIGITS \in Nat
  BY ProgramAssumption
<1>1. n < Power[width + WORD_DIGITS]
  <2>1. w \in Nat /\ width + WORD_DIGITS \in Nat /\ w <= width + WORD_DIGITS
    BY <1>0
  <2>2. Power[w] \in Nat /\ Power[width + WORD_DIGITS] \in Nat
    BY <2>1, PowerSteps
  <2>3. Power[w] <= Power[width + WORD_DIGITS]
    BY <2>1, PowerGrows
  <2> QED
    BY <2>2, <2>3
<1>2. PICK k \in width..width+WORD_DIGITS :
        /\ \A j \in width..k-1 : n >= Power[j]
        /\ Digits(n, width) = Numeral(n, k)
  BY <1>1, DigitsChosen
<1>3. k \in Nat /\ w \in Nat /\ Power[w] \in Nat
  BY <1>0, PowerSteps
<1>4. ~(w \in width..k-1)
  BY <1>2, <1>3
<1>5. k \in width..w
  BY <1>0, <1>3, <1>4
<1>6. Number(Digits(n, width)) = n
  BY <1>1, DigitsRead
<1> QED
  BY <1>2, <1>3, <1>5, <1>6, NumeralType

-----------------------------------------------------------------------------
(* A command and the line that is printed of it.                           *)

\* 64 bits, whatever they are, are cut to an address.
LEMMA AddressRead ==
  ASSUME NEW n \in Nat
  PROVE  InitVirtAddr64(n) \in VirtAddr
BY PageAssumption, CutFive DEF InitVirtAddr64, InitVirtAddr, VirtAddr, TableIndex, PageOffset

\* An address is written as a number of ADDR_DIGITS digits, and cut from it.
LEMMA AddressBack ==
  ASSUME NEW v \in VirtAddr
  PROVE  /\ VirtAddrToUint64(v) \in Nat /\ VirtAddrToUint64(v) < Power[ADDR_DIGITS]
         /\ InitVirtAddr64(VirtAddrToUint64(v)) = v
<1> DEFINE n == VirtAddrToUint64(v)
           E == PD_ENTRIES
           P == PAGE_SIZE
<1>1. /\ E \in Nat \ {0} /\ P \in Nat \ {0}
      /\ v.pgd_entry \in 0..E-1 /\ v.pud_entry \in 0..E-1
      /\ v.pmd_entry \in 0..E-1 /\ v.pte_entry \in 0..E-1 /\ v.page_offset \in 0..P-1
  BY PageAssumption DEF VirtAddr, TableIndex, PageOffset
<1>2. n = P * (E * (E * (E * v.pgd_entry + v.pud_entry) + v.pmd_entry) + v.pte_entry)
            + v.page_offset
  BY DEF VirtAddrToUint64, VirtualPageNumber
<1> HIDE DEF n
<1>3. HasFive(n, E, P, v.pgd_entry, v.pud_entry, v.pmd_entry, v.pte_entry, v.page_offset)
  <2> HIDE DEF E, P
  <2> QED
    BY ONLY <1>1, <1>2, JoinFive
<1>4. InitVirtAddr64(n) =
        InitVirtAddr(v.pgd_entry, v.pud_entry, v.pmd_entry, v.pte_entry, v.page_offset)
  BY <1>3 DEF HasFive, InitVirtAddr64
<1>5. InitVirtAddr(v.pgd_entry, v.pud_entry, v.pmd_entry, v.pte_entry, v.page_offset) = v
  BY DEF InitVirtAddr, VirtAddr
<1>6. n \in Nat /\ n < Power[ADDR_DIGITS]
  <2> DEFINE bound == P * (E * (E * (E * E)))
  <2>1. n \in Nat /\ n < bound
    BY <1>3 DEF HasFive
  <2>2. bound \in Nat
    <3>1. \A i, j \in Nat : i * j \in Nat
      OBVIOUS
    <3> QED
      BY <1>1, <3>1
  <2>3. bound <= Power[ADDR_DIGITS] /\ Power[ADDR_DIGITS] \in Nat
    BY ProgramAssumption, PowerSteps
  <2> HIDE DEF bound
  <2> QED
    BY <2>1, <2>2, <2>3
<1> QED
  BY <1>4, <1>5, <1>6 DEF n

\* The word that is written is printed with its zeros, a byte with two digits.
DataWidth(command) == IF command.data_size = 4 THEN WORD_DIGITS ELSE 2

LEMMA DataPrinted ==
  ASSUME NEW c \in Command
  PROVE  LET data == Digits(c.write_data, DataWidth(c))
         IN  data \in Seq(Char) /\ Len(data) \in 2..WORD_DIGITS /\ Number(data) = c.write_data
<1> DEFINE n == c.write_data
           w == DataWidth(c)
<1>1. WORD_DIGITS \in Nat /\ WORD_DIGITS >= 2
  BY ProgramAssumption
<1>2. n \in Nat /\ n < Power[WORD_DIGITS]
  <2>1. Power[WORD_DIGITS] \in Nat
    BY <1>1, PowerSteps
  <2>2. n \in 0..Power[WORD_DIGITS]-1
    BY DEF Command, Data
  <2> QED
    BY <2>1, <2>2
<1>3. w \in Nat /\ w >= 2 /\ w <= WORD_DIGITS /\ WORD_DIGITS \in w..w+WORD_DIGITS
  BY <1>1 DEF DataWidth
<1> HIDE DEF n, w
<1>4. /\ Digits(n, w) \in Seq(Char) /\ Len(Digits(n, w)) \in w..WORD_DIGITS
      /\ Number(Digits(n, w)) = n
  BY <1>2, <1>3, DigitsFit
<1>5. Len(Digits(n, w)) \in 2..WORD_DIGITS
  BY <1>1, <1>3, <1>4
<1> QED
  BY <1>4, <1>5 DEF n, w

LEMMA AddressPrinted ==
  ASSUME NEW v \in VirtAddr
  PROVE  LET addr == Digits(VirtAddrToUint64(v), ADDR_DIGITS)
         IN  addr \in Seq(Char) /\ Len(addr) = ADDR_DIGITS /\ InitVirtAddr64(Number(addr)) = v
<1> DEFINE n == VirtAddrToUint64(v)
           w == ADDR_DIGITS
<1>1. n \in Nat /\ n < Power[w] /\ InitVirtAddr64(n) = v
  BY AddressBack
<1>2. w \in Nat /\ w \in w..w+WORD_DIGITS
  BY ProgramAssumption
<1> HIDE DEF n, w
<1>3. /\ Digits(n, w) \in Seq(Char) /\ Len(Digits(n, w)) \in w..w
      /\ Number(Digits(n, w)) = n
  BY <1>1, <1>2, DigitsFit
<1>4. Len(Digits(n, w)) = w
  BY <1>2, <1>3
<1> QED
  BY <1>1, <1>3, <1>4 DEF n, w

LEMMA LineOfCommand ==
  ASSUME NEW c \in Command
  PROVE  LineOf(c) \in Line
<1>1. c.vaddr \in VirtAddr
  BY DEF Command
<1>2. Digits(c.write_data, IF c.data_size = 4 THEN WORD_DIGITS ELSE 2) \in Seq(Char)
  BY DataPrinted DEF DataWidth
<1>3. Digits(VirtAddrToUint64(c.vaddr), ADDR_DIGITS) \in Seq(Char)
  BY <1>1, AddressPrinted
<1>4. <<>> \in Seq(Char)
  OBVIOUS
<1> QED
  BY <1>2, <1>3, <1>4 DEF LineOf, Line

\* What is read is a command: its word fits, its address is cut.
LEMMA CommandOfLine ==
  ASSUME NEW line \in Line, Parses(line)
  PROVE  CommandOf(line) \in Command
<1>1. line.data \in Seq(Char) /\ line.addr \in Seq(Char)
  BY DEF Line
<1>2. 0 \in Data
  <2>1. Power[WORD_DIGITS] \in Nat \ {0}
    BY PowerSteps, ProgramAssumption
  <2> QED
    BY <2>1 DEF Data
<1>3. ASSUME line.order = "W"
      PROVE  Number(line.data) \in Data
  <2> DEFINE k == Len(line.data)
             n == Number(line.data)
  <2>1. n \in Nat /\ n < Power[k]
    BY <1>1, NumberBound
  <2>2. k \in Nat /\ k <= WORD_DIGITS /\ WORD_DIGITS \in Nat
    BY <1>1, <1>3, ProgramAssumption DEF Parses, WriteProcedure
  <2> HIDE DEF k, n
  <2>3. Power[k] \in Nat /\ Power[WORD_DIGITS] \in Nat /\ Power[k] <= Power[WORD_DIGITS]
    BY <2>2, PowerSteps, PowerGrows
  <2>4. n \in 0..Power[WORD_DIGITS]-1
    BY <2>1, <2>3
  <2> QED
    BY <2>4 DEF n, Data
<1>4. InitVirtAddr64(Number(line.addr)) \in VirtAddr
  BY <1>1, NumberBound, AddressRead
<1>5. (IF line.order = "R" THEN 0 ELSE Number(line.data)) \in Data
  BY <1>2, <1>3 DEF Parses
<1> QED
  BY <1>4, <1>5 DEF CommandOf, Command, Order, Access

(***************************************************************************)
(* program_read takes every line that program_print makes of a command     *)
(* that can be executed, and the command that it stores is that one, but   *)
(* for the write_data of a read, which has no place in the line.           *)
(***************************************************************************)
THEOREM PrintedReadBack ==
  ASSUME NEW c \in Command, Executable(c)
  PROVE  Parses(LineOf(c)) /\ CommandOf(LineOf(c)) = Reread(c)
<1> DEFINE data == Digits(c.write_data, DataWidth(c))
           addr == Digits(VirtAddrToUint64(c.vaddr), ADDR_DIGITS)
           line == LineOf(c)
<1>1. /\ c.order \in {"READ", "WRITE"} /\ c.type \in {"INSTRUCTION", "DATA"}
      /\ c.vaddr \in VirtAddr /\ c.data_size \in {1, 4}
      /\ c.type = "INSTRUCTION" => c.data_size = 4 /\ c.order = "READ"
  BY DEF Command, Order, Access, Executable
<1>2. data \in Seq(Char) /\ Len(data) \in 2..WORD_DIGITS /\ Number(data) = c.write_data
  BY DataPrinted
<1>3. Len(addr) = ADDR_DIGITS /\ InitVirtAddr64(Number(addr)) = c.vaddr
  BY <1>1, AddressPrinted
<1>4. line = [order |-> IF c.order = "READ" THEN "R" ELSE "W",
              type |-> IF c.type = "DATA" THEN "D" ELSE "I",
              size |-> IF c.type # "DATA" THEN "" ELSE IF c.data_size = 4 THEN "W" ELSE "B",
              hasData |-> c.order = "WRITE",
              data |-> IF c.order = "READ" THEN <<>> ELSE data,
              addr |-> addr]
  BY DEF LineOf, DataWidth
<1>5. Len(data) <= WORD_DIGITS
  <2> HIDE DEF data
  <2>1. WORD_DIGITS \in Nat
    BY ProgramAssumption
  <2> QED
    BY <1>2, <2>1
<1> HIDE DEF data, addr, line
<1>6. Parses(line)
  BY <1>1, <1>3, <1>4, <1>5 DEF Parses, ReadProcedure, WriteProcedure, WordOrByte
<1>7. CommandOf(line) = [order |-> c.order, type |-> c.type, data_size |-> c.data_size,
                         write_data |-> IF c.order = "READ" THEN 0 ELSE c.write_data,
                         vaddr |-> c.vaddr]
  BY <1>1, <1>2, <1>3, <1>4 DEF CommandOf
<1>8. c = [order |-> c.order, type |-> c.type, data_size |-> c.data_size,
           write_data |-> c.write_data, vaddr |-> c.vaddr]
  BY DEF Command
<1>9. CommandOf(line) = Reread(c)
  BY <1>7, <1>8 DEF Reread
<1> QED
  BY <1>6, <1>9 DEF line

-----------------------------------------------------------------------------
(* The lines that are counted.                                             *)

(***************************************************************************)
(* The lines that are counted are entries of the block, executable ones,   *)
(* and those that were accepted.                                           *)
(***************************************************************************)
Filled(entries, lines, room, taken) ==
  /\ lines \in Nat /\ room \in Nat \ {0} /\ lines <= room
  /\ DOMAIN entries = 0..room-1
  /\ \A i \in 1..lines : Executable(entries[i - 1])
  /\ taken = [i \in 1..lines |-> entries[i - 1]]

(***************************************************************************)
(* A listing is lost with lines still counted only after a failure, and    *)
(* only then is a new program_t given to program_free.                     *)
(***************************************************************************)
IInv ==
  /\ nb_lines \in Nat /\ Len(file) \in Nat
  /\ listing \in {"unset", "NULL", "block"}
  /\ Running /\ Live => Filled(block, nb_lines, allocated, accepted)
  /\ Running /\ Dead /\ nb_lines > 0 => failed
  /\ UndefinedOnly

LEMMA SequenceLength ==
  ASSUME NEW n \in Nat, NEW S, NEW f \in [1..n -> S]
  PROVE  Len(f) = n
<1>1. f \in Seq(S)
  OBVIOUS
<1> QED
  BY <1>1

\* A command that is appended to the lines.
LEMMA AppendLine ==
  ASSUME NEW entries, NEW lines \in Nat, NEW command
  PROVE  LET stored == [entries EXCEPT ![lines] = command]
         IN  lines \in DOMAIN entries /\ (\A i \in 1..lines : i - 1 \in DOMAIN entries) =>
               Append([i \in 1..lines |-> entries[i - 1]], command)
                 = [i \in 1..lines+1 |-> stored[i - 1]]
<1> DEFINE stored == [entries EXCEPT ![lines] = command]
           old == [i \in 1..lines |-> entries[i - 1]]
           new == [i \in 1..lines+1 |-> stored[i - 1]]
           S == {entries[i - 1] : i \in 1..lines} \cup {command}
<1> SUFFICES ASSUME lines \in DOMAIN entries, \A i \in 1..lines : i - 1 \in DOMAIN entries
             PROVE  Append(old, command) = new
  OBVIOUS
<1>1. old \in [1..lines -> S] /\ command \in S
  OBVIOUS
<1>2. old \in Seq(S) /\ Len(old) = lines
  <2> HIDE DEF old, S
  <2> QED
    BY <1>1, SequenceLength
<1>3. /\ Append(old, command) \in [1..lines+1 -> S]
      /\ \A i \in 1..lines : Append(old, command)[i] = old[i]
      /\ Append(old, command)[lines + 1] = command
  <2> HIDE DEF old, S
  <2>1. /\ Append(old, command) \in Seq(S)
        /\ Len(Append(old, command)) = lines + 1
        /\ \A i \in 1..lines : Append(old, command)[i] = old[i]
        /\ Append(old, command)[lines + 1] = command
    BY <1>1, <1>2, AppendProperties
  <2> QED
    BY <2>1, LenProperties
<1>4. \A i \in 1..lines+1 : new[i] = IF i = lines + 1 THEN command ELSE entries[i - 1]
  OBVIOUS
<1>5. \A i \in 1..lines : old[i] = entries[i - 1]
  OBVIOUS
<1>6. \A i \in 1..lines+1 : Append(old, command)[i] = new[i]
  BY <1>3, <1>4, <1>5
<1>7. new \in [1..lines+1 -> S]
  BY <1>3, <1>6
<1> HIDE DEF old, new, S
<1> QED
  BY <1>3, <1>6, <1>7

LEMMA StoredFilled ==
  ASSUME NEW entries, NEW lines, NEW room, NEW taken, NEW command,
         Filled(entries, lines, room, taken), lines < room, Executable(command)
  PROVE  Filled([entries EXCEPT ![lines] = command], lines + 1, room, Append(taken, command))
<1> DEFINE stored == [entries EXCEPT ![lines] = command]
<1>1. lines \in Nat /\ room \in Nat \ {0} /\ DOMAIN entries = 0..room-1
  BY DEF Filled
<1>2. lines \in DOMAIN entries /\ \A i \in 1..lines : i - 1 \in DOMAIN entries
  BY <1>1
<1>3. Append(taken, command) = [i \in 1..lines+1 |-> stored[i - 1]]
  BY <1>1, <1>2, AppendLine DEF Filled
<1>4. ASSUME NEW i \in 1..lines+1
      PROVE  Executable(stored[i - 1])
  <2>1. CASE i = lines + 1
    BY <1>1, <1>2, <2>1
  <2>2. CASE i \in 1..lines
    <3>1. stored[i - 1] = entries[i - 1]
      BY <1>1, <1>2, <2>2
    <3> QED
      BY <2>2, <3>1 DEF Filled
  <2> QED
    BY <1>1, <2>1, <2>2
<1>5. DOMAIN stored = 0..room-1
  BY <1>1
<1> HIDE DEF stored
<1>6. lines + 1 \in Nat /\ lines + 1 <= room
  BY <1>1
<1> QED
  BY <1>1, <1>3, <1>4, <1>5, <1>6 DEF Filled, stored

\* What realloc returns holds the lines, if there is room for them.
LEMMA ResizedFilled ==
  ASSUME NEW n \in Nat \ {0}, Filled(block, nb_lines, allocated, accepted), nb_lines <= n
  PROVE  Filled(Resized(n), nb_lines, n, accepted)
<1>1. /\ nb_lines \in Nat /\ allocated \in Nat \ {0} /\ nb_lines <= allocated
      /\ DOMAIN block = 0..allocated-1
  BY DEF Filled
<1>2. DOMAIN Resized(n) = 0..n-1
  BY DEF Resized
<1>3. \A i \in 1..nb_lines : Resized(n)[i - 1] = block[i - 1]
  BY <1>1 DEF Resized
<1>4. [i \in 1..nb_lines |-> Resized(n)[i - 1]] = [i \in 1..nb_lines |-> block[i - 1]]
  BY <1>3
<1> QED
  BY <1>1, <1>2, <1>3, <1>4 DEF Filled

LEMMA AcceptsExecutable ==
  ASSUME NEW command, command.order \in Order, Accepts(command)
  PROVE  Executable(command)
BY DEF Accepts, Executable, Order

LEMMA ParsedExecutable ==
  ASSUME NEW line, Parses(line)
  PROVE  Executable(CommandOf(line))
<1>1. CommandOf(line).data_size \in {1, 4}
  BY DEF CommandOf
<1>2. ASSUME CommandOf(line).type = "INSTRUCTION"
      PROVE  line.type = "I"
  BY <1>2 DEF CommandOf
<1>3. ASSUME line.type = "I"
      PROVE  CommandOf(line).data_size = 4 /\ CommandOf(line).order = "READ"
  <2>1. line.order = "R" /\ line.size = ""
    BY <1>3 DEF Parses, ReadProcedure, WriteProcedure
  <2> QED
    BY <2>1 DEF CommandOf
<1> QED
  BY <1>1, <1>2, <1>3 DEF Executable

-----------------------------------------------------------------------------
(* Every call keeps the invariant.                                         *)

LEMMA InitHolds ==
  ASSUME Init
  PROVE  IInv
<1>1. Len(file) \in Nat
  BY ProgramAssumption DEF Init
<1> QED
  BY <1>1 DEF Init, IInv, Live, UndefinedOnly, Running

\* program_init with a block, and without one.
LEMMA RoomFilled == Filled(Room(INIT_ALLOCATED), 0, INIT_ALLOCATED, <<>>)
<1>1. DOMAIN Room(INIT_ALLOCATED) = 0..INIT_ALLOCATED-1
  BY DEF Room
<1>2. <<>> = [i \in 1..0 |-> Room(INIT_ALLOCATED)[i - 1]]
  OBVIOUS
<1> QED
  BY <1>1, <1>2, ProgramAssumption DEF Filled

LEMMA InitStep ==
  ASSUME IInv, ProgramInit
  PROVE  IInv'
BY RoomFilled DEF IInv, ProgramInit, InitFails, PointTo, PointNowhere, Called, Live, Dead,
                  UndefinedOnly, Running

LEMMA StoreStep ==
  ASSUME NEW entries, NEW command, NEW room, room = allocated', file' = file,
         Filled(entries, nb_lines, room, accepted), nb_lines < room, Executable(command),
         Store(entries, command), IInv
  PROVE  IInv'
<1>0. nb_lines \in Nat /\ room \in Nat /\ DOMAIN entries = 0..room-1
  BY DEF Filled
<1>1. nb_lines \in DOMAIN entries
  <2>1. nb_lines \in 0..room-1
    BY ONLY <1>0, nb_lines < room
  <2> QED
    BY ONLY <1>0, <2>1
<1>2. /\ listing' = "block" /\ block' = [entries EXCEPT ![nb_lines] = command]
      /\ nb_lines' = nb_lines + 1 /\ accepted' = Append(accepted, command)
      /\ code' = "ERR_NONE"
  BY <1>1 DEF Store, PointTo, Called
<1>3. Filled(block', nb_lines', allocated', accepted')
  BY <1>2, StoredFilled
<1>4. nb_lines' \in Nat /\ Len(file') \in Nat
  BY <1>2 DEF IInv
<1> QED
  BY <1>2, <1>3, <1>4 DEF IInv, Live, Dead, UndefinedOnly

LEMMA AddStep ==
  ASSUME IInv, NEW command \in COMMANDS, AddCommand(command)
  PROVE  IInv'
<1>1. CASE Dead \/ ~Accepts(command)
  <2>1. CASE UNCHANGED <<listing, block, nb_lines, allocated, accepted, failed>>
    BY <1>1, <2>1 DEF AddCommand, IInv, Called, Live, Dead, Running, UndefinedOnly
  <2> QED
    BY <1>1, <2>1 DEF AddCommand, Live, Dead
<1>2. CASE Live /\ Accepts(command)
  <2>1. Filled(block, nb_lines, allocated, accepted) /\ file' = file
    BY <1>2 DEF AddCommand, IInv, Called, Store
  <2>2. nb_lines \in Nat /\ allocated \in Nat \ {0} /\ nb_lines <= allocated
    BY <2>1 DEF Filled
  <2>3. Executable(command)
    BY <1>2, AcceptsExecutable, ProgramAssumption DEF Command
  <2>4. CASE nb_lines < allocated
    <3>1. Store(block, command) /\ allocated' = allocated
      BY <1>2, <2>2, <2>4 DEF AddCommand, Live, Dead
    <3> QED
      BY <2>1, <2>3, <2>4, <3>1, StoreStep
  <2>5. CASE nb_lines >= allocated
    <3>1. allocated' = 2 * allocated /\ 2 * allocated \in Nat \ {0} /\ nb_lines < 2 * allocated
      BY <1>2, <2>2, <2>5 DEF AddCommand, Live, Dead
    <3>2. Filled(Resized(2 * allocated), nb_lines, 2 * allocated, accepted)
      BY <2>1, <2>2, <3>1, ResizedFilled
    <3>3. CASE Store(Resized(2 * allocated), command)
      BY <2>1, <2>3, <3>1, <3>2, <3>3, StoreStep
    <3>4. CASE /\ Called("add", "ERR_MEM") /\ PointNowhere /\ failed' = TRUE
               /\ UNCHANGED <<nb_lines, accepted>>
      BY <2>1, <2>2, <3>4 DEF IInv, Called, PointNowhere, Live, Dead, Running, UndefinedOnly
    <3>5. ~(nb_lines < allocated) /\ ~(Dead \/ ~Accepts(command))
      BY <1>2, <2>2, <2>5 DEF Live, Dead
    <3> QED
      BY <3>3, <3>4, <3>5 DEF AddCommand
  <2> QED
    BY <2>2, <2>4, <2>5
<1> QED
  BY <1>1, <1>2 DEF Live, Dead

LEMMA ShrinkStep ==
  ASSUME IInv, ProgramShrink
  PROVE  IInv'
<1>0. nb_lines' = nb_lines /\ file' = file /\ accepted' = accepted
  BY DEF ProgramShrink
<1>1. CASE UNCHANGED <<listing, block, allocated, failed>>
  BY <1>0, <1>1 DEF ProgramShrink, IInv, Called, Live, Dead, Running, UndefinedOnly
<1>2. CASE Live /\ nb_lines > SHRINK_MIN /\ allocated' = nb_lines
  <2>1. CASE Called("shrink", "ERR_NONE") /\ PointTo(Resized(nb_lines)) /\ UNCHANGED failed
    <3>1. Filled(block, nb_lines, allocated, accepted) /\ nb_lines \in Nat \ {0}
      BY <1>2, <2>1, ProgramAssumption DEF IInv, Called
    <3>2. Filled(Resized(nb_lines), nb_lines, nb_lines, accepted)
      BY <3>1, ResizedFilled
    <3> QED
      BY <1>0, <1>2, <2>1, <3>2 DEF IInv, Called, PointTo, Live, Dead, UndefinedOnly
  <2>2. CASE Called("shrink", "ERR_MEM") /\ PointNowhere /\ failed' = TRUE
    BY <1>0, <2>2 DEF IInv, Called, PointNowhere, Live, UndefinedOnly
  <2> QED
    BY <1>1, <1>2, <2>1, <2>2 DEF ProgramShrink, Live, Dead
<1> QED
  BY <1>1, <1>2 DEF ProgramShrink

LEMMA PrintStep ==
  ASSUME IInv, ProgramPrint
  PROVE  IInv'
<1>0. UNCHANGED <<listing, block, nb_lines, allocated, accepted, failed>> /\ nb_lines \in Nat
  BY DEF ProgramPrint, IInv
<1>1. Len(file') \in Nat
  <2>1. CASE file' = [i \in 1..nb_lines |-> LineOf(block[i - 1])]
    <3> DEFINE lines == [i \in 1..nb_lines |-> LineOf(block[i - 1])]
               S == {LineOf(block[i - 1]) : i \in 1..nb_lines}
    <3>1. lines \in [1..nb_lines -> S]
      OBVIOUS
    <3> HIDE DEF lines, S
    <3>2. Len(lines) = nb_lines
      BY <1>0, <3>1, SequenceLength
    <3> QED
      BY <1>0, <2>1, <3>2 DEF lines
  <2> QED
    BY <2>1 DEF ProgramPrint, IInv
<1>2. CASE Called("print", "ERR_NONE")
  BY <1>0, <1>1, <1>2 DEF IInv, Called, Live, Dead, Running, UndefinedOnly
<1>3. CASE Called("print", "crash") /\ Dead /\ nb_lines > 0
  BY <1>0, <1>1, <1>3 DEF IInv, Called, Live, Dead, Running, UndefinedOnly
<1> QED
  BY <1>2, <1>3 DEF ProgramPrint

LEMMA ReadLinesStep ==
  ASSUME IInv, NEW n \in 0..INIT_ALLOCATED, ReadLines(n), file' = file
  PROVE  IInv'
<1> DEFINE entries == [i \in 0..INIT_ALLOCATED-1 |->
                         IF i < n THEN CommandOf(file[i + 1]) ELSE Unset]
<1>0. /\ n \in Nat /\ INIT_ALLOCATED \in Nat \ {0} /\ n <= INIT_ALLOCATED
      /\ Len(file) \in Nat /\ Len(file') = Len(file)
  BY ProgramAssumption DEF IInv
<1>1. listing' = "block" /\ block' = entries /\ allocated' = INIT_ALLOCATED
  BY DEF ReadLines, PointTo
<1>2. \A i \in 1..n : Parses(file[i])
  BY DEF ReadLines
<1>3. CASE /\ Called("read", "ERR_NONE") /\ nb_lines' = n
           /\ accepted' = [i \in 1..n |-> CommandOf(file[i])]
  <2>1. \A i \in 1..n : i - 1 \in 0..INIT_ALLOCATED-1 /\ (i - 1) + 1 = i
    BY <1>0
  <2>2. \A i \in 1..n : entries[i - 1] = CommandOf(file[i])
    BY <1>0, <2>1
  <2>3. \A i \in 1..n : Executable(entries[i - 1])
    BY <1>2, <2>2, ParsedExecutable
  <2>4. accepted' = [i \in 1..n |-> entries[i - 1]]
    BY <1>3, <2>2
  <2>5. DOMAIN entries = 0..INIT_ALLOCATED-1
    OBVIOUS
  <2> HIDE DEF entries
  <2>6. Filled(entries, n, INIT_ALLOCATED, accepted')
    BY <1>0, <2>3, <2>4, <2>5 DEF Filled
  <2> QED
    BY <1>0, <1>1, <1>3, <2>6 DEF IInv, Called, Live, Dead, UndefinedOnly
<1>4. CASE Called("read", "ERR_BAD_PARAMETER") /\ nb_lines' = 0 /\ accepted' = <<>>
  <2>1. DOMAIN entries = 0..INIT_ALLOCATED-1 /\ <<>> = [i \in 1..0 |-> entries[i - 1]]
    OBVIOUS
  <2> HIDE DEF entries
  <2>2. Filled(entries, 0, INIT_ALLOCATED, <<>>)
    BY <1>0, <2>1 DEF Filled
  <2> QED
    BY <1>0, <1>1, <1>4, <2>2 DEF IInv, Called, Live, Dead, UndefinedOnly
<1>5. CASE Called("read", "overflow") /\ nb_lines' = 0 /\ n = INIT_ALLOCATED /\ n < Len(file)
  <2> HIDE DEF entries
  <2>1. Len(file') > INIT_ALLOCATED
    BY <1>0, <1>5
  <2> QED
    BY <1>0, <1>1, <1>5, <2>1 DEF IInv, Called, Live, Dead, Running, UndefinedOnly
<1> HIDE DEF entries
<1> QED
  BY <1>3, <1>4, <1>5 DEF ReadLines

LEMMA ReadStep ==
  ASSUME IInv, ProgramRead
  PROVE  IInv'
<1>1. CASE \E n \in 0..INIT_ALLOCATED : ReadLines(n)
  BY <1>1, ReadLinesStep DEF ProgramRead
<1>2. CASE Called("read", "ERR_MEM") /\ InitFails /\ UNCHANGED file
  BY <1>2 DEF IInv, Called, InitFails, PointNowhere, Live, Dead, UndefinedOnly
<1>3. CASE /\ Dead /\ Called("read", "ERR_BAD_PARAMETER") /\ failed' = TRUE /\ UNCHANGED file
           /\ UNCHANGED <<listing, block, nb_lines, allocated, accepted>>
  BY <1>3 DEF IInv, Called, Live, Dead, UndefinedOnly
<1> QED
  BY <1>1, <1>2, <1>3 DEF ProgramRead

LEMMA FreeStep ==
  ASSUME IInv, ProgramFree
  PROVE  IInv'
BY DEF IInv, ProgramFree, PointNowhere, Called, Live, Dead, Running, UndefinedOnly

LEMMA IInvStep ==
  ASSUME IInv, [Next]_vars
  PROVE  IInv'
<1>1. CASE WriteFile
  <2>1. Len(file') \in Nat
    BY <1>1, ProgramAssumption DEF WriteFile
  <2> QED
    BY <1>1, <2>1 DEF WriteFile, IInv, Live, Dead, Running, UndefinedOnly
<1>2. CASE UNCHANGED vars
  BY <1>2 DEF vars, IInv, Live, Dead, Running, UndefinedOnly
<1> QED
  BY <1>1, <1>2, InitStep, AddStep, ShrinkStep, PrintStep, ReadStep, FreeStep DEF Next

LEMMA Invariance == Spec => []IInv
<1>1. Init => IInv
  BY InitHolds
<1>2. IInv /\ [Next]_vars => IInv'
  BY IInvStep
<1> QED
  BY <1>1, <1>2, PTL DEF Spec

-----------------------------------------------------------------------------
(***************************************************************************)
(* The types of the state, and what a file that program_print wrote holds. *)
(* A listing that is printed has only commands, by the first invariant:    *)
(* the entries beyond the lines may be Unset.                              *)
(***************************************************************************)
BlockTyped(entries) ==
  DOMAIN entries \subseteq Nat /\ entries \in [DOMAIN entries -> Command \cup {Unset}]

PrintedFile ==
  printed # None =>
    /\ printed \in Seq(Command)
    /\ \A i \in 1..Len(printed) : Executable(printed[i])
    /\ file = [i \in 1..Len(printed) |-> LineOf(printed[i])]

TInv == TypeOK /\ PrintedFile /\ RoundTrip

LEMMA RoomTyped ==
  ASSUME NEW n \in Nat
  PROVE  BlockTyped(Room(n))
BY DEF BlockTyped, Room

LEMMA ResizedTyped ==
  ASSUME NEW n \in Nat, BlockTyped(block)
  PROVE  BlockTyped(Resized(n))
BY DEF BlockTyped, Resized

LEMMA StoredTyped ==
  ASSUME NEW entries, BlockTyped(entries), NEW i, NEW command \in Command
  PROVE  BlockTyped([entries EXCEPT ![i] = command])
BY DEF BlockTyped

\* The lines that are counted are commands, and can be executed.
LEMMA LinesTyped ==
  ASSUME IInv, TypeOK, Running, Live
  PROVE  /\ Contents \in Seq(Command) /\ Len(Contents) = nb_lines
         /\ \A i \in 1..nb_lines : /\ Contents[i] = block[i - 1] /\ block[i - 1] \in Command
                                   /\ Executable(block[i - 1])
<1>1. nb_lines \in Nat /\ Contents = accepted /\ \A i \in 1..nb_lines : Executable(block[i - 1])
  BY DEF IInv, Filled, Contents
<1>2. accepted \in Seq(Command) /\ Contents \in [1..Len(accepted) -> Command]
  BY <1>1, LenProperties DEF TypeOK
<1>3. DOMAIN Contents = 1..nb_lines /\ \A i \in 1..nb_lines : Contents[i] = block[i - 1]
  BY DEF Contents
<1>4. Contents \in [1..nb_lines -> Command]
  BY <1>2, <1>3
<1>5. Len(Contents) = nb_lines
  BY <1>1, <1>4, SequenceLength
<1> QED
  BY <1>1, <1>2, <1>3, <1>4, <1>5

\* What program_print writes when there are lines to print, or none to lose.
LEMMA PrintedTyped ==
  ASSUME IInv, TypeOK, Running, Live \/ nb_lines = 0
  PROVE  LET lines == [i \in 1..nb_lines |-> LineOf(block[i - 1])]
         IN  /\ Contents \in Seq(Command) /\ Len(Contents) = nb_lines
             /\ \A i \in 1..nb_lines : Contents[i] = block[i - 1] /\ Executable(block[i - 1])
             /\ lines \in Seq(Line)
<1> DEFINE lines == [i \in 1..nb_lines |-> LineOf(block[i - 1])]
<1>0. nb_lines \in Nat
  BY DEF IInv
<1>1. CASE Live
  <2>1. lines \in [1..nb_lines -> Line]
    BY <1>1, LinesTyped, LineOfCommand
  <2>2. lines \in Seq(Line)
    <3> HIDE DEF lines
    <3> QED
      BY <1>0, <2>1
  <2> QED
    BY <1>1, <2>2, LinesTyped
<1>2. CASE nb_lines = 0
  <2>1. Contents = <<>> /\ lines = <<>>
    BY <1>2 DEF Contents
  <2> QED
    BY <1>2, <2>1
<1> QED
  BY <1>1, <1>2

-----------------------------------------------------------------------------
(* Every call keeps the types.                                             *)

LEMMA TypeInit ==
  ASSUME Init
  PROVE  TypeOK
<1>1. BlockTyped(block)
  BY RoomTyped DEF Init, NoRoom
<1>2. file \in Seq(Line) /\ accepted \in Seq(Command) /\ nread \in Nat
  BY ProgramAssumption DEF Init
<1>3. /\ listing = "unset" /\ nb_lines = 0 /\ allocated = 0
      /\ printed = None /\ failed = FALSE
  BY DEF Init
<1> QED
  BY <1>1, <1>2, <1>3 DEF TypeOK, BlockTyped

\* The parts of the state that a call changes.
LEMMA TypeKept ==
  ASSUME TypeOK, listing' \in {"unset", "NULL", "block"}, BlockTyped(block'),
         nb_lines' \in Nat, allocated' \in Nat, accepted' \in Seq(Command), nread' \in Nat,
         failed' \in BOOLEAN, UNCHANGED <<file, printed>>
  PROVE  TypeOK'
BY DEF TypeOK, BlockTyped

LEMMA TypeFile ==
  ASSUME TypeOK, file' \in Seq(Line), printed' = None \/ printed' \in Seq(Command),
         UNCHANGED <<listing, block, nb_lines, allocated, accepted, nread, failed>>
  PROVE  TypeOK'
BY DEF TypeOK

LEMMA TypeInitFails ==
  ASSUME TypeOK, InitFails, UNCHANGED <<file, printed>>
  PROVE  TypeOK'
<1>1. BlockTyped(block')
  BY RoomTyped DEF InitFails, PointNowhere, NoRoom
<1> QED
  BY <1>1, TypeKept, ProgramAssumption DEF InitFails, PointNowhere

LEMMA TypeProgramInit ==
  ASSUME TypeOK, ProgramInit
  PROVE  TypeOK'
<1>1. CASE InitFails
  BY <1>1, TypeInitFails DEF ProgramInit
<1>2. CASE /\ PointTo(Room(INIT_ALLOCATED)) /\ nb_lines' = 0 /\ allocated' = INIT_ALLOCATED
           /\ accepted' = <<>> /\ nread' = 0 /\ UNCHANGED failed
  <2>1. BlockTyped(block') /\ INIT_ALLOCATED \in Nat
    BY <1>2, RoomTyped, ProgramAssumption DEF PointTo
  <2>2. failed' \in BOOLEAN /\ listing' = "block" /\ UNCHANGED <<file, printed>>
    BY <1>2 DEF TypeOK, PointTo, ProgramInit
  <2> QED
    BY <1>2, <2>1, <2>2, TypeKept
<1> QED
  BY <1>1, <1>2 DEF ProgramInit

LEMMA TypeStore ==
  ASSUME TypeOK, NEW entries, BlockTyped(entries), NEW command \in Command,
         Store(entries, command), allocated' \in Nat, failed' \in BOOLEAN,
         UNCHANGED <<file, printed, nread>>
  PROVE  TypeOK'
<1>1. nb_lines \in Nat /\ accepted \in Seq(Command) /\ listing \in {"unset", "NULL", "block"}
      /\ BlockTyped(block) /\ nread' \in Nat
  BY DEF TypeOK, BlockTyped
<1>2. CASE /\ PointTo([entries EXCEPT ![nb_lines] = command])
           /\ nb_lines' = nb_lines + 1 /\ accepted' = Append(accepted, command)
  <2>1. BlockTyped(block') /\ listing' = "block"
    BY <1>2, StoredTyped DEF PointTo
  <2>2. nb_lines' \in Nat /\ accepted' \in Seq(Command)
    BY <1>1, <1>2
  <2> QED
    BY <1>1, <2>1, <2>2, TypeKept
<1>3. CASE UNCHANGED <<listing, block, nb_lines, accepted>>
  BY <1>1, <1>3, TypeKept
<1> QED
  BY <1>2, <1>3 DEF Store

LEMMA TypeAdd ==
  ASSUME TypeOK, NEW command \in COMMANDS, AddCommand(command)
  PROVE  TypeOK'
<1>1. /\ nb_lines \in Nat /\ allocated \in Nat /\ failed \in BOOLEAN /\ BlockTyped(block)
      /\ accepted \in Seq(Command) /\ listing \in {"unset", "NULL", "block"}
  BY DEF TypeOK, BlockTyped
<1>2. command \in Command /\ nread \in Nat /\ UNCHANGED <<file, printed, nread>>
  BY ProgramAssumption DEF AddCommand, TypeOK
<1>3. CASE UNCHANGED <<listing, block, nb_lines, allocated, accepted, failed>>
  BY <1>1, <1>2, <1>3, TypeKept
<1>4. CASE Store(block, command) /\ UNCHANGED <<allocated, failed>>
  BY <1>1, <1>2, <1>4, TypeStore
<1>5. CASE allocated' = 2 * allocated /\ Store(Resized(2 * allocated), command) /\ UNCHANGED failed
  <2>1. 2 * allocated \in Nat
    BY <1>1
  <2>2. BlockTyped(Resized(2 * allocated))
    BY <1>1, <2>1, ResizedTyped
  <2> QED
    BY <1>1, <1>2, <1>5, <2>1, <2>2, TypeStore
<1>6. CASE /\ allocated' = 2 * allocated /\ PointNowhere /\ failed' = TRUE
           /\ UNCHANGED <<nb_lines, accepted>>
  <2>1. 2 * allocated \in Nat
    BY <1>1
  <2>2. BlockTyped(block') /\ listing' = "NULL"
    BY <1>6, RoomTyped DEF PointNowhere, NoRoom
  <2> QED
    BY <1>1, <1>2, <1>6, <2>1, <2>2, TypeKept
<1> QED
  BY <1>3, <1>4, <1>5, <1>6 DEF AddCommand

LEMMA TypeShrink ==
  ASSUME TypeOK, ProgramShrink
  PROVE  TypeOK'
<1>1. /\ nb_lines \in Nat /\ allocated \in Nat /\ failed \in BOOLEAN /\ BlockTyped(block)
      /\ accepted \in Seq(Command) /\ listing \in {"unset", "NULL", "block"}
  BY DEF TypeOK, BlockTyped
<1>2. nread \in Nat /\ UNCHANGED <<nb_lines, file, printed, accepted, nread>>
  BY DEF ProgramShrink, TypeOK
<1>3. CASE UNCHANGED <<listing, block, allocated, failed>>
  BY <1>1, <1>2, <1>3, TypeKept
<1>4. CASE allocated' = nb_lines /\ PointTo(Resized(nb_lines)) /\ UNCHANGED failed
  <2>1. BlockTyped(block') /\ listing' = "block"
    BY <1>1, <1>4, ResizedTyped DEF PointTo
  <2> QED
    BY <1>1, <1>2, <1>4, <2>1, TypeKept
<1>5. CASE allocated' = nb_lines /\ PointNowhere /\ failed' = TRUE
  <2>1. BlockTyped(block') /\ listing' = "NULL"
    BY <1>5, RoomTyped DEF PointNowhere, NoRoom
  <2> QED
    BY <1>1, <1>2, <1>5, <2>1, TypeKept
<1> QED
  BY <1>3, <1>4, <1>5 DEF ProgramShrink

LEMMA TypePrint ==
  ASSUME IInv, TypeOK, ProgramPrint
  PROVE  TypeOK'
<1>1. UNCHANGED <<listing, block, nb_lines, allocated, accepted, nread, failed>> /\ Running
  BY DEF ProgramPrint, Called
<1>2. CASE UNCHANGED <<file, printed>>
  BY <1>1, <1>2 DEF TypeOK
<1>3. CASE /\ Live \/ nb_lines = 0
           /\ file' = [i \in 1..nb_lines |-> LineOf(block[i - 1])] /\ printed' = Contents
  <2>1. file' \in Seq(Line) /\ printed' \in Seq(Command)
    BY <1>1, <1>3, PrintedTyped
  <2> QED
    BY <1>1, <2>1, TypeFile
<1> QED
  BY <1>2, <1>3 DEF ProgramPrint

LEMMA TypeReadLines ==
  ASSUME TypeOK, NEW n \in 0..INIT_ALLOCATED, ReadLines(n), UNCHANGED <<file, printed>>
  PROVE  TypeOK'
<1> DEFINE entries == [i \in 0..INIT_ALLOCATED-1 |->
                         IF i < n THEN CommandOf(file[i + 1]) ELSE Unset]
<1>0. n \in Nat /\ INIT_ALLOCATED \in Nat /\ file \in Seq(Line) /\ failed \in BOOLEAN
  BY ProgramAssumption DEF TypeOK
<1>1. n <= Len(file) /\ \A i \in 1..n : Parses(file[i])
  BY DEF ReadLines
<1>2. \A i \in 1..n : CommandOf(file[i]) \in Command
  <2>1. \A i \in 1..n : file[i] \in Line
    BY <1>0, <1>1
  <2> QED
    BY <1>1, <2>1, CommandOfLine
<1>3. BlockTyped(entries)
  <2>1. ASSUME NEW i \in 0..INIT_ALLOCATED-1
        PROVE  entries[i] \in Command \cup {Unset}
    <3>1. CASE i < n
      <4>1. i + 1 \in 1..n
        BY <1>0, <3>1
      <4>2. CommandOf(file[i + 1]) \in Command
        BY <1>2, <4>1
      <4> QED
        BY <3>1, <4>2
    <3>2. CASE ~(i < n)
      BY <3>2
    <3> QED
      BY <3>1, <3>2
  <2> QED
    BY <2>1 DEF BlockTyped
<1> HIDE DEF entries
<1>4. /\ listing' = "block" /\ block' = entries
      /\ allocated' = INIT_ALLOCATED /\ failed' = failed
  BY DEF ReadLines, PointTo, entries
<1>5. CASE nb_lines' = n /\ nread' = n /\ accepted' = [i \in 1..n |-> CommandOf(file[i])]
  <2>1. accepted' \in [1..n -> Command]
    BY <1>2, <1>5
  <2>2. accepted' \in Seq(Command)
    BY <1>0, <2>1
  <2> QED
    BY <1>0, <1>3, <1>4, <1>5, <2>2, TypeKept
<1>6. CASE nb_lines' = 0 /\ accepted' = <<>> /\ nread' = 0
  BY <1>0, <1>3, <1>4, <1>6, TypeKept
<1> QED
  BY <1>5, <1>6 DEF ReadLines

LEMMA TypeRead ==
  ASSUME TypeOK, ProgramRead
  PROVE  TypeOK'
<1>1. UNCHANGED <<file, printed>>
  BY DEF ProgramRead
<1>2. CASE failed' = TRUE /\ UNCHANGED <<listing, block, nb_lines, allocated, accepted, nread>>
  BY <1>1, <1>2 DEF TypeOK
<1> QED
  BY <1>1, <1>2, TypeInitFails, TypeReadLines DEF ProgramRead

LEMMA TypeFree ==
  ASSUME TypeOK, ProgramFree
  PROVE  TypeOK'
<1>1. UNCHANGED <<file, printed>>
  BY DEF ProgramFree
<1>2. CASE UNCHANGED <<listing, block, nb_lines, allocated, accepted, nread, failed>>
  BY <1>1, <1>2 DEF TypeOK
<1>3. CASE /\ PointNowhere /\ nb_lines' = 0 /\ allocated' = 0
           /\ accepted' = <<>> /\ nread' = 0 /\ failed' = FALSE
  <2>1. BlockTyped(block') /\ listing' = "NULL"
    BY <1>3, RoomTyped DEF PointNowhere, NoRoom
  <2>2. nb_lines' \in Nat /\ allocated' \in Nat /\ nread' \in Nat
    BY <1>3
  <2>3. accepted' \in Seq(Command)
    BY <1>3
  <2>4. failed' \in BOOLEAN
    BY <1>3
  <2> QED
    BY <1>1, <2>1, <2>2, <2>3, <2>4, TypeKept
<1> QED
  BY <1>2, <1>3 DEF ProgramFree

LEMMA TypeStep ==
  ASSUME IInv, TypeOK, [Next]_vars
  PROVE  TypeOK'
<1>1. CASE WriteFile
  <2>1. file' \in Seq(Line)
    BY <1>1, ProgramAssumption DEF WriteFile
  <2>2. /\ printed' = None
        /\ UNCHANGED <<listing, block, nb_lines, allocated, accepted, nread, failed>>
    BY <1>1 DEF WriteFile
  <2> QED
    BY <2>1, <2>2, TypeFile
<1>2. CASE UNCHANGED vars
  BY <1>2 DEF vars, TypeOK
<1> QED
  BY <1>1, <1>2, TypeProgramInit, TypeAdd, TypeShrink, TypePrint, TypeRead, TypeFree DEF Next

-----------------------------------------------------------------------------
(***************************************************************************)
(* The commands that were taken, whether the listing still holds them or   *)
(* not: all of them are counted, and those that no file gave were checked. *)
(***************************************************************************)
TakenInv ==
  /\ nb_lines = Len(accepted)
  /\ \A i \in 1..Len(accepted) : i > nread => Accepts(accepted[i])

LEMMA TakenNone ==
  ASSUME nb_lines' = 0, accepted' = <<>>
  PROVE  TakenInv'
BY DEF TakenInv

LEMMA TakenKept ==
  ASSUME TakenInv, UNCHANGED <<nb_lines, accepted, nread>>
  PROVE  TakenInv'
BY DEF TakenInv

LEMMA TakenAdd ==
  ASSUME TypeOK, TakenInv, NEW command \in COMMANDS, AddCommand(command)
  PROVE  TakenInv'
<1>1. accepted \in Seq(Command) /\ command \in Command /\ nread' = nread
  BY ProgramAssumption DEF TypeOK, AddCommand
<1>2. CASE UNCHANGED <<nb_lines, accepted>>
  BY <1>1, <1>2, TakenKept
<1>3. CASE nb_lines' = nb_lines + 1 /\ accepted' = Append(accepted, command) /\ Accepts(command)
  <2>1. /\ Len(accepted') = Len(accepted) + 1 /\ Len(accepted) \in Nat
        /\ \A i \in 1..Len(accepted) : accepted'[i] = accepted[i]
        /\ accepted'[Len(accepted) + 1] = command
    BY <1>1, <1>3, AppendProperties
  <2>2. \A i \in 1..Len(accepted') : i > nread' => Accepts(accepted'[i])
    BY <1>1, <1>3, <2>1 DEF TakenInv
  <2>3. nb_lines' = Len(accepted')
    BY <1>3, <2>1 DEF TakenInv
  <2> QED
    BY <2>2, <2>3 DEF TakenInv
<1> QED
  BY <1>2, <1>3 DEF AddCommand, Store, Live, Dead

LEMMA TakenReadLines ==
  ASSUME NEW n \in 0..INIT_ALLOCATED, ReadLines(n)
  PROVE  TakenInv'
<1>1. CASE nb_lines' = 0 /\ accepted' = <<>>
  BY <1>1, TakenNone
<1>2. CASE /\ nb_lines' = n /\ nread' = n
           /\ accepted' = [i \in 1..n |-> CommandOf(file[i])]
  <2> DEFINE S == {CommandOf(file[i]) : i \in 1..n}
  <2>1. n \in Nat /\ accepted' \in [1..n -> S]
    BY <1>2, ProgramAssumption
  <2> HIDE DEF S
  <2>2. Len(accepted') = n
    BY <2>1, SequenceLength
  <2> QED
    BY <1>2, <2>1, <2>2 DEF TakenInv
<1> QED
  BY <1>1, <1>2 DEF ReadLines

LEMMA TakenStep ==
  ASSUME TypeOK, TakenInv, [Next]_vars
  PROVE  TakenInv'
<1>1. CASE ProgramInit
  BY <1>1, TakenNone DEF ProgramInit, InitFails
<1>2. CASE ProgramShrink \/ ProgramPrint \/ WriteFile \/ UNCHANGED vars
  BY <1>2, TakenKept DEF ProgramShrink, ProgramPrint, WriteFile, vars
<1>3. CASE ProgramRead
  BY <1>3, TakenNone, TakenKept, TakenReadLines DEF ProgramRead, InitFails
<1>4. CASE ProgramFree
  BY <1>4, TakenNone, TakenKept DEF ProgramFree
<1> QED
  BY <1>1, <1>2, <1>3, <1>4, TakenAdd DEF Next

-----------------------------------------------------------------------------
(* What is printed is read back.                                           *)

LEMMA PrintedStep ==
  ASSUME IInv, TypeOK, PrintedFile, [Next]_vars
  PROVE  PrintedFile'
<1>1. CASE UNCHANGED <<file, printed>>
  BY <1>1 DEF PrintedFile
<1>2. CASE printed' = None
  BY <1>2 DEF PrintedFile
<1>3. CASE /\ ProgramPrint /\ (Live \/ nb_lines = 0)
           /\ file' = [i \in 1..nb_lines |-> LineOf(block[i - 1])] /\ printed' = Contents
  <2>1. Running
    BY <1>3 DEF ProgramPrint, Called
  <2>2. /\ Contents \in Seq(Command) /\ Len(Contents) = nb_lines
        /\ \A i \in 1..nb_lines : Contents[i] = block[i - 1] /\ Executable(block[i - 1])
    BY <1>3, <2>1, PrintedTyped
  <2>3. [i \in 1..nb_lines |-> LineOf(block[i - 1])]
          = [i \in 1..Len(Contents) |-> LineOf(Contents[i])]
    BY <2>2
  <2>4. \A i \in 1..Len(Contents) : Executable(Contents[i])
    BY <2>2
  <2> QED
    BY <1>3, <2>2, <2>3, <2>4 DEF PrintedFile
<1>4. ASSUME NEW command \in COMMANDS, AddCommand(command)
      PROVE  UNCHANGED <<file, printed>>
  BY <1>4 DEF AddCommand
<1> QED
  BY <1>1, <1>2, <1>3, <1>4
  DEF Next, vars, ProgramInit, ProgramShrink, ProgramPrint, ProgramRead, ProgramFree, WriteFile

\* A printed file is read to its end, and the listing is what was printed.
LEMMA PrintedRead ==
  ASSUME IInv, TypeOK, PrintedFile, printed # None, NEW n \in 0..INIT_ALLOCATED, ReadLines(n),
         UNCHANGED <<file, printed>>
  PROVE  code' = "overflow" \/ (code' = "ERR_NONE"
           /\ Contents' = [i \in 1..Len(printed) |-> Reread(printed[i])])
<1> DEFINE entries == [i \in 0..INIT_ALLOCATED-1 |->
                         IF i < n THEN CommandOf(file[i + 1]) ELSE Unset]
<1>0. n \in Nat /\ INIT_ALLOCATED \in Nat /\ n <= INIT_ALLOCATED /\ n <= Len(file)
  BY ProgramAssumption DEF ReadLines
<1>1. /\ printed \in Seq(Command) /\ \A i \in 1..Len(printed) : Executable(printed[i])
      /\ file = [i \in 1..Len(printed) |-> LineOf(printed[i])]
  BY DEF PrintedFile
<1>2. Len(printed) \in Nat /\ Len(file) = Len(printed)
  <2>1. Len(printed) \in Nat
    BY <1>1
  <2> DEFINE S == {LineOf(printed[i]) : i \in 1..Len(printed)}
  <2>2. file \in [1..Len(printed) -> S]
    BY <1>1
  <2> HIDE DEF S
  <2> QED
    BY <2>1, <2>2, SequenceLength
<1>3. ASSUME NEW i \in 1..Len(file)
      PROVE  /\ Parses(file[i]) /\ file[i].order \in {"R", "W"}
             /\ CommandOf(file[i]) = Reread(printed[i])
  <2>1. i \in 1..Len(printed) /\ printed[i] \in Command /\ Executable(printed[i])
    BY <1>1, <1>2
  <2>2. file[i] = LineOf(printed[i])
    BY <1>1, <2>1
  <2>3. Parses(LineOf(printed[i])) /\ CommandOf(LineOf(printed[i])) = Reread(printed[i])
    BY <2>1, PrintedReadBack
  <2>4. Parses(file[i]) => file[i].order \in {"R", "W"}
    BY DEF Parses
  <2> QED
    BY <2>2, <2>3, <2>4
<1>4. CASE n = Len(file) /\ Called("read", "ERR_NONE") /\ nb_lines' = n
  <2>1. block' = entries
    BY DEF ReadLines, PointTo
  <2>2. \A i \in 1..n : i - 1 \in 0..INIT_ALLOCATED-1 /\ (i - 1) + 1 = i /\ i - 1 < n
    BY <1>0
  <2>3. \A i \in 1..n : entries[i - 1] = CommandOf(file[i])
    BY <2>2
  <2> HIDE DEF entries
  <2>4. \A i \in 1..n : block'[i - 1] = Reread(printed[i])
    BY <1>3, <1>4, <2>1, <2>3
  <2>5. Contents' = [i \in 1..n |-> block'[i - 1]]
    BY <1>4 DEF Contents
  <2>6. Contents' = [i \in 1..n |-> Reread(printed[i])]
    BY <2>4, <2>5
  <2> QED
    BY <1>2, <1>4, <2>6 DEF Called
<1> HIDE DEF entries
<1>5. ASSUME n < Len(file)
      PROVE  Parses(file[n + 1]) /\ file[n + 1].order \in {"R", "W"}
  <2>1. n + 1 \in 1..Len(file)
    BY <1>0, <1>2, <1>5
  <2> QED
    BY <1>3, <2>1
<1>6. CASE Called("read", "overflow")
  BY <1>6 DEF Called
<1> QED
  BY <1>4, <1>5, <1>6 DEF ReadLines

LEMMA RoundTripStep ==
  ASSUME IInv, TypeOK, PrintedFile, RoundTrip, [Next]_vars
  PROVE  RoundTrip'
<1>1. CASE printed' = None
  BY <1>1 DEF RoundTrip
<1>2. CASE call' # "read"
  BY <1>2 DEF RoundTrip
<1>3. CASE failed' = TRUE
  BY <1>3 DEF RoundTrip
<1>4. CASE UNCHANGED vars
  BY <1>4 DEF vars, RoundTrip, Running, Contents
<1>5. CASE /\ printed' # None /\ UNCHANGED <<file, printed>>
           /\ \E n \in 0..INIT_ALLOCATED : ReadLines(n)
  <2>1. code' = "overflow" \/ (code' = "ERR_NONE"
           /\ Contents' = [i \in 1..Len(printed) |-> Reread(printed[i])])
    BY <1>5, PrintedRead
  <2>2. printed' = printed
    BY <1>5
  <2> QED
    BY <2>1, <2>2 DEF RoundTrip, Running
<1>6. ASSUME NEW command \in COMMANDS, AddCommand(command)
      PROVE  call' # "read"
  BY <1>6 DEF AddCommand, Store, Called
<1>7. ASSUME ProgramInit \/ ProgramShrink \/ ProgramPrint \/ ProgramFree
      PROVE  call' # "read"
  BY <1>7 DEF ProgramInit, ProgramShrink, ProgramPrint, ProgramFree, Called
<1>8. ASSUME ProgramRead
      PROVE  \/ failed' = TRUE
             \/ UNCHANGED <<file, printed>> /\ \E n \in 0..INIT_ALLOCATED : ReadLines(n)
  BY <1>8 DEF ProgramRead, InitFails
<1>9. ASSUME WriteFile
      PROVE  printed' = None
  BY <1>9 DEF WriteFile
<1> QED
  BY <1>1, <1>2, <1>3, <1>4, <1>5, <1>6, <1>7, <1>8, <1>9 DEF Next

LEMMA TypedInvariance == Spec => []TInv
<1>1. Init => TInv
  BY TypeInit DEF Init, TInv, PrintedFile, RoundTrip
<1>2. IInv /\ TInv /\ [Next]_vars => TInv'
  BY TypeStep, PrintedStep, RoundTripStep DEF TInv
<1> QED
  BY <1>1, <1>2, Invariance, PTL DEF Spec

LEMMA TakenInvariance == Spec => []TakenInv
<1>1. Init => TakenInv
  BY DEF Init, TakenInv
<1>2. TInv /\ TakenInv /\ [Next]_vars => TakenInv'
  BY TakenStep DEF TInv
<1> QED
  BY <1>1, <1>2, TypedInvariance, PTL DEF Spec

-----------------------------------------------------------------------------
(***************************************************************************)
(* However a listing grows, shrinks, is read and freed, and whichever      *)
(* allocation fails, its block has room for every line it counts.          *)
(***************************************************************************)
THEOREM ListingsHold == Spec => []ListingHolds
<1>1. IInv => ListingHolds
  BY DEF IInv, ListingHolds, Filled
<1> QED
  BY <1>1, Invariance, PTL

(***************************************************************************)
(* A live listing is what was accepted, in order and complete, and one     *)
(* that counts lines it does not hold was lost to a failed realloc.        *)
(***************************************************************************)
THEOREM ListingsKept == Spec => []CommandsKept
<1>1. IInv /\ TakenInv => CommandsKept
  BY DEF IInv, TakenInv, CommandsKept, Filled, Contents
<1> QED
  BY <1>1, Invariance, TakenInvariance, PTL

(***************************************************************************)
(* No command of any program writes an instruction or has another size,    *)
(* which the assumptions of Emulator ask of its commands, and whatever is  *)
(* added to a program, one that was read too, is one that                  *)
(* program_add_command accepts: only what was read may be misaligned.      *)
(***************************************************************************)
THEOREM ListingsLegal == Spec => []LegalCommands
<1>1. IInv /\ TakenInv => LegalCommands
  <2> SUFFICES ASSUME IInv, TakenInv, Running, Live, NEW i \in 1..nb_lines
               PROVE  Executable(block[i - 1]) /\ (i > nread => Accepts(block[i - 1]))
    BY DEF LegalCommands
  <2>1. Executable(block[i - 1]) /\ accepted[i] = block[i - 1] /\ i \in 1..Len(accepted)
    BY DEF IInv, TakenInv, Filled
  <2> QED
    BY <2>1 DEF TakenInv
<1> QED
  BY <1>1, Invariance, TakenInvariance, PTL

(***************************************************************************)
(* Only a failure before it makes a call crash, and only the reading of a  *)
(* file with more than INIT_ALLOCATED commands leaves the block.           *)
(***************************************************************************)
THEOREM OnlyFailuresCrash == Spec => []UndefinedOnly
<1>1. IInv => UndefinedOnly
  BY DEF IInv
<1> QED
  BY <1>1, Invariance, PTL

(***************************************************************************)
(* Every entry of every block is a command or unset, and every file that   *)
(* is printed is one of lines that program_read knows: no step of growing, *)
(* shrinking, printing or reading stores anything else.                    *)
(***************************************************************************)
THEOREM TypeCorrect == Spec => []TypeOK
<1>1. TInv => TypeOK
  BY DEF TInv
<1> QED
  BY <1>1, TypedInvariance, PTL

(***************************************************************************)
(* The file of any listing, printed at any time, is read back as the       *)
(* commands that were printed and with ERR_NONE; only the reading of more  *)
(* than INIT_ALLOCATED lines, which leaves the block, does not end so.     *)
(***************************************************************************)
THEOREM ProgramsReadBack == Spec => []RoundTrip
<1>1. TInv => RoundTrip
  BY DEF TInv
<1> QED
  BY <1>1, TypedInvariance, PTL
=============================================================================
