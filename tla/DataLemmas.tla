---------------------------- MODULE DataLemmas ----------------------------
(***************************************************************************)
(* Facts about numbers and sequences that several proofs rest on: \div and *)
(* % by a positive divisor, which the indices and tags of the TLBs and of  *)
(* the caches, the fields of an address and the words of a page are made   *)
(* with, and the move of an element to the end of a sequence.              *)
(***************************************************************************)
EXTENDS Integers, SequencesExt, WellFoundedInduction, TLAPS

-----------------------------------------------------------------------------
(* Quotients and remainders.                                               *)

\* q and r are the quotient and the remainder of v by L.
Splits(v, L, q, r) == q \in Nat /\ r \in 0..L-1 /\ v = L * q + r

\* \div and % split every number.
LEMMA DivMod ==
  ASSUME NEW v \in Nat, NEW L \in Nat \ {0}
  PROVE  Splits(v, L, v \div L, v % L)
BY DEF Splits

\* A number has one quotient and one remainder.
LEMMA SplitUnique ==
  ASSUME NEW v, NEW L \in Nat \ {0}, NEW q, NEW r, NEW p, NEW s,
         Splits(v, L, q, r), Splits(v, L, p, s)
  PROVE  q = p /\ r = s
<1> USE DEF Splits
<1>1. L * (q - p) = s - r
  OBVIOUS
<1>2. ~(q - p >= 1)
  <2>1. SUFFICES ASSUME q - p >= 1 PROVE FALSE
    OBVIOUS
  <2>2. L * (q - p) >= L
    BY <2>1
  <2> QED
    BY <1>1, <2>2
<1>3. ~(q - p <= -1)
  <2>1. SUFFICES ASSUME q - p <= -1 PROVE FALSE
    OBVIOUS
  <2>2. L * (q - p) <= -L
    BY <2>1
  <2> QED
    BY <1>1, <2>2
<1>4. q = p
  BY <1>2, <1>3
<1> QED
  BY <1>4

\* A quotient is below any bound whose multiple the number is below.
LEMMA SplitBound ==
  ASSUME NEW v, NEW L \in Nat \ {0}, NEW q, NEW r, Splits(v, L, q, r),
         NEW T \in Nat, v < L * T
  PROVE  q < T
<1> USE DEF Splits
<1>1. SUFFICES ASSUME q >= T PROVE FALSE
  OBVIOUS
<1>2. L * (q - T) >= 0
  BY <1>1
<1>3. L * q >= L * T
  BY <1>2
<1> QED
  BY <1>3

(***************************************************************************)
(* Splitting by L*k is splitting by L and then the quotient by k: the      *)
(* index of a larger table is the index of the smaller one extended by the *)
(* low part of the smaller table's tag.                                    *)
(***************************************************************************)
LEMMA SplitMultiple ==
  ASSUME NEW v, NEW L \in Nat \ {0}, NEW k \in Nat \ {0},
         NEW q, NEW r, Splits(v, L, q, r),
         NEW p, NEW b, Splits(q, k, p, b)
  PROVE  Splits(v, L * k, p, L * b + r)
<1> USE DEF Splits
<1>1. v = (L * k) * p + (L * b + r)
  <2>1. L * q = L * (k * p) + L * b
    OBVIOUS
  <2>2. L * (k * p) = (L * k) * p
    OBVIOUS
  <2> QED
    BY <2>1, <2>2
<1>2. L * b + r \in 0..(L * k)-1
  <2>1. L * (k - 1 - b) >= 0 /\ L * b >= 0
    OBVIOUS
  <2>2. L * (k - 1 - b) = L * k - L - L * b
    OBVIOUS
  <2>3. L * b \in Int /\ L * k \in Int
    OBVIOUS
  <2> QED
    BY <2>1, <2>2, <2>3
<1> QED
  BY <1>1, <1>2

\* What \div and % make of a number that is put together.
LEMMA Parts ==
  ASSUME NEW v \in Nat, NEW L \in Nat \ {0}, NEW q, NEW r, Splits(v, L, q, r)
  PROVE  v \div L = q /\ v % L = r
BY DivMod, SplitUnique

\* One level: an entry and what is above it.
LEMMA Join ==
  ASSUME NEW L \in Nat \ {0}, NEW q \in Nat, NEW r \in 0..L-1, NEW v, v = L * q + r
  PROVE  v \in Nat /\ Splits(v, L, q, r)
<1>1. \A m, n \in Nat : m * n \in Nat
  OBVIOUS
<1> QED
  BY <1>1 DEF Splits

\* The parts of a number.
LEMMA Cut ==
  ASSUME NEW n \in Nat, NEW L \in Nat \ {0}
  PROVE  /\ n \div L \in Nat
         /\ n % L \in 0..L-1
         /\ L * (n \div L) + (n % L) = n
BY DivMod DEF Splits

\* A number below N pages of size P is in one of them.
LEMMA PageOfNumber ==
  ASSUME NEW n \in Nat, NEW P \in Nat \ {0}, NEW N \in Nat \ {0}, n < P * N
  PROVE  n \div P \in 0..N-1
<1>1. Splits(n, P, n \div P, n % P)
  BY DivMod
<1>2. n \div P < N
  BY <1>1, SplitBound
<1> QED
  BY <1>1, <1>2 DEF Splits

\* A number of q < T parts of L is below L * T.
LEMMA JoinBound ==
  ASSUME NEW L \in Nat \ {0}, NEW T \in Nat, NEW q \in 0..T-1, NEW r \in 0..L-1
  PROVE  L * q + r < L * T
<1>1. L * (T - 1 - q) >= 0
  OBVIOUS
<1>2. L * (T - 1 - q) = L * T - L - L * q
  OBVIOUS
<1>3. L * T \in Int /\ L * q \in Int
  OBVIOUS
<1> QED
  BY <1>1, <1>2, <1>3

(***************************************************************************)
(* Numbers of four digits to the base E above one to the base P, which is  *)
(* what a 64-bit address is: cut into its parts, and put together.         *)
(***************************************************************************)
LEMMA CutFive ==
  ASSUME NEW n \in Nat, NEW E \in Nat \ {0}, NEW P \in Nat \ {0}
  PROVE  /\ n % P \in 0..P-1
         /\ (n \div P) % E \in 0..E-1
         /\ ((n \div P) \div E) % E \in 0..E-1
         /\ (((n \div P) \div E) \div E) % E \in 0..E-1
         /\ ((((n \div P) \div E) \div E) \div E) % E \in 0..E-1
<1> DEFINE d1 == n \div P
           d2 == d1 \div E
           d3 == d2 \div E
           d4 == d3 \div E
<1>1. d1 \in Nat /\ n % P \in 0..P-1
  BY Cut
<1>2. d2 \in Nat /\ d1 % E \in 0..E-1
  <2> HIDE DEF d1
  <2> QED
    BY <1>1, Cut
<1>3. d3 \in Nat /\ d2 % E \in 0..E-1
  <2> HIDE DEF d2
  <2> QED
    BY <1>2, Cut
<1>4. d4 \in Nat /\ d3 % E \in 0..E-1
  <2> HIDE DEF d3
  <2> QED
    BY <1>3, Cut
<1>5. d4 % E \in 0..E-1
  <2> HIDE DEF d4
  <2> QED
    BY <1>4, Cut
<1> QED
  BY <1>1, <1>2, <1>3, <1>4, <1>5

HasFive(n, E, P, a, b, c, d, o) ==
  /\ n \in Nat /\ n < P * (E * (E * (E * E)))
  /\ n % P = o
  /\ (n \div P) % E = d
  /\ ((n \div P) \div E) % E = c
  /\ (((n \div P) \div E) \div E) % E = b
  /\ ((((n \div P) \div E) \div E) \div E) % E = a

LEMMA JoinFive ==
  ASSUME NEW E \in Nat \ {0}, NEW P \in Nat \ {0},
         NEW a \in 0..E-1, NEW b \in 0..E-1, NEW c \in 0..E-1, NEW d \in 0..E-1, NEW o \in 0..P-1,
         NEW n, n = P * (E * (E * (E * a + b) + c) + d) + o
  PROVE  HasFive(n, E, P, a, b, c, d, o)
<1> DEFINE d3 == E * a + b
           d2 == E * d3 + c
           d1 == E * d2 + d
           E2 == E * E
           E3 == E * E2
           E4 == E * E3
<1>0. E2 \in Nat /\ E3 \in Nat /\ E4 \in Nat
  <2>1. \A i, j \in Nat : i * j \in Nat
    OBVIOUS
  <2> QED
    BY <2>1
<1>1. d3 \in Nat /\ d3 \div E = a /\ d3 % E = b /\ d3 < E2
  <2>1. E \in Nat /\ a \in Nat
    OBVIOUS
  <2>2. E * a + b < E * E
    BY <2>1, JoinBound
  <2>3. d3 \in Nat /\ Splits(d3, E, a, b)
    BY <2>1, Join
  <2>4. d3 < E2
    BY <2>2
  <2> HIDE DEF d3
  <2> QED
    BY <2>3, <2>4, Parts
<1>2. d2 \in Nat /\ d2 \div E = d3 /\ d2 % E = c /\ d2 < E3
  <2> HIDE DEF d3, E2
  <2>1. d3 \in 0..E2-1
    BY <1>0, <1>1
  <2>2. d2 \in Nat /\ Splits(d2, E, d3, c) /\ d2 < E3
    BY <1>0, <1>1, <2>1, Join, JoinBound
  <2> HIDE DEF d2
  <2> QED
    BY <2>2, Parts
<1>3. d1 \in Nat /\ d1 \div E = d2 /\ d1 % E = d /\ d1 < E4
  <2> HIDE DEF d2, E3
  <2>1. d2 \in 0..E3-1
    BY <1>0, <1>2
  <2>2. d1 \in Nat /\ Splits(d1, E, d2, d) /\ d1 < E4
    BY <1>0, <1>2, <2>1, Join, JoinBound
  <2> HIDE DEF d1
  <2> QED
    BY <2>2, Parts
<1>4. n \in Nat /\ n \div P = d1 /\ n % P = o /\ n < P * E4
  <2>0. n = P * d1 + o
    OBVIOUS
  <2> HIDE DEF d1, E4
  <2>1. d1 \in 0..E4-1
    BY <1>0, <1>3
  <2>2. n \in Nat /\ Splits(n, P, d1, o) /\ n < P * E4
    BY <1>0, <1>3, <2>0, <2>1, Join, JoinBound
  <2> QED
    BY <2>2, Parts
<1>5. a % E = a
  OBVIOUS
<1>6. P * E4 = P * (E * (E * (E * E)))
  OBVIOUS
<1> HIDE DEF d1, d2, d3, E2, E3, E4
<1> QED
  BY <1>1, <1>2, <1>3, <1>4, <1>5, <1>6 DEF HasFive

\* Some number of a set of numbers is the smallest.
LEMMA Smallest ==
  ASSUME NEW T \in SUBSET Nat, T # {}
  PROVE  \E x \in T : \A y \in T : x <= y
<1>1. PICK x \in T : \A y \in T : ~ (<<y, x>> \in OpToRel(<, Nat))
  BY NatLessThanWellFounded, WFMin
<1>2. ASSUME NEW y \in T PROVE x <= y
  <2>1. ~(y < x)
    BY <1>1, <1>2 DEF OpToRel
  <2> QED
    BY <2>1
<1> QED
  BY <1>2

-----------------------------------------------------------------------------
(* Induction and recursion over the naturals.  A set takes the place of a  *)
(* predicate and a function that of a step, so that every fact is about    *)
(* values and can be cited.                                                *)

\* A set of numbers that has 0 and every next number has them all.
LEMMA Induction ==
  ASSUME NEW T \in SUBSET Nat, 0 \in T, \A n \in T : n + 1 \in T
  PROVE  T = Nat
<1> DEFINE missing == Nat \ T
<1>1. SUFFICES ASSUME missing # {} PROVE FALSE
  OBVIOUS
<1>2. PICK x \in missing : \A y \in missing : x <= y
  <2>1. missing \in SUBSET Nat
    OBVIOUS
  <2> HIDE DEF missing
  <2> QED
    BY <1>1, <2>1, Smallest
<1>3. x \in Nat /\ x # 0
  BY <1>2
<1>4. x - 1 \in Nat /\ ~(x <= x - 1)
  BY <1>3
<1>5. x - 1 \in T
  BY <1>2, <1>4
<1>6. (x - 1) + 1 = x
  BY <1>3
<1>7. x \in T
  BY <1>5, <1>6
<1> QED
  BY <1>2, <1>7

\* The first n + 1 iterates of a step.
Iterates(S, base, step, n) ==
  {g \in [0..n -> S] : g[0] = base /\ \A i \in 0..n-1 : g[i + 1] = step[<<i, g[i]>>]}

LEMMA IteratesExist ==
  ASSUME NEW S, NEW base \in S, NEW step \in [Nat \X S -> S]
  PROVE  \A n \in Nat : Iterates(S, base, step, n) # {}
<1> DEFINE T == {n \in Nat : Iterates(S, base, step, n) # {}}
<1>1. 0 \in T
  <2> DEFINE g == [i \in 0..0 |-> base]
  <2>1. g \in Iterates(S, base, step, 0)
    BY DEF Iterates
  <2> QED
    BY <2>1
<1>2. ASSUME NEW n \in T
      PROVE  n + 1 \in T
  <2>1. PICK g : g \in Iterates(S, base, step, n)
    BY <1>2
  <2>2. g \in [0..n -> S] /\ g[0] = base /\ \A i \in 0..n-1 : g[i + 1] = step[<<i, g[i]>>]
    BY <2>1 DEF Iterates
  <2> DEFINE h == [i \in 0..n+1 |-> IF i = n + 1 THEN step[<<n, g[n]>>] ELSE g[i]]
  <2>3. n \in Nat /\ n + 1 \in Nat
    BY <1>2
  <2>4. step[<<n, g[n]>>] \in S
    BY <2>2, <2>3
  <2>5. h \in [0..n+1 -> S]
    BY <2>2, <2>3, <2>4
  <2>6. h[n + 1] = step[<<n, g[n]>>] /\ \A i \in 0..n : h[i] = g[i]
    BY <2>3
  <2> HIDE DEF h
  <2>7. h[0] = base
    BY <2>2, <2>3, <2>6
  <2>8. ASSUME NEW i \in 0..(n+1)-1
        PROVE  h[i + 1] = step[<<i, h[i]>>]
    <3>1. CASE i = n
      BY <2>3, <2>6, <3>1
    <3>2. CASE i # n
      <4>1. i \in 0..n-1 /\ i \in 0..n /\ i + 1 \in 0..n
        BY <2>3, <3>2
      <4> QED
        BY <2>2, <2>6, <4>1
    <3> QED
      BY <3>1, <3>2
  <2>9. h \in Iterates(S, base, step, n + 1)
    BY <2>5, <2>7, <2>8 DEF Iterates
  <2> QED
    BY <2>3, <2>9
<1>3. T \in SUBSET Nat
  OBVIOUS
<1> HIDE DEF T
<1>4. T = Nat
  BY <1>1, <1>2, <1>3, Induction
<1> QED
  BY <1>4 DEF T

LEMMA IteratesAgree ==
  ASSUME NEW S, NEW base \in S, NEW step \in [Nat \X S -> S], NEW n \in Nat, NEW m \in Nat,
         n <= m, NEW g \in Iterates(S, base, step, n), NEW h \in Iterates(S, base, step, m)
  PROVE  \A i \in 0..n : g[i] = h[i]
<1> DEFINE T == {i \in Nat : i <= n => g[i] = h[i]}
<1>1. /\ g[0] = base /\ \A i \in 0..n-1 : g[i + 1] = step[<<i, g[i]>>]
      /\ h[0] = base /\ \A i \in 0..m-1 : h[i + 1] = step[<<i, h[i]>>]
  BY DEF Iterates
<1>2. 0 \in T
  BY <1>1
<1>3. ASSUME NEW i \in T
      PROVE  i + 1 \in T
  <2>1. i \in Nat /\ i + 1 \in Nat
    BY <1>3
  <2>2. SUFFICES ASSUME i + 1 <= n PROVE g[i + 1] = h[i + 1]
    BY <2>1
  <2>3. i \in 0..n-1 /\ i \in 0..m-1 /\ i <= n
    BY <2>1, <2>2
  <2>4. g[i] = h[i]
    BY <1>3, <2>3
  <2> QED
    BY <1>1, <2>3, <2>4
<1>4. T \in SUBSET Nat
  OBVIOUS
<1> HIDE DEF T
<1>5. T = Nat
  BY <1>2, <1>3, <1>4, Induction
<1> QED
  BY <1>5 DEF T

HasRecursive(S, base, step) ==
  \E f \in [Nat -> S] : f[0] = base /\ \A n \in Nat : f[n + 1] = step[<<n, f[n]>>]

\* A function is defined by its value at 0 and by a step from each number.
LEMMA Recursion ==
  ASSUME NEW S, NEW base \in S, NEW step \in [Nat \X S -> S]
  PROVE  HasRecursive(S, base, step)
<1> DEFINE I(n) == Iterates(S, base, step, n)
           g(n) == CHOOSE h \in I(n) : TRUE
           f == [n \in Nat |-> g(n)[n]]
<1>1. \A n \in Nat : g(n) \in I(n)
  <2>1. \A n \in Nat : I(n) # {}
    BY IteratesExist
  <2> HIDE DEF I
  <2> QED
    BY <2>1
<1> HIDE DEF g
<1>2. ASSUME NEW n \in Nat
      PROVE  f[n] \in S /\ f[n + 1] = step[<<n, f[n]>>]
  <2>1. n + 1 \in Nat /\ n <= n + 1 /\ n \in 0..n /\ n \in 0..(n+1)-1
    OBVIOUS
  <2>2. g(n) \in I(n) /\ g(n + 1) \in I(n + 1)
    BY <1>1, <2>1
  <2>3. g(n)[n] = g(n + 1)[n]
    <3> HIDE DEF f
    <3>1. \A i \in 0..n : g(n)[i] = g(n + 1)[i]
      BY <2>1, <2>2, IteratesAgree
    <3> QED
      BY <2>1, <3>1
  <2>4. g(n)[n] \in S
    BY <2>1, <2>2 DEF Iterates
  <2>5. g(n + 1)[n + 1] = step[<<n, g(n + 1)[n]>>]
    BY <2>1, <2>2 DEF Iterates
  <2> QED
    BY <2>1, <2>3, <2>4, <2>5
<1>3. f[0] = base
  BY <1>1 DEF Iterates
<1>4. f \in [Nat -> S]
  BY <1>2
<1> HIDE DEF f
<1> QED
  BY <1>2, <1>3, <1>4 DEF HasRecursive

-----------------------------------------------------------------------------
(* move_back of list.c permutes a list.                                    *)

\* Element i of s moved to the end.
MovedBack(s, i) == Append(RemoveAt(s, i), s[i])

\* The elements after i come one place nearer, and i comes last.
LEMMA MovedBackElements ==
  ASSUME NEW S, NEW s \in Seq(S), NEW i \in 1..Len(s)
  PROVE  /\ MovedBack(s, i) \in Seq(S)
         /\ Len(MovedBack(s, i)) = Len(s)
         /\ \A j \in 1..Len(s) :
              MovedBack(s, i)[j] = IF j < i THEN s[j]
                                  ELSE IF j < Len(s) THEN s[j+1] ELSE s[i]
<1> DEFINE head == SubSeq(s, 1, i-1)
           tail == SubSeq(s, i+1, Len(s))
<1>1. head \in Seq(S) /\ Len(head) = i - 1 /\ \A j \in 1..i-1 : head[j] = s[j]
  OBVIOUS
<1>2. tail \in Seq(S) /\ Len(tail) = Len(s) - i /\ \A j \in 1..Len(s)-i : tail[j] = s[i+j]
  OBVIOUS
<1> HIDE DEF head, tail
<1> DEFINE rest == head \o tail
<1>3. /\ rest \in Seq(S)
      /\ Len(rest) = Len(s) - 1
      /\ \A j \in 1..i-1 : rest[j] = s[j]
      /\ \A j \in i..Len(s)-1 : rest[j] = s[j+1]
  <2>1. rest \in Seq(S) /\ Len(rest) = Len(s) - 1
    BY <1>1, <1>2
  <2>2. ASSUME NEW j \in 1..i-1 PROVE rest[j] = s[j]
    BY <1>1, <1>2, <2>2
  <2>3. ASSUME NEW j \in i..Len(s)-1 PROVE rest[j] = s[j+1]
    <3>1. rest[j] = tail[j - (i-1)]
      BY <1>1, <1>2, <2>3
    <3>2. j - (i-1) \in 1..Len(s)-i /\ i + (j - (i-1)) = j + 1
      OBVIOUS
    <3> QED
      BY <3>1, <3>2, <1>2
  <2> QED
    BY <2>1, <2>2, <2>3
<1>4. MovedBack(s, i) = Append(rest, s[i])
  BY DEF MovedBack, RemoveAt, head, tail
<1>5. s[i] \in S
  OBVIOUS
<1> HIDE DEF rest
<1>6. /\ MovedBack(s, i) \in Seq(S)
      /\ Len(MovedBack(s, i)) = Len(s)
      /\ \A j \in 1..Len(s)-1 : MovedBack(s, i)[j] = rest[j]
      /\ MovedBack(s, i)[Len(s)] = s[i]
  BY <1>3, <1>4, <1>5
<1>7. ASSUME NEW j \in 1..Len(s)
      PROVE  MovedBack(s, i)[j] = IF j < i THEN s[j]
                                 ELSE IF j < Len(s) THEN s[j+1] ELSE s[i]
  BY <1>3, <1>6
<1> QED
  BY <1>6, <1>7

\* No element is lost, and none comes twice that did not before.
LEMMA MovedBackPermutes ==
  ASSUME NEW S, NEW s \in Seq(S), NEW i \in 1..Len(s)
  PROVE  /\ ToSet(MovedBack(s, i)) = ToSet(s)
         /\ IsInjective(s) => IsInjective(MovedBack(s, i))
<1> DEFINE t == MovedBack(s, i)
           from(j) == IF j < i THEN j ELSE IF j < Len(s) THEN j + 1 ELSE i
           to(k) == IF k < i THEN k ELSE IF k = i THEN Len(s) ELSE k - 1
<1>1. t \in Seq(S) /\ Len(t) = Len(s) /\ \A j \in 1..Len(s) : t[j] = s[from(j)]
  BY MovedBackElements
<1>2. \A j \in 1..Len(s) : from(j) \in 1..Len(s) /\ to(j) \in 1..Len(s)
  OBVIOUS
<1>3. \A j \in 1..Len(s) : from(to(j)) = j /\ to(from(j)) = j
  OBVIOUS
<1>4. DOMAIN t = 1..Len(s) /\ DOMAIN s = 1..Len(s)
  BY <1>1
<1> HIDE DEF t, from, to
<1>5. ToSet(t) = ToSet(s)
  <2>1. \A j \in 1..Len(s) : \E k \in 1..Len(s) : t[j] = s[k]
    BY <1>1, <1>2
  <2>2. \A k \in 1..Len(s) : \E j \in 1..Len(s) : t[j] = s[k]
    BY <1>1, <1>2, <1>3
  <2>3. ASSUME NEW x
        PROVE  /\ x \in ToSet(t) <=> \E j \in 1..Len(s) : x = t[j]
               /\ x \in ToSet(s) <=> \E j \in 1..Len(s) : x = s[j]
    BY <1>4 DEF ToSet
  <2>4. ASSUME NEW x PROVE x \in ToSet(t) <=> x \in ToSet(s)
    BY <2>1, <2>2, <2>3
  <2> QED
    BY <2>4
<1>6. IsInjective(s) => IsInjective(t)
  <2>1. SUFFICES ASSUME IsInjective(s), NEW a \in 1..Len(s), NEW b \in 1..Len(s), t[a] = t[b]
                 PROVE  a = b
    BY <1>4 DEF IsInjective
  <2>2. from(a) = from(b)
    BY <2>1, <1>1, <1>2, <1>4 DEF IsInjective
  <2> QED
    BY <2>2, <1>3
<1> QED
  BY <1>5, <1>6 DEF t
===========================================================================
