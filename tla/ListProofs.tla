----------------------------- MODULE ListProofs -----------------------------
(***************************************************************************)
(* The linked nodes of list.c, for every number of nodes and values and    *)
(* every order of calls, failed allocations and crashes included: proofs   *)
(* about List.                                                             *)
(*                                                                         *)
(* The invariant says that the pointers are those of a sequence of         *)
(* different nodes, the chain of order, and that clear_list, as long as it *)
(* has found in the nodes it freed what it left in them, stands at the     *)
(* front.  The lemmas on chains are about any memory: what the assignments *)
(* of each function make of one.                                           *)
(***************************************************************************)
EXTENDS List, DataLemmas, SequenceTheorems, FiniteSetTheorems

Memory == [NODES -> Node]

\* The pointers of the node at place i of the sequence s.
NextIn(s, i) == IF i = Len(s) THEN NULL ELSE s[i+1]
PreviousIn(s, i) == IF i = 1 THEN NULL ELSE s[i-1]

\* In memory m the nodes of s are linked in this order.
Chain(s, m) ==
  \A i \in 1..Len(s) : m[s[i]].next = NextIn(s, i) /\ m[s[i]].previous = PreviousIn(s, i)

\* A sequence of different nodes.
Distinct(s) == s \in Seq(NODES) /\ \A i, j \in 1..Len(s) : s[i] = s[j] => i = j

\* What front and back are in a list of the nodes s.
First(s) == IF Len(s) = 0 THEN NULL ELSE s[1]
Final(s) == IF Len(s) = 0 THEN NULL ELSE s[Len(s)]

LEMMA Nulls == NULL \notin NODES /\ Wild \notin NODES /\ Idle \notin NODES
BY ListAssumption

-----------------------------------------------------------------------------
(* Assignments to the fields of a node.                                    *)
SetNext(m, n, x) == [m EXCEPT ![n].next = x]
SetPrevious(m, n, x) == [m EXCEPT ![n].previous = x]

\* An assignment to one pointer leaves every other field.
LEMMA NextSet ==
  ASSUME NEW m \in Memory, NEW n \in NODES, NEW x \in Pointer
  PROVE  LET w == SetNext(m, n, x)
         IN /\ w \in Memory
            /\ \A k \in NODES : /\ w[k].next = IF k = n THEN x ELSE m[k].next
                                /\ w[k].previous = m[k].previous
                                /\ w[k].value = m[k].value
BY DEF SetNext, Memory, Node

LEMMA PreviousSet ==
  ASSUME NEW m \in Memory, NEW n \in NODES, NEW x \in Pointer
  PROVE  LET w == SetPrevious(m, n, x)
         IN /\ w \in Memory
            /\ \A k \in NODES : /\ w[k].previous = IF k = n THEN x ELSE m[k].previous
                                /\ w[k].next = m[k].next
                                /\ w[k].value = m[k].value
BY DEF SetPrevious, Memory, Node

-----------------------------------------------------------------------------
(* Chains of nodes in any memory.                                          *)

\* A node linked behind the others.
LEMMA ChainBack ==
  ASSUME NEW s, NEW m, NEW w, NEW x \in NODES, Distinct(s), Chain(s, m),
         \A i \in 1..Len(s) : s[i] # x,
         w[x].next = NULL /\ w[x].previous = Final(s),
         \A k \in NODES \ {x} : /\ w[k].next = IF k = Final(s) THEN x ELSE m[k].next
                                /\ w[k].previous = m[k].previous
  PROVE  /\ Distinct(Append(s, x)) /\ Chain(Append(s, x), w)
         /\ First(Append(s, x)) = (IF Len(s) = 0 THEN x ELSE First(s))
         /\ Final(Append(s, x)) = x
<1> DEFINE t == Append(s, x)
           n == Len(s)
<1>1. /\ s \in Seq(NODES) /\ n \in Nat
      /\ t \in Seq(NODES) /\ Len(t) = n + 1
      /\ \A i \in 1..n : t[i] = s[i] /\ s[i] \in NODES
      /\ t[n+1] = x
  BY DEF Distinct
<1> HIDE DEF t
<1>2. Distinct(t)
  BY <1>1 DEF Distinct
<1>3. ASSUME NEW i \in 1..n+1
      PROVE  w[t[i]].next = NextIn(t, i) /\ w[t[i]].previous = PreviousIn(t, i)
  <2>1. CASE i = n + 1
    BY <1>1, <2>1 DEF NextIn, PreviousIn, Final
  <2>2. CASE i = n
    BY <1>1, <2>2, SMTT(30) DEF NextIn, PreviousIn, Final, Chain
  <2>3. CASE i < n
    <3>1. /\ i \in 1..n /\ n \in 1..n /\ i # n + 1
          /\ t[i] = s[i] /\ t[i+1] = s[i+1] /\ i # 1 => t[i-1] = s[i-1]
      BY <1>1, <2>3
    <3>2. s[i] # s[n]
      BY <2>3, <3>1 DEF Distinct
    <3> QED
      BY <1>1, <2>3, <3>1, <3>2, SMTT(30) DEF NextIn, PreviousIn, Final, Chain
  <2>4. i = n + 1 \/ i = n \/ i < n
    BY <1>1
  <2> QED
    BY <2>1, <2>2, <2>3, <2>4
<1> QED
  BY <1>1, <1>2, <1>3 DEF Chain, First, Final, t

\* A node linked in front of the others.
LEMMA ChainFront ==
  ASSUME NEW s, NEW m, NEW w, NEW x \in NODES, Distinct(s), Chain(s, m),
         \A i \in 1..Len(s) : s[i] # x,
         w[x].previous = NULL /\ w[x].next = First(s),
         \A k \in NODES \ {x} : /\ w[k].previous = IF k = First(s) THEN x ELSE m[k].previous
                                /\ w[k].next = m[k].next
  PROVE  LET t == Cons(x, s)
         IN /\ Distinct(t) /\ Chain(t, w)
            /\ First(t) = x /\ Final(t) = IF Len(s) = 0 THEN x ELSE Final(s)
<1> DEFINE t == Cons(x, s)
           n == Len(s)
<1>1. /\ s \in Seq(NODES) /\ n \in Nat
      /\ t \in Seq(NODES) /\ Len(t) = n + 1
      /\ t[1] = x
      /\ \A i \in 1..n : t[i+1] = s[i] /\ s[i] \in NODES
  BY DEF Distinct, Cons
<1>2. \A i \in 2..n+1 : t[i] = s[i-1] /\ i - 1 \in 1..n
  BY <1>1
<1> HIDE DEF t
<1>3. Distinct(t)
  <2>1. SUFFICES ASSUME NEW i \in 1..n+1, NEW j \in 1..n+1, t[i] = t[j]
                 PROVE  i = j
    BY <1>1 DEF Distinct
  <2>2. CASE i = 1 \/ j = 1
    BY <1>1, <1>2, <2>1, <2>2
  <2>3. CASE i # 1 /\ j # 1
    <3>1. i \in 2..n+1 /\ j \in 2..n+1
      BY <1>1, <2>3
    <3>2. i - 1 = j - 1
      BY <1>2, <2>1, <3>1 DEF Distinct
    <3> QED
      BY <3>1, <3>2, <1>1
  <2> QED
    BY <2>2, <2>3
<1>4. ASSUME NEW i \in 1..n+1
      PROVE  w[t[i]].next = NextIn(t, i) /\ w[t[i]].previous = PreviousIn(t, i)
  <2>1. CASE i = 1
    BY <1>1, <2>1 DEF NextIn, PreviousIn, First
  <2>2. CASE i = 2
    BY <1>1, <1>2, <2>2 DEF NextIn, PreviousIn, First, Chain
  <2>3. CASE i > 2
    <3>1. /\ i - 1 \in 1..n /\ i - 2 \in 1..n /\ t[i] = s[i-1] /\ t[i-1] = s[i-2]
          /\ i - 1 # 1 /\ 1 \in 1..n
          /\ i # n + 1 => t[i+1] = s[i]
      BY <1>1, <1>2, <2>3
    <3>2. s[i-1] # s[1]
      BY <3>1 DEF Distinct
    <3> QED
      BY <1>1, <2>3, <3>1, <3>2, SMTT(30) DEF NextIn, PreviousIn, First, Chain
  <2>4. i = 1 \/ i = 2 \/ i > 2
    BY <1>1
  <2> QED
    BY <2>1, <2>2, <2>3, <2>4
<1> QED
  BY <1>1, <1>3, <1>4 DEF Chain, First, Final, t

\* t is what is left of s, linked in memory w, when node gone is taken out.
Without(t, s, w, gone) ==
  /\ Distinct(t) /\ Chain(t, w)
  /\ \A x : (\E i \in 1..Len(t) : t[i] = x) <=> x # gone /\ (\E i \in 1..Len(s) : s[i] = x)

\* The last node cut off.
LEMMA ChainCutBack ==
  ASSUME NEW s, NEW m, NEW w, Distinct(s), Chain(s, m), Len(s) > 1,
         \A k \in NODES : /\ w[k].next = IF k = s[Len(s)-1] THEN NULL ELSE m[k].next
                          /\ w[k].previous = m[k].previous
  PROVE  /\ Without(Front(s), s, w, s[Len(s)])
         /\ First(Front(s)) = First(s) /\ Final(Front(s)) = s[Len(s)-1]
<1> DEFINE t == Front(s)
           n == Len(s)
<1>1. /\ s \in Seq(NODES) /\ n \in Nat /\ n > 1
      /\ t \in Seq(NODES) /\ Len(t) = n - 1
      /\ \A i \in 1..n-1 : t[i] = s[i]
      /\ \A i \in 1..n : s[i] \in NODES
  BY DEF Distinct, Front
<1> HIDE DEF t
<1>2. Distinct(t)
  BY <1>1 DEF Distinct
<1>3. ASSUME NEW i \in 1..n-1
      PROVE  w[t[i]].next = NextIn(t, i) /\ w[t[i]].previous = PreviousIn(t, i)
  <2>1. CASE i = n - 1
    BY <1>1, <2>1, SMTT(30) DEF NextIn, PreviousIn, Chain
  <2>2. CASE i < n - 1
    <3>1. /\ i \in 1..n /\ n - 1 \in 1..n /\ i # n
          /\ t[i] = s[i] /\ t[i+1] = s[i+1] /\ i # 1 => t[i-1] = s[i-1]
      BY <1>1, <2>2
    <3>2. s[i] # s[n-1]
      BY <2>2, <3>1 DEF Distinct
    <3> QED
      BY <1>1, <2>2, <3>1, <3>2 DEF NextIn, PreviousIn, Chain
  <2>3. i = n - 1 \/ i < n - 1
    BY <1>1
  <2> QED
    BY <2>1, <2>2, <2>3
<1>4. ASSUME NEW x
      PROVE  (\E i \in 1..n-1 : t[i] = x) <=> x # s[n] /\ (\E i \in 1..n : s[i] = x)
  <2>1. \A i \in 1..n-1 : i \in 1..n /\ n \in 1..n /\ s[i] # s[n]
    BY <1>1 DEF Distinct
  <2>2. \A i \in 1..n : i # n => i \in 1..n-1
    BY <1>1
  <2> QED
    BY <1>1, <2>1, <2>2
<1> QED
  BY <1>1, <1>2, <1>3, <1>4 DEF Chain, First, Final, Without, t

\* The first node cut off.
LEMMA ChainCutFront ==
  ASSUME NEW s, NEW m, NEW w, Distinct(s), Chain(s, m), Len(s) > 1,
         \A k \in NODES : /\ w[k].previous = IF k = s[2] THEN NULL ELSE m[k].previous
                          /\ w[k].next = m[k].next
  PROVE  /\ Without(Tail(s), s, w, s[1])
         /\ First(Tail(s)) = s[2] /\ Final(Tail(s)) = Final(s)
<1> DEFINE t == Tail(s)
           n == Len(s)
<1>1. /\ s \in Seq(NODES) /\ n \in Nat /\ n > 1
      /\ t \in Seq(NODES) /\ Len(t) = n - 1
      /\ \A i \in 1..n-1 : t[i] = s[i+1]
      /\ \A i \in 1..n : s[i] \in NODES
  BY DEF Distinct
<1> HIDE DEF t
<1>2. Distinct(t)
  <2>1. SUFFICES ASSUME NEW i \in 1..n-1, NEW j \in 1..n-1, t[i] = t[j]
                 PROVE  i = j
    BY <1>1 DEF Distinct
  <2>2. i + 1 \in 1..n /\ j + 1 \in 1..n /\ s[i+1] = s[j+1]
    BY <1>1, <2>1
  <2>3. i + 1 = j + 1
    BY <2>2 DEF Distinct
  <2> QED
    BY <1>1, <2>3
<1>3. ASSUME NEW i \in 1..n-1
      PROVE  w[t[i]].next = NextIn(t, i) /\ w[t[i]].previous = PreviousIn(t, i)
  <2>1. i + 1 \in 1..n /\ t[i] = s[i+1] /\ 2 \in 1..n
    BY <1>1
  <2>2. CASE i = 1
    BY <1>1, <2>1, <2>2 DEF NextIn, PreviousIn, Chain
  <2>3. CASE i > 1
    <3>1. s[i+1] # s[2] /\ i - 1 \in 1..n-1 /\ (i - 1) + 1 = i
      BY <1>1, <2>1, <2>3 DEF Distinct
    <3> QED
      BY <1>1, <2>1, <2>3, <3>1, SMTT(30) DEF NextIn, PreviousIn, Chain
  <2>4. i = 1 \/ i > 1
    BY <1>1
  <2> QED
    BY <2>2, <2>3, <2>4
<1>4. ASSUME NEW x
      PROVE  (\E i \in 1..n-1 : t[i] = x) <=> x # s[1] /\ (\E i \in 1..n : s[i] = x)
  <2>1. \A i \in 1..n-1 : i + 1 \in 1..n /\ 1 \in 1..n /\ s[i+1] # s[1]
    BY <1>1 DEF Distinct
  <2>2. \A i \in 1..n : i # 1 => i - 1 \in 1..n-1 /\ (i - 1) + 1 = i
    BY <1>1
  <2>3. (\E i \in 1..n-1 : t[i] = x) => x # s[1] /\ (\E i \in 1..n : s[i] = x)
    BY <1>1, <2>1
  <2>4. ASSUME NEW i \in 1..n, i # 1
        PROVE  i - 1 \in 1..n-1 /\ t[i-1] = s[i]
    BY <1>1, <2>2, <2>4
  <2> QED
    BY <2>3, <2>4
<1> QED
  BY <1>1, <1>2, <1>3, <1>4 DEF Chain, First, Final, Without, t

\* A node that is not the last unlinked, and linked behind the last.
LEMMA ChainMoved ==
  ASSUME NEW s, NEW m, NEW w, Distinct(s), Chain(s, m), NEW i \in 1..Len(s)-1,
         \A k \in NODES :
           /\ w[k].next = IF k = s[i] THEN NULL
                          ELSE IF k = s[Len(s)] THEN s[i]
                          ELSE IF i # 1 /\ k = s[i-1] THEN s[i+1] ELSE m[k].next
           /\ w[k].previous = IF k = s[i] THEN s[Len(s)]
                              ELSE IF k = s[i+1] THEN PreviousIn(s, i) ELSE m[k].previous
  PROVE  LET t == MovedBack(s, i)
         IN /\ Distinct(t) /\ Chain(t, w)
            /\ First(t) = (IF i = 1 THEN s[2] ELSE First(s)) /\ Final(t) = s[i]
            /\ ToSet(t) = ToSet(s)
<1> DEFINE t == MovedBack(s, i)
           n == Len(s)
<1>1. /\ s \in Seq(NODES) /\ n \in Nat /\ i \in 1..n /\ n > 1 /\ i < n
      /\ \A j \in 1..n : s[j] \in NODES
      /\ DOMAIN s = 1..n
  BY DEF Distinct
<1>2. /\ t \in Seq(NODES) /\ Len(t) = n /\ t[n] = s[i]
      /\ \A j \in 1..n : j < i => t[j] = s[j]
      /\ \A j \in 1..n : i <= j /\ j < n => t[j] = s[j+1]
  <2>1. /\ t \in Seq(NODES) /\ Len(t) = n
        /\ \A j \in 1..n : t[j] = IF j < i THEN s[j] ELSE IF j < n THEN s[j+1] ELSE s[i]
    BY <1>1, MovedBackElements
  <2> HIDE DEF t
  <2> QED
    BY <1>1, <2>1
<1>3. ToSet(t) = ToSet(s) /\ IsInjective(t)
  <2>1. IsInjective(s)
    BY <1>1 DEF IsInjective, Distinct
  <2> QED
    BY <1>1, <2>1, MovedBackPermutes
<1>4. Distinct(t)
  <2>1. DOMAIN t = 1..n
    BY <1>2
  <2> HIDE DEF t
  <2> QED
    BY <1>2, <1>3, <2>1 DEF IsInjective, Distinct
<1>0. n = Len(s)
  OBVIOUS
<1> HIDE DEF t, n
<1>5. ASSUME NEW j \in 1..n
      PROVE  w[t[j]].next = NextIn(t, j) /\ w[t[j]].previous = PreviousIn(t, j)
  <2>1. CASE j = n
    <3>1. n - 1 \in 1..n /\ (n - 1) + 1 = n /\ n # 1 /\ i <= n - 1
      BY <1>0, <1>1
    <3>2. t[n-1] = s[n]
      BY <1>2, <3>1
    <3> QED
      BY <1>0, <1>1, <1>2, <2>1, <3>1, <3>2 DEF NextIn, PreviousIn
  <2>2. CASE j < i
    <3>0. /\ j \in 1..n /\ j + 1 \in 1..n /\ i + 1 \in 1..n /\ j # n /\ n \in 1..n
          /\ j # i - 1 => j + 1 < i
          /\ j # 1 => j - 1 \in 1..n /\ j - 1 < i
      BY <1>0, <1>1, <2>2
    <3>1. t[j] = s[j] /\ (j # 1 => t[j-1] = s[j-1])
      BY <1>2, <2>2, <3>0
    <3>2. t[j+1] = s[j+1] \/ j = i - 1
      BY <1>2, <3>0
    <3>3. t[i] = s[i+1]
      BY <1>1, <1>2
    <3>4. s[j] # s[i] /\ s[j] # s[n] /\ s[j] # s[i+1]
      BY <1>0, <1>1, <2>2, <3>0 DEF Distinct
    <3>5. j # i - 1 /\ i # 1 => i - 1 \in 1..n /\ s[j] # s[i-1]
      BY <1>0, <1>1, <2>2, <3>0 DEF Distinct
    <3>6. m[s[j]].next = s[j+1] /\ m[s[j]].previous = PreviousIn(s, j)
      BY <1>0, <3>0 DEF Chain, NextIn
    <3>7. w[t[j]].previous = PreviousIn(t, j)
      BY <1>0, <1>1, <1>2, <3>0, <3>1, <3>4, <3>6 DEF PreviousIn
    <3>8. NextIn(t, j) = t[j+1] /\ s[j] \in NODES
      BY <1>1, <1>2, <3>0 DEF NextIn
    <3>9. CASE j = i - 1
      <4>1. i # 1 /\ i - 1 = j /\ j + 1 = i
        BY <1>1, <2>2, <3>0, <3>9
      <4> QED
        BY <1>0, <3>1, <3>3, <3>4, <3>7, <3>8, <4>1
    <3>10. CASE j # i - 1
      <4>1. i # 1 => s[j] # s[i-1]
        BY <3>5, <3>10
      <4> QED
        BY <1>0, <3>1, <3>2, <3>4, <3>6, <3>7, <3>8, <3>10, <4>1
    <3> QED
      BY <3>9, <3>10
  <2>3. CASE i <= j /\ j < n
    <3>0. /\ j + 1 \in 1..n /\ i + 1 \in 1..n /\ j # n /\ n \in 1..n
          /\ j # n - 1 => /\ j + 2 \in 1..n /\ j + 1 \in 1..n /\ i <= j + 1
                          /\ j + 1 < n /\ (j + 1) + 1 = j + 2
          /\ j # i => j # 1 /\ j - 1 \in 1..n /\ i <= j - 1 /\ j - 1 < n /\ (j - 1) + 1 = j
          /\ i # 1 => i - 1 \in 1..n /\ i - 1 < i
      BY <1>0, <1>1, <2>3
    <3>1. /\ j + 1 \in 1..n /\ i + 1 \in 1..n /\ j # n /\ n \in 1..n /\ t[n] = s[i]
          /\ t[j] = s[j+1]
          /\ j # n - 1 => j + 2 \in 1..n /\ t[j+1] = s[j+2]
          /\ j # i => j # 1 /\ t[j-1] = s[j]
          /\ i # 1 => i - 1 \in 1..n /\ t[i-1] = s[i-1]
      BY <1>0, <1>1, <1>2, <2>3, <3>0, ZenonT(30)
    <3>2. s[j+1] # s[i] /\ (j # n - 1 => s[j+1] # s[n]) /\ (j # i => s[j+1] # s[i+1])
      BY <1>0, <1>1, <2>3, <3>1 DEF Distinct
    <3>3. i # 1 => s[j+1] # s[i-1]
      BY <1>0, <1>1, <2>3, <3>1 DEF Distinct
    <3>4. /\ j # n - 1 => m[s[j+1]].next = s[j+2]
          /\ m[s[j+1]].previous = s[j]
      BY <1>0, <1>1, <2>3, <3>1 DEF Chain, NextIn, PreviousIn
    <3>5. w[t[j]].next = NextIn(t, j)
      BY <1>0, <1>1, <1>2, <2>3, <3>1, <3>2, <3>3, <3>4 DEF NextIn
    <3>6. w[t[j]].previous = PreviousIn(t, j)
      BY <1>0, <1>1, <1>2, <2>3, <3>1, <3>2, <3>4 DEF PreviousIn
    <3> QED
      BY <3>5, <3>6
  <2>4. j = n \/ j < i \/ (i <= j /\ j < n)
    BY <1>0, <1>1
  <2> QED
    BY <2>1, <2>2, <2>3, <2>4
<1>6. First(t) = (IF i = 1 THEN s[2] ELSE First(s)) /\ Final(t) = s[i]
  BY <1>0, <1>1, <1>2 DEF First, Final
<1> QED
  BY <1>2, <1>3, <1>4, <1>5, <1>6 DEF Chain, t

-----------------------------------------------------------------------------
(* The state.                                                              *)

\* The nodes of a sequence.
Elements(s) == {s[j] : j \in 1..Len(s)}

\* The types of TypeOK but that of order, and the rest of Linked.
Types ==
  /\ front \in Pointer /\ back \in Pointer /\ node \in Memory
  /\ live \subseteq NODES
  /\ cursor \in NODES \cup {Wild, Idle} /\ kept \in BOOLEAN
  /\ fault \in {"none", "null_write", "wild_read"}

Shape ==
  /\ Distinct(order) /\ live = ToSet(order)
  /\ front = First(order) /\ back = Final(order)
  /\ Chain(order, node)

\* They are the invariant of the runs.
LEMMA LinkedParts == Linked <=> Types /\ Shape
<1>1. order \in Seq(NODES) => DOMAIN order = 1..Len(order)
  OBVIOUS
<1>2. order \in Seq(NODES) => (IsInjective(order) <=> Distinct(order))
  BY <1>1 DEF IsInjective, Distinct
<1> QED
  BY <1>2 DEF Linked, TypeOK, Types, Shape, Memory, First, Final, Chain, NextIn, PreviousIn, Distinct

\* place_node_at_back, on any memory.
LEMMA Placed ==
  ASSUME NEW m \in Memory, NEW n \in NODES, back \in NODES
  PROVE  LET w == PlaceNodeAtBack(m, n)
         IN /\ w \in Memory
            /\ \A k \in NODES :
                 /\ w[k].next = IF k = n THEN NULL ELSE IF k = back THEN n ELSE m[k].next
                 /\ w[k].previous = IF k = n THEN back ELSE m[k].previous
                 /\ w[k].value = m[k].value
<1> DEFINE a == SetNext(m, back, n)
           b == SetPrevious(a, n, back)
           c == SetNext(b, n, NULL)
<1>1. NULL \in Pointer /\ n \in Pointer /\ back \in Pointer
  BY DEF Pointer
<1>2. c = PlaceNodeAtBack(m, n)
  BY DEF PlaceNodeAtBack, SetNext, SetPrevious
<1>3. a \in Memory /\ \A k \in NODES : /\ a[k].next = IF k = back THEN n ELSE m[k].next
                                       /\ a[k].previous = m[k].previous
                                       /\ a[k].value = m[k].value
  BY <1>1, NextSet
<1> HIDE DEF a
<1>4. b \in Memory /\ \A k \in NODES : /\ b[k].previous = IF k = n THEN back ELSE a[k].previous
                                       /\ b[k].next = a[k].next
                                       /\ b[k].value = a[k].value
  BY <1>1, <1>3, PreviousSet
<1> HIDE DEF b
<1>5. c \in Memory /\ \A k \in NODES : /\ c[k].next = IF k = n THEN NULL ELSE b[k].next
                                       /\ c[k].previous = b[k].previous
                                       /\ c[k].value = b[k].value
  BY <1>1, <1>4, NextSet
<1> HIDE DEF c
<1> QED
  BY <1>2, <1>3, <1>4, <1>5

\* A node that new_node has just allocated.
LEMMA Allocated ==
  ASSUME node \in Memory, NEW new \in NODES, NEW value \in VALUES
  PROVE  LET m == [node EXCEPT ![new] = NewNode(value)]
         IN /\ m \in Memory
            /\ m[new].next = NULL /\ m[new].previous = NULL /\ m[new].value = value
            /\ \A k \in NODES \ {new} : m[k] = node[k]
BY DEF NewNode, Memory, Node, Pointer

\* front and back are the ends of the list.
LEMMA Ends ==
  ASSUME Shape
  PROVE  /\ Len(order) \in Nat
         /\ front = NULL <=> Len(order) = 0
         /\ back = NULL <=> Len(order) = 0
         /\ front # NULL => front \in NODES /\ front = order[1] /\ 1 \in 1..Len(order)
         /\ back # NULL => back \in NODES /\ back = order[Len(order)] /\ Len(order) \in 1..Len(order)
         /\ \A x : x \in live <=> \E j \in 1..Len(order) : order[j] = x
         /\ \A j \in 1..Len(order) : order[j] \in NODES /\ order[j] \in live
<1>1. order \in Seq(NODES) /\ Len(order) \in Nat /\ DOMAIN order = 1..Len(order)
  BY DEF Shape, Distinct
<1>2. \A j \in 1..Len(order) : order[j] \in NODES
  BY <1>1
<1>3. live = {order[j] : j \in 1..Len(order)}
  BY <1>1 DEF Shape, ToSet
<1>4. \A x : x \in live <=> \E j \in 1..Len(order) : order[j] = x
  BY <1>3
<1>5. Len(order) # 0 => 1 \in 1..Len(order) /\ Len(order) \in 1..Len(order)
  BY <1>1
<1> QED
  BY <1>1, <1>2, <1>4, <1>5, Nulls DEF Shape, First, Final

\* What a step leaves of the memory: the values of the nodes of K.
ValuesKept(K) == \A k \in K : node'[k].value = node[k].value

\* push_back: the list gets one node more, at its end.
LEMMA PushBackStep ==
  ASSUME Types, Shape, NEW value \in VALUES, PushBack(value)
  PROVE  /\ Types' /\ Shape'
         /\ \E new \in NODES \ live :
              /\ live' = live \cup {new} /\ order' = Append(order, new)
              /\ node'[new].value = value /\ ValuesKept(NODES \ {new})
<1>1. PICK new \in NODES \ live :
        /\ LET m == [node EXCEPT ![new] = NewNode(value)]
           IN \/ front = NULL /\ front' = new /\ node' = m
              \/ front # NULL /\ node' = PlaceNodeAtBack(m, new) /\ UNCHANGED front
        /\ back' = new /\ live' = live \cup {new} /\ order' = Append(order, new)
        /\ UNCHANGED <<cursor, kept, fault>>
  BY DEF PushBack
<1> DEFINE m == [node EXCEPT ![new] = NewNode(value)]
<1>2. /\ m \in Memory
      /\ m[new].next = NULL /\ m[new].previous = NULL /\ m[new].value = value
      /\ \A k \in NODES \ {new} : m[k] = node[k]
  BY Allocated DEF Types
<1>3. (front = NULL /\ front' = new /\ node' = m)
      \/ (front # NULL /\ node' = PlaceNodeAtBack(m, new) /\ UNCHANGED front)
  BY <1>1
<1> HIDE DEF m
<1>4. /\ node' \in Memory
      /\ node'[new].next = NULL /\ node'[new].previous = Final(order) /\ node'[new].value = value
      /\ \A k \in NODES \ {new} : /\ node'[k].next = IF k = Final(order) THEN new ELSE node[k].next
                                  /\ node'[k].previous = node[k].previous
                                  /\ node'[k].value = node[k].value
  <2>1. CASE front = NULL
    <3>1. Final(order) = NULL /\ NULL \notin NODES
      BY <2>1, Ends, Nulls DEF Final
    <3> QED
      BY <1>2, <1>3, <2>1, <3>1
  <2>2. CASE front # NULL
    <3>1. back \in NODES /\ back = Final(order) /\ back # new
      BY <1>1, <2>2, Ends DEF Shape
    <3>2. node' = PlaceNodeAtBack(m, new) /\ new \in NODES
      BY <1>3, <2>2
    <3>3. /\ node' \in Memory
          /\ \A k \in NODES :
               /\ node'[k].next = IF k = new THEN NULL ELSE IF k = back THEN new ELSE m[k].next
               /\ node'[k].previous = IF k = new THEN back ELSE m[k].previous
               /\ node'[k].value = m[k].value
      BY <1>2, <3>1, <3>2, Placed, SMTT(30)
    <3> QED
      BY <1>2, <3>1, <3>2, <3>3
  <2> QED
    BY <2>1, <2>2
<1>5. \A i \in 1..Len(order) : order[i] # new
  BY <1>1, Ends
<1>6. /\ Distinct(order') /\ Chain(order', node')
      /\ First(order') = (IF Len(order) = 0 THEN new ELSE First(order))
      /\ Final(order') = new
  <2>1. Distinct(order) /\ Chain(order, node) /\ new \in NODES
    BY <1>1 DEF Shape
  <2>2. /\ Distinct(Append(order, new)) /\ Chain(Append(order, new), node')
        /\ First(Append(order, new)) = (IF Len(order) = 0 THEN new ELSE First(order))
        /\ Final(Append(order, new)) = new
    BY <1>4, <1>5, <2>1, ChainBack
  <2> QED
    BY <1>1, <2>2
<1>7. live' = ToSet(order')
  <2>1. order \in Seq(NODES) /\ order' = Append(order, new)
    BY <1>1 DEF Shape, Distinct
  <2>2. ToSet(order') = ToSet(order) \cup {new}
    BY <2>1 DEF ToSet
  <2> QED
    BY <1>1, <2>2 DEF Shape
<1>8. front' = First(order')
  BY <1>3, <1>6, Ends DEF Shape
<1>9. Types'
  BY <1>1, <1>3, <1>4 DEF Types, Pointer
<1> QED
  BY <1>1, <1>4, <1>6, <1>7, <1>8, <1>9 DEF Shape, ValuesKept

\* push_front: the list gets one node more, at its beginning.
LEMMA PushFrontStep ==
  ASSUME Types, Shape, NEW value \in VALUES, PushFront(value)
  PROVE  /\ Types' /\ Shape'
         /\ \E new \in NODES \ live :
              /\ live' = live \cup {new} /\ order' = <<new>> \o order
              /\ node'[new].value = value /\ ValuesKept(NODES \ {new})
<1>1. PICK new \in NODES \ live :
        /\ LET m == [node EXCEPT ![new] = NewNode(value)]
           IN \/ back = NULL /\ back' = new /\ node' = m
              \/ /\ back # NULL /\ UNCHANGED back
                 /\ node' = [m EXCEPT ![front].previous = new, ![new].next = front,
                                      ![new].previous = NULL]
        /\ front' = new /\ live' = live \cup {new} /\ order' = <<new>> \o order
        /\ UNCHANGED <<cursor, kept, fault>>
  BY DEF PushFront
<1> DEFINE m == [node EXCEPT ![new] = NewNode(value)]
           a == SetPrevious(m, front, new)
           b == SetNext(a, new, front)
           c == SetPrevious(b, new, NULL)
<1>2. /\ m \in Memory
      /\ m[new].next = NULL /\ m[new].previous = NULL /\ m[new].value = value
      /\ \A k \in NODES \ {new} : m[k] = node[k]
  BY Allocated DEF Types
<1>3. (back = NULL /\ back' = new /\ node' = m) \/ (back # NULL /\ node' = c /\ UNCHANGED back)
  BY <1>1 DEF SetNext, SetPrevious
<1> HIDE DEF m
<1>4. /\ node' \in Memory
      /\ node'[new].previous = NULL /\ node'[new].next = First(order) /\ node'[new].value = value
      /\ \A k \in NODES \ {new} : /\ node'[k].previous = IF k = First(order) THEN new
                                                         ELSE node[k].previous
                                  /\ node'[k].next = node[k].next
                                  /\ node'[k].value = node[k].value
  <2>1. CASE back = NULL
    <3>1. First(order) = NULL /\ NULL \notin NODES
      BY <2>1, Ends, Nulls DEF First
    <3> QED
      BY <1>2, <1>3, <2>1, <3>1
  <2>2. CASE back # NULL
    <3>1. front \in NODES /\ front = First(order) /\ front # new
      BY <1>1, <2>2, Ends DEF Shape
    <3>2. node' = c /\ new \in NODES /\ NULL \in Pointer /\ new \in Pointer /\ front \in Pointer
      BY <1>3, <2>2, <3>1 DEF Pointer
    <3>3. a \in Memory /\ \A k \in NODES : /\ a[k].previous = IF k = front THEN new
                                                              ELSE m[k].previous
                                           /\ a[k].next = m[k].next
                                           /\ a[k].value = m[k].value
      <4>1. m \in Memory /\ front \in NODES /\ new \in Pointer
        BY <1>2, <3>1, <3>2
      <4> QED
        BY <4>1, PreviousSet
    <3> HIDE DEF a
    <3>4. b \in Memory /\ \A k \in NODES : /\ b[k].next = IF k = new THEN front ELSE a[k].next
                                           /\ b[k].previous = a[k].previous
                                           /\ b[k].value = a[k].value
      BY <3>2, <3>3, NextSet
    <3> HIDE DEF b
    <3>5. c \in Memory /\ \A k \in NODES : /\ c[k].previous = IF k = new THEN NULL
                                                              ELSE b[k].previous
                                           /\ c[k].next = b[k].next
                                           /\ c[k].value = b[k].value
      <4>1. b \in Memory /\ new \in NODES /\ NULL \in Pointer
        BY <3>2, <3>4
      <4> QED
        BY <4>1, PreviousSet
    <3> HIDE DEF c
    <3> QED
      BY <1>2, <3>1, <3>2, <3>3, <3>4, <3>5
  <2> QED
    BY <2>1, <2>2
<1>5. \A i \in 1..Len(order) : order[i] # new
  BY <1>1, Ends
<1>6. /\ Distinct(order') /\ Chain(order', node')
      /\ First(order') = new
      /\ Final(order') = IF Len(order) = 0 THEN new ELSE Final(order)
  <2>1. Distinct(order) /\ Chain(order, node) /\ new \in NODES
    BY <1>1 DEF Shape
  <2>2. LET t == Cons(new, order)
        IN /\ Distinct(t) /\ Chain(t, node')
           /\ First(t) = new /\ Final(t) = IF Len(order) = 0 THEN new ELSE Final(order)
    <3>1. \A k \in NODES \ {new} :
             /\ node'[k].previous = IF k = First(order) THEN new ELSE node[k].previous
             /\ node'[k].next = node[k].next
      BY <1>4
    <3> QED
      BY <1>4, <1>5, <2>1, <3>1, ChainFront
  <2>3. order' = Cons(new, order)
    BY <1>1 DEF Cons
  <2> QED
    BY <2>2, <2>3
<1>7. live' = ToSet(order')
  <2> DEFINE t == <<new>> \o order
  <2>1. order \in Seq(NODES) /\ new \in NODES
    BY <1>1 DEF Shape, Distinct
  <2>2. /\ DOMAIN order = 1..Len(order) /\ DOMAIN t = 1..Len(order)+1 /\ Len(order) \in Nat
        /\ t[1] = new /\ \A j \in 1..Len(order) : t[j+1] = order[j]
    BY <2>1
  <2>3. \A j \in DOMAIN t : j = 1 \/ (j - 1 \in 1..Len(order) /\ (j - 1) + 1 = j)
    BY <2>2
  <2>4. \A j \in 1..Len(order) : j + 1 \in DOMAIN t /\ 1 \in DOMAIN t
    BY <2>2
  <2>5. 1 \in DOMAIN t
    BY <2>2
  <2> HIDE DEF t
  <2>6. ASSUME NEW x
        PROVE  /\ (\E j \in DOMAIN t : x = t[j]) => x = new \/ \E j \in DOMAIN order : x = order[j]
               /\ x = new => \E j \in DOMAIN t : x = t[j]
               /\ (\E j \in DOMAIN order : x = order[j]) => \E j \in DOMAIN t : x = t[j]
    BY <2>2, <2>3, <2>4, <2>5
  <2>7. ToSet(t) = ToSet(order) \cup {new}
    BY <2>6 DEF ToSet
  <2> QED
    BY <1>1, <2>7 DEF Shape, t
<1>8. back' = Final(order')
  BY <1>3, <1>6, Ends DEF Shape
<1>9. Types'
  BY <1>1, <1>3, <1>4 DEF Types, Pointer
<1> QED
  BY <1>1, <1>4, <1>6, <1>7, <1>8, <1>9 DEF Shape, ValuesKept

\* The neighbours of the node at place i.
LEMMA Neighbours ==
  ASSUME Types, Shape, NEW i \in 1..Len(order)
  PROVE  /\ order[i] \in NODES
         /\ node[order[i]].next = NextIn(order, i)
         /\ node[order[i]].previous = PreviousIn(order, i)
         /\ node[order[i]].next = NULL <=> i = Len(order)
         /\ node[order[i]].previous = NULL <=> i = 1
         /\ i # Len(order) => i + 1 \in 1..Len(order) /\ node[order[i]].next = order[i+1]
         /\ i # 1 => i - 1 \in 1..Len(order) /\ node[order[i]].previous = order[i-1]
<1>1. Len(order) \in Nat /\ \A j \in 1..Len(order) : order[j] \in NODES
  BY Ends
<1>2. (i # Len(order) => i + 1 \in 1..Len(order)) /\ (i # 1 => i - 1 \in 1..Len(order))
  BY <1>1
<1> QED
  BY <1>1, <1>2, Nulls DEF Shape, Chain, NextIn, PreviousIn

\* The list of one node that loses it.
LEMMA LastGone ==
  ASSUME Types, Shape, Len(order) = 1, PopLast(order[1]), order' \in Seq(NODES), Len(order') = 0
  PROVE  /\ Shape' /\ live' = {} /\ front' = NULL /\ back' = NULL
         /\ node' \in Memory /\ ValuesKept(NODES)
<1>1. \A x : x \in live <=> x = order[1]
  BY Ends
<1>2. live' = {} /\ front' = NULL /\ back' = NULL /\ node' = node
  BY <1>1 DEF PopLast
<1>3. DOMAIN order' = {}
  OBVIOUS
<1>4. ToSet(order') = {}
  BY <1>3 DEF ToSet
<1>5. Distinct(order') /\ Chain(order', node') /\ First(order') = NULL /\ Final(order') = NULL
  BY DEF Distinct, Chain, First, Final
<1> QED
  BY <1>2, <1>4, <1>5 DEF Shape, Types, ValuesKept

\* pop_back: the last node is freed, and no other.
LEMMA PopBackStep ==
  ASSUME Types, Shape, PopBack
  PROVE  /\ Types' /\ Shape' /\ ValuesKept(NODES)
         /\ Len(order) > 0 /\ order' = Front(order) /\ live \ live' = {order[Len(order)]}
<1> DEFINE n == Len(order)
<1>1. /\ back # NULL /\ back = order[n] /\ n \in 1..n /\ n \in Nat /\ n > 0
      /\ order' = Front(order) /\ UNCHANGED <<cursor, kept, fault>>
      /\ node[back].previous = NULL <=> n = 1
      /\ order[n] \in live /\ order[n] \in NODES
  <2>1. back # NULL /\ order' = Front(order) /\ UNCHANGED <<cursor, kept, fault>>
    BY DEF PopBack, PopBackNode
  <2>2. back = order[n] /\ n \in 1..n /\ n \in Nat /\ order[n] \in live /\ order[n] \in NODES
    BY <2>1, Ends
  <2>3. node[order[n]].previous = NULL <=> n = 1
    BY <2>2, Neighbours
  <2> QED
    BY <2>1, <2>2, <2>3
<1>2. CASE n = 1
  <2>1. PopLast(order[1])
    BY <1>1, <1>2 DEF PopBack, PopBackNode
  <2>2. order' \in Seq(NODES) /\ Len(order') = 0
    <3>1. order \in Seq(NODES)
      BY DEF Shape, Distinct
    <3> QED
      BY <1>1, <1>2, <3>1 DEF Front
  <2>3. /\ Shape' /\ live' = {} /\ front' = NULL /\ back' = NULL
        /\ node' \in Memory /\ ValuesKept(NODES)
    BY <1>2, <2>1, <2>2, LastGone
  <2>4. live = {order[n]}
    BY <1>2, Ends
  <2> QED
    BY <1>1, <2>3, <2>4 DEF Types, Pointer
<1>3. CASE n # 1
  <2>1. /\ back' = node[back].previous /\ live' = live \ {node[back'].next}
        /\ node' = CutBack(node) /\ UNCHANGED front
    BY <1>1, <1>3 DEF PopBack, PopBackNode
  <2>2. n - 1 \in 1..n /\ n - 1 # n /\ (n - 1) + 1 = n
    BY <1>1, <1>3
  <2>3. back' = order[n-1] /\ back' \in NODES
    BY <1>1, <1>3, <2>1, <2>2, Neighbours
  <2>4. node[back'].next = order[n]
    BY <2>2, <2>3, Neighbours
  <2>5. node' = SetNext(node, back', NULL)
    BY <2>1 DEF CutBack, SetNext
  <2>6. /\ node' \in Memory
        /\ \A k \in NODES : /\ node'[k].next = IF k = back' THEN NULL ELSE node[k].next
                            /\ node'[k].previous = node[k].previous
                            /\ node'[k].value = node[k].value
    <3>1. node \in Memory /\ back' \in NODES /\ NULL \in Pointer
      BY <2>3 DEF Types, Pointer
    <3> QED
      BY <2>5, <3>1, NextSet
  <2>7. /\ Without(order', order, node', order[n])
        /\ First(order') = First(order) /\ Final(order') = order[n-1]
    <3>1. \A k \in NODES : /\ node'[k].next = IF k = order[n-1] THEN NULL ELSE node[k].next
                           /\ node'[k].previous = node[k].previous
      BY <2>3, <2>6
    <3>2. Distinct(order) /\ Chain(order, node) /\ n > 1
      <4>1. n > 1
        <5> HIDE DEF n
        <5> QED
          BY <1>1, <1>3
      <4> QED
        BY <4>1 DEF Shape
    <3> QED
      BY <1>1, <3>1, <3>2, ChainCutBack
  <2> HIDE DEF n
  <2>8. live' = ToSet(order')
    <3>1. DOMAIN order' = 1..Len(order')
      BY <2>7 DEF Distinct, Without
    <3>2. \A x : x \in ToSet(order') <=> \E i \in 1..Len(order') : order'[i] = x
      BY <3>1 DEF ToSet
    <3>3. \A x : x \in live <=> \E i \in 1..n : order[i] = x
      BY Ends DEF n
    <3>4. \A x : (\E i \in 1..Len(order') : order'[i] = x)
                 <=> x # node[back'].next /\ (\E i \in 1..n : order[i] = x)
      BY <2>4, <2>7 DEF Without, n
    <3>5. \A x : x \in live' <=> x # node[back'].next /\ x \in live
      BY <2>1
    <3>6. \A x : x \in live' <=> x \in ToSet(order')
      BY <3>2, <3>3, <3>4, <3>5
    <3> QED
      BY <3>6
  <2>9. Shape'
    BY <1>1, <2>1, <2>3, <2>7, <2>8 DEF Shape, Without
  <2>10. Types'
    BY <1>1, <2>1, <2>3, <2>6 DEF Types, Pointer
  <2>11. live \ live' = {order[n]}
    BY <1>1, <2>1, <2>4
  <2> QED
    BY <1>1, <2>6, <2>9, <2>10, <2>11 DEF ValuesKept, n
<1> QED
  BY <1>2, <1>3

\* pop_front: the first node is freed, and no other.
LEMMA PopFrontNodeStep ==
  ASSUME Types, Shape, front # NULL, PopFrontNode
  PROVE  /\ front' \in Pointer /\ back' \in Pointer /\ node' \in Memory /\ live' \subseteq NODES
         /\ Shape' /\ ValuesKept(NODES)
         /\ Len(order) > 0 /\ order' = Tail(order) /\ live \ live' = {order[1]}
         /\ node[front].next = front'
         /\ front' = NULL => live' = {} /\ back' = NULL
<1> DEFINE n == Len(order)
<1>1. /\ front = order[1] /\ 1 \in 1..n /\ n \in Nat /\ n > 0
      /\ order' = Tail(order)
      /\ node[front].next = NULL <=> n = 1
      /\ order[1] \in live /\ order[1] \in NODES
  <2>1. /\ front = order[1] /\ 1 \in 1..n /\ n \in Nat
        /\ order[1] \in live /\ order[1] \in NODES
    BY Ends
  <2>2. node[order[1]].next = NULL <=> 1 = n
    BY <2>1, Neighbours
  <2> QED
    BY <2>1, <2>2 DEF PopFrontNode
<1>2. CASE n = 1
  <2>1. PopLast(order[1])
    BY <1>1, <1>2 DEF PopFrontNode
  <2>2. order' \in Seq(NODES) /\ Len(order') = 0
    <3>1. order \in Seq(NODES) /\ Len(order) = 1
      BY <1>2 DEF Shape, Distinct
    <3>2. Tail(order) \in Seq(NODES) /\ Len(Tail(order)) = 0
      BY <3>1
    <3> QED
      BY <1>1, <3>2
  <2>3. /\ Shape' /\ live' = {} /\ front' = NULL /\ back' = NULL
        /\ node' \in Memory /\ ValuesKept(NODES)
    BY <1>2, <2>1, <2>2, LastGone
  <2>4. live = {order[1]}
    BY <1>2, Ends
  <2> QED
    BY <1>1, <1>2, <2>3, <2>4 DEF Types, Pointer
<1>3. CASE n # 1
  <2>1. /\ front' = node[front].next /\ live' = live \ {node[front'].previous}
        /\ node' = [node EXCEPT ![front'].previous = NULL] /\ UNCHANGED back
    BY <1>1, <1>3 DEF PopFrontNode
  <2>2. 1 \in 1..n /\ 2 \in 1..n /\ 1 # n /\ n > 1
    <3> HIDE DEF n
    <3> QED
      BY <1>1, <1>3
  <2>3. front' = order[2] /\ front' \in NODES
    <3>1. 1 + 1 = 2
      OBVIOUS
    <3>2. node[order[1]].next = order[2] /\ order[2] \in NODES
      BY <2>2, <3>1, Neighbours
    <3> QED
      BY <1>1, <2>1, <3>2
  <2>4. node[front'].previous = order[1]
    BY <2>2, <2>3, Neighbours
  <2>5. node' = SetPrevious(node, front', NULL)
    BY <2>1 DEF SetPrevious
  <2>6. /\ node' \in Memory
        /\ \A k \in NODES : /\ node'[k].previous = IF k = front' THEN NULL ELSE node[k].previous
                            /\ node'[k].next = node[k].next
                            /\ node'[k].value = node[k].value
    <3>1. node \in Memory /\ front' \in NODES /\ NULL \in Pointer
      BY <2>3 DEF Types, Pointer
    <3> QED
      BY <2>5, <3>1, PreviousSet
  <2>7. /\ Without(order', order, node', order[1])
        /\ First(order') = order[2] /\ Final(order') = Final(order)
    <3>1. \A k \in NODES : /\ node'[k].previous = IF k = order[2] THEN NULL ELSE node[k].previous
                           /\ node'[k].next = node[k].next
      BY <2>3, <2>6
    <3>2. Distinct(order) /\ Chain(order, node) /\ n > 1
      BY <2>2 DEF Shape
    <3> QED
      BY <1>1, <3>1, <3>2, ChainCutFront
  <2> HIDE DEF n
  <2>8. live' = ToSet(order')
    <3>1. DOMAIN order' = 1..Len(order')
      BY <2>7 DEF Distinct, Without
    <3>2. \A x : x \in ToSet(order') <=> \E i \in 1..Len(order') : order'[i] = x
      BY <3>1 DEF ToSet
    <3>3. \A x : x \in live <=> \E i \in 1..n : order[i] = x
      BY Ends DEF n
    <3>4. \A x : (\E i \in 1..Len(order') : order'[i] = x)
                 <=> x # node[front'].previous /\ (\E i \in 1..n : order[i] = x)
      BY <2>4, <2>7 DEF Without, n
    <3>5. \A x : x \in live' <=> x # node[front'].previous /\ x \in live
      BY <2>1
    <3>6. \A x : x \in live' <=> x \in ToSet(order')
      BY <3>2, <3>3, <3>4, <3>5
    <3> QED
      BY <3>6
  <2>9. Shape'
    BY <1>1, <2>1, <2>3, <2>7, <2>8 DEF Shape, Without
  <2>10. live \ live' = {order[1]} /\ live' \subseteq NODES /\ front' # NULL
    BY <1>1, <2>1, <2>3, <2>4, Nulls DEF Types
  <2> QED
    BY <1>1, <2>1, <2>3, <2>6, <2>9, <2>10 DEF ValuesKept, Types, Pointer, n
<1> QED
  BY <1>2, <1>3

\* Moving the last element to the end changes nothing.
LEMMA LastStays ==
  ASSUME NEW S, NEW s \in Seq(S), Len(s) # 0
  PROVE  MovedBack(s, Len(s)) = s
<1> DEFINE t == MovedBack(s, Len(s))
           n == Len(s)
<1>1. n \in Nat /\ n \in 1..n
  OBVIOUS
<1>2. /\ t \in Seq(S) /\ Len(t) = n
      /\ \A j \in 1..n : t[j] = IF j < n THEN s[j] ELSE IF j < n THEN s[j+1] ELSE s[n]
  BY <1>1, MovedBackElements
<1> HIDE DEF t, n
<1>3. \A j \in 1..n : t[j] = s[j]
  BY <1>1, <1>2
<1>4. t = s
  BY <1>2, <1>3, SeqEqual DEF n
<1> QED
  BY <1>4 DEF t, n

\* The two ways of unlinking a node; p is NULL in front.
LEMMA Unlinked ==
  ASSUME Types, NEW n \in NODES, NEW p, NEW q \in NODES, NEW w,
         p = node[n].previous, q = node[n].next,
         \/ p \in NODES /\ w = UnlinkMiddle(n)
         \/ p = NULL /\ w = UnlinkFront(n)
  PROVE  /\ w \in Memory
         /\ \A k \in NODES : /\ w[k].next = IF p # NULL /\ k = p THEN q ELSE node[k].next
                             /\ w[k].previous = IF k = q THEN p ELSE node[k].previous
                             /\ w[k].value = node[k].value
<1>1. node \in Memory /\ q \in Pointer /\ NULL \in Pointer
  BY DEF Types, Pointer
<1>2. CASE p \in NODES /\ w = UnlinkMiddle(n)
  <2> DEFINE a == SetNext(node, p, q)
             b == SetPrevious(a, q, p)
  <2>1. w = b /\ p # NULL /\ p \in Pointer
    BY <1>2, Nulls DEF UnlinkMiddle, SetNext, SetPrevious, Pointer
  <2>2. a \in Memory /\ \A k \in NODES : /\ a[k].next = IF k = p THEN q ELSE node[k].next
                                         /\ a[k].previous = node[k].previous
                                         /\ a[k].value = node[k].value
    <3>1. node \in Memory /\ p \in NODES /\ q \in Pointer
      BY <1>1, <1>2
    <3> QED
      BY ONLY <3>1, NextSet DEF a
  <2> HIDE DEF a
  <2>3. b \in Memory /\ \A k \in NODES : /\ b[k].previous = IF k = q THEN p ELSE a[k].previous
                                         /\ b[k].next = a[k].next
                                         /\ b[k].value = a[k].value
    BY <2>1, <2>2, PreviousSet
  <2> HIDE DEF b
  <2> QED
    BY <2>1, <2>2, <2>3
<1>3. CASE p = NULL /\ w = UnlinkFront(n)
  <2>1. w = SetPrevious(node, q, NULL)
    BY <1>3 DEF UnlinkFront, SetPrevious
  <2> QED
    <3>1. /\ w \in Memory
          /\ \A k \in NODES : /\ w[k].previous = IF k = q THEN NULL ELSE node[k].previous
                              /\ w[k].next = node[k].next
                              /\ w[k].value = node[k].value
      <4> DEFINE a == SetPrevious(node, q, NULL)
      <4>1. /\ a \in Memory
            /\ \A k \in NODES : /\ a[k].previous = IF k = q THEN NULL ELSE node[k].previous
                                /\ a[k].next = node[k].next
                                /\ a[k].value = node[k].value
        <5>1. node \in Memory /\ q \in NODES /\ NULL \in Pointer
          BY <1>1
        <5> QED
          BY ONLY <5>1, PreviousSet
      <4> HIDE DEF a
      <4>2. w = a
        BY <2>1 DEF a
      <4> QED
        BY <4>1, <4>2
    <3> QED
      BY <1>3, <3>1
<1> QED
  BY <1>2, <1>3

\* move_back: one element is moved to the end, every node stays.
LEMMA MoveBackStep ==
  ASSUME Types, Shape, NEW n \in NODES, MoveBack(n)
  PROVE  /\ Types' /\ Shape' /\ ValuesKept(NODES) /\ live' = live
         /\ \E i \in 1..Len(order) : order' = MovedBack(order, i)
<1> DEFINE len == Len(order)
<1>0. order \in Seq(NODES) /\ len \in Nat /\ DOMAIN order = 1..len
  BY DEF Shape, Distinct
<1>1. PICK i \in 1..len : order[i] = n /\ order' = MovedBack(order, i)
  BY <1>0 DEF MoveBack, MovedBack
<1>2. /\ UNCHANGED <<live, cursor, kept, fault>>
      /\ back \in NODES /\ back = order[len] /\ front \in NODES /\ front = order[1]
      /\ len \in 1..len /\ len > 0
  <2>1. n \in live /\ UNCHANGED <<live, cursor, kept, fault>>
    BY DEF MoveBack
  <2>2. len # 0
    BY <1>0, <1>1
  <2> QED
    BY <1>0, <2>1, <2>2, Ends
<1>3. /\ node[n].next = NULL <=> i = len
      /\ node[n].previous = NULL <=> i = 1
      /\ i # len => i + 1 \in 1..len /\ node[n].next = order[i+1] /\ order[i+1] \in NODES
      /\ node[n].previous = PreviousIn(order, i)
      /\ i # 1 => order[i-1] \in NODES
  <2>1. /\ i # len => i + 1 \in 1..len
        /\ i # 1 => i - 1 \in 1..len
    <3> HIDE DEF len
    <3> QED
      BY <1>0
  <2> QED
    BY <1>1, <2>1, Neighbours
<1>4. CASE i = len
  <2>1. order' = order
    BY <1>0, <1>1, <1>2, <1>4, LastStays
  <2>2. UNCHANGED <<front, back, node>>
    BY <1>3, <1>4 DEF MoveBack
  <2>3. Shape' /\ Types'
    BY <1>2, <2>1, <2>2 DEF Shape, Types
  <2> QED
    BY <1>1, <1>2, <2>2, <2>3 DEF ValuesKept
<1>5. CASE i # len
  <2> DEFINE p == node[n].previous
             q == node[n].next
             u == IF i = 1 THEN UnlinkFront(n) ELSE UnlinkMiddle(n)
  <2>1. /\ q \in NODES /\ q = order[i+1] /\ q # NULL
        /\ i = 1 => p = NULL
        /\ i # 1 => p \in NODES /\ p # NULL /\ p = order[i-1]
        /\ p = PreviousIn(order, i)
    BY <1>3, <1>5, Nulls DEF PreviousIn
  <2>2. /\ node' = PlaceNodeAtBack(u, n) /\ back' = n
        /\ front' = IF i = 1 THEN q ELSE front
    BY <1>3, <1>5, <2>1 DEF MoveBack
  <2>3. /\ u \in Memory
        /\ \A k \in NODES : /\ u[k].next = IF p # NULL /\ k = p THEN q ELSE node[k].next
                            /\ u[k].previous = IF k = q THEN p ELSE node[k].previous
                            /\ u[k].value = node[k].value
    <3>1. (p \in NODES /\ u = UnlinkMiddle(n)) \/ (p = NULL /\ u = UnlinkFront(n))
      BY <2>1
    <3> HIDE DEF p, q, u
    <3> QED
      BY <2>1, <3>1, Unlinked DEF p, q
  <2> HIDE DEF u
  <2>4. /\ node' \in Memory
        /\ \A k \in NODES :
             /\ node'[k].next = IF k = n THEN NULL ELSE IF k = back THEN n ELSE u[k].next
             /\ node'[k].previous = IF k = n THEN back ELSE u[k].previous
             /\ node'[k].value = u[k].value
    <3>1. u \in Memory /\ back \in NODES /\ n \in NODES /\ node' = PlaceNodeAtBack(u, n)
      BY <1>2, <2>2, <2>3
    <3> QED
      BY ONLY <3>1, Placed, SMTT(20)
  <2> HIDE DEF p, q
  <2>5. \A k \in NODES :
           /\ node'[k].next = IF k = order[i] THEN NULL
                              ELSE IF k = order[len] THEN order[i]
                              ELSE IF i # 1 /\ k = order[i-1] THEN order[i+1] ELSE node[k].next
           /\ node'[k].previous = IF k = order[i] THEN order[len]
                                  ELSE IF k = order[i+1] THEN PreviousIn(order, i)
                                  ELSE node[k].previous
    BY <1>1, <1>2, <2>1, <2>3, <2>4
  <2>6. /\ Distinct(order') /\ Chain(order', node')
        /\ First(order') = (IF i = 1 THEN order[2] ELSE First(order)) /\ Final(order') = order[i]
        /\ ToSet(order') = ToSet(order)
    <3>1. i \in 1..len-1 /\ Distinct(order) /\ Chain(order, node)
      <4>1. i \in 1..len-1
        <5> HIDE DEF len
        <5> QED
          BY <1>0, <1>5
      <4> QED
        BY <4>1 DEF Shape
    <3>2. LET t == MovedBack(order, i)
          IN /\ Distinct(t) /\ Chain(t, node')
             /\ First(t) = (IF i = 1 THEN order[2] ELSE First(order)) /\ Final(t) = order[i]
             /\ ToSet(t) = ToSet(order)
      BY <2>5, <3>1, ChainMoved
    <3> QED
      BY <1>1, <3>2
  <2>7. Shape'
    <3>1. i = 1 => q = order[2]
      BY <2>1
    <3> QED
      BY <1>1, <1>2, <2>2, <2>6, <3>1 DEF Shape
  <2>8. Types'
    BY <1>2, <2>1, <2>2, <2>4 DEF Types, Pointer
  <2> QED
    BY <1>1, <1>2, <2>3, <2>4, <2>7, <2>8 DEF ValuesKept
<1> QED
  BY <1>4, <1>5

-----------------------------------------------------------------------------
(* The state of every reachable list.                                      *)

\* The loop variable of clear_list is the front node, until a node it has freed
\* is found overwritten.
AtFront == kept /\ cursor \in NODES => cursor = front

Inv == Types /\ Shape /\ AtFront

\* An iteration on a list that is not empty is a pop_front, whatever the loop
\* variable is; on an empty one it changes nothing of the list.
LEMMA ClearPops ==
  ASSUME Inv, ClearStep
  PROVE  /\ cursor \in NODES /\ fault' = fault
         /\ front' \in Pointer /\ back' \in Pointer /\ node' \in Memory /\ live' \subseteq NODES
         /\ Shape' /\ ValuesKept(NODES)
         /\ \/ /\ front # NULL
               /\ Len(order) > 0 /\ order' = Tail(order) /\ live \ live' = {front}
               /\ node[front].next = front'
               /\ front' = NULL => live' = {} /\ back' = NULL
            \/ front = NULL /\ UNCHANGED <<front, back, node, live, order>>
<1>1. cursor \in NODES /\ fault' = fault /\ Types /\ Shape
  BY DEF ClearStep, Inv
<1>2. CASE front # NULL
  <2>1. PopFrontNode
    BY <1>2 DEF ClearStep
  <2>2. /\ front' \in Pointer /\ back' \in Pointer /\ node' \in Memory /\ live' \subseteq NODES
        /\ Shape' /\ ValuesKept(NODES)
        /\ Len(order) > 0 /\ order' = Tail(order) /\ live \ live' = {order[1]}
        /\ node[front].next = front'
        /\ front' = NULL => live' = {} /\ back' = NULL
    BY <1>1, <1>2, <2>1, PopFrontNodeStep
  <2>3. front = order[1]
    BY <1>1, <1>2, Ends
  <2> QED
    BY <1>1, <1>2, <2>2, <2>3
<1>3. CASE front = NULL
  <2>1. UNCHANGED <<front, back, node, live, order>>
    BY <1>3 DEF ClearStep
  <2> QED
    BY <1>1, <1>3, <2>1 DEF Types, Shape, ValuesKept
<1> QED
  BY <1>2, <1>3

\* Where the loop goes on.  What it read in the nodes it freed is what it left
\* in them, if it still stands at the front, or if it ends on an empty list.
LEMMA ClearStepStep ==
  ASSUME Inv, ClearStep
  PROVE  /\ Inv'
         /\ kept' => (IF front' = NULL THEN cursor' = Idle ELSE cursor' = front')
         /\ cursor' = Idle /\ kept' => front' = NULL /\ back' = NULL /\ live' = {}
<1>1. /\ cursor \in NODES /\ fault' = fault
      /\ front' \in Pointer /\ back' \in Pointer /\ node' \in Memory /\ live' \subseteq NODES
      /\ Shape'
  BY ClearPops
<1>2. PICK next \in NextRead(cursor) : /\ cursor' = IF next = NULL THEN Idle ELSE next
                                       /\ kept' = (kept /\ next = node[cursor].next)
  BY DEF ClearStep
<1>3. next \in Pointer \cup {Wild}
  BY <1>1, <1>2 DEF NextRead, Memory, Node
<1>4. kept \in BOOLEAN /\ fault \in {"none", "null_write", "wild_read"}
  BY DEF Inv, Types
<1>5. Types'
  BY <1>1, <1>2, <1>3, <1>4 DEF Types, Pointer
<1>6. ASSUME kept' PROVE next = front' /\ (front' = NULL => live' = {} /\ back' = NULL)
  <2>1. cursor = front /\ next = node[cursor].next /\ front # NULL
    BY <1>1, <1>2, <1>4, <1>6, Nulls DEF Inv, AtFront
  <2> QED
    BY <2>1, ClearPops
<1>7. kept' => (IF front' = NULL THEN cursor' = Idle ELSE cursor' = front')
  BY <1>2, <1>6
<1>8. AtFront'
  BY <1>7, Nulls DEF AtFront
<1>9. cursor' = Idle /\ kept' => front' = NULL /\ back' = NULL /\ live' = {}
  BY <1>1, <1>6, <1>7, Nulls DEF Pointer
<1> QED
  BY <1>1, <1>5, <1>7, <1>8, <1>9 DEF Inv

\* A step of the list: to Inv again, with no value moved and no node freed but one
\* at an end.
Step ==
  /\ Inv'
  /\ \A k \in live \cap live' : node'[k].value = node[k].value
  /\ \E end \in {front, back} : live \ live' \subseteq {end}
  /\ cursor # Idle /\ cursor' = Idle /\ kept' => front' = NULL /\ back' = NULL /\ live' = {}

\* A call that does what its lemma says is such a step.
LEMMA CallStep ==
  ASSUME Inv, Types', Shape', cursor = Idle, cursor' = Idle, NEW end \in {front, back}, NEW changed,
         ValuesKept(NODES \ changed), changed \cap live = {}, live \ live' \subseteq {end}
  PROVE  Step
BY Nulls DEF Step, Inv, AtFront, ValuesKept, Types

\* Every action is.
LEMMA NextStep ==
  ASSUME Inv, [Next]_vars
  PROVE  Step
<1>0. Types /\ Shape /\ NODES \ {} = NODES
  BY DEF Inv
<1>1. ASSUME NEW value \in VALUES, PushBack(value) PROVE Step
  <2>1. cursor = Idle /\ cursor' = Idle
    BY <1>1 DEF PushBack, Call
  <2>2. Types' /\ Shape'
    BY ONLY <1>0, <1>1, PushBackStep
  <2>3. PICK new \in NODES \ live : live' = live \cup {new} /\ ValuesKept(NODES \ {new})
    BY ONLY <1>0, <1>1, PushBackStep
  <2>4. {new} \cap live = {} /\ live \ live' \subseteq {front}
    BY <2>3
  <2> QED
    BY <2>1, <2>2, <2>3, <2>4, CallStep
<1>2. ASSUME NEW value \in VALUES, PushFront(value) PROVE Step
  <2>1. cursor = Idle /\ cursor' = Idle
    BY <1>2 DEF PushFront, Call
  <2>2. Types' /\ Shape'
    BY ONLY <1>0, <1>2, PushFrontStep
  <2>3. PICK new \in NODES \ live : live' = live \cup {new} /\ ValuesKept(NODES \ {new})
    BY ONLY <1>0, <1>2, PushFrontStep
  <2>4. {new} \cap live = {} /\ live \ live' \subseteq {front}
    BY <2>3
  <2> QED
    BY <2>1, <2>2, <2>3, <2>4, CallStep
<1>3. CASE PopBack
  <2>1. cursor = Idle /\ cursor' = Idle
    BY <1>3 DEF PopBack, Call
  <2>2. Types' /\ Shape' /\ ValuesKept(NODES) /\ live \ live' = {order[Len(order)]}
    BY <1>0, <1>3, PopBackStep
  <2>3. back = order[Len(order)] /\ {} \cap live = {}
    BY <1>0, <1>3, Ends DEF PopBack
  <2> QED
    BY <1>0, <2>1, <2>2, <2>3, CallStep
<1>4. CASE PopFront
  <2>1. cursor = Idle /\ cursor' = Idle /\ kept' = kept /\ fault' = fault /\ front # NULL /\ PopFrontNode
    BY <1>4 DEF PopFront, Call
  <2>2. Types' /\ Shape' /\ ValuesKept(NODES) /\ live \ live' = {order[1]}
    BY <1>0, <2>1, PopFrontNodeStep DEF Types
  <2>3. front = order[1] /\ {} \cap live = {}
    BY <1>0, <2>1, Ends
  <2> QED
    BY <1>0, <2>1, <2>2, <2>3, CallStep
<1>5. ASSUME NEW n \in NODES, MoveBack(n) PROVE Step
  <2>1. cursor = Idle /\ cursor' = Idle
    BY <1>5 DEF MoveBack, Call
  <2>2. Types' /\ Shape' /\ ValuesKept(NODES) /\ live' = live
    BY <1>0, <1>5, MoveBackStep
  <2> QED
    BY <1>0, <2>1, <2>2, CallStep
<1>6. CASE ClearStep
  <2>1. /\ Inv'
        /\ cursor' = Idle /\ kept' => front' = NULL /\ back' = NULL /\ live' = {}
    BY <1>6, ClearStepStep
  <2>2. ValuesKept(NODES) /\ live \ live' \subseteq {front}
    BY <1>6, ClearPops
  <2> QED
    BY <2>1, <2>2 DEF Step, ValuesKept, Inv, Types
<1>7. CASE UNCHANGED <<front, back, node, live, order>> /\ (ClearBegin \/ ClearWild \/ CallocFails)
  <2>1. Shape'
    BY <1>0, <1>7 DEF Shape
  <2>2. Types' /\ AtFront' /\ (cursor' # Idle \/ cursor = Idle)
    BY <1>7, ListAssumption, Nulls DEF Types, AtFront, Inv, ClearBegin, ClearWild, CallocFails, Call, Pointer
  <2>3. live \ live' = {} /\ \A k \in live \cap live' : node'[k].value = node[k].value
    BY <1>7
  <2> QED
    BY <2>1, <2>2, <2>3 DEF Step, Inv
<1>8. CASE UNCHANGED vars
  BY <1>8 DEF vars, Step, Inv, Types, Shape, AtFront
<1> QED
  BY <1>1, <1>2, <1>3, <1>4, <1>5, <1>6, <1>7, <1>8
     DEF Next, ClearBegin, ClearWild, CallocFails

\* The empty list.
LEMMA InvInit == Init => Inv
<1>1. ASSUME Init PROVE Inv
  <2>1. node \in Memory
    BY <1>1 DEF Init, Memory, Node, Pointer
  <2>2. Shape
    BY <1>1 DEF Init, Shape, Distinct, Chain, First, Final, ToSet
  <2> QED
    BY <1>1, <2>1, <2>2, Nulls DEF Init, Inv, Types, AtFront, Pointer
<1> QED
  BY <1>1

(***************************************************************************)
(* For every number of nodes, in every order of calls and wherever in      *)
(* clear_list: the two chains of pointers are the list, and the allocated  *)
(* nodes are its nodes.                                                    *)
(***************************************************************************)
THEOREM AlwaysLinked == Spec => []Linked
<1>1. Inv /\ [Next]_vars => Inv'
  BY NextStep DEF Step
<1>2. Inv => Linked
  BY LinkedParts DEF Inv
<1> QED
  BY <1>1, <1>2, InvInit, PTL DEF Spec

(***************************************************************************)
(* A pointer to a node stays good: no operation moves a value to another   *)
(* node, or frees a node but one that is the front or the back.            *)
(***************************************************************************)
THEOREM PointersStay == Spec => NodesStay
<1> DEFINE Stay == /\ \A n \in live \cap live' : node'[n].value = node[n].value
                   /\ \E end \in {front, back} : live \ live' \subseteq {end}
<1>1. Inv /\ [Next]_vars => Inv' /\ [Stay]_vars
  BY NextStep DEF Step
<1> QED
  BY <1>1, InvInit, PTL DEF Spec, NodesStay

(***************************************************************************)
(* clear_list, if it returns and what it read in the nodes it had freed is *)
(* what it left there, leaves an empty list and no node behind: the test   *)
(* of the loop, on the freed node, and the ends that pop_front keeps meet  *)
(* the end of the list in the same iteration.                              *)
(***************************************************************************)
THEOREM ClearLeavesNothing == Spec => ClearEmpties
<1> DEFINE Empty == front' = NULL /\ back' = NULL /\ live' = {}
<1>1. Inv /\ [Next]_vars => Inv' /\ [cursor # Idle /\ cursor' = Idle /\ kept' => Empty]_vars
  BY NextStep DEF Step
<1> QED
  BY <1>1, InvInit, PTL DEF Spec, ClearEmpties

(***************************************************************************)
(* An iteration of clear_list on a list that is not empty frees the front  *)
(* node, wherever the loop variable points; it goes on to a node that is   *)
(* still allocated, or ends, unless a freed node was overwritten.          *)
(***************************************************************************)
ClearAdvances ==
  [][(cursor \in NODES /\ front # NULL) =>
       /\ live \ live' = {front} /\ Len(order') < Len(order)
       /\ kept' => cursor' \in live' \cup {Idle}]_vars

LEMMA ClearAdvance ==
  ASSUME Inv, ClearStep, front # NULL
  PROVE  /\ live \ live' = {front} /\ Len(order') < Len(order)
         /\ kept' => cursor' \in live' \cup {Idle}
<1>1. Len(order) > 0 /\ order' = Tail(order) /\ live \ live' = {front} /\ Shape'
  BY ClearPops
<1>2. kept' => (IF front' = NULL THEN cursor' = Idle ELSE cursor' = front')
  BY ClearStepStep
<1>3. front' # NULL => front' \in live'
  <2>1. Len(order') \in Nat /\ DOMAIN order' = 1..Len(order') /\ live' = ToSet(order')
    BY <1>1 DEF Shape, Distinct
  <2>2. \A j \in 1..Len(order') : order'[j] \in live'
    BY <2>1 DEF ToSet
  <2>3. front' # NULL => front' = order'[1] /\ 1 \in 1..Len(order')
    <3>1. front' = IF Len(order') = 0 THEN NULL ELSE order'[1]
      BY <1>1 DEF Shape, First
    <3> QED
      BY <2>1, <3>1
  <2> QED
    BY <2>2, <2>3
<1>4. Len(order') < Len(order)
  <2>1. order \in Seq(NODES) /\ order # <<>>
    BY <1>1 DEF Inv, Shape, Distinct
  <2>2. Len(Tail(order)) = Len(order) - 1 /\ Len(order) \in Nat
    BY <2>1
  <2> QED
    BY <1>1, <2>2
<1> QED
  BY <1>1, <1>2, <1>3, <1>4

(***************************************************************************)
(* No list, however long, keeps clear_list in its loop: what is left of it *)
(* gets shorter with every iteration.  (That the iterations are taken is   *)
(* the fairness of FairSpec.)                                              *)
(***************************************************************************)
THEOREM ClearShortens == Spec => ClearAdvances
<1> DEFINE Advance == /\ live \ live' = {front} /\ Len(order') < Len(order)
                      /\ kept' => cursor' \in live' \cup {Idle}
<1>1. Inv /\ [Next]_vars => Inv' /\ [(cursor \in NODES /\ front # NULL) => Advance]_vars
  <2>1. SUFFICES ASSUME Inv, [Next]_vars, cursor \in NODES, front # NULL, vars' # vars
                 PROVE  Advance
    BY NextStep DEF Step
  <2>2. ~Call /\ cursor # Wild
    BY <2>1, Nulls DEF Call
  <2>3. ClearStep
    BY <2>1, <2>2 DEF Next, PushBack, PushFront, CallocFails, PopBack, PopFront, MoveBack,
                      ClearBegin, ClearWild
  <2> QED
    BY <2>1, <2>3, ClearAdvance
<1> QED
  BY <1>1, InvInit, PTL DEF Spec, ClearAdvances

-----------------------------------------------------------------------------
(* Each function is its operation on the sequence of the values.           *)

\* The values of the nodes s in the memory m.
Vals(s, m) == [i \in DOMAIN s |-> m[s[i]].value]

LEMMA ValsType ==
  ASSUME NEW s \in Seq(NODES), NEW m \in Memory
  PROVE  /\ Vals(s, m) \in Seq(VALUES) /\ Len(Vals(s, m)) = Len(s)
         /\ \A i \in 1..Len(s) : Vals(s, m)[i] = m[s[i]].value
<1>1. DOMAIN s = 1..Len(s) /\ Len(s) \in Nat
  OBVIOUS
<1>2. \A i \in 1..Len(s) : m[s[i]].value \in VALUES
  BY DEF Memory, Node
<1>3. Vals(s, m) = [i \in 1..Len(s) |-> m[s[i]].value]
  BY <1>1 DEF Vals
<1> QED
  BY <1>1, <1>2, <1>3

\* The memory may change where the values stay.
LEMMA ValsKept ==
  ASSUME NEW s \in Seq(NODES), NEW m, NEW w, \A i \in 1..Len(s) : w[s[i]].value = m[s[i]].value
  PROVE  Vals(s, w) = Vals(s, m)
BY DEF Vals

\* The values follow the nodes through each sequence operation.
LEMMA ValsAppend ==
  ASSUME NEW s \in Seq(NODES), NEW x \in NODES, NEW m \in Memory
  PROVE  Vals(Append(s, x), m) = Append(Vals(s, m), m[x].value)
<1> DEFINE t == Append(s, x)
           u == Append(Vals(s, m), m[x].value)
           n == Len(s)
<1>1. /\ t \in Seq(NODES) /\ Len(t) = n + 1 /\ n \in Nat
      /\ \A i \in 1..n : t[i] = s[i]
      /\ t[n+1] = x
  OBVIOUS
<1>2. m[x].value \in VALUES
  BY DEF Memory, Node
<1>3. /\ Vals(s, m) \in Seq(VALUES) /\ Len(Vals(s, m)) = n
      /\ \A i \in 1..n : Vals(s, m)[i] = m[s[i]].value
  BY ValsType
<1>4. /\ u \in Seq(VALUES) /\ Len(u) = n + 1
      /\ \A i \in 1..n : u[i] = m[s[i]].value
      /\ u[n+1] = m[x].value
  BY <1>1, <1>2, <1>3
<1>5. /\ Vals(t, m) \in Seq(VALUES) /\ Len(Vals(t, m)) = n + 1
      /\ \A i \in 1..n+1 : Vals(t, m)[i] = m[t[i]].value
  BY <1>1, ValsType
<1> HIDE DEF t, u, n
<1>6. \A i \in 1..n+1 : i \in 1..n \/ i = n + 1
  BY <1>1
<1>7. \A i \in 1..n+1 : Vals(t, m)[i] = u[i]
  BY <1>1, <1>4, <1>5, <1>6
<1>8. Vals(t, m) = u
  BY <1>4, <1>5, <1>7, SeqEqual
<1> QED
  BY <1>8 DEF t, u

LEMMA ValsCons ==
  ASSUME NEW s \in Seq(NODES), NEW x \in NODES, NEW m \in Memory
  PROVE  Vals(Cons(x, s), m) = Cons(m[x].value, Vals(s, m))
<1> DEFINE t == Cons(x, s)
           u == Cons(m[x].value, Vals(s, m))
           n == Len(s)
<1>1. /\ t \in Seq(NODES) /\ Len(t) = n + 1 /\ n \in Nat
      /\ \A i \in 1..n : t[i+1] = s[i]
      /\ t[1] = x
  BY DEF Cons
<1>2. m[x].value \in VALUES
  BY DEF Memory, Node
<1>3. /\ Vals(s, m) \in Seq(VALUES) /\ Len(Vals(s, m)) = n
      /\ \A i \in 1..n : Vals(s, m)[i] = m[s[i]].value
  BY ValsType
<1>4. /\ u \in Seq(VALUES) /\ Len(u) = n + 1
      /\ \A i \in 1..n : u[i+1] = m[s[i]].value
      /\ u[1] = m[x].value
  BY <1>1, <1>2, <1>3 DEF Cons
<1>5. /\ Vals(t, m) \in Seq(VALUES) /\ Len(Vals(t, m)) = n + 1
      /\ \A i \in 1..n+1 : Vals(t, m)[i] = m[t[i]].value
  BY <1>1, ValsType
<1> HIDE DEF t, u, n
<1>6. ASSUME NEW i \in 1..n+1
      PROVE  Vals(t, m)[i] = u[i]
  <2>1. CASE i = 1
    BY <1>1, <1>4, <1>5, <2>1
  <2>2. CASE i # 1
    <3>1. PICK j \in 1..n : i = j + 1
      <4>1. i - 1 \in 1..n /\ i = (i - 1) + 1
        BY <1>1, <2>2
      <4> QED
        BY <4>1
    <3>2. Vals(t, m)[i] = m[t[i]].value
      BY <1>5
    <3> QED
      BY <1>1, <1>4, <3>1, <3>2
  <2> QED
    BY <2>1, <2>2
<1>7. \A i \in 1..n+1 : Vals(t, m)[i] = u[i]
  BY <1>6
<1>8. Vals(t, m) = u
  BY <1>4, <1>5, <1>7, SeqEqual
<1> QED
  BY <1>8 DEF t, u

\* A sequence without its last element.
LEMMA FrontElements ==
  ASSUME NEW S, NEW s \in Seq(S), Len(s) > 0
  PROVE  /\ Front(s) \in Seq(S) /\ Len(Front(s)) = Len(s) - 1
         /\ \A i \in 1..Len(s)-1 : Front(s)[i] = s[i]
<1> DEFINE n == Len(s)
<1>1. n \in Nat /\ n > 0 /\ \A i \in 1..n : s[i] \in S
  OBVIOUS
<1>2. Front(s) = SubSeq(s, 1, n-1)
  BY DEF Front
<1> HIDE DEF n
<1>3. 1 \in Int /\ n-1 \in Int /\ \A i \in 1..n-1 : s[i] \in S
  BY <1>1
<1>4. /\ SubSeq(s, 1, n-1) \in Seq(S)
      /\ Len(SubSeq(s, 1, n-1)) = IF 1 <= n-1 THEN (n-1)-1+1 ELSE 0
      /\ \A i \in 1..(n-1)-1+1 : SubSeq(s, 1, n-1)[i] = s[1+i-1]
  BY <1>3, SubSeqProperties
<1>5. Len(SubSeq(s, 1, n-1)) = n - 1 /\ (n-1)-1+1 = n-1 /\ \A i \in 1..n-1 : 1+i-1 = i
  BY <1>1, <1>4
<1> QED
  BY <1>2, <1>4, <1>5 DEF n

LEMMA ValsFront ==
  ASSUME NEW s \in Seq(NODES), Len(s) > 0, NEW m \in Memory
  PROVE  Vals(Front(s), m) = Front(Vals(s, m))
<1> DEFINE n == Len(s)
           t == Front(s)
           v == Vals(s, m)
           u == Front(v)
<1>1. /\ t \in Seq(NODES) /\ Len(t) = n - 1 /\ n \in Nat /\ n > 0
      /\ \A i \in 1..n-1 : t[i] = s[i]
  BY FrontElements
<1>2. v \in Seq(VALUES) /\ Len(v) = n /\ \A i \in 1..n : v[i] = m[s[i]].value
  BY ValsType
<1> HIDE DEF v
<1>3. u \in Seq(VALUES) /\ Len(u) = n - 1 /\ \A i \in 1..n-1 : u[i] = v[i]
  BY <1>1, <1>2, FrontElements
<1>4. /\ Vals(t, m) \in Seq(VALUES) /\ Len(Vals(t, m)) = n - 1
      /\ \A i \in 1..n-1 : Vals(t, m)[i] = m[t[i]].value
  BY <1>1, ValsType
<1> HIDE DEF t, u, n
<1>5. \A i \in 1..n-1 : i \in 1..n /\ v[i] = m[t[i]].value
  BY <1>1, <1>2
<1>6. \A i \in 1..n-1 : Vals(t, m)[i] = u[i]
  BY <1>3, <1>4, <1>5
<1>7. Vals(t, m) = u
  BY <1>3, <1>4, <1>6, SeqEqual
<1> QED
  BY <1>7 DEF t, u, v

LEMMA ValsTail ==
  ASSUME NEW s \in Seq(NODES), Len(s) > 0, NEW m \in Memory
  PROVE  Vals(Tail(s), m) = Tail(Vals(s, m))
<1> DEFINE n == Len(s)
           t == Tail(s)
           v == Vals(s, m)
           u == Tail(v)
<1>1. /\ t \in Seq(NODES) /\ Len(t) = n - 1 /\ n \in Nat /\ n > 0
      /\ \A i \in 1..n-1 : t[i] = s[i+1]
  OBVIOUS
<1>2. v \in Seq(VALUES) /\ Len(v) = n /\ \A i \in 1..n : v[i] = m[s[i]].value
  BY ValsType
<1> HIDE DEF v
<1>3. u \in Seq(VALUES) /\ Len(u) = n - 1 /\ \A i \in 1..n-1 : u[i] = v[i+1]
  <2> HIDE DEF n, t
  <2> QED
    BY <1>1, <1>2
<1>4. /\ Vals(t, m) \in Seq(VALUES) /\ Len(Vals(t, m)) = n - 1
      /\ \A i \in 1..n-1 : Vals(t, m)[i] = m[t[i]].value
  BY <1>1, ValsType
<1> HIDE DEF t, u, n
<1>5. \A i \in 1..n-1 : i + 1 \in 1..n
  BY <1>1
<1>6. \A i \in 1..n-1 : Vals(t, m)[i] = u[i]
  BY <1>1, <1>2, <1>3, <1>4, <1>5
<1>7. Vals(t, m) = u
  BY <1>3, <1>4, <1>6, SeqEqual
<1> QED
  BY <1>7 DEF t, u, v

LEMMA ValsMoved ==
  ASSUME NEW s \in Seq(NODES), NEW i \in 1..Len(s), NEW m \in Memory
  PROVE  Vals(MovedBack(s, i), m) = MovedBack(Vals(s, m), i)
<1> DEFINE n == Len(s)
           t == MovedBack(s, i)
           v == Vals(s, m)
           u == MovedBack(v, i)
           from(j) == IF j < i THEN j ELSE IF j < n THEN j + 1 ELSE i
<1>1. /\ t \in Seq(NODES) /\ Len(t) = n /\ n \in Nat
      /\ \A j \in 1..n : t[j] = IF j < i THEN s[j] ELSE IF j < n THEN s[j+1] ELSE s[i]
  BY MovedBackElements
<1>2. v \in Seq(VALUES) /\ Len(v) = n /\ \A j \in 1..n : v[j] = m[s[j]].value
  BY ValsType
<1> HIDE DEF v
<1>3. /\ u \in Seq(VALUES) /\ Len(u) = n
      /\ \A j \in 1..n : u[j] = IF j < i THEN v[j] ELSE IF j < n THEN v[j+1] ELSE v[i]
  BY <1>2, MovedBackElements
<1>4. /\ Vals(t, m) \in Seq(VALUES) /\ Len(Vals(t, m)) = n
      /\ \A j \in 1..n : Vals(t, m)[j] = m[t[j]].value
  BY <1>1, ValsType
<1> HIDE DEF t, u
<1>5. \A j \in 1..n : from(j) \in 1..n /\ t[j] = s[from(j)] /\ u[j] = v[from(j)]
  BY <1>1, <1>3
<1> HIDE DEF from, n
<1>6. ASSUME NEW j \in 1..n PROVE Vals(t, m)[j] = u[j]
  <2>1. PICK k \in 1..n : t[j] = s[k] /\ u[j] = v[k]
    BY <1>5
  <2>2. v[k] = m[s[k]].value /\ Vals(t, m)[j] = m[t[j]].value
    BY <1>2, <1>4
  <2> QED
    BY <2>1, <2>2
<1>7. Vals(t, m) = u
  BY <1>3, <1>4, <1>6, SeqEqual
<1> QED
  BY <1>7 DEF t, u, v

-----------------------------------------------------------------------------
\* A step that keeps the values of the allocated nodes keeps the list's.
LEMMA SameValues ==
  ASSUME Types, Shape, NEW K, live \subseteq K, ValuesKept(K)
  PROVE  Vals(order, node') = Vals(order, node)
<1>1. order \in Seq(NODES) /\ \A i \in 1..Len(order) : order[i] \in live
  <2>1. order \in Seq(NODES)
    BY DEF Shape, Distinct
  <2> QED
    BY <2>1, Ends
<1>2. \A i \in 1..Len(order) : node'[order[i]].value = node[order[i]].value
  BY <1>1 DEF ValuesKept
<1> QED
  BY ONLY <1>1, <1>2, ValsKept

\* Every step maps to a step of ListSpec, or to a stutter.
LEMMA ValuesStep ==
  ASSUME Inv, [Next]_vars
  PROVE  [Abstract!Next]_Values
<1> DEFINE v == Vals(order, node)
           w == Vals(order', node')
<1>0. Types /\ Shape /\ NODES \ {} = NODES /\ node \in Memory /\ order \in Seq(NODES)
      /\ live \subseteq NODES
  BY DEF Inv, Types, Shape, Distinct
<1>v. v = Values /\ w = Values' /\ v \in Seq(VALUES) /\ Len(v) = Len(order)
  BY <1>0, ValsType DEF Values, Vals
<1>s. Types' /\ Shape' /\ node' \in Memory
  BY NextStep DEF Step, Inv, Types
<1> USE DEF Abstract!Next
<1>1. ASSUME NEW value \in VALUES, PushBack(value) PROVE Abstract!PushBack(value)
  <2>1. PICK new \in NODES \ live : /\ order' = Append(order, new) /\ node'[new].value = value
                                   /\ ValuesKept(NODES \ {new})
    BY <1>0, <1>1, PushBackStep
  <2>2. w = Append(Vals(order, node'), node'[new].value)
    BY <1>0, <1>s, <2>1, ValsAppend
  <2>3. live \subseteq NODES \ {new}
    BY <1>0, <2>1
  <2>4. Vals(order, node') = v
    BY <1>0, <2>1, <2>3, SameValues
  <2> QED
    BY <1>v, <2>1, <2>2, <2>4 DEF Abstract!PushBack
<1>2. ASSUME NEW value \in VALUES, PushFront(value) PROVE Abstract!PushFront(value)
  <2>1. PICK new \in NODES \ live : /\ order' = Cons(new, order) /\ node'[new].value = value
                                   /\ ValuesKept(NODES \ {new})
    BY <1>0, <1>2, PushFrontStep DEF Cons
  <2>2. w = Cons(node'[new].value, Vals(order, node'))
    BY <1>0, <1>s, <2>1, ValsCons
  <2>3. live \subseteq NODES \ {new}
    BY <1>0, <2>1
  <2>4. Vals(order, node') = v
    BY <1>0, <2>1, <2>3, SameValues
  <2> QED
    BY <1>v, <2>1, <2>2, <2>4 DEF Abstract!PushFront, Cons
<1>3. CASE PopBack
  <2>1. Len(order) > 0 /\ order' = Front(order) /\ ValuesKept(NODES)
    BY <1>0, <1>3, PopBackStep
  <2>2. w = Front(Vals(order, node'))
    BY <1>0, <1>s, <2>1, ValsFront
  <2>3. Vals(order, node') = v
    BY <1>0, <2>1, SameValues
  <2>4. v # <<>>
    BY <1>v, <2>1
  <2>5. Values' = Front(Values) /\ Values # <<>>
    BY <1>v, <2>2, <2>3, <2>4
  <2>6. Abstract!PopBack
    BY ONLY <2>5 DEF Abstract!PopBack, Abstract!Front, Front
  <2> QED
    BY <2>6
<1>4. ASSUME Len(order) > 0, order' = Tail(order), ValuesKept(NODES) PROVE Abstract!PopFront
  <2>2. w = Tail(Vals(order, node'))
    BY <1>0, <1>s, <1>4, ValsTail
  <2>3. Vals(order, node') = v
    BY <1>0, <1>4, SameValues
  <2>4. v # <<>>
    BY <1>v, <1>4
  <2> QED
    BY <1>v, <2>2, <2>3, <2>4 DEF Abstract!PopFront
<1>5. CASE PopFront
  <2>1. front # NULL /\ PopFrontNode
    BY <1>5 DEF PopFront
  <2>2. Len(order) > 0 /\ order' = Tail(order) /\ ValuesKept(NODES)
    BY <1>0, <2>1, PopFrontNodeStep
  <2> QED
    BY <1>4, <2>2
<1>6. CASE ClearStep
  <2>1. CASE front # NULL
    BY <1>4, <1>6, <2>1, ClearPops
  <2>2. CASE front = NULL
    BY <1>6, <2>2, ClearPops DEF Values
  <2> QED
    BY <2>1, <2>2
<1>7. ASSUME NEW n \in NODES, MoveBack(n) PROVE Abstract!MoveToBack
  <2>1. ValuesKept(NODES)
    BY <1>0, <1>7, MoveBackStep
  <2>2. PICK i \in 1..Len(order) : order' = MovedBack(order, i)
    BY <1>0, <1>7, MoveBackStep
  <2>3. w = MovedBack(Vals(order, node'), i)
    BY <1>0, <1>s, <2>2, ValsMoved
  <2>4. Vals(order, node') = v
    BY <1>0, <2>1, SameValues
  <2>5. i \in DOMAIN v
    BY <1>v
  <2>6. Values' = MovedBack(Values, i) /\ i \in DOMAIN Values
    BY <1>v, <2>3, <2>4, <2>5
  <2>7. Values' = Abstract!MoveBack(Values, i)
    BY ONLY <2>6 DEF Abstract!MoveBack, MovedBack, Abstract!RemoveAt, RemoveAt
  <2> QED
    BY <2>6, <2>7 DEF Abstract!MoveToBack
<1>8. CASE UNCHANGED <<front, back, node, live, order>> /\ (ClearBegin \/ ClearWild \/ CallocFails)
  BY <1>8 DEF Values
<1>9. CASE UNCHANGED vars
  BY <1>9 DEF Values, vars
<1>10. ClearBegin \/ ClearWild \/ CallocFails => UNCHANGED <<front, back, node, live, order>>
  BY DEF ClearBegin, ClearWild, CallocFails
<1> QED
  BY <1>1, <1>2, <1>3, <1>5, <1>6, <1>7, <1>8, <1>9, <1>10 DEF Next

(***************************************************************************)
(* Each function of list.c is, on the values of the list, the sequence     *)
(* operation that list.h names: the linked nodes implement ListSpec.       *)
(***************************************************************************)
THEOREM ListIsSequence == Spec => SequenceSpec
<1>1. Init => Abstract!Init
  BY DEF Init, Abstract!Init, Values
<1>2. Inv /\ [Next]_vars => Inv' /\ [Abstract!Next]_Values
  BY NextStep, ValuesStep DEF Step
<1> QED
  BY <1>1, <1>2, InvInit, PTL DEF Spec, SequenceSpec, Abstract!Spec
=============================================================================
