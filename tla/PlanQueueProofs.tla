--------------------------- MODULE PlanQueueProofs ---------------------------
(***************************************************************************)
(* Theorems about PlanQueue, for any items, bounds, batches and kills.     *)
(*                                                                         *)
(* The loops over lists are recursive functions.  What they do is proved by*)
(* induction, in the form of a fact about sets (UpTo, SequencesAll): a set *)
(* that has the first and with each the next has all of them.              *)
(***************************************************************************)
EXTENDS PlanQueue, FiniteSetTheorems, SequenceTheorems, TLAPS

-----------------------------------------------------------------------------
(* Induction.                                                              *)

LEMMA NatMin ==
    ASSUME NEW T, T \subseteq Nat, T # {}
    PROVE  \E x \in T : \A y \in T : x <= y
<1>1. PICK x \in T : \A y \in T : ~ (<<y, x>> \in OpToRel(<, Nat))
  BY WFMin, NatLessThanWellFounded
<1>2. \A y \in T : ~ (y < x)
  BY <1>1 DEF OpToRel
<1>3. QED
  BY <1>2

LEMMA UpTo ==
    ASSUME NEW n \in Nat, NEW T, 0 \in T, \A i \in 0..(n-1) : i \in T => i + 1 \in T
    PROVE  0..n \subseteq T
<1> DEFINE Bad == (0..n) \ T
<1>1. ASSUME Bad # {} PROVE FALSE
  <2>0. Bad \subseteq Nat
    OBVIOUS
  <2> HIDE DEF Bad
  <2>1. PICK x \in Bad : \A y \in Bad : x <= y
    BY <1>1, <2>0, NatMin
  <2> USE DEF Bad
  <2>2. x # 0 /\ x - 1 \in 0..(n-1)
    BY <2>1
  <2>3. x - 1 \in T
    BY <2>1, <2>2
  <2>4. QED
    BY <2>1, <2>2, <2>3
<1>2. QED
  BY <1>1

LEMMA AppendedPart ==
    ASSUME NEW S, NEW q \in Seq(S), NEW i \in 0..(Len(q) - 1)
    PROVE  SubSeq(q, 1, i + 1) = Append(SubSeq(q, 1, i), q[i + 1]) /\ SubSeq(q, 1, i) \in Seq(S)
<1>1. SubSeq(q, 1, i) \in Seq(S) /\ q[i + 1] \in S
  OBVIOUS
<1>2. SubSeq(q, 1, i + 1) = SubSeq(q, 1, (i + 1) - 1) \o <<q[i + 1]>>
  <2>1. 1 \in 1..Len(q) /\ i + 1 \in 1..Len(q)
    OBVIOUS
  <2>2. QED
    BY <2>1, SubSeqRecursiveSecond
<1>3. QED
  BY <1>1, <1>2, AppendIsConcat

LEMMA SequencesAll ==
    ASSUME NEW S, NEW T, <<>> \in T, \A s \in Seq(S), e \in S : s \in T => Append(s, e) \in T
    PROVE  Seq(S) \subseteq T
<1> SUFFICES ASSUME NEW q \in Seq(S) PROVE q \in T
  OBVIOUS
<1> DEFINE Done == {n \in 0..Len(q) : SubSeq(q, 1, n) \in T}
<1>0. Len(q) \in Nat
  OBVIOUS
<1>1. 0 \in Done
  <2>1. SubSeq(q, 1, 0) = <<>>
    BY SubSeqEmpty, 0 < 1
  <2>2. SubSeq(q, 1, 0) \in T
    BY <2>1
  <2>3. 0 \in 0..Len(q)
    BY <1>0
  <2>4. QED
    BY <2>2, <2>3
<1>2. ASSUME NEW i \in 0..(Len(q) - 1), i \in Done PROVE i + 1 \in Done
  <2>1. SubSeq(q, 1, i + 1) = Append(SubSeq(q, 1, i), q[i + 1]) /\ SubSeq(q, 1, i) \in Seq(S)
    BY AppendedPart
  <2>2. q[i + 1] \in S /\ SubSeq(q, 1, i) \in T /\ i + 1 \in 0..Len(q)
    BY <1>2
  <2>3. SubSeq(q, 1, i + 1) \in T
    BY <2>1, <2>2
  <2>4. QED
    BY <2>2, <2>3
<1>3. Len(q) \in Nat
  OBVIOUS
<1>4. SubSeq(q, 1, Len(q)) = q
  BY SubSeqFull
<1>5. Len(q) \in Done
  <2> HIDE DEF Done
  <2>1. 0..Len(q) \subseteq Done
    BY <1>1, <1>2, <1>3, UpTo
  <2>2. QED
    BY <1>3, <2>1
<1>6. QED
  BY <1>4, <1>5

-----------------------------------------------------------------------------
(* Sequences.                                                              *)

LEMMA InsertedAt ==
    ASSUME NEW S, NEW q \in Seq(S), NEW x \in S, NEW k \in 1..(Len(q) + 1)
    PROVE  /\ InsertAt(q, k, x) \in Seq(S)
           /\ Len(InsertAt(q, k, x)) = Len(q) + 1
           /\ \A i \in 1..(Len(q) + 1) :
                 InsertAt(q, k, x)[i] = IF i < k THEN q[i] ELSE IF i = k THEN x ELSE q[i - 1]
<1>1. SubSeq(q, 1, k - 1) \in Seq(S) /\ SubSeq(q, k, Len(q)) \in Seq(S) /\ <<x>> \in Seq(S)
  OBVIOUS
<1>2. /\ Len(SubSeq(q, 1, k - 1)) = k - 1 /\ Len(SubSeq(q, k, Len(q))) = Len(q) - k + 1
      /\ \A i \in 1..(k - 1) : SubSeq(q, 1, k - 1)[i] = q[i]
      /\ \A i \in 1..(Len(q) - k + 1) : SubSeq(q, k, Len(q))[i] = q[k + i - 1]
  OBVIOUS
<1>3. PICK a \in Seq(S), b \in Seq(S), c \in Seq(S) :
         a = SubSeq(q, 1, k - 1) /\ b = <<x>> /\ c = SubSeq(q, k, Len(q))
  BY <1>1
<1>4. InsertAt(q, k, x) = (a \o b) \o c
  BY <1>3 DEF InsertAt
<1>5. a \o b \in Seq(S) /\ Len(a \o b) = k /\ \A i \in 1..k : (a \o b)[i] = IF i < k THEN q[i] ELSE x
  <2>1. Len(a) = k - 1 /\ Len(b) = 1 /\ b[1] = x
    BY <1>2, <1>3
  <2>2. QED
    BY <1>2, <1>3, <2>1, ConcatProperties
<1>6. Len(c) = Len(q) - k + 1 /\ \A i \in 1..(Len(q) - k + 1) : c[i] = q[k + i - 1]
  BY <1>2, <1>3
<1>7. PICK d \in Seq(S) : d = a \o b
  BY <1>5
<1>8. /\ d \o c \in Seq(S) /\ Len(d \o c) = Len(d) + Len(c)
      /\ \A i \in 1..(Len(d) + Len(c)) : (d \o c)[i] = IF i <= Len(d) THEN d[i] ELSE c[i - Len(d)]
  BY ConcatProperties
<1>9. Len(d) = k /\ \A i \in 1..k : d[i] = IF i < k THEN q[i] ELSE x
  BY <1>5, <1>7
<1>10. PICK r : r = d \o c
  OBVIOUS
<1>11. r \in Seq(S) /\ Len(r) = Len(q) + 1
  BY <1>6, <1>8, <1>9, <1>10
<1>12. ASSUME NEW i \in 1..(Len(q) + 1)
       PROVE  r[i] = IF i < k THEN q[i] ELSE IF i = k THEN x ELSE q[i - 1]
  <2>1. CASE i <= k
    <3>1. i \in 1..(Len(d) + Len(c)) /\ i \in 1..k
      BY <1>6, <1>9, <2>1
    <3>2. r[i] = d[i]
      BY <1>8, <1>9, <1>10, <2>1, <3>1
    <3>3. QED
      BY <1>9, <2>1, <3>1, <3>2
  <2>2. CASE i > k
    <3>1. i \in 1..(Len(d) + Len(c)) /\ i - k \in 1..(Len(q) - k + 1)
      BY <1>6, <1>9, <2>2
    <3>2. r[i] = c[i - k]
      BY <1>8, <1>9, <1>10, <2>2, <3>1
    <3>3. k + (i - k) - 1 = i - 1
      OBVIOUS
    <3>4. QED
      BY <1>6, <2>2, <3>1, <3>2, <3>3
  <2>3. QED
    BY <2>1, <2>2
<1>13. InsertAt(q, k, x) = r
  BY <1>4, <1>7, <1>10
<1>14. QED
  BY <1>11, <1>12, <1>13

LEMMA RemovedAt ==
    ASSUME NEW S, NEW q \in Seq(S), NEW k \in 1..Len(q)
    PROVE  /\ RemoveAt(q, k) \in Seq(S)
           /\ Len(RemoveAt(q, k)) = Len(q) - 1
           /\ \A i \in 1..(Len(q) - 1) : RemoveAt(q, k)[i] = IF i < k THEN q[i] ELSE q[i + 1]
<1>1. SubSeq(q, 1, k - 1) \in Seq(S) /\ SubSeq(q, k + 1, Len(q)) \in Seq(S)
  OBVIOUS
<1>2. /\ Len(SubSeq(q, 1, k - 1)) = k - 1 /\ Len(SubSeq(q, k + 1, Len(q))) = Len(q) - k
      /\ \A i \in 1..(k - 1) : SubSeq(q, 1, k - 1)[i] = q[i]
      /\ \A i \in 1..(Len(q) - k) : SubSeq(q, k + 1, Len(q))[i] = q[k + i]
  OBVIOUS
<1>3. PICK a \in Seq(S), b \in Seq(S) : a = SubSeq(q, 1, k - 1) /\ b = SubSeq(q, k + 1, Len(q))
  BY <1>1
<1>4. RemoveAt(q, k) = a \o b
  BY <1>3 DEF RemoveAt
<1>5. PICK r : r = a \o b
  OBVIOUS
<1>6. Len(a) = k - 1 /\ Len(b) = Len(q) - k /\ \A i \in 1..(k - 1) : a[i] = q[i]
  BY <1>2, <1>3
<1>7. \A i \in 1..(Len(q) - k) : b[i] = q[k + i]
  BY <1>2, <1>3
<1>8. /\ r \in Seq(S) /\ Len(r) = Len(a) + Len(b)
      /\ \A i \in 1..(Len(a) + Len(b)) : r[i] = IF i <= Len(a) THEN a[i] ELSE b[i - Len(a)]
  BY <1>5, ConcatProperties
<1>9. ASSUME NEW i \in 1..(Len(q) - 1)
      PROVE  r[i] = IF i < k THEN q[i] ELSE q[i + 1]
  <2>1. CASE i < k
    <3>1. i \in 1..(k - 1) /\ i \in 1..(Len(a) + Len(b)) /\ i <= Len(a)
      BY <1>6, <2>1
    <3>2. QED
      BY <1>6, <1>8, <2>1, <3>1
  <2>2. CASE ~ (i < k)
    <3>1. /\ i - (k - 1) \in 1..(Len(q) - k) /\ i \in 1..(Len(a) + Len(b)) /\ ~ (i <= Len(a))
          /\ k + (i - (k - 1)) = i + 1
      BY <1>6, <2>2
    <3>2. r[i] = b[i - (k - 1)]
      BY <1>6, <1>8, <3>1
    <3>3. QED
      BY <1>7, <2>2, <3>1, <3>2
  <2>3. QED
    BY <2>1, <2>2
<1>10. Len(r) = Len(q) - 1
  BY <1>6, <1>8
<1>11. QED
  BY <1>4, <1>5, <1>8, <1>9, <1>10

(* The sequence around one of its elements.                                *)
LEMMA SplitAt ==
    ASSUME NEW S, NEW q \in Seq(S), NEW k \in 1..Len(q)
    PROVE  \E a, b \in Seq(S) :
              /\ q = (a \o <<q[k]>>) \o b
              /\ RemoveAt(q, k) = a \o b
              /\ \A x \in S : InsertAt(q, k + 1, x) = ((a \o <<q[k]>>) \o <<x>>) \o b
              /\ Len(a) = k - 1
              /\ \A i \in 1..Len(a) : a[i] = q[i]
              /\ \A i \in 1..Len(b) : b[i] = q[k + i] /\ k + i \in 1..Len(q)
<1>0. SubSeq(q, 1, k - 1) \in Seq(S) /\ SubSeq(q, k + 1, Len(q)) \in Seq(S)
  OBVIOUS
<1>1. PICK a \in Seq(S), b \in Seq(S) : a = SubSeq(q, 1, k - 1) /\ b = SubSeq(q, k + 1, Len(q))
  BY <1>0
<1>2. a \o <<q[k]>> = SubSeq(q, 1, k)
  BY <1>1, SubSeqRecursiveSecond
<1>3. SubSeq(q, 1, k) \o b = q
  <2>1. SubSeq(q, 1, k) \o SubSeq(q, k + 1, Len(q)) = SubSeq(q, 1, Len(q))
    BY ConcatAdjacentSubSeq
  <2>2. QED
    BY <1>1, <2>1, SubSeqFull
<1>4. RemoveAt(q, k) = a \o b
  BY <1>1 DEF RemoveAt
<1>5. ASSUME NEW x \in S
      PROVE  InsertAt(q, k + 1, x) = ((a \o <<q[k]>>) \o <<x>>) \o b
  <2>1. (k + 1) - 1 = k
    OBVIOUS
  <2>2. QED
    BY <1>1, <1>2, <2>1 DEF InsertAt
<1>6. /\ Len(a) = k - 1
      /\ \A i \in 1..Len(a) : a[i] = q[i]
      /\ \A i \in 1..Len(b) : b[i] = q[k + i] /\ k + i \in 1..Len(q)
  BY <1>1
<1>7. QED
  BY <1>2, <1>3, <1>4, <1>5, <1>6

LEMMA FirstWhere ==
    ASSUME NEW n \in Nat, NEW I \in SUBSET (1..n), I # {}
    PROVE  Min(I) \in I
<1>1. I \subseteq Nat
  OBVIOUS
<1>2. \E x \in I : \A y \in I : x <= y
  BY <1>1, NatMin
<1>3. QED
  BY <1>2 DEF Min
-----------------------------------------------------------------------------
(* Without.                                                                *)

Upto(g, q, X, n) ==
    g = [i \in 0..n |-> IF i = 0 THEN <<>>
                        ELSE IF q[i] \in X THEN g[i - 1] ELSE Append(g[i - 1], q[i])]

LEMMA KeepingExists ==
    ASSUME NEW q, Len(q) \in Nat, NEW X
    PROVE  \E g : Upto(g, q, X, Len(q)) /\ Without(q, X) = g[Len(q)]
<1> DEFINE Good == {k \in 0..Len(q) : \E g : Upto(g, q, X, k)}
<1>1. 0 \in Good
  <2> DEFINE h == [i \in 0..0 |-> <<>>]
  <2>1. Upto(h, q, X, 0)
    BY DEF Upto
  <2>2. \E g : Upto(g, q, X, 0)
    BY <2>1
  <2>3. QED
    BY <2>2
<1>2. ASSUME NEW k \in 0..(Len(q) - 1), k \in Good PROVE k + 1 \in Good
  <2>1. PICK g : Upto(g, q, X, k)
    BY <1>2
  <2> DEFINE h == [i \in 0..(k + 1) |->
                      IF i = k + 1
                      THEN IF q[i] \in X THEN g[k] ELSE Append(g[k], q[i])
                      ELSE g[i]]
             f == [i \in 0..(k + 1) |-> IF i = 0 THEN <<>>
                        ELSE IF q[i] \in X THEN h[i - 1] ELSE Append(h[i - 1], q[i])]
  <2>2. ASSUME NEW i \in 0..(k + 1) PROVE h[i] = f[i]
    <3>1. CASE i = k + 1
      <4>1. i # 0 /\ i - 1 = k /\ k # k + 1 /\ k \in 0..(k + 1)
        BY <3>1
      <4>2. h[i - 1] = g[k]
        BY <4>1
      <4>3. QED
        BY <3>1, <4>1, <4>2
    <3>2. CASE i # k + 1
      <4>1. i \in 0..k
        BY <3>2
      <4>2. g[i] = IF i = 0 THEN <<>> ELSE IF q[i] \in X THEN g[i - 1] ELSE Append(g[i - 1], q[i])
        BY <2>1, <4>1 DEF Upto
      <4>3. CASE i = 0
        BY <3>2, <4>2, <4>3
      <4>4. CASE i # 0
        <5>1. i - 1 \in 0..(k + 1) /\ i - 1 # k + 1
          BY <4>1, <4>4
        <5>2. h[i - 1] = g[i - 1]
          BY <5>1
        <5>3. QED
          BY <3>2, <4>2, <4>4, <5>2
      <4>5. QED
        BY <4>3, <4>4
    <3>3. QED
      BY <3>1, <3>2
  <2>3. h = f
    <3>1. h = [i \in 0..(k + 1) |-> h[i]] /\ f = [i \in 0..(k + 1) |-> f[i]]
      OBVIOUS
    <3> HIDE DEF h, f
    <3>2. QED
      BY <2>2, <3>1
  <2>4. Upto(h, q, X, k + 1)
    <3> HIDE DEF h
    <3>1. QED
      BY <2>3 DEF Upto
  <2> HIDE DEF h
  <2>5. \E j : Upto(j, q, X, k + 1)
    BY <2>4
  <2>6. k + 1 \in 0..Len(q)
    OBVIOUS
  <2>7. QED
    BY <2>5, <2>6
<1>3. \E g : Upto(g, q, X, Len(q))
  <2> HIDE DEF Good
  <2>1. 0..Len(q) \subseteq Good
    BY <1>1, <1>2, UpTo
  <2>2. Len(q) \in Good
    BY <2>1
  <2>3. QED
    BY <2>2 DEF Good
<1>4. Without(q, X) = (CHOOSE g : Upto(g, q, X, Len(q)))[Len(q)]
  BY DEF Without, Upto
<1>5. Upto(CHOOSE g : Upto(g, q, X, Len(q)), q, X, Len(q))
  BY <1>3
<1>6. QED
  BY <1>4, <1>5

LEMMA WithoutEmpty == \A X : Without(<<>>, X) = <<>>
<1> SUFFICES ASSUME NEW X PROVE Without(<<>>, X) = <<>>
  OBVIOUS
<1>1. Len(<<>>) = 0 /\ 0 \in 0..0
  OBVIOUS
<1>2. PICK g : Upto(g, <<>>, X, 0) /\ Without(<<>>, X) = g[0]
  BY <1>1, KeepingExists
<1>3. g[0] = <<>>
  BY <1>1, <1>2 DEF Upto
<1>4. QED
  BY <1>2, <1>3

LEMMA WithoutAppended ==
    ASSUME NEW S
    PROVE  \A q \in Seq(S) : \A e \in S : \A X :
              Without(Append(q, e), X) = IF e \in X THEN Without(q, X) ELSE Append(Without(q, X), e)
<1> SUFFICES ASSUME NEW q \in Seq(S), NEW e \in S, NEW X
             PROVE  Without(Append(q, e), X)
                      = IF e \in X THEN Without(q, X) ELSE Append(Without(q, X), e)
  OBVIOUS
<1> DEFINE more == Append(q, e)
<1>1. /\ Len(q) \in Nat /\ Len(more) = Len(q) + 1
      /\ \A i \in 1..Len(q) : more[i] = q[i]
      /\ more[Len(q) + 1] = e
  OBVIOUS
<1> HIDE DEF more
<1>2. PICK g : Upto(g, q, X, Len(q)) /\ Without(q, X) = g[Len(q)]
  BY <1>1, KeepingExists
<1>3. PICK h : Upto(h, more, X, Len(more)) /\ Without(more, X) = h[Len(more)]
  BY <1>1, KeepingExists
<1>4. h[Len(q)] = g[Len(q)]
  <2> DEFINE Same == {i \in 0..Len(q) : h[i] = g[i]}
  <2>1. 0 \in Same
    BY <1>1, <1>2, <1>3 DEF Upto
  <2>2. ASSUME NEW i \in 0..(Len(q) - 1), i \in Same PROVE i + 1 \in Same
    <3>1. i + 1 \in 0..Len(q) /\ i + 1 \in 0..Len(more) /\ i + 1 \in 1..Len(q) /\ (i + 1) - 1 = i /\ i + 1 # 0
      BY <1>1
    <3>2. g[i + 1] = IF q[i + 1] \in X THEN g[i] ELSE Append(g[i], q[i + 1])
      BY <1>2, <3>1 DEF Upto
    <3>3. h[i + 1] = IF more[i + 1] \in X THEN h[i] ELSE Append(h[i], more[i + 1])
      BY <1>3, <3>1 DEF Upto
    <3>4. more[i + 1] = q[i + 1] /\ h[i] = g[i]
      BY <1>1, <2>2, <3>1
    <3>5. QED
      BY <3>1, <3>2, <3>3, <3>4
  <2>3. 0..Len(q) \subseteq Same
    <3> HIDE DEF Same
    <3>1. QED
      BY <1>1, <2>1, <2>2, UpTo
  <2>4. QED
    BY <1>1, <2>3
<1>5. h[Len(more)] = IF more[Len(more)] \in X THEN h[Len(q)] ELSE Append(h[Len(q)], more[Len(more)])
  <2>1. Len(more) \in 0..Len(more) /\ Len(more) # 0 /\ Len(more) - 1 = Len(q)
    BY <1>1
  <2>2. QED
    BY <1>3, <2>1 DEF Upto
<1>6. QED
  BY <1>1, <1>2, <1>3, <1>4, <1>5 DEF more

LEMMA WithoutTyped ==
    ASSUME NEW S
    PROVE  \A q \in Seq(S) : \A X : Without(q, X) \in Seq(S)
<1> SUFFICES ASSUME NEW X PROVE \A q \in Seq(S) : Without(q, X) \in Seq(S)
  OBVIOUS
<1> DEFINE Good == {q \in Seq(S) : Without(q, X) \in Seq(S)}
<1>1. <<>> \in Good
  <2>1. Without(<<>>, X) = <<>>
    BY WithoutEmpty
  <2>2. <<>> \in Seq(S)
    OBVIOUS
  <2>3. Without(<<>>, X) \in Seq(S)
    BY <2>1, <2>2
  <2>4. QED
    BY <2>2, <2>3
<1>2. ASSUME NEW q \in Seq(S), NEW e \in S, q \in Good PROVE Append(q, e) \in Good
  <2>1. Without(q, X) \in Seq(S) /\ Append(q, e) \in Seq(S)
    BY <1>2
  <2>2. Append(Without(q, X), e) \in Seq(S)
    BY <2>1
  <2>3. Without(Append(q, e), X) = IF e \in X THEN Without(q, X) ELSE Append(Without(q, X), e)
    BY WithoutAppended
  <2>4. Without(Append(q, e), X) \in Seq(S)
    BY <2>1, <2>2, <2>3
  <2>5. QED
    BY <2>1, <2>4
<1>3. Seq(S) \subseteq Good
  <2> HIDE DEF Good
  <2>1. QED
    BY <1>1, <1>2, SequencesAll
<1>4. QED
  BY <1>3

LEMMA WithoutOf1 == \A x, X : Without(<<x>>, X) = IF x \in X THEN <<>> ELSE <<x>>
<1> SUFFICES ASSUME NEW x, NEW X
             PROVE  Without(<<x>>, X) = IF x \in X THEN <<>> ELSE <<x>>
  OBVIOUS
<1> DEFINE S == {x}
<1>1. <<>> \in Seq(S) /\ Append(<<>>, x) = <<x>> /\ x \in S
  OBVIOUS
<1> HIDE DEF S
<1>2. Without(Append(<<>>, x), X) = IF x \in X THEN Without(<<>>, X) ELSE Append(Without(<<>>, X), x)
  BY <1>1, WithoutAppended
<1>3. Without(<<>>, X) = <<>>
  BY WithoutEmpty
<1>4. QED
  BY <1>1, <1>2, <1>3

LEMMA AppendLast ==
    ASSUME NEW S, NEW s \in Seq(S), NEW t \in Seq(S), NEW e \in S
    PROVE  s \o Append(t, e) = Append(s \o t, e)
<1> DEFINE one == <<e>>
<1>1. one \in Seq(S) /\ s \o t \in Seq(S)
  BY ConcatProperties
<1>2. Append(t, e) = t \o one /\ Append(s \o t, e) = (s \o t) \o one
  BY <1>1, AppendIsConcat
<1> HIDE DEF one
<1>3. (s \o t) \o one = s \o (t \o one)
  BY <1>1, ConcatAssociative
<1>4. QED
  BY <1>2, <1>3

LEMMA WithoutConcat ==
    ASSUME NEW S, NEW s \in Seq(S), NEW X
    PROVE  \A t \in Seq(S) : Without(s \o t, X) = Without(s, X) \o Without(t, X)
<1> DEFINE Good == {t \in Seq(S) : Without(s \o t, X) = Without(s, X) \o Without(t, X)}
<1>0. <<>> \in Seq(S)
  OBVIOUS
<1>1. <<>> \in Good
  <2>1. Without(s, X) \in Seq(S)
    BY WithoutTyped
  <2>2. PICK ws \in Seq(S) : ws = Without(s, X)
    BY <2>1
  <2>3. s \o <<>> = s /\ ws \o <<>> = ws
    BY ConcatEmptySeq
  <2>4. Without(<<>>, X) = <<>>
    BY WithoutEmpty
  <2>5. Without(s \o <<>>, X) = Without(s, X) \o Without(<<>>, X)
    BY <2>2, <2>3, <2>4
  <2>6. QED
    BY <1>0, <2>5
<1>2. ASSUME NEW t \in Seq(S), NEW e \in S, t \in Good PROVE Append(t, e) \in Good
  <2>1. Without(s, X) \in Seq(S) /\ Without(t, X) \in Seq(S) /\ s \o t \in Seq(S)
    BY WithoutTyped, ConcatProperties
  <2>2. PICK ws \in Seq(S), wt \in Seq(S), st \in Seq(S) :
           ws = Without(s, X) /\ wt = Without(t, X) /\ st = s \o t
    BY <2>1
  <2>3. s \o Append(t, e) = Append(st, e) /\ ws \o Append(wt, e) = Append(ws \o wt, e)
    BY <2>2, AppendLast
  <2>4. Without(st, X) = ws \o wt
    BY <1>2, <2>2
  <2>a. Without(Append(st, e), X) = IF e \in X THEN Without(st, X) ELSE Append(Without(st, X), e)
    BY WithoutAppended
  <2>5. Without(Append(st, e), X) = IF e \in X THEN ws \o wt ELSE Append(ws \o wt, e)
    BY <2>4, <2>a
  <2>6. Without(Append(t, e), X) = IF e \in X THEN wt ELSE Append(wt, e)
    BY <2>2, WithoutAppended
  <2>7. Append(t, e) \in Seq(S)
    OBVIOUS
  <2>8. Without(s \o Append(t, e), X) = ws \o Without(Append(t, e), X)
    BY <2>3, <2>5, <2>6
  <2>9. QED
    BY <2>2, <2>7, <2>8
<1>3. Seq(S) \subseteq Good
  <2> HIDE DEF Good
  <2>1. QED
    BY <1>1, <1>2, SequencesAll
<1>4. QED
  BY <1>3

Joined(r, s, t)    == r = s \o t
Around(r, s, x, t) == r = (s \o <<x>>) \o t

LEMMA WithoutJoined ==
    ASSUME NEW S, NEW r \in Seq(S), NEW s \in Seq(S), NEW t \in Seq(S), NEW X, Joined(r, s, t)
    PROVE  Joined(Without(r, X), Without(s, X), Without(t, X))
BY WithoutConcat DEF Joined

LEMMA WithoutNone ==
    ASSUME NEW S, NEW X
    PROVE  \A q \in Seq(S) : (\A i \in 1..Len(q) : q[i] \notin X) => Without(q, X) = q
<1> DEFINE Good == {t \in Seq(S) : (\A i \in 1..Len(t) : t[i] \notin X) => Without(t, X) = t}
<1>1. <<>> \in Good
  <2>1. Without(<<>>, X) = <<>>
    BY WithoutEmpty
  <2>2. <<>> \in Seq(S)
    OBVIOUS
  <2>3. QED
    BY <2>1, <2>2
<1>2. ASSUME NEW t \in Seq(S), NEW e \in S, t \in Good PROVE Append(t, e) \in Good
  <2>1. /\ Append(t, e) \in Seq(S) /\ Len(Append(t, e)) = Len(t) + 1
        /\ \A i \in 1..Len(t) : Append(t, e)[i] = t[i]
        /\ Append(t, e)[Len(t) + 1] = e
    OBVIOUS
  <2>2. ASSUME \A i \in 1..Len(Append(t, e)) : Append(t, e)[i] \notin X
        PROVE  Without(Append(t, e), X) = Append(t, e)
    <3>1. e \notin X /\ \A i \in 1..Len(t) : t[i] \notin X
      BY <2>1, <2>2
    <3>2. Without(t, X) = t
      BY <1>2, <3>1
    <3>3. Without(Append(t, e), X) = IF e \in X THEN Without(t, X) ELSE Append(Without(t, X), e)
      BY WithoutAppended
    <3>4. QED
      BY <3>1, <3>2, <3>3
  <2>3. QED
    BY <2>1, <2>2
<1>3. Seq(S) \subseteq Good
  <2> HIDE DEF Good
  <2>1. QED
    BY <1>1, <1>2, SequencesAll
<1>4. QED
  BY <1>3

LEMMA WithoutMiddle ==
    ASSUME NEW S, NEW a \in Seq(S), NEW c \in Seq(S), NEW x \in S, NEW X, NEW r
    PROVE  Without(a, X) = a /\ Without(c, X) = c /\ x \in X /\ Around(r, a, x, c)
             => Joined(Without(r, X), a, c)
<1>1. <<x>> \in Seq(S)
  OBVIOUS
<1>2. PICK one \in Seq(S) : one = <<x>>
  BY <1>1
<1>3. a \o one \in Seq(S)
  BY ConcatProperties
<1>4. PICK ax \in Seq(S) : Joined(ax, a, one)
  BY <1>3 DEF Joined
<1>5. ax \o c \in Seq(S)
  BY ConcatProperties
<1>6. PICK axc \in Seq(S) : Joined(axc, ax, c)
  BY <1>5 DEF Joined
<1>7. Joined(Without(ax, X), Without(a, X), Without(one, X))
  BY <1>4, WithoutJoined
<1>8. Joined(Without(axc, X), Without(ax, X), Without(c, X))
  BY <1>6, WithoutJoined
<1>9. Without(one, X) = IF x \in X THEN <<>> ELSE <<x>>
  BY <1>2, WithoutOf1
<1>10. a \o <<>> = a
  BY ConcatEmptySeq
<1>11. ASSUME Without(a, X) = a, Without(c, X) = c, x \in X PROVE Without(axc, X) = a \o c
  BY <1>7, <1>8, <1>9, <1>10, <1>11 DEF Joined
<1>12. axc = (a \o <<x>>) \o c
  BY <1>2, <1>4, <1>6 DEF Joined
<1>13. QED
  BY <1>11, <1>12 DEF Joined, Around

LEMMA WithoutOne ==
    ASSUME NEW S
    PROVE  \A q \in Seq(S) : \A k \in 1..Len(q) :
              (\A i \in 1..Len(q) : q[i] = q[k] => i = k) => Without(q, {q[k]}) = RemoveAt(q, k)
<1> SUFFICES ASSUME NEW q \in Seq(S), NEW k \in 1..Len(q)
             PROVE  (\A i \in 1..Len(q) : q[i] = q[k] => i = k) => Without(q, {q[k]}) = RemoveAt(q, k)
  OBVIOUS
<1>1. PICK a \in Seq(S), c \in Seq(S) :
         /\ q = (a \o <<q[k]>>) \o c
         /\ RemoveAt(q, k) = a \o c
         /\ Len(a) = k - 1
         /\ \A i \in 1..Len(a) : a[i] = q[i]
         /\ \A i \in 1..Len(c) : c[i] = q[k + i] /\ k + i \in 1..Len(q)
  BY SplitAt
<1>2. PICK x \in S : x = q[k]
  OBVIOUS
<1> DEFINE X == {x}
<1>3. ASSUME \A i \in 1..Len(q) : q[i] = q[k] => i = k PROVE Without(a, X) = a /\ Without(c, X) = c
  <2>1. ASSUME NEW i \in 1..Len(a) PROVE a[i] \notin X
    <3>1. a[i] = q[i] /\ i \in 1..Len(q) /\ i # k
      BY <1>1
    <3>2. QED
      BY <1>2, <1>3, <3>1
  <2>2. ASSUME NEW i \in 1..Len(c) PROVE c[i] \notin X
    <3>1. c[i] = q[k + i] /\ k + i \in 1..Len(q) /\ k + i # k
      BY <1>1
    <3>2. QED
      BY <1>2, <1>3, <3>1
  <2> HIDE DEF X
  <2>3. QED
    BY <2>1, <2>2, WithoutNone
<1>4. x \in X
  OBVIOUS
<1>5. Without(a, X) = a /\ Without(c, X) = c /\ Around(q, a, x, c) => Joined(Without(q, X), a, c)
  <2> HIDE DEF X
  <2>1. QED
    BY <1>4, WithoutMiddle
<1>6. QED
  BY <1>1, <1>2, <1>3, <1>5 DEF Joined, Around

-----------------------------------------------------------------------------
(* Queues.                                                                 *)

LEMMA InQueue ==
    ASSUME NEW S
    PROVE  /\ \A q \in Seq(S) : \A y : y \in ToSet(q) <=> \E i \in 1..Len(q) : q[i] = y
           /\ \A q \in Seq(S) : ToSet(q) \subseteq S
BY DEF ToSet

Distinct(q) == \A i, j \in 1..Len(q) : q[i].uid = q[j].uid => i = j

LEMMA Inserted ==
    ASSUME NEW q \in Seq(Item), NEW x \in Item, NEW k \in 1..(Len(q) + 1)
    PROVE  /\ InsertAt(q, k, x) \in Seq(Item)
           /\ Len(InsertAt(q, k, x)) = Len(q) + 1
           /\ ToSet(InsertAt(q, k, x)) = ToSet(q) \cup {x}
           /\ Distinct(q) /\ (\A y \in ToSet(q) : y.uid # x.uid) => Distinct(InsertAt(q, k, x))
<1>1. PICK r : r = InsertAt(q, k, x)
  OBVIOUS
<1>2. /\ r \in Seq(Item) /\ Len(r) = Len(q) + 1
      /\ \A i \in 1..(Len(q) + 1) : r[i] = IF i < k THEN q[i] ELSE IF i = k THEN x ELSE q[i - 1]
  BY <1>1, InsertedAt
<1>3. ASSUME NEW y PROVE y \in ToSet(r) <=> y \in ToSet(q) \/ y = x
  <2>1. ASSUME y \in ToSet(r) PROVE y \in ToSet(q) \/ y = x
    <3>1. PICK i \in 1..Len(r) : r[i] = y
      BY <1>2, <2>1, InQueue
    <3>2. i = k \/ (i < k /\ i \in 1..Len(q)) \/ (i > k /\ i - 1 \in 1..Len(q))
      BY <1>2
    <3>3. y = x \/ \E j \in 1..Len(q) : q[j] = y
      BY <1>2, <3>1, <3>2
    <3>4. QED
      BY <3>3, InQueue
  <2>2. ASSUME y \in ToSet(q) PROVE y \in ToSet(r)
    <3>1. PICK i \in 1..Len(q) : q[i] = y
      BY <2>2, InQueue
    <3>2. CASE i < k
      <4>1. i \in 1..Len(r) /\ r[i] = y
        BY <1>2, <3>1, <3>2
      <4>2. QED
        BY <1>2, <4>1, InQueue
    <3>3. CASE i >= k
      <4>1. i + 1 \in 1..(Len(q) + 1) /\ ~ (i + 1 < k) /\ i + 1 # k /\ (i + 1) - 1 = i
        BY <3>3
      <4>2. i + 1 \in 1..Len(r) /\ r[i + 1] = y
        BY <1>2, <3>1, <4>1
      <4>3. QED
        BY <1>2, <4>2, InQueue
    <3>4. QED
      BY <3>2, <3>3
  <2>3. x \in ToSet(r)
    <3>1. k \in 1..Len(r) /\ r[k] = x
      BY <1>2
    <3>2. QED
      BY <1>2, <3>1, InQueue
  <2>4. QED
    BY <2>1, <2>2, <2>3
<1>4. ToSet(r) = ToSet(q) \cup {x}
  BY <1>3
<1>5. ASSUME Distinct(q), \A y \in ToSet(q) : y.uid # x.uid,
             NEW i \in 1..Len(r), NEW j \in 1..Len(r), r[i].uid = r[j].uid
      PROVE  i = j
  <2> DEFINE before(n) == IF n < k THEN n ELSE n - 1
  <2>1. ASSUME NEW n \in 1..Len(r), n # k
        PROVE  before(n) \in 1..Len(q) /\ r[n] = q[before(n)] /\ r[n].uid # x.uid
    <3>1. before(n) \in 1..Len(q) /\ r[n] = q[before(n)]
      BY <1>2, <2>1
    <3>2. q[before(n)] \in ToSet(q)
      BY <3>1, InQueue
    <3>3. QED
      BY <1>5, <3>1, <3>2
  <2>2. r[k] = x
    BY <1>2
  <2>3. CASE i = k \/ j = k
    <3>1. i = k /\ j = k
      BY <1>5, <2>1, <2>2, <2>3
    <3>2. QED
      BY <3>1
  <2>4. CASE i # k /\ j # k
    <3>1. before(i) \in 1..Len(q) /\ before(j) \in 1..Len(q) /\ q[before(i)].uid = q[before(j)].uid
      BY <1>5, <2>1, <2>4
    <3>2. before(i) = before(j)
      <4> HIDE DEF before
      <4>1. QED
        BY <1>5, <3>1 DEF Distinct
    <3>3. QED
      BY <2>4, <3>2
  <2>5. QED
    BY <2>3, <2>4
<1>6. Distinct(q) /\ (\A y \in ToSet(q) : y.uid # x.uid) => Distinct(r)
  BY <1>5 DEF Distinct
<1>7. QED
  BY <1>1, <1>2, <1>4, <1>6

LEMMA Removed ==
    ASSUME NEW q \in Seq(Item), NEW k \in 1..Len(q), Distinct(q)
    PROVE  /\ RemoveAt(q, k) \in Seq(Item)
           /\ Len(RemoveAt(q, k)) = Len(q) - 1
           /\ ToSet(RemoveAt(q, k)) = ToSet(q) \ {q[k]}
           /\ Distinct(RemoveAt(q, k))
           /\ q[k] \in ToSet(q) /\ q[k] \in Item
           /\ \A y \in ToSet(q) : y.uid = q[k].uid => y = q[k]
<1>1. PICK r : r = RemoveAt(q, k)
  OBVIOUS
<1>2. /\ r \in Seq(Item) /\ Len(r) = Len(q) - 1
      /\ \A i \in 1..(Len(q) - 1) : r[i] = IF i < k THEN q[i] ELSE q[i + 1]
  BY <1>1, RemovedAt
<1> DEFINE was(n) == IF n < k THEN n ELSE n + 1
<1>3. ASSUME NEW n \in 1..Len(r) PROVE was(n) \in 1..Len(q) /\ was(n) # k /\ r[n] = q[was(n)]
  BY <1>2
<1>4. ASSUME NEW y PROVE y \in ToSet(r) <=> y \in ToSet(q) /\ y # q[k]
  <2>1. ASSUME y \in ToSet(r) PROVE y \in ToSet(q) /\ y # q[k]
    <3>1. PICK i \in 1..Len(r) : r[i] = y
      BY <1>2, <2>1, InQueue
    <3>2. PICK j \in 1..Len(q) : j # k /\ q[j] = y
      BY <1>3, <3>1
    <3>3. y # q[k]
      BY <3>2 DEF Distinct
    <3>4. QED
      BY <3>2, <3>3, InQueue
  <2>2. ASSUME y \in ToSet(q), y # q[k] PROVE y \in ToSet(r)
    <3>1. PICK j \in 1..Len(q) : q[j] = y
      BY <2>2, InQueue
    <3>2. j # k
      BY <2>2, <3>1
    <3>3. CASE j < k
      <4>0. j \in 1..(Len(q) - 1)
        BY <3>3
      <4>1. j \in 1..Len(r) /\ r[j] = y
        BY <1>2, <3>1, <3>3, <4>0
      <4>2. QED
        BY <1>2, <4>1, InQueue
    <3>4. CASE j > k
      <4>1. j - 1 \in 1..(Len(q) - 1) /\ ~ (j - 1 < k) /\ (j - 1) + 1 = j
        BY <3>4
      <4>2. j - 1 \in 1..Len(r) /\ r[j - 1] = y
        BY <1>2, <3>1, <4>1
      <4>3. QED
        BY <1>2, <4>2, InQueue
    <3>5. QED
      BY <3>2, <3>3, <3>4
  <2>3. QED
    BY <2>1, <2>2
<1>5. ToSet(r) = ToSet(q) \ {q[k]}
  BY <1>4
<1>6. Distinct(r)
  <2> SUFFICES ASSUME NEW i \in 1..Len(r), NEW j \in 1..Len(r), r[i].uid = r[j].uid PROVE i = j
    BY DEF Distinct
  <2>1. /\ was(i) \in 1..Len(q) /\ was(j) \in 1..Len(q)
        /\ q[was(i)].uid = q[was(j)].uid
    BY <1>3
  <2>2. was(i) = was(j)
    <3> HIDE DEF was
    <3>1. QED
      BY <2>1 DEF Distinct
  <2>3. QED
    BY <2>2
<1>7. q[k] \in ToSet(q) /\ q[k] \in Item /\ \A y \in ToSet(q) : y.uid = q[k].uid => y = q[k]
  <2>1. q[k] \in ToSet(q) /\ q[k] \in Item
    BY InQueue
  <2>2. ASSUME NEW y \in ToSet(q), y.uid = q[k].uid PROVE y = q[k]
    <3>1. PICK j \in 1..Len(q) : q[j] = y
      BY InQueue
    <3>2. QED
      BY <2>2, <3>1 DEF Distinct
  <2>3. QED
    BY <2>1, <2>2
<1>8. QED
  BY <1>1, <1>2, <1>5, <1>6, <1>7

LEMMA AtTheFront ==
    ASSUME NEW q \in Seq(Item), NEW x \in Item
    PROVE  <<x>> \o q = InsertAt(q, 1, x) /\ Append(q, x) = InsertAt(q, Len(q) + 1, x)
<1>1. SubSeq(q, 1, 0) = <<>> /\ SubSeq(q, Len(q) + 1, Len(q)) = <<>>
  BY SubSeqEmpty, 0 < 1, Len(q) < Len(q) + 1
<1>2. SubSeq(q, 1, Len(q)) = q
  BY SubSeqFull
<1>3. <<x>> \in Seq(Item)
  OBVIOUS
<1>4. PICK one \in Seq(Item) : one = <<x>>
  BY <1>3
<1>5. one \o q \in Seq(Item) /\ q \o one \in Seq(Item)
  BY ConcatProperties
<1>6. <<>> \o one = one /\ (q \o one) \o <<>> = q \o one
  BY <1>5, ConcatEmptySeq
<1>7. 1 - 1 = 0 /\ (Len(q) + 1) - 1 = Len(q)
  OBVIOUS
<1>8. InsertAt(q, 1, x) = one \o q
  BY <1>1, <1>2, <1>4, <1>6, <1>7 DEF InsertAt
<1>9. InsertAt(q, Len(q) + 1, x) = q \o one
  BY <1>1, <1>2, <1>4, <1>6, <1>7 DEF InsertAt
<1>10. Append(q, x) = q \o one
  BY <1>4, AppendIsConcat
<1>11. QED
  BY <1>4, <1>8, <1>9, <1>10

LEMMA TailIs ==
    ASSUME NEW q \in Seq(Item), q # <<>>
    PROVE  Tail(q) = RemoveAt(q, 1) /\ 1 \in 1..Len(q)
<1>1. SubSeq(q, 1, 0) = <<>>
  BY SubSeqEmpty, 0 < 1
<1>2. Tail(q) \in Seq(Item) /\ Tail(q) = SubSeq(q, 2, Len(q))
  BY HeadTailProperties DEF Tail
<1>3. <<>> \o Tail(q) = Tail(q)
  BY <1>2, ConcatEmptySeq
<1>4. 1 - 1 = 0 /\ 1 + 1 = 2
  OBVIOUS
<1>5. RemoveAt(q, 1) = Tail(q)
  BY <1>1, <1>2, <1>3, <1>4 DEF RemoveAt
<1>6. Len(q) \in Nat /\ Len(q) # 0
  BY EmptySeq
<1>7. QED
  BY <1>5, <1>6

-----------------------------------------------------------------------------
(* Stores.  Sound: uids are distinct, and what is queued is not running and *)
(* not for immediate execution.  NoGhost: nor is what runs.                 *)

NoGhost(s) == s.running # NoItem => ~ s.running.now

Sound(s) ==
    /\ Distinct(s.queue)
    /\ \A y \in ToSet(s.queue) : ~ y.now
    /\ s.running # NoItem => \A y \in ToSet(s.queue) : y.uid # s.running.uid

(* The items memory has to know.                                           *)
Waiting(s) == ToSet(s.queue) \cup {y \in {s.running} : y # NoItem /\ ~ y.now}

LEMMA StoreFields ==
    ASSUME NEW s \in Store
    PROVE  /\ s.queue \in Seq(Item) /\ s.running \in Item \cup {NoItem} /\ s.history \in Seq(Body)
           /\ ToSet(s.queue) \subseteq Item
BY InQueue DEF Store

LEMMA PresentIs ==
    ASSUME NEW s \in Store
    PROVE  \A b : b \in Present(s) <=> \/ \E y \in ToSet(s.queue) : y.body = b
                                       \/ b \in ToSet(s.history)
                                       \/ s.running # NoItem /\ s.running.body = b
<1> SUFFICES ASSUME NEW b
             PROVE  b \in Present(s) <=> \/ \E y \in ToSet(s.queue) : y.body = b
                                         \/ b \in ToSet(s.history)
                                         \/ s.running # NoItem /\ s.running.body = b
  OBVIOUS
<1>1. b \in {s.queue[i].body : i \in DOMAIN s.queue} <=> \E y \in ToSet(s.queue) : y.body = b
  <2>1. s.queue \in Seq(Item) /\ DOMAIN s.queue = 1..Len(s.queue)
    BY StoreFields
  <2>2. ASSUME NEW i \in DOMAIN s.queue PROVE s.queue[i] \in ToSet(s.queue)
    BY <2>1, InQueue
  <2>3. ASSUME NEW y \in ToSet(s.queue) PROVE \E i \in DOMAIN s.queue : s.queue[i] = y
    BY <2>1, InQueue
  <2>4. QED
    BY <2>2, <2>3
<1>2. b \in (IF s.running = NoItem THEN {} ELSE {s.running.body})
        <=> s.running # NoItem /\ s.running.body = b
  OBVIOUS
<1>3. QED
  BY <1>1, <1>2 DEF Present

LEMMA WaitingIs ==
    ASSUME NEW s \in Store, Sound(s)
    PROVE  /\ Waiting(s) = {x \in StoredItems(s) : ~ x.now}
           /\ Waiting(s) \subseteq Item
           /\ \A x, y \in Waiting(s) : x.uid = y.uid => x = y
<1>1. \A y \in ToSet(s.queue) : y \in Item /\ ~ y.now
  BY StoreFields DEF Sound
<1>2. ASSUME NEW x PROVE x \in Waiting(s) <=> x \in StoredItems(s) /\ ~ x.now
  <2>1. CASE s.running = NoItem
    BY <1>1, <2>1 DEF Waiting, StoredItems
  <2>2. CASE s.running # NoItem
    BY <1>1, <2>2 DEF Waiting, StoredItems
  <2>3. QED
    BY <2>1, <2>2
<1>3. Waiting(s) = {x \in StoredItems(s) : ~ x.now}
  BY <1>2
<1>4. Waiting(s) \subseteq Item
  BY <1>1, StoreFields DEF Waiting
<1>5. ASSUME NEW x \in ToSet(s.queue), NEW y \in ToSet(s.queue), x.uid = y.uid PROVE x = y
  <2>1. s.queue \in Seq(Item)
    BY StoreFields
  <2>2. PICK i \in 1..Len(s.queue), j \in 1..Len(s.queue) : s.queue[i] = x /\ s.queue[j] = y
    BY <2>1, InQueue
  <2>3. i = j
    BY <1>5, <2>2 DEF Sound, Distinct
  <2>4. QED
    BY <2>2, <2>3
<1>6. ASSUME NEW x \in Waiting(s), NEW y \in Waiting(s), x.uid = y.uid PROVE x = y
  <2>1. /\ x \in ToSet(s.queue) \/ (x = s.running /\ s.running # NoItem)
        /\ y \in ToSet(s.queue) \/ (y = s.running /\ s.running # NoItem)
    BY DEF Waiting
  <2>2. s.running # NoItem => \A z \in ToSet(s.queue) : z.uid # s.running.uid
    BY DEF Sound
  <2>3. QED
    BY <1>5, <1>6, <2>1, <2>2
<1>7. QED
  BY <1>3, <1>4, <1>6

-----------------------------------------------------------------------------
(* Memory.                                                                 *)

Mem == [store : Store, dict : SUBSET Item, size : Int, path : Seq(Store), ok : BOOLEAN]

LEMMA PutIs ==
    ASSUME NEW m \in Mem, NEW s \in Store
    PROVE  /\ Put(m, s) \in Mem
           /\ Put(m, s).store = s /\ Put(m, s).path = Append(m.path, s)
           /\ Put(m, s).size = Len(s.queue) /\ Put(m, s).dict = m.dict /\ Put(m, s).ok = m.ok
<1>1. Len(s.queue) \in Int /\ Append(m.path, s) \in Seq(Store)
  BY DEF Store, Mem
<1>2. PICK p \in Seq(Store), n \in Int : p = Append(m.path, s) /\ n = Len(s.queue)
  BY <1>1
<1>3. Put(m, s) = [m EXCEPT !.store = s, !.path = p, !.size = n]
  BY <1>2 DEF Put
<1>4. QED
  BY <1>2, <1>3 DEF Mem

LEMMA PutQueueIs ==
    ASSUME NEW m \in Mem, NEW q \in Seq(Item)
    PROVE  \E s \in Store :
              /\ PutQueue(m, q) = Put(m, s)
              /\ s.queue = q /\ s.running = m.store.running /\ s.history = m.store.history
<1>1. PICK s : s = [m.store EXCEPT !.queue = q]
  OBVIOUS
<1>2. s \in Store /\ s.queue = q /\ s.running = m.store.running /\ s.history = m.store.history
  BY <1>1 DEF Mem, Store
<1>3. QED
  BY <1>1, <1>2 DEF PutQueue

LEMMA SetRunningIs ==
    ASSUME NEW m \in Mem, NEW x \in Item \cup {NoItem}
    PROVE  \E s \in Store :
              /\ SetRunning(m, x) = Put(m, s)
              /\ s.queue = m.store.queue /\ s.running = x /\ s.history = m.store.history
<1>1. PICK s : s = [m.store EXCEPT !.running = x]
  OBVIOUS
<1>2. s \in Store /\ s.queue = m.store.queue /\ s.running = x /\ s.history = m.store.history
  BY <1>1 DEF Mem, Store
<1>3. QED
  BY <1>1, <1>2 DEF SetRunning

LEMMA AddToHistoryIs ==
    ASSUME NEW m \in Mem, NEW e \in Body
    PROVE  \E s \in Store :
              /\ AddToHistory(m, e) = Put(m, s)
              /\ s.queue = m.store.queue /\ s.running = m.store.running
              /\ ToSet(s.history) = ToSet(m.store.history) \cup {e}
<1>1. PICK h : h = Append(m.store.history, e)
  OBVIOUS
<1>2. m.store.history \in Seq(Body) /\ h \in Seq(Body)
  BY <1>1 DEF Mem, Store
<1>3. PICK s : s = [m.store EXCEPT !.history = h]
  OBVIOUS
<1>4. s \in Store /\ s.queue = m.store.queue /\ s.running = m.store.running /\ s.history = h
  BY <1>2, <1>3 DEF Mem, Store
<1>5. ToSet(h) = ToSet(m.store.history) \cup {e}
  <2>1. PICK old \in Seq(Body) : old = m.store.history
    BY <1>2
  <2>2. /\ h \in Seq(Body) /\ Len(h) = Len(old) + 1 /\ h[Len(old) + 1] = e
        /\ \A i \in 1..Len(old) : h[i] = old[i]
    BY <1>1, <2>1
  <2>3. ASSUME NEW y PROVE y \in ToSet(h) <=> y \in ToSet(old) \/ y = e
    <3>1. y \in ToSet(h) <=> \E i \in 1..Len(h) : h[i] = y
      BY <1>2, InQueue
    <3>2. y \in ToSet(old) <=> \E i \in 1..Len(old) : old[i] = y
      BY InQueue
    <3>3. Len(old) \in Nat
      OBVIOUS
    <3>4. QED
      BY <2>2, <3>1, <3>2, <3>3
  <2>4. QED
    BY <2>1, <2>3
<1>6. AddToHistory(m, e) = Put(m, s)
  BY <1>1, <1>3 DEF AddToHistory
<1>7. QED
  BY <1>4, <1>5, <1>6

LEMMA DictIs ==
    ASSUME NEW m \in Mem
    PROVE  /\ \A x \in Item : /\ Learn(m, x) \in Mem
                              /\ Learn(m, x).store = m.store /\ Learn(m, x).path = m.path
                              /\ Learn(m, x).size = m.size /\ Learn(m, x).ok = m.ok
                              /\ Learn(m, x).dict = m.dict \cup {x}
           /\ \A u : InDict(m, u) =>
                        /\ Forget(m, u) \in Mem
                        /\ Forget(m, u).store = m.store /\ Forget(m, u).path = m.path
                        /\ Forget(m, u).size = m.size /\ Forget(m, u).ok = m.ok
                        /\ Forget(m, u).dict = {x \in m.dict : x.uid # u}
<1>1. ASSUME NEW x \in Item
      PROVE  /\ Learn(m, x) \in Mem
             /\ Learn(m, x).store = m.store /\ Learn(m, x).path = m.path
             /\ Learn(m, x).size = m.size /\ Learn(m, x).ok = m.ok
             /\ Learn(m, x).dict = m.dict \cup {x}
  BY DEF Learn, Mem
<1>2. ASSUME NEW u, InDict(m, u)
      PROVE  /\ Forget(m, u) \in Mem
             /\ Forget(m, u).store = m.store /\ Forget(m, u).path = m.path
             /\ Forget(m, u).size = m.size /\ Forget(m, u).ok = m.ok
             /\ Forget(m, u).dict = {x \in m.dict : x.uid # u}
  <2>1. PICK d \in SUBSET Item : d = {x \in m.dict : x.uid # u}
    BY DEF Mem
  <2>2. Forget(m, u) = [m EXCEPT !.dict = d]
    BY <1>2, <2>1 DEF Forget
  <2>3. QED
    BY <2>1, <2>2 DEF Mem
<1>3. QED
  BY <1>1, <1>2

LEMMA OkIs ==
    ASSUME NEW m \in Mem
    PROVE  /\ Fail(m) \in Mem /\ ~ Fail(m).ok
           /\ Fail(m).store = m.store /\ Fail(m).path = m.path
           /\ Fail(m).size = m.size /\ Fail(m).dict = m.dict
           /\ Retry(m) \in Mem /\ Retry(m).ok
           /\ Retry(m).store = m.store /\ Retry(m).path = m.path
           /\ Retry(m).size = m.size /\ Retry(m).dict = m.dict
<1>1. PICK yes \in BOOLEAN, no \in BOOLEAN : yes = TRUE /\ no = FALSE
  OBVIOUS
<1>2. Fail(m) = [m EXCEPT !.ok = no] /\ Retry(m) = [m EXCEPT !.ok = yes]
  BY <1>1 DEF Fail, Retry
<1>3. /\ Fail(m) \in Mem /\ Fail(m).ok = no /\ Retry(m) \in Mem /\ Retry(m).ok = yes
      /\ Fail(m).store = m.store /\ Fail(m).path = m.path
      /\ Fail(m).size = m.size /\ Fail(m).dict = m.dict
      /\ Retry(m).store = m.store /\ Retry(m).path = m.path
      /\ Retry(m).size = m.size /\ Retry(m).dict = m.dict
  BY <1>2 DEF Mem
<1>4. QED
  BY <1>1, <1>3

-----------------------------------------------------------------------------
(* An operation on its way.  K is what is owed and present when it begins: *)
(* no stage of the path is without more than one of K, and while a kill    *)
(* may still come each can be loaded.                                      *)

Mortal         == kills < MaxKills
Restartable(s) == Sound(s) /\ NoGhost(s)
Spared(K, s)   == \E b : K \subseteq Present(s) \cup {b}
Stage(s, K)    == Spared(K, s) /\ (Mortal => Restartable(s))

Trail(m, K) ==
    /\ \A i \in 1..Len(m.path) : Stage(m.path[i], K)
    /\ m.path # <<>> => m.path[Len(m.path)] = m.store

Good(m, K) ==
    /\ m \in Mem
    /\ Sound(m.store)
    /\ Mortal => NoGhost(m.store)
    /\ m.dict = Waiting(m.store)
    /\ m.size = Len(m.store.queue)
    /\ Trail(m, K)

LEMMA TrailGrows ==
    ASSUME NEW K, NEW m \in Mem, NEW r, NEW s \in Store,
           Trail(m, K), Stage(s, K), r.path = Append(m.path, s), r.store = s
    PROVE  Trail(r, K)
<1>1. PICK p \in Seq(Store) : p = m.path
  BY DEF Mem
<1>2. /\ Len(r.path) = Len(p) + 1 /\ r.path[Len(p) + 1] = s
      /\ \A i \in 1..Len(p) : r.path[i] = p[i]
      /\ Len(p) \in Nat
  BY <1>1
<1>3. \A i \in 1..Len(p) : Stage(p[i], K)
  BY <1>1 DEF Trail
<1>4. \A i \in 1..Len(r.path) : Stage(r.path[i], K)
  <2> SUFFICES ASSUME NEW i \in 1..Len(r.path) PROVE Stage(r.path[i], K)
    OBVIOUS
  <2>1. CASE i = Len(p) + 1
    BY <1>2, <2>1
  <2>2. CASE i # Len(p) + 1
    <3>1. i \in 1..Len(p)
      BY <1>2, <2>2
    <3>2. QED
      BY <1>2, <1>3, <3>1
  <2>3. QED
    BY <2>1, <2>2
<1>5. r.path[Len(r.path)] = r.store
  BY <1>2
<1>6. QED
  BY <1>4, <1>5 DEF Trail

LEMMA GoodStep ==
    ASSUME NEW K, NEW m, Good(m, K), NEW s \in Store, NEW r \in Mem,
           r.store = s, r.path = Append(m.path, s), r.size = Len(s.queue), r.dict = Waiting(s),
           Sound(s), Mortal => NoGhost(s), Spared(K, s)
    PROVE  Good(r, K)
<1>1. Stage(s, K)
  BY DEF Stage, Restartable
<1>2. m \in Mem /\ Trail(m, K)
  BY DEF Good
<1>3. Trail(r, K)
  BY <1>1, <1>2, TrailGrows
<1>4. QED
  BY <1>3 DEF Good

(* Whether it failed does not matter.                                      *)
LEMMA GoodOk ==
    ASSUME NEW K, NEW m, Good(m, K)
    PROVE  Good(Fail(m), K) /\ Good(Retry(m), K)
<1>1. m \in Mem
  BY DEF Good
<1>2. Trail(m, K) => Trail(Fail(m), K) /\ Trail(Retry(m), K)
  BY <1>1, OkIs DEF Trail
<1>3. Good(Fail(m), K)
  BY <1>1, <1>2, OkIs DEF Good
<1>4. Good(Retry(m), K)
  BY <1>1, <1>2, OkIs DEF Good
<1>5. QED
  BY <1>3, <1>4

(* What the dictionary knows.                                              *)
LEMMA KnownIs ==
    ASSUME NEW K, NEW m, Good(m, K)
    PROVE  /\ m \in Mem /\ m.store \in Store /\ m.store.queue \in Seq(Item) /\ m.dict \subseteq Item
           /\ \A u : InDict(m, u) =>
                        /\ Known(m, u) \in m.dict /\ Known(m, u).uid = u
                        /\ ~ Known(m, u).now
                        /\ ~ IsRunning(m, u) => Known(m, u) \in ToSet(m.store.queue)
           /\ \A x \in m.dict : InDict(m, x.uid) /\ Known(m, x.uid) = x
           /\ \A x \in ToSet(m.store.queue) : x \in m.dict /\ ~ IsRunning(m, x.uid) /\ ~ x.now
<1>1. m \in Mem /\ m.store \in Store /\ m.store.queue \in Seq(Item) /\ m.dict \subseteq Item
  BY DEF Good, Mem, Store
<1>2. /\ m.dict = Waiting(m.store)
      /\ \A x, y \in m.dict : x.uid = y.uid => x = y
  BY <1>1, WaitingIs DEF Good
<1>3. \A x \in ToSet(m.store.queue) : x \in m.dict /\ ~ IsRunning(m, x.uid) /\ ~ x.now
  BY <1>2 DEF Good, Sound, Waiting, IsRunning
<1>4. ASSUME NEW u, InDict(m, u) PROVE Known(m, u) \in m.dict /\ Known(m, u).uid = u
  BY <1>4 DEF InDict, Known
<1>5. ASSUME NEW u, InDict(m, u)
      PROVE  ~ Known(m, u).now /\ (~ IsRunning(m, u) => Known(m, u) \in ToSet(m.store.queue))
  <2>1. PICK x : x = Known(m, u)
    OBVIOUS
  <2>2. x \in Waiting(m.store) /\ x.uid = u
    BY <1>2, <1>4, <1>5, <2>1
  <2>3. CASE x \in ToSet(m.store.queue)
    BY <1>3, <2>1, <2>3
  <2>4. CASE x \notin ToSet(m.store.queue)
    <3>1. x = m.store.running /\ x # NoItem /\ ~ x.now
      BY <2>2, <2>4 DEF Waiting
    <3>2. IsRunning(m, u)
      BY <2>2, <3>1 DEF IsRunning
    <3>3. QED
      BY <2>1, <3>1, <3>2
  <2>5. QED
    BY <2>3, <2>4
<1>6. ASSUME NEW x \in m.dict PROVE InDict(m, x.uid) /\ Known(m, x.uid) = x
  <2>1. InDict(m, x.uid)
    BY DEF InDict
  <2>2. QED
    BY <1>2, <1>4, <2>1
<1>7. QED
  BY <1>1, <1>3, <1>4, <1>5, <1>6

(* r is m with x inserted, or with x taken out.                            *)
Entered(r, m, K, x) ==
    /\ Good(r, K) /\ r.ok = m.ok
    /\ r.dict = m.dict \cup {x}
    /\ r.store.running = m.store.running
    /\ Present(m.store) \cup {x.body} \subseteq Present(r.store)

Taken(r, m, K, x) ==
    /\ Good(r, K) /\ r.ok = m.ok
    /\ r.dict = m.dict \ {x}
    /\ r.store.running = m.store.running
    /\ Present(m.store) \subseteq Present(r.store) \cup {x.body}

LEMMA Entering ==
    ASSUME NEW K, NEW m, Good(m, K), NEW x \in Item, ~ x.now, NEW k \in 1..(Len(m.store.queue) + 1),
           ~ InDict(m, x.uid), ~ IsRunning(m, x.uid),
           K \subseteq Present(m.store) \cup {x.body}
    PROVE  Entered(Learn(PutQueue(m, InsertAt(m.store.queue, k, x)), x), m, K, x)
<1>1. m \in Mem /\ m.store \in Store /\ m.store.queue \in Seq(Item)
  BY KnownIs
<1>2. PICK q \in Seq(Item) : q = InsertAt(m.store.queue, k, x)
  BY <1>1, Inserted
<1>3. \A y \in ToSet(m.store.queue) : y.uid # x.uid
  BY KnownIs DEF InDict
<1>4. Distinct(q) /\ ToSet(q) = ToSet(m.store.queue) \cup {x}
  BY <1>1, <1>2, <1>3, Inserted DEF Good, Sound
<1>5. PICK s \in Store :
         /\ PutQueue(m, q) = Put(m, s)
         /\ s.queue = q /\ s.running = m.store.running /\ s.history = m.store.history
  BY <1>1, PutQueueIs
<1>6. PICK p \in Mem : p = Put(m, s) /\ p.store = s /\ p.path = Append(m.path, s)
                       /\ p.size = Len(s.queue) /\ p.dict = m.dict /\ p.ok = m.ok
  BY <1>1, PutIs
<1>7. PICK r \in Mem : r = Learn(p, x) /\ r.store = s /\ r.path = Append(m.path, s)
                       /\ r.size = Len(s.queue) /\ r.dict = m.dict \cup {x} /\ r.ok = m.ok
  BY <1>6, DictIs
<1>8. Sound(s)
  <2>1. \A y \in ToSet(q) : ~ y.now
    BY <1>4 DEF Good, Sound
  <2>2. s.running # NoItem => \A y \in ToSet(q) : y.uid # s.running.uid
    BY <1>4, <1>5 DEF Good, Sound, IsRunning
  <2>3. QED
    BY <1>4, <1>5, <2>1, <2>2 DEF Sound
<1>9. Mortal => NoGhost(s)
  BY <1>5 DEF Good, NoGhost
<1>10. Waiting(s) = Waiting(m.store) \cup {x}
  BY <1>4, <1>5 DEF Waiting
<1>11. Present(m.store) \cup {x.body} \subseteq Present(s)
  <2>1. \A b : b \in Present(m.store) => b \in Present(s)
    BY <1>1, <1>4, <1>5, PresentIs
  <2>2. x.body \in Present(s)
    BY <1>4, <1>5, PresentIs
  <2>3. QED
    BY <2>1, <2>2
<1>12. r.dict = Waiting(s)
  BY <1>7, <1>10 DEF Good
<1>13. Spared(K, s)
  BY <1>11 DEF Spared
<1>14. Good(r, K)
  BY <1>7, <1>8, <1>9, <1>12, <1>13, GoodStep
<1>15. Entered(r, m, K, x)
  BY <1>5, <1>7, <1>11, <1>14 DEF Entered
<1>16. QED
  BY <1>2, <1>5, <1>6, <1>7, <1>15

LEMMA Taking ==
    ASSUME NEW K, NEW m, Good(m, K), NEW k \in 1..Len(m.store.queue),
           K \subseteq Present(m.store) \cup {m.store.queue[k].body}
    PROVE  Taken(Forget(PutQueue(m, RemoveAt(m.store.queue, k)), m.store.queue[k].uid), m, K, m.store.queue[k])
<1>1. m \in Mem /\ m.store \in Store /\ m.store.queue \in Seq(Item) /\ Distinct(m.store.queue)
  BY KnownIs DEF Good, Sound
<1>2. PICK q \in Seq(Item) : q = RemoveAt(m.store.queue, k)
  BY <1>1, Removed
<1>3. PICK x \in Item : x = m.store.queue[k] /\ x \in ToSet(m.store.queue)
  BY <1>1, Removed
<1>4. Distinct(q) /\ ToSet(q) = ToSet(m.store.queue) \ {x}
  BY <1>1, <1>2, <1>3, Removed
<1>5. PICK s \in Store :
         /\ PutQueue(m, q) = Put(m, s)
         /\ s.queue = q /\ s.running = m.store.running /\ s.history = m.store.history
  BY <1>1, PutQueueIs
<1>6. PICK p \in Mem : p = Put(m, s) /\ p.store = s /\ p.path = Append(m.path, s)
                       /\ p.size = Len(s.queue) /\ p.dict = m.dict /\ p.ok = m.ok
  BY <1>1, PutIs
<1>7. x \in m.dict /\ ~ IsRunning(m, x.uid) /\ InDict(p, x.uid)
  <2>1. x \in m.dict /\ ~ IsRunning(m, x.uid)
    BY <1>3, KnownIs
  <2>2. QED
    BY <1>6, <2>1 DEF InDict
<1>8. PICK r \in Mem : r = Forget(p, x.uid) /\ r.store = s /\ r.path = Append(m.path, s)
                       /\ r.size = Len(s.queue) /\ r.dict = {y \in m.dict : y.uid # x.uid} /\ r.ok = m.ok
  BY <1>6, <1>7, DictIs
<1>9. r.dict = m.dict \ {x}
  <2>1. \A y \in m.dict : y.uid = x.uid => y = x
    BY <1>7, KnownIs
  <2>2. QED
    BY <1>8, <2>1
<1>10. Sound(s)
  BY <1>4, <1>5 DEF Good, Sound
<1>11. Mortal => NoGhost(s)
  BY <1>5 DEF Good, NoGhost
<1>12. Waiting(s) = Waiting(m.store) \ {x}
  <2>1. m.store.running # x
    BY <1>1, <1>3, <1>7, OpsAssumption DEF IsRunning
  <2>2. QED
    BY <1>4, <1>5, <2>1 DEF Waiting
<1>13. Present(m.store) \subseteq Present(s) \cup {x.body}
  <2>1. ASSUME NEW b \in Present(m.store), b # x.body PROVE b \in Present(s)
    <3>1. \/ \E y \in ToSet(m.store.queue) : y.body = b
          \/ b \in ToSet(m.store.history)
          \/ m.store.running # NoItem /\ m.store.running.body = b
      BY <1>1, PresentIs
    <3>2. \/ \E y \in ToSet(q) : y.body = b
          \/ b \in ToSet(s.history)
          \/ s.running # NoItem /\ s.running.body = b
      BY <1>4, <1>5, <2>1, <3>1
    <3>3. QED
      BY <1>5, <3>2, PresentIs
  <2>2. QED
    BY <2>1
<1>14. r.dict = Waiting(s)
  BY <1>9, <1>12 DEF Good
<1>15. Spared(K, s)
  BY <1>3, <1>13 DEF Spared
<1>16. Good(r, K)
  BY <1>8, <1>10, <1>11, <1>14, <1>15, GoodStep
<1>17. Taken(r, m, K, x)
  BY <1>5, <1>8, <1>9, <1>13, <1>16 DEF Taken
<1>18. QED
  BY <1>2, <1>3, <1>5, <1>6, <1>8, <1>17

-----------------------------------------------------------------------------
(* Adding and popping one item.                                            *)

LEMMA SlotIs ==
    ASSUME NEW n \in Nat, NEW p \in Int
    PROVE  Slot(n, p) \in 1..(n + 1)
BY DEF Slot

LEMMA IndexIs ==
    ASSUME NEW q \in Seq(Item), NEW p \in Int
    PROVE  Index(q, p) = 0 \/ Index(q, p) \in 1..Len(q)
BY DEF Index

LEMMA NearIs ==
    ASSUME NEW m \in Mem, NEW pivot \in ToSet(m.store.queue), NEW before, NEW x
    PROVE  \E j \in 1..(Len(m.store.queue) + 1) :
              InsertNear(m, pivot, before, x) = PutQueue(m, InsertAt(m.store.queue, j, x))
<1>1. PICK q \in Seq(Item) : q = m.store.queue
  BY DEF Mem, Store
<1> DEFINE I == {i \in 1..Len(q) : q[i] = pivot}
<1>2. I # {} /\ I \in SUBSET (1..Len(q)) /\ Len(q) \in Nat
  BY <1>1, InQueue
<1>3. Min(I) \in 1..Len(q)
  <2> HIDE DEF I
  <2>1. QED
    BY <1>2, FirstWhere
<1>4. PICK k \in 1..Len(q) : k = Min(I)
  BY <1>3
<1>5. SelectInSeq(m.store.queue, LAMBDA y : y = pivot) = k
  BY <1>1, <1>2, <1>4 DEF SelectInSeq
<1>6. k # 0 /\ k \in 1..(Len(q) + 1) /\ k + 1 \in 1..(Len(q) + 1)
  OBVIOUS
<1>7. InsertNear(m, pivot, before, x)
        = PutQueue(m, InsertAt(m.store.queue, IF before THEN k ELSE k + 1, x))
  BY <1>5, <1>6 DEF InsertNear
<1>8. CASE before
  BY <1>1, <1>6, <1>7, <1>8
<1>9. CASE ~ before
  BY <1>1, <1>6, <1>7, <1>9
<1>10. QED
  BY <1>8, <1>9

LEMMA AddIs ==
    ASSUME NEW K, NEW m, Good(m, K), NEW x \in Item, ~ x.now, ~ IsRunning(m, x.uid),
           NEW place, place.pos \in Int, K \subseteq Present(m.store) \cup {x.body}
    PROVE  \/ Entered(Add(m, x, place), m, K, x) /\ ~ InDict(m, x.uid)
           \/ /\ Add(m, x, place) = Fail(m)
              /\ \/ InDict(m, x.uid)
                 \/ place.uid # NoUid /\ (InDict(m, place.uid) => IsRunning(m, place.uid))
<1>1. m \in Mem /\ m.store.queue \in Seq(Item)
  BY KnownIs
<1>2. PICK q \in Seq(Item) : q = m.store.queue
  BY <1>1
<1>3. CASE InDict(m, x.uid)
  BY <1>3 DEF Add
<1>4. CASE ~ InDict(m, x.uid) /\ place.uid = NoUid
  <2>0. PICK p \in Int, n \in Nat : p = place.pos /\ n = Len(q)
    OBVIOUS
  <2>a. Slot(n, p) \in 1..(n + 1)
    BY SlotIs
  <2>1. PICK k \in 1..(Len(q) + 1) : k = Slot(Len(q), place.pos)
    BY <2>0, <2>a
  <2>2. Add(m, x, place) = Learn(PutQueue(m, InsertAt(q, k, x)), x)
    BY <1>2, <1>4, <2>1 DEF Add
  <2>3. Entered(Learn(PutQueue(m, InsertAt(q, k, x)), x), m, K, x)
    BY <1>2, <1>4, Entering
  <2>4. QED
    BY <1>4, <2>2, <2>3
<1>5. CASE ~ InDict(m, x.uid) /\ place.uid # NoUid /\ ~ InDict(m, place.uid)
  BY <1>5 DEF Add
<1>6. CASE ~ InDict(m, x.uid) /\ place.uid # NoUid /\ InDict(m, place.uid) /\ ~ IsRunning(m, place.uid)
  <2>1. Known(m, place.uid) \in ToSet(m.store.queue)
    BY <1>6, KnownIs
  <2>2. PICK j \in 1..(Len(q) + 1) :
           InsertNear(m, Known(m, place.uid), place.before, x) = PutQueue(m, InsertAt(q, j, x))
    BY <1>1, <1>2, <2>1, NearIs
  <2>3. Add(m, x, place) = Learn(PutQueue(m, InsertAt(q, j, x)), x)
    BY <1>6, <2>2 DEF Add
  <2>4. Entered(Learn(PutQueue(m, InsertAt(q, j, x)), x), m, K, x)
    BY <1>2, <1>6, Entering
  <2>5. QED
    BY <1>6, <2>3, <2>4
<1>7. CASE /\ ~ InDict(m, x.uid) /\ place.uid # NoUid
           /\ InDict(m, place.uid) /\ IsRunning(m, place.uid)
  <2>1. CASE place.before
    BY <1>7, <2>1 DEF Add
  <2>2. CASE ~ place.before
    <3>1. Add(m, x, place) = Learn(PutQueue(m, InsertAt(q, 1, x)), x)
      BY <1>2, <1>7, <2>2, AtTheFront DEF Add
    <3>2. 1 \in 1..(Len(q) + 1)
      OBVIOUS
    <3>3. Entered(Learn(PutQueue(m, InsertAt(q, 1, x)), x), m, K, x)
      BY <1>2, <1>7, <3>2, Entering
    <3>4. QED
      BY <1>7, <3>1, <3>3
  <2>3. QED
    BY <2>1, <2>2
<1>8. QED
  BY <1>3, <1>4, <1>5, <1>6, <1>7

LEMMA RemoveItemIs ==
    ASSUME NEW m \in Mem, NEW k \in 1..Len(m.store.queue),
           \A i \in 1..Len(m.store.queue) : m.store.queue[i] = m.store.queue[k] => i = k
    PROVE  RemoveItem(m, m.store.queue[k]) = PutQueue(m, RemoveAt(m.store.queue, k))
<1>1. PICK q \in Seq(Item) : q = m.store.queue
  BY DEF Mem, Store
<1>2. Without(q, {q[k]}) = RemoveAt(q, k)
  BY <1>1, WithoutOne
<1>3. PICK rest \in Seq(Item) : rest = RemoveAt(q, k) /\ Len(rest) = Len(q) - 1
  BY <1>1, RemovedAt
<1>4. Len(q) - Len(rest) = 1
  BY <1>3
<1>5. RemoveItem(m, q[k]) = PutQueue(m, rest)
  BY <1>1, <1>2, <1>3, <1>4 DEF RemoveItem
<1>6. QED
  BY <1>1, <1>3, <1>5

LEMMA OnlyOnce ==
    ASSUME NEW q \in Seq(Item), NEW x \in ToSet(q), Distinct(q)
    PROVE  \E k \in 1..Len(q) : q[k] = x /\ \A i \in 1..Len(q) : q[i] = q[k] => i = k
<1>1. PICK k \in 1..Len(q) : q[k] = x
  BY InQueue
<1>2. \A i \in 1..Len(q) : q[i] = q[k] => i = k
  BY DEF Distinct
<1>3. QED
  BY <1>1, <1>2

LEMMA PopIs ==
    ASSUME NEW K, NEW m, Good(m, K), m.ok, NEW u,
           Found(m, u) => K \subseteq Present(m.store) \cup {Known(m, u).body}
    PROVE  \/ Found(m, u) /\ Taken(Pop(m, u), m, K, Known(m, u))
           \/ ~ Found(m, u) /\ Pop(m, u) = Fail(m)
<1>1. CASE ~ Found(m, u)
  BY <1>1 DEF Found, Pop
<1>2. CASE Found(m, u)
  <2>1. /\ m \in Mem /\ m.store.queue \in Seq(Item) /\ Distinct(m.store.queue)
        /\ Known(m, u) \in ToSet(m.store.queue) /\ Known(m, u).uid = u
    BY <1>2, KnownIs DEF Found, Good, Sound
  <2>2. PICK k \in 1..Len(m.store.queue) :
           /\ m.store.queue[k] = Known(m, u)
           /\ \A i \in 1..Len(m.store.queue) : m.store.queue[i] = m.store.queue[k] => i = k
    BY <2>1, OnlyOnce
  <2>3. PICK r : r = PutQueue(m, RemoveAt(m.store.queue, k))
    OBVIOUS
  <2>4. RemoveItem(m, Known(m, u)) = r
    BY <2>1, <2>2, <2>3, RemoveItemIs
  <2>5. r.ok
    <3>1. PICK rest \in Seq(Item) : rest = RemoveAt(m.store.queue, k)
      BY <2>1, RemovedAt
    <3>2. PICK s \in Store : r = Put(m, s)
      BY <2>1, <2>3, <3>1, PutQueueIs
    <3>3. QED
      BY <2>1, <3>2, PutIs
  <2>6. Pop(m, u) = Forget(r, u)
    BY <1>2, <2>4, <2>5 DEF Pop, Found
  <2>7. Taken(Forget(r, u), m, K, Known(m, u))
    BY <1>2, <2>1, <2>2, <2>3, Taking
  <2>8. QED
    BY <1>2, <2>6, <2>7
<1>3. QED
  BY <1>1, <1>2

LEMMA PopAtIs ==
    ASSUME NEW K, NEW m, Good(m, K), NEW p \in Int,
           LET i == Index(m.store.queue, p)
           IN  i # 0 => K \subseteq Present(m.store) \cup {m.store.queue[i].body}
    PROVE  LET i == Index(m.store.queue, p)
           IN  \/ i # 0 /\ i \in 1..Len(m.store.queue) /\ Taken(PopAt(m, p), m, K, m.store.queue[i])
               \/ i = 0 /\ PopAt(m, p) = Fail(m)
<1>1. m.store.queue \in Seq(Item)
  BY KnownIs
<1>2. PICK i : i = Index(m.store.queue, p)
  OBVIOUS
<1>3. CASE i = 0
  BY <1>2, <1>3 DEF PopAt
<1>4. CASE i # 0
  <2>1. i \in 1..Len(m.store.queue)
    BY <1>1, <1>2, <1>4, IndexIs
  <2>2. PopAt(m, p) = Forget(PutQueue(m, RemoveAt(m.store.queue, i)), m.store.queue[i].uid)
    BY <1>2, <1>4 DEF PopAt
  <2>3. K \subseteq Present(m.store) \cup {m.store.queue[i].body}
    BY <1>2, <1>4
  <2>4. Taken(Forget(PutQueue(m, RemoveAt(m.store.queue, i)), m.store.queue[i].uid), m, K, m.store.queue[i])
    BY <2>1, <2>3, Taking
  <2>5. QED
    BY <1>2, <1>4, <2>1, <2>2, <2>4
<1>5. QED
  BY <1>3, <1>4

-----------------------------------------------------------------------------
(* The other operations: nothing owed is missing when one is through.      *)

Keeps(r, K) == Good(r, K) /\ K \subseteq Present(r.store)

LEMMA MoveNextToIs ==
    ASSUME NEW K, NEW m, Keeps(m, K), m.ok, NEW u, Found(m, u),
           NEW place, place.pos \in Int, place.uid = NoUid \/ Found(m, place.uid)
    PROVE  Keeps(MoveNextTo(m, u, place), K)
<1>1. CASE u = place.uid
  BY <1>1 DEF MoveNextTo
<1>2. CASE u # place.uid
  <2>1. PICK x : x = Known(m, u)
    OBVIOUS
  <2>2. /\ Good(m, K) /\ x \in m.dict /\ x \in Item /\ x.uid = u /\ ~ x.now
        /\ \A y \in m.dict : Known(m, y.uid) = y
    BY <2>1, KnownIs DEF Keeps, Found
  <2>3. PICK r : r = Pop(m, u)
    OBVIOUS
  <2>4. Taken(r, m, K, x)
    BY <2>1, <2>2, <2>3, PopIs DEF Keeps
  <2>5. ~ InDict(r, x.uid) /\ ~ IsRunning(r, x.uid)
    BY <2>1, <2>2, <2>4 DEF Taken, InDict, IsRunning, Found
  <2>6. place.uid # NoUid => InDict(r, place.uid) /\ ~ IsRunning(r, place.uid)
    <3>1. ASSUME Found(m, place.uid) PROVE InDict(r, place.uid) /\ ~ IsRunning(r, place.uid)
      <4>1. PICK y \in m.dict : y.uid = place.uid
        BY <3>1 DEF Found, InDict
      <4>2. y # x
        BY <1>2, <2>2, <4>1
      <4>3. QED
        BY <2>4, <3>1, <4>1, <4>2 DEF Taken, InDict, IsRunning, Found
    <3>2. QED
      BY <3>1
  <2>7. Good(r, K) /\ K \subseteq Present(r.store) \cup {x.body}
    BY <2>4 DEF Taken, Keeps
  <2>8. Entered(Add(r, x, place), r, K, x)
    BY <2>2, <2>5, <2>6, <2>7, AddIs
  <2>9. Keeps(Add(r, x, place), K)
    BY <2>7, <2>8 DEF Entered, Keeps
  <2>10. MoveNextTo(m, u, place) = Add(r, x, place)
    BY <1>2, <2>1, <2>3, <2>4 DEF MoveNextTo, Taken
  <2>11. QED
    BY <2>9, <2>10
<1>3. QED
  BY <1>1, <1>2

LEMMA KeepsOk ==
    ASSUME NEW K, NEW m, Keeps(m, K)
    PROVE  Keeps(Fail(m), K) /\ Keeps(Retry(m), K)
BY GoodOk, OkIs DEF Keeps, Good

LEMMA MoveToIs ==
    ASSUME NEW K, NEW m, Keeps(m, K), m.ok, NEW u, NEW place, place.pos \in Int
    PROVE  Keeps(MoveTo(m, u, place), K)
<1>1. CASE ~ Found(m, u)
  BY <1>1, KeepsOk DEF MoveTo
<1>2. CASE Found(m, u) /\ place.uid # NoUid /\ ~ Found(m, place.uid)
  BY <1>2, KeepsOk DEF MoveTo
<1>3. CASE Found(m, u) /\ place.uid # NoUid /\ Found(m, place.uid)
  <2>1. Keeps(MoveNextTo(m, u, place), K)
    BY <1>3, MoveNextToIs
  <2>2. QED
    BY <1>3, <2>1 DEF MoveTo
<1>4. CASE Found(m, u) /\ place.uid = NoUid
  <2>1. PICK q \in Seq(Item) : q = m.store.queue
    BY KnownIs DEF Keeps
  <2>2. PICK p \in Int : p = place.pos
    OBVIOUS
  <2>3. PICK di, si : di = Index(q, p) /\ si = IndexOf(q, u)
    OBVIOUS
  <2>4. CASE di = 0 \/ si = 0
    <3>1. MoveTo(m, u, place) = Fail(m)
      BY <1>4, <2>1, <2>2, <2>3, <2>4 DEF MoveTo
    <3>2. QED
      BY <3>1, KeepsOk
  <2>5. CASE di # 0 /\ si # 0
    <3>1. di \in 1..Len(q)
      BY <2>3, <2>5, IndexIs
    <3>2. q[di] \in ToSet(q)
      BY <3>1, InQueue
    <3>3. Found(m, q[di].uid)
      BY <2>1, <3>2, KnownIs DEF Keeps, Found
    <3>4. ASSUME NEW pl, pl = Before(q[di].uid) \/ pl = After(q[di].uid)
          PROVE  Keeps(MoveNextTo(m, u, pl), K)
      <4>1. pl.pos = 0 /\ pl.uid = q[di].uid
        BY <3>4 DEF Before, After
      <4>2. QED
        BY <1>4, <3>3, <4>1, MoveNextToIs
    <3>5. MoveTo(m, u, place)
            = MoveNextTo(m, u, IF si > di THEN Before(q[di].uid) ELSE After(q[di].uid))
      BY <1>4, <2>1, <2>2, <2>3, <2>5 DEF MoveTo
    <3>6. CASE si > di
      BY <3>4, <3>5, <3>6
    <3>7. CASE ~ (si > di)
      BY <3>4, <3>5, <3>7
    <3>8. QED
      BY <3>6, <3>7
  <2>6. QED
    BY <2>4, <2>5
<1>5. QED
  BY <1>1, <1>2, <1>3, <1>4

(* One store command of an operation.                                      *)
LEMMA PutOnTrail ==
    ASSUME NEW K, NEW m \in Mem, Trail(m, K), NEW s \in Store, Stage(s, K)
    PROVE  /\ Put(m, s) \in Mem /\ Trail(Put(m, s), K)
           /\ Put(m, s).store = s /\ Put(m, s).dict = m.dict
           /\ Put(m, s).size = Len(s.queue) /\ Put(m, s).ok = m.ok
<1>1. PICK p \in Mem : /\ p = Put(m, s) /\ p.store = s /\ p.path = Append(m.path, s)
                       /\ p.size = Len(s.queue) /\ p.dict = m.dict /\ p.ok = m.ok
  BY PutIs
<1>2. Trail(p, K)
  BY <1>1, TrailGrows
<1>3. QED
  BY <1>1, <1>2

LEMMA DictOnTrail ==
    ASSUME NEW K, NEW m \in Mem, NEW r \in Mem, Trail(m, K), r.path = m.path, r.store = m.store
    PROVE  Trail(r, K)
BY DEF Trail

LEMMA TrimHistoryIs ==
    ASSUME NEW K, NEW m, Good(m, K), NEW keep \in Nat,
           K \subseteq Present(TrimHistory(m, keep).store)
    PROVE  Good(TrimHistory(m, keep), K) /\ TrimHistory(m, keep).ok = m.ok
<1>1. m \in Mem /\ m.store \in Store
  BY KnownIs
<1>2. PICK h \in Seq(Body) : h = m.store.history
  BY <1>1, StoreFields
<1>3. CASE keep >= Len(h)
  BY <1>2, <1>3 DEF TrimHistory
<1>4. CASE ~ (keep >= Len(h))
  <2>0. PICK n \in 1..(Len(h) + 1) : n = Len(h) - keep + 1
    BY <1>4
  <2>a. \A i \in n..Len(h) : i \in 1..Len(h)
    OBVIOUS
  <2>b. SubSeq(h, n, Len(h)) \in Seq(Body)
    BY <2>a, SubSeqProperties
  <2>1. PICK t \in Seq(Body) : t = SubSeq(h, Len(h) - keep + 1, Len(h))
    BY <2>0, <2>b
  <2>2. PICK s : s = [m.store EXCEPT !.history = t]
    OBVIOUS
  <2>3. s \in Store /\ s.queue = m.store.queue /\ s.running = m.store.running
    BY <1>1, <2>2 DEF Store
  <2>4. TrimHistory(m, keep) = Put(m, s)
    BY <1>2, <1>4, <2>1, <2>2 DEF TrimHistory
  <2>5. PICK p \in Mem : /\ p = Put(m, s) /\ p.store = s /\ p.path = Append(m.path, s)
                         /\ p.size = Len(s.queue) /\ p.dict = m.dict /\ p.ok = m.ok
    BY <1>1, <2>3, PutIs
  <2>6. Sound(s) /\ (Mortal => NoGhost(s)) /\ Waiting(s) = m.dict
    BY <2>3 DEF Good, Sound, NoGhost, Waiting
  <2>7. Spared(K, s)
    BY <2>4, <2>5 DEF Spared
  <2>8. Good(p, K)
    BY <2>3, <2>5, <2>6, <2>7, GoodStep
  <2>9. QED
    BY <2>4, <2>5, <2>8
<1>5. QED
  BY <1>3, <1>4

LEMMA ClearIs ==
    ASSUME NEW K, NEW m, Good(m, K), m.store.running # NoItem => ~ m.store.running.now,
           \A b \in K : b \in Present(m.store) /\ \A y \in ToSet(m.store.queue) : y.body # b
    PROVE  Keeps(Clear(m), K) /\ Clear(m).ok = m.ok
<1>1. m \in Mem /\ m.store \in Store
  BY KnownIs
<1>a. <<>> \in Seq(Item) /\ Len(<<>>) = 0
  OBVIOUS
<1>2. PICK q : q = <<>> /\ q \in Seq(Item) /\ Len(q) = 0
  BY <1>a
<1>3. PICK s \in Store :
         /\ PutQueue(m, q) = Put(m, s)
         /\ s.queue = q /\ s.running = m.store.running /\ s.history = m.store.history
  BY <1>1, <1>2, PutQueueIs
<1>4. PICK p \in Mem : /\ p = Put(m, s) /\ p.store = s /\ p.path = Append(m.path, s)
                       /\ p.size = Len(s.queue) /\ p.dict = m.dict /\ p.ok = m.ok
  BY <1>1, PutIs
<1>5. PICK n \in Int : n = m.size
  BY <1>1 DEF Mem
<1>6. PICK c : c = [p EXCEPT !.size = n]
  OBVIOUS
<1>7. /\ c \in Mem /\ c.store = s /\ c.path = Append(m.path, s)
      /\ c.dict = m.dict /\ c.ok = m.ok
  BY <1>4, <1>6 DEF Mem
<1>8. \A y : y \notin ToSet(q)
  <2>1. \A y : y \in ToSet(q) <=> \E i \in 1..Len(q) : q[i] = y
    BY <1>2, InQueue
  <2>2. 1..Len(q) = {}
    BY <1>2
  <2>3. QED
    BY <2>1, <2>2
<1>9. Sound(s) /\ (Mortal => NoGhost(s))
  BY <1>2, <1>3, <1>8 DEF Good, Sound, NoGhost, Distinct
<1>10. K \subseteq Present(s)
  BY <1>1, <1>3, PresentIs
<1>11. PICK d \in SUBSET Item : d = Waiting(s)
  BY <1>9, WaitingIs
<1>b. PICK zero \in Int : zero = 0
  OBVIOUS
<1>12. PICK r : r = [c EXCEPT !.dict = d, !.size = zero]
  OBVIOUS
<1>13. /\ r \in Mem /\ r.store = s /\ r.path = Append(m.path, s)
       /\ r.dict = d /\ r.size = zero /\ r.ok = m.ok
  BY <1>7, <1>12 DEF Mem
<1>14. Spared(K, s)
  BY <1>10 DEF Spared
<1>15. Good(r, K)
  BY <1>2, <1>3, <1>9, <1>11, <1>b, <1>13, <1>14, GoodStep
<1>16. PICK x : x = m.store.running
  OBVIOUS
<1>17. Clear(m) = IF x = NoItem THEN [c EXCEPT !.dict = {}, !.size = 0]
                  ELSE IF InDict(m, x.uid) THEN [c EXCEPT !.dict = {Known(m, x.uid)}, !.size = 0]
                  ELSE Fail(c)
  BY <1>2, <1>3, <1>4, <1>5, <1>6, <1>16 DEF Clear
<1>18. CASE x = NoItem
  <2>1. d = {}
    BY <1>3, <1>8, <1>11, <1>16, <1>18 DEF Waiting
  <2>2. QED
    BY <1>10, <1>b, <1>12, <1>13, <1>15, <1>17, <1>18, <2>1 DEF Keeps
<1>19. CASE x # NoItem
  <2>1. x \in m.dict
    BY <1>16, <1>19 DEF Good, Waiting
  <2>2. InDict(m, x.uid) /\ Known(m, x.uid) = x
    BY <2>1, KnownIs
  <2>3. d = {x}
    BY <1>3, <1>8, <1>11, <1>16, <1>19 DEF Waiting
  <2>4. QED
    BY <1>10, <1>b, <1>12, <1>13, <1>15, <1>17, <1>19, <2>2, <2>3 DEF Keeps
<1>20. QED
  BY <1>18, <1>19

LEMMA RunNowIs ==
    ASSUME NEW K, NEW m, Keeps(m, K), m.store.running = NoItem, ~ Mortal, NEW x \in Item, x.now,
           \A y \in ToSet(m.store.queue) : y.uid # x.uid
    PROVE  Keeps(RunNow(m, x), K) /\ RunNow(m, x).ok = m.ok
<1>1. m \in Mem /\ m.store \in Store /\ Good(m, K)
  BY KnownIs DEF Keeps
<1>2. PICK s \in Store :
         /\ SetRunning(m, x) = Put(m, s)
         /\ s.queue = m.store.queue /\ s.running = x /\ s.history = m.store.history
  BY <1>1, SetRunningIs
<1>3. PICK p \in Mem : /\ p = Put(m, s) /\ p.store = s /\ p.path = Append(m.path, s)
                       /\ p.size = Len(s.queue) /\ p.dict = m.dict /\ p.ok = m.ok
  BY <1>1, PutIs
<1>4. Sound(s) /\ Waiting(s) = m.dict
  BY <1>1, <1>2 DEF Good, Sound, Waiting
<1>5. K \subseteq Present(s)
  BY <1>1, <1>2, PresentIs DEF Keeps
<1>6. Spared(K, s)
  BY <1>5 DEF Spared
<1>7. Good(p, K)
  BY <1>1, <1>3, <1>4, <1>6, GoodStep
<1>8. RunNow(m, x) = p
  BY <1>2, <1>3 DEF RunNow
<1>9. QED
  BY <1>3, <1>5, <1>7, <1>8 DEF Keeps

-----------------------------------------------------------------------------
(* _replace_item: for a moment both items are in the queue.                *)

LEMMA Replaced ==
    ASSUME NEW q \in Seq(Item), Distinct(q), NEW x \in Item, NEW old \in ToSet(q), x # old,
           NEW j \in 1..(Len(q) + 1), \A y \in ToSet(q) : y # old => y.uid # x.uid
    PROVE  \E k \in 1..Len(InsertAt(q, j, x)) :
              LET both == InsertAt(q, j, x)
              IN  /\ both[k] = old
                  /\ \A i \in 1..Len(both) : both[i] = both[k] => i = k
                  /\ RemoveAt(both, k) \in Seq(Item)
                  /\ ToSet(RemoveAt(both, k)) = (ToSet(q) \ {old}) \cup {x}
                  /\ Distinct(RemoveAt(both, k))
<1>1. PICK r : r = InsertAt(q, j, x)
  OBVIOUS
<1>0. r \in Seq(Item)
  BY <1>1, Inserted
<1>2. /\ Len(r) = Len(q) + 1
      /\ \A i \in 1..Len(r) : r[i] = IF i < j THEN q[i] ELSE IF i = j THEN x ELSE q[i - 1]
  <2>1. /\ Len(r) = Len(q) + 1
        /\ \A i \in 1..(Len(q) + 1) : r[i] = IF i < j THEN q[i] ELSE IF i = j THEN x ELSE q[i - 1]
    BY <1>1, InsertedAt
  <2>2. 1..Len(r) = 1..(Len(q) + 1)
    BY <2>1
  <2>3. QED
    BY <2>1, <2>2
<1>3. ToSet(r) = ToSet(q) \cup {x}
  BY <1>1, Inserted
<1>4. PICK k \in 1..Len(r) : r[k] = old
  BY <1>0, <1>3, InQueue
<1> DEFINE before(n) == IF n < j THEN n ELSE n - 1
<1>5. ASSUME NEW n \in 1..Len(r), n # j
      PROVE  before(n) \in 1..Len(q) /\ r[n] = q[before(n)] /\ q[before(n)] \in ToSet(q)
  <2>1. before(n) \in 1..Len(q) /\ r[n] = q[before(n)]
    BY <1>0, <1>2, <1>5
  <2>2. QED
    BY <1>0, <2>1, InQueue
<1>6. ASSUME NEW n \in 1..Len(r), NEW i \in 1..Len(r), n # j, i # j, r[n].uid = r[i].uid
      PROVE  n = i
  <2>1. /\ before(n) \in 1..Len(q) /\ before(i) \in 1..Len(q)
        /\ q[before(n)].uid = q[before(i)].uid
    BY <1>0, <1>5, <1>6
  <2>2. before(n) = before(i)
    <3> HIDE DEF before
    <3>1. QED
      BY <1>0, <2>1 DEF Distinct
  <2>3. QED
    BY <1>0, <1>6, <2>2
<1>7. r[j] = x /\ j \in 1..Len(r) /\ k # j
  BY <1>0, <1>2, <1>4
<1>8. ASSUME NEW i \in 1..Len(r), r[i] = r[k] PROVE i = k
  BY <1>0, <1>4, <1>6, <1>7, <1>8
<1>9. PICK t \in Seq(Item) :
         /\ t = RemoveAt(r, k) /\ Len(t) = Len(r) - 1
         /\ \A i \in 1..(Len(r) - 1) : t[i] = IF i < k THEN r[i] ELSE r[i + 1]
  BY <1>0, RemovedAt
<1> DEFINE was(n) == IF n < k THEN n ELSE n + 1
<1>10. ASSUME NEW n \in 1..Len(t)
       PROVE  was(n) \in 1..Len(r) /\ was(n) # k /\ t[n] = r[was(n)]
  BY <1>0, <1>9
<1>11. ASSUME NEW n \in 1..Len(r), n # k
       PROVE  \E i \in 1..Len(t) : t[i] = r[n]
  <2>1. CASE n < k
    <3>1. n \in 1..Len(t) /\ n \in 1..(Len(r) - 1)
      BY <1>0, <1>9, <2>1
    <3>2. QED
      BY <1>0, <1>9, <2>1, <3>1
  <2>2. CASE n > k
    <3>1. n - 1 \in 1..Len(t) /\ n - 1 \in 1..(Len(r) - 1) /\ ~ (n - 1 < k) /\ (n - 1) + 1 = n
      BY <1>0, <1>9, <2>2
    <3>2. t[n - 1] = r[n]
      BY <1>0, <1>9, <3>1
    <3>3. QED
      BY <1>0, <3>1, <3>2
  <2>3. QED
    BY <1>0, <1>11, <2>1, <2>2
<1>12. ASSUME NEW y PROVE y \in ToSet(t) <=> y \in ToSet(r) /\ y # old
  <2>1. ASSUME y \in ToSet(t) PROVE y \in ToSet(r) /\ y # old
    <3>1. PICK i \in 1..Len(t) : t[i] = y
      BY <1>0, <2>1, InQueue
    <3>2. PICK n \in 1..Len(r) : n # k /\ r[n] = y
      BY <1>0, <1>10, <3>1
    <3>3. y # old
      BY <1>0, <1>4, <1>8, <3>2
    <3>4. QED
      BY <1>0, <3>2, <3>3, InQueue
  <2>2. ASSUME y \in ToSet(r), y # old PROVE y \in ToSet(t)
    <3>1. PICK n \in 1..Len(r) : r[n] = y
      BY <1>0, <2>2, InQueue
    <3>2. PICK i \in 1..Len(t) : t[i] = y
      BY <1>0, <1>4, <1>11, <2>2, <3>1
    <3>3. QED
      BY <1>0, <3>2, InQueue
  <2>3. QED
    BY <1>0, <2>1, <2>2
<1>13. ToSet(t) = (ToSet(q) \ {old}) \cup {x}
  BY <1>0, <1>3, <1>12
<1>14. ASSUME NEW n \in 1..Len(r), NEW i \in 1..Len(r), n # k, i # k, r[n].uid = r[i].uid
       PROVE  n = i
  <2>1. ASSUME NEW l \in 1..Len(r), l # j, l # k PROVE r[l].uid # x.uid
    <3>1. r[l] \in ToSet(q) /\ r[l] # old
      BY <1>0, <1>4, <1>5, <1>8, <2>1
    <3>2. QED
      BY <1>0, <3>1
  <2>2. QED
    BY <1>0, <1>6, <1>7, <1>14, <2>1
<1>15. ASSUME NEW n \in 1..Len(t), NEW i \in 1..Len(t), t[n].uid = t[i].uid
       PROVE  n = i
  <2>1. was(n) \in 1..Len(r) /\ was(i) \in 1..Len(r) /\ was(n) # k /\ was(i) # k
        /\ r[was(n)].uid = r[was(i)].uid
    BY <1>0, <1>10, <1>15
  <2>2. was(n) = was(i)
    <3> HIDE DEF was
    <3>1. QED
      BY <1>0, <1>14, <2>1
  <2>3. QED
    BY <1>0, <2>2
<1>16. Distinct(t)
  BY <1>0, <1>15 DEF Distinct
<1>17. QED
  BY <1>0, <1>1, <1>4, <1>8, <1>9, <1>13, <1>16

LEMMA ReplaceIs ==
    ASSUME NEW K, NEW m, Keeps(m, K), m.ok, NEW u, NEW x \in Item, ~ x.now,
           ~ IsRunning(m, x.uid), x.uid = u => ~ Mortal
    PROVE  \/ Replace(m, u, x) = Fail(m)
           \/ /\ Good(Replace(m, u, x), K) /\ Replace(m, u, x).ok /\ Found(m, u)
              /\ (Present(m.store) \ {Known(m, u).body}) \cup {x.body}
                    \subseteq Present(Replace(m, u, x).store)
<1>1. CASE ~ Found(m, u)
  BY <1>1 DEF Found, Replace
<1>2. CASE Found(m, u) /\ x # Known(m, u) /\ x.uid # u /\ InDict(m, x.uid)
  BY <1>2 DEF Found, Replace
<1>3. PICK old : old = Known(m, u)
  OBVIOUS
<1>4. /\ Good(m, K) /\ m \in Mem /\ m.store \in Store /\ m.store.queue \in Seq(Item)
      /\ Distinct(m.store.queue) /\ m.dict \subseteq Item
  BY KnownIs DEF Keeps, Good, Sound
<1>5. ASSUME Found(m, u)
      PROVE  /\ old \in ToSet(m.store.queue) /\ old \in m.dict /\ old.uid = u
             /\ \A y \in m.dict : y.uid = u => y = old
  BY <1>3, <1>4, <1>5, KnownIs DEF Found
<1>6. CASE Found(m, u) /\ x = Known(m, u)
  <2>1. Replace(m, u, x) = m
    BY <1>6 DEF Found, Replace
  <2>2. x.body \in Present(m.store)
    BY <1>3, <1>4, <1>5, <1>6, PresentIs
  <2>3. QED
    BY <1>4, <1>6, <2>1, <2>2
<1>7. CASE Found(m, u) /\ x # Known(m, u) /\ (x.uid = u \/ ~ InDict(m, x.uid))
  <2>1. PICK q \in Seq(Item) : q = m.store.queue
    BY <1>4
  <2>2. \A y \in ToSet(q) : y # old => y.uid # x.uid
    <3>1. \A y \in ToSet(q) : y \in m.dict
      BY <1>4, <2>1, KnownIs
    <3>2. CASE x.uid = u
      BY <1>5, <1>7, <3>1, <3>2
    <3>3. CASE ~ InDict(m, x.uid)
      BY <3>1, <3>3 DEF InDict
    <3>4. QED
      BY <1>7, <3>2, <3>3
  <2>3. PICK no : no = FALSE
    OBVIOUS
  <2>4. PICK j \in 1..(Len(q) + 1) : InsertNear(m, old, no, x) = PutQueue(m, InsertAt(q, j, x))
    BY <1>4, <1>5, <1>7, <2>1, NearIs
  <2>5. PICK both \in Seq(Item) :
           /\ both = InsertAt(q, j, x)
           /\ ToSet(both) = ToSet(q) \cup {x}
           /\ (\A y \in ToSet(q) : y.uid # x.uid) => Distinct(both)
    BY <1>4, <2>1, Inserted
  <2>6. PICK k \in 1..Len(both) :
           /\ both[k] = old
           /\ \A i \in 1..Len(both) : both[i] = both[k] => i = k
           /\ RemoveAt(both, k) \in Seq(Item)
           /\ ToSet(RemoveAt(both, k)) = (ToSet(q) \ {old}) \cup {x}
           /\ Distinct(RemoveAt(both, k))
    <3>1. old \in ToSet(q) /\ x # old /\ Distinct(q)
      BY <1>3, <1>4, <1>5, <1>7, <2>1
    <3>2. QED
      BY <2>2, <2>5, <3>1, Replaced
  <2>7. PICK s \in Store :
           /\ PutQueue(m, both) = Put(m, s)
           /\ s.queue = both /\ s.running = m.store.running /\ s.history = m.store.history
    BY <1>4, PutQueueIs
  <2>8. Present(m.store) \subseteq Present(s)
    BY <1>4, <2>1, <2>5, <2>7, PresentIs
  <2>9. ~ IsRunning(m, x.uid) /\ (m.store.running # NoItem => m.store.running.uid # x.uid)
    BY DEF IsRunning
  <2>10. Mortal => Restartable(s)
    <3>1. ASSUME Mortal PROVE \A y \in ToSet(q) : y.uid # x.uid
      <4>1. ~ InDict(m, x.uid)
        BY <1>7, <3>1
      <4>2. QED
        BY <1>4, <2>1, <4>1, KnownIs DEF InDict
    <3>2. ASSUME Mortal PROVE Sound(s)
      BY <1>4, <2>1, <2>5, <2>7, <2>9, <3>1, <3>2 DEF Good, Sound
    <3>3. QED
      BY <1>4, <2>7, <3>2 DEF Good, NoGhost, Restartable
  <2>11. Stage(s, K)
    BY <2>8, <2>10 DEF Stage, Spared, Keeps
  <2>12. PICK p \in Mem : /\ p = Put(m, s) /\ Trail(p, K) /\ p.store = s /\ p.dict = m.dict
                          /\ p.ok = m.ok
    BY <1>4, <2>11, PutOnTrail DEF Good
  <2>13. PICK rest \in Seq(Item) : rest = RemoveAt(both, k)
    BY <2>6
  <2>14. RemoveItem(p, old) = PutQueue(p, rest)
    BY <2>6, <2>7, <2>12, <2>13, RemoveItemIs
  <2>15. PICK t \in Store :
           /\ PutQueue(p, rest) = Put(p, t)
           /\ t.queue = rest /\ t.running = m.store.running /\ t.history = m.store.history
    BY <2>7, <2>12, PutQueueIs
  <2>16. Sound(t) /\ (Mortal => NoGhost(t))
    BY <1>4, <2>1, <2>6, <2>9, <2>13, <2>15 DEF Good, Sound, NoGhost
  <2>17. (Present(m.store) \ {old.body}) \cup {x.body} \subseteq Present(t)
    <3>1. x.body \in Present(t)
      BY <2>6, <2>13, <2>15, PresentIs
    <3>2. ASSUME NEW b \in Present(m.store), b # old.body PROVE b \in Present(t)
      <4>1. \/ \E y \in ToSet(q) : y.body = b
            \/ b \in ToSet(m.store.history)
            \/ m.store.running # NoItem /\ m.store.running.body = b
        BY <1>4, <2>1, PresentIs
      <4>2. \/ \E y \in ToSet(rest) : y.body = b
            \/ b \in ToSet(t.history)
            \/ t.running # NoItem /\ t.running.body = b
        BY <2>6, <2>13, <2>15, <3>2, <4>1
      <4>3. QED
        BY <2>15, <4>2, PresentIs
    <3>3. QED
      BY <3>1, <3>2
  <2>18. Stage(t, K)
    <3>1. K \subseteq Present(t) \cup {old.body}
      BY <2>17 DEF Keeps
    <3>2. QED
      BY <2>16, <3>1 DEF Stage, Spared, Restartable
  <2>19. PICK v \in Mem : /\ v = Put(p, t) /\ Trail(v, K) /\ v.store = t /\ v.dict = m.dict
                          /\ v.size = Len(t.queue) /\ v.ok = m.ok
    <3>1. /\ Put(p, t) \in Mem /\ Trail(Put(p, t), K)
          /\ Put(p, t).store = t /\ Put(p, t).dict = p.dict
          /\ Put(p, t).size = Len(t.queue) /\ Put(p, t).ok = p.ok
      BY <2>12, <2>18, PutOnTrail
    <3>2. QED
      BY <2>12, <3>1
  <2>20. InDict(v, u)
    BY <1>5, <1>7, <2>19 DEF InDict
  <2>21. PICK w \in Mem : /\ w = Forget(v, u) /\ w.store = t /\ w.path = v.path
                          /\ w.size = Len(t.queue) /\ w.ok = m.ok
                          /\ w.dict = {y \in m.dict : y.uid # u}
    <3>1. /\ Forget(v, u) \in Mem
          /\ Forget(v, u).store = v.store /\ Forget(v, u).path = v.path
          /\ Forget(v, u).size = v.size /\ Forget(v, u).ok = v.ok
          /\ Forget(v, u).dict = {y \in v.dict : y.uid # u}
      BY <2>20, DictIs
    <3>2. QED
      BY <2>19, <3>1
  <2>22. PICK r \in Mem : /\ r = Learn(w, x) /\ r.store = t /\ r.path = v.path
                          /\ r.size = Len(t.queue) /\ r.ok = m.ok
                          /\ r.dict = {y \in m.dict : y.uid # u} \cup {x}
    <3>1. /\ Learn(w, x) \in Mem
          /\ Learn(w, x).store = w.store /\ Learn(w, x).path = w.path
          /\ Learn(w, x).size = w.size /\ Learn(w, x).ok = w.ok
          /\ Learn(w, x).dict = w.dict \cup {x}
      BY DictIs
    <3>2. QED
      BY <2>21, <3>1
  <2>23. r.dict = Waiting(t)
    <3>1. {y \in m.dict : y.uid # u} = m.dict \ {old}
      BY <1>5, <1>7
    <3>2. m.dict = ToSet(q) \cup {y \in {m.store.running} : y # NoItem /\ ~ y.now}
      BY <1>4, <2>1 DEF Good, Waiting
    <3>3. old # m.store.running
      BY <1>5, <1>7, <1>4, OpsAssumption DEF Found, IsRunning
    <3>4. Waiting(t) = ((ToSet(q) \ {old}) \cup {x}) \cup {y \in {m.store.running} : y # NoItem /\ ~ y.now}
      BY <2>6, <2>13, <2>15 DEF Waiting
    <3>5. QED
      BY <2>22, <3>1, <3>2, <3>3, <3>4
  <2>24. Trail(r, K)
    BY <2>19, <2>22, DictOnTrail
  <2>25. Good(r, K)
    BY <2>16, <2>22, <2>23, <2>24 DEF Good
  <2>26. Replace(m, u, x) = r
    <3>1. InsertNear(m, old, FALSE, x) = p
      BY <2>3, <2>4, <2>5, <2>7, <2>12
    <3>2. RemoveItem(InsertNear(m, old, FALSE, x), old) = v /\ v.ok
      BY <2>14, <2>15, <2>19, <3>1
    <3>3. QED
      BY <1>3, <1>7, <2>21, <2>22, <3>2 DEF Replace, Found
  <2>27. QED
    BY <1>3, <1>7, <2>17, <2>22, <2>25, <2>26
<1>8. QED
  BY <1>1, <1>2, <1>6, <1>7

-----------------------------------------------------------------------------
(* Execution.                                                              *)

LEMMA Renamed ==
    ASSUME NEW x \in Item, NEW u \in Uid
    PROVE  \E y \in Item : /\ y = [x EXCEPT !.uid = u]
                           /\ y.uid = u /\ y.body = x.body /\ (y.now <=> x.now)
<1>1. PICK b \in Body, n \in BOOLEAN : b = x.body /\ n = x.now
  BY DEF Item
<1>2. PICK y : y = [uid |-> u, body |-> b, now |-> n]
  OBVIOUS
<1>3. y \in Item /\ y.uid = u /\ y.body = b /\ y.now = n
  BY <1>2 DEF Item
<1>4. y = [x EXCEPT !.uid = u]
  BY <1>1, <1>2 DEF Item
<1>5. QED
  BY <1>1, <1>3, <1>4

LEMMA StartedIs ==
    ASSUME NEW K, NEW m, Keeps(m, K), m.store.running = NoItem, m.store.queue # <<>>
    PROVE  LET r == SetRunning(PutQueue(m, Tail(m.store.queue)), m.store.queue[1])
           IN  Keeps(r, K) /\ r.ok = m.ok
<1>1. /\ Good(m, K) /\ m \in Mem /\ m.store \in Store /\ m.store.queue \in Seq(Item)
      /\ Distinct(m.store.queue)
  BY KnownIs DEF Keeps, Good, Sound
<1>2. Tail(m.store.queue) = RemoveAt(m.store.queue, 1) /\ 1 \in 1..Len(m.store.queue)
  BY <1>1, TailIs
<1>3. PICK q \in Seq(Item), x \in Item :
         /\ q = Tail(m.store.queue) /\ x = m.store.queue[1]
         /\ ToSet(q) = ToSet(m.store.queue) \ {x} /\ Distinct(q)
         /\ x \in ToSet(m.store.queue)
         /\ \A y \in ToSet(m.store.queue) : y.uid = x.uid => y = x
  <2>1. PICK old \in Seq(Item) : old = m.store.queue /\ Distinct(old) /\ 1 \in 1..Len(old)
    BY <1>1, <1>2
  <2>2. /\ RemoveAt(old, 1) \in Seq(Item)
        /\ ToSet(RemoveAt(old, 1)) = ToSet(old) \ {old[1]} /\ Distinct(RemoveAt(old, 1))
        /\ old[1] \in ToSet(old) /\ old[1] \in Item
        /\ \A y \in ToSet(old) : y.uid = old[1].uid => y = old[1]
    BY <2>1, Removed
  <2>3. QED
    BY <1>2, <2>1, <2>2
<1>4. PICK s \in Store :
         /\ PutQueue(m, q) = Put(m, s)
         /\ s.queue = q /\ s.running = NoItem /\ s.history = m.store.history
  BY <1>1, PutQueueIs
<1>5. Sound(s) /\ NoGhost(s)
  BY <1>1, <1>3, <1>4 DEF Good, Sound, NoGhost
<1>6. Present(m.store) \subseteq Present(s) \cup {x.body}
  <2>1. ASSUME NEW b \in Present(m.store), b # x.body PROVE b \in Present(s)
    <3>1. (\E y \in ToSet(m.store.queue) : y.body = b) \/ b \in ToSet(m.store.history)
      BY <1>1, PresentIs
    <3>2. (\E y \in ToSet(q) : y.body = b) \/ b \in ToSet(s.history)
      BY <1>3, <1>4, <2>1, <3>1
    <3>3. QED
      BY <1>4, <3>2, PresentIs
  <2>2. QED
    BY <2>1
<1>7. Stage(s, K)
  BY <1>5, <1>6 DEF Stage, Spared, Restartable, Keeps
<1>8. PICK p \in Mem : /\ p = Put(m, s) /\ Trail(p, K) /\ p.store = s /\ p.dict = m.dict /\ p.ok = m.ok
  BY <1>1, <1>7, PutOnTrail DEF Good
<1>9. PICK t \in Store :
         /\ SetRunning(p, x) = Put(p, t)
         /\ t.queue = q /\ t.running = x /\ t.history = m.store.history
  BY <1>4, <1>8, SetRunningIs
<1>10. ~ x.now /\ x # NoItem
  BY <1>1, <1>3, OpsAssumption DEF Good, Sound
<1>11. Sound(t) /\ NoGhost(t)
  BY <1>1, <1>3, <1>9, <1>10 DEF Good, Sound, NoGhost
<1>12. Present(m.store) \subseteq Present(t)
  <2>1. ASSUME NEW b \in Present(m.store) PROVE b \in Present(t)
    <3>1. (\E y \in ToSet(m.store.queue) : y.body = b) \/ b \in ToSet(m.store.history)
      BY <1>1, PresentIs
    <3>2. \/ \E y \in ToSet(q) : y.body = b
          \/ b \in ToSet(t.history)
          \/ t.running # NoItem /\ t.running.body = b
      BY <1>3, <1>9, <1>10, <3>1
    <3>3. QED
      BY <1>9, <3>2, PresentIs
  <2>2. QED
    BY <2>1
<1>13. Stage(t, K)
  BY <1>11, <1>12 DEF Stage, Spared, Restartable, Keeps
<1>14. PICK r \in Mem : /\ r = Put(p, t) /\ Trail(r, K) /\ r.store = t /\ r.dict = m.dict
                        /\ r.size = Len(t.queue) /\ r.ok = m.ok
  <2>1. /\ Put(p, t) \in Mem /\ Trail(Put(p, t), K)
        /\ Put(p, t).store = t /\ Put(p, t).dict = p.dict
        /\ Put(p, t).size = Len(t.queue) /\ Put(p, t).ok = p.ok
    BY <1>8, <1>13, PutOnTrail
  <2>2. QED
    BY <1>8, <2>1
<1>15. r.dict = Waiting(t)
  <2>1. m.dict = ToSet(m.store.queue)
    BY <1>1 DEF Good, Waiting
  <2>2. Waiting(t) = ToSet(q) \cup {x}
    BY <1>9, <1>10 DEF Waiting
  <2>3. QED
    BY <1>3, <1>14, <2>1, <2>2
<1>16. Good(r, K)
  BY <1>11, <1>14, <1>15 DEF Good
<1>17. QED
  BY <1>3, <1>4, <1>8, <1>9, <1>12, <1>14, <1>16 DEF Keeps

LEMMA ProcessNextIs ==
    ASSUME NEW K, NEW m, Keeps(m, K), m.ok, m.store.running = NoItem, m.store.queue # <<>>,
           NEW again \in BOOLEAN, NEW u \in Uid, ~ InDict(m, u)
    PROVE  LET r == ProcessNext(m, again, u)
               x == m.store.queue[1]
           IN  /\ Good(r, K)
               /\ K \subseteq Present(r.store) \cup {x.body}
               /\ again \/ x.body \notin Instruction => K \subseteq Present(r.store)
<1>1. /\ Good(m, K) /\ m \in Mem /\ m.store \in Store /\ m.store.queue \in Seq(Item)
      /\ Distinct(m.store.queue)
  BY KnownIs DEF Keeps, Good, Sound
<1>2. 1 \in 1..Len(m.store.queue)
  BY <1>1, TailIs
<1>3. PICK x \in Item :
         /\ x = m.store.queue[1] /\ x \in ToSet(m.store.queue) /\ x \in m.dict /\ ~ x.now
         /\ \A y \in m.dict : y.uid = x.uid => y = x
  <2>1. m.store.queue[1] \in ToSet(m.store.queue)
    BY <1>1, <1>2, InQueue
  <2>2. QED
    BY <1>1, <2>1, KnownIs
<1>4. PICK r : r = ProcessNext(m, again, u)
  OBVIOUS
<1>5. CASE x.body \notin Instruction
  <2>1. r = SetRunning(PutQueue(m, Tail(m.store.queue)), m.store.queue[1])
    BY <1>3, <1>4, <1>5 DEF ProcessNext
  <2>2. Keeps(r, K)
    BY <2>1, StartedIs
  <2>3. QED
    BY <1>3, <1>4, <2>2 DEF Keeps
<1>6. CASE x.body \in Instruction
  <2>1. Index(m.store.queue, 0) = 1
    BY <1>2 DEF Index
  <2>2. PICK p : p = PopAt(m, 0)
    OBVIOUS
  <2>3. Taken(p, m, K, x)
    <3>1. K \subseteq Present(m.store) \cup {m.store.queue[1].body}
      BY DEF Keeps
    <3>2. p = Forget(PutQueue(m, RemoveAt(m.store.queue, 1)), m.store.queue[1].uid)
      BY <2>1, <2>2 DEF PopAt
    <3>3. QED
      BY <1>1, <1>2, <1>3, <3>1, <3>2, Taking
  <2>4. Good(p, K) /\ p.ok /\ K \subseteq Present(p.store) \cup {x.body}
    BY <2>3 DEF Taken, Keeps
  <2>5. CASE ~ again
    <3>1. r = p
      BY <1>3, <1>4, <1>6, <2>2, <2>4, <2>5 DEF ProcessNext
    <3>2. QED
      BY <1>3, <1>4, <1>6, <2>4, <2>5, <3>1
  <2>6. CASE again
    <3>1. PICK y \in Item : /\ y = [x EXCEPT !.uid = u]
                            /\ y.uid = u /\ y.body = x.body /\ (y.now <=> x.now)
      BY Renamed
    <3>2. r = Add(p, y, At(-1))
      BY <1>3, <1>4, <1>6, <2>2, <2>4, <2>6, <3>1 DEF ProcessNext
    <3>3. ~ InDict(p, u) /\ ~ IsRunning(p, u)
      BY <2>3 DEF Taken, InDict, IsRunning
    <3>4. At(-1).pos = -1 /\ At(-1).uid = NoUid /\ -1 \in Int
      BY DEF At
    <3>5. PICK place : place = At(-1)
      OBVIOUS
    <3>6. Entered(Add(p, y, place), p, K, y)
      <4>1. place.pos \in Int /\ place.uid = NoUid
        BY <3>4, <3>5
      <4>2. ~ y.now /\ K \subseteq Present(p.store) \cup {y.body}
        BY <1>3, <2>4, <3>1
      <4>3. ~ InDict(p, y.uid) /\ ~ IsRunning(p, y.uid)
        BY <3>1, <3>3
      <4>4. QED
        BY <2>4, <4>1, <4>2, <4>3, AddIs
    <3>7. Good(r, K) /\ K \subseteq Present(r.store)
      BY <2>4, <3>1, <3>2, <3>5, <3>6 DEF Entered
    <3>8. QED
      BY <1>3, <1>4, <3>7
  <2>7. QED
    BY <2>5, <2>6
<1>7. QED
  BY <1>5, <1>6

(* Two commands that end a run: running is cleared, and history written.   *)
LEMMA EndedIs ==
    ASSUME NEW K, NEW m, m \in Mem, Trail(m, K), Sound(m.store), NEW x \in Item,
           m.store.running = x, x # NoItem, K \subseteq Present(m.store)
    PROVE  /\ \E p \in Mem :
                 /\ p = SetRunning(m, NoItem) /\ Trail(p, K)
                 /\ p.store.queue = m.store.queue /\ p.store.running = NoItem
                 /\ ToSet(p.store.history) = ToSet(m.store.history)
                 /\ p.dict = m.dict /\ p.ok = m.ok /\ p.size = Len(m.store.queue)
                 /\ Sound(p.store) /\ NoGhost(p.store)
                 /\ Present(m.store) \subseteq Present(p.store) \cup {x.body}
<1>1. m.store \in Store /\ m.store.queue \in Seq(Item) /\ m.store.history \in Seq(Body)
  BY DEF Mem, Store
<1>2. PICK s \in Store :
         /\ SetRunning(m, NoItem) = Put(m, s)
         /\ s.queue = m.store.queue /\ s.running = NoItem /\ s.history = m.store.history
  BY <1>1, SetRunningIs
<1>3. Sound(s) /\ NoGhost(s)
  BY <1>2 DEF Sound, NoGhost
<1>4. Present(m.store) \subseteq Present(s) \cup {x.body}
  <2>1. ASSUME NEW b \in Present(m.store), b # x.body PROVE b \in Present(s)
    <3>1. (\E y \in ToSet(m.store.queue) : y.body = b) \/ b \in ToSet(m.store.history)
      BY <1>1, <2>1, PresentIs
    <3>2. QED
      BY <1>2, <3>1, PresentIs
  <2>2. QED
    BY <2>1
<1>5. Stage(s, K)
  BY <1>3, <1>4 DEF Stage, Spared, Restartable
<1>6. /\ Put(m, s) \in Mem /\ Trail(Put(m, s), K)
      /\ Put(m, s).store = s /\ Put(m, s).dict = m.dict
      /\ Put(m, s).size = Len(s.queue) /\ Put(m, s).ok = m.ok
  BY <1>5, PutOnTrail
<1>7. QED
  BY <1>2, <1>3, <1>4, <1>6

LEMMA RecordedIs ==
    ASSUME NEW K, NEW m, m \in Mem, Trail(m, K), Sound(m.store), Mortal => NoGhost(m.store),
           NEW e \in Body, K \subseteq Present(m.store) \cup {e}
    PROVE  \E p \in Mem :
              /\ p = AddToHistory(m, e) /\ Trail(p, K)
              /\ p.store.queue = m.store.queue /\ p.store.running = m.store.running
              /\ p.dict = m.dict /\ p.ok = m.ok /\ p.size = Len(m.store.queue)
              /\ Sound(p.store) /\ (Mortal => NoGhost(p.store))
              /\ Present(m.store) \cup {e} \subseteq Present(p.store)
<1>1. m.store \in Store
  BY DEF Mem
<1>2. PICK s \in Store :
         /\ AddToHistory(m, e) = Put(m, s)
         /\ s.queue = m.store.queue /\ s.running = m.store.running
         /\ ToSet(s.history) = ToSet(m.store.history) \cup {e}
  BY AddToHistoryIs
<1>3. Sound(s) /\ (Mortal => NoGhost(s))
  BY <1>2 DEF Sound, NoGhost
<1>4. Present(m.store) \cup {e} \subseteq Present(s)
  <2>1. \A b : b \in Present(m.store) => b \in Present(s)
    BY <1>1, <1>2, PresentIs
  <2>2. e \in Present(s)
    BY <1>2, PresentIs
  <2>3. QED
    BY <2>1, <2>2
<1>5. Stage(s, K)
  BY <1>3, <1>4 DEF Stage, Spared, Restartable
<1>6. /\ Put(m, s) \in Mem /\ Trail(Put(m, s), K)
      /\ Put(m, s).store = s /\ Put(m, s).dict = m.dict
      /\ Put(m, s).size = Len(s.queue) /\ Put(m, s).ok = m.ok
  BY <1>5, PutOnTrail
<1>7. QED
  BY <1>2, <1>3, <1>4, <1>6

LEMMA CompletedIs ==
    ASSUME NEW K, NEW m, Keeps(m, K), m.ok, m.store.running # NoItem,
           NEW again \in BOOLEAN, NEW u \in Uid, ~ InDict(m, u), ~ IsRunning(m, u)
    PROVE  Keeps(Completed(m, again, u), K)
<1>1. /\ Good(m, K) /\ m \in Mem /\ m.store \in Store /\ m.store.queue \in Seq(Item)
      /\ Distinct(m.store.queue) /\ Sound(m.store) /\ Trail(m, K)
      /\ m.dict = Waiting(m.store) /\ K \subseteq Present(m.store)
      /\ (Mortal => NoGhost(m.store))
  BY KnownIs DEF Keeps, Good, Sound
<1>2. PICK x \in Item : x = m.store.running /\ x # NoItem
  BY <1>1, StoreFields
<1>3. x.body \in Body
  BY DEF Item
<1>4. PICK r : r = Completed(m, again, u)
  OBVIOUS
<1>5. \A y \in ToSet(m.store.queue) : y.uid # x.uid
  BY <1>1, <1>2 DEF Sound
<1>6. CASE x.now
  <2>1. PICK p \in Mem :
           /\ p = SetRunning(m, NoItem) /\ Trail(p, K)
           /\ p.store.queue = m.store.queue /\ p.store.running = NoItem
           /\ p.dict = m.dict /\ Sound(p.store) /\ NoGhost(p.store)
           /\ Present(m.store) \subseteq Present(p.store) \cup {x.body}
    BY <1>1, <1>2, EndedIs
  <2>2. PICK h \in Mem :
           /\ h = AddToHistory(p, x.body) /\ Trail(h, K)
           /\ h.store.queue = m.store.queue /\ h.store.running = NoItem
           /\ h.dict = m.dict /\ h.size = Len(m.store.queue)
           /\ Sound(h.store) /\ NoGhost(h.store)
           /\ Present(p.store) \cup {x.body} \subseteq Present(h.store)
    <3>1. K \subseteq Present(p.store) \cup {x.body}
      BY <1>1, <2>1
    <3>a. Trail(p, K) /\ Sound(p.store) /\ (Mortal => NoGhost(p.store))
      BY <2>1
    <3>2. \E h \in Mem :
              /\ h = AddToHistory(p, x.body) /\ Trail(h, K)
              /\ h.store.queue = p.store.queue /\ h.store.running = p.store.running
              /\ h.dict = p.dict /\ h.ok = p.ok /\ h.size = Len(p.store.queue)
              /\ Sound(h.store) /\ (Mortal => NoGhost(h.store))
              /\ Present(p.store) \cup {x.body} \subseteq Present(h.store)
      BY <1>3, <3>1, <3>a, RecordedIs
    <3>3. QED
      BY <2>1, <3>2 DEF NoGhost
  <2>3. Waiting(h.store) = Waiting(m.store)
    BY <1>2, <1>6, <2>2 DEF Waiting
  <2>4. Good(h, K)
    BY <1>1, <2>2, <2>3 DEF Good
  <2>5. K \subseteq Present(h.store)
    BY <1>1, <2>1, <2>2
  <2>6. r = h
    BY <1>2, <1>4, <1>6, <2>1, <2>2 DEF Completed
  <2>7. QED
    BY <1>4, <2>4, <2>5, <2>6 DEF Keeps
<1>7. ASSUME ~ x.now
      PROVE  /\ x \in m.dict /\ InDict(m, x.uid) /\ NoGhost(m.store)
             /\ {y \in m.dict : y.uid # x.uid} = ToSet(m.store.queue)
  <2>1. m.dict = ToSet(m.store.queue) \cup {x}
    BY <1>1, <1>2, <1>7 DEF Waiting
  <2>2. QED
    BY <1>2, <1>5, <1>7, <2>1 DEF InDict, NoGhost
<1>8. CASE ~ x.now /\ ~ again
  <2>1. PICK p \in Mem :
           /\ p = SetRunning(m, NoItem) /\ Trail(p, K)
           /\ p.store.queue = m.store.queue /\ p.store.running = NoItem
           /\ p.dict = m.dict /\ Sound(p.store) /\ NoGhost(p.store)
           /\ Present(m.store) \subseteq Present(p.store) \cup {x.body}
    BY <1>1, <1>2, EndedIs
  <2>2. InDict(p, x.uid)
    BY <1>7, <1>8, <2>1 DEF InDict
  <2>3. PICK f \in Mem : /\ f = Forget(p, x.uid) /\ f.store = p.store /\ f.path = p.path
                         /\ f.dict = {y \in m.dict : y.uid # x.uid}
    BY <2>1, <2>2, DictIs
  <2>4. Trail(f, K)
    BY <2>1, <2>3, DictOnTrail
  <2>5. PICK h \in Mem :
           /\ h = AddToHistory(f, x.body) /\ Trail(h, K)
           /\ h.store.queue = m.store.queue /\ h.store.running = NoItem
           /\ h.dict = f.dict /\ h.size = Len(m.store.queue)
           /\ Sound(h.store) /\ NoGhost(h.store)
           /\ Present(p.store) \cup {x.body} \subseteq Present(h.store)
    <3>1. K \subseteq Present(f.store) \cup {x.body}
      BY <1>1, <2>1, <2>3
    <3>2. Sound(f.store) /\ (Mortal => NoGhost(f.store))
      BY <2>1, <2>3
    <3>3. \E h \in Mem :
              /\ h = AddToHistory(f, x.body) /\ Trail(h, K)
              /\ h.store.queue = f.store.queue /\ h.store.running = f.store.running
              /\ h.dict = f.dict /\ h.ok = f.ok /\ h.size = Len(f.store.queue)
              /\ Sound(h.store) /\ (Mortal => NoGhost(h.store))
              /\ Present(f.store) \cup {x.body} \subseteq Present(h.store)
      BY <1>3, <2>4, <3>1, <3>2, RecordedIs
    <3>4. QED
      BY <2>1, <2>3, <3>3 DEF NoGhost
  <2>6. Waiting(h.store) = ToSet(m.store.queue)
    BY <2>5 DEF Waiting
  <2>7. Good(h, K)
    BY <1>7, <1>8, <2>3, <2>5, <2>6 DEF Good
  <2>8. K \subseteq Present(h.store)
    BY <1>1, <2>1, <2>5
  <2>9. r = h
    BY <1>2, <1>4, <1>7, <1>8, <2>1, <2>3, <2>5 DEF Completed
  <2>10. QED
    BY <1>4, <2>7, <2>8, <2>9 DEF Keeps
<1>9. CASE ~ x.now /\ again
  <2>1. PICK n \in Item : /\ n = [x EXCEPT !.uid = u]
                          /\ n.uid = u /\ n.body = x.body /\ (n.now <=> x.now)
    BY Renamed
  <2>2. \A y \in ToSet(m.store.queue) : y.uid # n.uid
    BY <1>1, <2>1, KnownIs DEF InDict
  <2>3. PICK q \in Seq(Item) :
           /\ q = Append(m.store.queue, n) /\ Distinct(q)
           /\ ToSet(q) = ToSet(m.store.queue) \cup {n}
    <3>1. PICK old \in Seq(Item) : old = m.store.queue
      BY <1>1
    <3>2. Len(old) + 1 \in 1..(Len(old) + 1)
      OBVIOUS
    <3>3. Append(old, n) = InsertAt(old, Len(old) + 1, n)
      BY AtTheFront
    <3>4. /\ InsertAt(old, Len(old) + 1, n) \in Seq(Item)
          /\ ToSet(InsertAt(old, Len(old) + 1, n)) = ToSet(old) \cup {n}
          /\ Distinct(old) /\ (\A y \in ToSet(old) : y.uid # n.uid)
               => Distinct(InsertAt(old, Len(old) + 1, n))
      BY <3>2, Inserted
    <3>5. QED
      BY <1>1, <2>2, <3>1, <3>3, <3>4
  <2>4. PICK s \in Store :
           /\ PutQueue(m, q) = Put(m, s)
           /\ s.queue = q /\ s.running = x /\ s.history = m.store.history
    BY <1>1, <1>2, PutQueueIs
  <2>5. Sound(s) /\ NoGhost(s)
    <3>1. n.uid # x.uid
      BY <1>2, <2>1 DEF IsRunning
    <3>2. QED
      BY <1>1, <1>5, <1>9, <2>1, <2>3, <2>4, <3>1 DEF Sound, NoGhost
  <2>6. Present(m.store) \subseteq Present(s)
    <3> SUFFICES ASSUME NEW b \in Present(m.store) PROVE b \in Present(s)
      OBVIOUS
    <3>1. PICK t \in Store : t = m.store
      BY <1>1
    <3>2. /\ s.running = t.running /\ s.history = t.history
          /\ \A y \in ToSet(t.queue) : y \in ToSet(s.queue)
      BY <1>2, <2>3, <2>4, <3>1
    <3>3. \/ \E y \in ToSet(t.queue) : y.body = b
          \/ b \in ToSet(t.history)
          \/ t.running # NoItem /\ t.running.body = b
      BY <3>1, PresentIs
    <3>4. \/ \E y \in ToSet(s.queue) : y.body = b
          \/ b \in ToSet(s.history)
          \/ s.running # NoItem /\ s.running.body = b
      BY <3>2, <3>3
    <3>5. QED
      BY <3>4, PresentIs
  <2>7. Stage(s, K)
    BY <1>1, <2>5, <2>6 DEF Stage, Spared, Restartable
  <2>8. PICK p \in Mem : p = Put(m, s) /\ Trail(p, K) /\ p.store = s /\ p.dict = m.dict
    BY <1>1, <2>7, PutOnTrail
  <2>9. InDict(p, x.uid)
    BY <1>7, <1>9, <2>8 DEF InDict
  <2>10. PICK f \in Mem : /\ f = Forget(p, x.uid) /\ f.store = s /\ f.path = p.path
                          /\ f.dict = {y \in m.dict : y.uid # x.uid}
    BY <2>8, <2>9, DictIs
  <2>11. PICK l \in Mem : /\ l = Learn(f, n) /\ l.store = s /\ l.path = p.path
                          /\ l.dict = {y \in m.dict : y.uid # x.uid} \cup {n}
    <3>1. /\ Learn(f, n) \in Mem
          /\ Learn(f, n).store = f.store /\ Learn(f, n).path = f.path
          /\ Learn(f, n).dict = f.dict \cup {n}
      BY DictIs
    <3>2. QED
      BY <2>10, <3>1
  <2>12. Trail(l, K)
    BY <2>8, <2>11, DictOnTrail
  <2>13. K \subseteq Present(l.store)
    BY <1>1, <2>6, <2>11
  <2>14. PICK e \in Mem :
            /\ e = SetRunning(l, NoItem) /\ Trail(e, K)
            /\ e.store.queue = q /\ e.store.running = NoItem
            /\ e.dict = l.dict /\ Sound(e.store) /\ NoGhost(e.store)
            /\ Present(l.store) \subseteq Present(e.store) \cup {x.body}
    <3>1. Sound(l.store) /\ l.store.running = x /\ l.store.queue = q
      BY <2>4, <2>5, <2>11
    <3>2. \E e \in Mem :
              /\ e = SetRunning(l, NoItem) /\ Trail(e, K)
              /\ e.store.queue = l.store.queue /\ e.store.running = NoItem
              /\ ToSet(e.store.history) = ToSet(l.store.history)
              /\ e.dict = l.dict /\ e.ok = l.ok /\ e.size = Len(l.store.queue)
              /\ Sound(e.store) /\ NoGhost(e.store)
              /\ Present(l.store) \subseteq Present(e.store) \cup {x.body}
      BY <1>2, <2>12, <2>13, <3>1, EndedIs
    <3>3. QED
      BY <3>1, <3>2
  <2>15. PICK h \in Mem :
            /\ h = AddToHistory(e, x.body) /\ Trail(h, K)
            /\ h.store.queue = q /\ h.store.running = NoItem
            /\ h.dict = l.dict /\ h.size = Len(q)
            /\ Sound(h.store) /\ NoGhost(h.store)
            /\ Present(e.store) \cup {x.body} \subseteq Present(h.store)
    <3>1. K \subseteq Present(e.store) \cup {x.body}
      BY <2>13, <2>14
    <3>a. Trail(e, K) /\ Sound(e.store) /\ (Mortal => NoGhost(e.store))
      BY <2>14
    <3>2. \E h \in Mem :
              /\ h = AddToHistory(e, x.body) /\ Trail(h, K)
              /\ h.store.queue = e.store.queue /\ h.store.running = e.store.running
              /\ h.dict = e.dict /\ h.ok = e.ok /\ h.size = Len(e.store.queue)
              /\ Sound(h.store) /\ (Mortal => NoGhost(h.store))
              /\ Present(e.store) \cup {x.body} \subseteq Present(h.store)
      BY <1>3, <3>1, <3>a, RecordedIs
    <3>3. QED
      BY <2>14, <3>2 DEF NoGhost
  <2>16. Waiting(h.store) = ToSet(m.store.queue) \cup {n}
    BY <2>3, <2>15 DEF Waiting
  <2>17. Good(h, K)
    BY <1>7, <1>9, <2>11, <2>15, <2>16 DEF Good
  <2>18. K \subseteq Present(h.store)
    BY <2>13, <2>14, <2>15
  <2>19. r = h
    <3>1. l = Learn(Forget(PutQueue(m, Append(m.store.queue, [x EXCEPT !.uid = u])), x.uid),
                    [x EXCEPT !.uid = u])
      BY <2>1, <2>3, <2>4, <2>8, <2>10, <2>11
    <3>2. r = AddToHistory(SetRunning(l, NoItem), x.body)
      BY <1>2, <1>4, <1>7, <1>9, <3>1 DEF Completed
    <3>3. QED
      BY <2>14, <2>15, <3>2
  <2>20. QED
    BY <1>4, <2>17, <2>18, <2>19 DEF Keeps
<1>10. QED
  BY <1>6, <1>8, <1>9

LEMMA StoppedIs ==
    ASSUME NEW K, NEW m, Keeps(m, K), m.ok, m.store.running # NoItem,
           NEW u \in Uid, ~ InDict(m, u), ~ IsRunning(m, u)
    PROVE  Keeps(Stopped(m, u), K)
<1>1. /\ Good(m, K) /\ m \in Mem /\ m.store \in Store /\ m.store.queue \in Seq(Item)
      /\ Sound(m.store) /\ Trail(m, K)
      /\ m.dict = Waiting(m.store) /\ K \subseteq Present(m.store)
      /\ (Mortal => NoGhost(m.store))
  BY KnownIs DEF Keeps, Good
<1>2. PICK x \in Item : x = m.store.running /\ x # NoItem
  BY <1>1, StoreFields
<1>3. x.body \in Body
  BY DEF Item
<1>4. \A y \in ToSet(m.store.queue) : y.uid # x.uid
  BY <1>1, <1>2 DEF Sound
<1>5. PICK h \in Mem :
         /\ h = AddToHistory(m, x.body) /\ Trail(h, K)
         /\ h.store.queue = m.store.queue /\ h.store.running = x
         /\ h.dict = m.dict /\ h.ok = m.ok /\ Sound(h.store)
         /\ Present(m.store) \cup {x.body} \subseteq Present(h.store)
  <2>1. K \subseteq Present(m.store) \cup {x.body}
    BY <1>1
  <2>2. QED
    BY <1>1, <1>2, <1>3, <2>1, RecordedIs
<1>6. PICK e \in Mem :
         /\ e = SetRunning(h, NoItem) /\ Trail(e, K)
         /\ e.store.queue = m.store.queue /\ e.store.running = NoItem
         /\ ToSet(e.store.history) = ToSet(h.store.history)
         /\ e.dict = m.dict /\ e.ok = m.ok /\ e.size = Len(m.store.queue)
         /\ Sound(e.store) /\ NoGhost(e.store)
         /\ Present(h.store) \subseteq Present(e.store) \cup {x.body}
  <2>1. K \subseteq Present(h.store)
    BY <1>1, <1>5
  <2>2. \E e \in Mem :
           /\ e = SetRunning(h, NoItem) /\ Trail(e, K)
           /\ e.store.queue = h.store.queue /\ e.store.running = NoItem
           /\ ToSet(e.store.history) = ToSet(h.store.history)
           /\ e.dict = h.dict /\ e.ok = h.ok /\ e.size = Len(h.store.queue)
           /\ Sound(e.store) /\ NoGhost(e.store)
           /\ Present(h.store) \subseteq Present(e.store) \cup {x.body}
    BY <1>2, <1>5, <2>1, EndedIs
  <2>3. QED
    BY <1>5, <2>2
<1>7. PICK r : r = Stopped(m, u)
  OBVIOUS
<1>8. CASE x.now
  <2>1. Waiting(e.store) = Waiting(m.store)
    BY <1>2, <1>6, <1>8 DEF Waiting
  <2>2. Good(e, K)
    BY <1>1, <1>6, <2>1 DEF Good
  <2>3. x.body \in Present(e.store)
    <3>1. x.body \in ToSet(h.store.history)
      <4>1. PICK s \in Store :
               /\ AddToHistory(m, x.body) = Put(m, s)
               /\ ToSet(s.history) = ToSet(m.store.history) \cup {x.body}
        BY <1>1, <1>3, AddToHistoryIs
      <4>2. h.store = s
        BY <1>1, <1>5, <4>1, PutIs
      <4>3. QED
        BY <4>1, <4>2
    <3>2. e.store \in Store
      BY DEF Mem
    <3>3. QED
      BY <1>6, <3>1, <3>2, PresentIs
  <2>4. r = e
    BY <1>2, <1>5, <1>6, <1>7, <1>8 DEF Stopped
  <2>5. QED
    BY <1>1, <1>5, <1>6, <1>7, <2>2, <2>3, <2>4 DEF Keeps
<1>9. CASE ~ x.now
  <2>1. m.dict = ToSet(m.store.queue) \cup {x}
    BY <1>1, <1>2, <1>9 DEF Waiting
  <2>2. InDict(m, x.uid) /\ InDict(e, x.uid)
    BY <1>6, <2>1 DEF InDict
  <2>3. {y \in m.dict : y.uid # x.uid} = ToSet(m.store.queue)
    BY <1>4, <2>1
  <2>4. PICK f \in Mem : /\ f = Forget(e, x.uid) /\ f.store = e.store /\ f.path = e.path
                         /\ f.ok = m.ok /\ f.size = Len(m.store.queue)
                         /\ f.dict = ToSet(m.store.queue)
    <3>1. /\ Forget(e, x.uid) \in Mem
          /\ Forget(e, x.uid).store = e.store /\ Forget(e, x.uid).path = e.path
          /\ Forget(e, x.uid).size = e.size /\ Forget(e, x.uid).ok = e.ok
          /\ Forget(e, x.uid).dict = {y \in e.dict : y.uid # x.uid}
      BY <2>2, DictIs
    <3>2. QED
      BY <1>6, <2>3, <3>1
  <2>5. Trail(f, K)
    BY <1>6, <2>4, DictOnTrail
  <2>6. Waiting(f.store) = ToSet(m.store.queue)
    BY <1>6, <2>4 DEF Waiting
  <2>7. Good(f, K)
    BY <1>6, <2>4, <2>5, <2>6 DEF Good
  <2>8. PICK n \in Item : /\ n = [x EXCEPT !.uid = u]
                          /\ n.uid = u /\ n.body = x.body /\ (n.now <=> x.now)
    BY Renamed
  <2>9. ~ InDict(f, n.uid) /\ ~ IsRunning(f, n.uid)
    BY <1>6, <2>1, <2>4, <2>8 DEF InDict, IsRunning
  <2>10. At(0).pos = 0 /\ At(0).uid = NoUid
    BY DEF At
  <2>11. PICK place : place = At(0)
    OBVIOUS
  <2>12. Entered(Add(f, n, place), f, K, n)
    <3>1. place.pos \in Int /\ place.uid = NoUid
      BY <2>10, <2>11
    <3>2. ~ n.now /\ K \subseteq Present(f.store) \cup {n.body}
      BY <1>1, <1>5, <1>6, <1>9, <2>4, <2>8
    <3>3. QED
      BY <2>7, <2>9, <3>1, <3>2, AddIs
  <2>13. r = Add(f, n, place)
    BY <1>2, <1>5, <1>6, <1>7, <1>9, <2>2, <2>4, <2>8, <2>11 DEF Stopped
  <2>14. K \subseteq Present(r.store)
    BY <1>1, <1>5, <1>6, <2>4, <2>8, <2>12, <2>13 DEF Entered
  <2>15. QED
    BY <1>7, <2>12, <2>13, <2>14 DEF Entered, Keeps
<1>10. QED
  BY <1>8, <1>9

-----------------------------------------------------------------------------
(* The loops over lists.                                                   *)

Popping(g, m, us, n) == g = [i \in 0..n |-> IF i = 0 THEN m ELSE Pop(Retry(g[i - 1]), us[i])]

LEMMA PoppingExists ==
    ASSUME NEW m, NEW us, Len(us) \in Nat
    PROVE  \E g : Popping(g, m, us, Len(us)) /\ PopEach(m, us) = g[Len(us)]
<1> DEFINE All == {k \in 0..Len(us) : \E g : Popping(g, m, us, k)}
<1>1. 0 \in All
  <2> DEFINE h == [i \in 0..0 |-> m]
  <2>1. Popping(h, m, us, 0)
    BY DEF Popping
  <2>2. \E g : Popping(g, m, us, 0)
    BY <2>1
  <2>3. QED
    BY <2>2
<1>2. ASSUME NEW k \in 0..(Len(us) - 1), k \in All PROVE k + 1 \in All
  <2>1. PICK g : Popping(g, m, us, k)
    BY <1>2
  <2> DEFINE h == [i \in 0..(k + 1) |-> IF i = k + 1 THEN Pop(Retry(g[k]), us[i]) ELSE g[i]]
             f == [i \in 0..(k + 1) |-> IF i = 0 THEN m ELSE Pop(Retry(h[i - 1]), us[i])]
  <2>2. ASSUME NEW i \in 0..(k + 1) PROVE h[i] = f[i]
    <3>1. CASE i = k + 1
      <4>1. i # 0 /\ i - 1 = k /\ k # k + 1 /\ k \in 0..(k + 1)
        BY <3>1
      <4>2. h[i - 1] = g[k]
        BY <4>1
      <4>3. QED
        BY <3>1, <4>1, <4>2
    <3>2. CASE i # k + 1
      <4>1. i \in 0..k
        BY <3>2
      <4>2. g[i] = IF i = 0 THEN m ELSE Pop(Retry(g[i - 1]), us[i])
        BY <2>1, <4>1 DEF Popping
      <4>3. CASE i = 0
        BY <3>2, <4>2, <4>3
      <4>4. CASE i # 0
        <5>1. i - 1 \in 0..(k + 1) /\ i - 1 # k + 1
          BY <4>1, <4>4
        <5>2. h[i - 1] = g[i - 1]
          BY <5>1
        <5>3. QED
          BY <3>2, <4>2, <4>4, <5>2
      <4>5. QED
        BY <4>3, <4>4
    <3>3. QED
      BY <3>1, <3>2
  <2>3. h = f
    <3>1. h = [i \in 0..(k + 1) |-> h[i]] /\ f = [i \in 0..(k + 1) |-> f[i]]
      OBVIOUS
    <3> HIDE DEF h, f
    <3>2. QED
      BY <2>2, <3>1
  <2>4. Popping(h, m, us, k + 1)
    <3> HIDE DEF h
    <3>1. QED
      BY <2>3 DEF Popping
  <2> HIDE DEF h
  <2>5. \E j : Popping(j, m, us, k + 1)
    BY <2>4
  <2>6. k + 1 \in 0..Len(us)
    OBVIOUS
  <2>7. QED
    BY <2>5, <2>6
<1>3. \E g : Popping(g, m, us, Len(us))
  <2> HIDE DEF All
  <2>1. 0..Len(us) \subseteq All
    BY <1>1, <1>2, UpTo
  <2>2. Len(us) \in All
    BY <2>1
  <2>3. QED
    BY <2>2 DEF All
<1>4. PopEach(m, us) = (CHOOSE g : Popping(g, m, us, Len(us)))[Len(us)]
  BY DEF PopEach, Popping
<1>5. Popping(CHOOSE g : Popping(g, m, us, Len(us)), m, us, Len(us))
  BY <1>3
<1>6. QED
  BY <1>4, <1>5

LEMMA PopEachIs ==
    ASSUME NEW K, NEW m, Keeps(m, K), NEW us, Len(us) \in Nat,
           \A x \in m.dict :
              (\E i \in 1..Len(us) : us[i] = x.uid) /\ ~ IsRunning(m, x.uid) => x.body \notin K
    PROVE  Keeps(PopEach(m, us), K)
<1>1. PICK g : Popping(g, m, us, Len(us)) /\ PopEach(m, us) = g[Len(us)]
  BY PoppingExists
<1> DEFINE Held(p) == Keeps(p, K) /\ p.dict \subseteq m.dict /\ p.store.running = m.store.running
           Done    == {i \in 0..Len(us) : Held(g[i])}
<1>2. 0 \in Done
  <2>1. g[0] = m
    BY <1>1 DEF Popping
  <2>2. QED
    BY <2>1
<1>3. ASSUME NEW i \in 0..(Len(us) - 1), i \in Done PROVE i + 1 \in Done
  <2>1. i + 1 \in 0..Len(us) /\ i + 1 \in 1..Len(us) /\ i + 1 # 0 /\ (i + 1) - 1 = i
    OBVIOUS
  <2>2. g[i + 1] = Pop(Retry(g[i]), us[i + 1])
    BY <1>1, <2>1 DEF Popping
  <2>3. Held(g[i])
    BY <1>3
  <2>4. PICK p : p = Retry(g[i])
    OBVIOUS
  <2>5. Keeps(p, K) /\ p.ok /\ p.dict \subseteq m.dict /\ p.store.running = m.store.running
    BY <2>3, <2>4, KeepsOk, OkIs DEF Keeps, Good
  <2>6. PICK u : u = us[i + 1]
    OBVIOUS
  <2>7. PICK r : r = Pop(p, u)
    OBVIOUS
  <2>8. CASE Found(p, u)
    <3>1. PICK x : x = Known(p, u)
      OBVIOUS
    <3>2. x \in p.dict /\ x.uid = u /\ ~ IsRunning(m, u)
      BY <2>5, <2>8, <3>1, KnownIs DEF Keeps, Found, IsRunning
    <3>3. x.body \notin K
      BY <2>1, <2>5, <2>6, <3>2
    <3>4. Taken(r, p, K, x)
      BY <2>5, <2>7, <2>8, <3>1, PopIs DEF Keeps
    <3>5. Held(r)
      BY <2>5, <3>3, <3>4 DEF Taken, Keeps
    <3>6. QED
      BY <2>1, <2>2, <2>4, <2>6, <2>7, <3>5
  <2>9. CASE ~ Found(p, u)
    <3>1. r = Fail(p)
      BY <2>5, <2>7, <2>9, PopIs DEF Keeps
    <3>2. Held(r)
      BY <2>5, <3>1, KeepsOk, OkIs DEF Keeps, Good
    <3>3. QED
      BY <2>1, <2>2, <2>4, <2>6, <2>7, <3>2
  <2>10. QED
    BY <2>8, <2>9
<1>4. Len(us) \in Done
  <2> HIDE DEF Done
  <2>1. 0..Len(us) \subseteq Done
    BY <1>2, <1>3, UpTo
  <2>2. QED
    BY <2>1
<1>5. QED
  BY <1>1, <1>4

Started(m) == [m |-> m, added |-> <<>>, ok |-> TRUE]
Adding(g, m, xs, place, n) ==
    g = [i \in 0..n |-> IF i = 0 THEN Started(m) ELSE AddNext(g[i - 1], xs[i], place)]

LEMMA AddingExists ==
    ASSUME NEW m, NEW xs, Len(xs) \in Nat, NEW place
    PROVE  \E g : Adding(g, m, xs, place, Len(xs)) /\ (AddBatch(m, xs, place)
              = IF g[Len(xs)].ok THEN g[Len(xs)].m ELSE Fail(PopEach(g[Len(xs)].m, g[Len(xs)].added)))
<1> DEFINE All == {k \in 0..Len(xs) : \E g : Adding(g, m, xs, place, k)}
<1>1. 0 \in All
  <2> DEFINE h == [i \in 0..0 |-> Started(m)]
  <2>1. Adding(h, m, xs, place, 0)
    BY DEF Adding
  <2>2. \E g : Adding(g, m, xs, place, 0)
    BY <2>1
  <2>3. QED
    BY <2>2
<1>2. ASSUME NEW k \in 0..(Len(xs) - 1), k \in All PROVE k + 1 \in All
  <2>1. PICK g : Adding(g, m, xs, place, k)
    BY <1>2
  <2> DEFINE h == [i \in 0..(k + 1) |-> IF i = k + 1 THEN AddNext(g[k], xs[i], place) ELSE g[i]]
             f == [i \in 0..(k + 1) |-> IF i = 0 THEN Started(m) ELSE AddNext(h[i - 1], xs[i], place)]
  <2>2. ASSUME NEW i \in 0..(k + 1) PROVE h[i] = f[i]
    <3>1. CASE i = k + 1
      <4>1. i # 0 /\ i - 1 = k /\ k # k + 1 /\ k \in 0..(k + 1)
        BY <3>1
      <4>2. h[i - 1] = g[k]
        BY <4>1
      <4>3. QED
        BY <3>1, <4>1, <4>2
    <3>2. CASE i # k + 1
      <4>1. i \in 0..k
        BY <3>2
      <4>2. g[i] = IF i = 0 THEN Started(m) ELSE AddNext(g[i - 1], xs[i], place)
        BY <2>1, <4>1 DEF Adding
      <4>3. CASE i = 0
        BY <3>2, <4>2, <4>3
      <4>4. CASE i # 0
        <5>1. i - 1 \in 0..(k + 1) /\ i - 1 # k + 1
          BY <4>1, <4>4
        <5>2. h[i - 1] = g[i - 1]
          BY <5>1
        <5>3. QED
          BY <3>2, <4>2, <4>4, <5>2
      <4>5. QED
        BY <4>3, <4>4
    <3>3. QED
      BY <3>1, <3>2
  <2>3. h = f
    <3>1. h = [i \in 0..(k + 1) |-> h[i]] /\ f = [i \in 0..(k + 1) |-> f[i]]
      OBVIOUS
    <3> HIDE DEF h, f
    <3>2. QED
      BY <2>2, <3>1
  <2>4. Adding(h, m, xs, place, k + 1)
    <3> HIDE DEF h
    <3>1. QED
      BY <2>3 DEF Adding
  <2> HIDE DEF h
  <2>5. \E j : Adding(j, m, xs, place, k + 1)
    BY <2>4
  <2>6. k + 1 \in 0..Len(xs)
    OBVIOUS
  <2>7. QED
    BY <2>5, <2>6
<1>3. \E g : Adding(g, m, xs, place, Len(xs))
  <2> HIDE DEF All
  <2>1. 0..Len(xs) \subseteq All
    BY <1>1, <1>2, UpTo
  <2>2. Len(xs) \in All
    BY <2>1
  <2>3. QED
    BY <2>2 DEF All
<1> DEFINE G == CHOOSE g : Adding(g, m, xs, place, Len(xs))
<1>4. AddBatch(m, xs, place) = IF G[Len(xs)].ok THEN G[Len(xs)].m
                               ELSE Fail(PopEach(G[Len(xs)].m, G[Len(xs)].added))
  BY DEF AddBatch, Adding, Started
<1>5. Adding(G, m, xs, place, Len(xs))
  BY <1>3
<1> HIDE DEF G
<1>6. QED
  BY <1>4, <1>5

Advanced(n, acc, K, x) ==
    /\ Keeps(n.m, K) /\ n.added \in Seq(Uid) /\ n.ok \in BOOLEAN
    /\ n.m.store.running = acc.m.store.running
    /\ n.m.dict \subseteq acc.m.dict \cup {x}
    /\ \A u \in ToSet(n.added) : u \in ToSet(acc.added) \/ u = x.uid
    /\ Present(acc.m.store) \subseteq Present(n.m.store)
    /\ n.ok => acc.ok /\ x.body \in Present(n.m.store)

LEMMA AddNextIs ==
    ASSUME NEW K, NEW acc, Keeps(acc.m, K), acc.added \in Seq(Uid), acc.ok \in BOOLEAN,
           NEW x \in Item, ~ x.now, ~ IsRunning(acc.m, x.uid), NEW place, place.pos \in Int
    PROVE  Advanced(AddNext(acc, x, place), acc, K, x)
<1>1. PICK p, pl : p = Retry(acc.m) /\ pl = IF acc.added = <<>> THEN place ELSE After(Last(acc.added))
  OBVIOUS
<1>2. /\ Keeps(p, K) /\ p.ok /\ p.dict = acc.m.dict /\ p.store = acc.m.store
  BY <1>1, KeepsOk, OkIs DEF Keeps, Good
<1>3. pl.pos \in Int
  BY <1>1 DEF After
<1>4. PICK r : r = Add(p, x, pl)
  OBVIOUS
<1>5. PICK n : n = AddNext(acc, x, place)
  OBVIOUS
<1>6. n = IF r.ok THEN [m |-> r, added |-> Append(acc.added, x.uid), ok |-> acc.ok]
          ELSE [m |-> r, added |-> acc.added, ok |-> FALSE]
  BY <1>1, <1>4, <1>5 DEF AddNext
<1>7. \/ Entered(r, p, K, x)
      \/ r = Fail(p)
  <2>1. ~ IsRunning(p, x.uid) /\ K \subseteq Present(p.store) \cup {x.body} /\ Good(p, K)
    BY <1>2 DEF Keeps, IsRunning
  <2>2. QED
    BY <1>3, <1>4, <2>1, AddIs
<1>8. CASE Entered(r, p, K, x)
  <2>1. r.ok
    BY <1>2, <1>8 DEF Entered
  <2>2. n.m = r /\ n.added = Append(acc.added, x.uid) /\ n.ok = acc.ok
    BY <1>6, <2>1
  <2>3. x.uid \in Uid
    BY DEF Item
  <2>4. n.added \in Seq(Uid) /\ \A u \in ToSet(n.added) : u \in ToSet(acc.added) \/ u = x.uid
    <3>a. PICK a \in Seq(Uid) : a = acc.added
      OBVIOUS
    <3>b. Append(a, x.uid) \in Seq(Uid)
      BY <2>3
    <3>1. PICK b \in Seq(Uid) : a = acc.added /\ b = Append(a, x.uid)
      BY <3>a, <3>b
    <3>2. /\ Len(b) = Len(a) + 1 /\ b[Len(a) + 1] = x.uid
          /\ \A i \in 1..Len(a) : b[i] = a[i]
      BY <2>3, <3>1
    <3>3. ASSUME NEW u \in ToSet(b) PROVE u \in ToSet(a) \/ u = x.uid
      <4>1. PICK i \in 1..Len(b) : b[i] = u
        BY InQueue
      <4>2. i \in 1..Len(a) \/ i = Len(a) + 1
        BY <3>2
      <4>3. QED
        BY <3>2, <4>1, <4>2, InQueue
    <3>4. QED
      BY <2>2, <3>1, <3>3
  <2>5. QED
    BY <1>2, <1>5, <1>8, <2>2, <2>4 DEF Entered, Keeps, Advanced
<1>9. CASE r = Fail(p)
  <2>1. Keeps(r, K) /\ ~ r.ok /\ r.dict = p.dict /\ r.store = p.store
    BY <1>2, <1>9, KeepsOk, OkIs DEF Keeps, Good
  <2>2. n.m = r /\ n.added = acc.added /\ n.ok = FALSE
    BY <1>6, <2>1
  <2>3. QED
    BY <1>2, <1>5, <2>1, <2>2 DEF Advanced
<1>10. QED
  BY <1>7, <1>8, <1>9

Moving(g, m, list, place, n) ==
    g = [i \in 0..n |-> IF i = 0 THEN m ELSE MoveNext(g[i - 1], list, i, place)]

LEMMA MovingExists ==
    ASSUME NEW m, NEW list, Len(list) \in Nat, NEW place
    PROVE  \E g : Moving(g, m, list, place, Len(list)) /\ g = (CHOOSE f : Moving(f, m, list, place, Len(list)))
<1> DEFINE All == {k \in 0..Len(list) : \E g : Moving(g, m, list, place, k)}
<1>1. 0 \in All
  <2> DEFINE h == [i \in 0..0 |-> m]
  <2>1. Moving(h, m, list, place, 0)
    BY DEF Moving
  <2>2. \E g : Moving(g, m, list, place, 0)
    BY <2>1
  <2>3. QED
    BY <2>2
<1>2. ASSUME NEW k \in 0..(Len(list) - 1), k \in All PROVE k + 1 \in All
  <2>1. PICK g : Moving(g, m, list, place, k)
    BY <1>2
  <2> DEFINE h == [i \in 0..(k + 1) |-> IF i = k + 1 THEN MoveNext(g[k], list, i, place) ELSE g[i]]
             f == [i \in 0..(k + 1) |-> IF i = 0 THEN m ELSE MoveNext(h[i - 1], list, i, place)]
  <2>2. ASSUME NEW i \in 0..(k + 1) PROVE h[i] = f[i]
    <3>1. CASE i = k + 1
      <4>1. i # 0 /\ i - 1 = k /\ k # k + 1 /\ k \in 0..(k + 1)
        BY <3>1
      <4>2. h[i - 1] = g[k]
        BY <4>1
      <4>3. QED
        BY <3>1, <4>1, <4>2
    <3>2. CASE i # k + 1
      <4>1. i \in 0..k
        BY <3>2
      <4>2. g[i] = IF i = 0 THEN m ELSE MoveNext(g[i - 1], list, i, place)
        BY <2>1, <4>1 DEF Moving
      <4>3. CASE i = 0
        BY <3>2, <4>2, <4>3
      <4>4. CASE i # 0
        <5>1. i - 1 \in 0..(k + 1) /\ i - 1 # k + 1
          BY <4>1, <4>4
        <5>2. h[i - 1] = g[i - 1]
          BY <5>1
        <5>3. QED
          BY <3>2, <4>2, <4>4, <5>2
      <4>5. QED
        BY <4>3, <4>4
    <3>3. QED
      BY <3>1, <3>2
  <2>3. h = f
    <3>1. h = [i \in 0..(k + 1) |-> h[i]] /\ f = [i \in 0..(k + 1) |-> f[i]]
      OBVIOUS
    <3> HIDE DEF h, f
    <3>2. QED
      BY <2>2, <3>1
  <2>4. Moving(h, m, list, place, k + 1)
    <3> HIDE DEF h
    <3>1. QED
      BY <2>3 DEF Moving
  <2> HIDE DEF h
  <2>5. \E j : Moving(j, m, list, place, k + 1)
    BY <2>4
  <2>6. k + 1 \in 0..Len(list)
    OBVIOUS
  <2>7. QED
    BY <2>5, <2>6
<1>3. \E g : Moving(g, m, list, place, Len(list))
  <2> HIDE DEF All
  <2>1. 0..Len(list) \subseteq All
    BY <1>1, <1>2, UpTo
  <2>2. Len(list) \in All
    BY <2>1
  <2>3. QED
    BY <2>2 DEF All
<1>4. Moving(CHOOSE f : Moving(f, m, list, place, Len(list)), m, list, place, Len(list))
  BY <1>3
<1>5. QED
  BY <1>4
LEMMA AddBatchIs ==
    ASSUME NEW K, NEW m, Keeps(m, K), NEW xs \in Seq(Item), NEW place, place.pos \in Int,
           \A i \in 1..Len(xs) : /\ ~ xs[i].now /\ xs[i].body \notin K
                                 /\ ~ InDict(m, xs[i].uid) /\ ~ IsRunning(m, xs[i].uid),
           \A i, j \in 1..Len(xs) : xs[i].uid = xs[j].uid => i = j
    PROVE  LET r == AddBatch(m, xs, place)
           IN  Keeps(r, K) /\ (r.ok => \A i \in 1..Len(xs) : xs[i].body \in Present(r.store))
<1>0. Len(xs) \in Nat /\ \A i \in 1..Len(xs) : xs[i] \in Item
  OBVIOUS
<1>1. PICK g : /\ Adding(g, m, xs, place, Len(xs))
               /\ AddBatch(m, xs, place) = IF g[Len(xs)].ok THEN g[Len(xs)].m
                                           ELSE Fail(PopEach(g[Len(xs)].m, g[Len(xs)].added))
  BY <1>0, AddingExists
<1> DEFINE Part(a, n) ==
        /\ Keeps(a.m, K) /\ a.added \in Seq(Uid) /\ a.ok \in BOOLEAN
        /\ a.m.store.running = m.store.running
        /\ \A x \in a.m.dict : x \in m.dict \/ \E i \in 1..Len(xs) : x = xs[i]
        /\ \A u \in ToSet(a.added) : \E i \in 1..Len(xs) : u = xs[i].uid
        /\ a.ok => \A i \in 1..n : xs[i].body \in Present(a.m.store)
    Done == {n \in 0..Len(xs) : Part(g[n], n)}
<1>2. 0 \in Done
  <2>1. g[0] = Started(m)
    BY <1>0, <1>1 DEF Adding
  <2>2. g[0].m = m /\ g[0].added = <<>> /\ g[0].ok = TRUE
    BY <2>1 DEF Started
  <2>3. <<>> \in Seq(Uid) /\ Len(<<>>) = 0
    OBVIOUS
  <2>4. \A u : u \notin ToSet(<<>>)
    <3>1. \A u : u \in ToSet(<<>>) <=> \E i \in 1..Len(<<>>) : <<>>[i] = u
      BY <2>3, InQueue
    <3>2. 1..Len(<<>>) = {}
      BY <2>3
    <3>3. QED
      BY <3>1, <3>2
  <2>5. Part(g[0], 0)
    <3>1. PICK a : a = g[0]
      OBVIOUS
    <3>2. Keeps(a.m, K) /\ a.m = m /\ a.added \in Seq(Uid) /\ a.ok \in BOOLEAN
      BY <2>2, <2>3, <3>1
    <3>3. \A u : u \notin ToSet(a.added)
      BY <2>2, <2>4, <3>1
    <3>4. \A i \in 1..0 : xs[i].body \in Present(a.m.store)
      OBVIOUS
    <3>5. QED
      BY <3>1, <3>2, <3>3, <3>4
  <2>6. 0 \in 0..Len(xs)
    BY <1>0
  <2> HIDE DEF Part
  <2>7. QED
    BY <2>5, <2>6
<1>3. ASSUME NEW n \in 0..(Len(xs) - 1), n \in Done PROVE n + 1 \in Done
  <2>1. n + 1 \in 0..Len(xs) /\ n + 1 \in 1..Len(xs) /\ n + 1 # 0 /\ (n + 1) - 1 = n
    BY <1>0
  <2>2. g[n + 1] = AddNext(g[n], xs[n + 1], place)
    BY <1>1, <2>1 DEF Adding
  <2>3. Part(g[n], n)
    BY <1>3
  <2>a. xs[n + 1] \in Item
    BY <1>0, <2>1
  <2>b. PICK a : a = g[n]
    OBVIOUS
  <2>4. PICK x \in Item : a = g[n] /\ x = xs[n + 1]
    BY <2>a, <2>b
  <2>5. PICK b : b = AddNext(a, x, place)
    OBVIOUS
  <2>6. ~ x.now /\ ~ IsRunning(a.m, x.uid)
    BY <2>1, <2>3, <2>4 DEF IsRunning
  <2>7. /\ Keeps(b.m, K) /\ b.added \in Seq(Uid) /\ b.ok \in BOOLEAN
        /\ b.m.store.running = a.m.store.running
        /\ b.m.dict \subseteq a.m.dict \cup {x}
        /\ \A u \in ToSet(b.added) : u \in ToSet(a.added) \/ u = x.uid
        /\ Present(a.m.store) \subseteq Present(b.m.store)
        /\ b.ok => a.ok /\ x.body \in Present(b.m.store)
    <3>1. Keeps(a.m, K) /\ a.added \in Seq(Uid) /\ a.ok \in BOOLEAN
      BY <2>3, <2>4
    <3>2. Advanced(b, a, K, x)
      <4> HIDE DEF Part
      <4>1. QED
        BY <2>5, <2>6, <3>1, AddNextIs
    <3>3. QED
      BY <3>2 DEF Advanced
  <2>8. ASSUME b.ok PROVE \A i \in 1..(n + 1) : xs[i].body \in Present(b.m.store)
    <3>1. \A i \in 1..n : xs[i].body \in Present(b.m.store)
      BY <2>3, <2>4, <2>7, <2>8
    <3>2. \A i \in 1..(n + 1) : i \in 1..n \/ i = n + 1
      OBVIOUS
    <3>3. QED
      BY <2>4, <2>7, <2>8, <3>1, <3>2
  <2>9. \A y \in b.m.dict : y \in m.dict \/ \E i \in 1..Len(xs) : y = xs[i]
    BY <2>1, <2>3, <2>4, <2>7
  <2>10. \A u \in ToSet(b.added) : \E i \in 1..Len(xs) : u = xs[i].uid
    BY <2>1, <2>3, <2>4, <2>7
  <2>11. b.m.store.running = m.store.running
    BY <2>3, <2>4, <2>7
  <2>12. Part(b, n + 1)
    BY <2>7, <2>8, <2>9, <2>10, <2>11
  <2> HIDE DEF Part
  <2>13. QED
    BY <2>1, <2>2, <2>4, <2>5, <2>12
<1>4. Part(g[Len(xs)], Len(xs))
  <2> HIDE DEF Done
  <2>1. 0..Len(xs) \subseteq Done
    BY <1>0, <1>2, <1>3, UpTo
  <2>2. Len(xs) \in Done
    BY <1>0, <2>1
  <2>3. QED
    BY <2>2 DEF Done
<1>5. PICK a, r : a = g[Len(xs)] /\ r = AddBatch(m, xs, place)
  OBVIOUS
<1>6. Part(a, Len(xs)) /\ r = IF a.ok THEN a.m ELSE Fail(PopEach(a.m, a.added))
  BY <1>1, <1>4, <1>5
<1>7. CASE a.ok
  BY <1>5, <1>6, <1>7
<1>8. CASE ~ a.ok
  <2>1. Len(a.added) \in Nat
    BY <1>6
  <2>2. ASSUME NEW x \in a.m.dict, \E i \in 1..Len(a.added) : a.added[i] = x.uid
        PROVE  x.body \notin K
    <3>1. x.uid \in ToSet(a.added)
      BY <1>6, <2>2, InQueue
    <3>2. PICK i \in 1..Len(xs) : x.uid = xs[i].uid
      BY <1>6, <3>1
    <3>3. x \notin m.dict
      BY <3>2 DEF InDict
    <3>4. PICK j \in 1..Len(xs) : x = xs[j]
      BY <1>6, <3>3
    <3>5. QED
      BY <3>4
  <2>3. PICK p : p = PopEach(a.m, a.added)
    OBVIOUS
  <2>4. Keeps(p, K)
    <3>1. Keeps(a.m, K)
      BY <1>6
    <3>2. PICK am, us : am = a.m /\ us = a.added
      OBVIOUS
    <3>3. Keeps(am, K) /\ Len(us) \in Nat
      BY <2>1, <3>1, <3>2
    <3>4. \A x \in am.dict : (\E i \in 1..Len(us) : us[i] = x.uid) /\ ~ IsRunning(am, x.uid) => x.body \notin K
      BY <2>2, <3>2
    <3>5. Keeps(PopEach(am, us), K)
      BY <3>3, <3>4, PopEachIs
    <3>6. QED
      BY <2>3, <3>2, <3>5
  <2>5. r = Fail(p)
    BY <1>6, <1>8, <2>3
  <2>6. Keeps(r, K) /\ ~ r.ok
    BY <2>4, <2>5, KeepsOk, OkIs DEF Keeps, Good
  <2>7. QED
    BY <1>5, <2>6
<1>9. QED
  BY <1>7, <1>8

LEMMA ByIndexIs ==
    ASSUME NEW q \in Seq(Item), NEW us \in Seq(Uid)
    PROVE  Len(ByIndex(q, us)) \in Nat
<1>1. PICK there \in Seq(Item) : there = Without(q, {x \in ToSet(q) : x.uid \notin ToSet(us)})
  BY WithoutTyped
<1>2. PICK uids : uids = [i \in DOMAIN there |-> there[i].uid]
  OBVIOUS
<1>3. uids \in Seq(Uid)
  <2>0. \A i \in 1..Len(there) : there[i] \in Item
    OBVIOUS
  <2>1. \A i \in 1..Len(there) : there[i].uid \in Uid
    BY <2>0 DEF Item
  <2>2. uids = [i \in 1..Len(there) |-> there[i].uid] /\ Len(there) \in Nat
    BY <1>2
  <2>3. QED
    BY <2>1, <2>2, IsASeq
<1>4. PICK gone \in Seq(Uid) : gone = Without(us, Uids(q))
  BY WithoutTyped
<1>5. gone \o uids \in Seq(Uid)
  BY <1>3, ConcatProperties
<1>6. ByIndex(q, us) = gone \o uids
  BY <1>1, <1>2, <1>4 DEF ByIndex
<1>7. QED
  BY <1>5, <1>6

LEMMA MoveBatchIs ==
    ASSUME NEW K, NEW m, Keeps(m, K), NEW us \in Seq(Uid), NEW place, place.pos \in Int,
           NEW reorder \in BOOLEAN
    PROVE  Keeps(MoveBatch(m, us, place, reorder), K)
<1> DEFINE list == IF reorder THEN ByIndex(m.store.queue, us) ELSE us
           g    == CHOOSE f : Moving(f, m, list, place, Len(list))
<1>2. Len(list) \in Nat
  <2>1. m.store.queue \in Seq(Item)
    BY KnownIs DEF Keeps
  <2>2. Len(us) \in Nat
    OBVIOUS
  <2>3. QED
    BY <2>1, <2>2, ByIndexIs
<1>4. \/ MoveBatch(m, us, place, reorder) = Fail(m)
      \/ MoveBatch(m, us, place, reorder) = g[Len(list)]
  BY DEF MoveBatch, Moving
<1> HIDE DEF list
<1>3. Moving(g, m, list, place, Len(list))
  <2>1. \E f : Moving(f, m, list, place, Len(list))
    BY <1>2, MovingExists
  <2>2. QED
    BY <2>1
<1> HIDE DEF g
<1> DEFINE Done == {n \in 0..Len(list) : Keeps(g[n], K)}
<1>5. 0 \in Done
  <2>1. g[0] = m
    BY <1>2, <1>3 DEF Moving
  <2>2. QED
    BY <1>2, <2>1
<1>6. ASSUME NEW n \in 0..(Len(list) - 1), n \in Done PROVE n + 1 \in Done
  <2>1. n + 1 \in 0..Len(list) /\ n + 1 # 0 /\ (n + 1) - 1 = n
    BY <1>2
  <2>2. g[n + 1] = MoveNext(g[n], list, n + 1, place)
    BY <1>3, <2>1 DEF Moving
  <2>3. PICK a, u, pl : /\ a = g[n] /\ u = list[n + 1]
                        /\ pl = IF n + 1 = 1 THEN place ELSE After(list[(n + 1) - 1])
    OBVIOUS
  <2>4. pl.pos \in Int
    BY <2>3 DEF After
  <2>5. Keeps(a, K)
    BY <1>6, <2>3
  <2>6. MoveNext(a, list, n + 1, place) = IF a.ok THEN MoveTo(a, u, pl) ELSE a
    BY <2>3 DEF MoveNext
  <2>7. Keeps(MoveNext(a, list, n + 1, place), K)
    BY <2>4, <2>5, <2>6, MoveToIs
  <2>8. QED
    BY <2>1, <2>2, <2>3, <2>7
<1>7. Len(list) \in Done
  <2> HIDE DEF Done
  <2>1. 0..Len(list) \subseteq Done
    BY <1>2, <1>5, <1>6, UpTo
  <2>2. QED
    BY <1>2, <2>1
<1>8. Keeps(g[Len(list)], K)
  BY <1>7
<1>9. QED
  BY <1>4, <1>8, KeepsOk

-----------------------------------------------------------------------------
(* The inductive invariant.  Between two operations memory mirrors a sound *)
(* store; inside one, its last stage is what memory will mirror, and each  *)
(* stage is without at most one more of what is owed than kills have cost, *)
(* and can be loaded while a kill may still come.                          *)

Settled(s, d, n, o, k) ==
    /\ Sound(s) /\ (k < MaxKills => NoGhost(s))
    /\ d = Waiting(s) /\ n = Len(s.queue)
    /\ Cardinality(o \ Present(s)) <= k

Inside(s, o, k) ==
    /\ Cardinality(o \ Present(s)) <= k + 1
    /\ k < MaxKills => Restartable(s)

Job == [path : Seq(Store), dict : SUBSET Item, size : Int, owed : SUBSET Body]

Working(s, o, j, k) ==
    /\ j \in Job /\ j.path # <<>> /\ IsFiniteSet(j.owed)
    /\ Settled(j.path[Len(j.path)], j.dict, j.size, j.owed, k)
    /\ Inside(s, o, k)
    /\ \A i \in 1..Len(j.path) : Inside(j.path[i], o, k)

Basics ==
    /\ store \in Store
    /\ dict \subseteq Item /\ size \in Nat /\ loop \in BOOLEAN /\ up \in BOOLEAN
    /\ owed \subseteq Body /\ IsFiniteSet(owed) /\ kills \in 0..MaxKills

QInv ==
    /\ Basics
    /\ \/ up /\ job = NoJob /\ Settled(store, dict, size, owed, kills)
       \/ up /\ Working(store, owed, job, kills)
       \/ /\ ~ up /\ job = NoJob /\ Restartable(store)
          /\ Cardinality(owed \ Present(store)) <= kills

LEMMA Bounds == MaxKills \in Nat /\ MaxQueue \in Nat /\ MaxHistory \in Nat /\ MaxBatch \in Nat
BY BoundsAssumption

LEMMA NotNoJob == \A j : j.path # <<>> => j # NoJob
BY DEF NoJob

LEMMA AllButFirst ==
    ASSUME NEW p \in Seq(Store), Len(p) > 1
    PROVE  \E t \in Seq(Store) :
              /\ t = Tail(p) /\ t # <<>> /\ Len(t) \in Nat /\ t[Len(t)] = p[Len(p)]
              /\ \A i \in 1..Len(t) : i + 1 \in 1..Len(p) /\ t[i] = p[i + 1]
<1>1. p # <<>> /\ Len(p) \in Nat
  <2>1. Len(<<>>) = 0
    OBVIOUS
  <2>2. Len(p) \in Nat
    OBVIOUS
  <2>3. QED
    BY <2>1, <2>2
<1>2. PICK t \in Seq(Store) : /\ t = Tail(p) /\ Len(t) = Len(p) - 1
                              /\ \A i \in 1..Len(t) : t[i] = p[i + 1]
  BY <1>1, HeadTailProperties
<1>3. Len(t) \in Nat /\ Len(t) # 0 /\ Len(t) + 1 = Len(p)
  BY <1>1, <1>2
<1>4. t # <<>>
  <2>1. Len(<<>>) = 0
    OBVIOUS
  <2>2. QED
    BY <1>3, <2>1
<1>5. Len(t) \in 1..Len(t)
  BY <1>3
<1>6. t[Len(t)] = p[Len(p)]
  BY <1>2, <1>3, <1>5
<1>7. \A i \in 1..Len(t) : i + 1 \in 1..Len(p)
  BY <1>3
<1>8. QED
  BY <1>2, <1>3, <1>4, <1>6, <1>7

LEMMA OneMore ==
    ASSUME NEW A, IsFiniteSet(A), NEW b, NEW B \in SUBSET (A \cup {b}), NEW k \in Nat,
           Cardinality(A) <= k
    PROVE  IsFiniteSet(B) /\ Cardinality(B) <= k + 1
<1>1. IsFiniteSet(A \cup {b}) /\ Cardinality(A \cup {b}) <= Cardinality(A) + 1
  <2>1. CASE b \in A
    <3>1. A \cup {b} = A
      BY <2>1
    <3>2. Cardinality(A) \in Nat
      BY FS_CardinalityType
    <3>3. QED
      BY <3>1, <3>2
  <2>2. CASE b \notin A
    <3>1. Cardinality(A) \in Nat
      BY FS_CardinalityType
    <3>2. IsFiniteSet(A \cup {b}) /\ Cardinality(A \cup {b}) = Cardinality(A) + 1
      BY <2>2, FS_AddElement
    <3>3. QED
      BY <3>1, <3>2
  <2>3. QED
    BY <2>1, <2>2
<1>2. IsFiniteSet(B) /\ Cardinality(B) <= Cardinality(A \cup {b})
  BY <1>1, FS_Subset
<1>3. Cardinality(A) \in Nat /\ Cardinality(B) \in Nat /\ Cardinality(A \cup {b}) \in Nat
  BY <1>1, <1>2, FS_CardinalityType
<1>4. QED
  BY <1>1, <1>2, <1>3

LEMMA Fewer ==
    ASSUME NEW A, IsFiniteSet(A), NEW B \in SUBSET A, NEW k \in Nat, Cardinality(A) <= k
    PROVE  IsFiniteSet(B) /\ Cardinality(B) <= k
<1>1. IsFiniteSet(B) /\ Cardinality(B) <= Cardinality(A)
  BY FS_Subset
<1>2. Cardinality(A) \in Nat /\ Cardinality(B) \in Nat
  BY <1>1, FS_CardinalityType
<1>3. QED
  BY <1>1, <1>2

(* The state between two operations, as the operations see it.             *)
LEMMA HereIs ==
    ASSUME QInv, Idle
    PROVE  /\ Settled(store, dict, size, owed, kills) /\ store \in Store
           /\ Here.store = store /\ Here.dict = dict /\ Here.ok
           /\ \A K : Good(Here, K)
           /\ \A K : K \subseteq Present(store) => Keeps(Here, K)
<1>1. Settled(store, dict, size, owed, kills)
  <2>1. \A s, o, k : ~ Working(s, o, NoJob, k)
    BY NotNoJob DEF Working
  <2>2. QED
    BY <2>1 DEF QInv, Idle
<1>2. PICK none : none = <<>> /\ none \in Seq(Store)
  <2>1. <<>> \in Seq(Store)
    OBVIOUS
  <2>2. QED
    BY <2>1
<1>3. PICK yes : yes = TRUE /\ yes \in BOOLEAN
  OBVIOUS
<1>4. Here = [store |-> store, dict |-> dict, size |-> size, path |-> none, ok |-> yes]
  BY <1>2, <1>3 DEF Here
<1>5. PICK m : m = Here
  OBVIOUS
<1>6. /\ m \in Mem /\ m.store = store /\ m.dict = dict /\ m.size = size /\ m.path = none /\ m.ok = yes
  <2>1. store \in Store /\ dict \in SUBSET Item /\ size \in Int
    BY DEF QInv, Basics
  <2>2. QED
    BY <1>2, <1>3, <1>4, <1>5, <2>1 DEF Mem
<1>7. ASSUME NEW K PROVE Good(m, K)
  <2>1. 1..Len(none) = {}
    BY <1>2
  <2>2. Trail(m, K)
    BY <1>2, <1>6, <2>1 DEF Trail
  <2>3. QED
    BY <1>1, <1>6, <2>2 DEF Good, Settled, Mortal
<1>8. store \in Store /\ m.ok
  BY <1>3, <1>6 DEF QInv, Basics
<1>9. ASSUME NEW K, K \subseteq Present(store) PROVE Keeps(m, K)
  BY <1>6, <1>7, <1>9 DEF Keeps
<1>10. QED
  BY <1>1, <1>5, <1>6, <1>7, <1>8, <1>9

LEMMA BeginKeeps ==
    ASSUME QInv, NEW r, NEW owing, NEW then, Begin(r, owing, then),
           owing \subseteq owed, then \subseteq Body, IsFiniteSet(then),
           Good(r, owing \cap Present(store)),
           then \ Present(r.store) \subseteq owed \ Present(store)
    PROVE  QInv'
<1>1. /\ Settled(store, dict, size, owed, kills) /\ store \in Store
      /\ owed \subseteq Body /\ IsFiniteSet(owed) /\ kills \in Nat /\ loop \in BOOLEAN /\ kills \in 0..MaxKills
      /\ up = TRUE
  BY HereIs, Bounds DEF Begin, QInv, Basics, Idle
<1>2. /\ r \in Mem /\ r.store \in Store /\ r.dict \subseteq Item /\ r.path \in Seq(Store)
      /\ Sound(r.store) /\ (kills < MaxKills => NoGhost(r.store))
      /\ r.dict = Waiting(r.store) /\ r.size = Len(r.store.queue) /\ r.size \in Nat
      /\ Trail(r, owing \cap Present(store))
  BY KnownIs DEF Good, Mortal, Mem, Store
<1>3. IsFiniteSet(owed \ Present(store)) /\ Cardinality(owed \ Present(store)) <= kills
  BY <1>1, FS_Subset DEF Settled
<1>4. Cardinality(then \ Present(r.store)) <= kills
  BY <1>1, <1>3, Fewer
<1>5. Settled(r.store, r.dict, r.size, then, kills)
  BY <1>2, <1>4 DEF Settled
<1>6. ASSUME NEW i \in 1..Len(r.path) PROVE Inside(r.path[i], owing, kills)
  <2>1. Stage(r.path[i], owing \cap Present(store))
    BY <1>2 DEF Trail
  <2>2. PICK b : owing \cap Present(store) \subseteq Present(r.path[i]) \cup {b}
    BY <2>1 DEF Stage, Spared
  <2>3. owing \ Present(r.path[i]) \subseteq (owed \ Present(store)) \cup {b}
    BY <2>2
  <2>4. Cardinality(owing \ Present(r.path[i])) <= kills + 1
    BY <1>1, <1>3, <2>3, OneMore
  <2>5. QED
    BY <2>1, <2>4 DEF Inside, Stage, Mortal
<1>7. up' = up /\ kills' = kills /\ loop' = loop
  BY DEF Begin
<1>8. CASE Len(r.path) <= 1
  <2>1. /\ store' = r.store /\ dict' = r.dict /\ size' = r.size /\ owed' = then /\ job' = NoJob
    BY <1>8 DEF Begin
  <2>2. Basics'
    BY <1>1, <1>2, <1>7, <2>1 DEF Basics
  <2>3. up' /\ job' = NoJob /\ Settled(store', dict', size', owed', kills')
    BY <1>1, <1>5, <1>7, <2>1
  <2>4. QED
    BY <2>2, <2>3 DEF QInv
<1>9. CASE ~ (Len(r.path) <= 1)
  <2>1. /\ store' = r.path[1] /\ owed' = owing /\ dict' = dict /\ size' = size
        /\ job' = [path |-> Tail(r.path), dict |-> r.dict, size |-> r.size, owed |-> then]
    BY <1>9 DEF Begin
  <2>2. PICK p \in Seq(Store) : p = r.path
    BY <1>2
  <2>3. Len(p) > 1 /\ Len(p) \in Nat /\ p # <<>>
    <3>1. Len(<<>>) = 0
      OBVIOUS
    <3>2. Len(p) > 1 /\ Len(p) \in Nat
      BY <1>9, <2>2
    <3>3. QED
      BY <3>1, <3>2
  <2>4. PICK t \in Seq(Store) :
              /\ t = Tail(p) /\ t # <<>> /\ Len(t) \in Nat /\ t[Len(t)] = p[Len(p)]
              /\ \A i \in 1..Len(t) : i + 1 \in 1..Len(p) /\ t[i] = p[i + 1]
    BY <2>3, AllButFirst
  <2>5. t # <<>> /\ t[Len(t)] = p[Len(p)] /\ Len(t) \in Nat
    BY <2>4
  <2>6. p[Len(p)] = r.store
    BY <1>2, <2>2, <2>3 DEF Trail
  <2>7. PICK j : j = job'
    OBVIOUS
  <2>8. j = [path |-> t, dict |-> r.dict, size |-> r.size, owed |-> then]
    BY <2>1, <2>2, <2>4, <2>7
  <2>9. /\ j \in Job /\ j.path = t /\ j.dict = r.dict /\ j.size = r.size /\ j.owed = then
    BY <1>2, <2>8 DEF Job
  <2>10. Settled(j.path[Len(j.path)], j.dict, j.size, j.owed, kills)
    BY <1>5, <2>5, <2>6, <2>9
  <2>11. Inside(p[1], owing, kills) /\ p[1] \in Store
    BY <1>6, <2>2, <2>3
  <2>12. ASSUME NEW i \in 1..Len(t) PROVE Inside(t[i], owing, kills)
    <3>1. i + 1 \in 1..Len(p) /\ t[i] = p[i + 1]
      BY <2>3, <2>4
    <3>2. QED
      BY <1>6, <2>2, <3>1
  <2>13. Working(p[1], owing, j, kills)
    BY <2>5, <2>9, <2>10, <2>11, <2>12 DEF Working
  <2>14. Working(store', owed', job', kills')
    BY <1>7, <2>1, <2>2, <2>7, <2>13
  <2>15. IsFiniteSet(owing)
    BY <1>1, FS_Subset
  <2>16. Basics'
    <3>1. dict \subseteq Item /\ size \in Nat
      BY DEF QInv, Basics
    <3>2. QED
      BY <1>1, <1>7, <2>1, <2>2, <2>11, <2>15, <3>1 DEF Basics
  <2>17. QED
    BY <1>1, <1>7, <2>14, <2>16 DEF QInv
<1>10. QED
  BY <1>8, <1>9

-----------------------------------------------------------------------------
(* The other steps.                                                        *)

LEMMA InitHolds == Init => QInv
<1> SUFFICES ASSUME Init PROVE QInv
  OBVIOUS
<1>1. PICK none : none = <<>> /\ none \in Seq(Item) /\ none \in Seq(Body) /\ Len(none) = 0
  <2>1. <<>> \in Seq(Item) /\ <<>> \in Seq(Body) /\ Len(<<>>) = 0
    OBVIOUS
  <2>2. QED
    BY <2>1
<1>2. store = [queue |-> none, running |-> NoItem, history |-> none]
  BY <1>1 DEF Init
<1>3. store \in Store /\ store.queue = none /\ store.running = NoItem
  BY <1>1, <1>2 DEF Store
<1>4. \A y : y \notin ToSet(none)
  <2>1. \A y : y \in ToSet(none) <=> \E i \in 1..Len(none) : none[i] = y
    BY <1>1, InQueue
  <2>2. 1..Len(none) = {}
    BY <1>1
  <2>3. QED
    BY <2>1, <2>2
<1>5. Sound(store) /\ NoGhost(store) /\ Waiting(store) = {}
  BY <1>1, <1>3, <1>4 DEF Sound, NoGhost, Waiting, Distinct
<1>6. owed = {} /\ IsFiniteSet({}) /\ Cardinality({}) = 0
  BY FS_EmptySet DEF Init
<1>7. owed \ Present(store) = {}
  BY <1>6
<1>8. kills = 0 /\ size = 0 /\ dict = {} /\ up = TRUE /\ job = NoJob /\ loop = FALSE
  BY DEF Init
<1>9. Settled(store, dict, size, owed, kills)
  BY <1>1, <1>3, <1>5, <1>6, <1>7, <1>8 DEF Settled
<1>10. Basics
  <2>1. dict \subseteq Item /\ owed \subseteq Body /\ IsFiniteSet(owed)
    BY <1>6, <1>8
  <2>2. loop \in BOOLEAN /\ up \in BOOLEAN
    BY <1>8
  <2>3. size \in Nat /\ kills \in 0..MaxKills
    BY <1>8, Bounds
  <2>4. QED
    BY <1>3, <2>1, <2>2, <2>3 DEF Basics
<1>11. QED
  BY <1>8, <1>9, <1>10 DEF QInv

LEMMA ContinueHolds == QInv /\ Continue => QInv'
<1> SUFFICES ASSUME QInv, Continue PROVE QInv'
  OBVIOUS
<1>1. Basics /\ Working(store, owed, job, kills) /\ up
  BY DEF QInv, Continue
<1>2. PICK j \in Job : j = job
  BY <1>1 DEF Working
<1>3. PICK p \in Seq(Store) : p = j.path /\ p # <<>>
  BY <1>1, <1>2 DEF Working, Job
<1>4. /\ Settled(p[Len(p)], j.dict, j.size, j.owed, kills) /\ IsFiniteSet(j.owed)
      /\ \A i \in 1..Len(p) : Inside(p[i], owed, kills)
  BY <1>1, <1>2, <1>3 DEF Working
<1>5. Len(p) \in Nat /\ Len(p) # 0 /\ 1 \in 1..Len(p) /\ p[1] \in Store
  BY <1>3, EmptySeq
<1>6. store' = p[1] /\ loop' = loop /\ up' = up /\ kills' = kills
  BY <1>2, <1>3 DEF Continue
<1>7. CASE Len(p) = 1
  <2>1. dict' = j.dict /\ size' = j.size /\ owed' = j.owed /\ job' = NoJob
    BY <1>2, <1>3, <1>7 DEF Continue
  <2>2. Settled(store', dict', size', owed', kills')
    BY <1>4, <1>6, <1>7, <2>1
  <2>3. dict' \subseteq Item /\ owed' \subseteq Body
    BY <2>1 DEF Job
  <2>4. size' \in Nat
    BY <1>5, <1>6, <2>2 DEF Settled, Store
  <2>5. Basics'
    BY <1>1, <1>4, <1>5, <1>6, <2>1, <2>3, <2>4 DEF Basics
  <2>6. QED
    BY <1>1, <1>6, <2>1, <2>2, <2>5 DEF QInv
<1>8. CASE Len(p) # 1
  <2>1. job' = [job EXCEPT !.path = Tail(@)] /\ dict' = dict /\ size' = size /\ owed' = owed
    BY <1>2, <1>3, <1>8 DEF Continue
  <2>2. PICK t \in Seq(Store) :
              /\ t = Tail(p) /\ t # <<>> /\ Len(t) \in Nat /\ t[Len(t)] = p[Len(p)]
              /\ \A i \in 1..Len(t) : i + 1 \in 1..Len(p) /\ t[i] = p[i + 1]
    <3>1. Len(p) > 1
      <4>1. PICK n \in Nat : n = Len(p)
        BY <1>5
      <4>2. n # 0 /\ n # 1
        BY <1>5, <1>8, <4>1
      <4>3. n > 1
        BY <4>2
      <4>4. QED
        BY <4>1, <4>3
    <3>2. QED
      BY <3>1, AllButFirst
  <2>3. t # <<>> /\ t[Len(t)] = p[Len(p)] /\ Len(t) \in Nat
    BY <2>2
  <2>4. PICK n : n = job'
    OBVIOUS
  <2>5. n = [j EXCEPT !.path = t]
    BY <1>2, <1>3, <2>1, <2>2, <2>4
  <2>6. n \in Job /\ n.path = t /\ n.dict = j.dict /\ n.size = j.size /\ n.owed = j.owed
    BY <2>5 DEF Job
  <2>7. ASSUME NEW i \in 1..Len(t) PROVE Inside(t[i], owed, kills)
    <3>1. i + 1 \in 1..Len(p) /\ t[i] = p[i + 1]
      BY <1>5, <2>2
    <3>2. QED
      BY <1>4, <3>1
  <2>8. Working(p[1], owed, n, kills)
    BY <1>4, <1>5, <2>3, <2>6, <2>7 DEF Working
  <2>9. Working(store', owed', job', kills')
    BY <1>6, <2>1, <2>4, <2>8
  <2>10. Basics'
    BY <1>1, <1>5, <1>6, <2>1 DEF Basics
  <2>11. QED
    BY <1>1, <1>6, <2>9, <2>10 DEF QInv
<1>9. QED
  BY <1>7, <1>8

LEMMA KillHolds == QInv /\ Kill => QInv'
<1> SUFFICES ASSUME QInv, Kill PROVE QInv'
  OBVIOUS
<1>1. Basics /\ up /\ kills < MaxKills /\ kills \in Nat /\ kills + 1 \in 0..MaxKills
  BY Bounds DEF QInv, Basics, Kill
<1>2. up' = FALSE /\ job' = NoJob /\ dict' = {} /\ size' = 0 /\ kills' = kills + 1
      /\ store' = store /\ loop' = loop /\ owed' = owed
  BY DEF Kill
<1>3. IsFiniteSet(owed \ Present(store)) /\ Cardinality(owed \ Present(store)) \in Nat
  BY <1>1, FS_Subset, FS_CardinalityType DEF Basics
<1>4. Restartable(store) /\ Cardinality(owed \ Present(store)) <= kills + 1
  <2>1. CASE Settled(store, dict, size, owed, kills)
    BY <1>1, <1>3, <2>1 DEF Settled, Restartable
  <2>2. CASE Working(store, owed, job, kills)
    BY <1>1, <2>2 DEF Working, Inside
  <2>3. QED
    BY <1>1, <2>1, <2>2 DEF QInv
<1>5. Basics'
  BY <1>1, <1>2 DEF Basics
<1>6. QED
  BY <1>2, <1>4, <1>5 DEF QInv

LEMMA StartHolds == QInv /\ Start => QInv'
<1> SUFFICES ASSUME QInv, Start PROVE QInv'
  OBVIOUS
<1>1. Basics /\ job = NoJob /\ Restartable(store) /\ Cardinality(owed \ Present(store)) <= kills
  BY DEF QInv, Start
<1>2. up' = TRUE /\ dict' = StoredItems(store) /\ size' = Len(store.queue)
      /\ store' = store /\ loop' = loop /\ job' = job /\ owed' = owed /\ kills' = kills
  BY DEF Start
<1>3. store \in Store /\ Len(store.queue) \in Nat
  BY <1>1, StoreFields DEF Basics
<1>4. StoredItems(store) = Waiting(store) /\ Waiting(store) \subseteq Item
  <2>1. Waiting(store) = {x \in StoredItems(store) : ~ x.now} /\ Waiting(store) \subseteq Item
    BY <1>1, <1>3, WaitingIs DEF Restartable
  <2>2. \A x \in StoredItems(store) : ~ x.now
    <3>1. CASE store.running = NoItem
      BY <1>1, <3>1 DEF StoredItems, Restartable, Sound
    <3>2. CASE store.running # NoItem
      BY <1>1, <3>2 DEF StoredItems, Restartable, Sound, NoGhost
    <3>3. QED
      BY <3>1, <3>2
  <2>3. QED
    BY <2>1, <2>2
<1>5. Settled(store, dict', size', owed, kills)
  BY <1>1, <1>2, <1>4 DEF Settled, Restartable
<1>6. Basics'
  BY <1>1, <1>2, <1>3, <1>4 DEF Basics
<1>7. QED
  BY <1>1, <1>2, <1>5, <1>6 DEF QInv

-----------------------------------------------------------------------------
(* The requests and the execution loop.                                    *)

LEMMA FreshIs ==
    ASSUME NEW u \in NewUid, Here.store = store, Here.dict = dict, store \in Store
    PROVE  /\ u \in Uid /\ ~ InDict(Here, u) /\ ~ IsRunning(Here, u)
           /\ \A y \in ToSet(store.queue) : y.uid # u
<1>1. u \in Uid /\ u \notin KnownUids /\ \A x \in StoredItems(store) : x.uid # u
  BY DEF NewUid, UsedUids
<1>2. ~ InDict(Here, u)
  BY <1>1 DEF InDict, KnownUids
<1>3. ~ IsRunning(Here, u)
  BY <1>1 DEF IsRunning, StoredItems
<1>4. \A y \in ToSet(store.queue) : y.uid # u
  BY <1>1 DEF StoredItems
<1>5. QED
  BY <1>1, <1>2, <1>3, <1>4

LEMMA PlacesAre == \A p \in Places : p.pos \in Int
<1>1. ASSUME NEW p \in Places PROVE p.pos \in Int
  <2>1. CASE \E i \in (-1 - MaxQueue) .. (MaxQueue + 1) : p = At(i)
    BY <2>1, Bounds DEF At
  <2>2. CASE \E u \in KnownUids : p = Before(u) \/ p = After(u)
    BY <2>2 DEF Before, After
  <2>3. QED
    BY <1>1, <2>1, <2>2 DEF Places
<1>2. QED
  BY <1>1

LEMMA BatchesAre ==
    ASSUME dict \subseteq Item, NEW us \in Batches
    PROVE  us \in Seq(Uid)
<1>1. KnownUids \subseteq Uid
  BY DEF KnownUids, Item
<1>2. PICK n \in 1..MaxBatch : us \in [1..n -> KnownUids]
  BY DEF Batches
<1>3. n \in Nat
  BY Bounds
<1>4. us \in [1..n -> Uid]
  BY <1>1, <1>2
<1>5. QED
  BY <1>3, <1>4

LEMMA ItemIs ==
    ASSUME NEW u \in Uid, NEW b \in Body
    PROVE  /\ Item1(u, b) \in Item /\ Item1(u, b).uid = u /\ Item1(u, b).body = b
           /\ ~ Item1(u, b).now
<1>1. PICK no : no = FALSE /\ no \in BOOLEAN
  OBVIOUS
<1>2. Item1(u, b) = [uid |-> u, body |-> b, now |-> no]
  BY <1>1 DEF Item1
<1>3. QED
  BY <1>1, <1>2 DEF Item

(* What is owed stays the same while the operation runs.                   *)
LEMMA SameKeeps ==
    ASSUME QInv, NEW r, NEW rest \in SUBSET owed, Begin(r, rest, rest),
           Keeps(r, rest \cap Present(store))
    PROVE  QInv'
<1>1. rest \subseteq Body /\ IsFiniteSet(rest)
  BY FS_Subset DEF QInv, Basics
<1>2. rest \ Present(r.store) \subseteq owed \ Present(store)
  BY DEF Keeps
<1>3. Good(r, rest \cap Present(store))
  BY DEF Keeps
<1>4. QED
  BY <1>1, <1>2, <1>3, BeginKeeps

LEMMA KeepHolds ==
    ASSUME QInv, NEW r, Keep(r), Keeps(r, owed \cap Present(store))
    PROVE  QInv'
BY SameKeeps DEF Keep

LEMMA WithdrawHolds ==
    ASSUME QInv, NEW r, NEW bodies, Withdraw(r, bodies),
           r.ok => Keeps(r, (owed \ bodies) \cap Present(store)),
           ~ r.ok => Keeps(r, owed \cap Present(store))
    PROVE  QInv'
<1>1. CASE r.ok
  <2>1. Begin(r, owed \ bodies, owed \ bodies)
    BY <1>1 DEF Withdraw
  <2>2. QED
    BY <1>1, <2>1, SameKeeps
<1>2. CASE ~ r.ok
  <2>1. Begin(r, owed, owed)
    BY <1>2 DEF Withdraw
  <2>2. QED
    BY <1>2, <2>1, SameKeeps
<1>3. QED
  BY <1>1, <1>2

LEMMA SubmitHolds ==
    ASSUME QInv, NEW r, NEW bodies \in SUBSET Body, IsFiniteSet(bodies), Submit(r, bodies),
           Keeps(r, owed \cap Present(store)), r.ok => bodies \subseteq Present(r.store)
    PROVE  QInv'
<1>1. owed \subseteq Body /\ IsFiniteSet(owed) /\ IsFiniteSet(owed \cup bodies)
  BY FS_Union DEF QInv, Basics
<1>2. Good(r, owed \cap Present(store)) /\ owed \cap Present(store) \subseteq Present(r.store)
  BY DEF Keeps
<1>3. CASE r.ok
  <2>1. Begin(r, owed, owed \cup bodies)
    BY <1>3 DEF Submit
  <2>2. (owed \cup bodies) \ Present(r.store) \subseteq owed \ Present(store)
    BY <1>2, <1>3
  <2>3. owed \cup bodies \subseteq Body
    BY <1>1
  <2>4. QED
    BY <1>1, <1>2, <2>1, <2>2, <2>3, BeginKeeps
<1>4. CASE ~ r.ok
  <2>1. Begin(r, owed, owed)
    BY <1>4 DEF Submit
  <2>2. QED
    BY <2>1, SameKeeps
<1>5. QED
  BY <1>3, <1>4

LEMMA AddItemHolds == QInv /\ AddItem => QInv'
<1> SUFFICES ASSUME QInv, AddItem PROVE QInv'
  OBVIOUS
<1>1. PICK u \in NewUid, b \in NewBody, p \in Places : Submit(Add(Here, Item1(u, b), p), {b})
  BY DEF AddItem
<1>2. Idle
  BY <1>1 DEF Submit, Begin
<1>3. /\ store \in Store /\ Here.store = store /\ Here.dict = dict /\ Here.ok
      /\ Keeps(Here, owed \cap Present(store))
  BY <1>2, HereIs
<1>4. u \in Uid /\ ~ InDict(Here, u) /\ ~ IsRunning(Here, u) /\ b \in Body
  BY <1>3, FreshIs DEF NewBody
<1>5. PICK x \in Item : x = Item1(u, b) /\ x.uid = u /\ x.body = b /\ ~ x.now
  BY <1>4, ItemIs
<1>6. PICK r : r = Add(Here, x, p)
  OBVIOUS
<1>7. Good(Here, owed \cap Present(store))
  BY <1>3 DEF Keeps
<1>8. \/ Entered(r, Here, owed \cap Present(store), x)
      \/ r = Fail(Here)
  <2>1. p.pos \in Int
    BY PlacesAre
  <2>2. QED
    BY <1>3, <1>4, <1>5, <1>6, <1>7, <2>1, AddIs
<1>9. Keeps(r, owed \cap Present(store)) /\ (r.ok => {b} \subseteq Present(r.store))
  <2>1. CASE Entered(r, Here, owed \cap Present(store), x)
    BY <1>3, <1>5, <2>1 DEF Entered, Keeps
  <2>2. CASE r = Fail(Here)
    <3>1. Here \in Mem
      BY <1>7 DEF Good
    <3>2. QED
      BY <1>3, <2>2, <3>1, KeepsOk, OkIs
  <2>3. QED
    BY <1>8, <2>1, <2>2
<1>10. IsFiniteSet({b}) /\ {b} \in SUBSET Body
  BY <1>4, FS_Singleton
<1>11. Submit(r, {b})
  BY <1>1, <1>5, <1>6
<1>12. QED
  BY <1>9, <1>10, <1>11, SubmitHolds

LEMMA AddItemsHolds == QInv /\ AddItems => QInv'
<1> SUFFICES ASSUME QInv, AddItems PROVE QInv'
  OBVIOUS
<1>1. PICK n \in 1..MaxBatch, p \in Places : \E us \in [1..n -> NewUid], bs \in [1..n -> NewBody] :
        /\ IsInjective(us) /\ IsInjective(bs)
        /\ Submit(AddBatch(Here, [i \in 1..n |-> Item1(us[i], bs[i])], p), ToSet(bs))
  BY DEF AddItems
<1>2. PICK us \in [1..n -> NewUid], bs \in [1..n -> NewBody] :
        /\ IsInjective(us) /\ IsInjective(bs)
        /\ Submit(AddBatch(Here, [i \in 1..n |-> Item1(us[i], bs[i])], p), ToSet(bs))
  BY <1>1
<1>3. Idle /\ n \in Nat
  BY <1>2, Bounds DEF Submit, Begin
<1>4. /\ store \in Store /\ Here.store = store /\ Here.dict = dict /\ Here.ok
      /\ Keeps(Here, owed \cap Present(store))
  BY <1>3, HereIs
<1>5. PICK xs : xs = [i \in 1..n |-> Item1(us[i], bs[i])]
  OBVIOUS
<1>6. ASSUME NEW i \in 1..n
      PROVE  /\ xs[i] \in Item /\ xs[i].uid = us[i] /\ xs[i].body = bs[i] /\ ~ xs[i].now
             /\ bs[i] \in Body /\ bs[i] \notin owed
             /\ ~ InDict(Here, us[i]) /\ ~ IsRunning(Here, us[i])
  <2>1. us[i] \in NewUid /\ bs[i] \in Body /\ bs[i] \notin owed
    BY DEF NewBody
  <2>2. us[i] \in Uid /\ ~ InDict(Here, us[i]) /\ ~ IsRunning(Here, us[i])
    BY <1>4, <2>1, FreshIs
  <2>3. xs[i] = Item1(us[i], bs[i])
    BY <1>5
  <2>4. QED
    BY <2>1, <2>2, <2>3, ItemIs
<1>7. xs \in Seq(Item) /\ Len(xs) = n
  <2>1. xs \in [1..n -> Item]
    BY <1>5, <1>6
  <2>2. QED
    BY <1>3, <2>1
<1>8. \A i, j \in 1..n : us[i] = us[j] => i = j
  BY <1>2 DEF IsInjective
<1>9. PICK r : r = AddBatch(Here, xs, p)
  OBVIOUS
<1>10. Keeps(r, owed \cap Present(store)) /\ (r.ok => \A i \in 1..n : bs[i] \in Present(r.store))
  <2>1. p.pos \in Int
    BY PlacesAre
  <2>2. \A i \in 1..Len(xs) : /\ ~ xs[i].now /\ xs[i].body \notin owed \cap Present(store)
                              /\ ~ InDict(Here, xs[i].uid) /\ ~ IsRunning(Here, xs[i].uid)
    BY <1>6, <1>7
  <2>3. \A i, j \in 1..Len(xs) : xs[i].uid = xs[j].uid => i = j
    BY <1>6, <1>7, <1>8
  <2>4. Keeps(r, owed \cap Present(store))
        /\ (r.ok => \A i \in 1..Len(xs) : xs[i].body \in Present(r.store))
    BY <1>4, <1>7, <1>9, <2>1, <2>2, <2>3, AddBatchIs
  <2>5. QED
    BY <1>6, <1>7, <2>4
<1>11. \A b : b \in ToSet(bs) <=> \E i \in 1..n : bs[i] = b
  BY DEF ToSet
<1>12. ToSet(bs) \in SUBSET Body /\ (r.ok => ToSet(bs) \subseteq Present(r.store))
  BY <1>6, <1>10, <1>11
<1>13. IsFiniteSet(ToSet(bs))
  <2>1. IsFiniteSet(1..n)
    BY <1>3, FS_Interval
  <2>2. bs \in Surjection(1..n, ToSet(bs))
    BY <1>11 DEF Surjection
  <2>3. QED
    BY <2>1, <2>2, FS_Surjection
<1>14. Submit(r, ToSet(bs))
  BY <1>2, <1>5, <1>9
<1>15. QED
  BY <1>10, <1>12, <1>13, <1>14, SubmitHolds

LEMMA RemoveByUidHolds == QInv /\ RemoveByUid => QInv'
<1> SUFFICES ASSUME QInv, RemoveByUid PROVE QInv'
  OBVIOUS
<1>1. PICK u \in KnownUids : Withdraw(Pop(Here, u), Queued({u}))
  BY DEF RemoveByUid
<1>2. Idle
  BY <1>1 DEF Withdraw, Begin
<1>3. /\ store \in Store /\ Here.store = store /\ Here.dict = dict /\ Here.ok
      /\ \A K : K \subseteq Present(store) => Keeps(Here, K)
  BY <1>2, HereIs
<1>4. PICK r : r = Pop(Here, u)
  OBVIOUS
<1>5. PICK gone : gone = Queued({u})
  OBVIOUS
<1>6. Found(Here, u) => Known(Here, u).body \in gone
  <2> SUFFICES ASSUME Found(Here, u) PROVE Known(Here, u).body \in gone
    OBVIOUS
  <2>1. InDict(Here, u) /\ ~ IsRunning(Here, u) /\ Good(Here, {})
    BY <1>3 DEF Found, Keeps
  <2>2. Known(Here, u) \in dict /\ Known(Here, u).uid = u
    BY <1>3, <2>1, KnownIs
  <2>3. QED
    BY <1>5, <2>1, <2>2 DEF Queued
<1>7. ASSUME NEW K, K \subseteq Present(store), Found(Here, u) => K \subseteq owed \ gone
      PROVE  Keeps(r, K) /\ (r.ok => Found(Here, u))
  <2>1. Keeps(Here, K) /\ Good(Here, K)
    BY <1>3, <1>7 DEF Keeps
  <2>2. Found(Here, u) => K \subseteq Present(Here.store) \cup {Known(Here, u).body}
    BY <1>3, <1>7
  <2>3. \/ Found(Here, u) /\ Taken(r, Here, K, Known(Here, u))
        \/ ~ Found(Here, u) /\ r = Fail(Here)
    BY <1>3, <1>4, <2>1, <2>2, PopIs
  <2>4. CASE Found(Here, u) /\ Taken(r, Here, K, Known(Here, u))
    BY <1>3, <1>6, <1>7, <2>4 DEF Taken, Keeps
  <2>5. CASE ~ Found(Here, u) /\ r = Fail(Here)
    <3>1. Here \in Mem
      BY <2>1 DEF Good
    <3>2. QED
      BY <2>1, <2>5, <3>1, KeepsOk, OkIs
  <2>6. QED
    BY <2>3, <2>4, <2>5
<1>8. Keeps(r, {}) /\ (r.ok <=> Found(Here, u))
  <2>1. Keeps(r, {}) /\ (r.ok => Found(Here, u))
    BY <1>7
  <2>2. ASSUME Found(Here, u) PROVE r.ok
    <3>1. Good(Here, {})
      BY <1>3 DEF Keeps
    <3>2. Taken(r, Here, {}, Known(Here, u))
      BY <1>3, <1>4, <2>2, <3>1, PopIs
    <3>3. QED
      BY <1>3, <3>2 DEF Taken
  <2>3. QED
    BY <2>1, <2>2
<1>9. r.ok => Keeps(r, (owed \ gone) \cap Present(store))
  BY <1>7
<1>10. ~ r.ok => Keeps(r, owed \cap Present(store))
  BY <1>7, <1>8
<1>11. Withdraw(r, gone)
  BY <1>1, <1>4, <1>5
<1>12. QED
  BY <1>9, <1>10, <1>11, WithdrawHolds

LEMMA RemoveAtPosHolds == QInv /\ RemoveAtPos => QInv'
<1> SUFFICES ASSUME QInv, RemoveAtPos PROVE QInv'
  OBVIOUS
<1>1. PICK p \in {-1, 0, 1} :
        LET at == {Index(store.queue, p)} \ {0}
        IN  Withdraw(PopAt(Here, p), {store.queue[i].body : i \in at})
  BY DEF RemoveAtPos
<1>2. PICK k : k = Index(store.queue, p)
  OBVIOUS
<1>3. PICK gone : gone = {store.queue[i].body : i \in {k} \ {0}}
  OBVIOUS
<1>4. PICK r : r = PopAt(Here, p)
  OBVIOUS
<1>5. Withdraw(r, gone)
  BY <1>1, <1>2, <1>3, <1>4
<1>6. Idle
  BY <1>5 DEF Withdraw, Begin
<1>7. /\ store \in Store /\ Here.store = store /\ Here.dict = dict /\ Here.ok
      /\ \A K : K \subseteq Present(store) => Keeps(Here, K)
  BY <1>6, HereIs
<1>8. k # 0 => store.queue[k].body \in gone
  BY <1>3
<1>9. p \in Int
  OBVIOUS
<1>10. ASSUME NEW K, K \subseteq Present(store)
       PROVE  /\ k # 0 => Taken(r, Here, K, store.queue[k])
              /\ k = 0 => r = Fail(Here)
  <2>1. Good(Here, K)
    BY <1>7, <1>10 DEF Keeps
  <2>2. \/ k # 0 /\ Taken(r, Here, K, store.queue[k])
        \/ k = 0 /\ r = Fail(Here)
    BY <1>2, <1>4, <1>7, <1>9, <1>10, <2>1, PopAtIs
  <2>3. QED
    BY <2>2
<1>11. Here \in Mem
  BY <1>7 DEF Keeps, Good
<1>12. r.ok <=> k # 0
  BY <1>7, <1>10, <1>11, OkIs DEF Taken
<1>13. r.ok => Keeps(r, (owed \ gone) \cap Present(store))
  BY <1>7, <1>8, <1>10, <1>12 DEF Taken, Keeps
<1>14. ~ r.ok => Keeps(r, owed \cap Present(store))
  BY <1>7, <1>10, <1>12, KeepsOk
<1>15. QED
  BY <1>5, <1>13, <1>14, WithdrawHolds

LEMMA RemoveItemsHolds == QInv /\ RemoveItems => QInv'
<1> SUFFICES ASSUME QInv, RemoveItems PROVE QInv'
  OBVIOUS
<1>1. PICK us \in Batches, ignoring \in BOOLEAN :
        Withdraw(PopBatch(Here, us, ignoring), Queued(ToSet(us)))
  BY DEF RemoveItems
<1>2. Idle
  BY <1>1 DEF Withdraw, Begin
<1>3. /\ store \in Store /\ Here.store = store /\ Here.dict = dict /\ Here.ok
      /\ \A K : K \subseteq Present(store) => Keeps(Here, K)
  BY <1>2, HereIs
<1>4. us \in Seq(Uid) /\ Len(us) \in Nat
  <2>1. dict \subseteq Item
    BY DEF QInv, Basics
  <2>2. us \in Seq(Uid)
    BY <2>1, BatchesAre
  <2>3. QED
    BY <2>2
<1>5. PICK gone : gone = Queued(ToSet(us))
  OBVIOUS
<1>6. PICK r : r = PopBatch(Here, us, ignoring)
  OBVIOUS
<1>7. \A x \in Here.dict :
         (\E i \in 1..Len(us) : us[i] = x.uid) /\ ~ IsRunning(Here, x.uid) => x.body \in gone
  <2>1. \A u : u \in ToSet(us) <=> \E i \in 1..Len(us) : us[i] = u
    BY <1>4, InQueue
  <2>2. QED
    BY <1>3, <1>5, <2>1 DEF Queued
<1>8. r = Fail(Here) \/ r = Retry(PopEach(Here, us))
  BY <1>6 DEF PopBatch
<1>9. ASSUME NEW K, K \subseteq Present(store), K \subseteq owed \ gone
      PROVE  Keeps(Retry(PopEach(Here, us)), K)
  <2>1. \A x \in Here.dict :
           (\E i \in 1..Len(us) : us[i] = x.uid) /\ ~ IsRunning(Here, x.uid) => x.body \notin K
    BY <1>7, <1>9
  <2>2. Keeps(Here, K)
    BY <1>3, <1>9
  <2>3. Keeps(PopEach(Here, us), K)
    BY <1>4, <2>1, <2>2, PopEachIs
  <2>4. QED
    BY <2>3, KeepsOk
<1>10. CASE r = Fail(Here)
  <2>1. Here \in Mem
    BY <1>3 DEF Keeps, Good
  <2>2. ~ r.ok
    BY <1>10, <2>1, OkIs
  <2>3. Keeps(r, owed \cap Present(store))
    BY <1>3, <1>10, KeepsOk
  <2>4. Withdraw(r, gone)
    BY <1>1, <1>5, <1>6
  <2>5. QED
    BY <2>2, <2>3, <2>4, WithdrawHolds
<1>11. CASE r = Retry(PopEach(Here, us))
  <2>1. Keeps(r, (owed \ gone) \cap Present(store))
    BY <1>9, <1>11
  <2>2. r.ok
    <3>1. Keeps(Retry(PopEach(Here, us)), {}) /\ Keeps(Here, {})
      BY <1>3, <1>9
    <3>2. \A x \in Here.dict :
             (\E i \in 1..Len(us) : us[i] = x.uid) /\ ~ IsRunning(Here, x.uid) => x.body \notin {}
      OBVIOUS
    <3>3. Keeps(PopEach(Here, us), {})
      BY <1>4, <3>1, <3>2, PopEachIs
    <3>4. PopEach(Here, us) \in Mem
      BY <3>3 DEF Keeps, Good
    <3>5. QED
      BY <1>11, <3>4, OkIs
  <2>3. Withdraw(r, gone)
    BY <1>1, <1>5, <1>6
  <2>4. QED
    BY <2>1, <2>2, <2>3, WithdrawHolds
<1>12. QED
  BY <1>8, <1>10, <1>11

LEMMA UpdateItemHolds ==
    ASSUME Risks = {}, QInv, UpdateItem
    PROVE  QInv'
<1>1. PICK u \in KnownUids, b \in NewBody, v \in Uid :
        /\ v = u \/ v \in NewUid
        /\ v = u => "update" \in Risks \/ kills = MaxKills
        /\ LET r == Replace(Here, u, Item1(v, b))
           IN  Begin(r, owed, IF r.ok THEN (owed \ {Known(Here, u).body}) \cup {b} ELSE owed)
  BY DEF UpdateItem
<1>2. v = u => ~ Mortal
  <2>1. v = u => kills = MaxKills
    BY <1>1
  <2>2. kills \in Nat /\ MaxKills \in Nat
    BY Bounds DEF QInv, Basics
  <2>3. QED
    BY <2>1, <2>2 DEF Mortal
<1>3. PICK x \in Item : x = Item1(v, b) /\ x.uid = v /\ x.body = b /\ ~ x.now
  BY ItemIs DEF NewBody
<1>4. PICK r : r = Replace(Here, u, x)
  OBVIOUS
<1>5. Begin(r, owed, IF r.ok THEN (owed \ {Known(Here, u).body}) \cup {b} ELSE owed)
  BY <1>1, <1>3, <1>4
<1>6. Idle
  BY <1>5 DEF Begin
<1>7. /\ store \in Store /\ Here.store = store /\ Here.dict = dict /\ Here.ok
      /\ Keeps(Here, owed \cap Present(store))
  BY <1>6, HereIs
<1>8. \/ r = Fail(Here)
      \/ /\ Good(r, owed \cap Present(store)) /\ r.ok
         /\ (Present(store) \ {Known(Here, u).body}) \cup {b} \subseteq Present(r.store)
  <2>1. CASE IsRunning(Here, v)
    <3>1. v = u
      BY <1>1, <1>7, <2>1, FreshIs
    <3>2. QED
      BY <1>4, <2>1, <3>1 DEF Replace
  <2>2. CASE ~ IsRunning(Here, v)
    BY <1>2, <1>3, <1>4, <1>7, <2>2, ReplaceIs
  <2>3. QED
    BY <2>1, <2>2
<1>9. CASE r = Fail(Here)
  <2>1. Here \in Mem
    BY <1>7 DEF Keeps, Good
  <2>2. ~ r.ok /\ Keeps(r, owed \cap Present(store))
    BY <1>7, <1>9, <2>1, OkIs, KeepsOk
  <2>3. Begin(r, owed, owed)
    BY <1>5, <2>2
  <2>4. QED
    BY <2>2, <2>3, SameKeeps
<1>10. CASE ~ (r = Fail(Here))
  <2>1. PICK then : then = (owed \ {Known(Here, u).body}) \cup {b}
    OBVIOUS
  <2>2. Begin(r, owed, then)
    BY <1>5, <1>8, <1>10, <2>1
  <2>3. owed \subseteq Body /\ IsFiniteSet(owed) /\ b \in Body
    BY DEF QInv, Basics, NewBody
  <2>4. then \subseteq Body
    BY <2>1, <2>3
  <2>5. IsFiniteSet(then)
    <3>1. IsFiniteSet(owed \ {Known(Here, u).body})
      BY <2>3, FS_Subset
    <3>2. QED
      BY <2>1, <3>1, FS_AddElement
  <2>6. then \ Present(r.store) \subseteq owed \ Present(store)
    BY <1>8, <1>10, <2>1
  <2>7. Good(r, owed \cap Present(store))
    BY <1>8, <1>10
  <2>8. QED
    BY <2>2, <2>4, <2>5, <2>6, <2>7, BeginKeeps
<1>11. QED
  BY <1>9, <1>10

LEMMA MovesHold == QInv /\ (MoveItem \/ MoveItems) => QInv'
<1>1. ASSUME QInv, NEW r, Keep(r), \A K : Keeps(Here, K) => Keeps(r, K) PROVE QInv'
  <2>1. Idle
    BY <1>1 DEF Keep, Begin
  <2>2. Keeps(Here, owed \cap Present(store))
    BY <1>1, <2>1, HereIs
  <2>3. QED
    BY <1>1, <2>2, KeepHolds
<1>2. ASSUME QInv, MoveItem PROVE QInv'
  <2>1. PICK u \in KnownUids, p \in Places : Keep(MoveTo(Here, u, p))
    BY <1>2 DEF MoveItem
  <2>2. Idle
    BY <2>1 DEF Keep, Begin
  <2>3. Here.ok
    BY <1>2, <2>2, HereIs
  <2>4. p.pos \in Int
    BY PlacesAre
  <2>5. \A K : Keeps(Here, K) => Keeps(MoveTo(Here, u, p), K)
    BY <2>3, <2>4, MoveToIs
  <2>6. QED
    BY <1>1, <1>2, <2>1, <2>5
<1>3. ASSUME QInv, MoveItems PROVE QInv'
  <2>1. PICK us \in Batches, p \in Places, reorder \in BOOLEAN :
           Keep(MoveBatch(Here, us, p, reorder))
    BY <1>3 DEF MoveItems
  <2>2. us \in Seq(Uid)
    BY <1>3, BatchesAre DEF QInv, Basics
  <2>3. p.pos \in Int
    BY PlacesAre
  <2>4. \A K : Keeps(Here, K) => Keeps(MoveBatch(Here, us, p, reorder), K)
    BY <2>2, <2>3, MoveBatchIs
  <2>5. QED
    BY <1>1, <1>3, <2>1, <2>4
<1>4. QED
  BY <1>2, <1>3

LEMMA ClearQueueHolds ==
    ASSUME Risks = {}, QInv, ClearQueue
    PROVE  QInv'
<1>1. PICK gone : gone = {store.queue[i].body : i \in DOMAIN store.queue}
  OBVIOUS
<1>2. Withdraw(Clear(Here), gone)
  BY <1>1 DEF ClearQueue
<1>3. Idle
  BY <1>2 DEF Withdraw, Begin
<1>4. /\ store \in Store /\ Here.store = store /\ Here.dict = dict /\ Here.ok
      /\ \A K : K \subseteq Present(store) => Keeps(Here, K)
  BY <1>3, HereIs
<1>5. store.running # NoItem => ~ store.running.now
  <2>1. store.running # NoItem /\ store.running.now => "clear" \in Risks
    BY DEF ClearQueue
  <2>2. QED
    BY <2>1
<1>6. \A y \in ToSet(store.queue) : y.body \in gone
  BY <1>1 DEF ToSet
<1>7. ASSUME NEW K, K \subseteq (owed \ gone) \cap Present(store)
      PROVE  Keeps(Clear(Here), K) /\ Clear(Here).ok
  <2>1. Keeps(Here, K) /\ Good(Here, K)
    BY <1>4, <1>7 DEF Keeps
  <2>2. \A b \in K : b \in Present(Here.store) /\ \A y \in ToSet(Here.store.queue) : y.body # b
    BY <1>4, <1>6, <1>7
  <2>3. QED
    BY <1>4, <1>5, <2>1, <2>2, ClearIs
<1>8. QED
  BY <1>2, <1>7, WithdrawHolds

LEMMA ShortenHistoryHolds == QInv /\ ShortenHistory => QInv'
<1> SUFFICES ASSUME QInv, ShortenHistory PROVE QInv'
  OBVIOUS
<1>1. PICK keep \in 0..MaxHistory :
         LET r == TrimHistory(Here, keep)
         IN  Withdraw(r, ToSet(store.history) \ Present(r.store))
  BY DEF ShortenHistory
<1>2. PICK r : r = TrimHistory(Here, keep)
  OBVIOUS
<1>3. PICK gone : gone = ToSet(store.history) \ Present(r.store)
  OBVIOUS
<1>4. Withdraw(r, gone)
  BY <1>1, <1>2, <1>3
<1>5. Idle /\ keep \in Nat
  BY <1>4, Bounds DEF Withdraw, Begin
<1>6. /\ store \in Store /\ Here.store = store /\ Here.dict = dict /\ Here.ok
      /\ \A K : K \subseteq Present(store) => Keeps(Here, K)
  BY <1>5, HereIs
<1>7. /\ r.store \in Store /\ r.store.queue = store.queue /\ r.store.running = store.running
      /\ Good(r, {}) /\ r.ok
  <2>1. Good(Here, {}) /\ {} \subseteq Present(r.store)
    BY <1>6 DEF Keeps
  <2>2. Good(r, {}) /\ r.ok
    BY <1>2, <1>5, <1>6, <2>1, TrimHistoryIs
  <2>3. Here \in Mem /\ r.store \in Store
    BY <2>1, <2>2 DEF Good, Mem
  <2>4. CASE r = Here
    BY <1>6, <2>2, <2>3, <2>4
  <2>5. CASE \E h \in Seq(Body) : r = Put(Here, [store EXCEPT !.history = h])
    <3>1. PICK h \in Seq(Body) : r = Put(Here, [store EXCEPT !.history = h])
      BY <2>5
    <3>2. PICK s \in Store : /\ s = [store EXCEPT !.history = h]
                             /\ s.queue = store.queue /\ s.running = store.running
      <4>1. PICK was \in Store : was = store
        BY <1>6
      <4>2. /\ [was EXCEPT !.history = h] \in Store
            /\ [was EXCEPT !.history = h].queue = was.queue
            /\ [was EXCEPT !.history = h].running = was.running
        BY DEF Store
      <4>3. QED
        BY <4>1, <4>2
    <3>3. r.store = s
      BY <2>3, <3>1, <3>2, PutIs
    <3>4. QED
      BY <2>2, <2>3, <3>2, <3>3
  <2>6. r = Here \/ \E h \in Seq(Body) : r = Put(Here, [store EXCEPT !.history = h])
    <3>1. PICK h \in Seq(Body) : h = store.history
      BY <1>6, StoreFields
    <3>2. CASE keep >= Len(h)
      BY <1>2, <1>6, <3>1, <3>2 DEF TrimHistory
    <3>3. CASE ~ (keep >= Len(h))
      <4>1. Len(h) \in Nat /\ Len(h) - keep + 1 \in 1..(Len(h) + 1)
        BY <1>5, <3>3
      <4>2. SubSeq(h, Len(h) - keep + 1, Len(h)) \in Seq(Body)
        BY <4>1, SubSeqProperties
      <4>3. r = Put(Here, [store EXCEPT !.history = SubSeq(h, Len(h) - keep + 1, Len(h))])
        BY <1>2, <1>6, <3>1, <3>3 DEF TrimHistory
      <4>4. QED
        BY <4>2, <4>3
    <3>4. QED
      BY <3>2, <3>3
  <2>7. QED
    BY <2>4, <2>5, <2>6
<1>8. (owed \ gone) \cap Present(store) \subseteq Present(r.store)
  <2> SUFFICES ASSUME NEW b \in (owed \ gone) \cap Present(store) PROVE b \in Present(r.store)
    OBVIOUS
  <2>1. \/ \E y \in ToSet(store.queue) : y.body = b
        \/ b \in ToSet(store.history)
        \/ store.running # NoItem /\ store.running.body = b
    BY <1>6, PresentIs
  <2>2. CASE b \in ToSet(store.history)
    BY <1>3, <2>2
  <2>3. CASE \/ \E y \in ToSet(store.queue) : y.body = b
             \/ store.running # NoItem /\ store.running.body = b
    BY <1>7, <2>3, PresentIs
  <2>4. QED
    BY <2>1, <2>2, <2>3
<1>9. Keeps(r, (owed \ gone) \cap Present(store))
  <2>1. Good(Here, (owed \ gone) \cap Present(store))
    BY <1>6 DEF Keeps
  <2>2. Good(r, (owed \ gone) \cap Present(store))
    BY <1>2, <1>5, <1>8, <2>1, TrimHistoryIs
  <2>3. QED
    BY <1>8, <2>2 DEF Keeps
<1>10. QED
  BY <1>4, <1>7, <1>9, WithdrawHolds

LEMMA StartNextHolds == QInv /\ StartNext => QInv'
<1> SUFFICES ASSUME QInv, StartNext PROVE QInv'
  OBVIOUS
<1>1. store.queue # <<>> /\ store.running = NoItem
  BY DEF StartNext
<1>2. PICK u \in NewUid :
         Begin(ProcessNext(Here, loop, u), owed,
               IF loop THEN owed ELSE owed \ ({store.queue[1].body} \cap Instruction))
  BY DEF StartNext
<1>3. PICK r : r = ProcessNext(Here, loop, u)
  OBVIOUS
<1>4. PICK then : then = IF loop THEN owed ELSE owed \ ({store.queue[1].body} \cap Instruction)
  OBVIOUS
<1>5. Begin(r, owed, then)
  BY <1>2, <1>3, <1>4
<1>6. Idle
  BY <1>5 DEF Begin
<1>7. /\ store \in Store /\ Here.store = store /\ Here.dict = dict /\ Here.ok
      /\ Keeps(Here, owed \cap Present(store))
  BY <1>6, HereIs
<1>8. loop \in BOOLEAN /\ owed \subseteq Body /\ IsFiniteSet(owed)
  BY DEF QInv, Basics
<1>9. u \in Uid /\ ~ InDict(Here, u)
  BY <1>7, FreshIs
<1>10. /\ Good(r, owed \cap Present(store))
       /\ owed \cap Present(store) \subseteq Present(r.store) \cup {store.queue[1].body}
       /\ loop \/ store.queue[1].body \notin Instruction
            => owed \cap Present(store) \subseteq Present(r.store)
  BY <1>1, <1>3, <1>7, <1>8, <1>9, ProcessNextIs
<1>11. then \subseteq owed
  BY <1>4
<1>12. then \subseteq Body /\ IsFiniteSet(then)
  BY <1>8, <1>11, FS_Subset
<1>13. then \cap Present(store) \subseteq Present(r.store)
  <2>1. CASE loop \/ store.queue[1].body \notin Instruction
    BY <1>10, <1>11, <2>1
  <2>2. CASE ~ loop /\ store.queue[1].body \in Instruction
    <3>1. store.queue[1].body \notin then
      BY <1>4, <2>2
    <3>2. QED
      BY <1>10, <1>11, <3>1
  <2>3. QED
    BY <2>1, <2>2
<1>14. then \ Present(r.store) \subseteq owed \ Present(store)
  BY <1>11, <1>13
<1>15. QED
  BY <1>5, <1>10, <1>12, <1>14, BeginKeeps

LEMMA ExecuteNowHolds ==
    ASSUME Risks = {}, QInv, ExecuteNow
    PROVE  QInv'
<1>1. PICK u \in NewUid, b \in Plan : Keep(RunNow(Here, [Item1(u, b) EXCEPT !.now = TRUE]))
  BY DEF ExecuteNow
<1>2. store.running = NoItem
  BY DEF ExecuteNow
<1>3. ~ Mortal
  <2>1. "ghost" \in Risks \/ kills = MaxKills
    BY DEF ExecuteNow
  <2>2. kills = MaxKills
    BY <2>1
  <2>3. kills \in Nat /\ MaxKills \in Nat
    BY Bounds DEF QInv, Basics
  <2>4. QED
    BY <2>2, <2>3 DEF Mortal
<1>4. Idle
  BY <1>1 DEF Keep, Begin
<1>5. /\ store \in Store /\ Here.store = store /\ Here.dict = dict /\ Here.ok
      /\ Keeps(Here, owed \cap Present(store))
  BY <1>4, HereIs
<1>6. u \in Uid /\ b \in Body /\ \A y \in ToSet(store.queue) : y.uid # u
  BY <1>5, FreshIs DEF Plan
<1>7. PICK x \in Item : x = [Item1(u, b) EXCEPT !.now = TRUE] /\ x.uid = u /\ x.now
  <2>1. PICK y \in Item : y = Item1(u, b) /\ y.uid = u
    BY <1>6, ItemIs
  <2>2. PICK yes \in BOOLEAN : yes = TRUE
    OBVIOUS
  <2>3. [y EXCEPT !.now = yes] \in Item /\ [y EXCEPT !.now = yes].uid = u /\ [y EXCEPT !.now = yes].now = yes
    BY <2>1 DEF Item
  <2>4. QED
    BY <2>1, <2>2, <2>3
<1>8. Keeps(RunNow(Here, x), owed \cap Present(store))
  <2>1. /\ Here.store.running = NoItem /\ x.now
        /\ \A y \in ToSet(Here.store.queue) : y.uid # x.uid
    BY <1>2, <1>5, <1>6, <1>7
  <2>2. QED
    BY <1>3, <1>5, <2>1, RunNowIs
<1>9. QED
  BY <1>1, <1>7, <1>8, KeepHolds

LEMMA EndsHold == QInv /\ (PlanDone \/ PlanStopped) => QInv'
<1>1. ASSUME QInv, store.running # NoItem, NEW u \in NewUid, NEW r, Keep(r),
             r = Completed(Here, loop, u) \/ r = Stopped(Here, u)
      PROVE  QInv'
  <2>1. Idle
    BY <1>1 DEF Keep, Begin
  <2>2. /\ store \in Store /\ Here.store = store /\ Here.dict = dict /\ Here.ok
        /\ Keeps(Here, owed \cap Present(store))
    BY <1>1, <2>1, HereIs
  <2>3. u \in Uid /\ ~ InDict(Here, u) /\ ~ IsRunning(Here, u) /\ loop \in BOOLEAN
    BY <1>1, <2>2, FreshIs DEF QInv, Basics
  <2>4. Keeps(Completed(Here, loop, u), owed \cap Present(store))
    BY <1>1, <2>2, <2>3, CompletedIs
  <2>5. Keeps(Stopped(Here, u), owed \cap Present(store))
    BY <1>1, <2>2, <2>3, StoppedIs
  <2>6. QED
    BY <1>1, <2>4, <2>5, KeepHolds
<1>2. QED
  BY <1>1 DEF PlanDone, PlanStopped

LEMMA SetLoopModeHolds == QInv /\ SetLoopMode => QInv'
<1> SUFFICES ASSUME QInv, SetLoopMode PROVE QInv'
  OBVIOUS
<1>1. /\ store' = store /\ dict' = dict /\ size' = size /\ up' = up /\ job' = job
      /\ owed' = owed /\ kills' = kills /\ loop' \in BOOLEAN
  BY DEF SetLoopMode
<1>2. Basics'
  BY <1>1 DEF QInv, Basics
<1>3. QED
  BY <1>1, <1>2 DEF QInv

LEMMA StutterHolds == QInv /\ UNCHANGED vars => QInv'
<1> SUFFICES ASSUME QInv, UNCHANGED vars PROVE QInv'
  OBVIOUS
<1>1. /\ store' = store /\ dict' = dict /\ size' = size /\ up' = up /\ job' = job
      /\ owed' = owed /\ kills' = kills /\ loop' = loop
  BY DEF vars
<1>2. Basics'
  BY <1>1 DEF QInv, Basics
<1>3. QED
  BY <1>1, <1>2 DEF QInv

LEMMA NextHolds ==
    ASSUME Risks = {}
    PROVE  QInv /\ [Next]_vars => QInv'
<1> SUFFICES ASSUME QInv, [Next]_vars PROVE QInv'
  OBVIOUS
<1>1. CASE Continue
  BY <1>1, ContinueHolds
<1>2. CASE AddItem \/ AddItems
  BY <1>2, AddItemHolds, AddItemsHolds
<1>3. CASE RemoveByUid \/ RemoveAtPos \/ RemoveItems
  BY <1>3, RemoveByUidHolds, RemoveAtPosHolds, RemoveItemsHolds
<1>4. CASE UpdateItem
  BY <1>4, UpdateItemHolds
<1>5. CASE MoveItem \/ MoveItems
  BY <1>5, MovesHold
<1>6. CASE ClearQueue
  BY <1>6, ClearQueueHolds
<1>7. CASE SetLoopMode
  BY <1>7, SetLoopModeHolds
<1>8. CASE ShortenHistory
  BY <1>8, ShortenHistoryHolds
<1>9. CASE StartNext
  BY <1>9, StartNextHolds
<1>10. CASE ExecuteNow
  BY <1>10, ExecuteNowHolds
<1>11. CASE PlanDone \/ PlanStopped
  BY <1>11, EndsHold
<1>12. CASE Kill
  BY <1>12, KillHolds
<1>13. CASE Start
  BY <1>13, StartHolds
<1>14. CASE UNCHANGED vars
  BY <1>14, StutterHolds
<1>15. QED
  BY <1>1, <1>2, <1>3, <1>4, <1>5, <1>6, <1>7, <1>8, <1>9, <1>10, <1>11, <1>12, <1>13, <1>14
     DEF Next

(* What is sound can be loaded: distinct items have distinct uids.         *)
LEMMA SoundIsLoadable ==
    ASSUME NEW s \in Store, Sound(s)
    PROVE  Loadable(s)
<1>1. PICK q \in Seq(Item) : q = s.queue
  BY StoreFields
<1>2. Len(q) \in Nat /\ DOMAIN q = 1..Len(q)
  OBVIOUS
<1>3. PICK f : f = [i \in 1..Len(q) |-> q[i].uid]
  OBVIOUS
<1>4. \A u : u \in Uids(q) <=> \E i \in 1..Len(q) : q[i].uid = u
  BY <1>2 DEF Uids
<1>5. \A i, j \in 1..Len(q) : q[i].uid = q[j].uid => i = j
  BY <1>1 DEF Sound, Distinct
<1>6. f \in Bijection(1..Len(q), Uids(q))
  <2>1. f \in [1..Len(q) -> Uids(q)] /\ \A i \in 1..Len(q) : f[i] = q[i].uid
    BY <1>3, <1>4
  <2>2. \A i, j \in 1..Len(q) : f[i] = f[j] => i = j
    BY <1>5, <2>1
  <2>3. \A u \in Uids(q) : \E i \in 1..Len(q) : f[i] = u
    BY <1>4, <2>1
  <2>4. QED
    BY <2>1, <2>2, <2>3 DEF Bijection, Injection, Surjection, IsInjective
<1>7. IsFiniteSet(1..Len(q)) /\ Cardinality(1..Len(q)) = Len(q)
  BY <1>2, FS_Interval
<1>8. Cardinality(Uids(q)) = Len(q)
  BY <1>6, <1>7, FS_Bijection DEF ExistsBijection
<1>9. s.running # NoItem => s.running.uid \notin Uids(q)
  <2> SUFFICES ASSUME s.running # NoItem PROVE s.running.uid \notin Uids(q)
    OBVIOUS
  <2>1. \A y \in ToSet(q) : y.uid # s.running.uid
    BY <1>1 DEF Sound
  <2>2. \A i \in 1..Len(q) : q[i] \in ToSet(q)
    BY InQueue
  <2>3. QED
    BY <1>4, <2>1, <2>2
<1>10. QED
  BY <1>1, <1>8, <1>9 DEF Loadable

LEMMA WhatItGives == QInv => TypeOK /\ MemoryMirrorsStore /\ NothingLost /\ QueueRestarts
<1> SUFFICES ASSUME QInv PROVE TypeOK /\ MemoryMirrorsStore /\ NothingLost /\ QueueRestarts
  OBVIOUS
<1>1. store \in Store
  BY DEF QInv, Basics
<1>2. TypeOK
  <2>1. ~ up => job = NoJob
    BY DEF QInv
  <2>2. store.queue \in Seq(Item) /\ store.running \in Item \cup {NoItem} /\ store.history \in Seq(Body)
    BY <1>1, StoreFields
  <2>3. QED
    BY <2>1, <2>2 DEF QInv, Basics, TypeOK
<1>3. ASSUME Idle PROVE Settled(store, dict, size, owed, kills)
  BY <1>3, HereIs
<1>4. MemoryMirrorsStore
  BY <1>1, <1>3, WaitingIs DEF MemoryMirrorsStore, Settled
<1>5. NothingLost
  BY <1>3 DEF NothingLost, Settled
<1>6. QueueRestarts
  BY <1>1, SoundIsLoadable DEF QueueRestarts, QInv, Restartable
<1>7. QED
  BY <1>2, <1>4, <1>5, <1>6

(* The invariant of the queue, for any number of uids, bodies, entries,    *)
(* positions and kills (plan_queue_ops.py, queue_store.py).                *)
THEOREM QueueHolds ==
    ASSUME Risks = {}
    PROVE  Spec => []QInv
<1>1. Init => QInv
  BY InitHolds
<1>2. QInv /\ [Next]_vars => QInv'
  BY NextHolds
<1>3. QED
  BY <1>1, <1>2, PTL DEF Spec

(* The types: _queue_size is never the -1 of a failed list_insert.         *)
THEOREM QueueTyped ==
    ASSUME Risks = {}
    PROVE  Spec => []TypeOK
<1>1. QInv => TypeOK
  BY WhatItGives
<1>2. QED
  BY <1>1, QueueHolds, PTL

(* Between two operations _uid_dict and _queue_size mirror the store,      *)
(* whatever was edited, executed or interrupted by a kill before.          *)
THEOREM MemoryHolds ==
    ASSUME Risks = {}
    PROVE  Spec => []MemoryMirrorsStore
<1>1. QInv => MemoryMirrorsStore
  BY WhatItGives
<1>2. QED
  BY <1>1, QueueHolds, PTL

(* A kill of the manager costs at most one of the items submitted and not  *)
(* withdrawn; without kills each is in the queue, running or in the history. *)
THEOREM NothingIsLost ==
    ASSUME Risks = {}
    PROVE  Spec => []NothingLost
<1>1. QInv => NothingLost
  BY WhatItGives
<1>2. QED
  BY <1>1, QueueHolds, PTL

(* Wherever the manager is killed, start() can load what the store holds.  *)
THEOREM RestartHolds ==
    ASSUME Risks = {}
    PROVE  Spec => []QueueRestarts
<1>1. QInv => QueueRestarts
  BY WhatItGives
<1>2. QED
  BY <1>1, QueueHolds, PTL

=============================================================================
