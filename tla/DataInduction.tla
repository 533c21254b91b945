----------------------------- MODULE DataInduction -----------------------------
(***************************************************************************)
(* Induction over numbers and sequences for the proofs about file images.  *)
(* The induction theorems of the library have a predicate for a parameter, *)
(* which no installed prover instantiates; here the set of the numbers     *)
(* that have the property takes its place, so that each use is first order. *)
(***************************************************************************)
EXTENDS Naturals, Sequences, SequencesExt, FiniteSets, WellFoundedInduction,
        SequenceTheorems, TLAPS

\* Every set of natural numbers has a least element.
LEMMA LeastElement ==
    ASSUME NEW T, T \subseteq Nat, T # {}
    PROVE  \E n \in T : \A m \in T : n <= m
  <1> DEFINE R == OpToRel(<, Nat)
  <1>1. IsWellFoundedOn(R, Nat)
    BY NatLessThanWellFounded
  <1>2. \E x \in T : \A y \in T : ~(<<y, x>> \in R)
    <2> HIDE DEF R
    <2> QED
      BY <1>1, WFMin
  <1>3. \A x, y \in Nat : x < y => <<x, y>> \in R
    BY DEF OpToRel
  <1> HIDE DEF R
  <1>4. PICK x \in T : \A y \in T : ~(<<y, x>> \in R)
    BY <1>2
  <1>5. \A y \in T : ~(y < x)
    BY <1>3, <1>4
  <1>6. QED
    BY <1>5

\* Induction from 1 to n.
LEMMA UpTo ==
    ASSUME NEW n \in Nat, NEW S,
           n > 0 => 1 \in S,
           \A k \in 1 .. n - 1 : k \in S => k + 1 \in S
    PROVE  1 .. n \subseteq S
  <1> DEFINE T == {k \in 1 .. n : k \notin S}
  <1> SUFFICES ASSUME T # {} PROVE FALSE
    OBVIOUS
  <1>1. PICK k \in T : \A m \in T : k <= m
    <2>1. T \subseteq Nat
      OBVIOUS
    <2> HIDE DEF T
    <2>2. QED
      BY <2>1, LeastElement
  <1>2. k # 1
    BY <1>1
  <1>3. k - 1 \in 1 .. n - 1 /\ k - 1 \notin T
    BY <1>1, <1>2
  <1>4. k - 1 \in S
    BY <1>3
  <1>5. (k - 1) + 1 \in S
    BY <1>3, <1>4
  <1>6. QED
    BY <1>1, <1>5

\* The greatest element of a set of indices.
LEMMA MaxIndex ==
    ASSUME NEW n \in Nat, NEW I, I \subseteq 1 .. n, I # {}
    PROVE  Max(I) \in I /\ \A i \in I : i <= Max(I)
  <1> DEFINE T == {k \in 0 .. n : \A i \in I : i <= k}
  <1>1. PICK k \in T : \A m \in T : k <= m
    <2>1. T \subseteq Nat /\ n \in T
      OBVIOUS
    <2> HIDE DEF T
    <2>2. QED
      BY <2>1, LeastElement
  <1>2. k \in I
    <2> SUFFICES ASSUME k \notin I PROVE FALSE
      OBVIOUS
    <2>1. \A i \in I : i <= k - 1
      BY <1>1
    <2>2. PICK i \in I : TRUE
      OBVIOUS
    <2>3. i \in 1 .. n /\ i <= k
      BY <1>1
    <2>4. k - 1 \in T
      BY <2>1, <2>3
    <2>5. QED
      BY <1>1, <2>4
  <1>3. \A i \in I : i <= k
    BY <1>1
  <1>4. \E x \in I : \A y \in I : x >= y
    BY <1>2, <1>3
  <1>5. QED
    BY <1>4 DEF Max

\* The least element of a set of indices.
LEMMA MinIndex ==
    ASSUME NEW I, I \subseteq Nat, I # {}
    PROVE  Min(I) \in I /\ \A i \in I : Min(I) <= i
  <1>1. \E x \in I : \A y \in I : x <= y
    BY LeastElement
  <1>2. QED
    BY <1>1 DEF Min

\* Positions that begin at base and advance by the lengths of the parts, one
\* after the other.
Consecutive(at, base, parts) ==
    \A i \in 1 .. Len(parts) :
        at[i] = IF i = 1 THEN base ELSE at[i - 1] + Len(parts[i - 1])

\* Such positions grow, and no part reaches past where the next one begins.
LEMMA ConsecutiveGrows ==
    ASSUME NEW S, NEW parts \in Seq(Seq(S)), NEW at, NEW base \in Nat,
           Consecutive(at, base, parts)
    PROVE  /\ \A i \in 1 .. Len(parts) : at[i] \in Nat /\ base <= at[i]
           /\ \A i, j \in 1 .. Len(parts) : i < j => at[i] + Len(parts[i]) <= at[j]
  <1> DEFINE n == Len(parts)
             Good == {j \in 1 .. n : \A i \in 1 .. j : /\ at[i] \in Nat /\ base <= at[i]
                                                       /\ i < j => at[i] + Len(parts[i]) <= at[j]}
  <1>1. n \in Nat /\ \A i \in 1 .. n : parts[i] \in Seq(S) /\ Len(parts[i]) \in Nat
    OBVIOUS
  <1>2. n > 0 => 1 \in Good
    BY <1>1 DEF Consecutive
  <1>3. \A k \in 1 .. n - 1 : k \in Good => k + 1 \in Good
    <2> SUFFICES ASSUME NEW k \in 1 .. n - 1, k \in Good PROVE k + 1 \in Good
      OBVIOUS
    <2>1. k \in 1 .. n /\ k + 1 \in 1 .. n /\ k + 1 # 1 /\ (k + 1) - 1 = k
      BY <1>1
    <2>2. at[k + 1] = at[k] + Len(parts[k])
      BY <2>1 DEF Consecutive
    <2>3. \A i \in 1 .. k : /\ at[i] \in Nat /\ base <= at[i]
                            /\ i < k => at[i] + Len(parts[i]) <= at[k]
      OBVIOUS
    <2>4. at[k + 1] \in Nat /\ base <= at[k + 1] /\ at[k] <= at[k + 1]
      BY <1>1, <2>1, <2>2, <2>3
    <2>5. ASSUME NEW i \in 1 .. k + 1
          PROVE  /\ at[i] \in Nat /\ base <= at[i]
                 /\ i < k + 1 => at[i] + Len(parts[i]) <= at[k + 1]
      <3>1. CASE i = k + 1
        BY <2>4, <3>1
      <3>2. CASE i = k
        BY <1>1, <2>1, <2>2, <2>3, <2>4, <3>2
      <3>3. CASE i < k
        <4>1. i \in 1 .. k /\ i \in 1 .. n /\ k \in 1 .. k
          BY <2>1, <3>3
        <4>2. at[i] + Len(parts[i]) <= at[k] /\ at[i] \in Nat /\ at[k] \in Nat /\ base <= at[i]
          BY <2>3, <3>3, <4>1
        <4>3. Len(parts[i]) \in Nat
          BY <1>1, <4>1
        <4>4. QED
          BY <2>4, <4>2, <4>3, SMTT(60)
      <3>4. QED
        BY <1>1, <2>5, <3>1, <3>2, <3>3
    <2>6. QED
      BY <2>1, <2>5
  <1> HIDE DEF Good
  <1>4. 1 .. n \subseteq Good
    BY <1>1, <1>2, <1>3, UpTo
  <1>5. \A j \in 1 .. n : \A i \in 1 .. j : /\ at[i] \in Nat /\ base <= at[i]
                                            /\ i < j => at[i] + Len(parts[i]) <= at[j]
    BY <1>4 DEF Good
  <1>6. QED
    BY <1>1, <1>5

\* The recursive function in FlattenSeq exists.
LEMMA FlattenExists ==
    ASSUME NEW parts, NEW n \in Nat, n > 0
    PROVE  \E g : g = [i \in 1 .. n |-> IF i = 1 THEN parts[i] ELSE g[i - 1] \o parts[i]]
  <1> DEFINE Fn(g, k) == g = [i \in 1 .. k |-> IF i = 1 THEN parts[i] ELSE g[i - 1] \o parts[i]]
             Good == {k \in 1 .. n : \E g : Fn(g, k)}
  <1>1. n > 0 => 1 \in Good
    <2>1. Fn([i \in 1 .. 1 |-> parts[i]], 1)
      OBVIOUS
    <2> HIDE DEF Fn
    <2>2. QED
      BY <2>1
  <1>2. \A k \in 1 .. n - 1 : k \in Good => k + 1 \in Good
    <2> SUFFICES ASSUME NEW k \in 1 .. n - 1, NEW g, Fn(g, k)
                 PROVE  \E h : Fn(h, k + 1)
      <3> HIDE DEF Fn
      <3> QED
        OBVIOUS
    <2> DEFINE h == [i \in 1 .. k + 1 |-> IF i = k + 1 THEN g[k] \o parts[k + 1] ELSE g[i]]
    <2>1. \A i \in 1 .. k : g[i] = IF i = 1 THEN parts[i] ELSE g[i - 1] \o parts[i]
      OBVIOUS
    <2>2. ASSUME NEW i \in 1 .. k + 1
          PROVE  h[i] = IF i = 1 THEN parts[i] ELSE h[i - 1] \o parts[i]
      <3>1. CASE i = k + 1
        <4>1. i # 1 /\ i - 1 = k /\ k \in 1 .. k + 1 /\ k # k + 1
          BY <3>1
        <4>2. h[k] = g[k] /\ h[i] = g[k] \o parts[i]
          BY <3>1, <4>1
        <4>3. QED
          BY <4>1, <4>2
      <3>2. CASE i # k + 1
        <4>1. i \in 1 .. k /\ h[i] = g[i]
          BY <3>2
        <4>2. i # 1 => i - 1 \in 1 .. k /\ h[i - 1] = g[i - 1]
          BY <4>1
        <4>3. QED
          BY <2>1, <4>1, <4>2
      <3>3. QED
        BY <3>1, <3>2
    <2>3. DOMAIN h = 1 .. k + 1 /\ h = [i \in 1 .. k + 1 |-> h[i]]
      OBVIOUS
    <2> HIDE DEF h
    <2>4. Fn(h, k + 1)
      BY <2>2, <2>3
    <2> HIDE DEF Fn
    <2>5. QED
      BY <2>4
  <1> HIDE DEF Good
  <1>3. n \in Good
    BY <1>1, <1>2, UpTo
  <1>4. QED
    BY <1>3 DEF Good

\* Where the elements of two sequences are in the one made of both.
LEMMA Joined ==
    ASSUME NEW S, NEW s \in Seq(S), NEW t \in Seq(S)
    PROVE  /\ s \o t \in Seq(S)
           /\ Len(s \o t) = Len(s) + Len(t)
           /\ \A p \in 1 .. Len(s) : (s \o t)[p] = s[p]
           /\ \A p \in 1 .. Len(t) : (s \o t)[Len(s) + p] = t[p]
  <1>1. Len(s) \in Nat /\ Len(t) \in Nat
    OBVIOUS
  <1> DEFINE u == s \o t
  <1>2. /\ u \in Seq(S)
        /\ Len(u) = Len(s) + Len(t)
        /\ \A i \in 1 .. Len(s) + Len(t) :
              u[i] = IF i <= Len(s) THEN s[i] ELSE t[i - Len(s)]
    BY ConcatProperties
  <1> HIDE DEF u
  <1>3. \A p \in 1 .. Len(s) : u[p] = s[p]
    BY <1>1, <1>2
  <1>4. ASSUME NEW p \in 1 .. Len(t) PROVE u[Len(s) + p] = t[p]
    <2>1. Len(s) + p \in 1 .. Len(s) + Len(t) /\ ~(Len(s) + p <= Len(s)) /\ (Len(s) + p) - Len(s) = p
      BY <1>1
    <2>2. QED
      BY <1>2, <2>1
  <1>5. QED
    BY <1>2, <1>3, <1>4 DEF u

\* What FlattenSeq returns: the parts one after the other, each at its place.
LEMMA Flattened ==
    ASSUME NEW S, NEW parts \in Seq(Seq(S)), NEW at, NEW base \in Nat,
           Consecutive(at, base, parts)
    PROVE  /\ FlattenSeq(parts) \in Seq(S)
           /\ Len(parts) = 0 => Len(FlattenSeq(parts)) = 0
           /\ Len(parts) > 0 =>
                 Len(FlattenSeq(parts)) = at[Len(parts)] + Len(parts[Len(parts)]) - base
           /\ \A i \in 1 .. Len(parts) : \A m \in 1 .. Len(parts[i]) :
                  FlattenSeq(parts)[at[i] - base + m] = parts[i][m]
  <1> DEFINE n == Len(parts)
             fl == CHOOSE g : g = [i \in 1 .. n |-> IF i = 1 THEN parts[i] ELSE g[i - 1] \o parts[i]]
             Placed(k) ==
                 /\ fl[k] \in Seq(S)
                 /\ Len(fl[k]) = at[k] + Len(parts[k]) - base
                 /\ \A i \in 1 .. k : \A m \in 1 .. Len(parts[i]) :
                        fl[k][at[i] - base + m] = parts[i][m]
             Good == {k \in 1 .. n : Placed(k)}
  <1>1. n \in Nat /\ \A i \in 1 .. n : parts[i] \in Seq(S) /\ Len(parts[i]) \in Nat
    OBVIOUS
  <1>2. CASE n = 0
    <2>1. parts = <<>>
      BY <1>2
    <2>2. FlattenSeq(parts) = parts
      BY <1>2 DEF FlattenSeq
    <2>3. Len(<<>>) = 0 /\ <<>> \in Seq(S)
      OBVIOUS
    <2>4. 1 .. Len(parts) = {}
      BY <1>2
    <2>5. FlattenSeq(parts) \in Seq(S) /\ Len(FlattenSeq(parts)) = 0
      BY <2>1, <2>2, <2>3
    <2> HIDE DEF fl, Placed, Good
    <2>6. QED
      BY <1>2, <2>4, <2>5
  <1>3. CASE n > 0
    <2>1. FlattenSeq(parts) = fl[n]
      BY <1>3 DEF FlattenSeq
    <2>2. fl = [i \in 1 .. n |-> IF i = 1 THEN parts[i] ELSE fl[i - 1] \o parts[i]]
      <3>1. \E g : g = [i \in 1 .. n |-> IF i = 1 THEN parts[i] ELSE g[i - 1] \o parts[i]]
        BY <1>1, <1>3, FlattenExists
      <3>2. QED
        BY <3>1
    <2> HIDE DEF fl
    <2>3. Placed(1)
      <3>1. fl[1] = parts[1] /\ at[1] = base
        BY <1>1, <1>3, <2>2 DEF Consecutive
      <3>2. QED
        BY <1>1, <1>3, <3>1
    <2>4. ASSUME NEW k \in 1 .. n - 1, Placed(k) PROVE Placed(k + 1)
      <3>1. k \in 1 .. n /\ k + 1 \in 1 .. n /\ k + 1 # 1 /\ (k + 1) - 1 = k
        BY <1>1
      <3>2. fl[k + 1] = fl[k] \o parts[k + 1]
        BY <2>2, <3>1
      <3>3. at[k + 1] = at[k] + Len(parts[k])
        BY <3>1 DEF Consecutive
      <3>4. at[k] \in Nat /\ at[k + 1] \in Nat
        BY <3>1, ConsecutiveGrows
      <3>5. /\ fl[k] \in Seq(S) /\ parts[k + 1] \in Seq(S)
            /\ Len(fl[k]) = at[k + 1] - base
        BY <1>1, <2>4, <3>1, <3>3, <3>4, SMTT(60)
      <3>6. Len(fl[k]) \in Nat /\ Len(parts[k + 1]) \in Nat
        BY <3>5
      <3>7. \A i \in 1 .. k : \A m \in 1 .. Len(parts[i]) : fl[k][at[i] - base + m] = parts[i][m]
        BY <2>4
      <3> HIDE DEF Placed
      <3>8. /\ fl[k + 1] \in Seq(S)
            /\ Len(fl[k + 1]) = Len(fl[k]) + Len(parts[k + 1])
            /\ \A p \in 1 .. Len(fl[k]) : fl[k + 1][p] = fl[k][p]
            /\ \A p \in 1 .. Len(parts[k + 1]) : fl[k + 1][Len(fl[k]) + p] = parts[k + 1][p]
        <4> DEFINE s == fl[k]
                   t == parts[k + 1]
        <4>1. s \in Seq(S) /\ t \in Seq(S) /\ fl[k + 1] = s \o t
          BY <3>2, <3>5
        <4> HIDE DEF s, t
        <4>2. /\ s \o t \in Seq(S)
              /\ Len(s \o t) = Len(s) + Len(t)
              /\ \A p \in 1 .. Len(s) : (s \o t)[p] = s[p]
              /\ \A p \in 1 .. Len(t) : (s \o t)[Len(s) + p] = t[p]
          BY <4>1, Joined
        <4>3. QED
          BY <4>1, <4>2 DEF s, t
      <3>9. Len(fl[k + 1]) = at[k + 1] + Len(parts[k + 1]) - base
        BY <3>4, <3>5, <3>6, <3>8
      <3>10. ASSUME NEW i \in 1 .. k + 1, NEW m \in 1 .. Len(parts[i])
             PROVE  fl[k + 1][at[i] - base + m] = parts[i][m]
        <4>1. i \in 1 .. n /\ at[i] \in Nat /\ base <= at[i]
          BY <1>1, <3>1, ConsecutiveGrows
        <4>2. Len(parts[i]) \in Nat
          BY <1>1, <4>1
        <4>3. CASE i = k + 1
          <5>1. at[i] - base + m = Len(fl[k]) + m
            BY <3>4, <3>5, <4>1, <4>3
          <5>2. QED
            BY <3>8, <4>3, <5>1
        <4>4. CASE i # k + 1
          <5>1. i \in 1 .. k /\ i < k + 1
            BY <4>4
          <5>2. at[i] + Len(parts[i]) <= at[k + 1]
            BY <3>1, <4>1, <5>1, ConsecutiveGrows
          <5>3. at[i] - base + m \in 1 .. Len(fl[k])
            <6> DEFINE a == at[i]
                       b == at[k + 1]
                       l == Len(parts[i])
                       f == Len(fl[k])
            <6>1. a \in Nat /\ b \in Nat /\ l \in Nat /\ f \in Nat /\ m \in 1 .. l
                  /\ a + l <= b /\ f = b - base /\ base <= a
              BY <3>4, <3>5, <3>6, <4>1, <4>2, <5>2
            <6> HIDE DEF a, b, l, f
            <6>2. a - base + m \in 1 .. f
              BY <6>1
            <6>3. QED
              BY <6>2 DEF a, f
          <5>4. fl[k][at[i] - base + m] = parts[i][m]
            BY <3>7, <5>1
          <5>5. QED
            BY <3>8, <5>3, <5>4
        <4>5. QED
          BY <4>3, <4>4
      <3>11. QED
        BY <3>8, <3>9, <3>10 DEF Placed
    <2> HIDE DEF Placed
    <2>5. n > 0 => 1 \in Good
      BY <1>1, <2>3
    <2>6. \A k \in 1 .. n - 1 : k \in Good => k + 1 \in Good
      BY <1>1, <2>4
    <2>7. n \in Good
      <3> HIDE DEF Good
      <3>1. 1 .. n \subseteq Good
        BY <1>1, <2>5, <2>6, UpTo
      <3>2. QED
        BY <1>1, <1>3, <3>1
    <2>8. Placed(n)
      BY <2>7
    <2>9. QED
      BY <1>3, <2>1, <2>8 DEF Placed
  <1>4. QED
    BY <1>1, <1>2, <1>3

\* A sequence that is not empty is all but its last element and that element.
LEMMA FrontThenLast ==
    ASSUME NEW S, NEW s \in Seq(S), Len(s) > 0
    PROVE  /\ Front(s) \in Seq(S)
           /\ Len(Front(s)) = Len(s) - 1
           /\ \A p \in 1 .. Len(s) - 1 : Front(s)[p] = s[p]
           /\ s = Append(Front(s), Last(s))
  <1> DEFINE n == Len(s)
             t == Front(s)
             u == Append(t, s[n])
  <1>1. n \in Nat /\ n > 0 /\ 1 \in Int /\ n - 1 \in Int
    OBVIOUS
  <1>2. \A i \in 1 .. n : s[i] \in S
    BY ElementOfSeq
  <1> HIDE DEF n
  <1>3. \A i \in 1 .. n - 1 : s[i] \in S
    BY <1>1, <1>2
  <1>4. /\ SubSeq(s, 1, n - 1) \in Seq(S)
        /\ Len(SubSeq(s, 1, n - 1)) = IF 1 <= n - 1 THEN (n - 1) - 1 + 1 ELSE 0
        /\ \A i \in 1 .. (n - 1) - 1 + 1 : SubSeq(s, 1, n - 1)[i] = s[1 + i - 1]
    BY <1>1, <1>3, SubSeqProperties
  <1>5. t = SubSeq(s, 1, n - 1)
    BY DEF Front, n
  <1> HIDE DEF t
  <1>6. t \in Seq(S) /\ Len(t) = n - 1
    BY <1>1, <1>4, <1>5
  <1>7. ASSUME NEW p \in 1 .. n - 1 PROVE t[p] = s[p]
    <2>1. p \in 1 .. (n - 1) - 1 + 1 /\ 1 + p - 1 = p
      BY <1>1
    <2>2. QED
      BY <1>4, <1>5, <2>1
  <1>8. s[n] \in S
    BY <1>1, <1>2
  <1>9. u \in Seq(S) /\ Len(u) = n /\ u[n] = s[n]
    BY <1>1, <1>6, <1>8, AppendProperties
  <1>10. \A p \in 1 .. n - 1 : u[p] = t[p]
    BY <1>1, <1>6, <1>8, AppendProperties
  <1> HIDE DEF u
  <1>11. \A p \in 1 .. n : u[p] = s[p]
    BY <1>1, <1>7, <1>9, <1>10
  <1>12. s = u
    BY <1>9, <1>11, SeqEqual DEF n
  <1>13. QED
    BY <1>6, <1>7, <1>12 DEF n, t, u, Last

\* Taking an appended element off again.
LEMMA FrontOfAppend ==
    ASSUME NEW S, NEW s \in Seq(S), NEW e \in S
    PROVE  /\ Append(s, e) \in Seq(S)
           /\ Len(Append(s, e)) = Len(s) + 1
           /\ \A p \in 1 .. Len(s) : Append(s, e)[p] = s[p]
           /\ Last(Append(s, e)) = e
           /\ Front(Append(s, e)) = s
  <1> DEFINE u == Append(s, e)
  <1>1. u \in Seq(S) /\ Len(u) = Len(s) + 1 /\ u[Len(s) + 1] = e
    BY AppendProperties
  <1>2. \A p \in 1 .. Len(s) : u[p] = s[p]
    BY AppendProperties
  <1>3. Len(s) \in Nat
    OBVIOUS
  <1> HIDE DEF u
  <1>4. Front(u) \in Seq(S) /\ Len(Front(u)) = Len(s)
    BY <1>1, <1>3, FrontThenLast
  <1>5. \A p \in 1 .. Len(s) : Front(u)[p] = u[p]
    BY <1>1, <1>3, FrontThenLast, SMTT(60)
  <1>6. Front(u) = s
    BY <1>2, <1>4, <1>5, SeqEqual
  <1>7. QED
    BY <1>1, <1>2, <1>6 DEF u, Last

\* A sequence is one of its own elements.
LEMMA OfItsElements ==
    ASSUME NEW S, NEW s \in Seq(S)
    PROVE  s \in Seq(ToSet(s)) /\ Len(s) \in Nat /\ DOMAIN s = 1 .. Len(s)
  <1>1. Len(s) \in Nat /\ DOMAIN s = 1 .. Len(s) /\ s = [i \in 1 .. Len(s) |-> s[i]]
    OBVIOUS
  <1>2. \A i \in 1 .. Len(s) : s[i] \in ToSet(s)
    BY <1>1 DEF ToSet
  <1>3. QED
    BY <1>1, <1>2, IsASeq

\* A sequence with one element appended, whatever it is.
LEMMA Appended ==
    ASSUME NEW S, NEW s \in Seq(S), NEW e
    PROVE  /\ Append(s, e) \in Seq(ToSet(Append(s, e)))
           /\ Len(Append(s, e)) = Len(s) + 1
           /\ \A i \in 1 .. Len(s) : Append(s, e)[i] = s[i]
           /\ Append(s, e)[Len(s) + 1] = e
  <1> DEFINE T == S \cup {e}
  <1>1. s \in Seq(T) /\ e \in T
    <2>1. S \subseteq T /\ e \in T
      OBVIOUS
    <2> HIDE DEF T
    <2>2. QED
      BY <2>1, SeqMonotonic
  <1> HIDE DEF T
  <1>2. Append(s, e) \in Seq(T) /\ Len(Append(s, e)) = Len(s) + 1 /\ Append(s, e)[Len(s) + 1] = e
    BY <1>1, AppendProperties
  <1>3. \A i \in 1 .. Len(s) : Append(s, e)[i] = s[i]
    BY <1>1, AppendProperties
  <1>4. Append(s, e) \in Seq(ToSet(Append(s, e)))
    BY <1>2, OfItsElements
  <1>5. QED
    BY <1>2, <1>3, <1>4

\* A sequence with one element replaced, by whatever it is.
LEMMA Replaced ==
    ASSUME NEW S, NEW s \in Seq(S), NEW i \in 1 .. Len(s), NEW e
    PROVE  /\ ReplaceAt(s, i, e) \in Seq(ToSet(ReplaceAt(s, i, e)))
           /\ Len(ReplaceAt(s, i, e)) = Len(s)
           /\ \A j \in 1 .. Len(s) : ReplaceAt(s, i, e)[j] = IF j = i THEN e ELSE s[j]
  <1> DEFINE T == S \cup {e}
             t == [s EXCEPT ![i] = e]
  <1>1. s \in Seq(T) /\ e \in T
    <2>1. S \subseteq T /\ e \in T
      OBVIOUS
    <2> HIDE DEF T
    <2>2. QED
      BY <2>1, SeqMonotonic
  <1> HIDE DEF T
  <1>2. t \in Seq(T) /\ Len(t) = Len(s)
    BY <1>1, ExceptSeq
  <1>3. \A j \in 1 .. Len(s) : t[j] = IF j = i THEN e ELSE s[j]
    BY <1>1, ExceptSeq
  <1>4. ReplaceAt(s, i, e) = t
    BY DEF ReplaceAt
  <1> HIDE DEF t
  <1>5. t \in Seq(ToSet(t))
    BY <1>2, OfItsElements
  <1>6. QED
    BY <1>2, <1>3, <1>4, <1>5

\* The first n elements of a sequence.
LEMMA Prefix ==
    ASSUME NEW S, NEW s \in Seq(S), NEW n \in 0 .. Len(s)
    PROVE  /\ SubSeq(s, 1, n) \in Seq(ToSet(SubSeq(s, 1, n)))
           /\ Len(SubSeq(s, 1, n)) = n
           /\ \A i \in 1 .. n : SubSeq(s, 1, n)[i] = s[i]
  <1> DEFINE t == SubSeq(s, 1, n)
  <1>1. n \in Int /\ 1 \in Int /\ n \in Nat /\ Len(s) \in Nat
    OBVIOUS
  <1>2. \A i \in 1 .. n : s[i] \in S
    BY <1>1, ElementOfSeq
  <1>3. t \in Seq(S)
    BY <1>1, <1>2, SubSeqProperties
  <1>4. Len(t) = IF 1 <= n THEN n - 1 + 1 ELSE 0
    BY <1>1, <1>2, SubSeqProperties
  <1>5. \A i \in 1 .. n - 1 + 1 : t[i] = s[1 + i - 1]
    BY <1>1, <1>2, SubSeqProperties
  <1> HIDE DEF t
  <1>6. t \in Seq(ToSet(t))
    BY <1>3, OfItsElements
  <1>7. Len(t) = n
    BY <1>1, <1>4
  <1>8. ASSUME NEW i \in 1 .. n PROVE t[i] = s[i]
    <2>1. i \in 1 .. n - 1 + 1 /\ 1 + i - 1 = i
      BY <1>1
    <2>2. QED
      BY <1>5, <2>1
  <1>9. QED
    BY <1>6, <1>7, <1>8 DEF t

\* g is defined on 1 .. n by recursion: step[k] makes the value at k of the one
\* before.
Recursive(g, n, a, step) ==
    \A k \in 1 .. n : g[k] = IF k = 1 THEN a ELSE step[k][g[k - 1]]

\* Such a function exists.
LEMMA Recursion ==
    ASSUME NEW D, NEW n \in Nat, NEW a \in D, NEW step \in [1 .. n -> [D -> D]]
    PROVE  \E g \in [1 .. n -> D] : Recursive(g, n, a, step)
  <1> DEFINE Good == {m \in 1 .. n : \E g \in [1 .. m -> D] : Recursive(g, m, a, step)}
  <1>1. n > 0 => 1 \in Good
    <2> DEFINE g == [k \in 1 .. 1 |-> a]
    <2>1. g \in [1 .. 1 -> D] /\ Recursive(g, 1, a, step)
      BY DEF Recursive
    <2> HIDE DEF g
    <2>2. QED
      BY <2>1
  <1>2. \A m \in 1 .. n - 1 : m \in Good => m + 1 \in Good
    <2> SUFFICES ASSUME NEW m \in 1 .. n - 1, NEW g \in [1 .. m -> D],
                        Recursive(g, m, a, step)
                 PROVE  \E h \in [1 .. m + 1 -> D] : Recursive(h, m + 1, a, step)
      OBVIOUS
    <2> DEFINE h == [k \in 1 .. m + 1 |-> IF k = m + 1 THEN step[m + 1][g[m]] ELSE g[k]]
    <2>1. g[m] \in D /\ m + 1 \in 1 .. n /\ step[m + 1] \in [D -> D]
      OBVIOUS
    <2>2. step[m + 1][g[m]] \in D
      BY <2>1
    <2>3. h \in [1 .. m + 1 -> D]
      BY <2>2
    <2>4. ASSUME NEW k \in 1 .. m + 1
          PROVE  h[k] = IF k = 1 THEN a ELSE step[k][h[k - 1]]
      <3>1. CASE k = m + 1
        <4>1. k # 1 /\ k - 1 = m /\ m \in 1 .. m + 1 /\ m # m + 1
          BY <3>1
        <4>2. h[m] = g[m] /\ h[k] = step[k][g[m]]
          BY <3>1, <4>1
        <4>3. QED
          BY <4>1, <4>2
      <3>2. CASE k # m + 1
        <4>1. k \in 1 .. m /\ h[k] = g[k]
          BY <3>2
        <4>2. k # 1 => k - 1 \in 1 .. m /\ h[k - 1] = g[k - 1]
          BY <4>1
        <4>3. QED
          BY <4>1, <4>2 DEF Recursive
      <3>3. QED
        BY <3>1, <3>2
    <2> HIDE DEF h
    <2>5. Recursive(h, m + 1, a, step)
      BY <2>4 DEF Recursive
    <2>6. QED
      BY <2>3, <2>5
  <1>3. CASE n > 0
    <2> HIDE DEF Good
    <2>1. 1 .. n \subseteq Good
      BY <1>1, <1>2, UpTo
    <2>2. n \in Good
      BY <1>3, <2>1
    <2>3. QED
      BY <2>2 DEF Good
  <1>4. CASE n = 0
    <2> DEFINE g == [k \in 1 .. n |-> a]
    <2>1. g \in [1 .. n -> D] /\ Recursive(g, n, a, step)
      BY <1>4 DEF Recursive
    <2>2. QED
      BY <2>1
  <1>5. QED
    BY <1>3, <1>4

------------------------------------------------------------------------------
(***************************************************************************)
(* Parts one after the other, read back.                                   *)
(***************************************************************************)

\* Every place from the base to the end is in one of the parts.
LEMMA Covered ==
    ASSUME NEW S, NEW parts \in Seq(Seq(S)), NEW at, NEW base \in Nat,
           Consecutive(at, base, parts), Len(parts) > 0,
           NEW p \in Nat, base < p, p <= at[Len(parts)] + Len(parts[Len(parts)])
    PROVE  \E i \in 1 .. Len(parts) : \E m \in 1 .. Len(parts[i]) : p = at[i] + m
  <1> DEFINE n == Len(parts)
             I == {i \in 1 .. n : at[i] < p}
  <1>1. n \in Nat /\ n > 0
    OBVIOUS
  <1>2. \A i \in 1 .. n : at[i] \in Nat
    BY ConsecutiveGrows
  <1>3. \A i \in 1 .. n : at[i] = IF i = 1 THEN base ELSE at[i - 1] + Len(parts[i - 1])
    BY DEF Consecutive
  <1>4. \A i \in 1 .. n : Len(parts[i]) \in Nat
    <2>1. \A i \in 1 .. n : parts[i] \in Seq(S)
      BY ElementOfSeq
    <2>2. QED
      BY <2>1
  <1>5. p <= at[n] + Len(parts[n])
    OBVIOUS
  <1> HIDE DEF n
  <1>6. 1 \in I
    BY <1>1, <1>3
  <1>7. I \subseteq 1 .. n /\ I # {}
    BY <1>6
  <1> HIDE DEF I
  <1>8. PICK i \in I : \A j \in I : j <= i
    BY <1>1, <1>7, MaxIndex
  <1>9. i \in 1 .. n /\ at[i] < p
    BY <1>8 DEF I
  <1>10. p <= at[i] + Len(parts[i])
    <2>1. CASE i = n
      BY <1>5, <2>1
    <2>2. CASE i # n
      <3>1. i + 1 \in 1 .. n /\ i + 1 # 1 /\ (i + 1) - 1 = i /\ ~(i + 1 <= i)
        BY <1>1, <1>9, <2>2
      <3>2. i + 1 \notin I
        BY <1>8, <3>1
      <3>3. ~(at[i + 1] < p)
        BY <3>1, <3>2 DEF I
      <3>4. at[i + 1] = at[i] + Len(parts[i])
        BY <1>3, <3>1
      <3>5. QED
        BY <1>2, <1>3, <1>4, <1>9, <3>1, <3>3, <3>4
    <2>3. QED
      BY <2>1, <2>2
  <1>11. p - at[i] \in 1 .. Len(parts[i]) /\ p = at[i] + (p - at[i])
    BY <1>2, <1>4, <1>9, <1>10, SMTT(60)
  <1>12. QED
    BY <1>9, <1>11 DEF n

\* The parts are what is in buf at their places; s is what follows the base.
ReadAt(buf, at, parts) ==
    \A i \in 1 .. Len(parts) : \A m \in 1 .. Len(parts[i]) : buf[at[i] + m] = parts[i][m]
Follows(buf, base, s) == \A p \in 1 .. Len(s) : s[p] = buf[base + p]

\* What FlattenSeq returns for parts that were read from buf at their places is
\* buf itself, from the base on.
LEMMA Unflattened ==
    ASSUME NEW S, NEW parts \in Seq(Seq(S)), NEW at, NEW base \in Nat, NEW buf,
           Consecutive(at, base, parts), ReadAt(buf, at, parts)
    PROVE  Follows(buf, base, FlattenSeq(parts))
  <1> DEFINE n == Len(parts)
             flat == FlattenSeq(parts)
  <1>1. /\ n \in Nat
        /\ n = 0 => Len(flat) = 0
        /\ n > 0 => Len(flat) = at[n] + Len(parts[n]) - base
        /\ \A i \in 1 .. n : \A m \in 1 .. Len(parts[i]) : flat[at[i] - base + m] = parts[i][m]
    BY Flattened
  <1>2. \A i \in 1 .. n : at[i] \in Nat /\ base <= at[i]
    BY ConsecutiveGrows
  <1>3. \A i \in 1 .. n : Len(parts[i]) \in Nat
    <2>1. \A i \in 1 .. n : parts[i] \in Seq(S)
      BY ElementOfSeq
    <2>2. QED
      BY <2>1
  <1>4. \A i \in 1 .. n : \A m \in 1 .. Len(parts[i]) : buf[at[i] + m] = parts[i][m]
    BY DEF ReadAt
  <1> HIDE DEF flat
  <1> SUFFICES ASSUME NEW p \in 1 .. Len(flat) PROVE flat[p] = buf[base + p]
    BY DEF flat, Follows
  <1>5. n > 0 /\ p \in Nat /\ p >= 1 /\ p <= at[n] + Len(parts[n]) - base
    BY <1>1
  <1>6. /\ base + p \in Nat /\ base < base + p /\ base + p <= at[n] + Len(parts[n])
    <2>1. n \in 1 .. n
      BY <1>1, <1>5
    <2>2. at[n] \in Nat /\ Len(parts[n]) \in Nat
      BY <1>2, <1>3, <2>1
    <2> HIDE DEF n
    <2>3. QED
      BY <1>5, <2>2
  <1>7. PICK i \in 1 .. n : \E m \in 1 .. Len(parts[i]) : base + p = at[i] + m
    <2> DEFINE x == base + p
    <2>1. /\ x \in Nat /\ base < x /\ Len(parts) > 0
          /\ x <= at[Len(parts)] + Len(parts[Len(parts)])
      BY <1>5, <1>6
    <2> HIDE DEF x
    <2>2. \E i \in 1 .. Len(parts) : \E m \in 1 .. Len(parts[i]) : x = at[i] + m
      BY <2>1, Covered
    <2>3. QED
      BY <2>2 DEF x
  <1> HIDE DEF n
  <1>8. PICK m \in 1 .. Len(parts[i]) : base + p = at[i] + m
    BY <1>7
  <1>9. at[i] - base + m = p
    <2>1. at[i] \in Nat /\ Len(parts[i]) \in Nat /\ m \in Nat
      BY <1>2, <1>3
    <2>2. QED
      BY <1>5, <1>8, <2>1, SMTT(60)
  <1>10. QED
    BY <1>1, <1>4, <1>8, <1>9

\* Parts of one length are consecutive rows.
LEMMA Rows ==
    ASSUME NEW S, NEW parts \in Seq(Seq(S)), NEW width \in Nat,
           \A i \in 1 .. Len(parts) : Len(parts[i]) = width
    PROVE  /\ Consecutive([i \in 1 .. Len(parts) |-> (i - 1) * width], 0, parts)
           /\ FlattenSeq(parts) \in Seq(S)
           /\ Len(FlattenSeq(parts)) = Len(parts) * width
           /\ \A i \in 1 .. Len(parts) : \A m \in 1 .. width :
                  FlattenSeq(parts)[(i - 1) * width + m] = parts[i][m]
  <1> DEFINE n == Len(parts)
             at == [i \in 1 .. n |-> (i - 1) * width]
             flat == FlattenSeq(parts)
  <1>1. n \in Nat /\ \A i \in 1 .. n : Len(parts[i]) = width
    OBVIOUS
  <1> HIDE DEF n
  <1>2. ASSUME NEW i \in 1 .. n PROVE (i - 1) * width \in Nat
    <2>1. i - 1 \in Nat
      OBVIOUS
    <2> DEFINE j == i - 1
    <2> HIDE DEF j
    <2>2. j * width \in Nat
      BY <2>1 DEF j
    <2>3. QED
      BY <2>2 DEF j
  <1>3. Consecutive(at, 0, parts)
    <2> SUFFICES ASSUME NEW i \in 1 .. n
                 PROVE  at[i] = IF i = 1 THEN 0 ELSE at[i - 1] + Len(parts[i - 1])
      BY DEF Consecutive, n
    <2>1. CASE i = 1
      BY <2>1
    <2>2. CASE i # 1
      <3> DEFINE j == i - 1
      <3>1. j \in 1 .. n /\ i = j + 1 /\ j \in Nat
        BY <1>1, <2>2
      <3>2. at[i] = j * width /\ at[j] = (j - 1) * width /\ Len(parts[j]) = width
        BY <1>1, <3>1
      <3> HIDE DEF at, j
      <3>3. j * width = (j - 1) * width + width
        BY <3>1
      <3>4. at[i] = at[j] + Len(parts[j])
        BY <3>2, <3>3
      <3>5. QED
        BY <2>2, <3>4 DEF j
    <2>3. QED
      BY <2>1, <2>2
  <1>4. \A i \in 1 .. n : at[i] = (i - 1) * width
    OBVIOUS
  <1> HIDE DEF at
  <1>5. /\ flat \in Seq(S)
        /\ n = 0 => Len(flat) = 0
        /\ n > 0 => Len(flat) = at[n] + Len(parts[n]) - 0
        /\ \A i \in 1 .. n : \A m \in 1 .. Len(parts[i]) : flat[at[i] - 0 + m] = parts[i][m]
    BY <1>3, Flattened DEF n
  <1> HIDE DEF flat
  <1>6. Len(flat) = n * width
    <2>1. CASE n = 0
      BY <1>5, <2>1
    <2>2. CASE n # 0
      <3>1. n \in 1 .. n /\ n > 0
        BY <1>1, <2>2
      <3>2. Len(flat) = at[n] + Len(parts[n]) - 0
        BY <1>5, <3>1
      <3>3. at[n] = (n - 1) * width /\ Len(parts[n]) = width
        BY <1>1, <1>4, <3>1
      <3>4. (n - 1) * width + width = n * width /\ (n - 1) * width \in Nat
        <4>1. n - 1 \in Nat
          BY <3>1
        <4>2. QED
          BY <1>1, <1>2, <3>1
      <3>5. QED
        BY <3>2, <3>3, <3>4
    <2>3. QED
      BY <2>1, <2>2
  <1>7. ASSUME NEW i \in 1 .. n, NEW m \in 1 .. width
        PROVE  flat[(i - 1) * width + m] = parts[i][m]
    <2> DEFINE r == (i - 1) * width
    <2>1. at[i] = r /\ r \in Nat /\ m \in 1 .. Len(parts[i])
      BY <1>1, <1>2, <1>4
    <2> HIDE DEF r
    <2>2. at[i] - 0 + m = r + m
      BY <2>1
    <2>3. QED
      BY <1>5, <2>1, <2>2 DEF r
  <1>8. QED
    BY <1>3, <1>5, <1>6, <1>7 DEF n, at, flat

\* A part cut out of a sequence.
LEMMA Part ==
    ASSUME NEW S, NEW s \in Seq(S), NEW a \in Nat, NEW n \in Nat, a + n <= Len(s)
    PROVE  /\ SubSeq(s, a + 1, a + n) \in Seq(S)
           /\ Len(SubSeq(s, a + 1, a + n)) = n
           /\ \A m \in 1 .. n : SubSeq(s, a + 1, a + n)[m] = s[a + m]
  <1> DEFINE f == a + 1
             l == a + n
             t == SubSeq(s, f, l)
  <1>1. f \in Int /\ l \in Int /\ l - f + 1 = n /\ (f <= l <=> n > 0) /\ Len(s) \in Nat /\ l <= Len(s)
    OBVIOUS
  <1>2. \A i \in f .. l : i \in 1 .. Len(s)
    BY <1>1
  <1>3. \A i \in f .. l : s[i] \in S
    BY <1>2, ElementOfSeq
  <1>4. \A m \in 1 .. n : f + m - 1 = a + m
    OBVIOUS
  <1> HIDE DEF f, l
  <1>5. t \in Seq(S)
    BY <1>1, <1>3, SubSeqProperties
  <1>6. Len(t) = IF f <= l THEN l - f + 1 ELSE 0
    BY <1>1, <1>3, SubSeqProperties
  <1>7. \A i \in 1 .. l - f + 1 : t[i] = s[f + i - 1]
    BY <1>1, <1>3, SubSeqProperties
  <1> HIDE DEF t
  <1>8. Len(t) = n /\ \A m \in 1 .. n : t[m] = s[a + m]
    BY <1>1, <1>4, <1>6, <1>7, SMTT(60)
  <1>9. QED
    BY <1>5, <1>8 DEF f, l, t

\* The part that is known to be there.
LEMMA PartOf ==
    ASSUME NEW S, NEW s \in Seq(S), NEW a \in Nat, NEW t \in Seq(S), a + Len(t) <= Len(s),
           \A m \in 1 .. Len(t) : s[a + m] = t[m]
    PROVE  SubSeq(s, a + 1, a + Len(t)) = t
  <1> DEFINE n == Len(t)
             u == SubSeq(s, a + 1, a + n)
  <1>1. n \in Nat /\ a + n <= Len(s)
    OBVIOUS
  <1>2. \A m \in 1 .. n : s[a + m] = t[m]
    OBVIOUS
  <1> HIDE DEF n
  <1>3. u \in Seq(S)
    BY <1>1, Part
  <1>4. Len(u) = n
    BY <1>1, Part
  <1>5. \A m \in 1 .. n : u[m] = s[a + m]
    BY <1>1, Part
  <1> HIDE DEF u
  <1>6. u = t
    BY <1>2, <1>3, <1>4, <1>5, SeqEqual DEF n
  <1>7. QED
    BY <1>6 DEF u, n

\* u is the k elements of s and, behind them, those of t.
Behind(u, s, k, t) ==
    /\ Len(u) = k + Len(t)
    /\ \A p \in 1 .. k : u[p] = s[p]
    /\ \A p \in 1 .. Len(t) : u[k + p] = t[p]

LEMMA JoinedAt ==
    ASSUME NEW S, NEW s \in Seq(S), NEW t \in Seq(S), NEW k, Len(s) = k
    PROVE  s \o t \in Seq(S) /\ Behind(s \o t, s, k, t)
  <1> DEFINE u == s \o t
  <1>1. u \in Seq(S)
    BY Joined
  <1>2. Len(u) = Len(s) + Len(t)
    BY Joined
  <1>3. \A p \in 1 .. Len(s) : u[p] = s[p]
    BY Joined
  <1>4. \A p \in 1 .. Len(t) : u[Len(s) + p] = t[p]
    BY Joined
  <1> HIDE DEF u
  <1>5. Behind(u, s, k, t)
    BY <1>2, <1>3, <1>4, Zenon DEF Behind
  <1>6. QED
    BY <1>1, <1>5 DEF u

\* There are such places for any parts.
LEMMA PlacesExist ==
    ASSUME NEW S, NEW parts \in Seq(Seq(S)), NEW base \in Nat
    PROVE  \E at : Consecutive(at, base, parts)
  <1> DEFINE n == Len(parts)
             step == [k \in 1 .. n |-> [x \in Nat |-> IF k = 1 THEN x ELSE x + Len(parts[k - 1])]]
  <1>1. n \in Nat /\ \A k \in 1 .. n : Len(parts[k]) \in Nat
    <2>1. \A k \in 1 .. n : parts[k] \in Seq(S)
      BY ElementOfSeq
    <2>2. QED
      BY <2>1
  <1> HIDE DEF n
  <1>2. step \in [1 .. n -> [Nat -> Nat]]
    <2> SUFFICES ASSUME NEW k \in 1 .. n, NEW x \in Nat, k # 1
                 PROVE  x + Len(parts[k - 1]) \in Nat
      OBVIOUS
    <2>1. k - 1 \in 1 .. n
      BY <1>1
    <2>2. QED
      BY <1>1, <2>1
  <1>3. \A k \in 1 .. n : \A x \in Nat : k # 1 => step[k][x] = x + Len(parts[k - 1])
    OBVIOUS
  <1> HIDE DEF step
  <1>4. PICK at \in [1 .. n -> Nat] : Recursive(at, n, base, step)
    <2> DEFINE D == Nat
    <2>1. base \in D /\ step \in [1 .. n -> [D -> D]]
      BY <1>2
    <2> HIDE DEF D
    <2>2. \E at \in [1 .. n -> D] : Recursive(at, n, base, step)
      BY <1>1, <2>1, Recursion
    <2>3. QED
      BY <2>2 DEF D
  <1>5. ASSUME NEW i \in 1 .. n
        PROVE  at[i] = IF i = 1 THEN base ELSE at[i - 1] + Len(parts[i - 1])
    <2>1. CASE i = 1
      BY <1>4, <2>1 DEF Recursive
    <2>2. CASE i # 1
      <3>1. i - 1 \in 1 .. n
        BY <1>1, <2>2
      <3>2. at[i - 1] \in Nat
        BY <3>1
      <3>3. at[i] = step[i][at[i - 1]]
        BY <1>4, <2>2 DEF Recursive
      <3>4. QED
        BY <1>3, <2>2, <3>2, <3>3
    <2>3. QED
      BY <2>1, <2>2
  <1>6. Consecutive(at, base, parts)
    BY <1>5 DEF Consecutive, n
  <1>7. QED
    BY <1>6
===============================================================================
