----------------------------- MODULE ScreenProofs -----------------------------
(***************************************************************************)
(* What the console shows of a lab and of the results, and what a seating  *)
(* does, for any number of examinations, candidates, machines and marks.   *)
(*                                                                         *)
(* All three rest on lists: the rows of a screen are lined up, sifted and  *)
(* put one after the other, and a seating list is walked. What such a      *)
(* function over a list computes is shown by taking the least place where  *)
(* it would fail, which follows from the place before it.                  *)
(***************************************************************************)
EXTENDS LabViews, ResultsView, MCSeating, FiniteSetTheorems, SequenceTheorems,
        WellFoundedInduction, TLAPS

-----------------------------------------------------------------------------
(* Lists.                                                                  *)

\* Every set of numbers that is not empty has a least one.
LEMMA Least ==
  ASSUME NEW T, T \subseteq Nat, T # {}
  PROVE  \E x \in T : \A y \in T : x <= y
<1> DEFINE R == {ss \in Nat \X Nat : ss[1] < ss[2]}
<1>1. IsWellFoundedOn(R, Nat) BY NatLessThanWellFounded DEF OpToRel
<1>2. \A x, y \in Nat : y < x => <<y, x>> \in R OBVIOUS
<1> HIDE DEF R
<1>3. PICK x \in T : \A y \in T : <<y, x>> \notin R BY <1>1, WFMin
<1>4. ASSUME NEW y \in T PROVE x <= y
  <2>1. x \in Nat /\ y \in Nat OBVIOUS
  <2>2. ~(y < x) BY <1>2, <1>3, <2>1
  <2> QED BY <2>1, <2>2
<1> QED BY <1>4

\* An order in which no two members of S are level.
Strict(before, S) ==
  /\ \A x \in S : <<x, x>> \notin before
  /\ \A x, y \in S : x # y => <<x, y>> \in before \/ <<y, x>> \in before
  /\ \A x, y, z \in S : <<x, y>> \in before /\ <<y, z>> \in before => <<x, z>> \in before

\* The places of a finite set are 1 to its size, one for each member.
LEMMA Placing ==
  ASSUME NEW S, IsFiniteSet(S), NEW before, Strict(before, S)
  PROVE  /\ Cardinality(S) \in Nat
         /\ \A x \in S : Place(x, S, before) \in 1..Cardinality(S)
         /\ \A x, y \in S : <<x, y>> \in before => Place(x, S, before) < Place(y, S, before)
<1> DEFINE To(x) == {y \in S : y = x \/ <<y, x>> \in before}
<1>1. Cardinality(S) \in Nat BY FS_CardinalityType
<1>2. \A x : Place(x, S, before) = Cardinality(To(x)) BY DEF Place
<1>3. ASSUME NEW x \in S PROVE IsFiniteSet(To(x)) /\ Cardinality(To(x)) \in 1..Cardinality(S)
  <2>1. To(x) \in SUBSET S /\ x \in To(x) OBVIOUS
  <2>2. IsFiniteSet(To(x)) /\ Cardinality(To(x)) <= Cardinality(S) BY <2>1, FS_Subset
  <2>3. Cardinality(To(x)) \in Nat /\ Cardinality(To(x)) # 0
    BY <2>1, <2>2, FS_CardinalityType, FS_EmptySet
  <2> QED BY <1>1, <2>2, <2>3
<1>4. ASSUME NEW x \in S, NEW y \in S, <<x, y>> \in before
      PROVE  Cardinality(To(x)) < Cardinality(To(y))
  <2>1. To(x) \in SUBSET To(y) BY <1>4 DEF Strict
  <2>2. y \in To(y) /\ y \notin To(x)
    <3>1. y # x /\ <<y, x>> \notin before BY <1>4 DEF Strict
    <3> QED BY <3>1
  <2>3. To(x) # To(y) BY <2>2
  <2>4. IsFiniteSet(To(y)) /\ Cardinality(To(x)) \in Nat /\ Cardinality(To(y)) \in Nat
    BY <1>3, FS_CardinalityType
  <2> HIDE DEF To
  <2>5. Cardinality(To(x)) <= Cardinality(To(y)) /\ Cardinality(To(x)) # Cardinality(To(y))
    BY <2>1, <2>3, <2>4, FS_Subset
  <2> QED BY <2>4, <2>5
<1> QED BY <1>1, <1>2, <1>3, <1>4

\* Lining up loses nobody, repeats nobody and follows the order.
LEMMA LinedUp ==
  ASSUME NEW S, IsFiniteSet(S), NEW before, Strict(before, S)
  PROVE  LET n    == Cardinality(S)
             line == InOrder(S, before)
         IN  /\ n \in Nat /\ line \in [1..n -> S]
             /\ \A x \in S : \E k \in 1..n : line[k] = x
             /\ \A j, k \in 1..n : j < k => <<line[j], line[k]>> \in before
             /\ \A j, k \in 1..n : line[j] = line[k] => j = k
<1> DEFINE n == Cardinality(S)
           place == [x \in S |-> Place(x, S, before)]
           line == InOrder(S, before)
<1>1. /\ n \in Nat /\ place \in [S -> 1..n]
      /\ \A x, y \in S : <<x, y>> \in before => place[x] < place[y]
  BY Placing
<1>2. \A x, y \in S : place[x] = place[y] => x = y
  <2> HIDE DEF place, n
  <2>1. \A x \in S : place[x] \in Nat BY <1>1
  <2>2. \A x, y \in S : x # y => place[x] < place[y] \/ place[y] < place[x] BY <1>1 DEF Strict
  <2> QED BY <2>1, <2>2
<1>3. \A k \in 1..n : \E x \in S : place[x] = k
  <2> HIDE DEF place
  <2>1. place \in Injection(S, 1..n) BY <1>1, <1>2 DEF Injection, IsInjective
  <2>2. IsFiniteSet(1..n) /\ Cardinality(1..n) = n BY <1>1, FS_Interval
  <2>3. place \in Surjection(S, 1..n) BY <2>1, <2>2, FS_Injection
  <2> QED BY <2>3 DEF Surjection
<1>4. line = [k \in 1..n |-> CHOOSE x \in S : place[x] = k]
  <2>1. line = [k \in 1..n |-> CHOOSE x \in S : Place(x, S, before) = k] BY DEF InOrder
  <2> QED BY <2>1
<1> HIDE DEF place, line, n
<1>5. \A k \in 1..n : line[k] \in S /\ place[line[k]] = k BY <1>3, <1>4
<1>6. line \in [1..n -> S] BY <1>4, <1>5
<1>7. \A x \in S : line[place[x]] = x
  <2>1. \A x \in S : place[x] \in 1..n BY <1>1
  <2> QED BY <1>2, <1>5, <2>1
<1>8. ASSUME NEW j \in 1..n, NEW k \in 1..n, j < k PROVE <<line[j], line[k]>> \in before
  <2>1. line[j] # line[k] BY <1>5, <1>8
  <2>2. <<line[j], line[k]>> \in before \/ <<line[k], line[j]>> \in before BY <1>5, <2>1 DEF Strict
  <2>3. <<line[k], line[j]>> \in before => k < j BY <1>1, <1>5
  <2> QED BY <1>1, <1>8, <2>2, <2>3
<1>9. \A x \in S : \E k \in 1..n : line[k] = x BY <1>1, <1>7
<1>10. \A j, k \in 1..n : line[j] = line[k] => j = k BY <1>5
<1> QED BY <1>1, <1>6, <1>8, <1>9, <1>10 DEF n, line

\* Positions are never level.
LEMMA UpwardIsStrict ==
  ASSUME NEW at, at \subseteq Nat
  PROVE  Strict(Upward(at), at)
<1>1. \A x, y \in at : <<x, y>> \in Upward(at) <=> x < y BY DEF Upward
<1> HIDE DEF Upward
<1> QED BY <1>1 DEF Strict

\* What is left of a sequence when the elements at some positions are kept.
Sifted(rest, s, at, T) ==
  /\ rest \in Seq(T) /\ Len(rest) = Cardinality(at)
  /\ \E kept \in [DOMAIN rest -> at] :
        /\ \A k \in DOMAIN rest : rest[k] = s[kept[k]]
        /\ \A i \in at : \E k \in DOMAIN rest : kept[k] = i
        /\ \A j, k \in DOMAIN rest : j < k => kept[j] < kept[k]
        /\ \A j, k \in DOMAIN rest : kept[j] = kept[k] => j = k

\* A filter keeps the elements at those positions, each once and in order.
LEMMA Kept ==
  ASSUME NEW T, NEW s \in Seq(T), NEW at, at \subseteq DOMAIN s
  PROVE  LET kept == InOrder(at, Upward(at))
         IN  Sifted([k \in DOMAIN kept |-> s[kept[k]]], s, at, T)
<1> DEFINE kept == InOrder(at, Upward(at))
           n == Cardinality(at)
           rest == [k \in DOMAIN kept |-> s[kept[k]]]
<1>1. DOMAIN s = 1..Len(s) /\ Len(s) \in Nat /\ \A i \in DOMAIN s : s[i] \in T BY LenProperties
<1>2. IsFiniteSet(at) /\ at \subseteq Nat
  <2>1. IsFiniteSet(1..Len(s)) BY <1>1, FS_Interval
  <2> QED BY <1>1, <2>1, FS_Subset
<1>3. /\ n \in Nat /\ kept \in [1..n -> at]
      /\ \A x \in at : \E k \in 1..n : kept[k] = x
      /\ \A j, k \in 1..n : j < k => <<kept[j], kept[k]>> \in Upward(at)
      /\ \A j, k \in 1..n : kept[j] = kept[k] => j = k
  BY <1>2, UpwardIsStrict, LinedUp
<1>4. \A j, k \in 1..n : j < k => kept[j] < kept[k]
  <2> HIDE DEF kept, n
  <2>1. \A x, y : <<x, y>> \in Upward(at) => x < y BY DEF Upward
  <2> QED BY <1>3, <2>1
<1> HIDE DEF kept, n
<1>5. DOMAIN kept = 1..n /\ DOMAIN rest = 1..n /\ rest \in [1..n -> T] BY <1>1, <1>3
<1>6. rest \in Seq(T) /\ Len(rest) = n BY <1>3, <1>5
<1>7. \A k \in DOMAIN rest : rest[k] = s[kept[k]] BY <1>5
<1> HIDE DEF rest
<1>8. kept \in [DOMAIN rest -> at] BY <1>3, <1>5
<1> QED BY <1>3, <1>4, <1>5, <1>6, <1>7, <1>8 DEF Sifted, kept, n, rest

\* Sequences one after the other: what is made of the first n of them, as a
\* function of what is made of fewer.
Joining(f, parts, n) ==
  [i \in 1..n |-> IF i = 1 THEN parts[i] ELSE f[i - 1] \o parts[i]]

\* There is such a function: what the first n make, for every n.
LEMMA Joins ==
  ASSUME NEW parts, NEW n \in Nat
  PROVE  \E f : f = Joining(f, parts, n)
<1> DEFINE T == {m \in Nat : ~\E f : f = Joining(f, parts, m)}
<1> SUFFICES ASSUME T # {} PROVE FALSE OBVIOUS
<1>1. PICK m \in T : \A k \in T : m <= k
  <2>1. T \subseteq Nat OBVIOUS
  <2> HIDE DEF T
  <2> QED BY <2>1, Least
<1>2. m \in Nat /\ ~\E f : f = Joining(f, parts, m) OBVIOUS
<1>3. CASE m = 0
  <2> DEFINE g == [i \in 1..0 |-> 0]
  <2>1. g = Joining(g, parts, 0)
    <3>1. 1..0 = {} OBVIOUS
    <3> QED BY <3>1 DEF Joining
  <2> QED BY <1>2, <1>3, <2>1
<1>4. CASE m # 0
  <2>1. m - 1 \in Nat /\ m - 1 \notin T BY <1>1, <1>2, <1>4
  <2>2. PICK f : f = Joining(f, parts, m - 1) BY <2>1
  <2> DEFINE at(i) == IF i = 1 THEN parts[i] ELSE f[i - 1] \o parts[i]
             g == [i \in 1..m |-> at(i)]
  <2>3. \A i \in 1..(m - 1) : f[i] = at(i) BY <2>2, Zenon DEF Joining
  <2>4. \A i \in 1..(m - 1) : i \in 1..m BY <1>2
  <2>5. \A i \in 1..(m - 1) : g[i] = f[i]
    <3>1. \A i \in 1..m : g[i] = at(i) OBVIOUS
    <3> HIDE DEF g, at
    <3> QED BY <2>3, <2>4, <3>1
  <2>6. \A i \in 1..m : i # 1 => i - 1 \in 1..(m - 1) BY <1>2
  <2>7. \A i \in 1..m : at(i) = IF i = 1 THEN parts[i] ELSE g[i - 1] \o parts[i]
    <3> HIDE DEF g
    <3> QED BY <2>5, <2>6
  <2>8. g = Joining(g, parts, m)
    <3> DEFINE h == [i \in 1..m |-> IF i = 1 THEN parts[i] ELSE g[i - 1] \o parts[i]]
    <3>1. g = h
      <4>1. \A i \in 1..m : h[i] = IF i = 1 THEN parts[i] ELSE g[i - 1] \o parts[i] BY Zenon
      <4>2. \A i \in 1..m : g[i] = at(i) BY Zenon
      <4>3. h = [i \in 1..m |-> h[i]] /\ g = [i \in 1..m |-> g[i]]
        <5>1. h = [i \in 1..m |-> h[i]]
          <6> HIDE DEF g
          <6> QED OBVIOUS
        <5>2. g = [i \in 1..m |-> g[i]] BY Zenon
        <5> QED BY <5>1, <5>2
      <4> HIDE DEF h, g, at
      <4>4. \A i \in 1..m : h[i] = g[i] BY <2>7, <4>1, <4>2
      <4> QED BY <4>3, <4>4
    <3> QED BY <3>1, Zenon DEF Joining
  <2> HIDE DEF g
  <2> QED BY <1>2, <2>8
<1> QED BY <1>3, <1>4

\* Two sequences one after the other.
Catenated(a, b, c, T) ==
  /\ c \in Seq(T) /\ Len(c) = Len(a) + Len(b) /\ DOMAIN c = 1..Len(c)
  /\ \A i \in DOMAIN c : \/ i \in DOMAIN a /\ c[i] = a[i]
                         \/ i > Len(a) /\ i - Len(a) \in DOMAIN b /\ c[i] = b[i - Len(a)]
  /\ \A i \in DOMAIN a : i \in DOMAIN c /\ c[i] = a[i]
  /\ \A i \in DOMAIN b : i + Len(a) \in DOMAIN c /\ c[i + Len(a)] = b[i]

\* Its elements are those of both, and nothing else.
LEMMA Joined ==
  ASSUME NEW T, NEW a \in Seq(T), NEW b \in Seq(T)
  PROVE  Catenated(a, b, a \o b, T)
<1>1. /\ Len(a) \in Nat /\ Len(b) \in Nat /\ DOMAIN a = 1..Len(a) /\ DOMAIN b = 1..Len(b)
      /\ a \o b \in Seq(T) /\ Len(a \o b) = Len(a) + Len(b)
      /\ \A i \in 1..(Len(a) + Len(b)) : (a \o b)[i] = IF i <= Len(a) THEN a[i] ELSE b[i - Len(a)]
  OBVIOUS
<1>2. DOMAIN (a \o b) = 1..(Len(a) + Len(b)) BY <1>1
<1>3. ASSUME NEW i \in 1..(Len(a) + Len(b))
      PROVE  \/ i \in DOMAIN a /\ (a \o b)[i] = a[i]
             \/ i > Len(a) /\ i - Len(a) \in DOMAIN b /\ (a \o b)[i] = b[i - Len(a)]
  BY <1>1
<1>4. \A i \in DOMAIN a : i \in 1..(Len(a) + Len(b)) /\ (a \o b)[i] = a[i] BY <1>1
<1>5. ASSUME NEW i \in DOMAIN b
      PROVE  i + Len(a) \in 1..(Len(a) + Len(b)) /\ (a \o b)[i + Len(a)] = b[i]
  <2>1. i \in Nat /\ i >= 1 /\ i <= Len(b) BY <1>1
  <2>2. i + Len(a) \in 1..(Len(a) + Len(b)) /\ ~(i + Len(a) <= Len(a)) /\ i + Len(a) - Len(a) = i
    BY <1>1, <2>1
  <2> QED BY <1>1, <2>2
<1> QED BY <1>1, <1>2, <1>3, <1>4, <1>5 DEF Catenated

\* What the first n parts make, all that stand in a wanted relation to what
\* comes after them.
Flat(flat, T, P, parts, n) ==
  /\ flat \in Seq(T)
  /\ \A i \in DOMAIN flat : \E k \in 1..n : \E p \in DOMAIN parts[k] : flat[i] = parts[k][p]
  /\ \A k \in 1..n : \A p \in DOMAIN parts[k] : \E i \in DOMAIN flat : flat[i] = parts[k][p]
  /\ \A i, j \in DOMAIN flat : i < j => <<flat[i], flat[j]>> \in P

\* FlattenSeq keeps every element of every part, and what holds between
\* elements of a part and between those of different parts.
LEMMA Flattened ==
  ASSUME NEW T, NEW P, NEW parts \in Seq(Seq(T)),
         \A k \in DOMAIN parts : \A i, j \in DOMAIN parts[k] :
            i < j => <<parts[k][i], parts[k][j]>> \in P,
         \A k, l \in DOMAIN parts : k < l =>
            \A i \in DOMAIN parts[k], j \in DOMAIN parts[l] : <<parts[k][i], parts[l][j]>> \in P
  PROVE  Flat(FlattenSeq(parts), T, P, parts, Len(parts))
<1> DEFINE N == Len(parts)
           made == CHOOSE f : f = Joining(f, parts, N)
<1>1. N \in Nat /\ DOMAIN parts = 1..N /\ \A k \in 1..N : parts[k] \in Seq(T) OBVIOUS
<1>2. CASE N = 0
  <2>1. FlattenSeq(parts) = parts BY <1>2 DEF FlattenSeq
  <2>2. parts = <<>> BY <1>2, EmptySeq
  <2>3. parts \in Seq(T) /\ DOMAIN parts = {} BY <1>1, <1>2, <2>2
  <2>4. 1..N = {} BY <1>2
  <2> QED BY <2>1, <2>3, <2>4 DEF Flat
<1>3. CASE N # 0
  <2>1. made = Joining(made, parts, N) BY <1>1, Joins
  <2>2. FlattenSeq(parts) = made[N] BY <1>3, Zenon DEF FlattenSeq, Joining
  <2> HIDE DEF made
  <2>3. \A i \in 1..N : made[i] = IF i = 1 THEN parts[i] ELSE made[i - 1] \o parts[i]
    BY <2>1, Zenon DEF Joining
  <2> HIDE DEF N
  <2> DEFINE B == {n \in 1..N : ~Flat(made[n], T, P, parts, n)}
  <2>4. B = {}
    <3> SUFFICES ASSUME B # {} PROVE FALSE OBVIOUS
    <3>1. PICK n \in B : \A k \in B : n <= k
      <4>1. B \subseteq Nat BY <1>1
      <4> HIDE DEF B
      <4> QED BY <4>1, Least
    <3>2. n \in 1..N /\ ~Flat(made[n], T, P, parts, n) OBVIOUS
    <3>3. CASE n = 1
      <4>1. made[n] = parts[1] BY <2>3, <3>2, <3>3
      <4>2. parts[1] \in Seq(T) BY <1>1, <3>2, <3>3
      <4>3. \A i, j \in DOMAIN parts[1] : i < j => <<parts[1][i], parts[1][j]>> \in P
        BY <1>1, <3>2, <3>3
      <4>4. 1..n = {1} BY <3>3
      <4> QED BY <3>2, <4>1, <4>2, <4>3, <4>4 DEF Flat
    <3>4. CASE n # 1
      <4> DEFINE a == made[n - 1]
                 b == parts[n]
                 m == n - 1
      <4>1. m \in 1..N /\ ~(n <= m) /\ 1..n = 1..m \cup {n} /\ n \notin 1..m /\ \A k \in 1..m : k < n
        BY <1>1, <3>2, <3>4
      <4>2. Flat(a, T, P, parts, m) BY <3>1, <4>1
      <4>3. made[n] = a \o b /\ b \in Seq(T) BY <1>1, <2>3, <3>2, <3>4
      <4>4. a \in Seq(T) BY <4>2 DEF Flat
      <4>5. \A k \in 1..n : k \in DOMAIN parts BY <1>1, <3>2
      <4>6. \A k \in 1..m : \A p \in DOMAIN parts[k], j \in DOMAIN b : <<parts[k][p], b[j]>> \in P
        BY <4>1, <4>5
      <4>7. \A i, j \in DOMAIN b : i < j => <<b[i], b[j]>> \in P BY <4>1, <4>5
      <4> HIDE DEF a, b, m
      <4> DEFINE c == a \o b
      <4>8. /\ c \in Seq(T) /\ Len(c) = Len(a) + Len(b) /\ DOMAIN c = 1..Len(c)
            /\ \A i \in DOMAIN c : \/ i \in DOMAIN a /\ c[i] = a[i]
                                   \/ i > Len(a) /\ i - Len(a) \in DOMAIN b /\ c[i] = b[i - Len(a)]
            /\ \A i \in DOMAIN a : i \in DOMAIN c /\ c[i] = a[i]
            /\ \A i \in DOMAIN b : i + Len(a) \in DOMAIN c /\ c[i + Len(a)] = b[i]
        BY <4>3, <4>4, Joined DEF Catenated
      <4>9. /\ Len(a) \in Nat /\ Len(b) \in Nat
            /\ \A i \in DOMAIN a : i \in Nat /\ i <= Len(a) /\ \A i2 \in DOMAIN b : i2 \in Nat
        BY <4>3, <4>4
      <4> HIDE DEF c
      <4>10. /\ \A i \in DOMAIN a : \E k \in 1..m : \E p \in DOMAIN parts[k] : a[i] = parts[k][p]
             /\ \A k \in 1..m : \A p \in DOMAIN parts[k] : \E i \in DOMAIN a : a[i] = parts[k][p]
             /\ \A i, j \in DOMAIN a : i < j => <<a[i], a[j]>> \in P
        BY <4>2 DEF Flat
      <4>11. \A i \in DOMAIN a, j \in DOMAIN b : <<a[i], b[j]>> \in P BY <4>6, <4>10
      <4>12. ASSUME NEW i \in DOMAIN c
             PROVE  \E k \in 1..n : \E p \in DOMAIN parts[k] : c[i] = parts[k][p]
        <5>1. CASE i \in DOMAIN a /\ c[i] = a[i]
          <6>1. PICK k \in 1..m : \E p \in DOMAIN parts[k] : a[i] = parts[k][p] BY <4>10, <5>1
          <6>2. k \in 1..n BY <4>1
          <6> QED BY <5>1, <6>1, <6>2
        <5>2. CASE i - Len(a) \in DOMAIN b /\ c[i] = b[i - Len(a)]
          <6>1. n \in 1..n BY <4>1
          <6> QED BY <5>2, <6>1 DEF b
        <5> QED BY <4>8, <5>1, <5>2
      <4>13. ASSUME NEW k \in 1..n, NEW p \in DOMAIN parts[k]
             PROVE  \E i \in DOMAIN c : c[i] = parts[k][p]
        <5>1. CASE k \in 1..m BY <4>8, <4>10, <5>1
        <5>2. CASE k = n
          <6>1. p \in DOMAIN b /\ b[p] = parts[k][p] BY <5>2 DEF b
          <6> QED BY <4>8, <6>1
        <5> QED BY <4>1, <5>1, <5>2
      <4>14. ASSUME NEW i \in DOMAIN c, NEW j \in DOMAIN c, i < j PROVE <<c[i], c[j]>> \in P
        <5>1. i \in Int /\ j \in Int BY <4>8
        <5>2. CASE j \in DOMAIN a /\ c[j] = a[j]
          <6>1. i \in DOMAIN a /\ c[i] = a[i] BY <4>8, <4>9, <4>14, <5>1, <5>2
          <6> QED BY <4>10, <4>14, <5>2, <6>1
        <5>3. CASE j > Len(a) /\ j - Len(a) \in DOMAIN b /\ c[j] = b[j - Len(a)]
          <6>1. CASE i \in DOMAIN a /\ c[i] = a[i] BY <4>11, <5>3, <6>1
          <6>2. CASE i > Len(a) /\ i - Len(a) \in DOMAIN b /\ c[i] = b[i - Len(a)]
            <7>1. i - Len(a) < j - Len(a) BY <4>9, <4>14, <5>1
            <7> QED BY <4>7, <5>3, <6>2, <7>1
          <6> QED BY <4>8, <6>1, <6>2
        <5> QED BY <4>8, <5>2, <5>3
      <4>15. Flat(c, T, P, parts, n) BY <4>8, <4>12, <4>13, <4>14 DEF Flat
      <4> QED BY <3>2, <4>3, <4>15 DEF c
    <3> QED BY <3>3, <3>4
  <2>5. N \in 1..N BY <1>1, <1>3
  <2> QED BY <2>2, <2>4, <2>5 DEF N
<1> QED BY <1>2, <1>3

-----------------------------------------------------------------------------
(* The health check of a lab.                                              *)

\* What a machine's enrolment and heartbeat make of it.
Standing == {"unenrolled", "unseen", "online", "warning", "quiet"}

LabInv == machine \in [Machines -> Standing]
          /\ store.computers \in [Machines -> {toComputer(x) : x \in Standing}]

\* Every step keeps it.
LEMMA NextLab == LabInv /\ [LabNext]_lab => LabInv'
<1> SUFFICES ASSUME LabInv, [LabNext]_lab PROVE LabInv' OBVIOUS
<1>1. [m \in Machines |-> toComputer(machine[m])] \in [Machines -> {toComputer(x) : x \in Standing}]
  BY DEF LabInv
<1>2. CASE loadStateFromServer
  BY <1>1, <1>2 DEF loadStateFromServer, WholeState, Snapshot, LabInv
<1>3. CASE \E e \in Exam : loadExamSlice(e)
  <2>1. PICK e \in Exam : loadExamSlice(e) BY <1>3
  <2>2. /\ machine' = machine
        /\ store'.computers = [m \in Machines |-> IF LabOf[m] = Venue[e] THEN toComputer(machine[m])
                                                  ELSE store.computers[m]]
    BY <2>1 DEF loadExamSlice, Slice, Snapshot
  <2>3. \A m \in Machines : store'.computers[m] \in {toComputer(x) : x \in Standing}
    BY <2>2 DEF LabInv
  <2> QED BY <2>2, <2>3 DEF LabInv
<1>4. CASE \E m \in Machines : MachineReports(m)
  <2>0. PICK m \in Machines : MachineReports(m) BY <1>4
  <2>1. PICK to \in Reports[machine[m]] : machine' = [machine EXCEPT ![m] = to]
    BY <2>0 DEF MachineReports
  <2>2. machine[m] \in Standing BY DEF LabInv
  <2>3. to \in Standing BY <2>1, <2>2 DEF Reports, Standing
  <2>4. store' = store BY <2>0 DEF MachineReports, ServerMove
  <2> QED BY <2>1, <2>3, <2>4 DEF LabInv
<1>5. CASE UNCHANGED <<machine, store>>
  BY <1>5 DEF LabInv
<1>6. (\E e \in Exam : \E i \in DOMAIN hall[e] : SessionMoves(e, i) \/ HeartbeatAges(e, i))
        => UNCHANGED <<machine, store>>
  BY DEF SessionMoves, HeartbeatAges, ServerMove
<1>7. UNCHANGED lab => UNCHANGED <<machine, store>> BY DEF lab
<1> QED BY <1>2, <1>3, <1>4, <1>5, <1>6, <1>7 DEF LabNext

\* It holds at first.
LEMMA InitLab == LabInit => LabInv
<1> SUFFICES ASSUME LabInit PROVE LabInv OBVIOUS
<1>1. machine \in [Machines -> Standing] BY DEF LabInit, Standing
<1>2. store.computers = [m \in Machines |-> toComputer(machine[m])] BY DEF LabInit, WholeState, Snapshot
<1> QED BY <1>1, <1>2 DEF LabInv

\* The machines of a lab, and those of them of which something is said.
Own(l) == {m \in Machines : LabOf[m] = l}
Linked(l, c) == {m \in Own(l) : store.computers[m].connection = c}
NotEnrolled(l) == {m \in Own(l) : ~store.computers[m].enrolled}
NotSeen(l) == {m \in Own(l) : store.computers[m].enrolled /\ ~store.computers[m].seen}
WentQuiet(l) == {m \in Own(l) : store.computers[m].connection = "offline" /\ store.computers[m].seen}
Unusable(l) == {m \in Own(l) : store.computers[m].connection = "offline" \/ ~store.computers[m].enrolled}

\* The row of the health check and the card count these sets.
LEMMA LabCounts ==
  ASSUME NEW l
  PROVE  /\ checkLab(l).total = Cardinality(Own(l))
         /\ checkLab(l).online = Cardinality(Linked(l, "online"))
         /\ checkLab(l).warning = Cardinality(Linked(l, "warning"))
         /\ checkLab(l).offline = Cardinality(Linked(l, "offline"))
         /\ checkLab(l).neverEnrolled = Cardinality(NotEnrolled(l))
         /\ checkLab(l).neverSeen = Cardinality(NotSeen(l))
         /\ checkLab(l).quiet = Cardinality(WentQuiet(l))
         /\ checkLab(l).unusable = Cardinality(Unusable(l))
         /\ computeLabOccupancy(l).online = Cardinality(Linked(l, "online"))
         /\ computeLabOccupancy(l).warning = Cardinality(Linked(l, "warning"))
BY DEF checkLab, computeLabOccupancy, Own, Linked, NotEnrolled, NotSeen, WentQuiet, Unusable

\* Three parts of a finite set, none overlapping another.
LEMMA ThreeParts ==
  ASSUME NEW A, NEW B, NEW C, IsFiniteSet(A), IsFiniteSet(B), IsFiniteSet(C),
         A \cap B = {}, A \cap C = {}, B \cap C = {}
  PROVE  Cardinality(A \cup B \cup C) = Cardinality(A) + Cardinality(B) + Cardinality(C)
<1>1. IsFiniteSet(A \cup B) /\ Cardinality(A \cup B) = Cardinality(A) + Cardinality(B) - Cardinality({})
  BY FS_Union
<1>2. Cardinality({}) = 0 BY FS_EmptySet
<1>3. (A \cup B) \cap C = {} OBVIOUS
<1>4. Cardinality(A \cup B \cup C) = Cardinality(A \cup B) + Cardinality(C) - Cardinality({})
  BY <1>1, <1>3, FS_Union
<1>5. Cardinality(A) \in Nat /\ Cardinality(B) \in Nat /\ Cardinality(C) \in Nat
  BY FS_CardinalityType
<1> QED BY <1>1, <1>2, <1>4, <1>5

\* A machine is on line, late, or of no use, and of no use for one reason.
LEMMA MachineStands ==
  ASSUME LabInv, NEW m \in Machines
  PROVE  LET c == store.computers[m]
         IN  /\ c.connection \in {"online", "warning", "offline"} /\ c.enrolled \in BOOLEAN /\ c.seen \in BOOLEAN
             /\ c.connection # "offline" => c.enrolled /\ c.seen
             /\ c.seen => c.enrolled
<1>1. PICK x \in Standing : store.computers[m] = toComputer(x) BY DEF LabInv
<1>2. /\ toComputer(x).connection = IF x \in {"online", "warning"} THEN x ELSE "offline"
      /\ toComputer(x).enrolled = (x # "unenrolled")
      /\ toComputer(x).seen = (x \notin {"unenrolled", "unseen"})
  BY DEF toComputer
<1>3. /\ toComputer(x).enrolled \in BOOLEAN /\ toComputer(x).seen \in BOOLEAN
  BY <1>2
<1> QED BY <1>1, <1>2, <1>3 DEF Standing

\* The parts of a lab add up.
LEMMA LabParts ==
  ASSUME LabInv, NEW l
  PROVE  /\ IsFiniteSet(Own(l)) /\ \A S \in SUBSET Own(l) : IsFiniteSet(S) /\ Cardinality(S) \in Nat
         /\ Cardinality(Unusable(l)) =
              Cardinality(WentQuiet(l)) + Cardinality(NotSeen(l)) + Cardinality(NotEnrolled(l))
         /\ Cardinality(Own(l)) =
              Cardinality(Linked(l, "online")) + Cardinality(Linked(l, "warning")) + Cardinality(Unusable(l))
<1>1. Own(l) \in SUBSET Machines BY DEF Own
<1>2. IsFiniteSet(Own(l)) BY <1>1, LabAssumption, FS_Subset
<1>3. \A S \in SUBSET Own(l) : IsFiniteSet(S) /\ Cardinality(S) \in Nat
  BY <1>2, FS_Subset, FS_CardinalityType
<1>4. /\ Linked(l, "online") \in SUBSET Own(l) /\ Linked(l, "warning") \in SUBSET Own(l)
      /\ NotEnrolled(l) \in SUBSET Own(l) /\ NotSeen(l) \in SUBSET Own(l)
      /\ WentQuiet(l) \in SUBSET Own(l) /\ Unusable(l) \in SUBSET Own(l)
  BY DEF Linked, NotEnrolled, NotSeen, WentQuiet, Unusable
<1>5. \A m \in Own(l) :
        LET c == store.computers[m]
        IN  /\ c.connection \in {"online", "warning", "offline"} /\ c.enrolled \in BOOLEAN /\ c.seen \in BOOLEAN
            /\ c.connection # "offline" => c.enrolled /\ c.seen
            /\ c.seen => c.enrolled
  BY <1>1, MachineStands
<1>6. /\ Unusable(l) = WentQuiet(l) \cup NotSeen(l) \cup NotEnrolled(l)
      /\ WentQuiet(l) \cap NotSeen(l) = {} /\ WentQuiet(l) \cap NotEnrolled(l) = {}
      /\ NotSeen(l) \cap NotEnrolled(l) = {}
  BY <1>5 DEF Unusable, WentQuiet, NotSeen, NotEnrolled
<1>7. /\ Own(l) = Linked(l, "online") \cup Linked(l, "warning") \cup Unusable(l)
      /\ Linked(l, "online") \cap Linked(l, "warning") = {} /\ Linked(l, "online") \cap Unusable(l) = {}
      /\ Linked(l, "warning") \cap Unusable(l) = {}
  BY <1>5 DEF Unusable, Linked
<1>8. Cardinality(Unusable(l)) =
              Cardinality(WentQuiet(l)) + Cardinality(NotSeen(l)) + Cardinality(NotEnrolled(l))
  BY <1>3, <1>4, <1>6, ThreeParts
<1>9. Cardinality(Own(l)) =
              Cardinality(Linked(l, "online")) + Cardinality(Linked(l, "warning")) + Cardinality(Unusable(l))
  BY <1>3, <1>4, <1>7, ThreeParts
<1> QED BY <1>2, <1>3, <1>8, <1>9

\* A machine that cannot seat a candidate is described by one fault, and a lab is
\* well just when each of its machines is on line, in a lab of any size and
\* however the snapshot was put together (health.ts, checkLabs).
THEOREM FaultsDescribedOnce == LabSpec => []FaultsCountedOnce
<1>1. LabInv => FaultsCountedOnce
  <2> SUFFICES ASSUME LabInv, NEW l \in Labs
               PROVE  LET row == checkLab(l)
                      IN  /\ row.quiet + row.neverSeen + row.neverEnrolled = row.unusable
                          /\ row.online + row.warning + row.unusable = row.total
                          /\ labVerdict(row) = "ok" <=>
                               row.total > 0 /\ \A m \in Machines : LabOf[m] = l =>
                                                  store.computers[m].connection = "online"
    BY DEF FaultsCountedOnce
  <2> DEFINE row == checkLab(l)
  <2>1. /\ row.quiet \in Nat /\ row.neverSeen \in Nat /\ row.neverEnrolled \in Nat /\ row.unusable \in Nat
        /\ row.online \in Nat /\ row.warning \in Nat /\ row.offline \in Nat /\ row.total \in Nat
    <3>1. /\ Linked(l, "online") \in SUBSET Own(l) /\ Linked(l, "warning") \in SUBSET Own(l)
          /\ Linked(l, "offline") \in SUBSET Own(l)
          /\ NotEnrolled(l) \in SUBSET Own(l) /\ NotSeen(l) \in SUBSET Own(l)
          /\ WentQuiet(l) \in SUBSET Own(l) /\ Unusable(l) \in SUBSET Own(l) /\ Own(l) \in SUBSET Own(l)
      BY DEF Linked, NotEnrolled, NotSeen, WentQuiet, Unusable
    <3> QED BY <3>1, LabParts, LabCounts
  <2>2. /\ row.quiet + row.neverSeen + row.neverEnrolled = row.unusable
        /\ row.online + row.warning + row.unusable = row.total
    BY LabParts, LabCounts
  <2>3. labVerdict(row) = "ok" <=>
          /\ row.total > 0 /\ row.online > 0
          /\ row.offline = 0 /\ row.warning = 0 /\ row.neverEnrolled = 0 /\ row.neverSeen = 0
    <3> HIDE DEF row
    <3> QED BY <2>1 DEF labVerdict
  <2>4. (\A m \in Own(l) : store.computers[m].connection = "online") <=> Own(l) = Linked(l, "online")
    BY DEF Linked
  <2>5. Own(l) = Linked(l, "online") <=> row.online = row.total
    <3>1. IsFiniteSet(Own(l)) /\ Linked(l, "online") \in SUBSET Own(l) BY LabParts DEF Linked
    <3> QED BY <3>1, LabCounts, FS_Subset
  <2>6. row.offline <= row.unusable
    <3>1. IsFiniteSet(Unusable(l)) BY LabParts DEF Unusable
    <3>2. Linked(l, "offline") \in SUBSET Unusable(l) BY DEF Linked, Unusable
    <3> QED BY <3>1, <3>2, LabCounts, FS_Subset
  <2>7. row.offline = 0 => row.quiet = 0
    <3>1. IsFiniteSet(Linked(l, "offline")) BY LabParts DEF Linked
    <3>2. WentQuiet(l) \in SUBSET Linked(l, "offline") BY DEF Linked, WentQuiet
    <3>3. row.quiet <= row.offline BY <3>1, <3>2, LabCounts, FS_Subset
    <3> HIDE DEF row
    <3> QED BY <3>3, <2>1
  <2>8. labVerdict(row) = "ok" <=> row.total > 0 /\ row.online = row.total
    <3> HIDE DEF row
    <3>1. ASSUME row.total > 0, row.online = row.total PROVE labVerdict(row) = "ok"
      <4>1. row.warning = 0 /\ row.unusable = 0 BY <2>1, <2>2, <3>1
      <4>2. row.neverEnrolled = 0 /\ row.neverSeen = 0 BY <2>1, <2>2, <4>1
      <4>3. row.offline = 0 BY <2>1, <2>6, <4>1
      <4> QED BY <2>1, <2>3, <3>1, <4>1, <4>2, <4>3
    <3>2. ASSUME labVerdict(row) = "ok" PROVE row.total > 0 /\ row.online = row.total
      <4>1. /\ row.total > 0 /\ row.quiet = 0 /\ row.neverEnrolled = 0 /\ row.neverSeen = 0 /\ row.warning = 0
        BY <2>3, <2>7, <3>2
      <4>2. row.unusable = 0 BY <2>1, <2>2, <4>1
      <4> QED BY <2>1, <2>2, <4>1, <4>2
    <3> QED BY <3>1, <3>2
  <2>9. \A m : m \in Own(l) <=> m \in Machines /\ LabOf[m] = l BY DEF Own
  <2> QED BY <2>2, <2>4, <2>5, <2>8, <2>9
<1> QED BY <1>1, InitLab, NextLab, PTL DEF LabSpec

\* The card of a lab and the health check say the same of it (labs.tsx,
\* LabOverview; health.ts, labVerdict).
THEOREM CardsAgree == LabSpec => []CardAgreesWithCheck
<1>1. LabInv => CardAgreesWithCheck
  <2> SUFFICES ASSUME LabInv, NEW l \in Labs
               PROVE  LET verdict == labVerdict(checkLab(l))
                      IN  /\ LabCard(l) = "offline" <=> verdict = "unusable"
                          /\ verdict = "ok" => LabCard(l) = "online"
    BY DEF CardAgreesWithCheck
  <2> DEFINE row == checkLab(l)
             occ == computeLabOccupancy(l)
  <2>1. row.online = occ.online /\ row.warning = occ.warning BY LabCounts
  <2>2. row.online \in Nat /\ row.warning \in Nat /\ row.unusable \in Nat /\ row.total \in Nat
    <3>1. /\ Linked(l, "online") \in SUBSET Own(l) /\ Linked(l, "warning") \in SUBSET Own(l)
          /\ Unusable(l) \in SUBSET Own(l) /\ Own(l) \in SUBSET Own(l)
      BY DEF Linked, Unusable
    <3> QED BY <3>1, LabParts, LabCounts
  <2>3. row.online + row.warning + row.unusable = row.total BY LabParts, LabCounts
  <2>4. LabCard(l) = labLiveStatus(occ) BY DEF LabCard
  <2> HIDE DEF row, occ
  <2>5. labLiveStatus(occ) = "offline" <=> labVerdict(row) = "unusable"
    BY <2>1, <2>2, <2>3 DEF labLiveStatus, labVerdict
  <2>6. labVerdict(row) = "ok" => labLiveStatus(occ) = "online"
    BY <2>1, <2>2, <2>3 DEF labLiveStatus, labVerdict
  <2> QED BY <2>4, <2>5, <2>6 DEF row, occ
<1> QED BY <1>1, InitLab, NextLab, PTL DEF LabSpec

-----------------------------------------------------------------------------
(* The snapshot of a lab.                                                  *)

Spot == Machines \cup {Unassigned}
HallRow == [student : Persons, computer : Spot, status : SessionStatus, connection : Connection]
Shown == {"not-ready", "ready", "in-progress", "submitted", "terminated"}
SessionRow == [test : Exam, student : Persons, computer : Spot, connection : Connection,
               examStatus : Shown]

\* Each person sits once in an examination, at a machine nobody else has in it.
HallRows(rows) ==
  /\ rows \in Seq(HallRow)
  /\ \A p \in Persons : \E i \in DOMAIN rows : rows[i].student = p
  /\ \A i, j \in DOMAIN rows : rows[i].student = rows[j].student => i = j
  /\ \A i, j \in DOMAIN rows : rows[i].computer = rows[j].computer /\ rows[i].computer # Unassigned => i = j

HallInv == DOMAIN hall = Exam /\ \A e \in Exam : HallRows(hall[e])

\* A snapshot has each person once in each examination.
Full(sessions) ==
  /\ sessions \in Seq(SessionRow)
  /\ \A e \in Exam, p \in Persons : \E i \in DOMAIN sessions : sessions[i].test = e /\ sessions[i].student = p
  /\ \A i, j \in DOMAIN sessions :
        sessions[i].test = sessions[j].test /\ sessions[i].student = sessions[j].student => i = j

\* A row of the snapshot has the seat of a row of the server; a current one is
\* that row.
HasSeat(s) == \E k \in DOMAIN hall[s.test] : /\ hall[s.test][k].student = s.student
                                             /\ hall[s.test][k].computer = s.computer
IsCurrent(s) == \E k \in DOMAIN hall[s.test] : s = toSession(s.test, hall[s.test][k])

StoreInv ==
  /\ Full(store.sessions)
  /\ \A i \in DOMAIN store.sessions : HasSeat(store.sessions[i])
  /\ unchanged => \A i \in DOMAIN store.sessions : IsCurrent(store.sessions[i])
  /\ unchanged => store.computers = [m \in Machines |-> toComputer(machine[m])]
  /\ \A m \in Machines : store.assigned[m] = seatedBy(store.sessions, m)

\* What the conversion makes of a row on the server.
LEMMA RowShown ==
  ASSUME HallInv, NEW e \in Exam, NEW k \in DOMAIN hall[e]
  PROVE  LET s == toSession(e, hall[e][k])
         IN  /\ s \in SessionRow /\ s.test = e /\ s.student = hall[e][k].student
             /\ s.computer = hall[e][k].computer
             /\ HasSeat(s) /\ IsCurrent(s)
<1> DEFINE row == hall[e][k]
           s == toSession(e, row)
<1>1. row \in HallRow BY DEF HallInv, HallRows
<1>2. /\ s.test = e /\ s.student = row.student /\ s.computer = row.computer
      /\ s = [test |-> e, student |-> row.student, computer |-> row.computer,
              connection |-> row.connection, examStatus |-> SESSION_STATUS_FROM_SERVER[row.status]]
  BY DEF toSession
<1>3. SESSION_STATUS_FROM_SERVER[row.status] \in Shown
  <2>1. row.status \in SessionStatus BY <1>1 DEF HallRow
  <2> QED BY <2>1 DEF SESSION_STATUS_FROM_SERVER, SessionStatus, Shown
<1> HIDE DEF s
<1>4. s \in SessionRow BY <1>1, <1>2, <1>3 DEF SessionRow, HallRow
<1>5. HasSeat(s) BY <1>2 DEF HasSeat
<1>6. IsCurrent(s) BY <1>2 DEF IsCurrent, s
<1> QED BY <1>2, <1>4, <1>5, <1>6 DEF s

\* The rows of one examination as the snapshot takes them.
LEMMA OwnRows ==
  ASSUME HallInv, NEW e \in Exam
  PROVE  /\ Rows(e) \in Seq(SessionRow) /\ DOMAIN Rows(e) = DOMAIN hall[e]
         /\ \A k \in DOMAIN hall[e] :
               /\ Rows(e)[k] = toSession(e, hall[e][k])
               /\ Rows(e)[k].test = e /\ Rows(e)[k].student = hall[e][k].student
               /\ Rows(e)[k].computer = hall[e][k].computer
               /\ HasSeat(Rows(e)[k]) /\ IsCurrent(Rows(e)[k])
         /\ \A p \in Persons : \E k \in DOMAIN hall[e] : Rows(e)[k].student = p
         /\ \A j, k \in DOMAIN hall[e] : Rows(e)[j].student = Rows(e)[k].student => j = k
<1>1. /\ hall[e] \in Seq(HallRow) /\ DOMAIN hall[e] = 1..Len(hall[e]) /\ Len(hall[e]) \in Nat
      /\ \A p \in Persons : \E k \in DOMAIN hall[e] : hall[e][k].student = p
      /\ \A j, k \in DOMAIN hall[e] : hall[e][j].student = hall[e][k].student => j = k
  BY DEF HallInv, HallRows
<1>2. Rows(e) = [i \in DOMAIN hall[e] |-> toSession(e, hall[e][i])] BY DEF Rows
<1>3. \A k \in DOMAIN hall[e] : Rows(e)[k] = toSession(e, hall[e][k]) BY <1>2
<1>4. \A k \in DOMAIN hall[e] :
         /\ Rows(e)[k] \in SessionRow
         /\ Rows(e)[k].test = e /\ Rows(e)[k].student = hall[e][k].student
         /\ Rows(e)[k].computer = hall[e][k].computer
         /\ HasSeat(Rows(e)[k]) /\ IsCurrent(Rows(e)[k])
  BY <1>3, RowShown
<1>5. Rows(e) \in [1..Len(hall[e]) -> SessionRow]
  <2>1. Rows(e) = [i \in 1..Len(hall[e]) |-> Rows(e)[i]] BY <1>1, <1>2
  <2> QED BY <1>1, <1>4, <2>1
<1>6. Rows(e) \in Seq(SessionRow) /\ DOMAIN Rows(e) = DOMAIN hall[e] BY <1>1, <1>5
<1> QED BY <1>1, <1>3, <1>4, <1>6

\* Two rows of different candidates or examinations.
Apart == {p \in SessionRow \X SessionRow : p[1].test # p[2].test \/ p[1].student # p[2].student}

\* Of rows that all stand apart, no two are of one candidate in one examination.
LEMMA AllApart ==
  ASSUME NEW sessions \in Seq(SessionRow),
         \A i, j \in DOMAIN sessions : i < j => <<sessions[i], sessions[j]>> \in Apart,
         NEW i \in DOMAIN sessions, NEW j \in DOMAIN sessions,
         sessions[i].test = sessions[j].test, sessions[i].student = sessions[j].student
  PROVE  i = j
<1>1. i \in Nat /\ j \in Nat OBVIOUS
<1>2. ~(i < j)
  <2>1. <<sessions[i], sessions[j]>> \notin Apart BY DEF Apart
  <2> QED BY <2>1
<1>3. ~(j < i)
  <2>1. <<sessions[j], sessions[i]>> \notin Apart BY DEF Apart
  <2> QED BY <2>1
<1> QED BY <1>1, <1>2, <1>3

\* A whole read has everybody once, as the server has them.
LEMMA WholeRead ==
  ASSUME HallInv
  PROVE  LET all == WholeState.sessions
         IN  /\ Full(all)
             /\ \A i \in DOMAIN all : HasSeat(all[i]) /\ IsCurrent(all[i])
             /\ \A e \in Exam : \A k \in DOMAIN hall[e] :
                   \E i \in DOMAIN all : all[i] = toSession(e, hall[e][k])
             /\ WholeState.computers = [m \in Machines |-> toComputer(machine[m])]
             /\ \A m \in Machines : WholeState.assigned[m] = seatedBy(all, m)
<1> DEFINE parts == [k \in DOMAIN Sittings |-> Rows(Sittings[k])]
           all == FlattenSeq(parts)
<1>1. /\ WholeState.sessions = all
      /\ WholeState.computers = [m \in Machines |-> toComputer(machine[m])]
      /\ \A m \in Machines : WholeState.assigned[m] = seatedBy(all, m)
  BY DEF WholeState, Snapshot
<1>2. /\ DOMAIN Sittings = 1..Len(Sittings) /\ Len(Sittings) \in Nat
      /\ \A k \in DOMAIN Sittings : Sittings[k] \in Exam
      /\ \A k, l \in DOMAIN Sittings : Sittings[k] = Sittings[l] => k = l
      /\ \A e \in Exam : \E k \in DOMAIN Sittings : Sittings[k] = e
  BY LabAssumption DEF Exam, ToSet, IsInjective
<1>3. \A k \in DOMAIN Sittings : parts[k] = Rows(Sittings[k]) /\ parts[k] \in Seq(SessionRow)
  BY <1>2, OwnRows
<1>4. parts \in Seq(Seq(SessionRow)) /\ DOMAIN parts = DOMAIN Sittings /\ Len(parts) = Len(Sittings)
  <2>1. parts \in [1..Len(Sittings) -> Seq(SessionRow)] /\ DOMAIN parts = DOMAIN Sittings BY <1>2, <1>3
  <2> HIDE DEF parts
  <2> QED BY <1>2, <2>1
<1> HIDE DEF parts
<1>5. \A k \in DOMAIN parts : \A i, j \in DOMAIN parts[k] : i < j => <<parts[k][i], parts[k][j]>> \in Apart
  <2> SUFFICES ASSUME NEW k \in DOMAIN parts, NEW i \in DOMAIN parts[k], NEW j \in DOMAIN parts[k], i < j
               PROVE  <<parts[k][i], parts[k][j]>> \in Apart
    OBVIOUS
  <2>1. i \in DOMAIN hall[Sittings[k]] /\ j \in DOMAIN hall[Sittings[k]] /\ parts[k] = Rows(Sittings[k])
    BY <1>2, <1>3, <1>4, OwnRows
  <2>2. i # j
    <3>1. i \in Nat /\ j \in Nat BY <1>3, <1>4
    <3> QED BY <3>1
  <2>3. parts[k][i].student # parts[k][j].student BY <1>2, <1>4, <2>1, <2>2, OwnRows
  <2>4. parts[k][i] \in SessionRow /\ parts[k][j] \in SessionRow BY <1>3, <1>4
  <2> QED BY <2>3, <2>4 DEF Apart
<1>6. \A k, l \in DOMAIN parts : k < l =>
         \A i \in DOMAIN parts[k], j \in DOMAIN parts[l] : <<parts[k][i], parts[l][j]>> \in Apart
  <2> SUFFICES ASSUME NEW k \in DOMAIN parts, NEW l \in DOMAIN parts, k < l,
                      NEW i \in DOMAIN parts[k], NEW j \in DOMAIN parts[l]
               PROVE  <<parts[k][i], parts[l][j]>> \in Apart
    OBVIOUS
  <2>1. /\ i \in DOMAIN hall[Sittings[k]] /\ j \in DOMAIN hall[Sittings[l]]
        /\ parts[k] = Rows(Sittings[k]) /\ parts[l] = Rows(Sittings[l])
    BY <1>2, <1>3, <1>4, OwnRows
  <2>2. Sittings[k] # Sittings[l]
    <3>1. k \in Nat /\ l \in Nat BY <1>2, <1>4
    <3>2. k # l BY <3>1
    <3> QED BY <1>2, <1>4, <3>2
  <2>3. parts[k][i].test = Sittings[k] /\ parts[l][j].test = Sittings[l] BY <1>2, <1>4, <2>1, OwnRows
  <2>4. parts[k][i] \in SessionRow /\ parts[l][j] \in SessionRow BY <1>3, <1>4
  <2> QED BY <2>2, <2>3, <2>4 DEF Apart
<1>7. Flat(all, SessionRow, Apart, parts, Len(parts)) BY <1>4, <1>5, <1>6, Flattened
<1>8. /\ all \in Seq(SessionRow)
      /\ \A i \in DOMAIN all : \E k \in DOMAIN Sittings : \E p \in DOMAIN parts[k] : all[i] = parts[k][p]
      /\ \A k \in DOMAIN Sittings : \A p \in DOMAIN parts[k] : \E i \in DOMAIN all : all[i] = parts[k][p]
      /\ \A i, j \in DOMAIN all : i < j => <<all[i], all[j]>> \in Apart
  BY <1>2, <1>4, <1>7 DEF Flat
<1> HIDE DEF all
<1>9. ASSUME NEW e \in Exam, NEW k \in DOMAIN hall[e]
      PROVE  \E i \in DOMAIN all : all[i] = toSession(e, hall[e][k])
  <2>1. PICK l \in DOMAIN Sittings : Sittings[l] = e BY <1>2
  <2>2. k \in DOMAIN parts[l] /\ parts[l][k] = toSession(e, hall[e][k]) BY <1>3, <2>1, OwnRows
  <2> QED BY <1>8, <2>2
<1>10. ASSUME NEW i \in DOMAIN all PROVE HasSeat(all[i]) /\ IsCurrent(all[i])
  <2>1. PICK k \in DOMAIN Sittings : \E p \in DOMAIN parts[k] : all[i] = parts[k][p] BY <1>8
  <2>2. PICK p \in DOMAIN parts[k] : all[i] = parts[k][p] BY <2>1
  <2>3. p \in DOMAIN hall[Sittings[k]] /\ parts[k] = Rows(Sittings[k]) BY <1>2, <1>3, OwnRows
  <2> QED BY <1>2, <2>2, <2>3, OwnRows
<1>11. ASSUME NEW e \in Exam, NEW p \in Persons
       PROVE  \E i \in DOMAIN all : all[i].test = e /\ all[i].student = p
  <2>1. PICK k \in DOMAIN hall[e] : Rows(e)[k].student = p BY OwnRows
  <2>2. PICK i \in DOMAIN all : all[i] = toSession(e, hall[e][k]) BY <1>9
  <2>3. all[i] = Rows(e)[k] /\ all[i].test = e BY <2>2, OwnRows
  <2> QED BY <2>1, <2>3
<1>12. \A i, j \in DOMAIN all : all[i].test = all[j].test /\ all[i].student = all[j].student => i = j
  BY <1>8, AllApart
<1>13. Full(all) BY <1>8, <1>11, <1>12 DEF Full
<1> QED BY <1>1, <1>9, <1>10, <1>13

\* One examination read again and merged.
LEMMA SliceRead ==
  ASSUME HallInv, StoreInv, NEW e \in Exam
  PROVE  LET merged == Slice(e).sessions
         IN  /\ Full(merged)
             /\ \A i \in DOMAIN merged : /\ HasSeat(merged[i])
                                         /\ unchanged => IsCurrent(merged[i])
             /\ unchanged => Slice(e).computers = [m \in Machines |-> toComputer(machine[m])]
             /\ \A m \in Machines : Slice(e).assigned[m] = seatedBy(merged, m)
<1> DEFINE old == store.sessions
           at == {i \in DOMAIN old : old[i].test # e}
           others == Filter(old, LAMBDA s : s.test # e)
           own == Rows(e)
           merged == others \o own
<1>1. /\ Slice(e).sessions = merged
      /\ Slice(e).computers = [m \in Machines |-> IF LabOf[m] = Venue[e] THEN toComputer(machine[m])
                                                  ELSE store.computers[m]]
      /\ \A m \in Machines : Slice(e).assigned[m] = seatedBy(merged, m)
  BY DEF Slice, Snapshot
<1>2. unchanged => Slice(e).computers = [m \in Machines |-> toComputer(machine[m])]
  <2>1. unchanged => store.computers = [m \in Machines |-> toComputer(machine[m])] BY DEF StoreInv
  <2> QED BY <1>1, <2>1
<1>3. /\ old \in Seq(SessionRow)
      /\ \A d \in Exam, p \in Persons : \E i \in DOMAIN old : old[i].test = d /\ old[i].student = p
      /\ \A i, j \in DOMAIN old : old[i].test = old[j].test /\ old[i].student = old[j].student => i = j
      /\ \A i \in DOMAIN old : HasSeat(old[i]) /\ (unchanged => IsCurrent(old[i]))
  BY DEF StoreInv, Full
<1>4. Sifted(others, old, at, SessionRow)
  <2>1. at \subseteq DOMAIN old OBVIOUS
  <2>2. others = LET kept == InOrder(at, Upward(at)) IN [k \in DOMAIN kept |-> old[kept[k]]] BY DEF Filter
  <2> HIDE DEF at, others, old
  <2> QED BY <1>3, <2>1, <2>2, Kept
<1>5. PICK kept \in [DOMAIN others -> at] :
         /\ \A k \in DOMAIN others : others[k] = old[kept[k]]
         /\ \A i \in at : \E k \in DOMAIN others : kept[k] = i
         /\ \A j, k \in DOMAIN others : kept[j] = kept[k] => j = k
  BY <1>4 DEF Sifted
<1>6. others \in Seq(SessionRow) BY <1>4 DEF Sifted
<1>7. \A k \in DOMAIN others : /\ kept[k] \in DOMAIN old /\ old[kept[k]].test # e
                               /\ others[k] = old[kept[k]]
  BY <1>5
<1>8. ASSUME NEW i \in DOMAIN old, old[i].test # e PROVE \E k \in DOMAIN others : others[k] = old[i]
  <2>1. i \in at BY <1>8
  <2>2. PICK k \in DOMAIN others : kept[k] = i BY <1>5, <2>1
  <2> QED BY <1>7, <2>2
<1>9. /\ own \in Seq(SessionRow) /\ DOMAIN own = DOMAIN hall[e]
      /\ \A k \in DOMAIN own : own[k].test = e /\ HasSeat(own[k]) /\ IsCurrent(own[k])
      /\ \A p \in Persons : \E k \in DOMAIN own : own[k].student = p
      /\ \A j, k \in DOMAIN own : own[j].student = own[k].student => j = k
  BY OwnRows
<1> HIDE DEF at, others, own, old
<1>10. Catenated(others, own, merged, SessionRow) BY <1>6, <1>9, Joined
<1> HIDE DEF merged
<1>11. /\ merged \in Seq(SessionRow)
       /\ \A i \in DOMAIN merged :
             \/ i \in DOMAIN others /\ merged[i] = others[i]
             \/ i > Len(others) /\ i - Len(others) \in DOMAIN own /\ merged[i] = own[i - Len(others)]
       /\ \A k \in DOMAIN others : k \in DOMAIN merged /\ merged[k] = others[k]
       /\ \A k \in DOMAIN own : k + Len(others) \in DOMAIN merged /\ merged[k + Len(others)] = own[k]
  BY <1>10 DEF Catenated
<1>12. ASSUME NEW i \in DOMAIN merged
       PROVE  HasSeat(merged[i]) /\ (unchanged => IsCurrent(merged[i]))
  <2>1. (\E k \in DOMAIN others : merged[i] = others[k]) \/ (\E k \in DOMAIN own : merged[i] = own[k])
    BY <1>11
  <2> QED BY <1>3, <1>7, <1>9, <2>1
<1>13. ASSUME NEW d \in Exam, NEW p \in Persons
       PROVE  \E i \in DOMAIN merged : merged[i].test = d /\ merged[i].student = p
  <2>1. CASE d = e
    <3>1. PICK k \in DOMAIN own : own[k].student = p BY <1>9
    <3>2. own[k].test = e BY <1>9
    <3>3. k + Len(others) \in DOMAIN merged /\ merged[k + Len(others)] = own[k] BY <1>11
    <3> QED BY <2>1, <3>1, <3>2, <3>3
  <2>2. CASE d # e
    <3>1. PICK i \in DOMAIN old : old[i].test = d /\ old[i].student = p BY <1>3
    <3>2. PICK k \in DOMAIN others : others[k] = old[i] BY <1>8, <2>2, <3>1
    <3> QED BY <1>11, <3>1, <3>2
  <2> QED BY <2>1, <2>2
<1>14. ASSUME NEW i \in DOMAIN merged, NEW j \in DOMAIN merged,
              merged[i].test = merged[j].test, merged[i].student = merged[j].student
       PROVE  i = j
  <2>0. i \in Int /\ j \in Int /\ Len(others) \in Int BY <1>6, <1>11
  <2>1. CASE merged[i].test = e
    <3>1. \A k \in DOMAIN merged : merged[k].test = e =>
             k - Len(others) \in DOMAIN own /\ merged[k] = own[k - Len(others)]
      BY <1>7, <1>11
    <3> DEFINE x == i - Len(others)
               y == j - Len(others)
    <3>2. /\ x \in DOMAIN own /\ merged[i] = own[x]
          /\ y \in DOMAIN own /\ merged[j] = own[y]
      BY <1>14, <2>1, <3>1
    <3> HIDE DEF x, y
    <3>3. own[x].student = own[y].student BY <1>14, <3>2
    <3>4. x = y BY <1>9, <3>2, <3>3
    <3> QED BY <2>0, <3>4 DEF x, y
  <2>2. CASE merged[i].test # e
    <3>1. \A k \in DOMAIN merged : merged[k].test # e => k \in DOMAIN others /\ merged[k] = others[k]
      BY <1>9, <1>11
    <3>2. i \in DOMAIN others /\ merged[i] = others[i] /\ j \in DOMAIN others /\ merged[j] = others[j]
      BY <1>14, <2>2, <3>1
    <3>3. kept[i] = kept[j] BY <1>3, <1>7, <1>14, <3>2
    <3> QED BY <1>5, <3>2, <3>3
  <2> QED BY <2>1, <2>2
<1>15. Full(merged) BY <1>11, <1>13, <1>14 DEF Full
<1> QED BY <1>1, <1>2, <1>12, <1>15 DEF merged

\* A set written out as a list.
LEMMA WrittenOut ==
  ASSUME NEW S, IsFiniteSet(S)
  PROVE  /\ SetToSeq(S) \in Seq(S) /\ \A x \in S : \E i \in DOMAIN SetToSeq(S) : SetToSeq(S)[i] = x
         /\ \A i, j \in DOMAIN SetToSeq(S) : SetToSeq(S)[i] = SetToSeq(S)[j] => i = j
<1> DEFINE n == Cardinality(S)
           list == SetToSeq(S)
<1>1. n \in Nat /\ ExistsBijection(1..n, S) BY FS_CardinalityType
<1>2. \E f \in [1..n -> S] : IsInjective(f)
  BY <1>1 DEF ExistsBijection, Bijection, Injection
<1>3. list \in [1..n -> S] /\ IsInjective(list) BY <1>2 DEF SetToSeq
<1> HIDE DEF list, n
<1>4. list \in Injection(1..n, S) BY <1>3 DEF Injection
<1>5. IsFiniteSet(1..n) /\ Cardinality(1..n) = n BY <1>1, FS_Interval
<1>6. list \in Surjection(1..n, S) BY <1>4, <1>5, FS_Injection DEF n
<1>7. DOMAIN list = 1..n BY <1>3
<1>8. list \in Seq(S) BY <1>1, <1>3
<1> QED BY <1>3, <1>6, <1>7, <1>8 DEF Surjection, IsInjective, list

\* The rows of the first seating.
LEMMA SeatedAtFirst ==
  ASSUME NEW e \in Exam, NEW f \in Seatings(e)
  PROVE  HallRows(SeatedRows(f))
<1> DEFINE row == [p \in Persons |-> [student |-> p, computer |-> f[p], status |-> "ACTIVE", connection |-> "online"]]
           all == {row[p] : p \in Persons}
           rows == SeatedRows(f)
<1>1. /\ \A p \in Persons : f[p] \in Spot
      /\ \A p, q \in Persons : p # q /\ f[p] = f[q] => f[p] = Unassigned
  BY DEF Seatings, Spot
<1>2. \A p \in Persons : /\ row[p] \in HallRow /\ row[p].student = p /\ row[p].computer = f[p]
  BY <1>1 DEF HallRow, SessionStatus, Connection
<1>3. rows = SetToSeq(all)
  <2>1. all = {[student |-> p, computer |-> f[p], status |-> "ACTIVE", connection |-> "online"] : p \in Persons}
    OBVIOUS
  <2> HIDE DEF all
  <2> QED BY <2>1 DEF SeatedRows
<1> HIDE DEF row
<1>4. IsFiniteSet(all)
  <2> DEFINE g == [p \in Persons |-> row[p]]
  <2>1. g \in Surjection(Persons, all) BY DEF Surjection
  <2> QED BY <2>1, LabAssumption, FS_Surjection
<1>5. \A x \in all : \E p \in Persons : x = row[p] OBVIOUS
<1>6. \A p \in Persons : row[p] \in all OBVIOUS
<1> HIDE DEF all, rows
<1>7. /\ rows \in Seq(all) /\ \A x \in all : \E i \in DOMAIN rows : rows[i] = x
      /\ \A i, j \in DOMAIN rows : rows[i] = rows[j] => i = j
  BY <1>3, <1>4, WrittenOut
<1>8. \A i \in DOMAIN rows : \E p \in Persons : rows[i] = row[p]
  <2>1. \A i \in DOMAIN rows : rows[i] \in all BY <1>7
  <2> QED BY <1>5, <2>1
<1>9. rows \in Seq(HallRow)
  <2>1. \A x \in all : x \in HallRow BY <1>2, <1>5
  <2> QED BY <1>7, <2>1
<1>10. \A p \in Persons : \E i \in DOMAIN rows : rows[i].student = p
  <2> TAKE p \in Persons
  <2>1. PICK i \in DOMAIN rows : rows[i] = row[p] BY <1>6, <1>7
  <2> QED BY <1>2, <2>1
<1>11. ASSUME NEW i \in DOMAIN rows, NEW j \in DOMAIN rows,
              \/ rows[i].student = rows[j].student
              \/ rows[i].computer = rows[j].computer /\ rows[i].computer # Unassigned
       PROVE  i = j
  <2>1. PICK p \in Persons : rows[i] = row[p] BY <1>8
  <2>2. PICK q \in Persons : rows[j] = row[q] BY <1>8
  <2>3. p = q BY <1>1, <1>2, <1>11, <2>1, <2>2
  <2> QED BY <1>7, <2>1, <2>2, <2>3
<1> QED BY <1>9, <1>10, <1>11 DEF HallRows, rows

\* The first snapshot is a whole read.
LEMMA ScreensInit == LabInit => HallInv /\ StoreInv
<1> SUFFICES ASSUME LabInit PROVE HallInv /\ StoreInv OBVIOUS
<1>1. DOMAIN hall = Exam /\ \A e \in Exam : \E f \in Seatings(e) : hall[e] = SeatedRows(f) BY DEF LabInit
<1>2. HallInv BY <1>1, SeatedAtFirst DEF HallInv
<1>3. store = WholeState BY DEF LabInit
<1>4. StoreInv BY <1>2, <1>3, WholeRead DEF StoreInv
<1> QED BY <1>2, <1>4

\* Nobody is moved to another machine.
LEMMA SeatsRest ==
  ASSUME HallInv, StoreInv, DOMAIN hall' = Exam,
         \A e \in Exam : /\ hall'[e] \in Seq(HallRow) /\ DOMAIN hall'[e] = DOMAIN hall[e]
                         /\ \A k \in DOMAIN hall[e] : /\ hall'[e][k].student = hall[e][k].student
                                                      /\ hall'[e][k].computer = hall[e][k].computer,
         store' = store, ~unchanged'
  PROVE  HallInv' /\ StoreInv'
<1>1. ASSUME NEW e \in Exam PROVE HallRows(hall'[e])
  <2>1. HallRows(hall[e]) BY DEF HallInv
  <2>2. /\ hall'[e] \in Seq(HallRow) /\ DOMAIN hall'[e] = DOMAIN hall[e]
        /\ \A k \in DOMAIN hall[e] : /\ hall'[e][k].student = hall[e][k].student
                                     /\ hall'[e][k].computer = hall[e][k].computer
    OBVIOUS
  <2> DEFINE old == hall[e]
             new == hall'[e]
  <2> HIDE DEF old, new
  <2>3. HallRows(old) /\ new \in Seq(HallRow) /\ DOMAIN new = DOMAIN old
        /\ \A k \in DOMAIN old : new[k].student = old[k].student /\ new[k].computer = old[k].computer
    BY <2>1, <2>2 DEF old, new
  <2>4. HallRows(new) BY <2>3 DEF HallRows
  <2> QED BY <2>4 DEF new
<1>2. HallInv' BY <1>1 DEF HallInv, HallRows, HallRow, Spot, Exam
<1>3. ASSUME NEW i \in DOMAIN store.sessions PROVE HasSeat(store.sessions[i])'
  <2> DEFINE s == store.sessions[i]
  <2>0. store.sessions \in Seq(SessionRow) /\ HasSeat(s) BY DEF StoreInv, Full
  <2>1. HasSeat(s) /\ s.test \in Exam
    <3>1. s \in SessionRow BY <2>0
    <3> QED BY <2>0, <3>1 DEF SessionRow
  <2>2. store'.sessions[i] = s OBVIOUS
  <2> HIDE DEF s
  <2>3. PICK k \in DOMAIN hall[s.test] : /\ hall[s.test][k].student = s.student
                                         /\ hall[s.test][k].computer = s.computer
    BY <2>1 DEF HasSeat
  <2>4. /\ k \in DOMAIN hall'[s.test] /\ hall'[s.test][k].student = s.student
        /\ hall'[s.test][k].computer = s.computer
    BY <2>1, <2>3
  <2> QED BY <2>2, <2>4 DEF HasSeat, s
<1>4. Full(store.sessions)' BY DEF StoreInv, Full
<1>5. (\A m \in Machines : store.assigned[m] = seatedBy(store.sessions, m))'
  <2>1. \A m \in Machines : store.assigned[m] = seatedBy(store.sessions, m) BY DEF StoreInv
  <2> DEFINE Agrees(s) == \A m \in Machines : s.assigned[m] = seatedBy(s.sessions, m)
  <2>2. Agrees(store) BY <2>1
  <2> HIDE DEF Agrees
  <2>3. Agrees(store') BY <2>2
  <2> QED BY <2>3 DEF Agrees, seatedBy
<1> QED BY <1>2, <1>3, <1>4, <1>5 DEF StoreInv

\* A read of the snapshot.
LEMMA StoreRead ==
  ASSUME HallInv, NEW copy, store' = copy, UNCHANGED <<hall, machine>>, Full(copy.sessions),
         \A i \in DOMAIN copy.sessions : HasSeat(copy.sessions[i]),
         unchanged' => \A i \in DOMAIN copy.sessions : IsCurrent(copy.sessions[i]),
         unchanged' => copy.computers = [m \in Machines |-> toComputer(machine[m])],
         \A m \in Machines : copy.assigned[m] = seatedBy(copy.sessions, m)
  PROVE  HallInv' /\ StoreInv'
<1>1. hall' = hall /\ machine' = machine OBVIOUS
<1>2. HallInv'
  <2>1. DOMAIN hall' = Exam /\ \A e \in Exam : HallRows(hall'[e]) BY <1>1 DEF HallInv
  <2> QED BY <2>1 DEF HallInv, HallRows, HallRow, Spot, Exam
<1>3. (\A i \in DOMAIN store.sessions : HasSeat(store.sessions[i]))' BY <1>1 DEF HasSeat
<1>4. (unchanged => \A i \in DOMAIN store.sessions : IsCurrent(store.sessions[i]))'
  BY <1>1 DEF IsCurrent, toSession
<1>5. (\A m \in Machines : store.assigned[m] = seatedBy(store.sessions, m))' BY DEF seatedBy
<1>6. Full(store.sessions)' BY DEF Full
<1>7. (unchanged => store.computers = [m \in Machines |-> toComputer(machine[m])])' BY <1>1
<1> QED BY <1>2, <1>3, <1>4, <1>5, <1>6, <1>7 DEF StoreInv

\* Server and snapshot keep their shape in every step.
LEMMA ScreensStep ==
  ASSUME HallInv, StoreInv, [LabNext]_lab
  PROVE  HallInv' /\ StoreInv'
<1>1. CASE loadStateFromServer
  BY <1>1, WholeRead, StoreRead DEF loadStateFromServer
<1>2. ASSUME NEW e \in Exam, loadExamSlice(e) PROVE HallInv' /\ StoreInv'
  <2>1. store' = Slice(e) /\ UNCHANGED <<hall, machine, moves, unchanged>> BY <1>2 DEF loadExamSlice
  <2> QED BY <2>1, SliceRead, StoreRead
<1>3. ASSUME NEW e \in Exam, NEW i \in DOMAIN hall[e], SessionMoves(e, i) \/ HeartbeatAges(e, i)
      PROVE  HallInv' /\ StoreInv'
  <2>1. store' = store /\ ~unchanged' BY <1>3 DEF SessionMoves, HeartbeatAges, ServerMove
  <2>2. hall[e][i] \in HallRow /\ hall[e] \in Seq(HallRow) /\ DOMAIN hall = Exam
    BY DEF HallInv, HallRows
  <2>3. \E new \in HallRow : /\ hall' = [hall EXCEPT ![e][i] = new]
                             /\ new.student = hall[e][i].student /\ new.computer = hall[e][i].computer
    <3>1. CASE SessionMoves(e, i)
      <4>1. PICK to \in SESSION_TRANSITIONS[hall[e][i].status] : hall' = [hall EXCEPT ![e][i].status = to]
        BY <3>1 DEF SessionMoves
      <4>2. hall[e][i].status \in SessionStatus BY <2>2 DEF HallRow
      <4>3. to \in SessionStatus BY <4>1, <4>2 DEF SESSION_TRANSITIONS, SessionStatus
      <4> DEFINE new == [hall[e][i] EXCEPT !.status = to]
      <4>4. new \in HallRow /\ new.student = hall[e][i].student /\ new.computer = hall[e][i].computer
        BY <2>2, <4>3 DEF HallRow
      <4>5. hall' = [hall EXCEPT ![e][i] = new] BY <4>1
      <4> QED BY <4>4, <4>5
    <3>2. CASE HeartbeatAges(e, i)
      <4>1. PICK c \in Connection : hall' = [hall EXCEPT ![e][i].connection = c]
        BY <3>2 DEF HeartbeatAges
      <4> DEFINE new == [hall[e][i] EXCEPT !.connection = c]
      <4>4. new \in HallRow /\ new.student = hall[e][i].student /\ new.computer = hall[e][i].computer
        BY <2>2 DEF HallRow
      <4>5. hall' = [hall EXCEPT ![e][i] = new] BY <4>1
      <4> QED BY <4>4, <4>5
    <3> QED BY <1>3, <3>1, <3>2
  <2>4. PICK new \in HallRow : /\ hall' = [hall EXCEPT ![e][i] = new]
                               /\ new.student = hall[e][i].student /\ new.computer = hall[e][i].computer
    BY <2>3
  <2>5. DOMAIN hall' = Exam BY <2>2, <2>4
  <2>6. ASSUME NEW d \in Exam
        PROVE  /\ hall'[d] \in Seq(HallRow) /\ DOMAIN hall'[d] = DOMAIN hall[d]
               /\ \A k \in DOMAIN hall[d] : /\ hall'[d][k].student = hall[d][k].student
                                            /\ hall'[d][k].computer = hall[d][k].computer
    <3>1. CASE d = e
      <4>1. hall'[e] = [hall[e] EXCEPT ![i] = new] BY <2>2, <2>4
      <4>2. hall'[e] \in Seq(HallRow) /\ DOMAIN hall'[e] = DOMAIN hall[e] BY <2>2, <4>1
      <4> QED BY <2>4, <3>1, <4>1, <4>2
    <3>2. CASE d # e
      <4>1. hall'[d] = hall[d] BY <2>2, <2>4, <3>2
      <4> QED BY <4>1 DEF HallInv, HallRows
    <3> QED BY <3>1, <3>2
  <2> QED BY <2>1, <2>5, <2>6, SeatsRest
<1>4. ASSUME NEW m \in Machines, MachineReports(m) PROVE HallInv' /\ StoreInv'
  <2>1. hall' = hall /\ store' = store /\ ~unchanged' BY <1>4 DEF MachineReports, ServerMove
  <2>2. DOMAIN hall' = Exam /\ \A d \in Exam : hall'[d] \in Seq(HallRow) BY <2>1 DEF HallInv, HallRows
  <2> QED BY <2>1, <2>2, SeatsRest
<1>5. CASE UNCHANGED lab
  <2>1. hall' = hall /\ machine' = machine /\ store' = store /\ unchanged' = unchanged BY <1>5 DEF lab
  <2> QED BY <2>1, StoreRead DEF StoreInv
<1> QED BY <1>1, <1>2, <1>3, <1>4, <1>5 DEF LabNext

-----------------------------------------------------------------------------
\* Where each person of each examination has one row, nobody else has it.
LEMMA OneRow ==
  ASSUME HallInv, NEW sessions, Full(sessions), \A i \in DOMAIN sessions : HasSeat(sessions[i]),
         NEW i \in DOMAIN sessions, NEW j \in DOMAIN sessions,
         sessions[i].test = sessions[j].test, sessions[i].computer = sessions[j].computer,
         sessions[i].computer # Unassigned
  PROVE  i = j
<1> DEFINE e == sessions[i].test
<1>1. e \in Exam
  <2>1. sessions[i] \in SessionRow BY DEF Full
  <2> QED BY <2>1 DEF SessionRow
<1>2. HallRows(hall[e]) BY <1>1 DEF HallInv
<1>3. PICK k \in DOMAIN hall[e] : /\ hall[e][k].student = sessions[i].student
                                  /\ hall[e][k].computer = sessions[i].computer
  BY DEF HasSeat
<1>4. PICK l \in DOMAIN hall[e] : /\ hall[e][l].student = sessions[j].student
                                  /\ hall[e][l].computer = sessions[j].computer
  BY DEF HasSeat
<1> HIDE DEF e
<1>5. k = l BY <1>2, <1>3, <1>4 DEF HallRows
<1>6. sessions[i].student = sessions[j].student BY <1>3, <1>4, <1>5
<1> QED BY <1>6 DEF Full

\* On a machine that only one row names, that row's candidate is seated.
LEMMA SeatedAlone ==
  ASSUME NEW sessions, NEW i \in DOMAIN sessions, DOMAIN sessions \subseteq Nat,
         NEW m, sessions[i].computer = m, \A j \in DOMAIN sessions : sessions[j].computer = m => j = i
  PROVE  seatedBy(sessions, m) = sessions[i].student
<1> DEFINE at == {j \in DOMAIN sessions : sessions[j].computer = m}
<1>1. at = {i} OBVIOUS
<1>2. seatedBy(sessions, m) = IF at = {} THEN Unassigned
                              ELSE sessions[CHOOSE k \in at : \A j \in at : j <= k].student
  BY DEF seatedBy
<1> HIDE DEF at
<1>3. i <= i /\ at # {} BY <1>1
<1>4. (CHOOSE k \in at : \A j \in at : j <= k) = i BY <1>1, <1>3
<1> QED BY <1>2, <1>3, <1>4

\* As many rows as there are persons in each examination.
LEMMA RowsCounted ==
  ASSUME NEW sessions, Full(sessions)
  PROVE  /\ Len(sessions) \in Nat /\ DOMAIN sessions = 1..Len(sessions)
         /\ Cardinality(Exam \X Persons) = Len(sessions)
         /\ \A e \in Exam : Cardinality(Persons) = Cardinality({i \in DOMAIN sessions : sessions[i].test = e})
<1>1. /\ sessions \in Seq(SessionRow) /\ Len(sessions) \in Nat /\ DOMAIN sessions = 1..Len(sessions)
      /\ \A i \in DOMAIN sessions : sessions[i] \in SessionRow
  BY DEF Full
<1>2. \A i \in DOMAIN sessions : sessions[i].test \in Exam /\ sessions[i].student \in Persons
  BY <1>1 DEF SessionRow
<1>3. IsFiniteSet(DOMAIN sessions) /\ Cardinality(DOMAIN sessions) = Len(sessions) BY <1>1, FS_Interval
<1> DEFINE f == [i \in DOMAIN sessions |-> <<sessions[i].test, sessions[i].student>>]
<1>4. f \in Bijection(DOMAIN sessions, Exam \X Persons)
  <2>1. f \in [DOMAIN sessions -> Exam \X Persons] BY <1>2
  <2>2. IsInjective(f) BY DEF Full, IsInjective
  <2>3. \A x \in Exam \X Persons : \E i \in DOMAIN sessions : f[i] = x
    <3> TAKE x \in Exam \X Persons
    <3>1. PICK i \in DOMAIN sessions : sessions[i].test = x[1] /\ sessions[i].student = x[2] BY DEF Full
    <3>2. f[i] = x BY <3>1
    <3> QED BY <3>2
  <2> HIDE DEF f
  <2> QED BY <2>1, <2>2, <2>3 DEF Bijection, Injection, Surjection
<1>5. Cardinality(Exam \X Persons) = Len(sessions)
  <2>1. ExistsBijection(DOMAIN sessions, Exam \X Persons) BY <1>4 DEF ExistsBijection
  <2> QED BY <1>3, <2>1, FS_Bijection
<1>6. ASSUME NEW e \in Exam
      PROVE  Cardinality(Persons) = Cardinality({i \in DOMAIN sessions : sessions[i].test = e})
  <2> DEFINE at == {i \in DOMAIN sessions : sessions[i].test = e}
             g == [i \in at |-> sessions[i].student]
  <2>1. g \in [at -> Persons] BY <1>2
  <2>2. IsInjective(g) BY DEF Full, IsInjective
  <2>3. \A p \in Persons : \E i \in at : g[i] = p
    <3> TAKE p \in Persons
    <3>1. PICK i \in DOMAIN sessions : sessions[i].test = e /\ sessions[i].student = p BY DEF Full
    <3>2. i \in at /\ g[i] = p BY <3>1
    <3> QED BY <3>2
  <2>4. IsFiniteSet(at) BY <1>3, FS_Subset
  <2> HIDE DEF g, at
  <2>5. ExistsBijection(at, Persons) BY <2>1, <2>2, <2>3 DEF ExistsBijection, Bijection, Injection, Surjection
  <2>6. Cardinality(Persons) = Cardinality(at) BY <2>4, <2>5, FS_Bijection
  <2> QED BY <2>6 DEF at
<1> QED BY <1>1, <1>5, <1>6

\* The examination's list on the server is as long.
LEMMA HallCounted ==
  ASSUME HallInv, NEW e \in Exam
  PROVE  Len(hall[e]) = Cardinality(Persons)
<1> DEFINE rows == hall[e]
           g == [i \in DOMAIN rows |-> rows[i].student]
<1>1. HallRows(rows) BY DEF HallInv
<1> HIDE DEF rows
<1>2. /\ rows \in Seq(HallRow) /\ Len(rows) \in Nat /\ DOMAIN rows = 1..Len(rows)
      /\ \A i \in DOMAIN rows : rows[i] \in HallRow
  BY <1>1 DEF HallRows
<1>3. g \in [DOMAIN rows -> Persons] BY <1>2 DEF HallRow
<1>4. IsInjective(g) BY <1>1 DEF HallRows, IsInjective
<1>5. \A p \in Persons : \E i \in DOMAIN rows : g[i] = p BY <1>1 DEF HallRows
<1> HIDE DEF g
<1>6. ExistsBijection(DOMAIN rows, Persons)
  BY <1>3, <1>4, <1>5 DEF ExistsBijection, Bijection, Injection, Surjection
<1>7. IsFiniteSet(DOMAIN rows) /\ Cardinality(DOMAIN rows) = Len(rows) BY <1>2, FS_Interval
<1> QED BY <1>6, <1>7, FS_Bijection DEF rows

\* A row of the snapshot while the server rests, and the row of the server.
LEMMA SlicesTell ==
  ASSUME HallInv, StoreInv
  PROVE  SlicesAgree
<1> SUFFICES ASSUME unchanged
             PROVE  /\ ToSet(store.sessions) = ToSet(WholeState.sessions)
                    /\ Len(store.sessions) = Len(WholeState.sessions)
                    /\ store.computers = WholeState.computers
                    /\ \A m \in Machines : Unshared(m) => store.assigned[m] = WholeState.assigned[m]
  BY DEF SlicesAgree
<1> DEFINE old == store.sessions
           all == WholeState.sessions
<1>1. /\ Full(old) /\ \A i \in DOMAIN old : HasSeat(old[i]) /\ IsCurrent(old[i])
      /\ store.computers = [m \in Machines |-> toComputer(machine[m])]
      /\ \A m \in Machines : store.assigned[m] = seatedBy(old, m)
  BY DEF StoreInv
<1>2. /\ Full(all) /\ \A i \in DOMAIN all : HasSeat(all[i]) /\ IsCurrent(all[i])
      /\ \A e \in Exam : \A k \in DOMAIN hall[e] : \E i \in DOMAIN all : all[i] = toSession(e, hall[e][k])
      /\ WholeState.computers = [m \in Machines |-> toComputer(machine[m])]
      /\ \A m \in Machines : WholeState.assigned[m] = seatedBy(all, m)
  BY WholeRead
<1> HIDE DEF old, all
<1>3. /\ \A i \in DOMAIN old : old[i] \in SessionRow /\ old[i].test \in Exam /\ old[i].student \in Persons
      /\ \A i \in DOMAIN all : all[i] \in SessionRow /\ all[i].test \in Exam /\ all[i].student \in Persons
      /\ DOMAIN old \subseteq Nat /\ DOMAIN all \subseteq Nat
  <2>1. /\ old \in Seq(SessionRow) /\ all \in Seq(SessionRow) BY <1>1, <1>2 DEF Full
  <2>2. \A s \in SessionRow : s.test \in Exam /\ s.student \in Persons BY DEF SessionRow
  <2> QED BY <2>1, <2>2
<1>4. ASSUME NEW s, NEW r, IsCurrent(s), IsCurrent(r), s.test = r.test, s.student = r.student, s.test \in Exam
      PROVE  s = r
  <2> DEFINE e == s.test
  <2>1. PICK k \in DOMAIN hall[e] : s = toSession(e, hall[e][k]) BY <1>4 DEF IsCurrent
  <2>2. PICK l \in DOMAIN hall[e] : r = toSession(e, hall[e][l]) BY <1>4 DEF IsCurrent
  <2>3. hall[e][k].student = hall[e][l].student BY <1>4, <2>1, <2>2 DEF toSession
  <2>4. HallRows(hall[e]) BY <1>4 DEF HallInv
  <2>5. k = l BY <2>3, <2>4 DEF HallRows
  <2> QED BY <2>1, <2>2, <2>5
<1>5. ASSUME NEW i \in DOMAIN old PROVE \E j \in DOMAIN all : all[j] = old[i]
  <2>1. PICK j \in DOMAIN all : all[j].test = old[i].test /\ all[j].student = old[i].student
    BY <1>2, <1>3 DEF Full
  <2>2. all[j] = old[i] BY <1>1, <1>2, <1>3, <1>4, <2>1
  <2> QED BY <2>2
<1>6. ASSUME NEW j \in DOMAIN all PROVE \E i \in DOMAIN old : old[i] = all[j]
  <2>0. all[j].test \in Exam /\ all[j].student \in Persons BY <1>3
  <2>1. PICK i \in DOMAIN old : old[i].test = all[j].test /\ old[i].student = all[j].student
    BY <1>1, <2>0 DEF Full
  <2>2. all[j] = old[i] BY <1>1, <1>2, <1>3, <1>4, <2>1
  <2> QED BY <2>2
<1>7. ToSet(old) = ToSet(all) BY <1>5, <1>6 DEF ToSet
<1>8. Len(old) = Len(all) BY <1>1, <1>2, RowsCounted
<1>9. ASSUME NEW m \in Machines, Unshared(m) PROVE seatedBy(old, m) = seatedBy(all, m)
  <2>1. \A i, j \in DOMAIN old : old[i].computer = m /\ old[j].computer = m => old[i].test = old[j].test
    BY <1>9 DEF Unshared, old
  <2>2. m # Unassigned BY LabAssumption
  <2>3. \A i, j \in DOMAIN all : all[i].computer = m /\ all[j].computer = m => all[i].test = all[j].test
    <3> TAKE i, j \in DOMAIN all
    <3>1. PICK k \in DOMAIN old : old[k] = all[i] BY <1>6
    <3>2. PICK l \in DOMAIN old : old[l] = all[j] BY <1>6
    <3> QED BY <2>1, <3>1, <3>2
  <2>4. CASE \E i \in DOMAIN old : old[i].computer = m
    <3>1. PICK i \in DOMAIN old : old[i].computer = m BY <2>4
    <3>2. PICK j \in DOMAIN all : all[j] = old[i] BY <1>5
    <3>3. \A k \in DOMAIN old : old[k].computer = m => k = i BY <1>1, <2>1, <2>2, <3>1, OneRow
    <3>4. \A k \in DOMAIN all : all[k].computer = m => k = j BY <1>2, <2>2, <2>3, <3>1, <3>2, OneRow
    <3>5. seatedBy(old, m) = old[i].student BY <1>3, <3>1, <3>3, SeatedAlone
    <3>6. seatedBy(all, m) = all[j].student BY <1>3, <3>1, <3>2, <3>4, SeatedAlone
    <3> QED BY <3>2, <3>5, <3>6
  <2>5. CASE ~\E i \in DOMAIN old : old[i].computer = m
    <3>1. ~\E j \in DOMAIN all : all[j].computer = m BY <1>6, <2>5
    <3>2. {i \in DOMAIN old : old[i].computer = m} = {} /\ {j \in DOMAIN all : all[j].computer = m} = {}
      BY <2>5, <3>1
    <3> QED BY <3>2 DEF seatedBy
  <2> QED BY <2>4, <2>5
<1> QED BY <1>1, <1>2, <1>7, <1>8, <1>9 DEF old, all

\* The warning before a password reset is current when the snapshot is.
LEMMA ResetTells ==
  ASSUME HallInv, StoreInv
  PROVE  ResetWarned
<1> DEFINE Writing(p, e) == \E i \in DOMAIN hall[e] : /\ hall[e][i].student = p
                                                      /\ hall[e][i].status \in {"READY", "ACTIVE"}
           old == store.sessions
<1> SUFFICES ASSUME unchanged, NEW p \in Persons
             PROVE  /\ examInProgressFor(p) = Unassigned <=> \A e \in Exam : ~Writing(p, e)
                    /\ examInProgressFor(p) # Unassigned => Writing(p, examInProgressFor(p))
  BY DEF ResetWarned
<1> DEFINE seated == {i \in DOMAIN old : /\ old[i].student = p
                                         /\ old[i].examStatus \in {"ready", "in-progress"}}
<1>1. /\ old \in Seq(SessionRow) /\ \A i \in DOMAIN old : IsCurrent(old[i])
      /\ \A e \in Exam : \E i \in DOMAIN old : old[i].test = e /\ old[i].student = p
  BY DEF StoreInv, Full
<1>2. examInProgressFor(p) = IF seated = {} THEN Unassigned
                             ELSE old[CHOOSE i \in seated : \A j \in seated : i <= j].test
  BY DEF examInProgressFor
<1>3. \A i \in seated : i \in DOMAIN old /\ old[i].student = p /\ old[i].examStatus \in {"ready", "in-progress"}
  OBVIOUS
<1>4. \A i \in DOMAIN old : old[i].student = p /\ old[i].examStatus \in {"ready", "in-progress"} => i \in seated
  OBVIOUS
<1> HIDE DEF old, seated
<1>5. seated \subseteq Nat /\ \A i \in DOMAIN old : old[i] \in SessionRow /\ old[i].test \in Exam
  <2>1. \A s \in SessionRow : s.test \in Exam BY DEF SessionRow
  <2> QED BY <1>1, <1>3, <2>1
<1>6. ASSUME NEW i \in DOMAIN old
      PROVE  \E k \in DOMAIN hall[old[i].test] :
               /\ hall[old[i].test][k].student = old[i].student
               /\ old[i].examStatus \in {"ready", "in-progress"}
                    <=> hall[old[i].test][k].status \in {"READY", "ACTIVE"}
  <2> DEFINE e == old[i].test
  <2>1. e \in Exam BY <1>5
  <2>2. PICK k \in DOMAIN hall[e] : old[i] = toSession(e, hall[e][k]) BY <1>1 DEF IsCurrent
  <2> HIDE DEF e
  <2>3. hall[e] \in Seq(HallRow) BY <2>1 DEF HallInv, HallRows
  <2>4. hall[e][k].status \in SessionStatus
    <3>1. hall[e][k] \in HallRow BY <2>2, <2>3
    <3> QED BY <3>1 DEF HallRow
  <2>5. /\ old[i].student = hall[e][k].student
        /\ old[i].examStatus = SESSION_STATUS_FROM_SERVER[hall[e][k].status]
    BY <2>2 DEF toSession
  <2>6. old[i].examStatus \in {"ready", "in-progress"} <=> hall[e][k].status \in {"READY", "ACTIVE"}
    BY <2>4, <2>5 DEF SESSION_STATUS_FROM_SERVER, SessionStatus
  <2> QED BY <2>5, <2>6 DEF e
<1>7. ASSUME NEW i \in seated PROVE Writing(p, old[i].test) BY <1>3, <1>6
<1>8. ASSUME NEW e \in Exam, Writing(p, e) PROVE seated # {}
  <2>1. PICK l \in DOMAIN hall[e] : hall[e][l].student = p /\ hall[e][l].status \in {"READY", "ACTIVE"}
    BY <1>8
  <2>2. PICK i \in DOMAIN old : old[i].test = e /\ old[i].student = p BY <1>1
  <2>3. PICK k \in DOMAIN hall[e] :
           /\ hall[e][k].student = p
           /\ old[i].examStatus \in {"ready", "in-progress"} <=> hall[e][k].status \in {"READY", "ACTIVE"}
    BY <1>6, <2>2
  <2>4. k = l
    <3>1. HallRows(hall[e]) BY DEF HallInv
    <3> QED BY <2>1, <2>3, <3>1 DEF HallRows
  <2> QED BY <1>4, <2>1, <2>2, <2>3, <2>4
<1>9. CASE seated = {}
  <2>1. examInProgressFor(p) = Unassigned BY <1>2, <1>9
  <2> QED BY <1>8, <1>9, <2>1
<1>10. CASE seated # {}
  <2> DEFINE i == CHOOSE i \in seated : \A j \in seated : i <= j
  <2>1. \E k \in seated : \A j \in seated : k <= j BY <1>5, <1>10, Least
  <2>2. i \in seated BY <2>1
  <2>3. examInProgressFor(p) = old[i].test BY <1>2, <1>10
  <2> HIDE DEF i
  <2>4. old[i].test \in Exam /\ Writing(p, old[i].test) BY <1>3, <1>5, <1>7, <2>2
  <2>5. examInProgressFor(p) # Unassigned BY <2>3, <2>4, LabAssumption DEF Exam
  <2> QED BY <2>3, <2>4, <2>5
<1> QED BY <1>9, <1>10

\* A roster row names the machine that the grid gives its candidate.
LEMMA RowTells ==
  ASSUME HallInv, StoreInv
  PROVE  RowMatchesGrid
<1> DEFINE old == store.sessions
<1>1. /\ Full(old) /\ \A i \in DOMAIN old : HasSeat(old[i])
      /\ \A m \in Machines : store.assigned[m] = seatedBy(old, m)
  BY DEF StoreInv
<1>2. /\ DOMAIN old \subseteq Nat
      /\ \A i, j \in DOMAIN old : old[i].test = old[j].test /\ old[i].student = old[j].student => i = j
  BY <1>1 DEF Full
<1> SUFFICES ASSUME NEW i \in DOMAIN old, old[i].computer \in Machines, Unshared(old[i].computer)
             PROVE  LET s == old[i]
                        row == buildRosterRow(s.test, s.student)
                    IN  /\ row.computer = s.computer
                        /\ buildComputerView(s.computer) = [student |-> s.student, examStatus |-> row.examStatus]
  BY DEF RowMatchesGrid
<1> DEFINE s == old[i]
           m == s.computer
           of == {j \in DOMAIN old : old[j].test = s.test /\ old[j].student = s.student}
           at == {j \in DOMAIN old : old[j].computer = m}
           row == buildRosterRow(s.test, s.student)
           first(S) == CHOOSE k \in S : \A j \in S : k <= j
<1>3. m # Unassigned BY LabAssumption
<1>4. \A j, k \in DOMAIN old : old[j].computer = m /\ old[k].computer = m => old[j].test = old[k].test
  BY DEF Unshared
<1>5. of = {i} BY <1>2
<1>6. \A j \in DOMAIN old : old[j].computer = m => j = i BY <1>1, <1>3, <1>4, OneRow
<1>7. at = {i} BY <1>6
<1>8. first({i}) = i
  <2>1. i <= i BY <1>2
  <2> QED BY <2>1
<1>9. /\ row.computer = IF old[first(of)].computer \in Machines THEN old[first(of)].computer
                        ELSE LET sat == {w \in Machines : store.assigned[w] = s.student}
                             IN  IF sat = {} THEN Unassigned ELSE CHOOSE w \in sat : TRUE
      /\ row.examStatus = old[first(of)].examStatus
  BY DEF buildRosterRow
<1>10. buildComputerView(m) = [student |-> store.assigned[m],
                               examStatus |-> IF at = {} THEN "not-ready" ELSE old[first(at)].examStatus]
  BY DEF buildComputerView
<1> HIDE DEF of, at, first, row
<1>11. row.computer = m /\ row.examStatus = s.examStatus BY <1>5, <1>8, <1>9
<1>12. store.assigned[m] = s.student
  <2>1. seatedBy(old, m) = old[i].student BY <1>2, <1>6, SeatedAlone
  <2> QED BY <1>1, <2>1
<1>13. buildComputerView(m) = [student |-> s.student, examStatus |-> s.examStatus]
  <2>1. at # {} /\ old[first(at)].examStatus = s.examStatus BY <1>7, <1>8
  <2> QED BY <1>10, <1>12, <2>1
<1> QED BY <1>11, <1>13 DEF row

-----------------------------------------------------------------------------
\* The rows of one examination on the monitor.
Listed(rows, sessions, at) ==
  /\ rows \in Seq(SessionRow) /\ IsFiniteSet(at)
  /\ Len(rows) = Cardinality(at) /\ Len(rows) \in Nat /\ DOMAIN rows = 1..Len(rows)
  /\ \A B : Cardinality({k \in DOMAIN rows : rows[k] \in B}) = Cardinality({i \in at : sessions[i] \in B})

\* A filtered list holds of every set of rows as many as the places it kept.
LEMMA TabRows ==
  ASSUME NEW sessions \in Seq(SessionRow), NEW at, at \subseteq DOMAIN sessions, NEW rows,
         Sifted(rows, sessions, at, SessionRow)
  PROVE  Listed(rows, sessions, at)
<1>1. /\ rows \in Seq(SessionRow) /\ Len(rows) = Cardinality(at) /\ Len(rows) \in Nat
      /\ DOMAIN rows = 1..Len(rows)
  BY DEF Sifted
<1>2. PICK kept \in [DOMAIN rows -> at] :
         /\ \A k \in DOMAIN rows : rows[k] = sessions[kept[k]]
         /\ \A i \in at : \E k \in DOMAIN rows : kept[k] = i
         /\ \A j, k \in DOMAIN rows : kept[j] = kept[k] => j = k
  BY DEF Sifted
<1>3. IsFiniteSet(at)
  <2>1. DOMAIN sessions = 1..Len(sessions) /\ Len(sessions) \in Nat OBVIOUS
  <2>2. IsFiniteSet(1..Len(sessions)) BY <2>1, FS_Interval
  <2>3. at \in SUBSET (1..Len(sessions)) BY <2>1
  <2> QED BY <2>2, <2>3, FS_Subset
<1>4. ASSUME NEW B
      PROVE  Cardinality({k \in DOMAIN rows : rows[k] \in B}) = Cardinality({i \in at : sessions[i] \in B})
  <2> DEFINE K == {k \in DOMAIN rows : rows[k] \in B}
             I == {i \in at : sessions[i] \in B}
             f == [k \in K |-> kept[k]]
  <2>1. f \in [K -> I] BY <1>2
  <2>2. \A j, k \in K : f[j] = f[k] => j = k BY <1>2
  <2>3. \A i \in I : \E k \in K : f[k] = i
    <3> TAKE i \in I
    <3>1. PICK k \in DOMAIN rows : kept[k] = i BY <1>2
    <3>2. k \in K /\ f[k] = i BY <1>2, <3>1
    <3> QED BY <3>2
  <2>4. IsFiniteSet(I) BY <1>3, FS_Subset
  <2>5. IsFiniteSet(K)
    <3>1. IsFiniteSet(1..Len(rows)) BY <1>1, FS_Interval
    <3>2. K \in SUBSET (1..Len(rows)) BY <1>1
    <3> QED BY <3>1, <3>2, FS_Subset
  <2> HIDE DEF K, I, f
  <2>6. ExistsBijection(K, I)
    BY <2>1, <2>2, <2>3 DEF ExistsBijection, Bijection, Injection, Surjection, IsInjective
  <2>7. Cardinality(K) = Cardinality(I) BY <2>5, <2>6, FS_Bijection
  <2> QED BY <2>7 DEF K, I
<1> QED BY <1>1, <1>3, <1>4 DEF Listed

\* The monitor's list of an examination, and how many of it are in a set.
Of(e) == {i \in DOMAIN store.sessions : store.sessions[i].test = e}

\* The monitor's list is such a list.
LEMMA MonitorRows ==
  ASSUME StoreInv, NEW e
  PROVE  Listed(buildMonitorRows(e), store.sessions, Of(e))
<1> DEFINE old == store.sessions
           rows == buildMonitorRows(e)
           at == Of(e)
<1>1. old \in Seq(SessionRow) /\ at \subseteq DOMAIN old BY DEF StoreInv, Full, Of
<1>2. rows = LET kept == InOrder(at, Upward(at)) IN [k \in DOMAIN kept |-> old[kept[k]]]
  BY DEF buildMonitorRows, Filter, Of
<1> HIDE DEF old, rows, at
<1>3. Sifted(rows, old, at, SessionRow) BY <1>1, <1>2, Kept
<1>4. Listed(rows, old, at) BY <1>1, <1>3, TabRows
<1> QED BY <1>4 DEF old, rows, at

\* A tab lists as many rows as pass its test.
LEMMA TabCounts ==
  ASSUME NEW rows \in Seq(SessionRow)
  PROVE  /\ Len(filterMonitorRows(rows, "active")) =
              Cardinality({i \in DOMAIN rows : rows[i].examStatus = "in-progress"})
         /\ Len(filterMonitorRows(rows, "submitted")) =
              Cardinality({i \in DOMAIN rows : rows[i].examStatus = "submitted"})
         /\ Len(filterMonitorRows(rows, "warning")) =
              Cardinality({i \in DOMAIN rows : rows[i].connection = "warning"})
         /\ Len(filterMonitorRows(rows, "offline")) =
              Cardinality({i \in DOMAIN rows : rows[i].connection = "offline"})
<1>0. ASSUME NEW at, at \subseteq DOMAIN rows
      PROVE  LET kept == InOrder(at, Upward(at))
             IN  Len([k \in DOMAIN kept |-> rows[kept[k]]]) = Cardinality(at)
  <2> DEFINE kept == InOrder(at, Upward(at))
             tab == [k \in DOMAIN kept |-> rows[kept[k]]]
  <2>1. Sifted(tab, rows, at, SessionRow) BY <1>0, Kept
  <2> HIDE DEF tab
  <2>2. Len(tab) = Cardinality(at) BY <2>1 DEF Sifted
  <2> QED BY <2>2 DEF tab
<1>1. Len(Filter(rows, LAMBDA r : r.examStatus = "in-progress"))
        = Cardinality({i \in DOMAIN rows : rows[i].examStatus = "in-progress"})
  <2> DEFINE at == {i \in DOMAIN rows : rows[i].examStatus = "in-progress"}
  <2>1. Filter(rows, LAMBDA r : r.examStatus = "in-progress")
          = LET kept == InOrder(at, Upward(at)) IN [k \in DOMAIN kept |-> rows[kept[k]]]
    BY DEF Filter
  <2>2. at \subseteq DOMAIN rows OBVIOUS
  <2> HIDE DEF at
  <2>3. LET kept == InOrder(at, Upward(at))
        IN  Len([k \in DOMAIN kept |-> rows[kept[k]]]) = Cardinality(at)
    BY <1>0, <2>2
  <2> QED BY <2>1, <2>3 DEF at
<1>2. Len(Filter(rows, LAMBDA r : r.examStatus = "submitted"))
        = Cardinality({i \in DOMAIN rows : rows[i].examStatus = "submitted"})
  <2> DEFINE at == {i \in DOMAIN rows : rows[i].examStatus = "submitted"}
  <2>1. Filter(rows, LAMBDA r : r.examStatus = "submitted")
          = LET kept == InOrder(at, Upward(at)) IN [k \in DOMAIN kept |-> rows[kept[k]]]
    BY DEF Filter
  <2>2. at \subseteq DOMAIN rows OBVIOUS
  <2> HIDE DEF at
  <2>3. LET kept == InOrder(at, Upward(at))
        IN  Len([k \in DOMAIN kept |-> rows[kept[k]]]) = Cardinality(at)
    BY <1>0, <2>2
  <2> QED BY <2>1, <2>3 DEF at
<1>3. ASSUME NEW c
      PROVE  Len(Filter(rows, LAMBDA r : r.connection = c))
               = Cardinality({i \in DOMAIN rows : rows[i].connection = c})
  <2> DEFINE at == {i \in DOMAIN rows : rows[i].connection = c}
  <2>1. Filter(rows, LAMBDA r : r.connection = c)
          = LET kept == InOrder(at, Upward(at)) IN [k \in DOMAIN kept |-> rows[kept[k]]]
    BY DEF Filter
  <2>2. at \subseteq DOMAIN rows OBVIOUS
  <2> HIDE DEF at
  <2>3. LET kept == InOrder(at, Upward(at))
        IN  Len([k \in DOMAIN kept |-> rows[kept[k]]]) = Cardinality(at)
    BY <1>0, <2>2
  <2> QED BY <2>1, <2>3 DEF at
<1>4. /\ filterMonitorRows(rows, "active") = Filter(rows, LAMBDA r : r.examStatus = "in-progress")
      /\ filterMonitorRows(rows, "submitted") = Filter(rows, LAMBDA r : r.examStatus = "submitted")
      /\ filterMonitorRows(rows, "warning") = Filter(rows, LAMBDA r : r.connection = "warning")
      /\ filterMonitorRows(rows, "offline") = Filter(rows, LAMBDA r : r.connection = "offline")
  BY DEF filterMonitorRows
<1> QED BY <1>1, <1>2, <1>3, <1>4

\* The tiles of one examination.
LEMMA TilesCount ==
  ASSUME HallInv, StoreInv, NEW e \in Exam
  PROVE  LET rows == buildMonitorRows(e)
             sum  == summarizeMonitorRows(rows)
         IN  /\ sum.active = Len(filterMonitorRows(rows, "active"))
             /\ sum.submitted = Len(filterMonitorRows(rows, "submitted"))
             /\ sum.warnings = Len(filterMonitorRows(rows, "warning"))
             /\ sum.disconnected = Len(filterMonitorRows(rows, "offline"))
             /\ sum.online + sum.disconnected = sum.assigned /\ sum.assigned = Len(hall[e])
<1> DEFINE rows == buildMonitorRows(e)
           sum == summarizeMonitorRows(rows)
           on == {i \in DOMAIN rows : rows[i].connection # "offline"}
           off == {i \in DOMAIN rows : rows[i].connection = "offline"}
<1>1. /\ rows \in Seq(SessionRow) /\ Len(rows) = Cardinality(Of(e)) /\ Len(rows) \in Nat
      /\ DOMAIN rows = 1..Len(rows)
  BY MonitorRows DEF Listed
<1> HIDE DEF rows
<1>2. /\ sum.assigned = Len(rows)
      /\ sum.online = Cardinality(on)
      /\ sum.submitted = Cardinality({i \in DOMAIN rows : rows[i].examStatus = "submitted"})
      /\ sum.active = Cardinality({i \in DOMAIN rows : rows[i].examStatus = "in-progress"})
      /\ sum.warnings = Cardinality({i \in DOMAIN rows : rows[i].connection = "warning"})
      /\ sum.disconnected = Cardinality(off)
  BY DEF summarizeMonitorRows
<1>3. Cardinality(on) + Cardinality(off) = Len(rows)
  <2>1. IsFiniteSet(DOMAIN rows) /\ Cardinality(DOMAIN rows) = Len(rows) BY <1>1, FS_Interval
  <2>2. on = DOMAIN rows \ off /\ DOMAIN rows \cap off = off OBVIOUS
  <2>3. IsFiniteSet(off) BY <2>1, FS_Subset
  <2>4. Cardinality(off) \in Nat BY <2>3, FS_CardinalityType
  <2> HIDE DEF on, off
  <2>5. Cardinality(DOMAIN rows \ off) = Cardinality(DOMAIN rows) - Cardinality(DOMAIN rows \cap off)
    BY <2>1, FS_Difference
  <2>6. Cardinality(on) = Cardinality(DOMAIN rows) - Cardinality(off) BY <2>2, <2>5
  <2> QED BY <1>1, <2>1, <2>4, <2>6
<1>4. Len(rows) = Len(hall[e])
  <2>1. Full(store.sessions) BY DEF StoreInv
  <2>2. Cardinality(Persons) = Cardinality(Of(e)) BY <2>1, RowsCounted DEF Of
  <2> QED BY <1>1, <2>2, HallCounted
<1> HIDE DEF sum
<1> QED BY <1>1, <1>2, <1>3, <1>4, TabCounts DEF rows, sum

-----------------------------------------------------------------------------
\* A sum over a set, one member after the other.
AnyOf(s) == CHOOSE x \in s : TRUE
Sums(f, val, S) ==
  \A s \in SUBSET S : f[s] = IF s = {} THEN 0 ELSE val[AnyOf(s)] + f[s \ {AnyOf(s)}]

\* There is one such sum: the smallest set on which two differed would follow
\* from a smaller one.
LEMMA OneSum ==
  ASSUME NEW S, IsFiniteSet(S), NEW f, NEW g, NEW val, Sums(f, val, S), Sums(g, val, S)
  PROVE  f[S] = g[S]
<1> DEFINE Wrong == {n \in Nat : \E s \in SUBSET S : Cardinality(s) = n /\ f[s] # g[s]}
<1>1. ASSUME NEW s \in SUBSET S PROVE IsFiniteSet(s) /\ Cardinality(s) \in Nat
  <2>1. IsFiniteSet(s) BY FS_Subset
  <2> QED BY <2>1, FS_CardinalityType
<1>2. ASSUME Wrong # {} PROVE FALSE
  <2>1. PICK n \in Wrong : \A k \in Wrong : n <= k
    <3> HIDE DEF Wrong
    <3>1. Wrong \subseteq Nat BY DEF Wrong
    <3> QED BY <1>2, <3>1, Least
  <2>2. PICK s \in SUBSET S : Cardinality(s) = n /\ f[s] # g[s] BY <2>1
  <2> DEFINE rest == s \ {AnyOf(s)}
  <2>3. s # {} BY <2>2 DEF Sums
  <2>4. AnyOf(s) \in s BY <2>3 DEF AnyOf
  <2>5. rest \in SUBSET S /\ Cardinality(rest) \in Nat BY <1>1
  <2>6. Cardinality(rest) = n - 1 BY <1>1, <2>2, <2>4, FS_RemoveElement
  <2>7. f[s] = val[AnyOf(s)] + f[rest] /\ g[s] = val[AnyOf(s)] + g[rest] BY <2>3 DEF Sums
  <2>8. f[rest] # g[rest] BY <2>2, <2>7
  <2>9. n - 1 \in Wrong BY <2>5, <2>6, <2>8
  <2> QED BY <2>1, <2>9
<1>3. Cardinality(S) \in Nat /\ S \in SUBSET S BY FS_CardinalityType
<1> QED BY <1>2, <1>3

\* The members of a finite set, counted class by class.
Held(Q, class, s) == {i \in Q : class[i] \in s}
HeldBy(Q, class, S) == [s \in SUBSET S |-> Cardinality(Held(Q, class, s))]
Sizes(Q, class, S) == [x \in S |-> Cardinality({i \in Q : class[i] = x})]

\* The counts of the classes add up to the whole.
LEMMA ClassesSum ==
  ASSUME NEW Q, IsFiniteSet(Q), NEW class, NEW S, \A i \in Q : class[i] \in S
  PROVE  /\ Sums(HeldBy(Q, class, S), Sizes(Q, class, S), S)
         /\ HeldBy(Q, class, S)[S] = Cardinality(Q)
<1> DEFINE h == [s \in SUBSET S |-> Cardinality(Held(Q, class, s))]
           val == [x \in S |-> Cardinality({i \in Q : class[i] = x})]
<1>1. ASSUME NEW s \in SUBSET S, s # {}
      PROVE  h[s] = val[AnyOf(s)] + h[s \ {AnyOf(s)}]
  <2> DEFINE x == AnyOf(s)
             one == {i \in Q : class[i] = x}
             others == Held(Q, class, s \ {x})
  <2>1. x \in s BY <1>1 DEF AnyOf
  <2> HIDE DEF x
  <2>2. Held(Q, class, s) = one \cup others /\ one \cap others = {} BY <2>1 DEF Held
  <2>3. IsFiniteSet(one) /\ IsFiniteSet(others)
    <3>1. one \in SUBSET Q /\ others \in SUBSET Q BY DEF Held
    <3> QED BY <3>1, FS_Subset
  <2>4. h[s] = Cardinality(Held(Q, class, s)) /\ val[x] = Cardinality(one)
        /\ h[s \ {x}] = Cardinality(others)
    BY <2>1
  <2> HIDE DEF one, others, h, val
  <2>5. Cardinality(one \cup others) = Cardinality(one) + Cardinality(others) - Cardinality(one \cap others)
    BY <2>3, FS_Union
  <2>6. Cardinality(one) \in Nat /\ Cardinality(others) \in Nat /\ Cardinality({}) = 0
    BY <2>3, FS_CardinalityType, FS_EmptySet
  <2>7. Cardinality(Held(Q, class, s)) = Cardinality(one) + Cardinality(others)
    <3>1. Cardinality(one \cap others) = 0 BY <2>2, <2>6
    <3>2. Cardinality(one \cup others) = Cardinality(one) + Cardinality(others) BY <2>5, <2>6, <3>1
    <3> QED BY <2>2, <3>2
  <2>8. h[s] = val[x] + h[s \ {x}] BY <2>4, <2>7
  <2> QED BY <2>8 DEF x
<1>2. h[{}] = 0
  <2>1. Held(Q, class, {}) = {} BY DEF Held
  <2> QED BY <2>1, FS_EmptySet
<1>3. h[S] = Cardinality(Q)
  <2>1. Held(Q, class, S) = Q BY DEF Held
  <2> QED BY <2>1
<1> HIDE DEF h, val
<1>4. Sums(h, val, S) BY <1>1, <1>2 DEF Sums
<1> QED BY <1>3, <1>4 DEF h, val, HeldBy, Sizes

\* The examinations are those of a list.
LEMMA ExamsFinite == IsFiniteSet(Exam)
<1>1. Sittings \in Seq(Exam) /\ ToSet(Sittings) = Exam BY LabAssumption DEF Exam
<1>2. DOMAIN Sittings = 1..Len(Sittings) /\ Len(Sittings) \in Nat /\ Sittings \in [DOMAIN Sittings -> Exam]
  BY <1>1
<1>3. IsFiniteSet(DOMAIN Sittings)
  <2> DEFINE n == Len(Sittings)
  <2>0. n \in Nat BY <1>2
  <2> HIDE DEF n
  <2>1. IsFiniteSet(1..n) BY <2>0, FS_Interval
  <2> QED BY <1>2, <2>1 DEF n
<1>4. Sittings \in Surjection(DOMAIN Sittings, Exam) BY <1>1, <1>2 DEF Surjection, ToSet
<1> QED BY <1>3, <1>4, FS_Surjection

\* The sessions of the snapshot that the monitor of an examination counts.
LEMMA MonitorCounts ==
  ASSUME StoreInv, NEW e \in Exam
  PROVE  LET sum == summarizeMonitorRows(buildMonitorRows(e))
             old == store.sessions
             On == {i \in DOMAIN old : old[i].connection # "offline"}
         IN  /\ sum.assigned = Cardinality({i \in DOMAIN old : old[i].test = e})
             /\ sum.online = Cardinality({i \in On : old[i].test = e})
<1> DEFINE rows == buildMonitorRows(e)
           old == store.sessions
           On == {i \in DOMAIN old : old[i].connection # "offline"}
           B == {r \in SessionRow : r.connection # "offline"}
<1>1. Listed(rows, old, Of(e)) BY MonitorRows
<1>2. \A i \in DOMAIN old : old[i] \in SessionRow BY DEF StoreInv, Full
<1>3. /\ summarizeMonitorRows(rows).assigned = Len(rows)
      /\ summarizeMonitorRows(rows).online = Cardinality({i \in DOMAIN rows : rows[i].connection # "offline"})
  BY DEF summarizeMonitorRows
<1> HIDE DEF rows, old
<1>4. Len(rows) = Cardinality(Of(e))
      /\ Cardinality({k \in DOMAIN rows : rows[k] \in B}) = Cardinality({i \in Of(e) : old[i] \in B})
  BY <1>1 DEF Listed
<1>5. \A i \in DOMAIN rows : rows[i] \in SessionRow BY <1>1 DEF Listed
<1>6. {k \in DOMAIN rows : rows[k] \in B} = {i \in DOMAIN rows : rows[i].connection # "offline"}
  BY <1>5
<1>7. {i \in Of(e) : old[i] \in B} = {i \in On : old[i].test = e} BY <1>2 DEF Of, old
<1>8. Of(e) = {i \in DOMAIN old : old[i].test = e} BY DEF Of, old
<1> HIDE DEF B, On
<1> QED BY <1>3, <1>4, <1>6, <1>7, <1>8 DEF rows, old, On

\* The dashboard's candidates are the sessions of the snapshot.
LEMMA DashboardAssigned ==
  ASSUME StoreInv
  PROVE  liveSummary.assigned = Len(store.sessions)
<1> DEFINE old == store.sessions
           Q == DOMAIN old
           class == [i \in Q |-> old[i].test]
           v(e) == summarizeMonitorRows(buildMonitorRows(e)).assigned
           it == CHOOSE f : f = [s \in SUBSET Exam |-> IF s = {} THEN 0
                                    ELSE v(CHOOSE x \in s : TRUE) + f[s \ {CHOOSE x \in s : TRUE}]]
           h == HeldBy(Q, class, Exam)
           val == Sizes(Q, class, Exam)
<1>1. liveSummary.assigned = MapThenSumSet(LAMBDA e : summarizeMonitorRows(buildMonitorRows(e)).assigned, Exam)
  BY DEF liveSummary
<1>2. MapThenSumSet(LAMBDA e : summarizeMonitorRows(buildMonitorRows(e)).assigned, Exam) = it[Exam]
  BY Zenon DEF MapThenSumSet, MapThenFoldSet
<1>3. /\ Q = 1..Len(old) /\ Len(old) \in Nat /\ \A i \in Q : class[i] \in Exam
  <2>1. old \in Seq(SessionRow) BY DEF StoreInv, Full
  <2>2. \A s \in SessionRow : s.test \in Exam BY DEF SessionRow
  <2> QED BY <2>1, <2>2
<1>4. IsFiniteSet(Q) /\ Cardinality(Q) = Len(old) BY <1>3, FS_Interval
<1>5. ASSUME NEW e \in Exam PROVE v(e) = val[e]
  <2>1. v(e) = Cardinality({i \in DOMAIN old : old[i].test = e}) BY MonitorCounts
  <2>2. {i \in DOMAIN old : old[i].test = e} = {i \in Q : class[i] = e} OBVIOUS
  <2> QED BY <2>1, <2>2 DEF Sizes
<1> HIDE DEF old, Q, class, v, val
<1>6. Sums(h, val, Exam) /\ h[Exam] = Cardinality(Q) BY <1>3, <1>4, ClassesSum DEF val
<1>7. \A s \in SUBSET Exam : s # {} => v(CHOOSE x \in s : TRUE) = val[AnyOf(s)]
  BY <1>5 DEF AnyOf
<1>8. h = [s \in SUBSET Exam |-> IF s = {} THEN 0
                                 ELSE v(CHOOSE x \in s : TRUE) + h[s \ {CHOOSE x \in s : TRUE}]]
  <2> HIDE DEF h
  <2>1. h = [s \in SUBSET Exam |-> h[s]] BY DEF h, HeldBy
  <2> QED BY <1>6, <1>7, <2>1 DEF Sums, AnyOf
<1> HIDE DEF h
<1>9. it = [s \in SUBSET Exam |-> IF s = {} THEN 0
                                  ELSE v(CHOOSE x \in s : TRUE) + it[s \ {CHOOSE x \in s : TRUE}]]
  BY <1>8
<1> HIDE DEF it
<1>10. Sums(it, val, Exam) BY <1>7, <1>9 DEF Sums, AnyOf
<1>11. it[Exam] = h[Exam] BY <1>6, <1>10, ExamsFinite, OneSum
<1> QED BY <1>1, <1>2, <1>4, <1>6, <1>11 DEF old

\* The dashboard's candidates on line are the sessions that are not offline.
LEMMA DashboardOnline ==
  ASSUME StoreInv
  PROVE  liveSummary.online = Cardinality({i \in DOMAIN store.sessions : store.sessions[i].connection # "offline"})
<1> DEFINE old == store.sessions
           Q == {i \in DOMAIN old : old[i].connection # "offline"}
           class == [i \in Q |-> old[i].test]
           v(e) == summarizeMonitorRows(buildMonitorRows(e)).online
           it == CHOOSE f : f = [s \in SUBSET Exam |-> IF s = {} THEN 0
                                    ELSE v(CHOOSE x \in s : TRUE) + f[s \ {CHOOSE x \in s : TRUE}]]
           h == HeldBy(Q, class, Exam)
           val == Sizes(Q, class, Exam)
<1>1. liveSummary.online = MapThenSumSet(LAMBDA e : summarizeMonitorRows(buildMonitorRows(e)).online, Exam)
  BY DEF liveSummary
<1>2. MapThenSumSet(LAMBDA e : summarizeMonitorRows(buildMonitorRows(e)).online, Exam) = it[Exam]
  BY Zenon DEF MapThenSumSet, MapThenFoldSet
<1>3. /\ DOMAIN old = 1..Len(old) /\ Len(old) \in Nat /\ \A i \in Q : class[i] \in Exam
  <2>1. old \in Seq(SessionRow) BY DEF StoreInv, Full
  <2>2. \A s \in SessionRow : s.test \in Exam BY DEF SessionRow
  <2> QED BY <2>1, <2>2
<1>4. IsFiniteSet(Q)
  <2>1. IsFiniteSet(1..Len(old)) BY <1>3, FS_Interval
  <2>2. Q \in SUBSET (1..Len(old)) BY <1>3
  <2> QED BY <2>1, <2>2, FS_Subset
<1>5. ASSUME NEW e \in Exam PROVE v(e) = val[e]
  <2>1. v(e) = Cardinality({i \in Q : old[i].test = e}) BY MonitorCounts
  <2>2. {i \in Q : old[i].test = e} = {i \in Q : class[i] = e} OBVIOUS
  <2> QED BY <2>1, <2>2 DEF Sizes
<1> HIDE DEF old, Q, class, v, val
<1>6. Sums(h, val, Exam) /\ h[Exam] = Cardinality(Q) BY <1>3, <1>4, ClassesSum DEF val
<1>7. \A s \in SUBSET Exam : s # {} => v(CHOOSE x \in s : TRUE) = val[AnyOf(s)]
  BY <1>5 DEF AnyOf
<1>8. h = [s \in SUBSET Exam |-> IF s = {} THEN 0
                                 ELSE v(CHOOSE x \in s : TRUE) + h[s \ {CHOOSE x \in s : TRUE}]]
  <2> HIDE DEF h
  <2>1. h = [s \in SUBSET Exam |-> h[s]] BY DEF h, HeldBy
  <2> QED BY <1>6, <1>7, <2>1 DEF Sums, AnyOf
<1> HIDE DEF h
<1>9. it = [s \in SUBSET Exam |-> IF s = {} THEN 0
                                  ELSE v(CHOOSE x \in s : TRUE) + it[s \ {CHOOSE x \in s : TRUE}]]
  BY <1>8
<1> HIDE DEF it
<1>10. Sums(it, val, Exam) BY <1>7, <1>9 DEF Sums, AnyOf
<1>11. it[Exam] = h[Exam] BY <1>6, <1>10, ExamsFinite, OneSum
<1> QED BY <1>1, <1>2, <1>6, <1>11 DEF old, Q

\* The tiles above the monitor and the dashboard's totals, for any examinations
\* and any split of the sessions over them (selectors.ts:54-94).
LEMMA TilesTell ==
  ASSUME HallInv, StoreInv
  PROVE  TilesMatchTabs
BY TilesCount, DashboardAssigned, DashboardOnline DEF TilesMatchTabs

\* However the console's snapshot was put together, from whole reads and from
\* reads of one examination merged into it, it is the server's while that rests,
\* and the screens built on it agree: roster and grid, tiles and tabs, lab card
\* and health check, and the warning before a password reset; for any
\* examinations, candidates, machines and labs (http.ts, loadExamSlice;
\* selectors.ts; admin-screens.tsx, buildRosterRow; labs.tsx; health.ts).
THEOREM ScreensStayAgreed == LabSpec => []ScreensAgree
<1>1. HallInv /\ StoreInv /\ [LabNext]_lab => (HallInv /\ StoreInv)' BY ScreensStep
<1>2. HallInv /\ StoreInv => SlicesAgree /\ ResetWarned /\ RowMatchesGrid /\ TilesMatchTabs
  BY SlicesTell, ResetTells, RowTells, TilesTell
<1>3. SlicesAgree /\ ResetWarned /\ RowMatchesGrid /\ TilesMatchTabs /\ FaultsCountedOnce /\ CardAgreesWithCheck
        => ScreensAgree
  BY DEF ScreensAgree
<1> QED BY <1>1, <1>2, <1>3, ScreensInit, FaultsDescribedOnce, CardsAgree, PTL DEF LabSpec

-----------------------------------------------------------------------------
(* The results.                                                            *)

Mark == {NoRow} \cup [score : Scores, pending : 0..1]
ResultRow == [exam : Final, name : Names, pending : 0..1, score : Scores \cup {Withheld}]
Finished(r) == r.score # Withheld /\ r.pending = 0
triple(r) == [exam |-> r.exam, name |-> r.name, score |-> r.score]

\* In one examination no mark comes behind a lower one.
Fair == {p \in ResultRow \X ResultRow : p[1].exam = p[2].exam => p[1].score >= p[2].score}

\* Rows that show marks just of the examinations published, and only released
\* ones as finished.
RowsHonest(rows, published) ==
  /\ rows \in Seq(ResultRow)
  /\ \A i \in DOMAIN rows : /\ rows[i].score = Withheld <=> ~published[rows[i].exam]
                            /\ Finished(rows[i]) => triple(rows[i]) \in released
  /\ \A i, j \in DOMAIN rows : i < j => <<rows[i], rows[j]>> \in Fair

Stored == /\ paper \in [Final -> [Names -> Mark]]
          /\ final \in [Final -> [over : BOOLEAN, published : BOOLEAN]]
          /\ Out(paper, final) \subseteq released

Press == [exam : Final \cup {All}, want : BOOLEAN, stage : {"idle", "posted", "stored"}]

ResultsInv ==
  /\ Stored
  /\ page.published \in [Final -> BOOLEAN]
  /\ RowsHonest(page.rows, page.published)
  /\ filter \in Final \cup {All}
  /\ publishing \in Press
  /\ publishing.stage # "idle" => publishing.exam \in Final
  /\ \A i \in DOMAIN report : triple(report[i]) \in released

\* A higher mark has no lower percentage, though percentages are rounded.
LEMMA Percent ==
  ASSUME NEW a \in Nat, NEW b \in Nat
  PROVE  /\ percentage(a) \in Nat /\ percentage(b) \in Nat
         /\ a <= b => percentage(a) <= percentage(b)
<1>1. \A m, n \in Nat, d \in Nat \ {0} : m \div d \in Nat /\ (m <= n => m \div d <= n \div d)
  OBVIOUS
<1>2. /\ 200 * a + OutOf \in Nat /\ 200 * b + OutOf \in Nat /\ 2 * OutOf \in Nat \ {0}
      /\ a <= b => 200 * a + OutOf <= 200 * b + OutOf
  BY ResultsAssumption
<1> QED BY <1>1, <1>2 DEF percentage

\* The server lists the papers of one examination as they are, best mark first.
LEMMA ListedByServer ==
  ASSUME Stored, NEW e \in Final
  PROVE  LET rows == get_results(e)
         IN  /\ rows \in Seq(ResultRow)
             /\ \A i \in DOMAIN rows : /\ rows[i].exam = e
                                       /\ rows[i].score = Withheld <=> ~final[e].published
                                       /\ Finished(rows[i]) => triple(rows[i]) \in released
             /\ \A i, j \in DOMAIN rows : i < j => <<rows[i], rows[j]>> \in Fair
<1> DEFINE score(n) == paper[e][n].score
           sat == Sat(e)
           before == {p \in sat \X sat : \/ score(p[1]) > score(p[2])
                                         \/ score(p[1]) = score(p[2]) /\ p[1] < p[2]}
           line == InOrder(sat, before)
           c == Cardinality(sat)
           rows == get_results(e)
<1>1. /\ final[e].published \in BOOLEAN
      /\ \A n \in sat : /\ n \in Names /\ n \in Nat /\ score(n) \in Scores /\ score(n) \in Nat
                        /\ paper[e][n].pending \in 0..1
  <2>1. final[e].published \in BOOLEAN BY DEF Stored
  <2>2. ASSUME NEW n \in sat PROVE n \in Names /\ paper[e][n] \in [score : Scores, pending : 0..1]
    <3>1. n \in Names /\ paper[e][n] # NoRow BY DEF Sat
    <3>2. paper[e] \in [Names -> Mark] BY DEF Stored
    <3>3. paper[e][n] \in Mark BY <3>1, <3>2
    <3> QED BY <3>1, <3>3 DEF Mark
  <2>3. \A n \in sat : n \in Names /\ score(n) \in Scores /\ paper[e][n].pending \in 0..1 BY <2>2
  <2> HIDE DEF sat, score
  <2>4. Names \subseteq Nat /\ Scores \subseteq Nat BY ResultsAssumption
  <2> QED BY <2>1, <2>3, <2>4
<1>2. IsFiniteSet(sat)
  <2>1. sat \in SUBSET Names BY DEF Sat
  <2> QED BY <2>1, ResultsAssumption, FS_Subset
<1>3. \A x, y \in sat : <<x, y>> \in before <=> score(x) > score(y) \/ (score(x) = score(y) /\ x < y)
  OBVIOUS
<1>4. \A x, y : <<x, y>> \in before => x \in sat /\ y \in sat OBVIOUS
<1>5. rows = [i \in DOMAIN line |->
                [exam |-> e, name |-> line[i], pending |-> paper[e][line[i]].pending,
                 score |-> IF final[e].published THEN score(line[i]) ELSE Withheld]]
  BY DEF get_results
<1> HIDE DEF sat, before, score
<1>6. Strict(before, sat) BY <1>1, <1>3, <1>4 DEF Strict
<1>7. /\ c \in Nat /\ line \in [1..c -> sat]
      /\ \A j, k \in 1..c : j < k => <<line[j], line[k]>> \in before
  BY <1>2, <1>6, LinedUp
<1> HIDE DEF line, c, rows
<1>8. DOMAIN rows = 1..c /\ DOMAIN line = 1..c BY <1>5, <1>7
<1>9. ASSUME NEW i \in 1..c
      PROVE  /\ rows[i] \in ResultRow /\ rows[i].exam = e
             /\ rows[i].name = line[i] /\ rows[i].pending = paper[e][line[i]].pending
             /\ rows[i].score = IF final[e].published THEN score(line[i]) ELSE Withheld
  <2> DEFINE row == [exam |-> e, name |-> line[i], pending |-> paper[e][line[i]].pending,
                     score |-> IF final[e].published THEN score(line[i]) ELSE Withheld]
  <2>1. rows[i] = row BY <1>5, <1>8
  <2>2. row \in ResultRow BY <1>1, <1>7 DEF ResultRow
  <2> QED BY <2>1, <2>2
<1>10. rows \in Seq(ResultRow)
  <2>1. rows = [i \in 1..c |-> rows[i]] BY <1>5, <1>8
  <2> QED BY <1>7, <1>9, <2>1
<1>11. ASSUME NEW i \in 1..c
       PROVE  /\ rows[i].score = Withheld <=> ~final[e].published
              /\ Finished(rows[i]) => triple(rows[i]) \in released
  <2>1. line[i] \in sat /\ score(line[i]) \in Nat /\ line[i] \in Names BY <1>1, <1>7
  <2>2. rows[i].score = Withheld <=> ~final[e].published BY <1>9, <2>1 DEF Withheld
  <2>3. ASSUME Finished(rows[i]) PROVE triple(rows[i]) \in released
    <3>1. final[e].published /\ paper[e][line[i]].pending = 0 BY <1>9, <2>2, <2>3 DEF Finished
    <3>2. triple(rows[i]) = [exam |-> e, name |-> line[i], score |-> paper[e][line[i]].score]
      BY <1>9, <3>1 DEF triple, score
    <3>3. triple(rows[i]) \in Out(paper, final)
      <4> DEFINE done == {x \in Final \X Names : final[x[1]].published /\ paper[x[1]][x[2]].pending = 0}
                 x == <<e, line[i]>>
      <4>1. x \in done BY <2>1, <3>1
      <4>2. x[1] = e /\ x[2] = line[i] OBVIOUS
      <4>3. Out(paper, final) = {[exam |-> y[1], name |-> y[2], score |-> paper[y[1]][y[2]].score] : y \in done}
        BY DEF Out
      <4> HIDE DEF done, x
      <4> QED BY <3>2, <4>1, <4>2, <4>3
    <3> QED BY <3>3 DEF Stored
  <2> QED BY <2>2, <2>3
<1>12. ASSUME NEW i \in 1..c, NEW j \in 1..c, i < j PROVE <<rows[i], rows[j]>> \in Fair
  <2>1. score(line[i]) >= score(line[j])
    <3>1. line[i] \in sat /\ line[j] \in sat /\ <<line[i], line[j]>> \in before BY <1>7, <1>12
    <3>2. score(line[i]) \in Nat /\ score(line[j]) \in Nat BY <1>1, <3>1
    <3> QED BY <1>3, <3>1, <3>2
  <2>2. rows[i].score >= rows[j].score BY <1>9, <2>1 DEF Withheld
  <2> QED BY <1>9, <2>2 DEF Fair
<1> QED BY <1>8, <1>9, <1>10, <1>11, <1>12 DEF rows

\* The whole list read anew.
LEMMA PageReadAnew ==
  ASSUME Stored
  PROVE  /\ WholePage.published \in [Final -> BOOLEAN]
         /\ RowsHonest(WholePage.rows, WholePage.published)
<1> DEFINE parts == [k \in DOMAIN Finals |-> toResults(Finals[k])]
           rows == FlattenSeq(parts)
           published == [e \in Final |-> ShownPublished(e)]
<1>1. WholePage.rows = rows /\ WholePage.published = published BY DEF WholePage
<1>2. /\ DOMAIN Finals = 1..Len(Finals) /\ Len(Finals) \in Nat
      /\ \A k \in DOMAIN Finals : Finals[k] \in Final
      /\ \A k, l \in DOMAIN Finals : Finals[k] = Finals[l] => k = l
  BY ResultsAssumption DEF Final, ToSet, IsInjective
<1>3. ASSUME NEW k \in DOMAIN Finals
      PROVE  /\ parts[k] \in Seq(ResultRow)
             /\ \A i \in DOMAIN parts[k] : /\ parts[k][i].exam = Finals[k]
                                           /\ parts[k][i].score = Withheld <=> ~published[Finals[k]]
                                           /\ Finished(parts[k][i]) => triple(parts[k][i]) \in released
             /\ \A i, j \in DOMAIN parts[k] : i < j => <<parts[k][i], parts[k][j]>> \in Fair
  <2>1. parts[k] = toResults(Finals[k]) /\ published[Finals[k]] = ShownPublished(Finals[k]) BY <1>2
  <2> HIDE DEF parts, published
  <2>2. CASE final[Finals[k]].over
    <3>1. parts[k] = get_results(Finals[k]) BY <2>1, <2>2 DEF toResults
    <3>3. published[Finals[k]] <=> final[Finals[k]].published
      BY <2>1, <2>2, Zenon DEF ShownPublished
    <3>2. final[Finals[k]].published \in BOOLEAN BY <1>2 DEF Stored
    <3> QED BY <1>2, <3>1, <3>2, <3>3, ListedByServer
  <2>3. CASE ~final[Finals[k]].over
    <3>1. parts[k] = <<>> BY <2>1, <2>3 DEF toResults
    <3>2. <<>> \in Seq(ResultRow) /\ DOMAIN <<>> = {} OBVIOUS
    <3> QED BY <3>1, <3>2
  <2> QED BY <2>2, <2>3
<1>4. parts \in Seq(Seq(ResultRow)) /\ DOMAIN parts = DOMAIN Finals /\ Len(parts) = Len(Finals)
  <2>1. parts \in [1..Len(Finals) -> Seq(ResultRow)] /\ DOMAIN parts = DOMAIN Finals BY <1>2, <1>3
  <2> HIDE DEF parts
  <2> QED BY <1>2, <2>1
<1>5. published \in [Final -> BOOLEAN] BY DEF ShownPublished, Stored
<1> HIDE DEF parts, published
<1>6. \A k, l \in DOMAIN parts : k < l =>
         \A i \in DOMAIN parts[k], j \in DOMAIN parts[l] : <<parts[k][i], parts[l][j]>> \in Fair
  <2>1. ASSUME NEW k \in DOMAIN parts, NEW l \in DOMAIN parts, k < l,
               NEW i \in DOMAIN parts[k], NEW j \in DOMAIN parts[l]
        PROVE  <<parts[k][i], parts[l][j]>> \in Fair
    <3>1. parts[k][i] \in ResultRow /\ parts[l][j] \in ResultRow BY <1>3, <1>4
    <3>2. parts[k][i].exam = Finals[k] /\ parts[l][j].exam = Finals[l] BY <1>3, <1>4
    <3>3. Finals[k] # Finals[l] BY <1>2, <1>4, <2>1
    <3> QED BY <3>1, <3>2, <3>3 DEF Fair
  <2> QED BY <2>1
<1>7. \A k \in DOMAIN parts : \A i, j \in DOMAIN parts[k] : i < j => <<parts[k][i], parts[k][j]>> \in Fair
  BY <1>3, <1>4
<1>8. Flat(rows, ResultRow, Fair, parts, Len(parts)) BY <1>4, <1>6, <1>7, Flattened
<1>9. /\ rows \in Seq(ResultRow)
      /\ \A i \in DOMAIN rows : \E k \in DOMAIN Finals : \E p \in DOMAIN parts[k] : rows[i] = parts[k][p]
      /\ \A i, j \in DOMAIN rows : i < j => <<rows[i], rows[j]>> \in Fair
  BY <1>2, <1>4, <1>8 DEF Flat
<1> HIDE DEF rows
<1>10. ASSUME NEW i \in DOMAIN rows
       PROVE  /\ rows[i].score = Withheld <=> ~published[rows[i].exam]
              /\ Finished(rows[i]) => triple(rows[i]) \in released
  <2>1. PICK k \in DOMAIN Finals : \E p \in DOMAIN parts[k] : rows[i] = parts[k][p] BY <1>9
  <2>2. PICK p \in DOMAIN parts[k] : rows[i] = parts[k][p] BY <2>1
  <2> QED BY <1>3, <2>2
<1>11. RowsHonest(rows, published) BY <1>9, <1>10 DEF RowsHonest
<1> QED BY <1>1, <1>5, <1>11

\* One examination read again.
LEMMA SliceReadAnew ==
  ASSUME ResultsInv, NEW e \in Final
  PROVE  /\ PageSlice(e).published \in [Final -> BOOLEAN]
         /\ RowsHonest(PageSlice(e).rows, PageSlice(e).published)
<1> DEFINE old == page.rows
           at == {i \in DOMAIN old : old[i].exam # e}
           others == Filter(old, LAMBDA r : r.exam # e)
           own == toResults(e)
           rows == others \o own
           published == [page.published EXCEPT ![e] = ShownPublished(e)]
<1>1. PageSlice(e).rows = rows /\ PageSlice(e).published = published BY DEF PageSlice
<1>2. RowsHonest(old, page.published) /\ page.published \in [Final -> BOOLEAN] /\ Stored
  BY DEF ResultsInv
<1>3. published \in [Final -> BOOLEAN] /\ published[e] = ShownPublished(e)
      /\ \A d \in Final : d # e => published[d] = page.published[d]
  BY <1>2 DEF ShownPublished, Stored
<1>4. /\ old \in Seq(ResultRow)
      /\ \A i \in DOMAIN old : /\ old[i].score = Withheld <=> ~page.published[old[i].exam]
                               /\ Finished(old[i]) => triple(old[i]) \in released
      /\ \A i, j \in DOMAIN old : i < j => <<old[i], old[j]>> \in Fair
  BY <1>2 DEF RowsHonest
<1>5. Sifted(others, old, at, ResultRow)
  <2>1. at \subseteq DOMAIN old OBVIOUS
  <2>2. others = LET kept == InOrder(at, Upward(at)) IN [k \in DOMAIN kept |-> old[kept[k]]] BY DEF Filter
  <2> HIDE DEF at, others, old
  <2> QED BY <1>4, <2>1, <2>2, Kept
<1>6. /\ own \in Seq(ResultRow)
      /\ \A i \in DOMAIN own : /\ own[i].exam = e
                               /\ own[i].score = Withheld <=> ~published[e]
                               /\ Finished(own[i]) => triple(own[i]) \in released
      /\ \A i, j \in DOMAIN own : i < j => <<own[i], own[j]>> \in Fair
  <2> HIDE DEF published
  <2>1. CASE final[e].over
    <3>1. own = get_results(e) BY <2>1 DEF toResults
    <3>3. published[e] <=> final[e].published BY <1>3, <2>1, Zenon DEF ShownPublished
    <3>2. final[e].published \in BOOLEAN BY <1>2 DEF Stored
    <3> QED BY <1>2, <3>1, <3>2, <3>3, ListedByServer
  <2>2. CASE ~final[e].over
    <3>1. own = <<>> BY <2>2 DEF toResults
    <3>2. <<>> \in Seq(ResultRow) /\ DOMAIN <<>> = {} OBVIOUS
    <3> QED BY <3>1, <3>2
  <2> QED BY <2>1, <2>2
<1> HIDE DEF published, own, others
<1>7. PICK kept \in [DOMAIN others -> at] :
         /\ \A k \in DOMAIN others : others[k] = old[kept[k]]
         /\ \A j, k \in DOMAIN others : j < k => kept[j] < kept[k]
  BY <1>5 DEF Sifted
<1>8. others \in Seq(ResultRow) BY <1>5 DEF Sifted
<1>9. ASSUME NEW k \in DOMAIN others
      PROVE  /\ kept[k] \in DOMAIN old /\ others[k].exam # e /\ others[k] \in ResultRow
             /\ others[k].score = Withheld <=> ~published[others[k].exam]
             /\ Finished(others[k]) => triple(others[k]) \in released
  <2>1. kept[k] \in DOMAIN old /\ old[kept[k]].exam # e /\ others[k] = old[kept[k]] BY <1>7
  <2>3. old[kept[k]] \in ResultRow
    <3> HIDE DEF old
    <3> QED BY <1>4, <2>1
  <2>2. old[kept[k]] \in ResultRow /\ old[kept[k]].exam \in Final BY <2>3 DEF ResultRow
  <2> HIDE DEF old
  <2> QED BY <1>3, <1>4, <2>1, <2>2
<1>10. Catenated(others, own, rows, ResultRow) BY <1>6, <1>8, Joined
<1>11. \A i, j \in DOMAIN others : i < j => <<others[i], others[j]>> \in Fair BY <1>4, <1>7, <1>9
<1> HIDE DEF rows, old, at
<1>12. rows \in Seq(ResultRow) BY <1>10 DEF Catenated
<1>13. ASSUME NEW i \in DOMAIN rows
       PROVE  /\ rows[i].score = Withheld <=> ~published[rows[i].exam]
              /\ Finished(rows[i]) => triple(rows[i]) \in released
  <2>1. (\E k \in DOMAIN others : rows[i] = others[k]) \/ (\E k \in DOMAIN own : rows[i] = own[k])
    BY <1>10 DEF Catenated
  <2>2. CASE \E k \in DOMAIN others : rows[i] = others[k] BY <1>9, <2>2
  <2>3. CASE \E k \in DOMAIN own : rows[i] = own[k] BY <1>6, <2>3
  <2> QED BY <2>1, <2>2, <2>3
<1>14. ASSUME NEW i \in DOMAIN rows, NEW j \in DOMAIN rows, i < j PROVE <<rows[i], rows[j]>> \in Fair
  <2>1. /\ Len(others) \in Nat /\ DOMAIN others = 1..Len(others) /\ i \in Int /\ j \in Int
        /\ \A k \in DOMAIN own : k \in Int
    BY <1>6, <1>8, <1>12
  <2>2. /\ \/ i \in DOMAIN others /\ rows[i] = others[i]
           \/ i > Len(others) /\ i - Len(others) \in DOMAIN own /\ rows[i] = own[i - Len(others)]
        /\ \/ j \in DOMAIN others /\ rows[j] = others[j]
           \/ j > Len(others) /\ j - Len(others) \in DOMAIN own /\ rows[j] = own[j - Len(others)]
        /\ i >= 1
    BY <1>10, <1>12 DEF Catenated
  <2>3. CASE j \in DOMAIN others /\ rows[j] = others[j]
    <3>1. ~(i > Len(others)) BY <1>14, <2>1, <2>3
    <3> QED BY <1>11, <1>14, <2>2, <2>3, <3>1
  <2>4. CASE j - Len(others) \in DOMAIN own /\ rows[j] = own[j - Len(others)]
    <3>1. CASE i \in DOMAIN others /\ rows[i] = others[i]
      <4>1. own[j - Len(others)].exam = e /\ own[j - Len(others)] \in ResultRow BY <1>6, <2>4
      <4>2. others[i].exam # e /\ others[i] \in ResultRow BY <1>9, <3>1
      <4> QED BY <2>4, <3>1, <4>1, <4>2 DEF Fair
    <3>2. CASE i - Len(others) \in DOMAIN own /\ rows[i] = own[i - Len(others)]
      <4>1. i - Len(others) < j - Len(others) BY <1>14, <2>1
      <4> QED BY <1>6, <2>4, <3>2, <4>1
    <3> QED BY <2>2, <3>1, <3>2
  <2> QED BY <2>2, <2>3, <2>4
<1>15. RowsHonest(rows, published) BY <1>12, <1>13, <1>14 DEF RowsHonest
<1> QED BY <1>1, <1>3, <1>15

\* What the screen shows of the copy, in the order of the copy.
LEMMA Visible ==
  ASSUME ResultsInv
  PROVE  /\ visible \in Seq(ResultRow)
         /\ \A i \in DOMAIN visible :
               /\ filter = All \/ visible[i].exam = filter
               /\ visible[i].score = Withheld <=> ~page.published[visible[i].exam]
               /\ Finished(visible[i]) => triple(visible[i]) \in released
         /\ \A i, j \in DOMAIN visible : i < j => <<visible[i], visible[j]>> \in Fair
<1> DEFINE all == page.rows
           at == {i \in DOMAIN all : filter = All \/ all[i].exam = filter}
<1>1. /\ all \in Seq(ResultRow)
      /\ \A i \in DOMAIN all : /\ all[i].score = Withheld <=> ~page.published[all[i].exam]
                               /\ Finished(all[i]) => triple(all[i]) \in released
      /\ \A i, j \in DOMAIN all : i < j => <<all[i], all[j]>> \in Fair
  BY DEF ResultsInv, RowsHonest
<1>2. Sifted(visible, all, at, ResultRow)
  <2>1. at \subseteq DOMAIN all OBVIOUS
  <2>2. visible = LET kept == InOrder(at, Upward(at)) IN [k \in DOMAIN kept |-> all[kept[k]]]
    BY DEF visible, Filter
  <2> HIDE DEF at, all
  <2> QED BY <1>1, <2>1, <2>2, Kept
<1>3. PICK kept \in [DOMAIN visible -> at] :
         /\ \A k \in DOMAIN visible : visible[k] = all[kept[k]]
         /\ \A j, k \in DOMAIN visible : j < k => kept[j] < kept[k]
  BY <1>2 DEF Sifted
<1>4. \A k \in DOMAIN visible : /\ kept[k] \in DOMAIN all /\ visible[k] = all[kept[k]]
                                /\ filter = All \/ visible[k].exam = filter
  BY <1>3
<1> HIDE DEF at, all
<1> QED BY <1>1, <1>2, <1>3, <1>4 DEF Sifted

\* A reading of the rows shown: its rows are rows shown, and none that passes
\* the test is left out.
LEMMA Reading ==
  ASSUME ResultsInv, NEW at, at \subseteq DOMAIN visible
  PROVE  LET kept == InOrder(at, Upward(at))
             rest == [k \in DOMAIN kept |-> visible[kept[k]]]
         IN  /\ rest \in Seq(ResultRow)
             /\ \A k \in DOMAIN rest : \E i \in at : rest[k] = visible[i]
             /\ \A j, k \in DOMAIN rest : j < k => <<rest[j], rest[k]>> \in Fair
             /\ at = {} => rest = <<>>
<1> DEFINE kept == InOrder(at, Upward(at))
           rest == [k \in DOMAIN kept |-> visible[kept[k]]]
<1>1. /\ visible \in Seq(ResultRow)
      /\ \A i, j \in DOMAIN visible : i < j => <<visible[i], visible[j]>> \in Fair
  BY Visible
<1>2. Sifted(rest, visible, at, ResultRow) BY <1>1, Kept
<1> HIDE DEF rest
<1>3. rest \in Seq(ResultRow) /\ Len(rest) = Cardinality(at) BY <1>2 DEF Sifted
<1>4. PICK f \in [DOMAIN rest -> at] :
         /\ \A k \in DOMAIN rest : rest[k] = visible[f[k]]
         /\ \A j, k \in DOMAIN rest : j < k => f[j] < f[k]
  BY <1>2 DEF Sifted
<1>5. \A k \in DOMAIN rest : f[k] \in at /\ f[k] \in DOMAIN visible BY <1>4
<1>6. \A k \in DOMAIN rest : \E i \in at : rest[k] = visible[i] BY <1>4, <1>5
<1>7. \A j, k \in DOMAIN rest : j < k => <<rest[j], rest[k]>> \in Fair BY <1>1, <1>4, <1>5
<1>8. ASSUME at = {} PROVE rest = <<>>
  <2>1. Len(rest) = 0 BY <1>3, <1>8, FS_EmptySet
  <2> QED BY <1>3, <2>1, EmptySeq
<1> QED BY <1>3, <1>6, <1>7, <1>8 DEF rest

\* The ranking of rows that the exam cell has released and finished.
LEMMA RankedRows ==
  ASSUME ResultsInv
  PROVE  /\ \A i \in DOMAIN ranked : triple(ranked[i]) \in released
         /\ RankFollowsScore
         /\ (\A i \in DOMAIN visible : visible[i].score = Withheld) => ranked = <<>>
<1> DEFINE at == {i \in DOMAIN visible : visible[i].score # Withheld /\ visible[i].pending = 0}
           kept == InOrder(at, Upward(at))
           scored == [k \in DOMAIN kept |-> visible[kept[k]]]
           N == Len(scored)
           share(i) == percentage(scored[i].score)
           before == {p \in (DOMAIN scored) \X (DOMAIN scored) :
                        \/ share(p[1]) > share(p[2])
                        \/ share(p[1]) = share(p[2]) /\ p[1] < p[2]}
           order == InOrder(DOMAIN scored, before)
<1>1. ranked = [k \in DOMAIN order |-> scored[order[k]]]
  <2>1. Filter(visible, LAMBDA r : r.score # Withheld /\ r.pending = 0) = scored BY DEF Filter
  <2> HIDE DEF scored
  <2> QED BY <2>1 DEF ranked, Ranking
<1>2. /\ scored \in Seq(ResultRow)
      /\ \A k \in DOMAIN scored : \E i \in at : scored[k] = visible[i]
      /\ \A j, k \in DOMAIN scored : j < k => <<scored[j], scored[k]>> \in Fair
      /\ at = {} => scored = <<>>
  <2>1. at \subseteq DOMAIN visible OBVIOUS
  <2> HIDE DEF at
  <2> QED BY <2>1, Reading
<1>3. \A i \in at : /\ visible[i].score # Withheld /\ visible[i].pending = 0
                    /\ filter = All \/ visible[i].exam = filter
                    /\ triple(visible[i]) \in released
  BY Visible DEF Finished
<1>4. at = {} <=> \A i \in DOMAIN visible : ~(visible[i].score # Withheld /\ visible[i].pending = 0)
  OBVIOUS
<1> HIDE DEF at, kept, scored
<1>5. N \in Nat /\ DOMAIN scored = 1..N BY <1>2
<1>6. ASSUME NEW k \in DOMAIN scored
      PROVE  /\ scored[k].score \in Nat /\ share(k) \in Nat /\ k \in Nat
             /\ filter = All \/ scored[k].exam = filter
             /\ triple(scored[k]) \in released
  <2>1. PICK i \in at : scored[k] = visible[i] BY <1>2
  <2>2. scored[k] \in ResultRow BY <1>2
  <2>3. scored[k].score \in Scores BY <1>3, <2>1, <2>2 DEF ResultRow
  <2>4. Scores \subseteq Nat BY ResultsAssumption
  <2>5. scored[k].score \in Nat BY <2>3, <2>4
  <2> QED BY <1>3, <1>5, <2>1, <2>5, Percent
<1>7. /\ \A j, k \in DOMAIN scored : <<j, k>> \in before
                                      <=> share(j) > share(k) \/ (share(j) = share(k) /\ j < k)
      /\ \A x, y : <<x, y>> \in before => x \in DOMAIN scored /\ y \in DOMAIN scored
  OBVIOUS
<1>8. \A j, k \in DOMAIN scored : share(j) > share(k) => scored[j].score > scored[k].score
  <2>1. ASSUME NEW j \in DOMAIN scored, NEW k \in DOMAIN scored, share(j) > share(k)
        PROVE  scored[j].score > scored[k].score
    <3>1. scored[j].score <= scored[k].score => share(j) <= share(k) BY <1>6, Percent
    <3> QED BY <1>6, <2>1, <3>1
  <2> QED BY <2>1
<1> HIDE DEF before, share, N
<1>9. Strict(before, DOMAIN scored) BY <1>6, <1>7 DEF Strict
<1>10. IsFiniteSet(DOMAIN scored) /\ Cardinality(DOMAIN scored) = N BY <1>5, FS_Interval
<1>11. /\ order \in [1..N -> DOMAIN scored]
       /\ \A j, k \in 1..N : j < k => <<order[j], order[k]>> \in before
  BY <1>9, <1>10, LinedUp
<1> HIDE DEF order
<1>12. DOMAIN ranked = 1..N /\ \A k \in 1..N : order[k] \in DOMAIN scored /\ ranked[k] = scored[order[k]]
  BY <1>1, <1>11
<1>13. ASSUME NEW i \in DOMAIN ranked, NEW j \in DOMAIN ranked, i < j
       PROVE  /\ percentage(ranked[i].score) >= percentage(ranked[j].score)
              /\ filter # All => ranked[i].score >= ranked[j].score
  <2>1. /\ order[i] \in DOMAIN scored /\ order[j] \in DOMAIN scored
        /\ \/ share(order[i]) > share(order[j])
           \/ share(order[i]) = share(order[j]) /\ order[i] < order[j]
    BY <1>7, <1>11, <1>12, <1>13
  <2>2. share(order[i]) >= share(order[j]) BY <1>6, <2>1
  <2>3. ASSUME filter # All PROVE ranked[i].score >= ranked[j].score
    <3>1. scored[order[i]].exam = scored[order[j]].exam BY <1>6, <2>1, <2>3
    <3>2. CASE share(order[i]) > share(order[j]) BY <1>6, <1>8, <1>12, <2>1, <3>2
    <3>3. CASE order[i] < order[j]
      <4>1. <<scored[order[i]], scored[order[j]]>> \in Fair BY <1>2, <2>1, <3>3
      <4> QED BY <1>12, <3>1, <4>1 DEF Fair
    <3> QED BY <2>1, <3>2, <3>3
  <2> QED BY <1>12, <2>2, <2>3 DEF share
<1>14. ASSUME NEW i \in DOMAIN ranked PROVE percentage(ranked[i].score) <= highest
  <2>1. 1 \in DOMAIN ranked /\ (i = 1 \/ 1 < i) /\ ranked # <<>>
    <3>1. 1 \in DOMAIN ranked /\ (i = 1 \/ 1 < i) BY <1>5, <1>12 DEF N
    <3>2. DOMAIN <<>> = {} OBVIOUS
    <3> QED BY <3>1, <3>2
  <2>2. highest = percentage(ranked[1].score) BY <2>1 DEF highest
  <2>3. percentage(ranked[i].score) \in Nat /\ percentage(ranked[1].score) \in Nat
    BY <1>6, <1>12, <2>1 DEF share
  <2>4. 1 < i => percentage(ranked[1].score) >= percentage(ranked[i].score) BY <1>13, <2>1
  <2> QED BY <2>1, <2>2, <2>3, <2>4
<1>15. RankFollowsScore BY <1>13, <1>14 DEF RankFollowsScore
<1>16. \A i \in DOMAIN ranked : triple(ranked[i]) \in released BY <1>6, <1>12
<1>17. ASSUME \A i \in DOMAIN visible : visible[i].score = Withheld PROVE ranked = <<>>
  <2>1. scored = <<>> BY <1>2, <1>4, <1>17
  <2>2. N = 0 BY <2>1 DEF N
  <2>3. ranked = [k \in 1..N |-> ranked[k]] BY <1>1, <1>11, <1>12
  <2>4. 1..N = {} BY <2>2
  <2>5. ranked \in Seq({}) /\ Len(ranked) = 0
    <3>1. ranked \in [1..N -> {}] BY <2>3, <2>4
    <3> QED BY <1>12, <2>2, <3>1
  <2> QED BY <2>5, EmptySeq
<1> QED BY <1>15, <1>16, <1>17

\* Honest rows make an honest screen.
LEMMA HonestScreen ==
  ASSUME ResultsInv
  PROVE  ResultsHonest
<1>1. ASSUME NEW r \in ToSet(ranked) \cup ToSet(report)
      PROVE  [exam |-> r.exam, name |-> r.name, score |-> r.score] \in released
  <2>1. (\E i \in DOMAIN ranked : r = ranked[i]) \/ (\E i \in DOMAIN report : r = report[i])
    BY DEF ToSet
  <2> QED BY <2>1, RankedRows DEF ResultsInv, triple
<1>2. RankFollowsScore BY RankedRows
<1>3. ASSUME filter # All
      PROVE  IF page.published[filter] THEN withheld_rows = <<>>
             ELSE ranked = <<>> /\ marking_rows = <<>>
  <2>1. \A i \in DOMAIN visible : visible[i].score = Withheld <=> ~page.published[filter]
    BY <1>3, Visible
  <2>2. CASE page.published[filter]
    <3> DEFINE at == {i \in DOMAIN visible : visible[i].score = Withheld}
    <3>1. at = {} BY <2>1, <2>2
    <3>2. withheld_rows = LET kept == InOrder(at, Upward(at)) IN [k \in DOMAIN kept |-> visible[kept[k]]]
      BY DEF withheld_rows, Filter
    <3> HIDE DEF at
    <3>3. at \subseteq DOMAIN visible BY <3>1
    <3>4. withheld_rows = <<>> BY <3>1, <3>2, <3>3, Reading
    <3> QED BY <2>2, <3>4
  <2>3. CASE ~page.published[filter]
    <3> DEFINE at == {i \in DOMAIN visible : visible[i].score # Withheld /\ visible[i].pending > 0}
    <3>1. at = {} BY <2>1, <2>3
    <3>2. marking_rows = LET kept == InOrder(at, Upward(at)) IN [k \in DOMAIN kept |-> visible[kept[k]]]
      BY DEF marking_rows, Filter
    <3> HIDE DEF at
    <3>3. at \subseteq DOMAIN visible BY <3>1
    <3>4. marking_rows = <<>> BY <3>1, <3>2, <3>3, Reading
    <3>5. ranked = <<>> BY <2>1, <2>3, RankedRows
    <3> QED BY <2>3, <3>4, <3>5
  <2> QED BY <2>2, <2>3
<1> QED BY <1>1, <1>2, <1>3 DEF ResultsHonest, OnlyReleasedMarks, BadgeMatchesRows

-----------------------------------------------------------------------------
\* A mark that goes into the register of the released ones stays there.
LEMMA StillHonest ==
  ASSUME ResultsInv, released \subseteq released',
         UNCHANGED <<page, filter, publishing, report>>, Stored'
  PROVE  ResultsInv'
<1>1. page' = page /\ filter' = filter /\ publishing' = publishing /\ report' = report OBVIOUS
<1>2. RowsHonest(page.rows, page.published)'
  <2>1. RowsHonest(page.rows, page.published) BY DEF ResultsInv
  <2> QED BY <1>1, <2>1 DEF RowsHonest
<1>3. (\A i \in DOMAIN report : triple(report[i]) \in released)' BY <1>1 DEF ResultsInv, triple
<1> QED BY <1>1, <1>2, <1>3 DEF ResultsInv

\* The server's own steps.
LEMMA ServerHonest ==
  ASSUME ResultsInv, ServerSteps,
         paper' \in [Final -> [Names -> Mark]],
         final' \in [Final -> [over : BOOLEAN, published : BOOLEAN]]
  PROVE  ResultsInv'
<1>1. released \subseteq released' /\ Out(paper', final') \subseteq released'
      /\ UNCHANGED <<page, filter, publishing, report>>
  BY DEF ServerSteps
<1>2. Stored' BY <1>1 DEF Stored, Out
<1> QED BY <1>1, <1>2, StillHonest

\* A copy read from the server, whole or one examination of it.
LEMMA ReadHonest ==
  ASSUME ResultsInv, NEW copy, Reads(copy),
         copy.published \in [Final -> BOOLEAN], RowsHonest(copy.rows, copy.published),
         publishing' \in Press, publishing'.stage # "idle" => publishing'.exam \in Final
  PROVE  ResultsInv'
<1>1. page' = copy /\ UNCHANGED <<paper, final, filter, report, markings, released>> BY DEF Reads
<1>2. Stored' BY <1>1 DEF ResultsInv, Stored, Out
<1>3. RowsHonest(page.rows, page.published)' BY <1>1 DEF RowsHonest
<1>4. (\A i \in DOMAIN report : triple(report[i]) \in released)' BY <1>1 DEF ResultsInv, triple
<1> QED BY <1>1, <1>2, <1>3, <1>4 DEF ResultsInv

\* A step of the screen that reads nothing and changes no row.
LEMMA ScreenHonest ==
  ASSUME ResultsInv, UNCHANGED <<paper, final, page, released>>,
         filter' \in Final \cup {All},
         publishing' \in Press, publishing'.stage # "idle" => publishing'.exam \in Final,
         \A i \in DOMAIN report' : triple(report'[i]) \in released
  PROVE  ResultsInv'
<1>1. UNCHANGED paper /\ UNCHANGED final /\ UNCHANGED page /\ UNCHANGED released OBVIOUS
<1>2. Stored' BY <1>1 DEF ResultsInv, Stored, Out
<1>3. RowsHonest(page.rows, page.published)' BY <1>1 DEF ResultsInv, RowsHonest
<1>4. (\A i \in DOMAIN report : triple(report[i]) \in released)' BY <1>1 DEF triple
<1>5. page'.published \in [Final -> BOOLEAN] BY <1>1 DEF ResultsInv
<1> QED BY <1>2, <1>3, <1>4, <1>5 DEF ResultsInv

\* Every step keeps the rows of the copy honest.
LEMMA ResultsStep ==
  ASSUME ResultsInv, [ResultsNext]_results
  PROVE  ResultsInv'
<1>p. publishing \in Press /\ (publishing.stage # "idle" => publishing.exam \in Final) BY DEF ResultsInv
<1> USE <1>p
<1>0. /\ paper \in [Final -> [Names -> Mark]]
      /\ final \in [Final -> [over : BOOLEAN, published : BOOLEAN]]
      /\ filter \in Final \cup {All}
      /\ \A i \in DOMAIN report : triple(report[i]) \in released
  BY DEF ResultsInv, Stored
<1>1. ASSUME NEW e \in Final, NEW n \in Names, PaperGraded(e, n) PROVE ResultsInv'
  <2>1. PICK s \in Scores, k \in 0..1 : paper' = [paper EXCEPT ![e][n] = [score |-> s, pending |-> k]]
    BY <1>1 DEF PaperGraded
  <2>2. [score |-> s, pending |-> k] \in Mark BY DEF Mark
  <2>3. paper' \in [Final -> [Names -> Mark]] BY <1>0, <2>1, <2>2
  <2> QED BY <1>0, <1>1, <2>3, ServerHonest DEF PaperGraded
<1>2. ASSUME NEW e \in Final, NEW n \in Names, PaperMarked(e, n) PROVE ResultsInv'
  <2>1. PICK s \in Scores : paper' = [paper EXCEPT ![e][n] = [score |-> s, pending |-> 0]]
    BY <1>2 DEF PaperMarked
  <2>2. [score |-> s, pending |-> 0] \in Mark BY DEF Mark
  <2>3. paper' \in [Final -> [Names -> Mark]] BY <1>0, <2>1, <2>2
  <2> QED BY <1>0, <1>2, <2>3, ServerHonest DEF PaperMarked
<1>3. ASSUME NEW e \in Final, ExamOver(e) PROVE ResultsInv'
  <2>1. final' \in [Final -> [over : BOOLEAN, published : BOOLEAN]] BY <1>0, <1>3 DEF ExamOver
  <2> QED BY <1>0, <1>3, <2>1, ServerHonest DEF ExamOver
<1>4. ASSUME NEW e \in Final, PublishedElsewhere(e) PROVE ResultsInv'
  <2>1. final' \in [Final -> [over : BOOLEAN, published : BOOLEAN]]
    BY <1>0, <1>4 DEF PublishedElsewhere, publish_results
  <2> QED BY <1>0, <1>4, <2>1, ServerHonest DEF PublishedElsewhere, publish_results
<1>5. ASSUME NEW e \in Final, RefreshOne(e) PROVE ResultsInv'
  <2>1. publishing' = publishing BY <1>5 DEF RefreshOne
  <2> QED BY <1>5, <2>1, SliceReadAnew, ReadHonest DEF RefreshOne
<1>6. CASE RefreshAll
  <2>1. publishing' = publishing /\ Stored BY <1>6 DEF RefreshAll, ResultsInv
  <2> QED BY <1>6, <2>1, PageReadAnew, ReadHonest DEF RefreshAll
<1>7. CASE exportResults
  <2>1. UNCHANGED <<paper, final, page, filter, publishing, markings, released>> /\ report' = ranked
    BY <1>7 DEF exportResults
  <2>2. \A i \in DOMAIN report' : triple(report'[i]) \in released BY <2>1, RankedRows
  <2> QED BY <1>0, <2>1, <2>2, ScreenHonest
<1>8. CASE togglePublication
  <2>1. /\ UNCHANGED <<paper, final, page, filter, report, markings, released>> /\ filter \in Final
        /\ publishing' = [exam |-> filter, want |-> ~page.published[filter], stage |-> "posted"]
    BY <1>0, <1>8 DEF togglePublication
  <2>2. (~page.published[filter]) \in BOOLEAN OBVIOUS
  <2>3. publishing' \in Press /\ publishing'.exam \in Final BY <2>1, <2>2 DEF Press
  <2> QED BY <1>0, <2>1, <2>3, ScreenHonest
<1>9. CASE PublishCommits
  <2>1. /\ publishing.stage = "posted" /\ publishing' = [publishing EXCEPT !.stage = "stored"]
        /\ released' = released \cup Out(paper', final') /\ UNCHANGED <<page, filter, report, markings>>
        /\ final' = [final EXCEPT ![publishing.exam].published = publishing.want] /\ UNCHANGED paper
    BY <1>9 DEF PublishCommits, publish_results
  <2>2. publishing.want \in BOOLEAN /\ publishing.exam \in Final BY <2>1 DEF Press
  <2>3. final' \in [Final -> [over : BOOLEAN, published : BOOLEAN]] BY <1>0, <2>1, <2>2
  <2>4. Stored' BY <1>0, <2>1, <2>3 DEF Stored, Out
  <2>5. publishing' \in Press /\ publishing'.exam \in Final BY <2>1, <2>2 DEF Press
  <2>6. RowsHonest(page.rows, page.published)'
    <3>1. RowsHonest(page.rows, page.published) BY DEF ResultsInv
    <3>2. page' = page /\ released \subseteq released' BY <2>1
    <3> QED BY <3>1, <3>2 DEF RowsHonest
  <2>7. (\A i \in DOMAIN report : triple(report[i]) \in released)' BY <1>0, <2>1 DEF triple
  <2> QED BY <2>1, <2>4, <2>5, <2>6, <2>7 DEF ResultsInv
<1>10. CASE PublishLands
  <2>1. publishing.exam \in Final /\ publishing' = Idle /\ Reads(PageSlice(publishing.exam))
    BY <1>10 DEF PublishLands
  <2>2. publishing' \in Press /\ publishing'.stage = "idle" BY <2>1 DEF Press, Idle, All
  <2> QED BY <2>1, <2>2, SliceReadAnew, ReadHonest
<1>11. CASE PublishFails
  <2>1. publishing' = Idle /\ UNCHANGED <<paper, final, page, filter, report, markings, released>>
    BY <1>11 DEF PublishFails
  <2>2. publishing' \in Press /\ publishing'.stage = "idle" BY <2>1 DEF Press, Idle, All
  <2> QED BY <1>0, <2>1, <2>2, ScreenHonest
<1>12. ASSUME NEW f \in Final \cup {All}, Choose(f) PROVE ResultsInv'
  <2>1. filter' = f /\ UNCHANGED <<paper, final, page, publishing, report, markings, released>>
    BY <1>12 DEF Choose
  <2> QED BY <1>0, <2>1, ScreenHonest
<1>13. CASE UNCHANGED results
  <2>1. UNCHANGED <<paper, final, page, filter, publishing, report, released>> BY <1>13 DEF results
  <2> QED BY <1>0, <2>1, ScreenHonest
<1> QED
  BY <1>1, <1>2, <1>3, <1>4, <1>5, <1>6, <1>7, <1>8, <1>9, <1>10, <1>11, <1>12, <1>13 DEF ResultsNext

\* The results screen tells the truth however marking, closing, publishing and
\* reading alternate: for any examinations, candidates and marks, what is ranked
\* or exported was released and finished, ranks follow marks although they are
\* worked out from rounded percentages, and the badge fits the rows
\* (admin-screens.tsx, ResultsScreen).
THEOREM ResultsStayHonest == ResultsSpec => []ResultsHonest
<1>1. ResultsInit => ResultsInv
  <2> SUFFICES ASSUME ResultsInit PROVE ResultsInv OBVIOUS
  <2>1. /\ paper = [e \in Final |-> [n \in Names |-> NoRow]]
        /\ final = [e \in Final |-> [over |-> FALSE, published |-> FALSE]]
        /\ page = WholePage /\ filter = All /\ publishing = Idle /\ report = <<>> /\ released = {}
    BY DEF ResultsInit
  <2>2. paper \in [Final -> [Names -> Mark]] BY <2>1 DEF Mark
  <2>3. final \in [Final -> [over : BOOLEAN, published : BOOLEAN]] BY <2>1
  <2>4. Out(paper, final) \subseteq released
    <3>1. \A e \in Final : final[e].published = FALSE BY <2>1
    <3>2. {x \in Final \X Names : final[x[1]].published /\ paper[x[1]][x[2]].pending = 0} = {} BY <3>1
    <3> QED BY <3>2 DEF Out
  <2>5. Stored BY <2>2, <2>3, <2>4 DEF Stored
  <2>6. publishing \in Press /\ publishing.stage = "idle" BY <2>1 DEF Press, Idle, All
  <2>7. DOMAIN report = {} BY <2>1
  <2> QED BY <2>1, <2>5, <2>6, <2>7, PageReadAnew DEF ResultsInv
<1>2. ResultsInv /\ [ResultsNext]_results => ResultsInv' BY ResultsStep
<1>3. ResultsInv => ResultsHonest BY HonestScreen
<1> QED BY <1>1, <1>2, <1>3, PTL DEF ResultsSpec

-----------------------------------------------------------------------------
(* The seating.                                                            *)

\* The place of w among the members of S.
Rank(w, S) == Cardinality({v \in S : v <= w})

\* Ranks lie between 1 and the size, and follow the order.
LEMMA Ranked ==
  ASSUME NEW S, S \subseteq Nat, IsFiniteSet(S)
  PROVE  /\ Cardinality(S) \in Nat
         /\ \A w : Rank(w, S) \in Nat /\ Rank(w, S) <= Cardinality(S)
         /\ \A w \in S : Rank(w, S) >= 1
         /\ \A u, w \in S : u < w => Rank(u, S) < Rank(w, S)
<1>1. Cardinality(S) \in Nat BY FS_CardinalityType
<1>2. ASSUME NEW w
      PROVE  /\ IsFiniteSet({v \in S : v <= w}) /\ Rank(w, S) \in Nat /\ Rank(w, S) <= Cardinality(S)
  <2>1. {v \in S : v <= w} \in SUBSET S OBVIOUS
  <2> QED BY <2>1, FS_Subset, FS_CardinalityType DEF Rank
<1>3. ASSUME NEW w \in S PROVE Rank(w, S) >= 1
  <2>1. {v \in S : v <= w} # {} OBVIOUS
  <2>2. Rank(w, S) # 0 BY <1>2, <2>1, FS_EmptySet DEF Rank
  <2>3. Rank(w, S) \in Nat BY <1>2
  <2> QED BY <2>2, <2>3
<1>4. ASSUME NEW u \in S, NEW w \in S, u < w PROVE Rank(u, S) < Rank(w, S)
  <2>1. \A v \in S : v <= u => v <= w
    <3>1. \A v \in S : v \in Nat OBVIOUS
    <3> QED BY <1>4, <3>1
  <2>2. {v \in S : v <= u} \in SUBSET {v \in S : v <= w} BY <2>1
  <2>3. {v \in S : v <= u} # {v \in S : v <= w}
    <3>1. u \in Nat /\ w \in Nat OBVIOUS
    <3>2. w \in {v \in S : v <= w} /\ w \notin {v \in S : v <= u} BY <1>4, <3>1
    <3> QED BY <3>2
  <2>4. Rank(u, S) <= Rank(w, S) /\ Rank(u, S) # Rank(w, S)
    BY <1>2, <2>2, <2>3, FS_Subset DEF Rank
  <2>5. Rank(u, S) \in Nat /\ Rank(w, S) \in Nat BY <1>2
  <2> QED BY <2>4, <2>5
<1> QED BY <1>1, <1>2, <1>3, <1>4

\* No two members have one rank.
LEMMA SameRank ==
  ASSUME NEW S, S \subseteq Nat, IsFiniteSet(S), NEW u \in S, NEW w \in S, Rank(u, S) = Rank(w, S)
  PROVE  u = w
<1>1. u \in Nat /\ w \in Nat /\ Rank(u, S) \in Nat BY Ranked
<1>2. u < w => Rank(u, S) < Rank(w, S) BY Ranked
<1>3. w < u => Rank(w, S) < Rank(u, S) BY Ranked
<1> QED BY <1>1, <1>2, <1>3

\* The ranks of a set are 1 to its size.
LEMMA RankOnto ==
  ASSUME NEW S, S \subseteq Nat, IsFiniteSet(S), NEW k \in 1..Cardinality(S)
  PROVE  \E w \in S : Rank(w, S) = k
<1> DEFINE rank == [w \in S |-> Rank(w, S)]
           n == Cardinality(S)
<1>1. n \in Nat /\ rank \in [S -> 1..n]
  <2>1. n \in Nat /\ \A w \in S : Rank(w, S) \in Nat /\ Rank(w, S) <= n /\ Rank(w, S) >= 1 BY Ranked
  <2>2. \A w \in S : Rank(w, S) \in 1..n BY <2>1
  <2> QED BY <2>1, <2>2
<1>2. \A u, w \in S : rank[u] = rank[w] => u = w BY SameRank
<1>3. \A w \in S : rank[w] = Rank(w, S) OBVIOUS
<1>4. k \in 1..n OBVIOUS
<1> HIDE DEF rank, n
<1>5. rank \in Injection(S, 1..n) BY <1>1, <1>2 DEF Injection, IsInjective
<1>6. IsFiniteSet(1..n) /\ Cardinality(1..n) = n BY <1>1, FS_Interval
<1>7. rank \in Surjection(S, 1..n) BY <1>5, <1>6, FS_Injection DEF n
<1> QED BY <1>3, <1>4, <1>7 DEF Surjection

\* The k-th free workstation has k free ones up to it, and there is none when
\* they have run out.
LEMMA FreeInTurn ==
  ASSUME NEW free, free \subseteq Nat \ {0}, IsFiniteSet(free), NEW k \in Nat \ {0}
  PROVE  /\ k <= Cardinality(free) => NextFree(k, free) \in free /\ Rank(NextFree(k, free), free) = k
         /\ k > Cardinality(free) => NextFree(k, free) = 0
<1> DEFINE kth == {w \in free : Cardinality({v \in free : v <= w}) = k}
<1>1. free \subseteq Nat /\ Cardinality(free) \in Nat BY FS_CardinalityType
<1>2. kth = {w \in free : Rank(w, free) = k} BY DEF Rank
<1>3. NextFree(k, free) = IF kth = {} THEN 0 ELSE CHOOSE w \in kth : TRUE BY DEF NextFree
<1> HIDE DEF kth
<1>4. ASSUME k <= Cardinality(free) PROVE NextFree(k, free) \in free /\ Rank(NextFree(k, free), free) = k
  <2>1. k \in 1..Cardinality(free) BY <1>1, <1>4
  <2>3. \E w \in free : Rank(w, free) = k BY <1>1, <2>1, RankOnto
  <2>4. kth # {} BY <1>2, <2>3
  <2>2. NextFree(k, free) \in kth BY <1>3, <2>4
  <2> QED BY <1>2, <2>2
<1>5. ASSUME k > Cardinality(free) PROVE NextFree(k, free) = 0
  <2>1. \A w \in free : Rank(w, free) \in Nat /\ Rank(w, free) <= Cardinality(free) BY <1>1, Ranked
  <2>2. \A w \in free : Rank(w, free) # k BY <1>1, <1>5, <2>1
  <2>3. kth = {} BY <1>2, <2>2
  <2> QED BY <1>3, <2>3
<1> QED BY <1>4, <1>5

\* The next of the queue, or none.
next(queue) == IF queue = {} THEN 0 ELSE CHOOSE v \in queue : \A u \in queue : v <= u

\* The next of a queue is its lowest number.
LEMMA NextOf ==
  ASSUME NEW queue, queue \subseteq Nat
  PROVE  /\ queue = {} => next(queue) = 0
         /\ queue # {} => next(queue) \in queue /\ \A u \in queue : next(queue) <= u
         /\ \A w \in queue : (\A u \in queue : w <= u) => w = next(queue)
<1>1. queue # {} => \E v \in queue : \A u \in queue : v <= u BY Least
<1>2. ASSUME queue # {} PROVE next(queue) \in queue /\ \A u \in queue : next(queue) <= u
  <2>1. next(queue) = CHOOSE v \in queue : \A u \in queue : v <= u BY <1>2 DEF next
  <2>2. \E v \in queue : \A u \in queue : v <= u BY <1>1, <1>2
  <2> QED BY <2>1, <2>2
<1>3. ASSUME NEW w \in queue, \A u \in queue : w <= u PROVE w = next(queue)
  <2>1. next(queue) \in queue /\ next(queue) <= w /\ w <= next(queue) BY <1>2, <1>3
  <2>2. w \in Nat /\ next(queue) \in Nat BY <2>1
  <2> QED BY <2>1, <2>2
<1>4. queue = {} => next(queue) = 0 BY DEF next
<1> QED BY <1>2, <1>3, <1>4

\* The workstations that assignments hand out, and 0 when one of them has none.
Handed(assignments) == {assignments[i].computer : i \in DOMAIN assignments}

\* What one more candidate s at the end of the list changes.
SeatsNext(list, s, workstations, occupied, already_seated) ==
  LET before == allocate_seats(list, workstations, occupied, already_seated)
      after  == allocate_seats(Append(list, s), workstations, occupied, already_seated)
      place  == Len(list) + 1
      left   == (workstations \ occupied) \ Handed(before)
  IN  /\ s \in already_seated => DOMAIN after = DOMAIN before
      /\ s \notin already_seated => DOMAIN after = DOMAIN before \cup {place}
      /\ \A i \in DOMAIN before : after[i] = before[i]
      /\ s \notin already_seated => after[place] = [student |-> s, computer |-> next(left)]

\* One more candidate at the end of the enrolment list moves nobody placed
\* before.  Who has a session is passed over; anybody else is given the lowest
\* of the workstations that are neither occupied nor handed out, and none just
\* when there is none left.  With nobody enrolled nobody is placed, so this is
\* the loop of seating.py, allocate_seats, for lists and rooms of any size.
THEOREM SeatsInTurn ==
  ASSUME NEW S, NEW list \in Seq(S), NEW s \in S,
         NEW workstations, \A w \in workstations : w \in Nat /\ w # 0, IsFiniteSet(workstations),
         NEW occupied, NEW already_seated
  PROVE  SeatsNext(list, s, workstations, occupied, already_seated)
<1> DEFINE more    == Append(list, s)
           place   == Len(list) + 1
           free    == workstations \ occupied
           waiting == Waiting(list, already_seated)
           longer  == Waiting(more, already_seated)
           n       == Cardinality(waiting)
           before  == allocate_seats(list, workstations, occupied, already_seated)
           after   == allocate_seats(more, workstations, occupied, already_seated)
           left    == free \ {before[i].computer : i \in DOMAIN before}
<1>1. /\ Len(list) \in Nat /\ DOMAIN list = 1..Len(list) /\ DOMAIN more = 1..place
      /\ more[place] = s /\ \A i \in 1..Len(list) : more[i] = list[i]
  OBVIOUS
<1>2. waiting \subseteq 1..Len(list) /\ longer = waiting \cup (IF s \in already_seated THEN {} ELSE {place})
  <2>1. waiting = {i \in 1..Len(list) : list[i] \notin already_seated} BY <1>1 DEF Waiting
  <2>2. longer = {i \in 1..place : more[i] \notin already_seated} BY <1>1 DEF Waiting
  <2>3. 1..place = 1..Len(list) \cup {place} /\ place \notin 1..Len(list) BY <1>1
  <2> HIDE DEF more, waiting, longer, place
  <2> QED BY <1>1, <2>1, <2>2, <2>3
<1>3. waiting \subseteq Nat /\ IsFiniteSet(waiting) /\ n \in Nat
  <2>1. IsFiniteSet(1..Len(list)) BY <1>1, FS_Interval
  <2> QED BY <1>1, <1>2, <2>1, FS_Subset, FS_CardinalityType
<1>4. free \subseteq Nat \ {0} /\ free \subseteq Nat /\ IsFiniteSet(free) /\ Cardinality(free) \in Nat
  BY FS_Subset, FS_CardinalityType
<1>5. /\ before = [i \in waiting |-> [student |-> list[i], computer |-> NextFree(Turn(i, waiting), free)]]
      /\ after = [i \in longer |-> [student |-> more[i], computer |-> NextFree(Turn(i, longer), free)]]
  BY DEF allocate_seats
<1>6. \A i : Turn(i, waiting) = Rank(i, waiting) BY DEF Turn, Rank
<1>7. ASSUME NEW i \in waiting PROVE Turn(i, longer) = Turn(i, waiting)
  <2>1. i \in Nat /\ i < place BY <1>1, <1>2
  <2>2. {j \in longer : j <= i} = {j \in waiting : j <= i} BY <1>1, <1>2, <2>1
  <2> QED BY <2>2 DEF Turn
<1>8. ASSUME s \notin already_seated PROVE Turn(place, longer) = n + 1
  <2>1. \A j \in waiting : j \in Nat /\ j < place BY <1>1, <1>2
  <2>2. longer = waiting \cup {place} /\ place \notin waiting BY <1>1, <1>2, <1>8, <2>1
  <2>3. {j \in longer : j <= place} = longer BY <1>1, <2>1, <2>2
  <2>4. Cardinality(longer) = n + 1 BY <1>3, <2>2, FS_AddElement
  <2> QED BY <2>3, <2>4 DEF Turn
<1> HIDE DEF more, place, free, waiting, longer, n, before, after
<1>9. DOMAIN before = waiting /\ DOMAIN after = longer BY <1>5
<1>10. \A i \in waiting : after[i] = before[i]
  <2>1. \A i \in waiting : i \in longer /\ more[i] = list[i] BY <1>1, <1>2
  <2> QED BY <1>5, <1>7, <2>1
<1>11. \A w \in free : w \in left <=> Rank(w, free) > n
  <2>0. \A w \in free : Rank(w, free) \in Nat /\ Rank(w, free) >= 1 /\ Rank(w, free) <= Cardinality(free)
    BY <1>4, Ranked
  <2>1. ASSUME NEW i \in waiting PROVE Rank(i, waiting) \in Nat \ {0} /\ Rank(i, waiting) <= n
    <3>1. Rank(i, waiting) \in Nat /\ Rank(i, waiting) <= n /\ Rank(i, waiting) >= 1
      BY <1>3, Ranked DEF n
    <3> QED BY <3>1
  <2>2. ASSUME NEW w \in free, w \notin left PROVE Rank(w, free) <= n
    <3>1. PICK i \in waiting : w = NextFree(Rank(i, waiting), free) BY <1>5, <1>6, <1>9, <2>2
    <3>2. Rank(i, waiting) <= Cardinality(free) \/ Rank(i, waiting) > Cardinality(free) BY <1>4, <2>1
    <3>3. Rank(w, free) = Rank(i, waiting)
      BY <1>4, <2>1, <3>1, <3>2, FreeInTurn
    <3> QED BY <2>1, <3>3
  <2>3. ASSUME NEW w \in free, Rank(w, free) <= n PROVE w \notin left
    <3>1. Rank(w, free) \in 1..n BY <1>3, <2>0, <2>3
    <3>2. PICK i \in waiting : Rank(i, waiting) = Rank(w, free) BY <1>3, <3>1, RankOnto DEF n
    <3> DEFINE u == NextFree(Rank(w, free), free)
    <3>3. u \in free /\ Rank(u, free) = Rank(w, free)
      <4>1. Rank(w, free) \in Nat \ {0} /\ Rank(w, free) <= Cardinality(free) BY <2>0
      <4> QED BY <1>4, <4>1, FreeInTurn
    <3>4. u = w BY <1>4, <3>3, SameRank
    <3>5. before[i].computer = w BY <1>5, <1>6, <3>2, <3>4
    <3> QED BY <1>9, <3>5
  <2>4. \A w \in free : Rank(w, free) > n <=> ~(Rank(w, free) <= n) BY <1>3, <2>0
  <2> QED BY <2>2, <2>3, <2>4
<1>12. ASSUME s \notin already_seated
       PROVE  after[place] = [student |-> s, computer |-> next(left)]
  <2>1. place \in longer BY <1>2, <1>12
  <2>2. after[place] = [student |-> s, computer |-> NextFree(n + 1, free)]
    BY <1>1, <1>5, <1>8, <1>12, <2>1
  <2>3. n + 1 \in Nat \ {0} /\ n + 1 > n BY <1>3
  <2>4. ASSUME left = {} PROVE NextFree(n + 1, free) = 0
    <3>1. ~(n + 1 <= Cardinality(free)) BY <1>4, <1>11, <2>3, <2>4, FreeInTurn
    <3>2. n + 1 > Cardinality(free) BY <1>3, <1>4, <3>1
    <3> QED BY <1>4, <2>3, <3>2, FreeInTurn
  <2>5. ASSUME left # {}
        PROVE  NextFree(n + 1, free) \in left /\ \A w \in left : NextFree(n + 1, free) <= w
    <3>1. PICK m \in left : TRUE BY <2>5
    <3>2. m \in free /\ Rank(m, free) > n
      <4>1. m \in free BY DEF left
      <4> QED BY <1>11, <4>1
    <3>3. n + 1 <= Cardinality(free)
      <4>1. Rank(m, free) \in Nat /\ Rank(m, free) <= Cardinality(free) BY <1>4, Ranked
      <4> QED BY <1>3, <1>4, <3>2, <4>1
    <3> DEFINE u == NextFree(n + 1, free)
    <3>4. u \in free /\ Rank(u, free) = n + 1 BY <1>4, <2>3, <3>3, FreeInTurn
    <3>5. ASSUME NEW w \in left PROVE u <= w
      <4>0. w \in free BY DEF left
      <4>1. w \in free /\ Rank(w, free) > n BY <1>11, <4>0
      <4>2. w \in Nat /\ u \in Nat /\ Rank(w, free) \in Nat BY <1>4, <3>4, <4>1, Ranked
      <4>3. w < u => Rank(w, free) < n + 1 BY <1>4, <3>4, <4>1, Ranked
      <4> QED BY <1>3, <4>1, <4>2, <4>3
    <3>6. u \in left BY <1>11, <2>3, <3>4
    <3> QED BY <3>5, <3>6
  <2>6. left \subseteq Nat BY <1>4 DEF left
  <2>7. NextFree(n + 1, free) = next(left) BY <2>4, <2>5, <2>6, NextOf
  <2> QED BY <2>2, <2>7
<1>13. left = (workstations \ occupied) \ Handed(before) BY DEF Handed, free
<1> HIDE DEF left
<1> QED BY <1>2, <1>9, <1>10, <1>12, <1>13 DEF SeatsNext, more, place, before, after

-----------------------------------------------------------------------------
(* The loop of allocate_seats computes its closed form.                    *)

\* The loop after n candidates as a function of what it was after fewer.
Loop(f) ==
  [n \in 0..Len(enrolled) |->
     IF n = 0 THEN [queue |-> (1..Seats) \ Occupied, out |-> <<>>]
     ELSE IF enrolled[n] \in Seated THEN f[n - 1]
     ELSE LET queue == f[n - 1].queue
              out   == f[n - 1].out
          IN  [queue |-> queue \ {next(queue)},
               out   |-> [i \in DOMAIN out \cup {n} |->
                            IF i = n THEN [student |-> enrolled[n], computer |-> next(queue)]
                            ELSE out[i]]]]

\* What is handed out to the first n, and what is left then.
First(n) == allocate_seats(SubSeq(enrolled, 1, n), 1..Seats, Occupied, Seated)
LeftAfter(n) == ((1..Seats) \ Occupied) \ Handed(First(n))

\* What the closed form hands out to one candidate more.
LEMMA SeatedNext ==
  ASSUME enrolled \in Seq(Students), NEW n \in 1..Len(enrolled)
  PROVE  LET w == next(LeftAfter(n - 1))
         IN  /\ enrolled[n] \in Seated => First(n) = First(n - 1) /\ LeftAfter(n) = LeftAfter(n - 1)
             /\ enrolled[n] \notin Seated =>
                  /\ First(n) = [i \in DOMAIN First(n - 1) \cup {n} |->
                                   IF i = n THEN [student |-> enrolled[n], computer |-> w]
                                   ELSE First(n - 1)[i]]
                  /\ LeftAfter(n) = LeftAfter(n - 1) \ {w}
<1> DEFINE some == SubSeq(enrolled, 1, n - 1)
           more == SubSeq(enrolled, 1, n)
           s == enrolled[n]
           free == (1..Seats) \ Occupied
           w == next(LeftAfter(n - 1))
<1>1. /\ Len(enrolled) \in Nat /\ n \in Nat /\ n - 1 \in Nat /\ n >= 1 /\ n <= Len(enrolled)
      /\ s \in Students
  OBVIOUS
<1>2. some \in Seq(Students) /\ Len(some) = n - 1 /\ more = Append(some, s)
  <2>1. some \in Seq(Students) /\ Len(some) = n - 1 /\ \A i \in 1..(n - 1) : some[i] = enrolled[i]
    BY <1>1
  <2>2. more \in Seq(Students) /\ Len(more) = n /\ \A i \in 1..n : more[i] = enrolled[i]
    BY <1>1
  <2>3. Append(some, s) \in Seq(Students) /\ Len(Append(some, s)) = n
        /\ \A i \in 1..n : Append(some, s)[i] = enrolled[i]
    <3> HIDE DEF some
    <3> QED BY <1>1, <2>1
  <2> HIDE DEF some, more, s
  <2> QED BY <2>1, <2>2, <2>3, SeqEqual
<1>3. IsFiniteSet(1..Seats) /\ \A v \in 1..Seats : v \in Nat /\ v # 0 BY SeatingAssumption, FS_Interval
<1> HIDE DEF some, more, s
<1>4. Len(some) + 1 = n BY <1>1, <1>2
<1>5. /\ DOMAIN First(n) = DOMAIN First(n - 1) \cup (IF s \in Seated THEN {} ELSE {n})
      /\ \A i \in DOMAIN First(n - 1) : First(n)[i] = First(n - 1)[i]
      /\ s \notin Seated => First(n)[n] = [student |-> s, computer |-> w]
  <2>1. First(n) = allocate_seats(Append(some, s), 1..Seats, Occupied, Seated)
        /\ First(n - 1) = allocate_seats(some, 1..Seats, Occupied, Seated)
    BY <1>2 DEF First, some, more
  <2> DEFINE before == allocate_seats(some, 1..Seats, Occupied, Seated)
             after == allocate_seats(Append(some, s), 1..Seats, Occupied, Seated)
             left == ((1..Seats) \ Occupied) \ Handed(before)
  <2>2. /\ s \in Seated => DOMAIN after = DOMAIN before
        /\ s \notin Seated => DOMAIN after = DOMAIN before \cup {n}
        /\ \A i \in DOMAIN before : after[i] = before[i]
        /\ s \notin Seated => after[n] = [student |-> s, computer |-> next(left)]
    <3>1. SeatsNext(some, s, 1..Seats, Occupied, Seated) BY <1>1, <1>2, <1>3, SeatsInTurn
    <3> QED BY <1>4, <3>1 DEF SeatsNext
  <2> QED BY <2>1, <2>2 DEF LeftAfter
<1>7. /\ First(n) = [i \in DOMAIN First(n) |-> First(n)[i]]
      /\ First(n - 1) = [i \in DOMAIN First(n - 1) |-> First(n - 1)[i]]
  BY DEF First, allocate_seats
<1>8. n \notin DOMAIN First(n - 1)
  <2>1. DOMAIN some = 1..(n - 1) BY <1>1, <1>2
  <2>2. DOMAIN First(n - 1) \subseteq DOMAIN some BY DEF First, allocate_seats, Waiting, some
  <2> QED BY <1>1, <2>1, <2>2
<1>9. CASE s \in Seated
  <2>1. DOMAIN First(n) = DOMAIN First(n - 1) BY <1>5, <1>9
  <2>2. First(n) = First(n - 1) BY <1>5, <1>7, <2>1
  <2> QED BY <1>9, <2>2 DEF LeftAfter, s
<1>10. CASE s \notin Seated
  <2>1. First(n)[n] = [student |-> s, computer |-> w] BY <1>5, <1>10
  <2> HIDE DEF w
  <2>2. DOMAIN First(n) = DOMAIN First(n - 1) \cup {n} BY <1>5, <1>10
  <2> DEFINE grown == [i \in DOMAIN First(n - 1) \cup {n} |->
                         IF i = n THEN [student |-> enrolled[n], computer |-> w] ELSE First(n - 1)[i]]
  <2>3. \A i \in DOMAIN First(n) : First(n)[i] = grown[i]
    BY <1>5, <1>8, <2>1, <2>2 DEF s
  <2>4. First(n) = grown BY <1>7, <2>2, <2>3
  <2>5. Handed(First(n)) = Handed(First(n - 1)) \cup {w}
    BY <1>5, <1>8, <2>1, <2>2 DEF Handed
  <2>6. LeftAfter(n) = LeftAfter(n - 1) \ {w} BY <2>5 DEF LeftAfter
  <2> QED BY <1>10, <2>4, <2>6 DEF w, s
<1> QED BY <1>9, <1>10 DEF s

\* The loop of allocate_seats walked over any list places whom the closed form
\* places, where the closed form places them (seating.py, allocate_seats).
LEMMA WalkIsPlaced ==
  ASSUME enrolled \in Seq(Students)
  PROVE  Walk = Placed
<1> DEFINE N == Len(enrolled)
           sol == [n \in 0..N |-> [queue |-> LeftAfter(n), out |-> First(n)]]
           walked == CHOOSE f : f = Loop(f)
<1>0. N \in Nat OBVIOUS
<1>1. First(0) = <<>> /\ LeftAfter(0) = (1..Seats) \ Occupied
  <2>1. SubSeq(enrolled, 1, 0) = <<>> OBVIOUS
  <2>2. Waiting(<<>>, Seated) = {} BY DEF Waiting
  <2>3. First(0) \in [{} -> {}] BY <2>1, <2>2 DEF First, allocate_seats
  <2>4. First(0) \in Seq({}) /\ Len(First(0)) = 0
    <3>1. 1..0 = {} OBVIOUS
    <3> QED BY <2>3, <3>1
  <2>5. First(0) = <<>> BY <2>4, EmptySeq
  <2> QED BY <2>5 DEF LeftAfter, Handed
<1>2. sol = Loop(sol)
  <2>1. sol[0] = [queue |-> (1..Seats) \ Occupied, out |-> <<>>]
    <3>1. 0 \in 0..N BY <1>0
    <3>2. sol[0] = [queue |-> LeftAfter(0), out |-> First(0)] BY <3>1, Zenon
    <3> QED BY <1>1, <3>2, Zenon
  <2>2. ASSUME NEW n \in 1..N
        PROVE  sol[n] = IF enrolled[n] \in Seated THEN sol[n - 1]
                        ELSE LET queue == sol[n - 1].queue
                                 out   == sol[n - 1].out
                             IN  [queue |-> queue \ {next(queue)},
                                  out   |-> [i \in DOMAIN out \cup {n} |->
                                               IF i = n THEN [student |-> enrolled[n], computer |-> next(queue)]
                                               ELSE out[i]]]
    <3>1. n - 1 \in 0..N /\ n \in 0..N BY <1>0
    <3>2. sol[n] = [queue |-> LeftAfter(n), out |-> First(n)]
          /\ sol[n - 1] = [queue |-> LeftAfter(n - 1), out |-> First(n - 1)]
      BY <3>1
    <3> HIDE DEF sol
    <3> DEFINE queue == sol[n - 1].queue
               out   == sol[n - 1].out
    <3>3. queue = LeftAfter(n - 1) /\ out = First(n - 1)
      <4> DEFINE past == sol[n - 1]
      <4> HIDE DEF past
      <4>1. past = [queue |-> LeftAfter(n - 1), out |-> First(n - 1)] BY <3>2 DEF past
      <4>2. past.queue = LeftAfter(n - 1) /\ past.out = First(n - 1) BY <4>1
      <4> QED BY <4>2 DEF past
    <3> HIDE DEF queue, out
    <3>4. CASE enrolled[n] \in Seated
      BY <3>2, <3>4, SeatedNext
    <3>5. CASE enrolled[n] \notin Seated
      <4>1. LeftAfter(n) = queue \ {next(queue)} BY <3>3, <3>5, SeatedNext
      <4>2. First(n) = [i \in DOMAIN out \cup {n} |->
                          IF i = n THEN [student |-> enrolled[n], computer |-> next(queue)] ELSE out[i]]
        BY <3>3, <3>5, SeatedNext
      <4> QED BY <3>2, <3>5, <4>1, <4>2, Zenon DEF queue, out
    <3> QED BY <3>4, <3>5
  <2>3. DOMAIN sol = 0..N /\ DOMAIN Loop(sol) = 0..N BY DEF Loop
  <2>4. ASSUME NEW n \in 0..N PROVE sol[n] = Loop(sol)[n]
    <3> HIDE DEF sol
    <3>1. CASE n = 0 BY <2>1, <3>1 DEF Loop
    <3>2. CASE n # 0
      <4>1. n \in 1..N BY <1>0, <3>2
      <4> QED BY <2>2, <3>2, <4>1 DEF Loop
    <3> QED BY <3>1, <3>2
  <2>5. sol = [n \in 0..N |-> sol[n]] /\ Loop(sol) = [n \in 0..N |-> Loop(sol)[n]]
    <3>1. sol = [n \in 0..N |-> sol[n]] OBVIOUS
    <3> HIDE DEF sol
    <3> QED BY <3>1 DEF Loop
  <2> HIDE DEF sol
  <2> QED BY <2>3, <2>4, <2>5
<1>3. walked = Loop(walked) BY <1>2
<1> HIDE DEF walked, sol
<1>4. \A n \in 0..N : walked[n] = sol[n]
  <2> DEFINE T == {n \in 0..N : walked[n] # sol[n]}
  <2> SUFFICES ASSUME T # {} PROVE FALSE OBVIOUS
  <2>1. PICK n \in T : \A k \in T : n <= k
    <3>1. T \subseteq Nat BY <1>0
    <3> QED BY <3>1, Least
  <2>2. n \in 0..N /\ walked[n] # sol[n] OBVIOUS
  <2>3. walked[n] = Loop(walked)[n] /\ sol[n] = Loop(sol)[n] BY <1>2, <1>3
  <2>4. CASE n = 0 BY <2>2, <2>3, <2>4 DEF Loop
  <2>5. CASE n # 0
    <3>1. n - 1 \in 0..N /\ ~(n <= n - 1) BY <1>0, <2>2, <2>5
    <3>2. walked[n - 1] = sol[n - 1] BY <2>1, <3>1
    <3> QED BY <2>2, <2>3, <2>5, <3>2 DEF Loop
  <2> QED BY <2>4, <2>5
<1>5. Walk = walked[N].out BY Zenon DEF Walk, Loop, next, walked
<1>6. N \in 0..N BY <1>0
<1>7. walked[N].out = First(N)
  <2>1. sol[N] = [queue |-> LeftAfter(N), out |-> First(N)] BY <1>6, Zenon DEF sol
  <2>2. sol[N].out = First(N) BY <2>1
  <2> QED BY <1>4, <1>6, <2>2
<1>8. SubSeq(enrolled, 1, N) = enrolled OBVIOUS
<1> QED BY <1>5, <1>7, <1>8 DEF First, Placed

-----------------------------------------------------------------------------
(* A chart grown by seating again and again.                               *)

\* Nobody is enrolled twice, and no workstation is given twice.
SeatingInv ==
  /\ enrolled \in Seq(Students)
  /\ \A i, j \in DOMAIN enrolled : enrolled[i] = enrolled[j] => i = j
  /\ chart \in [Students -> -1..Seats]
  /\ Exclusive

\* What the closed form hands out in a state of the chart.
LEMMA PlacedSeats ==
  ASSUME SeatingInv
  PROVE  LET free    == (1..Seats) \ Occupied
             waiting == Waiting(enrolled, Seated)
         IN  /\ DOMAIN Placed = waiting
             /\ waiting \subseteq Nat /\ IsFiniteSet(waiting)
             /\ free \subseteq Nat \ {0} /\ IsFiniteSet(free)
             /\ \A i \in waiting : /\ Rank(i, waiting) \in Nat \ {0}
                                   /\ Placed[i] = [student  |-> enrolled[i],
                                                   computer |-> NextFree(Rank(i, waiting), free)]
                                   /\ Placed[i].student = enrolled[i]
                                   /\ Placed[i].computer = NextFree(Rank(i, waiting), free)
                                   /\ enrolled[i] \in Students \ Seated
             /\ \A i \in waiting : \/ Placed[i].computer \in free
                                   \/ Placed[i].computer = 0 /\ Rank(i, waiting) > Cardinality(free)
             /\ \A i, j \in waiting : Placed[i].computer # 0 /\ Placed[i].computer = Placed[j].computer
                                         => i = j
<1> DEFINE free    == (1..Seats) \ Occupied
           waiting == Waiting(enrolled, Seated)
<1>1. waiting \subseteq 1..Len(enrolled) /\ \A i \in waiting : enrolled[i] \in Students \ Seated
  BY DEF Waiting, SeatingInv
<1>2. waiting \subseteq Nat /\ IsFiniteSet(waiting)
  <2>1. Len(enrolled) \in Nat /\ IsFiniteSet(1..Len(enrolled)) BY FS_Interval DEF SeatingInv
  <2> QED BY <1>1, <2>1, FS_Subset
<1>3. free \subseteq Nat \ {0} /\ IsFiniteSet(free) /\ Cardinality(free) \in Nat
  <2>1. IsFiniteSet(1..Seats) /\ 1..Seats \subseteq Nat \ {0} BY SeatingAssumption, FS_Interval
  <2> QED BY <2>1, FS_Subset, FS_CardinalityType
<1>4. Placed = [i \in waiting |-> [student |-> enrolled[i], computer |-> NextFree(Rank(i, waiting), free)]]
  BY DEF Placed, allocate_seats, Turn, Rank
<1> HIDE DEF free, waiting
<1>5. ASSUME NEW i \in waiting PROVE Rank(i, waiting) \in Nat \ {0}
  <2>1. Rank(i, waiting) \in Nat /\ Rank(i, waiting) >= 1 BY <1>2, Ranked
  <2> QED BY <2>1
<1>6. ASSUME NEW i \in waiting
      PROVE  \/ /\ NextFree(Rank(i, waiting), free) \in free
                /\ Rank(NextFree(Rank(i, waiting), free), free) = Rank(i, waiting)
             \/ NextFree(Rank(i, waiting), free) = 0 /\ Rank(i, waiting) > Cardinality(free)
  <2>1. Rank(i, waiting) <= Cardinality(free) \/ Rank(i, waiting) > Cardinality(free) BY <1>3, <1>5
  <2> QED BY <1>3, <1>5, <2>1, FreeInTurn
<1>7. \A i \in waiting : /\ Placed[i].student = enrolled[i]
                         /\ Placed[i].computer = NextFree(Rank(i, waiting), free)
  BY <1>4
<1>8. ASSUME NEW i \in waiting, NEW j \in waiting,
             Placed[i].computer # 0, Placed[i].computer = Placed[j].computer
      PROVE  i = j
  <2>1. Rank(i, waiting) = Rank(j, waiting) BY <1>6, <1>7, <1>8
  <2> QED BY <1>2, <2>1, SameRank
<1>9. \A i \in waiting : \/ Placed[i].computer \in free
                         \/ Placed[i].computer = 0 /\ Rank(i, waiting) > Cardinality(free)
  BY <1>6, <1>7
<1>10. DOMAIN Placed = waiting BY <1>4
<1>11. \A i \in waiting : Placed[i] = [student  |-> enrolled[i], computer |-> NextFree(Rank(i, waiting), free)]
  BY <1>4
<1> QED BY <1>1, <1>2, <1>3, <1>5, <1>7, <1>8, <1>9, <1>10, <1>11 DEF free, waiting

\* A further seating gives no workstation twice.
LEMMA SeatedAgain ==
  ASSUME SeatingInv, Seat
  PROVE  SeatingInv'
<1> DEFINE free    == (1..Seats) \ Occupied
           waiting == Waiting(enrolled, Seated)
           at(s)   == CHOOSE i \in DOMAIN Placed : Placed[i].student = s
           new(s)  == \E i \in DOMAIN Placed : Placed[i].student = s
<1>1. chart' = [s \in Students |-> IF new(s) THEN Placed[at(s)].computer ELSE chart[s]]
      /\ enrolled' = enrolled
  BY DEF Seat
<1>2. ASSUME NEW s \in Students, new(s)
      PROVE  at(s) \in waiting /\ Placed[at(s)].student = s
  <2>1. \E i \in DOMAIN Placed : Placed[i].student = s BY <1>2
  <2>2. at(s) \in DOMAIN Placed /\ Placed[at(s)].student = s BY <2>1
  <2> QED BY <2>2, PlacedSeats
<1>3. \A i \in waiting : /\ Placed[i].student = enrolled[i] /\ enrolled[i] \in Students \ Seated
                         /\ Placed[i].computer \in free \/ Placed[i].computer = 0
  BY PlacedSeats
<1>4. \A i, j \in waiting : Placed[i].computer # 0 /\ Placed[i].computer = Placed[j].computer => i = j
  BY PlacedSeats
<1>5. chart \in [Students -> -1..Seats] /\ Exclusive BY DEF SeatingInv
<1> HIDE DEF at, new, waiting
<1>6. ASSUME NEW s \in Students PROVE chart'[s] = IF new(s) THEN Placed[at(s)].computer ELSE chart[s]
  BY <1>1
<1>7. ASSUME NEW s \in Students, new(s)
      PROVE  /\ chart[s] = -1
             /\ chart'[s] \in free \/ chart'[s] = 0
  <2>1. at(s) \in waiting /\ Placed[at(s)].student = s BY <1>2, <1>7
  <2>2. s \notin Seated BY <1>3, <2>1
  <2> QED BY <1>3, <1>6, <1>7, <2>1, <2>2 DEF Seated
<1>8. chart' \in [Students -> -1..Seats]
  <2>1. \A s \in Students : chart'[s] \in -1..Seats
    BY <1>5, <1>6, <1>7, SeatingAssumption
  <2>2. chart' = [s \in Students |-> chart'[s]] BY <1>1
  <2> HIDE DEF free
  <2> QED BY <2>1, <2>2
<1>9. ASSUME NEW s \in Students, NEW r \in Students, s # r, chart'[s] # -1, chart'[s] # 0
      PROVE  chart'[s] # chart'[r]
  <2>1. CASE new(s) /\ new(r)
    <3>1. at(s) # at(r) BY <1>2, <1>9, <2>1
    <3> QED BY <1>2, <1>4, <1>6, <1>9, <2>1, <3>1
  <2>2. CASE new(s) /\ ~new(r)
    <3>1. chart'[s] \in free /\ chart'[r] = chart[r] BY <1>6, <1>7, <1>9, <2>2
    <3>2. chart[r] \in Occupied \/ chart[r] = -1 \/ chart[r] = 0 BY DEF Occupied, Seated
    <3> QED BY <3>1, <3>2
  <2>3. CASE ~new(s) /\ new(r)
    <3>1. chart'[s] = chart[s] BY <1>6, <2>3
    <3>2. chart[s] \in Occupied BY <1>9, <3>1 DEF Occupied, Seated
    <3> QED BY <1>7, <1>9, <2>3, <3>1, <3>2
  <2>4. CASE ~new(s) /\ ~new(r)
    <3>1. chart'[s] = chart[s] /\ chart'[r] = chart[r] BY <1>6, <2>4
    <3>2. chart[r] = -1 \/ r \in Seated BY DEF Seated
    <3>3. s \in Seated BY <1>9, <3>1 DEF Seated
    <3> QED BY <1>5, <1>9, <3>1, <3>2, <3>3 DEF Exclusive
  <2> QED BY <2>1, <2>2, <2>3, <2>4
<1>10. Exclusive' BY <1>9 DEF Exclusive, Seated
<1> QED BY <1>1, <1>8, <1>10 DEF SeatingInv

\* Enrolling keeps everybody once.
LEMMA EnrolledOnce ==
  ASSUME SeatingInv, NEW s \in Students, Enrol(s)
  PROVE  SeatingInv'
<1>1. /\ enrolled \in Seq(Students) /\ enrolled' = Append(enrolled, s) /\ chart' = chart
      /\ \A i \in DOMAIN enrolled : enrolled[i] # s
      /\ \A i, j \in DOMAIN enrolled : enrolled[i] = enrolled[j] => i = j
  BY DEF Enrol, SeatingInv
<1>2. enrolled' \in Seq(Students) /\ DOMAIN enrolled' = DOMAIN enrolled \cup {Len(enrolled) + 1}
      /\ \A i \in DOMAIN enrolled : enrolled'[i] = enrolled[i]
      /\ enrolled'[Len(enrolled) + 1] = s
  BY <1>1
<1>3. \A i, j \in DOMAIN enrolled' : enrolled'[i] = enrolled'[j] => i = j BY <1>1, <1>2
<1>4. Exclusive' BY <1>1 DEF SeatingInv, Exclusive, Seated
<1> QED BY <1>1, <1>2, <1>3, <1>4 DEF SeatingInv

\* However enrolments and seatings alternate, and whatever an earlier seating
\* left, the next one hands out what the loop of the source hands out, nobody
\* shares a workstation, and a candidate goes without one only in a room that
\* is full: for every list of candidates and every size of room (seating.py,
\* allocate_seats).
THEOREM SeatingStaysSound == SeatingSpec => []SeatingSound
<1>1. SeatingInit => SeatingInv
  BY SeatingAssumption DEF SeatingInit, SeatingInv, Exclusive, Seated
<1>2. SeatingInv /\ [SeatingNext]_seating_chart => SeatingInv'
  <2> SUFFICES ASSUME SeatingInv, [SeatingNext]_seating_chart PROVE SeatingInv' OBVIOUS
  <2>1. CASE Seat BY <2>1, SeatedAgain
  <2>2. CASE \E s \in Students : Enrol(s) BY <2>2, EnrolledOnce
  <2>3. CASE UNCHANGED seating_chart
    BY <2>3 DEF seating_chart, SeatingInv, Exclusive, Seated
  <2> QED BY <2>1, <2>2, <2>3 DEF SeatingNext
<1>3. SeatingInv => SeatingSound
  <2> SUFFICES ASSUME SeatingInv PROVE SeatingSound OBVIOUS
  <2>1. MatchesTheWalk BY WalkIsPlaced DEF MatchesTheWalk, SeatingInv
  <2>2. ASSUME unseated(Placed) # {} PROVE RoomFull
    <3> DEFINE free    == (1..Seats) \ Occupied
               waiting == Waiting(enrolled, Seated)
    <3>1. /\ DOMAIN Placed = waiting
          /\ waiting \subseteq Nat /\ IsFiniteSet(waiting)
          /\ free \subseteq Nat \ {0} /\ IsFiniteSet(free)
          /\ \A i \in waiting : /\ Placed[i].computer = NextFree(Rank(i, waiting), free)
                                /\ \/ Placed[i].computer \in free
                                   \/ Placed[i].computer = 0 /\ Rank(i, waiting) > Cardinality(free)
      BY PlacedSeats
    <3>0. free \subseteq Nat /\ Cardinality(free) \in Nat /\ Cardinality(waiting) \in Nat
      BY <3>1, FS_CardinalityType
    <3>2. PICK i \in waiting : Placed[i].computer = 0 BY <2>2, <3>1 DEF unseated
    <3>3. Rank(i, waiting) > Cardinality(free) BY <3>1, <3>2
    <3>4. ASSUME NEW w \in 1..Seats, w \notin Occupied PROVE \E j \in DOMAIN Placed : Placed[j].computer = w
      <4>1. w \in free BY <3>4
      <4> HIDE DEF free, waiting
      <4>2. Rank(w, free) \in Nat /\ Rank(w, free) >= 1 /\ Rank(w, free) <= Cardinality(free)
        BY <3>0, <3>1, <4>1, Ranked
      <4>3. Rank(i, waiting) \in Nat /\ Rank(i, waiting) <= Cardinality(waiting) BY <3>1, Ranked
      <4>4. Rank(w, free) \in 1..Cardinality(waiting) BY <3>0, <3>3, <4>2, <4>3
      <4>5. PICK j \in waiting : Rank(j, waiting) = Rank(w, free) BY <3>1, <4>4, RankOnto
      <4> DEFINE u == NextFree(Rank(w, free), free)
      <4>6. u \in free /\ Rank(u, free) = Rank(w, free)
        <5>1. Rank(w, free) \in Nat \ {0} /\ Rank(w, free) <= Cardinality(free) BY <4>2
        <5> QED BY <3>1, <5>1, FreeInTurn
      <4>7. u = w BY <3>0, <3>1, <4>1, <4>6, SameRank
      <4>8. Placed[j].computer = w BY <3>1, <4>5, <4>7
      <4> QED BY <3>1, <4>8
    <3> QED BY <3>4 DEF RoomFull
  <2> QED BY <2>1, <2>2 DEF SeatingSound, SeatingInv
<1> QED BY <1>1, <1>2, <1>3, PTL DEF SeatingSpec
==============================================================================
