-------------------------- MODULE SearchPlanProofs --------------------------
(***************************************************************************)
(* What build_search_plan makes of every pattern: its anchor is a cell of  *)
(* the pattern, and its plan one that can be run.                          *)
(***************************************************************************)
EXTENDS SearchPlan, WellFoundedInduction, TLAPS

-----------------------------------------------------------------------------
(* Numbers                                                                 *)

\* A set of naturals has a least member.
LEMMA NatMin ==
  ASSUME NEW S \in SUBSET Nat, S # {}
  PROVE  \E n \in S : \A m \in S : n <= m
<1> DEFINE R == {x \in Nat \X Nat : x[1] < x[2]}
<1>1. R = OpToRel(<, Nat)
  BY DEF OpToRel
<1>2. IsWellFoundedOn(R, Nat)
  BY <1>1, NatLessThanWellFounded
<1>3. \E x \in S : \A y \in S : ~ (<<y, x>> \in R)
  <2> HIDE DEF R
  <2>1. QED
    BY <1>2, WFMin
<1>4. PICK x \in S : \A y \in S : ~ (<<y, x>> \in R)
  BY <1>3
<1>5. ASSUME NEW m \in S PROVE x <= m
  <2>1. x \in Nat /\ m \in Nat
    OBVIOUS
  <2>2. <<m, x>> \in Nat \X Nat /\ <<m, x>>[1] = m /\ <<m, x>>[2] = x
    BY <2>1
  <2>3. ~ (m < x)
    BY <1>4, <2>2
  <2>4. QED
    BY <2>1, <2>3
<1>6. QED
  BY <1>5
\* What holds of 0, and of the next one with each, holds of every natural.
LEMMA NatInd ==
  ASSUME NEW S, 0 \in S, \A n \in Nat : n \in S => n + 1 \in S
  PROVE  Nat \subseteq S
<1>1. ASSUME Nat \ S # {} PROVE FALSE
  <2>1. PICK k \in Nat \ S : \A l \in Nat \ S : k <= l
    BY <1>1, NatMin
  <2>2. k # 0 /\ k - 1 \in Nat /\ ~ (k <= k - 1)
    BY <2>1
  <2>3. k - 1 \in S
    BY <2>1, <2>2
  <2>4. k = (k - 1) + 1
    BY <2>1
  <2>5. QED
    BY <2>1, <2>2, <2>3, <2>4
<1>2. QED
  BY <1>1

-----------------------------------------------------------------------------
(* Sequences                                                               *)

\* The steps of a concatenation of sequences.
LEMMA FlattenSteps ==
  ASSUME NEW seqs, Len(seqs) \in Nat \ {0}
  PROVE  \E f : /\ f = [i \in 1 .. Len(seqs) |-> IF i = 1 THEN seqs[i] ELSE f[i - 1] \o seqs[i]]
               /\ FlattenSeq(seqs) = f[Len(seqs)]
<1> DEFINE Solves(f, k) == f = [i \in 1 .. k |-> IF i = 1 THEN seqs[i] ELSE f[i - 1] \o seqs[i]]
           Solved == {k \in Nat : \E f : Solves(f, k)}
<1>1. Nat \subseteq Solved
  <2>1. 0 \in Solved
    <3>1. Solves([i \in 1 .. 0 |-> <<>>], 0)
      OBVIOUS
    <3>2. QED
      BY <3>1
  <2>2. ASSUME NEW k \in Nat, k \in Solved PROVE k + 1 \in Solved
    <3>1. PICK g : Solves(g, k)
      BY <2>2
    <3> DEFINE h == [i \in 1 .. k + 1 |-> IF i <= k THEN g[i]
                                    ELSE IF i = 1 THEN seqs[i] ELSE g[i - 1] \o seqs[i]]
    <3>2. Solves(h, k + 1)
      <4>1. ASSUME NEW i \in 1 .. k + 1
            PROVE  h[i] = IF i = 1 THEN seqs[i] ELSE h[i - 1] \o seqs[i]
        <5>1. CASE i = 1 /\ i <= k
          BY <3>1, <5>1
        <5>2. CASE i = 1 /\ ~ (i <= k)
          BY <5>2
        <5>3. CASE i # 1 /\ i <= k
          <6>1. i - 1 \in 1 .. k /\ i \in 1 .. k /\ i - 1 \in 1 .. k + 1
            BY <5>3
          <6>2. h[i - 1] = g[i - 1] /\ h[i] = g[i]
            BY <6>1
          <6>3. g[i] = g[i - 1] \o seqs[i]
            BY <3>1, <5>3, <6>1
          <6>4. QED
            BY <5>3, <6>2, <6>3
        <5>4. CASE i # 1 /\ ~ (i <= k)
          <6>1. i - 1 \in 1 .. k /\ i - 1 \in 1 .. k + 1
            BY <5>4
          <6>2. h[i - 1] = g[i - 1]
            BY <6>1
          <6>3. QED
            BY <5>4, <6>2
        <5>5. QED
          BY <5>1, <5>2, <5>3, <5>4
      <4>2. QED
        BY <4>1
    <3>3. \E f : Solves(f, k + 1)
      <4> HIDE DEF h, Solves
      <4>1. QED
        BY <3>2
    <3>4. QED
      <4> HIDE DEF h, Solves
      <4>1. QED
        BY <3>3
  <2>3. QED
    <3> HIDE DEF Solved
    <3>1. QED
      BY <2>1, <2>2, NatInd
<1> DEFINE n == Len(seqs)
           flatten == CHOOSE f : Solves(f, n)
<1>2. n \in Nat \ {0}
  OBVIOUS
<1>3. Solves(flatten, n)
  <2>1. \E f : Solves(f, n)
    BY <1>1, <1>2
  <2>2. QED
    BY <2>1
<1>4. FlattenSeq(seqs) = flatten[n]
  BY <1>2 DEF FlattenSeq
<1> QED
  <2> QED BY <1>3, <1>4

\* What the first of some sequences is, and stays when one more is appended, their
\* concatenation is.
LEMMA FlattenFrom ==
  ASSUME NEW G, NEW H, NEW seqs \in Seq(G), seqs # <<>>, seqs[1] \in H,
         \A p \in H, q \in G : p \o q \in H
  PROVE  FlattenSeq(seqs) \in H
<1> DEFINE n == Len(seqs)
<1>2. n \in Nat \ {0}
  OBVIOUS
<1>3. PICK flatten : /\ flatten = [i \in 1 .. n |-> IF i = 1 THEN seqs[i] ELSE flatten[i - 1] \o seqs[i]]
                     /\ FlattenSeq(seqs) = flatten[n]
  BY <1>2, FlattenSteps
<1>4. FlattenSeq(seqs) = flatten[n]
  BY <1>3
<1>5. \A k \in Nat : k >= 1 /\ k <= n => flatten[k] \in H
  <2> DEFINE S == {k \in Nat : k >= 1 /\ k <= n => flatten[k] \in H}
  <2>1. 0 \in S
    OBVIOUS
  <2>2. ASSUME NEW k \in Nat, k \in S PROVE k + 1 \in S
    <3>1. CASE k + 1 <= n
      <4>1. k + 1 \in 1 .. n /\ seqs[k + 1] \in G /\ (k + 1) - 1 = k
        BY <1>2, <3>1
      <4>2. flatten[k + 1] = IF k + 1 = 1 THEN seqs[k + 1] ELSE flatten[(k + 1) - 1] \o seqs[k + 1]
        BY <1>3, <4>1
      <4>3. QED
        BY <2>2, <4>1, <4>2
    <3>2. CASE ~ (k + 1 <= n)
      BY <3>2
    <3>3. QED
      BY <3>1, <3>2
  <2>3. Nat \subseteq S
    <3> HIDE DEF S
    <3>1. QED
      BY <2>1, <2>2, NatInd
  <2>4. QED
    BY <2>3
<1>6. QED
  <2>1. n \in Nat /\ n >= 1 /\ n <= n
    BY <1>2
  <2>2. QED
    BY <1>4, <1>5, <2>1

\* A concatenation is in every set that has its parts and concatenations of two.
LEMMA FlattenIn ==
  ASSUME NEW G, NEW seqs \in Seq(G), \A p, q \in G : p \o q \in G, <<>> \in G
  PROVE  FlattenSeq(seqs) \in G
<1>1. CASE seqs = <<>>
  BY <1>1 DEF FlattenSeq
<1>2. CASE seqs # <<>>
  <2>1. seqs[1] \in G
    BY <1>2
  <2>2. QED
    BY <1>2, <2>1, FlattenFrom
<1>3. QED
  BY <1>1, <1>2

\* What two sequences have, their concatenation has.
LEMMA RangeOfBoth ==
  ASSUME NEW S, NEW p \in Seq(S), NEW q \in Seq(S)
  PROVE  Range(p \o q) = Range(p) \cup Range(q)
<1>1. /\ DOMAIN p = 1 .. Len(p) /\ DOMAIN q = 1 .. Len(q) /\ DOMAIN (p \o q) = 1 .. Len(p) + Len(q)
      /\ Len(p) \in Nat /\ Len(q) \in Nat
  OBVIOUS
<1>2. \A n \in 1 .. Len(p) : n \in DOMAIN (p \o q) /\ (p \o q)[n] = p[n]
  BY <1>1
<1>3. \A n \in 1 .. Len(q) : n + Len(p) \in DOMAIN (p \o q) /\ (p \o q)[n + Len(p)] = q[n]
  BY <1>1
<1>4. ASSUME NEW n \in DOMAIN (p \o q)
      PROVE  \/ n \in DOMAIN p /\ (p \o q)[n] = p[n]
             \/ n - Len(p) \in DOMAIN q /\ (p \o q)[n] = q[n - Len(p)]
  BY <1>1
<1>5. ASSUME NEW e \in Range(p \o q) PROVE e \in Range(p) \cup Range(q)
  <2>1. PICK n \in DOMAIN (p \o q) : e = (p \o q)[n]
    BY DEF Range
  <2> QED BY <1>4, <2>1 DEF Range
<1>6. ASSUME NEW e \in Range(p) PROVE e \in Range(p \o q)
  <2>1. PICK n \in DOMAIN p : e = p[n]
    BY DEF Range
  <2>2. n \in DOMAIN (p \o q) /\ (p \o q)[n] = e
    BY <1>1, <1>2, <2>1
  <2> QED BY <2>2 DEF Range
<1>7. ASSUME NEW e \in Range(q) PROVE e \in Range(p \o q)
  <2>1. PICK n \in DOMAIN q : e = q[n]
    BY DEF Range
  <2>2. n + Len(p) \in DOMAIN (p \o q) /\ (p \o q)[n + Len(p)] = e
    BY <1>1, <1>3, <2>1
  <2> QED BY <2>2 DEF Range
<1> QED BY <1>5, <1>6, <1>7

\* A concatenation of sequences, part by part.
LEMMA FlattenParts ==
  ASSUME NEW S, NEW seqs \in Seq(Seq(S))
  PROVE  \E f : /\ f \in [0 .. Len(seqs) -> Seq(S)] /\ f[0] = <<>> /\ FlattenSeq(seqs) = f[Len(seqs)]
                /\ \A k \in 1 .. Len(seqs) : f[k] = f[k - 1] \o seqs[k]
<1> DEFINE L == Len(seqs)
<1>1. L \in Nat /\ DOMAIN seqs = 1 .. L /\ \A k \in 1 .. L : seqs[k] \in Seq(S)
  OBVIOUS
<1>2. CASE L = 0
  <2> DEFINE g == [k \in 0 .. L |-> <<>>]
  <2>1. FlattenSeq(seqs) = <<>>
    BY <1>2 DEF FlattenSeq
  <2>2. g \in [0 .. L -> Seq(S)] /\ g[0] = <<>> /\ g[L] = <<>> /\ 1 .. L = {}
    BY <1>2
  <2> QED BY <2>1, <2>2
<1>3. CASE L # 0
  <2>1. PICK h : /\ h = [i \in 1 .. L |-> IF i = 1 THEN seqs[i] ELSE h[i - 1] \o seqs[i]]
                 /\ FlattenSeq(seqs) = h[L]
    BY <1>1, <1>3, FlattenSteps
  <2> DEFINE g == [k \in 0 .. L |-> IF k = 0 THEN <<>> ELSE h[k]]
             Good == {k \in Nat : k \in 0 .. L => g[k] \in Seq(S)}
  <2> HIDE DEF L
  <2>2. \A i \in 1 .. L : h[i] = IF i = 1 THEN seqs[i] ELSE h[i - 1] \o seqs[i]
    BY <2>1
  <2>3. g[0] = <<>> /\ FlattenSeq(seqs) = g[L]
    BY <1>1, <1>3, <2>1
  <2>4. ASSUME NEW k \in 1 .. L PROVE g[k] = g[k - 1] \o seqs[k]
    <3>1. CASE k = 1
      <4>1. g[1] = seqs[1] /\ g[0] = <<>> /\ seqs[1] \in Seq(S)
        BY <1>1, <2>2, <3>1
      <4> HIDE DEF g
      <4>2. <<>> \o seqs[1] = seqs[1]
        BY <4>1
      <4>3. k - 1 = 0
        BY <3>1
      <4> QED BY <3>1, <4>1, <4>2, <4>3
    <3>2. CASE k # 1
      <4>1. k - 1 \in 1 .. L
        BY <1>1, <3>2
      <4>2. g[k] = h[k] /\ g[k - 1] = h[k - 1]
        BY <4>1
      <4> QED BY <2>2, <3>2, <4>2
    <3> QED BY <3>1, <3>2
  <2> HIDE DEF g
  <2>5. 0 \in Good
    <3>1. <<>> \in Seq(S)
      OBVIOUS
    <3> QED BY <2>3, <3>1
  <2>6. ASSUME NEW k \in Nat, k \in Good PROVE k + 1 \in Good
    <3>1. CASE k + 1 \in 0 .. L
      <4>1. k + 1 \in 1 .. L /\ (k + 1) - 1 = k /\ k \in 0 .. L
        BY <1>1, <3>1
      <4>2. g[k + 1] = g[k] \o seqs[k + 1]
        BY <2>4, <4>1
      <4>3. g[k] \in Seq(S) /\ seqs[k + 1] \in Seq(S)
        BY <1>1, <2>6, <4>1
      <4>4. g[k] \o seqs[k + 1] \in Seq(S)
        BY <4>3
      <4>5. g[k + 1] \in Seq(S)
        BY <4>2, <4>4
      <4> QED BY <4>5
    <3>2. CASE ~ (k + 1 \in 0 .. L)
      BY <3>2
    <3> QED BY <3>1, <3>2
  <2>7. \A k \in 0 .. L : g[k] \in Seq(S)
    <3>1. Nat \subseteq Good
      <4> HIDE DEF Good
      <4> QED BY <2>5, <2>6, NatInd
    <3> QED BY <1>1, <3>1
  <2>8. g \in [0 .. L -> Seq(S)]
    BY <2>7 DEF g
  <2> QED BY <2>3, <2>4, <2>8 DEF L
<1> QED BY <1>2, <1>3

\* What the parts have, their concatenation has.
LEMMA FlattenRange ==
  ASSUME NEW S, NEW seqs \in Seq(Seq(S))
  PROVE  Range(FlattenSeq(seqs)) = UNION {Range(seqs[i]) : i \in DOMAIN seqs}
<1> DEFINE L == Len(seqs)
           Upto(k) == UNION {Range(seqs[i]) : i \in 1 .. k}
<1>1. L \in Nat /\ DOMAIN seqs = 1 .. L /\ \A k \in 1 .. L : seqs[k] \in Seq(S)
  OBVIOUS
<1>2. PICK f : /\ f \in [0 .. L -> Seq(S)] /\ f[0] = <<>> /\ FlattenSeq(seqs) = f[L]
               /\ \A k \in 1 .. L : f[k] = f[k - 1] \o seqs[k]
  BY FlattenParts
<1> HIDE DEF L
<1> DEFINE Good == {k \in Nat : k \in 0 .. L => Range(f[k]) = Upto(k)}
<1>3. 0 \in Good
  <2>1. Range(<<>>) = {}
    BY DEF Range
  <2> QED BY <1>2, <2>1
<1>4. ASSUME NEW k \in Nat, k \in Good PROVE k + 1 \in Good
  <2>1. CASE k + 1 \in 0 .. L
    <3>1. k + 1 \in 1 .. L /\ (k + 1) - 1 = k /\ k \in 0 .. L
      BY <1>1, <2>1
    <3>2. f[k + 1] = f[k] \o seqs[k + 1] /\ f[k] \in Seq(S) /\ seqs[k + 1] \in Seq(S)
      BY <1>1, <1>2, <3>1
    <3>3. Range(f[k + 1]) = Range(f[k]) \cup Range(seqs[k + 1])
      BY <3>2, RangeOfBoth
    <3>4. 1 .. k + 1 = (1 .. k) \cup {k + 1}
      BY <1>4
    <3>5. Upto(k + 1) = Upto(k) \cup Range(seqs[k + 1])
      BY <3>4
    <3> QED BY <1>4, <3>1, <3>3, <3>5
  <2> QED BY <2>1
<1>5. L \in Good
  <2> HIDE DEF Good
  <2> QED BY <1>1, <1>3, <1>4, NatInd
<1> QED BY <1>1, <1>2, <1>5

\* A concatenation of sequences without repetition that share nothing has none.
LEMMA FlattenOnce ==
  ASSUME NEW S, NEW seqs \in Seq(Seq(S)), \A i \in DOMAIN seqs : IsInjective(seqs[i]),
         \A i, j \in DOMAIN seqs : i # j => Range(seqs[i]) \cap Range(seqs[j]) = {}
  PROVE  IsInjective(FlattenSeq(seqs))
<1> DEFINE L == Len(seqs)
           Upto(k) == UNION {Range(seqs[i]) : i \in 1 .. k}
<1>1. L \in Nat /\ DOMAIN seqs = 1 .. L /\ \A k \in 1 .. L : seqs[k] \in Seq(S)
  OBVIOUS
<1>2. PICK f : /\ f \in [0 .. L -> Seq(S)] /\ f[0] = <<>> /\ FlattenSeq(seqs) = f[L]
               /\ \A k \in 1 .. L : f[k] = f[k - 1] \o seqs[k]
  BY FlattenParts
<1> HIDE DEF L
<1> DEFINE Good == {k \in Nat : k \in 0 .. L => Range(f[k]) = Upto(k) /\ IsInjective(f[k])}
<1>3. 0 \in Good
  <2>1. Range(<<>>) = {} /\ IsInjective(<<>>)
    BY DEF Range, IsInjective
  <2> QED BY <1>2, <2>1
<1>4. ASSUME NEW k \in Nat, k \in Good PROVE k + 1 \in Good
  <2>1. CASE k + 1 \in 0 .. L
    <3>1. k + 1 \in 1 .. L /\ (k + 1) - 1 = k /\ k \in 0 .. L
      BY <1>1, <2>1
    <3> DEFINE p == f[k]
               q == seqs[k + 1]
    <3>2. f[k + 1] = p \o q /\ p \in Seq(S) /\ q \in Seq(S)
      BY <1>1, <1>2, <3>1
    <3>3. Range(p \o q) = Range(p) \cup Range(q)
      <4> HIDE DEF p, q
      <4> QED BY <3>2, RangeOfBoth
    <3>4. 1 .. k + 1 = (1 .. k) \cup {k + 1}
      BY <1>4
    <3>5. Upto(k + 1) = Upto(k) \cup Range(q)
      BY <3>4
    <3>6. Range(p) = Upto(k) /\ IsInjective(p) /\ IsInjective(q)
      BY <1>1, <1>4, <3>1
    <3>7. Range(p) \cap Range(q) = {}
      <4>1. \A i \in 1 .. k : i \in DOMAIN seqs /\ i # k + 1 /\ k + 1 \in DOMAIN seqs
        BY <1>1, <1>4, <3>1
      <4>2. \A i \in 1 .. k : Range(seqs[i]) \cap Range(seqs[k + 1]) = {}
        BY <4>1
      <4> QED BY <3>6, <4>2
    <3>8. IsInjective(p \o q)
      <4> HIDE DEF p, q
      <4>1. ASSUME NEW n \in DOMAIN (p \o q)
            PROVE  \/ n \in DOMAIN p /\ (p \o q)[n] = p[n]
                   \/ n - Len(p) \in DOMAIN q /\ (p \o q)[n] = q[n - Len(p)]
        BY <3>2
      <4>2. ASSUME NEW n \in DOMAIN (p \o q), NEW m \in DOMAIN (p \o q), (p \o q)[n] = (p \o q)[m]
            PROVE  n = m
        <5>1. n \in Int /\ m \in Int /\ Len(p) \in Int
          BY <3>2
        <5>2. \A d \in DOMAIN p, e \in DOMAIN q : p[d] # q[e]
          BY <3>7 DEF Range
        <5>3. n - Len(p) = m - Len(p) => n = m
          BY <5>1
        <5> QED BY <3>6, <4>1, <4>2, <5>2, <5>3 DEF IsInjective
      <4> QED BY <4>2 DEF IsInjective
    <3>9. Range(f[k + 1]) = Upto(k + 1) /\ IsInjective(f[k + 1])
      <4> HIDE DEF p, q
      <4> QED BY <3>2, <3>3, <3>5, <3>6, <3>8
    <3> QED BY <3>9
  <2> QED BY <2>1
<1>5. L \in Good
  <2> HIDE DEF Good
  <2> QED BY <1>1, <1>3, <1>4, NatInd
<1> QED BY <1>2, <1>5, <1>1

\* The elements of a picked sequence are elements of the sequence.
LEMMA PickedType ==
  ASSUME NEW S, NEW s \in Seq(S), NEW at
  PROVE  Picked(s, at) \in Seq(S)
<1> DEFINE one == [n \in DOMAIN s |-> IF n \in at THEN <<s[n]>> ELSE <<>>]
<1>1. \A n \in DOMAIN s : one[n] \in Seq(S)
  OBVIOUS
<1>2. one \in Seq(Seq(S))
  <2>1. DOMAIN s = 1 .. Len(s) /\ Len(s) \in Nat
    OBVIOUS
  <2>2. QED
    BY <1>1, <2>1
<1>3. (\A p, q \in Seq(S) : p \o q \in Seq(S)) /\ <<>> \in Seq(S)
  OBVIOUS
<1>4. FlattenSeq(one) \in Seq(S)
  <2> HIDE DEF one
  <2>1. QED
    BY <1>2, <1>3, FlattenIn
<1>5. QED
  BY <1>4 DEF Picked

\* What is picked is what is there at the indices.
LEMMA PickedRange ==
  ASSUME NEW S, NEW s \in Seq(S), NEW at
  PROVE  Range(Picked(s, at)) = {s[n] : n \in DOMAIN s \cap at}
<1> DEFINE one == [n \in DOMAIN s |-> IF n \in at THEN <<s[n]>> ELSE <<>>]
<1>1. \A n \in DOMAIN s : one[n] \in Seq(S)
  OBVIOUS
<1>2. one \in Seq(Seq(S)) /\ DOMAIN one = DOMAIN s
  <2>1. DOMAIN s = 1 .. Len(s) /\ Len(s) \in Nat
    OBVIOUS
  <2> QED BY <1>1, <2>1
<1>3. \A n \in DOMAIN s : Range(one[n]) = IF n \in at THEN {s[n]} ELSE {}
  <2>1. Range(<<>>) = {} /\ \A e : Range(<<e>>) = {e}
    BY DEF Range
  <2> QED BY <2>1
<1>4. Range(FlattenSeq(one)) = UNION {Range(one[n]) : n \in DOMAIN s}
  <2> HIDE DEF one
  <2> QED BY <1>2, FlattenRange
<1>5. UNION {Range(one[n]) : n \in DOMAIN s} = {s[n] : n \in DOMAIN s \cap at}
  <2> HIDE DEF one
  <2> QED BY <1>3
<1> QED BY <1>4, <1>5 DEF Picked

\* A sum of integers is an integer.
LEMMA SumType ==
  ASSUME NEW s \in Seq(Int)
  PROVE  SumOf(s) \in Int
<1> DEFINE Solves(f, k) == f = [n \in 0 .. k |-> IF n = 0 THEN 0 ELSE f[n - 1] + s[n]]
           Solved == {k \in Nat : k <= Len(s) => \E f : Solves(f, k) /\ f \in [0 .. k -> Int]}
<1>1. 0 \in Solved
  <2> DEFINE h == [n \in 0 .. 0 |-> 0]
  <2>1. Solves(h, 0) /\ h \in [0 .. 0 -> Int]
    OBVIOUS
  <2>2. QED
    <3> HIDE DEF h, Solves
    <3>1. QED
      BY <2>1
<1>2. ASSUME NEW k \in Nat, k \in Solved PROVE k + 1 \in Solved
  <2>1. CASE ~ (k + 1 <= Len(s))
    BY <2>1
  <2>2. CASE k + 1 <= Len(s)
    <3>1. PICK g : Solves(g, k) /\ g \in [0 .. k -> Int]
      BY <1>2, <2>2
    <3> DEFINE h == [n \in 0 .. k + 1 |-> IF n <= k THEN g[n] ELSE g[k] + s[k + 1]]
    <3>2. k + 1 \in 1 .. Len(s) /\ s[k + 1] \in Int /\ g[k] \in Int
      BY <2>2, <3>1
    <3>3. h \in [0 .. k + 1 -> Int]
      BY <3>1, <3>2
    <3>4. ASSUME NEW n \in 0 .. k + 1
          PROVE  h[n] = IF n = 0 THEN 0 ELSE h[n - 1] + s[n]
      <4>1. CASE n = 0
        BY <3>1, <4>1
      <4>2. CASE n # 0 /\ n <= k
        <5>1. n \in 0 .. k /\ n - 1 \in 0 .. k /\ n - 1 \in 0 .. k + 1 /\ n - 1 <= k
          BY <4>2
        <5>2. h[n] = g[n] /\ h[n - 1] = g[n - 1]
          BY <5>1, <4>2
        <5>3. g[n] = g[n - 1] + s[n]
          BY <3>1, <4>2, <5>1
        <5>4. QED
          BY <4>2, <5>2, <5>3
      <4>3. CASE n = k + 1
        <5>1. n # 0 /\ n - 1 = k /\ ~ (n <= k) /\ k \in 0 .. k + 1
          BY <4>3
        <5>2. h[n] = g[k] + s[k + 1] /\ h[n - 1] = g[k]
          BY <5>1
        <5>3. QED
          BY <4>3, <5>1, <5>2
      <4>4. QED
        BY <4>1, <4>2, <4>3
    <3>5. Solves(h, k + 1)
      <4>1. DOMAIN h = 0 .. k + 1
        OBVIOUS
      <4>2. QED
        BY <3>4
    <3>6. QED
      <4> HIDE DEF h, Solves
      <4>1. QED
        BY <3>3, <3>5
  <2>3. QED
    BY <2>1, <2>2
<1>3. Len(s) \in Solved
  <2> HIDE DEF Solved
  <2>1. Nat \subseteq Solved
    BY <1>1, <1>2, NatInd
  <2>2. QED
    BY <2>1
<1> DEFINE upTo == CHOOSE f : Solves(f, Len(s))
<1>4. Solves(upTo, Len(s))
  <2>1. \E f : Solves(f, Len(s))
    BY <1>3
  <2>2. QED
    BY <2>1
<1>5. upTo \in [0 .. Len(s) -> Int]
  <2> DEFINE S == {k \in Nat : k <= Len(s) => upTo[k] \in Int}
  <2>1. 0 \in S
    <3> HIDE DEF upTo
    <3>1. QED
      BY <1>4
  <2>2. ASSUME NEW k \in Nat, k \in S PROVE k + 1 \in S
    <3> HIDE DEF upTo
    <3>1. CASE k + 1 <= Len(s)
      <4>1. k + 1 \in 0 .. Len(s) /\ k + 1 # 0 /\ (k + 1) - 1 = k /\ s[k + 1] \in Int /\ k <= Len(s)
        BY <3>1
      <4>2. upTo[k + 1] = upTo[(k + 1) - 1] + s[k + 1]
        BY <1>4, <4>1
      <4>3. QED
        BY <2>2, <4>1, <4>2
    <3>2. CASE ~ (k + 1 <= Len(s))
      BY <3>2
    <3>3. QED
      BY <3>1, <3>2
  <2>3. \A k \in 0 .. Len(s) : upTo[k] \in Int
    <3>1. Nat \subseteq S
      <4> HIDE DEF S
      <4>1. QED
        BY <2>1, <2>2, NatInd
    <3>2. QED
      BY <3>1
  <2>4. QED
    <3> HIDE DEF upTo
    <3>1. QED
      BY <1>4, <2>3
<1>6. SumOf(s) = upTo[Len(s)]
  BY DEF SumOf
<1>7. QED
  <2> HIDE DEF upTo
  <2>1. Len(s) \in 0 .. Len(s)
    OBVIOUS
  <2>2. QED
    BY <1>5, <1>6, <2>1

\* Something is picked if the first is.
LEMMA PickedFirst ==
  ASSUME NEW S, NEW s \in Seq(S), NEW at, s # <<>>, 1 \in at
  PROVE  Picked(s, at) # <<>>
<1> DEFINE one == [n \in DOMAIN s |-> IF n \in at THEN <<s[n]>> ELSE <<>>]
           H == {p \in Seq(S) : p # <<>>}
<1>1. DOMAIN s = 1 .. Len(s) /\ Len(s) \in Nat /\ 1 \in DOMAIN s
  OBVIOUS
<1>2. \A n \in DOMAIN s : one[n] \in Seq(S)
  OBVIOUS
<1>3. one \in Seq(Seq(S)) /\ one # <<>>
  BY <1>1, <1>2
<1>4. one[1] \in H
  <2>1. one[1] = <<s[1]>> /\ s[1] \in S
    BY <1>1
  <2>2. QED
    BY <2>1
<1>5. ASSUME NEW p \in H, NEW q \in Seq(S) PROVE p \o q \in H
  <2>1. p \o q \in Seq(S) /\ Len(p \o q) = Len(p) + Len(q) /\ Len(p) \in Nat /\ Len(q) \in Nat /\ Len(p) # 0
    OBVIOUS
  <2>2. QED
    BY <2>1
<1>6. FlattenSeq(one) \in H
  <2> HIDE DEF one, H
  <2>1. QED
    BY <1>3, <1>4, <1>5, FlattenFrom
<1>7. QED
  BY <1>6 DEF Picked

-----------------------------------------------------------------------------
(* The plan                                                                *)

\* Of a function to the naturals some argument has the least value.
LEMMA LeastBy ==
  ASSUME NEW S, NEW f \in [S -> Nat], S # {}
  PROVE  \E x \in S : \A y \in S : f[x] <= f[y]
<1>1. {f[x] : x \in S} \in SUBSET Nat /\ {f[x] : x \in S} # {}
  OBVIOUS
<1>2. PICK n \in {f[x] : x \in S} : \A m \in {f[x] : x \in S} : n <= m
  BY <1>1, NatMin
<1>3. QED
  BY <1>2

\* The distance to the centroid is a natural.
LEMMA DistanceType ==
  ASSUME NEW knowns \in Seq(KnownCells), NEW k \in KnownCells
  PROVE  Dist2(knowns, k) \in Nat
<1>1. DOMAIN knowns = 1 .. Len(knowns) /\ Len(knowns) \in Nat
  OBVIOUS
<1>2. k.i \in Int /\ k.j \in Int /\ \A m \in DOMAIN knowns : knowns[m].i \in Int /\ knowns[m].j \in Int
  <2>1. \A m \in DOMAIN knowns : knowns[m] \in KnownCells
    OBVIOUS
  <2>2. QED
    BY <2>1 DEF KnownCells
<1> DEFINE is == [m \in DOMAIN knowns |-> knowns[m].i]
           js == [m \in DOMAIN knowns |-> knowns[m].j]
<1>3. is \in Seq(Int) /\ js \in Seq(Int)
  BY <1>1, <1>2
<1>4. SumOf(is) \in Int /\ SumOf(js) \in Int
  <2> HIDE DEF is, js
  <2>1. QED
    BY <1>3, SumType
<1> DEFINE di == Len(knowns) * k.i - SumOf(is)
           dj == Len(knowns) * k.j - SumOf(js)
<1>5. di \in Int /\ dj \in Int
  <2> HIDE DEF is, js
  <2>1. QED
    BY <1>1, <1>2, <1>4
<1>6. Dist2(knowns, k) = di * di + dj * dj
  BY DEF Dist2
<1>7. QED
  <2> HIDE DEF di, dj
  <2>1. di * di >= 0 /\ dj * dj >= 0 /\ di * di \in Int /\ dj * dj \in Int
    BY <1>5
  <2>2. QED
    BY <1>6, <2>1

\* A pattern has a best anchor, one of its cells.
LEMMA AnchorExists ==
  ASSUME NEW knowns \in Seq(KnownCells), knowns # <<>>, NEW rare,
         \A m, n \in DOMAIN knowns :
           knowns[m].i = knowns[n].i /\ knowns[m].j = knowns[n].j => knowns[m] = knowns[n]
  PROVE  /\ Anchor(knowns, rare) \in KnownCells
         /\ \E n \in DOMAIN knowns : Anchor(knowns, rare) = knowns[n]
<1> DEFINE cells == {knowns[n] : n \in DOMAIN knowns}
           good == {k \in cells : k.want = rare}
           A == IF good # {} THEN good ELSE cells
           d == [k \in cells |-> Dist2(knowns, k)]
<1>1. cells # {} /\ cells \subseteq KnownCells
  OBVIOUS
<1>2. A # {} /\ A \subseteq cells
  BY <1>1
<1>3. d \in [cells -> Nat]
  BY <1>1, DistanceType
<1>4. \A k \in cells : k.i \in Nat /\ k.j \in Nat
  BY <1>1 DEF KnownCells
<1>5. \A k, l \in cells : k.i = l.i /\ k.j = l.j => k = l
  OBVIOUS
<1>6. \A k \in A, l \in cells : \/ k.want = rare /\ l.want # rare
                                \/ l \in A /\ (k.want = rare) = (l.want = rare)
  <2>1. CASE good = {}
    BY <2>1
  <2>2. CASE good # {}
    BY <2>2
  <2>3. QED
    BY <2>1, <2>2
<1> HIDE DEF cells, A
<1> DEFINE fd == [k \in A |-> d[k]]
<1>7. PICK a \in A : \A l \in A : d[a] <= d[l]
  <2>1. fd \in [A -> Nat]
    BY <1>2, <1>3
  <2>2. \E x \in A : \A y \in A : fd[x] <= fd[y]
    <3> HIDE DEF fd
    <3>1. QED
      BY <1>2, <2>1, LeastBy
  <2>3. QED
    BY <2>2
<1> HIDE DEF d
<1> DEFINE B == {l \in A : d[l] = d[a]}
           fj == [k \in B |-> k.j]
<1>8. PICK b \in B : \A l \in B : b.j <= l.j
  <2>1. fj \in [B -> Nat] /\ B # {}
    BY <1>2, <1>4
  <2>2. \E x \in B : \A y \in B : fj[x] <= fj[y]
    <3> HIDE DEF fj, B
    <3>1. QED
      BY <2>1, LeastBy
  <2>3. QED
    BY <2>2
<1> DEFINE C == {l \in B : l.j = b.j}
           fi == [k \in C |-> k.i]
<1>9. PICK c \in C : \A l \in C : c.i <= l.i
  <2>1. fi \in [C -> Nat] /\ C # {}
    BY <1>2, <1>4
  <2>2. \E x \in C : \A y \in C : fi[x] <= fi[y]
    <3> HIDE DEF fi, C
    <3>1. QED
      BY <2>1, LeastBy
  <2>3. QED
    BY <2>2
<1>10. c \in cells /\ c \in A /\ c \in B /\ c.j = b.j /\ d[c] = d[a]
  BY <1>2
<1>11. ASSUME NEW l \in cells, l # c PROVE Nearer(knowns, rare, c, l)
  <2>1. CASE c.want = rare /\ l.want # rare
    BY <2>1 DEF Nearer
  <2>2. CASE l \in A /\ (c.want = rare) = (l.want = rare)
    <3>1. d[c] <= d[l] /\ d[c] \in Nat /\ d[l] \in Nat
      BY <1>3, <1>7, <1>10, <2>2
    <3>2. CASE d[c] = d[l]
      <4>1. l \in B
        BY <1>10, <2>2, <3>2
      <4>2. c.j <= l.j /\ c.j \in Nat /\ l.j \in Nat /\ c.i \in Nat /\ l.i \in Nat
        BY <1>4, <1>8, <1>10, <4>1
      <4>3. c.j = l.j => c.i <= l.i /\ c.i # l.i
        BY <1>5, <1>9, <1>10, <1>11, <4>1
      <4>4. c.j < l.j \/ (c.j = l.j /\ c.i < l.i)
        BY <4>2, <4>3
      <4>5. Dist2(knowns, c) = Dist2(knowns, l)
        BY <1>10, <3>2 DEF d
      <4>6. QED
        BY <2>2, <4>4, <4>5 DEF Nearer
    <3>3. CASE d[c] < d[l]
      <4>1. Dist2(knowns, c) < Dist2(knowns, l)
        BY <1>10, <3>3 DEF d
      <4>2. QED
        BY <2>2, <4>1 DEF Nearer
    <3>4. QED
      BY <3>1, <3>2, <3>3
  <2>3. QED
    BY <1>6, <1>10, <2>1, <2>2
<1>12. \E k \in cells : \A l \in cells \ {k} : Nearer(knowns, rare, k, l)
  BY <1>10, <1>11
<1>13. Anchor(knowns, rare) \in cells
  <2>1. Anchor(knowns, rare) = CHOOSE k \in cells : \A l \in cells \ {k} : Nearer(knowns, rare, k, l)
    BY DEF Anchor, cells
  <2>2. QED
    BY <1>12, <2>1
<1>14. QED
  BY <1>1, <1>13 DEF cells

\* A plan that can be run: every variant places each of its cells, the anchor first,
\* at an integer offset, the anchor's being none.
PlanOK(p) ==
  /\ p.want # <<>> /\ p.want \in Seq({0, 1})
  /\ p.offsets # <<>> /\ p.offsets \in Seq(Seq(Int \X Int))
  /\ \A v \in DOMAIN p.offsets : DOMAIN p.offsets[v] = DOMAIN p.want /\ p.offsets[v][1] = <<0, 0>>

\* An orientation takes integers to integers and the anchor to itself.
LEMMA TurnType ==
  ASSUME NEW g \in 1 .. 8
  PROVE  (\A i, j \in Int : Turn(g, i, j) \in Int \X Int) /\ Turn(g, 0, 0) = <<0, 0>>
<1>1. \A h \in 1 .. 8 : /\ kOrientations[h][1] \in Int /\ kOrientations[h][2] \in Int
                        /\ kOrientations[h][3] \in Int /\ kOrientations[h][4] \in Int
  BY DEF kOrientations
<1> DEFINE t == kOrientations[g]
<1>2. t[1] \in Int /\ t[2] \in Int /\ t[3] \in Int /\ t[4] \in Int
  BY <1>1
<1>3. \A i, j \in Int : Turn(g, i, j) = <<t[1] * i + t[2] * j, t[3] * i + t[4] * j>>
  BY DEF Turn
<1>4. Turn(g, 0, 0) = <<t[1] * 0 + t[2] * 0, t[3] * 0 + t[4] * 0>>
  BY DEF Turn
<1>5. QED
  <2> HIDE DEF t
  <2>1. \A i, j \in Int : t[1] * i + t[2] * j \in Int /\ t[3] * i + t[4] * j \in Int
    BY <1>2
  <2>2. t[1] * 0 + t[2] * 0 = 0 /\ t[3] * 0 + t[4] * 0 = 0
    BY <1>2
  <2>3. ASSUME NEW i \in Int, NEW j \in Int PROVE Turn(g, i, j) \in Int \X Int
    <3>1. t[1] * i + t[2] * j \in Int /\ t[3] * i + t[4] * j \in Int
      BY <2>1
    <3>2. Turn(g, i, j) = <<t[1] * i + t[2] * j, t[3] * i + t[4] * j>>
      BY <1>3
    <3>3. QED
      BY <3>1, <3>2
  <2>4. Turn(g, 0, 0) = <<0, 0>>
    BY <1>4, <2>2
  <2>5. QED
    BY <2>3, <2>4

\* One element in front of a sequence.
LEMMA Prepended ==
  ASSUME NEW S, NEW e \in S, NEW q \in Seq(S)
  PROVE  /\ <<e>> \o q \in Seq(S) /\ <<e>> \o q # <<>> /\ (<<e>> \o q)[1] = e
         /\ Range(<<e>> \o q) = {e} \cup Range(q)
<1> DEFINE p == <<e>>
<1>1. p \in Seq(S) /\ Len(p) = 1 /\ p[1] = e
  OBVIOUS
<1>2. Range(p) = {e}
  BY DEF Range
<1> HIDE DEF p
<1>3. Range(p \o q) = Range(p) \cup Range(q)
  BY <1>1, RangeOfBoth
<1>4. p \o q \in Seq(S) /\ Len(p \o q) = 1 + Len(q) /\ (p \o q)[1] = e /\ Len(q) \in Nat
  <2>0. p \in Seq(S) /\ q \in Seq(S)
    BY <1>1
  <2>1. p \o q \in Seq(S)
    BY <2>0
  <2>2. Len(p \o q) = Len(p) + Len(q) /\ Len(q) \in Nat
    BY <2>0
  <2>3. 1 \in 1 .. Len(p)
    BY <1>1
  <2>4. \A n \in 1 .. Len(p) : (p \o q)[n] = p[n]
    BY <2>0
  <2> QED BY <1>1, <2>1, <2>2, <2>3, <2>4
<1>5. p \o q # <<>>
  BY <1>4
<1> QED BY <1>2, <1>3, <1>4, <1>5 DEF p

\* The cells of a plan are those of the pattern, the anchor first.
LEMMA PlanCellsAre ==
  ASSUME NEW knowns, IsPattern(knowns), NEW rare
  PROVE  /\ PlanCells(knowns, rare) \in Seq(KnownCells) /\ PlanCells(knowns, rare) # <<>>
         /\ PlanCells(knowns, rare)[1] = Anchor(knowns, rare)
         /\ Range(PlanCells(knowns, rare)) = Range(knowns)
<1> DEFINE anchor == Anchor(knowns, rare)
           rares == {n \in DOMAIN knowns : knowns[n].want = rare}
           sorted == RareFirst(knowns, rare)
           others == {n \in DOMAIN sorted : <<sorted[n].i, sorted[n].j>> # <<anchor.i, anchor.j>>}
           rest == Picked(sorted, others)
<1>1. knowns \in Seq(KnownCells) /\ knowns # <<>>
  BY DEF IsPattern
<1>2. anchor \in KnownCells /\ anchor \in Range(knowns)
  BY AnchorExists DEF IsPattern, Range
<1>3. \A e \in Range(knowns) : e.i = anchor.i /\ e.j = anchor.j => e = anchor
  BY <1>2 DEF IsPattern, Range
<1>4. sorted \in Seq(KnownCells) /\ Range(sorted) = Range(knowns)
  <2>1. Picked(knowns, rares) \in Seq(KnownCells) /\ Picked(knowns, DOMAIN knowns \ rares) \in Seq(KnownCells)
    BY <1>1, PickedType
  <2>2. /\ Range(Picked(knowns, rares)) = {knowns[n] : n \in DOMAIN knowns \cap rares}
        /\ Range(Picked(knowns, DOMAIN knowns \ rares)) =
             {knowns[n] : n \in DOMAIN knowns \cap (DOMAIN knowns \ rares)}
    <3> HIDE DEF rares
    <3> QED BY <1>1, PickedRange
  <2>3. sorted = Picked(knowns, rares) \o Picked(knowns, DOMAIN knowns \ rares)
    BY DEF RareFirst
  <2> HIDE DEF rares, sorted
  <2>4. Range(sorted) = Range(Picked(knowns, rares)) \cup Range(Picked(knowns, DOMAIN knowns \ rares))
    BY <2>1, <2>3, RangeOfBoth
  <2>5. Range(sorted) = Range(knowns)
    BY <2>2, <2>4 DEF Range
  <2>6. sorted \in Seq(KnownCells)
    BY <2>1, <2>3
  <2> QED BY <2>5, <2>6
<1>5. PlanCells(knowns, rare) = <<anchor>> \o rest
  BY DEF PlanCells
<1> HIDE DEF sorted, anchor
<1>6. rest \in Seq(KnownCells) /\ Range(rest) = {sorted[n] : n \in DOMAIN sorted \cap others}
  <2> HIDE DEF others
  <2> QED BY <1>4, PickedType, PickedRange
<1>7. Range(rest) \cup {anchor} = Range(knowns)
  <2>1. \A n \in DOMAIN sorted : n \notin others => sorted[n] = anchor
    BY <1>3, <1>4 DEF Range
  <2> QED BY <1>2, <1>4, <1>6, <2>1 DEF Range
<1> HIDE DEF rest
<1>8. /\ <<anchor>> \o rest \in Seq(KnownCells) /\ <<anchor>> \o rest # <<>>
      /\ (<<anchor>> \o rest)[1] = anchor /\ Range(<<anchor>> \o rest) = {anchor} \cup Range(rest)
  BY <1>2, <1>6, Prepended
<1> QED BY <1>5, <1>7, <1>8 DEF anchor

\* build_search_plan makes such a plan of every pattern.
LEMMA PlanBuilt ==
  ASSUME NEW knowns, IsPattern(knowns), NEW rare, NEW all \in BOOLEAN
  PROVE  PlanOK(BuildSearchPlan(knowns, rare, all))
<1> DEFINE cells == PlanCells(knowns, rare)
           plan1 == BuildSearchPlan(knowns, rare, all)
<1>1. cells \in Seq(KnownCells) /\ cells # <<>>
  BY PlanCellsAre
<1> DEFINE Alike(g) == {h \in Orientations(all) : Key(cells, h) = Key(cells, g)}
           turns == [g \in 1 .. (IF all THEN Len(kOrientations) ELSE 1) |-> g]
           first == {g \in DOMAIN turns : \A h \in Alike(g) : g <= h}
           firsts == Picked(turns, first)
<1>2. turns \in Seq(1 .. 8) /\ turns # <<>> /\ 1 \in first
  <2>1. Len(kOrientations) = 8
    BY DEF kOrientations
  <2>2. turns \in Seq(1 .. 8) /\ turns # <<>> /\ 1 \in DOMAIN turns
    <3>1. CASE all
      BY <2>1, <3>1
    <3>2. CASE ~ all
      BY <3>2
    <3>3. QED
      BY <3>1, <3>2
  <2>3. \A h \in Orientations(all) : 1 <= h
    BY <2>1 DEF Orientations
  <2>4. QED
    BY <2>2, <2>3
<1>3. firsts \in Seq(1 .. 8) /\ firsts # <<>>
  <2> HIDE DEF turns, first
  <2>1. QED
    BY <1>2, PickedType, PickedFirst
<1>4. /\ plan1.want = [c \in DOMAIN cells |-> cells[c].want]
      /\ plan1.offsets = [v \in DOMAIN firsts |-> Around(cells, firsts[v])]
  BY DEF BuildSearchPlan
<1> HIDE DEF cells, firsts, plan1
<1>5. /\ DOMAIN cells = 1 .. Len(cells) /\ Len(cells) \in Nat /\ 1 \in DOMAIN cells
      /\ \A c \in DOMAIN cells : cells[c].i \in Int /\ cells[c].j \in Int /\ cells[c].want \in {0, 1}
  <2>1. DOMAIN cells = 1 .. Len(cells) /\ Len(cells) \in Nat /\ Len(cells) # 0
    BY <1>1
  <2>2. \A c \in DOMAIN cells : cells[c] \in KnownCells
    BY <1>1
  <2>3. QED
    BY <2>1, <2>2 DEF KnownCells
<1>6. /\ DOMAIN firsts = 1 .. Len(firsts) /\ Len(firsts) \in Nat /\ Len(firsts) # 0
      /\ \A v \in DOMAIN firsts : firsts[v] \in 1 .. 8
  BY <1>3
<1>7. plan1.want \in Seq({0, 1}) /\ plan1.want # <<>> /\ DOMAIN plan1.want = DOMAIN cells
  <2>1. plan1.want \in Seq({0, 1})
    BY <1>4, <1>5
  <2>2. QED
    BY <1>4, <1>5, <2>1
<1>8. ASSUME NEW g \in 1 .. 8
      PROVE  /\ Around(cells, g) \in Seq(Int \X Int) /\ DOMAIN Around(cells, g) = DOMAIN cells
             /\ Around(cells, g)[1] = <<0, 0>>
  <2> DEFINE around == [c \in DOMAIN cells |-> Turn(g, cells[c].i - cells[1].i, cells[c].j - cells[1].j)]
  <2>1. Around(cells, g) = around
    BY DEF Around
  <2>2. \A c \in DOMAIN cells : cells[c].i - cells[1].i \in Int /\ cells[c].j - cells[1].j \in Int
    BY <1>5
  <2>3. \A c \in DOMAIN cells : Turn(g, cells[c].i - cells[1].i, cells[c].j - cells[1].j) \in Int \X Int
    BY <2>2, TurnType
  <2>4. cells[1].i - cells[1].i = 0 /\ cells[1].j - cells[1].j = 0
    BY <1>5
  <2>5. Turn(g, 0, 0) = <<0, 0>>
    BY TurnType
  <2>6. around[1] = <<0, 0>>
    BY <1>5, <2>4, <2>5
  <2>7. around \in Seq(Int \X Int)
    BY <1>5, <2>3
  <2>8. QED
    BY <2>1, <2>6, <2>7
<1>9. /\ plan1.offsets \in Seq(Seq(Int \X Int)) /\ plan1.offsets # <<>>
      /\ DOMAIN plan1.offsets = DOMAIN firsts
      /\ \A v \in DOMAIN firsts : plan1.offsets[v] = Around(cells, firsts[v])
  <2>1. \A v \in DOMAIN firsts : Around(cells, firsts[v]) \in Seq(Int \X Int)
    BY <1>6, <1>8
  <2>2. plan1.offsets \in Seq(Seq(Int \X Int))
    BY <1>4, <1>6, <2>1
  <2>3. DOMAIN plan1.offsets = DOMAIN firsts /\ 1 \in DOMAIN firsts
    BY <1>4, <1>6
  <2>4. plan1.offsets # <<>>
    BY <2>2, <2>3
  <2>5. \A v \in DOMAIN firsts : plan1.offsets[v] = Around(cells, firsts[v])
    BY <1>4
  <2>6. QED
    BY <2>2, <2>3, <2>4, <2>5
<1>10. PlanOK(plan1)
  <2>1. ASSUME NEW v \in DOMAIN plan1.offsets
        PROVE  DOMAIN plan1.offsets[v] = DOMAIN plan1.want /\ plan1.offsets[v][1] = <<0, 0>>
    <3>1. firsts[v] \in 1 .. 8 /\ plan1.offsets[v] = Around(cells, firsts[v])
      BY <1>6, <1>9
    <3>2. QED
      BY <1>7, <1>8, <3>1
  <2>2. QED
    BY <1>7, <1>9, <2>1 DEF PlanOK
<1>11. QED
  BY <1>10 DEF plan1

\* An orientation takes no cell further away than it is.
LEMMA TurnNear ==
  ASSUME NEW g \in 1 .. 8, NEW N \in Nat, NEW i \in Int, NEW j \in Int, -N < i, i < N, -N < j, j < N,
         NEW axis \in {1, 2}
  PROVE  -N < Turn(g, i, j)[axis] /\ Turn(g, i, j)[axis] < N
<1>1. Turn(g, i, j) \in {<<i, j>>, <<-j, i>>, <<-i, -j>>, <<j, -i>>, <<-i, j>>, <<j, i>>, <<i, -j>>, <<-j, -i>>}
  <2>1. CASE g = 1
    BY <2>1 DEF Turn, kOrientations
  <2>2. CASE g = 2
    BY <2>2 DEF Turn, kOrientations
  <2>3. CASE g = 3
    BY <2>3 DEF Turn, kOrientations
  <2>4. CASE g = 4
    BY <2>4 DEF Turn, kOrientations
  <2>5. CASE g = 5
    BY <2>5 DEF Turn, kOrientations
  <2>6. CASE g = 6
    BY <2>6 DEF Turn, kOrientations
  <2>7. CASE g = 7
    BY <2>7 DEF Turn, kOrientations
  <2>8. CASE g = 8
    BY <2>8 DEF Turn, kOrientations
  <2> QED BY <2>1, <2>2, <2>3, <2>4, <2>5, <2>6, <2>7, <2>8
<1> QED BY <1>1

\* No variant of a pattern of a side of N reaches N away.
LEMMA OffsetsNear ==
  ASSUME NEW knowns, IsPattern(knowns), NEW rare, NEW all \in BOOLEAN, NEW N \in Nat,
         \A n \in DOMAIN knowns : knowns[n].i < N /\ knowns[n].j < N,
         NEW p, p = BuildSearchPlan(knowns, rare, all), NEW v \in DOMAIN p.offsets, NEW c \in DOMAIN p.want,
         NEW axis \in {1, 2}
  PROVE  -N < p.offsets[v][c][axis] /\ p.offsets[v][c][axis] < N
<1> DEFINE cells == PlanCells(knowns, rare)
           Alike(g) == {h \in Orientations(all) : Key(cells, h) = Key(cells, g)}
           turns == [g \in 1 .. (IF all THEN Len(kOrientations) ELSE 1) |-> g]
           first == {g \in DOMAIN turns : \A h \in Alike(g) : g <= h}
           firsts == Picked(turns, first)
<1>1. cells \in Seq(KnownCells) /\ cells # <<>> /\ Range(cells) = Range(knowns)
  BY PlanCellsAre
<1>2. turns \in Seq(1 .. 8)
  <2>1. Len(kOrientations) = 8
    BY DEF kOrientations
  <2>2. CASE all
    BY <2>1, <2>2
  <2>3. CASE ~ all
    BY <2>3
  <2> QED BY <2>2, <2>3
<1>3. firsts \in Seq(1 .. 8)
  <2> HIDE DEF turns, first
  <2> QED BY <1>2, PickedType
<1>4. /\ p.want = [d \in DOMAIN cells |-> cells[d].want]
      /\ p.offsets = [w \in DOMAIN firsts |-> Around(cells, firsts[w])]
  BY DEF BuildSearchPlan
<1> HIDE DEF cells, firsts
<1>5. c \in DOMAIN cells /\ 1 \in DOMAIN cells /\ firsts[v] \in 1 .. 8 /\ p.offsets[v] = Around(cells, firsts[v])
  BY <1>1, <1>3, <1>4
<1>6. \A d \in DOMAIN cells : /\ cells[d].i \in Nat /\ cells[d].i < N
                              /\ cells[d].j \in Nat /\ cells[d].j < N
  <2>1. ASSUME NEW d \in DOMAIN cells
        PROVE  cells[d] \in KnownCells /\ \E n \in DOMAIN knowns : cells[d] = knowns[n]
    BY <1>1 DEF Range
  <2> QED BY <2>1 DEF KnownCells
<1> DEFINE i == cells[c].i - cells[1].i
           j == cells[c].j - cells[1].j
<1>7. i \in Int /\ j \in Int /\ -N < i /\ i < N /\ -N < j /\ j < N
  BY <1>5, <1>6
<1>8. p.offsets[v][c] = Turn(firsts[v], i, j)
  BY <1>5 DEF Around
<1> HIDE DEF i, j
<1> QED BY <1>5, <1>7, <1>8, TurnNear

\* The plan finds what the definition asks for, also where orientations that lay
\* down the same cells became one variant.
THEOREM PlanAgrees ==
  ASSUME NEW knowns, IsPattern(knowns), NEW rare, NEW all \in BOOLEAN, NEW block, NEW x \in Int, NEW z \in Int
  PROVE  PlanMask(BuildSearchPlan(knowns, rare, all), block, x, z) =
           TrueMask(knowns, Anchor(knowns, rare), all, block, x, z)
<1> DEFINE cells == PlanCells(knowns, rare)
           plan1 == BuildSearchPlan(knowns, rare, all)
           anchor == Anchor(knowns, rare)
           Alike(g) == {h \in Orientations(all) : Key(cells, h) = Key(cells, g)}
           turns == [g \in 1 .. (IF all THEN Len(kOrientations) ELSE 1) |-> g]
           first == {g \in DOMAIN turns : \A h \in Alike(g) : g <= h}
           firsts == Picked(turns, first)
           Shown(o) == block[<<x + o[1], z + o[2]>>]
           Pass(g) == \A c \in DOMAIN cells : Shown(Around(cells, g)[c]) = cells[c].want
<1>1. /\ cells \in Seq(KnownCells) /\ cells # <<>> /\ cells[1] = anchor /\ Range(cells) = Range(knowns)
      /\ 1 \in DOMAIN cells /\ DOMAIN cells = 1 .. Len(cells) /\ Len(cells) \in Nat
  <2>1. cells \in Seq(KnownCells) /\ cells # <<>> /\ cells[1] = anchor /\ Range(cells) = Range(knowns)
    BY PlanCellsAre
  <2> HIDE DEF cells
  <2> QED BY <2>1
<1>2. /\ Len(kOrientations) = 8 /\ turns \in Seq(1 .. 8) /\ DOMAIN turns = Orientations(all)
      /\ (\A g \in Orientations(all) : turns[g] = g) /\ Orientations(all) \subseteq 1 .. 8
  <2>1. Len(kOrientations) = 8
    BY DEF kOrientations
  <2>2. CASE all
    BY <2>1, <2>2 DEF Orientations
  <2>3. CASE ~ all
    BY <2>1, <2>3 DEF Orientations
  <2> QED BY <2>1, <2>2, <2>3
<1>3. firsts \in Seq(1 .. 8) /\ Range(firsts) = first
  <2>1. firsts \in Seq(1 .. 8) /\ Range(firsts) = {turns[n] : n \in DOMAIN turns \cap first}
    <3> HIDE DEF turns, first
    <3> QED BY <1>2, PickedType, PickedRange
  <2>2. first \subseteq DOMAIN turns
    OBVIOUS
  <2> HIDE DEF turns, first
  <2> QED BY <1>2, <2>1, <2>2
<1>4. /\ plan1.want = [c \in DOMAIN cells |-> cells[c].want]
      /\ plan1.offsets = [v \in DOMAIN firsts |-> Around(cells, firsts[v])]
      /\ plan1.masks = [v \in DOMAIN firsts |-> Alike(firsts[v])]
  BY DEF BuildSearchPlan
<1> HIDE DEF cells, plan1, anchor, turns, firsts
<1>5. /\ DOMAIN plan1.want = DOMAIN cells /\ Len(plan1.want) = Len(cells)
      /\ \A c \in DOMAIN cells : plan1.want[c] = cells[c].want
  BY <1>1, <1>4
<1>6. ASSUME NEW g \in 1 .. 8
      PROVE  /\ \A c \in DOMAIN cells : Around(cells, g)[c] = Turn(g, cells[c].i - anchor.i, cells[c].j - anchor.j)
             /\ Around(cells, g)[1] = <<0, 0>>
  <2>1. \A c \in DOMAIN cells : Around(cells, g)[c] = Turn(g, cells[c].i - anchor.i, cells[c].j - anchor.j)
    BY <1>1 DEF Around
  <2>2. anchor.i - anchor.i = 0 /\ anchor.j - anchor.j = 0
    <3>1. cells[1] \in KnownCells
      BY <1>1
    <3> QED BY <1>1, <3>1 DEF KnownCells
  <2>3. Turn(g, 0, 0) = <<0, 0>>
    BY TurnType
  <2> QED BY <1>1, <2>1, <2>2, <2>3
<1>7. ASSUME NEW g \in 1 .. 8
      PROVE  Pass(g) <=> \A n \in DOMAIN knowns :
               Shown(Turn(g, knowns[n].i - anchor.i, knowns[n].j - anchor.j)) = knowns[n].want
  <2>1. \A n \in DOMAIN knowns : \E c \in DOMAIN cells : cells[c] = knowns[n]
    BY <1>1 DEF Range
  <2>2. \A c \in DOMAIN cells : \E n \in DOMAIN knowns : cells[c] = knowns[n]
    BY <1>1 DEF Range
  <2>3. Pass(g) <=> \A c \in DOMAIN cells :
          Shown(Turn(g, cells[c].i - anchor.i, cells[c].j - anchor.j)) = cells[c].want
    BY <1>6
  <2> HIDE DEF Shown, Pass
  <2> QED BY <2>1, <2>2, <2>3
<1>8. TrueMask(knowns, anchor, all, block, x, z) = {g \in Orientations(all) : Pass(g)}
  <2>1. TrueMask(knowns, anchor, all, block, x, z) =
          {g \in Orientations(all) : \A n \in DOMAIN knowns :
             Shown(Turn(g, knowns[n].i - anchor.i, knowns[n].j - anchor.j)) = knowns[n].want}
    BY DEF TrueMask
  <2> HIDE DEF Shown, Pass
  <2> QED BY <1>2, <1>7, <2>1
<1>9. ASSUME NEW g \in 1 .. 8, NEW h \in 1 .. 8, Key(cells, h) = Key(cells, g), Pass(g)
      PROVE  Pass(h)
  <2>1. ASSUME NEW c \in DOMAIN cells PROVE Shown(Around(cells, h)[c]) = cells[c].want
    <3>1. <<Around(cells, h)[c], cells[c].want>> \in Key(cells, g)
      BY <1>9 DEF Key
    <3>2. PICK d \in DOMAIN cells : <<Around(cells, h)[c], cells[c].want>> = <<Around(cells, g)[d], cells[d].want>>
      BY <3>1 DEF Key
    <3>3. Around(cells, h)[c] = Around(cells, g)[d] /\ cells[c].want = cells[d].want
      BY <3>2
    <3> QED BY <1>9, <3>3
  <2> QED BY <2>1
<1>10. ASSUME NEW g \in 1 .. 8, Shown(<<0, 0>>) = plan1.want[1]
       PROVE  Pass(g) <=> \A c \in 2 .. Len(plan1.want) : Shown(Around(cells, g)[c]) = plan1.want[c]
  <2>1. DOMAIN cells = {1} \cup 2 .. Len(plan1.want)
    BY <1>1, <1>5
  <2>2. Shown(Around(cells, g)[1]) = cells[1].want
    BY <1>1, <1>5, <1>6, <1>10
  <2>3. \A c \in 2 .. Len(plan1.want) : c \in DOMAIN cells /\ plan1.want[c] = cells[c].want
    BY <1>5, <2>1
  <2> HIDE DEF Shown
  <2> QED BY <2>1, <2>2, <2>3
<1>11. block[<<x, z>>] = Shown(<<0, 0>>)
  OBVIOUS
<1>12. CASE block[<<x, z>>] # plan1.want[1]
  <2>1. \A g \in 1 .. 8 : ~ Pass(g)
    BY <1>1, <1>5, <1>6, <1>11, <1>12
  <2>2. PlanMask(plan1, block, x, z) = {}
    BY <1>12 DEF PlanMask
  <2> HIDE DEF Pass
  <2> QED BY <1>2, <1>8, <2>1, <2>2 DEF plan1, anchor
<1>13. CASE block[<<x, z>>] = plan1.want[1]
  <2> DEFINE passed == {v \in DOMAIN firsts : Pass(firsts[v])}
  <2>1. PlanMask(plan1, block, x, z) = UNION {plan1.masks[v] : v \in passed}
    <3>1. DOMAIN plan1.offsets = DOMAIN firsts
      BY <1>4
    <3>2. ASSUME NEW v \in DOMAIN firsts
          PROVE  Pass(firsts[v]) <=>
                   \A c \in 2 .. Len(plan1.want) :
                     block[<<x + plan1.offsets[v][c][1], z + plan1.offsets[v][c][2]>>] = plan1.want[c]
      <4>1. firsts[v] \in 1 .. 8 /\ plan1.offsets[v] = Around(cells, firsts[v])
        BY <1>3, <1>4
      <4>2. Pass(firsts[v]) <=> \A c \in 2 .. Len(plan1.want) : Shown(plan1.offsets[v][c]) = plan1.want[c]
        <5> HIDE DEF Pass, Shown
        <5> QED BY <1>10, <1>11, <1>13, <4>1
      <4> HIDE DEF Pass
      <4> QED BY <4>2
    <3> HIDE DEF Pass
    <3> QED BY <1>13, <3>1, <3>2 DEF PlanMask
  <2>2. ASSUME NEW v \in passed PROVE plan1.masks[v] \subseteq {g \in Orientations(all) : Pass(g)}
    <3>1. firsts[v] \in 1 .. 8 /\ plan1.masks[v] = Alike(firsts[v]) /\ Pass(firsts[v])
      BY <1>3, <1>4
    <3> HIDE DEF Pass
    <3> QED BY <1>2, <1>9, <3>1
  <2>3. ASSUME NEW g \in Orientations(all), Pass(g) PROVE \E v \in passed : g \in plan1.masks[v]
    <3>1. PICK f \in Alike(g) : \A h \in Alike(g) : f <= h
      <4>1. Alike(g) \in SUBSET Nat /\ Alike(g) # {}
        BY <1>2
      <4> HIDE DEF Alike
      <4> QED BY <4>1, NatMin
    <3>2. Alike(f) = Alike(g) /\ f \in Orientations(all)
      OBVIOUS
    <3>3. f \in first
      BY <1>2, <3>1, <3>2
    <3>4. PICK v \in DOMAIN firsts : firsts[v] = f
      BY <1>3, <3>3 DEF Range
    <3>5. Pass(f)
      <4> HIDE DEF Pass
      <4> QED BY <1>2, <1>9, <2>3
    <3>6. plan1.masks[v] = Alike(g) /\ g \in Alike(g)
      BY <1>4, <3>2, <3>4
    <3> QED BY <3>4, <3>5, <3>6
  <2> HIDE DEF Pass
  <2>4. PlanMask(plan1, block, x, z) = {g \in Orientations(all) : Pass(g)}
    BY <2>1, <2>2, <2>3
  <2> QED BY <1>8, <2>4 DEF plan1, anchor
<1> QED BY <1>12, <1>13

\* A set of integers that has a lower bound has a least member.
LEMMA IntMin ==
  ASSUME NEW S \in SUBSET Int, S # {}, NEW low \in Int, \A x \in S : low <= x
  PROVE  \E n \in S : \A m \in S : n <= m
<1> DEFINE f == [x \in S |-> x - low]
<1>1. f \in [S -> Nat]
  OBVIOUS
<1>2. \E x \in S : \A y \in S : f[x] <= f[y]
  <2> HIDE DEF f
  <2>1. QED
    BY <1>1, LeastBy
<1>3. QED
  BY <1>2

\* A set of integers that has an upper bound has a greatest member.
LEMMA IntMax ==
  ASSUME NEW S \in SUBSET Int, S # {}, NEW high \in Int, \A x \in S : x <= high
  PROVE  \E n \in S : \A m \in S : m <= n
<1> DEFINE f == [x \in S |-> high - x]
<1>1. f \in [S -> Nat]
  OBVIOUS
<1>2. \E x \in S : \A y \in S : f[x] <= f[y]
  <2> HIDE DEF f
  <2>1. QED
    BY <1>1, LeastBy
<1>3. QED
  BY <1>2

\* Finitely many integers are bounded.
LEMMA Bounded ==
  ASSUME NEW n \in Nat, NEW f \in [1 .. n -> Int]
  PROVE  \E b \in Nat : \A i \in 1 .. n : -b <= f[i] /\ f[i] <= b
<1> DEFINE S == {k \in Nat : k <= n => \E b \in Nat : \A i \in 1 .. k : -b <= f[i] /\ f[i] <= b}
<1>1. 0 \in S
  <2>1. \A i \in 1 .. 0 : -0 <= f[i] /\ f[i] <= 0
    OBVIOUS
  <2>2. QED
    BY <2>1
<1>2. ASSUME NEW k \in Nat, k \in S PROVE k + 1 \in S
  <2>1. CASE k + 1 <= n
    <3>1. PICK b \in Nat : \A i \in 1 .. k : -b <= f[i] /\ f[i] <= b
      BY <1>2, <2>1
    <3>2. f[k + 1] \in Int
      BY <2>1
    <3>3. PICK c \in Nat : b <= c /\ -c <= f[k + 1] /\ f[k + 1] <= c
      <4>1. CASE f[k + 1] >= b
        BY <3>2, <4>1
      <4>2. CASE f[k + 1] < b /\ -f[k + 1] >= b
        BY <3>2, <4>2
      <4>3. CASE f[k + 1] < b /\ -f[k + 1] < b
        BY <3>2, <4>3
      <4>4. QED
        BY <3>2, <4>1, <4>2, <4>3
    <3>4. ASSUME NEW i \in 1 .. k + 1 PROVE -c <= f[i] /\ f[i] <= c
      <4>1. CASE i = k + 1
        BY <3>3, <4>1
      <4>2. CASE i # k + 1
        <5>1. i \in 1 .. k /\ f[i] \in Int
          BY <2>1, <4>2
        <5>2. QED
          BY <3>1, <3>3, <5>1
      <4>3. QED
        BY <4>1, <4>2
    <3>5. QED
      BY <3>4
  <2>2. CASE ~ (k + 1 <= n)
    BY <2>2
  <2>3. QED
    BY <2>1, <2>2
<1>3. Nat \subseteq S
  <2> HIDE DEF S
  <2>1. QED
    BY <1>1, <1>2, NatInd
<1>4. n \in S
  <2> HIDE DEF S
  <2>1. QED
    BY <1>3
<1>5. QED
  BY <1>4
=============================================================================
