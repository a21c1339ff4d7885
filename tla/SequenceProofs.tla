--------------------------- MODULE SequenceProofs ---------------------------
(***************************************************************************)
(* Lemmas about recursive functions, sequences and the operators of        *)
(* SequencesExt that fold or flatten them.  Induction is by the least      *)
(* counterexample.                                                         *)
(***************************************************************************)
EXTENDS SequencesExt, SequenceTheorems, FiniteSetTheorems, WellFoundedInduction, TLAPS

-----------------------------------------------------------------------------
(* The first and the last of a set of positions.                              *)

\* A set of naturals has a least one.
LEMMA MinIsLeast ==
    ASSUME NEW I \in SUBSET Nat, I # {}
    PROVE  Min(I) \in I /\ \A y \in I : Min(I) <= y
<1>1. PICK x \in I : \A y \in I : <<y, x>> \notin OpToRel(<, Nat)
  BY NatLessThanWellFounded, WFMin
<1>2. \A y \in I : ~(y < x) BY <1>1 DEF OpToRel
<1>3. \A y \in I : x <= y
  <2>1. I \subseteq Nat OBVIOUS
  <2> QED BY <1>2, <2>1
<1> QED BY <1>3, Zenon DEF Min

\* A set of naturals up to n has a greatest one.
LEMMA MaxIsGreatest ==
    ASSUME NEW n \in Nat, NEW I \in SUBSET (0..n), I # {}
    PROVE  Max(I) \in I /\ \A y \in I : Max(I) >= y
<1> DEFINE J == {n - x : x \in I}
<1>0. \A x \in I : x \in 0..n /\ n - x \in Nat OBVIOUS
<1>1. J \in SUBSET Nat /\ J # {} BY <1>0
<1> HIDE DEF J
<1>2. Min(J) \in J /\ \A y \in J : Min(J) <= y BY <1>1, MinIsLeast
<1>3. PICK x \in I : Min(J) = n - x BY <1>2 DEF J
<1>4. ASSUME NEW y \in I PROVE x >= y
  <2>1. n - y \in J BY DEF J
  <2>2. n - x <= n - y BY <1>2, <1>3, <2>1
  <2>3. x \in 0..n /\ y \in 0..n BY <1>0
  <2> QED BY <2>2, <2>3
<1> QED BY <1>4, Zenon DEF Max

-----------------------------------------------------------------------------
(* Recursive functions on an interval of naturals.                            *)

\* f is v at b, and goes on with G up to n.
Recurs(f, b, n, v, G) == \A k \in b..n : f[k] = IF k = b THEN v ELSE G[<<k, f[k - 1]>>]

\* What a recursion over b..N defines exists: a function that starts with v and goes on with
\* G.
LEMMA RecursionExists ==
    ASSUME NEW V, NEW v \in V, NEW b \in Nat, NEW N \in Nat, NEW G \in [(b..N) \X V -> V]
    PROVE  \E f \in [b..N -> V] : Recurs(f, b, N, v, G)
<1> DEFINE Rec(f, n) == \A k \in b..n : f[k] = IF k = b THEN v ELSE G[<<k, f[k - 1]>>]
           B == {n \in b..N : ~ \E f \in [b..n -> V] : Rec(f, n)}
<1>1. ASSUME B # {} PROVE FALSE
  <2>1. B \in SUBSET Nat OBVIOUS
  <2> DEFINE n == Min(B)
  <2>2. n \in B /\ \A y \in B : n <= y BY <1>1, <2>1, MinIsLeast, Zenon
  <2> HIDE DEF n
  <2>3. CASE n = b
    <3> DEFINE f == [k \in b..n |-> v]
    <3>1. f \in [b..n -> V] /\ Rec(f, n) BY <2>3
    <3> QED BY <2>2, <3>1
  <2>4. CASE n # b
    <3>1. n \in b..N /\ n - 1 \in b..N /\ n - 1 < n BY <2>2, <2>4
    <3>2. n - 1 \notin B BY <2>2, <3>1
    <3>3. PICK f \in [b..(n - 1) -> V] : Rec(f, n - 1) BY <3>1, <3>2
    <3> DEFINE h == [k \in b..n |-> IF k = n THEN G[<<n, f[n - 1]>>] ELSE f[k]]
    <3>4. f[n - 1] \in V /\ G[<<n, f[n - 1]>>] \in V BY <3>1, <3>3
    <3>5. h \in [b..n -> V]
      <4>1. \A k \in b..n : k = n \/ k \in b..(n - 1) BY <3>1
      <4>2. \A k \in b..(n - 1) : f[k] \in V BY <3>3
      <4>3. \A k \in b..n : (IF k = n THEN G[<<n, f[n - 1]>>] ELSE f[k]) \in V
        BY <3>4, <4>1, <4>2, Zenon
      <4> QED BY <4>3, Zenon
    <3>6. \A k \in b..(n - 1) : h[k] = f[k] /\ k # n BY <3>1
    <3>7. h[n] = G[<<n, f[n - 1]>>] BY <3>1
    <3>8. ASSUME NEW k \in b..n PROVE h[k] = IF k = b THEN v ELSE G[<<k, h[k - 1]>>]
      <4> HIDE DEF h
      <4>1. CASE k = n
        <5>1. h[n - 1] = f[n - 1] BY <3>1, <3>6
        <5> QED BY <2>4, <3>7, <4>1, <5>1
      <4>2. CASE k = b
        <5>1. b \in b..(n - 1) BY <3>1
        <5> QED BY <3>3, <3>6, <4>2, <5>1
      <4>3. CASE k # n /\ k # b
        <5>1. k \in b..(n - 1) /\ k - 1 \in b..(n - 1) BY <3>1, <4>3
        <5> QED BY <3>3, <3>6, <4>3, <5>1
      <4> QED BY <4>1, <4>2, <4>3
    <3> HIDE DEF h
    <3> QED BY <2>2, <3>5, <3>8
  <2> QED BY <2>3, <2>4
<1>2. CASE N \in b..N
  <2>1. \E f \in [b..N -> V] : Rec(f, N) BY <1>1, <1>2
  <2> QED BY <2>1 DEF Recurs
<1>3. CASE N \notin b..N
  <2>1. \A k \in b..N : FALSE BY <1>3
  <2> DEFINE f == [k \in b..N |-> v]
  <2>2. f \in [b..N -> V] OBVIOUS
  <2> HIDE DEF f
  <2> QED BY <2>1, <2>2 DEF Recurs
<1> QED BY <1>2, <1>3

\* Whatever is defined by recursion has the values that each step keeps it in.
LEMMA RecursionStays ==
    ASSUME NEW V, NEW b \in Nat, NEW N \in Nat, NEW f,
           \A k \in b..N : k = b \/ f[k - 1] \in V => f[k] \in V
    PROVE  \A k \in b..N : f[k] \in V
<1> DEFINE B == {k \in b..N : f[k] \notin V}
<1>1. ASSUME B # {} PROVE FALSE
  <2>1. B \in SUBSET Nat OBVIOUS
  <2> DEFINE n == Min(B)
  <2>2. n \in B /\ \A y \in B : n <= y BY <1>1, <2>1, MinIsLeast, Zenon
  <2> HIDE DEF n
  <2>3. n \in b..N /\ f[n] \notin V BY <2>2
  <2>4. n # b /\ f[n - 1] \notin V BY <2>3
  <2>5. n - 1 \in b..N /\ n - 1 < n BY <2>3, <2>4
  <2>6. n - 1 \in B BY <2>4, <2>5
  <2> QED BY <2>2, <2>3, <2>5, <2>6
<1> QED BY <1>1

\* Induction up to N, for a set instead of a predicate.
LEMMA UptoInduction ==
    ASSUME NEW N \in Nat, NEW S, 0 \in S, \A k \in 1..N : k - 1 \in S => k \in S
    PROVE  \A k \in 0..N : k \in S
<1> DEFINE B == {k \in 0..N : k \notin S}
<1>1. ASSUME B # {} PROVE FALSE
  <2>1. B \in SUBSET Nat OBVIOUS
  <2> DEFINE n == Min(B)
  <2>2. n \in B /\ \A y \in B : n <= y BY <1>1, <2>1, MinIsLeast, Zenon
  <2> HIDE DEF n
  <2>3. n \in 0..N /\ n \notin S BY <2>2
  <2>4. n # 0 BY <2>3
  <2>5. n \in 1..N /\ n - 1 \in 0..N /\ n - 1 < n BY <2>3, <2>4
  <2>6. n - 1 \notin B BY <2>2, <2>5
  <2>7. n - 1 \in S BY <2>5, <2>6
  <2> QED BY <2>3, <2>5, <2>7
<1> QED BY <1>1

-----------------------------------------------------------------------------
(* Concatenation of a list of sequences.                                      *)

\* FlattenSeq, one sequence after the other: h[k] is what the first k give.
LEMMA FlattenSteps ==
    ASSUME NEW X, NEW seqs \in Seq(Seq(X))
    PROVE  \E h \in [0..Len(seqs) -> Seq(X)] :
              /\ h[0] = <<>>
              /\ \A k \in 1..Len(seqs) : h[k] = h[k - 1] \o seqs[k]
              /\ FlattenSeq(seqs) = h[Len(seqs)]
<1> DEFINE n == Len(seqs)
<1>1. n \in Nat /\ \A i \in 1..n : seqs[i] \in Seq(X) BY LenProperties, ElementOfSeq
<1>2. <<>> \in Seq(X) BY EmptySeq
<1> HIDE DEF n
<1> DEFINE G == [x \in (0..n) \X Seq(X) |-> IF x[1] = 0 THEN <<>> ELSE x[2] \o seqs[x[1]]]
<1>3. G \in [(0..n) \X Seq(X) -> Seq(X)]
  <2>1. ASSUME NEW i \in 0..n, NEW s \in Seq(X), i # 0 PROVE s \o seqs[i] \in Seq(X)
    <3>1. seqs[i] \in Seq(X) BY <1>1, <2>1
    <3> QED BY <3>1, ConcatProperties
  <2> QED BY <1>2, <2>1
<1>4. PICK h \in [0..n -> Seq(X)] : Recurs(h, 0, n, <<>>, G)
  <2> HIDE DEF G
  <2>1. 0 \in Nat OBVIOUS
  <2> QED BY <1>1, <1>2, <1>3, <2>1, RecursionExists, Zenon
<1>5. \A k \in 0..n : h[k] = IF k = 0 THEN <<>> ELSE G[<<k, h[k - 1]>>] BY <1>4 DEF Recurs
<1>6. h[0] = <<>>
  <2> HIDE DEF G
  <2>1. 0 \in 0..n BY <1>1
  <2> QED BY <1>5, <2>1, Zenon
<1>7. ASSUME NEW k \in 1..n PROVE h[k] = h[k - 1] \o seqs[k]
  <2>1. k \in 0..n /\ k # 0 /\ k - 1 \in 0..n BY <1>1
  <2>2. h[k - 1] \in Seq(X) BY <1>4, <2>1
  <2>3. G[<<k, h[k - 1]>>] = h[k - 1] \o seqs[k] BY <2>1, <2>2
  <2> QED BY <1>5, <2>1, <2>3
<1> HIDE DEF G
<1>8. CASE n = 0
  <2>1. seqs = <<>> BY <1>8, EmptySeq DEF n
  <2> QED BY <1>4, <1>6, <1>7, <1>8, <2>1 DEF FlattenSeq, n
<1>9. CASE n # 0
  <2> DEFINE Is(f) == f = [i \in 1..n |-> IF i = 1 THEN seqs[i] ELSE f[i - 1] \o seqs[i]]
             flat == CHOOSE f : Is(f)
             e == [i \in 1..n |-> h[i]]
  <2>1. e[1] = seqs[1]
    <3>1. 1 \in 1..n /\ seqs[1] \in Seq(X) BY <1>1, <1>9
    <3>2. h[1] = h[1 - 1] \o seqs[1] BY <1>7, <3>1, Zenon
    <3>4. h[1 - 1] = <<>> BY <1>6
    <3>3. <<>> \o seqs[1] = seqs[1] BY <3>1, ConcatEmptySeq
    <3> QED BY <3>1, <3>2, <3>3, <3>4
  <2>2. \A i \in 1..n : e[i] = IF i = 1 THEN seqs[i] ELSE e[i - 1] \o seqs[i]
    <3>1. ASSUME NEW i \in 1..n, i # 1 PROVE e[i] = e[i - 1] \o seqs[i]
      <4>1. i - 1 \in 1..n BY <1>1, <3>1
      <4> QED BY <1>7, <4>1
    <3> HIDE DEF e
    <3> QED BY <2>1, <3>1
  <2>3. Is(e)
    <3>1. DOMAIN e = 1..n OBVIOUS
    <3>2. e = [i \in 1..n |-> e[i]] OBVIOUS
    <3> HIDE DEF e
    <3> QED BY <2>2, <3>2
  <2>4. Is(flat)
    <3> HIDE DEF Is, e
    <3> QED BY <2>3, Zenon
  <2>5. FlattenSeq(seqs) = flat[n] BY <1>9 DEF FlattenSeq, n
  <2> HIDE DEF flat
  <2>6. \A k \in 1..n : flat[k] = IF k = 1 THEN seqs[k] ELSE flat[k - 1] \o seqs[k] BY <2>4
  <2> DEFINE g == [k \in 0..n |-> IF k = 0 THEN <<>> ELSE flat[k]]
  <2>7. ASSUME NEW k \in 1..n, g[k - 1] = h[k - 1] PROVE g[k] = h[k]
    <3>1. k - 1 \in 0..n /\ k \in 0..n /\ k # 0 BY <1>1
    <3>2. g[k] = flat[k] BY <3>1
    <3>3. CASE k = 1
      <4>1. h[1] = seqs[1] BY <1>9, <1>1, <2>1
      <4> QED BY <2>6, <3>2, <3>3, <4>1
    <3>4. CASE k # 1
      <4>1. k - 1 # 0 /\ g[k - 1] = flat[k - 1] BY <3>1, <3>4
      <4>2. flat[k] = flat[k - 1] \o seqs[k] BY <2>6, <3>4
      <4> HIDE DEF g
      <4> QED BY <1>7, <2>7, <3>2, <4>1, <4>2
    <3> QED BY <3>3, <3>4
  <2>8. g[0] = h[0] BY <1>1, <1>6
  <2>9. g[n] = flat[n] BY <1>1, <1>9
  <2>10. g[n] = h[n]
    <3> HIDE DEF g
    <3>1. n \in Nat BY <1>1
    <3>2. \A k \in 1..n : g[k - 1] = h[k - 1] => g[k] = h[k] BY <2>7
    <3> DEFINE S == {k \in 0..n : g[k] = h[k]}
    <3>3. 0 \in S BY <2>8, <3>1
    <3>4. \A k \in 1..n : k - 1 \in S => k \in S
      <4>1. \A k \in 1..n : k \in 0..n BY <3>1
      <4> QED BY <3>2, <4>1
    <3> HIDE DEF S
    <3>5. \A k \in 0..n : k \in S BY <3>1, <3>3, <3>4, UptoInduction
    <3>6. n \in S BY <3>1, <3>5
    <3> QED BY <3>6 DEF S
  <2>11. FlattenSeq(seqs) = h[n] BY <2>5, <2>9, <2>10
  <2> QED BY <1>4, <1>6, <1>7, <2>11 DEF n
<1> QED BY <1>8, <1>9

\* The concatenation of sequences is a sequence.
LEMMA FlattenType ==
    ASSUME NEW X, NEW seqs \in Seq(Seq(X))
    PROVE  FlattenSeq(seqs) \in Seq(X)
<1> DEFINE n == Len(seqs)
<1>1. n \in 0..n
  <2>1. n \in Nat BY LenProperties
  <2> HIDE DEF n
  <2> QED BY <2>1
<1>2. PICK h \in [0..n -> Seq(X)] : FlattenSeq(seqs) = h[n] BY FlattenSteps
<1> HIDE DEF n
<1> QED BY <1>1, <1>2

\* One more sequence comes at the end.
LEMMA FlattenAppend ==
    ASSUME NEW X, NEW seqs \in Seq(Seq(X)), NEW s \in Seq(X)
    PROVE  FlattenSeq(Append(seqs, s)) = FlattenSeq(seqs) \o s
<1> DEFINE n == Len(seqs)
           more == Append(seqs, s)
<1>1. /\ n \in Nat /\ more \in Seq(Seq(X)) /\ Len(more) = n + 1
      /\ \A i \in 1..n : more[i] = seqs[i]
      /\ more[n + 1] = s
  BY LenProperties, AppendProperties
<1> HIDE DEF n, more
<1>2. PICK f \in [0..n -> Seq(X)] :
         /\ f[0] = <<>>
         /\ \A k \in 1..n : f[k] = f[k - 1] \o seqs[k]
         /\ FlattenSeq(seqs) = f[n]
  BY FlattenSteps DEF n
<1>3. PICK g \in [0..(n + 1) -> Seq(X)] :
         /\ g[0] = <<>>
         /\ \A k \in 1..(n + 1) : g[k] = g[k - 1] \o more[k]
         /\ FlattenSeq(more) = g[n + 1]
  <2>1. PICK g \in [0..Len(more) -> Seq(X)] :
         /\ g[0] = <<>>
         /\ \A k \in 1..Len(more) : g[k] = g[k - 1] \o more[k]
         /\ FlattenSeq(more) = g[Len(more)]
    BY <1>1, FlattenSteps, Zenon
  <2> QED BY <1>1, <2>1
<1>4. ASSUME NEW k \in 1..n, g[k - 1] = f[k - 1] PROVE g[k] = f[k]
  <2>1. k \in 1..(n + 1) BY <1>1
  <2> QED BY <1>1, <1>2, <1>3, <1>4, <2>1
<1>6. g[n] = f[n]
  <2> DEFINE S == {k \in 0..n : g[k] = f[k]}
  <2>1. n \in Nat /\ 0 \in S BY <1>1, <1>2, <1>3
  <2>2. \A k \in 1..n : k - 1 \in S => k \in S
    <3>1. \A k \in 1..n : k \in 0..n BY <1>1
    <3> QED BY <1>4, <3>1
  <2> HIDE DEF S
  <2>3. n \in S
    <3>1. \A k \in 0..n : k \in S BY <2>1, <2>2, UptoInduction
    <3> QED BY <2>1, <3>1
  <2> QED BY <2>3 DEF S
<1>7. n + 1 \in 1..(n + 1) /\ (n + 1) - 1 = n BY <1>1
<1>8. g[n + 1] = g[n] \o s BY <1>1, <1>3, <1>7
<1>9. FlattenSeq(more) = FlattenSeq(seqs) \o s
  <2>1. FlattenSeq(more) = g[n + 1] BY <1>3
  <2>2. FlattenSeq(seqs) = f[n] BY <1>2
  <2> QED BY <1>6, <1>8, <2>1, <2>2
<1> QED BY <1>9 DEF more

\* h goes on with the elements of e.
Concatenates(h, e, n) == \A k \in 1..n : h[k] = h[k - 1] \o e[k]

Extends(s, t, X) == \E w \in Seq(X) : s = t \o w

\* What was concatenated first stays in front.
LEMMA StepsArePrefixes ==
    ASSUME NEW X, NEW n \in Nat, NEW h \in [0..n -> Seq(X)], NEW e \in [1..n -> Seq(X)],
           NEW j \in 0..n, Concatenates(h, e, n)
    PROVE  \A k \in j..n : Extends(h[k], h[j], X)
<1>0. \A k \in 1..n : h[k] = h[k - 1] \o e[k] BY DEF Concatenates
<1> DEFINE P(k) == \E w \in Seq(X) : h[k] = h[j] \o w
           S == {k \in 0..n : k >= j => P(k)}
<1>1. h[j] \in Seq(X) /\ j \in Nat OBVIOUS
<1>2. P(j)
  <2>1. h[j] \o <<>> = h[j] BY <1>1, ConcatEmptySeq
  <2>2. <<>> \in Seq(X) BY EmptySeq
  <2> QED BY <2>1, <2>2
<1>3. ASSUME NEW k \in 1..n, P(k - 1) PROVE P(k)
  <2>1. PICK w \in Seq(X) : h[k - 1] = h[j] \o w BY <1>3
  <2>2. e[k] \in Seq(X) /\ h[k] = h[k - 1] \o e[k] BY <1>0
  <2> DEFINE a == h[j]
             b == e[k]
  <2>3. a \in Seq(X) /\ b \in Seq(X) BY <1>1, <2>2
  <2>4. h[k] = (a \o w) \o b BY <2>1, <2>2
  <2> HIDE DEF a, b
  <2>5. (a \o w) \o b = a \o (w \o b)
    <3>1. a \in Seq(X) /\ w \in Seq(X) /\ b \in Seq(X) BY <2>3
    <3> QED BY <3>1
  <2>6. w \o b \in Seq(X) BY <2>3, ConcatProperties
  <2>7. h[k] = a \o (w \o b) BY <2>4, <2>5
  <2> QED BY <2>6, <2>7 DEF a
<1>4. 0 \in S
  <2>1. 0 \in 0..n /\ (0 >= j => j = 0) BY <1>1
  <2> HIDE DEF P
  <2> QED BY <1>2, <2>1
<1>5. \A k \in 1..n : k - 1 \in S => k \in S
  <2> HIDE DEF P
  <2> SUFFICES ASSUME NEW k \in 1..n, k - 1 \in S PROVE k \in S OBVIOUS
  <2>1. k \in 0..n OBVIOUS
  <2>2. CASE k - 1 >= j
    <3>1. P(k - 1) BY <2>2
    <3> QED BY <1>3, <2>1, <3>1
  <2>3. CASE k = j BY <1>2, <2>1, <2>3
  <2>4. CASE k < j BY <1>1, <2>1, <2>4
  <2>5. k - 1 >= j \/ k = j \/ k < j BY <1>1
  <2> QED BY <2>2, <2>3, <2>4, <2>5
<1> HIDE DEF P, S
<1>6. \A k \in 0..n : k \in S BY <1>4, <1>5, UptoInduction
<1>7. \A k \in j..n : k \in 0..n /\ k >= j BY <1>1
<1>8. \A k \in j..n : P(k) BY <1>6, <1>7 DEF S
<1> QED BY <1>8 DEF P, Extends

\* A concatenation of three has no need of parentheses; named, so that it can be cited of
\* particular ones.
Associates(a, b, c) == (a \o b) \o c = a \o (b \o c)

LEMMA Associative ==
    ASSUME NEW X, NEW a \in Seq(X), NEW b \in Seq(X), NEW c \in Seq(X)
    PROVE  Associates(a, b, c)
<1>1. (a \o b) \o c = a \o (b \o c) BY ConcatAssociative
<1> QED BY <1>1 DEF Associates

=============================================================================
