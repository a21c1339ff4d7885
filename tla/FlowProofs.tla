----------------------------- MODULE FlowProofs -----------------------------
(***************************************************************************)
(* A flow of any number of nodes, connected in any way: every variable     *)
(* keeps its type, the two counters that decide when the resolution queue  *)
(* is closed agree with what the nodes do, the chunks of a stream are read *)
(* in order, and the flow is not done before every node has computed.      *)
(* Before it the arithmetic of generations for tuples of any length: the   *)
(* order is a total one, inc_generation() gives the least generation above *)
(* its argument, clip_generation() the greatest that does not exceed it,   *)
(* and stitched_generation() keeps the order.                              *)
(***************************************************************************)
EXTENDS Flow, SyncPrimitivesProofs, SequenceProofs

-----------------------------------------------------------------------------
(* The order.                                                                 *)

\* a comes before b: at the first position where they differ a has the smaller element, or
\* has an element and b has none.
Precedes(a, b) ==
    \E k \in 1..Len(a) :
        /\ k <= Len(b) + 1
        /\ \A i \in 1..(k - 1) : a[i] = b[i]
        /\ k <= Len(b) => a[k] < b[k]

\* A position that shows it.
LEMMA PrecedesAt ==
    ASSUME NEW a, NEW b, NEW k \in 1..Len(a), k <= Len(b) + 1,
           \A i \in 1..(k - 1) : a[i] = b[i],
           k <= Len(b) => a[k] < b[k]
    PROVE  Precedes(a, b)
BY Zenon DEF Precedes

\* What tuples are, position by position.
LEMMA Elements ==
    ASSUME NEW a \in Seq(Nat)
    PROVE  Len(a) \in Nat /\ DOMAIN a = 1..Len(a) /\ \A i \in 1..Len(a) : a[i] \in Nat
BY LenProperties, ElementOfSeq

\* A tuple does not come before itself, nor before one that comes before it; and of two
\* tuples one comes first.
LEMMA PrecedesOneWay ==
    ASSUME NEW a \in Seq(Nat), NEW b \in Seq(Nat), Precedes(a, b)
    PROVE  a # b /\ ~Precedes(b, a)
<1>1. Len(a) \in Nat /\ Len(b) \in Nat BY Elements
<1>2. /\ \A i \in 1..Len(a) : a[i] \in Nat
      /\ \A i \in 1..Len(b) : b[i] \in Nat
  BY Elements
<1>3. PICK k \in 1..Len(a) : /\ k <= Len(b) + 1
                             /\ \A i \in 1..(k - 1) : a[i] = b[i]
                             /\ k <= Len(b) => a[k] < b[k]
  BY DEF Precedes
<1>4. a # b BY <1>1, <1>2, <1>3
<1>5. ASSUME NEW j \in 1..Len(b), j <= Len(a) + 1, \A i \in 1..(j - 1) : b[i] = a[i],
             j <= Len(a) => b[j] < a[j]
      PROVE  FALSE
  <2>1. CASE j < k
    <3>1. j \in 1..(k - 1) /\ j <= Len(a) /\ j \in 1..Len(a) BY <1>1, <2>1
    <3> QED BY <1>2, <1>3, <1>5, <3>1
  <2>2. CASE k < j
    <3>1. k \in 1..(j - 1) /\ k <= Len(b) /\ k \in 1..Len(b) BY <1>1, <2>2
    <3> QED BY <1>2, <1>3, <1>5, <3>1
  <2>3. CASE j = k BY <1>1, <1>2, <1>3, <1>5, <2>3
  <2> QED BY <1>1, <2>1, <2>2, <2>3
<1> QED BY <1>4, <1>5 DEF Precedes

\* Two different tuples are in order, one way or the other.
LEMMA PrecedesTotal ==
    ASSUME NEW a \in Seq(Nat), NEW b \in Seq(Nat), a # b
    PROVE  Precedes(a, b) \/ Precedes(b, a)
<1>1. /\ Len(a) \in Nat /\ Len(b) \in Nat
      /\ \A i \in 1..Len(a) : a[i] \in Nat
      /\ \A i \in 1..Len(b) : b[i] \in Nat
  BY Elements
<1> DEFINE I == {i \in Nat \ {0} : \/ i \in 1..Len(a) /\ i \in 1..Len(b) /\ a[i] # b[i]
                                   \/ i = Len(a) + 1 /\ i <= Len(b)
                                   \/ i = Len(b) + 1 /\ i <= Len(a)}
<1>2. I # {}
  <2>1. CASE Len(a) = Len(b)
    <3>1. PICK i \in 1..Len(a) : a[i] # b[i] BY <2>1, SeqEqual
    <3>2. i \in I BY <1>1, <2>1, <3>1
    <3> QED BY <3>2
  <2>2. CASE Len(a) < Len(b)
    <3>1. Len(a) + 1 \in I BY <1>1, <2>2
    <3> QED BY <3>1
  <2>3. CASE Len(b) < Len(a)
    <3>1. Len(b) + 1 \in I BY <1>1, <2>3
    <3> QED BY <3>1
  <2> QED BY <1>1, <2>1, <2>2, <2>3
<1>3. I \in SUBSET Nat OBVIOUS
<1> DEFINE k == Min(I)
<1>4. k \in I /\ \A y \in I : k <= y
  <2> HIDE DEF I
  <2> QED BY <1>2, <1>3, MinIsLeast
<1> HIDE DEF k
<1>5. /\ k \in Nat \ {0}
      /\ \/ k \in 1..Len(a) /\ k \in 1..Len(b) /\ a[k] # b[k]
         \/ k = Len(a) + 1 /\ k <= Len(b)
         \/ k = Len(b) + 1 /\ k <= Len(a)
  BY <1>4
<1>6. k <= Len(a) + 1 /\ k <= Len(b) + 1 BY <1>1, <1>5
<1>7. ASSUME NEW i \in 1..(k - 1) PROVE a[i] = b[i]
  <2>1. i \notin I BY <1>4, <1>5
  <2> QED BY <1>1, <1>5, <1>6, <2>1
<1> HIDE DEF I
<1>8. CASE k \in 1..Len(a) /\ k \in 1..Len(b) /\ a[k] # b[k]
  <2>1. a[k] < b[k] \/ b[k] < a[k] BY <1>1, <1>8
  <2> QED BY <1>6, <1>7, <1>8, <2>1, PrecedesAt
<1>9. CASE k = Len(a) + 1 /\ k <= Len(b)
  <2>1. k \in 1..Len(b) /\ ~(k <= Len(a)) BY <1>1, <1>5, <1>9
  <2> QED BY <1>6, <1>7, <2>1, PrecedesAt
<1>10. CASE k = Len(b) + 1 /\ k <= Len(a)
  <2>1. k \in 1..Len(a) /\ ~(k <= Len(b)) BY <1>1, <1>5, <1>10
  <2> QED BY <1>6, <1>7, <2>1, PrecedesAt
<1> QED BY <1>5, <1>8, <1>9, <1>10

\* Python's order of tuples is transitive.
LEMMA PrecedesTransitive ==
    ASSUME NEW a \in Seq(Nat), NEW b \in Seq(Nat), NEW c \in Seq(Nat),
           Precedes(a, b), Precedes(b, c)
    PROVE  Precedes(a, c)
<1>1. /\ Len(a) \in Nat /\ Len(b) \in Nat /\ Len(c) \in Nat
      /\ \A i \in 1..Len(a) : a[i] \in Nat
      /\ \A i \in 1..Len(b) : b[i] \in Nat
      /\ \A i \in 1..Len(c) : c[i] \in Nat
  BY Elements
<1>2. PICK j \in 1..Len(a) : /\ j <= Len(b) + 1
                             /\ \A i \in 1..(j - 1) : a[i] = b[i]
                             /\ j <= Len(b) => a[j] < b[j]
  BY DEF Precedes
<1>3. PICK k \in 1..Len(b) : /\ k <= Len(c) + 1
                             /\ \A i \in 1..(k - 1) : b[i] = c[i]
                             /\ k <= Len(c) => b[k] < c[k]
  BY DEF Precedes
<1> DEFINE m == IF j < k THEN j ELSE k
<1>4. m \in 1..Len(a) /\ m <= Len(c) + 1 BY SMTT(60), <1>1, <1>2, <1>3
<1>5. ASSUME NEW i \in 1..(m - 1) PROVE a[i] = c[i]
  <2>1. i \in 1..(j - 1) /\ i \in 1..(k - 1) BY SMTT(60), <1>1, <1>2, <1>3
  <2> QED BY <1>2, <1>3, <2>1
<1>6. ASSUME m <= Len(c) PROVE a[m] < c[m]
  <2>1. CASE j < k
    <3>1. /\ j \in 1..(k - 1) /\ j \in 1..Len(b) /\ j \in 1..Len(c) /\ m = j
      BY <1>1, <1>2, <1>3, <1>6, <2>1
    <3>2. a[j] < b[j] /\ b[j] = c[j] BY <1>1, <1>2, <1>3, <3>1
    <3> HIDE DEF m
    <3> QED BY <3>1, <3>2
  <2>2. CASE k < j
    <3>1. k \in 1..(j - 1) /\ k \in 1..Len(a) /\ k \in 1..Len(c) /\ m = k
      BY <1>1, <1>2, <1>3, <1>6, <2>2
    <3>2. a[k] = b[k] /\ b[k] < c[k] BY <1>1, <1>2, <1>3, <3>1
    <3> HIDE DEF m
    <3> QED BY <3>1, <3>2
  <2>3. CASE k = j
    <3>1. k \in 1..Len(a) /\ k \in 1..Len(b) /\ k \in 1..Len(c) /\ m = k
      BY <1>1, <1>2, <1>3, <1>6, <2>3
    <3>2. a[k] < b[k] /\ b[k] < c[k] BY <1>1, <1>2, <1>3, <2>3, <3>1
    <3>4. a[k] \in Nat /\ b[k] \in Nat /\ c[k] \in Nat BY <1>1, <3>1
    <3> HIDE DEF m
    <3>3. a[k] < c[k] BY SMTT(60), <3>2, <3>4
    <3> QED BY <3>1, <3>3
  <2> QED BY <1>1, <1>2, <1>3, <2>1, <2>2, <2>3
<1> HIDE DEF m
<1> QED BY <1>4, <1>5, <1>6 DEF Precedes

\* cmp_generation() decides by this order.
LEMMA CmpDecides ==
    ASSUME NEW a \in Seq(Nat), NEW b \in Seq(Nat)
    PROVE  CmpGeneration(a, b) = IF a = b THEN 0 ELSE IF Precedes(a, b) THEN -1 ELSE 1
<1>1. /\ Len(a) \in Nat /\ Len(b) \in Nat
      /\ DOMAIN a = 1..Len(a) /\ DOMAIN b = 1..Len(b)
      /\ \A i \in 1..Len(a) : a[i] \in Nat
      /\ \A i \in 1..Len(b) : b[i] \in Nat
  BY Elements
<1>2. a # None /\ b # None BY NoneAssumption
<1> DEFINE D == {i \in DOMAIN a \cap DOMAIN b : a[i] # b[i]}
<1>3. CmpGeneration(a, b) =
        IF a = b THEN 0
        ELSE IF D = {} THEN IF Len(a) < Len(b) THEN 1 ELSE -1
        ELSE IF a[Min(D)] < b[Min(D)] THEN -1 ELSE 1
  BY <1>2 DEF CmpGeneration
<1>4. CASE a # b /\ D = {}
  <2>1. \A i \in 1..Len(a) : i <= Len(b) => a[i] = b[i]
    <3> SUFFICES ASSUME NEW i \in 1..Len(a), i <= Len(b) PROVE a[i] = b[i] OBVIOUS
    <3>1. i \in DOMAIN a /\ i \in DOMAIN b BY <1>1
    <3> QED BY <1>4, <3>1
  <2>2. Len(a) # Len(b) BY <1>1, <1>4, <2>1, SeqEqual
  <2>3. CASE Len(a) < Len(b)
    <3>1. ~Precedes(a, b) BY <1>1, <2>1, <2>3 DEF Precedes
    <3> QED BY <1>3, <1>4, <2>3, <3>1
  <2>4. CASE Len(b) < Len(a)
    <3> DEFINE k == Len(b) + 1
    <3>1. k \in 1..Len(a) /\ k <= Len(b) + 1 /\ ~(k <= Len(b)) BY <1>1, <2>4
    <3>2. \A i \in 1..(k - 1) : a[i] = b[i] BY <1>1, <2>1, <2>4
    <3> HIDE DEF k
    <3>3. Precedes(a, b) BY <3>1, <3>2 DEF Precedes
    <3>4. ~(Len(a) < Len(b)) BY <1>1, <2>4
    <3> QED BY <1>3, <1>4, <3>3, <3>4
  <2> HIDE DEF D
  <2>5. Len(a) < Len(b) \/ Len(b) < Len(a)
    <3>1. Len(a) \in Nat /\ Len(b) \in Nat BY <1>1
    <3> QED BY <2>2, <3>1
  <2> QED BY <2>3, <2>4, <2>5, Zenon
<1>5. CASE a # b /\ D # {}
  <2> DEFINE k == Min(D)
  <2>1. D \in SUBSET Nat BY <1>1
  <2>2. k \in D /\ \A y \in D : k <= y
    <3> HIDE DEF D
    <3> QED BY <1>5, <2>1, MinIsLeast
  <2> HIDE DEF k
  <2>3. k \in 1..Len(a) /\ k \in 1..Len(b) /\ a[k] # b[k] BY <1>1, <2>2
  <2>4. \A i \in 1..(k - 1) : a[i] = b[i]
    <3> SUFFICES ASSUME NEW i \in 1..(k - 1) PROVE a[i] = b[i] OBVIOUS
    <3>1. i \notin D BY <2>2, <2>3
    <3> QED BY <1>1, <2>3, <3>1
  <2> HIDE DEF D
  <2>9. k <= Len(a) + 1 /\ k <= Len(b) + 1 BY <1>1, <2>3
  <2>5. a[k] < b[k] => Precedes(a, b) BY <2>3, <2>4, <2>9, PrecedesAt
  <2>6. ~(a[k] < b[k]) => Precedes(b, a)
    <3>1. ASSUME ~(a[k] < b[k]) PROVE b[k] < a[k] BY <1>1, <2>3, <3>1
    <3> QED BY <2>3, <2>4, <2>9, <3>1, PrecedesAt
  <2>7. Precedes(b, a) => ~Precedes(a, b) BY PrecedesOneWay
  <2>8. CmpGeneration(a, b) = IF a[k] < b[k] THEN -1 ELSE 1 BY <1>3, <1>5 DEF k
  <2> QED BY <1>5, <2>5, <2>6, <2>7, <2>8
<1> QED BY <1>3, <1>4, <1>5

\* cmp_generation() is a total order on the generations, None included: the solver may
\* compare any two of them in any order.
THEOREM OrderIsTotal ==
    /\ \A a, b \in Generation : /\ CmpGeneration(a, b) \in {-1, 0, 1}
                                /\ CmpGeneration(a, b) = 0 <=> a = b
                                /\ CmpGeneration(b, a) = -CmpGeneration(a, b)
    /\ \A a, b, c \in Generation :
          CmpGeneration(a, b) <= 0 /\ CmpGeneration(b, c) <= 0 => CmpGeneration(a, c) <= 0
<1>1. \A a \in Generation : a \in Seq(Nat) \/ a = None BY DEF Generation
<1>2. \A b \in Generation : /\ CmpGeneration(None, b) = IF b = None THEN 0 ELSE -1
                            /\ CmpGeneration(b, None) = IF b = None THEN 0 ELSE 1
  BY DEF CmpGeneration
<1>3. \A a, b \in Seq(Nat) :
         CmpGeneration(a, b) = IF a = b THEN 0 ELSE IF Precedes(a, b) THEN -1 ELSE 1
  BY CmpDecides
<1>4. \A a \in Seq(Nat) : a # None BY NoneAssumption
<1>5. ASSUME NEW a \in Generation, NEW b \in Generation
      PROVE  /\ CmpGeneration(a, b) \in {-1, 0, 1}
             /\ CmpGeneration(a, b) = 0 <=> a = b
             /\ CmpGeneration(b, a) = -CmpGeneration(a, b)
  <2>1. CASE a = None \/ b = None BY <1>2, <2>1
  <2>2. CASE a \in Seq(Nat) /\ b \in Seq(Nat)
    <3>1. a # b => (Precedes(a, b) <=> ~Precedes(b, a))
      BY <2>2, PrecedesOneWay, PrecedesTotal
    <3> QED BY <1>3, <2>2, <3>1
  <2> QED BY <1>1, <2>1, <2>2
<1>6. ASSUME NEW a \in Generation, NEW b \in Generation, NEW c \in Generation,
             CmpGeneration(a, b) <= 0, CmpGeneration(b, c) <= 0
      PROVE  CmpGeneration(a, c) <= 0
  <2>1. CASE a = None BY <1>2, <2>1
  <2>2. CASE a # None
    <3>1. b # None BY <1>2, <1>6, <2>2
    <3>2. c # None BY <1>2, <1>6, <3>1
    <3>3. a \in Seq(Nat) /\ b \in Seq(Nat) /\ c \in Seq(Nat) BY <1>1, <2>2, <3>1, <3>2
    <3>4. /\ a = b \/ Precedes(a, b)
          /\ b = c \/ Precedes(b, c)
      BY <1>3, <1>6, <3>3
    <3>5. a = c \/ Precedes(a, c) BY <3>3, <3>4, PrecedesTransitive
    <3> QED BY <1>3, <3>3, <3>5
  <2> QED BY <2>1, <2>2
<1> QED BY <1>5, <1>6

-----------------------------------------------------------------------------
(* The next generation.                                                       *)

\* What a padded prefix is.
LEMMA PaddedElements ==
    ASSUME NEW g \in Seq(Nat), NEW k \in Nat, NEW level \in Nat
    PROVE  /\ Padded(g, k, level) \in Seq(Nat) /\ Len(Padded(g, k, level)) = level + 1
           /\ \A i \in 1..(level + 1) :
                 Padded(g, k, level)[i] = IF i <= k /\ i <= Len(g) THEN g[i] ELSE 0
<1>1. Len(g) \in Nat /\ \A i \in 1..Len(g) : g[i] \in Nat BY Elements
<1> DEFINE p == Padded(g, k, level)
<1>2. \A i \in 1..(level + 1) : p[i] = IF i <= k /\ i <= Len(g) THEN g[i] ELSE 0 BY DEF Padded
<1>3. \A i \in 1..(level + 1) : p[i] \in Nat
  <2> HIDE DEF p
  <2> SUFFICES ASSUME NEW i \in 1..(level + 1) PROVE p[i] \in Nat OBVIOUS
  <2>1. i <= Len(g) => i \in 1..Len(g) BY <1>1
  <2> QED BY <1>1, <1>2, <2>1
<1>4. p = [i \in 1..(level + 1) |-> p[i]] BY DEF Padded
<1> HIDE DEF p
<1>5. p \in [1..(level + 1) -> Nat] BY <1>3, <1>4
<1>6. level + 1 \in Nat OBVIOUS
<1>7. p \in Seq(Nat) BY <1>5, <1>6, SeqDef
<1>8. Len(p) \in Nat /\ 1..Len(p) = 1..(level + 1) BY <1>5, <1>7, LenProperties
<1>9. Len(p) = level + 1 BY <1>8
<1> QED BY <1>2, <1>7, <1>9 DEF p

\* What a raised prefix is.
LEMMA RaisedElements ==
    ASSUME NEW g \in Seq(Nat), NEW level \in Nat, NEW k \in 1..(level + 1)
    PROVE  LET r == [Padded(g, k, level) EXCEPT ![k] = @ + 1] IN
           /\ r \in Seq(Nat) /\ Len(r) = level + 1
           /\ \A i \in 1..(level + 1) :
                 r[i] = IF i = k THEN (IF k <= Len(g) THEN g[k] ELSE 0) + 1
                        ELSE IF i < k /\ i <= Len(g) THEN g[i] ELSE 0
<1> DEFINE p == Padded(g, k, level)
           r == [p EXCEPT ![k] = @ + 1]
<1>1. /\ p \in Seq(Nat) /\ Len(p) = level + 1
      /\ \A i \in 1..(level + 1) : p[i] = IF i <= k /\ i <= Len(g) THEN g[i] ELSE 0
  <2>1. k \in Nat OBVIOUS
  <2> QED BY <2>1, PaddedElements
<1>2. DOMAIN p = 1..(level + 1) /\ p[k] \in Nat BY <1>1, Elements
<1> HIDE DEF p
<1>3. r \in Seq(Nat) /\ Len(r) = level + 1
  <2>1. p[k] + 1 \in Nat /\ k \in 1..Len(p) BY <1>1, <1>2
  <2> QED BY <1>1, <2>1, ExceptSeq
<1>4. \A i \in 1..(level + 1) : r[i] = IF i = k THEN p[k] + 1 ELSE p[i] BY <1>2
<1> HIDE DEF r
<1>5. \A i \in 1..(level + 1) :
         r[i] = IF i = k THEN (IF k <= Len(g) THEN g[k] ELSE 0) + 1
                ELSE IF i < k /\ i <= Len(g) THEN g[i] ELSE 0
  BY <1>1, <1>4
<1> QED BY <1>3, <1>5 DEF r, p

\* "Computes the minimal generation greater than gen" (inc_generation): of all generations
\* of the run level it is above g, and none of them lies between.  Of the empty tuple,
\* which no node has, there is none: the code raises.
THEOREM IncIsLeastAbove ==
    ASSUME NEW g \in Generation \ {<<>>}, NEW level \in Nat
    PROVE  LET n == IncGeneration(g, level) IN
           /\ n \in Seq(Nat) /\ Len(n) = level + 1
           /\ CmpGeneration(n, g) > 0
           /\ \A h \in Seq(Nat) :
                 Len(h) = level + 1 /\ CmpGeneration(h, g) > 0 => CmpGeneration(n, h) <= 0
<1> DEFINE top == level + 1
<1>1. top \in Nat /\ top > 0 /\ 0 \in Nat OBVIOUS
<1>2. \A a, b \in Seq(Nat) :
         CmpGeneration(a, b) = IF a = b THEN 0 ELSE IF Precedes(a, b) THEN -1 ELSE 1
  BY CmpDecides
<1>3. ASSUME NEW n \in Seq(Nat), NEW h \in Seq(Nat), Precedes(h, n) => FALSE
      PROVE  CmpGeneration(n, h) <= 0
  BY <1>2, <1>3, PrecedesTotal
<1>4. CASE g = None
  <2> DEFINE n == Padded(<<>>, 0, level)
  <2>1. IncGeneration(g, level) = n BY <1>4 DEF IncGeneration
  <2>2. /\ n \in Seq(Nat) /\ Len(n) = top
        /\ \A i \in 1..top : n[i] = 0
    <3> DEFINE e == <<>>
    <3>1. e \in Seq(Nat) BY EmptySeq
    <3>3. n = Padded(e, 0, level) OBVIOUS
    <3> HIDE DEF e, n
    <3>2. /\ n \in Seq(Nat) /\ Len(n) = level + 1
          /\ \A i \in 1..(level + 1) : n[i] = IF i <= 0 /\ i <= Len(e) THEN e[i] ELSE 0
      BY <1>1, <3>1, <3>3, PaddedElements
    <3> QED BY <3>2
  <2> HIDE DEF n
  <2>3. CmpGeneration(n, g) > 0
    <3>1. n # None BY <2>2, NoneAssumption
    <3> QED BY <1>4, <3>1 DEF CmpGeneration
  <2>4. ASSUME NEW h \in Seq(Nat), Len(h) = top, Precedes(h, n) PROVE FALSE
    <3>1. PICK j \in 1..Len(h) : j <= Len(n) => h[j] < n[j] BY <2>4 DEF Precedes
    <3>2. h[j] \in Nat /\ h[j] < 0 BY <2>2, <2>4, <3>1, Elements
    <3> QED BY <3>2
  <2> QED BY <1>3, <2>1, <2>2, <2>3, <2>4
<1>5. CASE g # None
  <2>1. g \in Seq(Nat) /\ g # <<>> BY <1>5 DEF Generation
  <2> DEFINE s == Len(g)
             part == Padded(g, top, level)
             Raised(k) == [Padded(g, k, level) EXCEPT ![k] = @ + 1]
             higher == {k \in 1..top : CmpGeneration(Raised(k), g) > 0}
  <2>2. s \in Nat \ {0} /\ \A i \in 1..s : g[i] \in Nat BY <2>1, Elements, EmptySeq
  <2>3. IncGeneration(g, level) =
          IF CmpGeneration(part, g) > 0 THEN part ELSE Raised(Max(higher))
    BY <1>5 DEF IncGeneration
  <2>4. /\ part \in Seq(Nat) /\ Len(part) = top
        /\ \A i \in 1..top : part[i] = IF i <= s THEN g[i] ELSE 0
    <3>1. /\ part \in Seq(Nat) /\ Len(part) = level + 1
          /\ \A i \in 1..(level + 1) : part[i] = IF i <= top /\ i <= s THEN g[i] ELSE 0
      BY <1>1, <2>1, PaddedElements, Zenon
    <3> HIDE DEF part, s
    <3> QED BY <3>1
  <2>5. \A k \in 1..top :
          /\ Raised(k) \in Seq(Nat) /\ Len(Raised(k)) = top
          /\ \A i \in 1..top :
                Raised(k)[i] = IF i = k THEN (IF k <= s THEN g[k] ELSE 0) + 1
                               ELSE IF i < k /\ i <= s THEN g[i] ELSE 0
    BY <2>1, RaisedElements
  <2> HIDE DEF part, Raised, s, top
  <2>6. CASE s > top
    <3>1. Precedes(g, part)
      <4>1. top + 1 \in 1..Len(g) /\ top + 1 <= Len(part) + 1 /\ ~(top + 1 <= Len(part))
        BY <1>1, <2>2, <2>4, <2>6 DEF s
      <4>2. \A i \in 1..((top + 1) - 1) : g[i] = part[i] BY <1>1, <2>2, <2>4, <2>6
      <4> QED BY <4>1, <4>2, PrecedesAt
    <3>2. CmpGeneration(part, g) > 0 BY <1>2, <2>1, <2>4, <3>1, PrecedesOneWay
    <3>3. ASSUME NEW h \in Seq(Nat), Len(h) = top, CmpGeneration(h, g) > 0, Precedes(h, part)
          PROVE  FALSE
      <4>1. PICK j \in 1..Len(h) : /\ \A i \in 1..(j - 1) : h[i] = part[i]
                                   /\ j <= Len(part) => h[j] < part[j]
        BY <3>3 DEF Precedes
      <4>2. j \in 1..top /\ j <= s /\ j <= s + 1 BY <1>1, <2>2, <2>6, <3>3
      <4>3. h[j] < g[j] BY <2>4, <4>1, <4>2
      <4>4. \A i \in 1..(j - 1) : h[i] = g[i]
        <5> SUFFICES ASSUME NEW i \in 1..(j - 1) PROVE h[i] = g[i] OBVIOUS
        <5>1. i \in 1..top /\ i <= s BY <1>1, <2>2, <4>2
        <5> QED BY <2>4, <4>1, <5>1
      <4>5. Precedes(h, g) BY <4>2, <4>3, <4>4, PrecedesAt DEF s
      <4> QED BY <1>2, <2>1, <3>3, <4>5, PrecedesOneWay
    <3> QED BY <1>3, <2>3, <2>4, <3>2, <3>3 DEF top
  <2>7. CASE s <= top
    <3>1. ~(CmpGeneration(part, g) > 0)
      <4>1. CASE s = top
        <5>1. Len(part) = Len(g) /\ \A i \in 1..Len(part) : part[i] = g[i]
          BY <1>1, <2>2, <2>4, <4>1 DEF s
        <5>2. part = g BY <2>1, <2>4, <5>1, SeqEqual
        <5> QED BY <1>2, <2>1, <5>2
      <4>2. CASE s < top
        <5>1. s + 1 \in 1..Len(part) /\ s + 1 <= Len(g) + 1 /\ ~(s + 1 <= Len(g))
          BY <1>1, <2>2, <2>4, <4>2 DEF s
        <5>2. \A i \in 1..((s + 1) - 1) : part[i] = g[i] BY <1>1, <2>2, <2>4, <2>7
        <5>3. Precedes(part, g) BY <5>1, <5>2, PrecedesAt
        <5> QED BY <1>2, <2>1, <2>4, <5>3
      <4> QED BY <1>1, <2>2, <2>7, <4>1, <4>2
    <3>2. s \in higher
      <4>1. s \in 1..top BY <1>1, <2>2, <2>7
      <4>2. /\ Raised(s) \in Seq(Nat) /\ Len(Raised(s)) = top
            /\ \A i \in 1..(s - 1) : g[i] = Raised(s)[i]
            /\ g[s] < Raised(s)[s]
        <5>1. /\ Raised(s) \in Seq(Nat) /\ Len(Raised(s)) = top
              /\ \A i \in 1..top :
                    Raised(s)[i] = IF i = s THEN (IF s <= s THEN g[s] ELSE 0) + 1
                                   ELSE IF i < s /\ i <= s THEN g[i] ELSE 0
          BY <2>5, <4>1
        <5>2. Raised(s)[s] = g[s] + 1 /\ g[s] \in Nat BY <2>2, <4>1, <5>1
        <5>3. \A i \in 1..(s - 1) : g[i] = Raised(s)[i] BY <1>1, <2>2, <4>1, <5>1
        <5> QED BY <5>1, <5>2, <5>3
      <4>3. s \in 1..Len(g) /\ s <= Len(Raised(s)) + 1 BY <1>1, <2>2, <2>7, <4>2 DEF s
      <4>4. Precedes(g, Raised(s)) BY <4>2, <4>3, PrecedesAt
      <4>5. CmpGeneration(Raised(s), g) > 0 BY <1>2, <2>1, <4>2, <4>4, PrecedesOneWay
      <4> QED BY <4>1, <4>5
    <3>3. ASSUME NEW k \in higher PROVE k <= s
      <4> SUFFICES ASSUME ~(k <= s) PROVE FALSE OBVIOUS
      <4>1. k \in 1..top /\ CmpGeneration(Raised(k), g) > 0 OBVIOUS
      <4>2. s + 1 \in 1..top /\ s + 1 <= k BY <1>1, <2>2, <4>1
      <4>3. /\ s + 1 \in 1..Len(Raised(k)) /\ s + 1 <= Len(g) + 1 /\ ~(s + 1 <= Len(g))
        BY <1>1, <2>2, <2>5, <4>1, <4>2 DEF s
      <4>4. \A i \in 1..((s + 1) - 1) : Raised(k)[i] = g[i]
        BY <1>1, <2>2, <2>5, <4>1, <4>2
      <4>5. Precedes(Raised(k), g) BY <4>3, <4>4, PrecedesAt
      <4> QED BY <1>2, <2>1, <2>5, <4>1, <4>5
    <3>4. Max(higher) = s
      <4>1. higher \in SUBSET (0..top) /\ higher \subseteq Nat BY <1>1
      <4> HIDE DEF higher
      <4>2. Max(higher) \in higher /\ \A y \in higher : Max(higher) >= y
        BY <1>1, <3>2, <4>1, MaxIsGreatest
      <4>3. Max(higher) \in Nat BY <4>1, <4>2
      <4>4. Max(higher) >= s /\ Max(higher) <= s BY <3>2, <3>3, <4>2
      <4> QED BY <2>2, <4>3, <4>4
    <3> DEFINE n == Raised(s)
    <3>5. IncGeneration(g, level) = n /\ CmpGeneration(n, g) > 0
      BY <2>3, <3>1, <3>2, <3>4
    <3>6. /\ s \in 1..top /\ n \in Seq(Nat) /\ Len(n) = top
          /\ \A i \in 1..top : n[i] = IF i = s THEN g[s] + 1 ELSE IF i < s THEN g[i] ELSE 0
      BY <1>1, <2>2, <2>5, <2>7
    <3> HIDE DEF n, higher
    <3>7. ASSUME NEW h \in Seq(Nat), Len(h) = top, CmpGeneration(h, g) > 0, Precedes(h, n)
          PROVE  FALSE
      <4>1. Precedes(g, h) BY <1>2, <2>1, <3>7, PrecedesTotal
      <4>2. PICK k \in 1..s : /\ \A i \in 1..(k - 1) : g[i] = h[i]
                              /\ k <= Len(h) => g[k] < h[k]
        BY <4>1 DEF Precedes, s
      <4>3. PICK j \in 1..top : /\ \A i \in 1..(j - 1) : h[i] = n[i]
                                /\ h[j] < n[j]
        <5>1. PICK j \in 1..Len(h) : /\ \A i \in 1..(j - 1) : h[i] = n[i]
                                     /\ j <= Len(n) => h[j] < n[j]
          BY <3>7 DEF Precedes
        <5> QED BY <1>1, <3>6, <3>7, <5>1
      <4>4. k \in 1..top /\ g[k] < h[k] BY <1>1, <2>2, <2>7, <3>7, <4>2
      <4>5. \A i \in 1..top : h[i] \in Nat BY <3>7, Elements
      <4>6. CASE j < k
        <5>1. j \in 1..(k - 1) /\ j < s BY <2>2, <4>2, <4>3, <4>6
        <5>2. h[j] = g[j] /\ n[j] = g[j] BY <3>6, <4>2, <4>3, <5>1
        <5> QED BY <4>3, <4>5, <5>2
      <4>7. CASE j = k
        <5>1. n[k] <= g[k] + 1 /\ g[k] \in Nat BY SMTT(60), <2>2, <3>6, <4>2, <4>4
        <5>2. k < s => n[k] = g[k] BY <2>2, <3>6, <4>2, <4>4
        <5>3. h[k] < n[k] /\ h[k] \in Nat BY <4>3, <4>4, <4>5, <4>7
        <5>4. n[k] \in Nat BY <3>6, <4>4, Elements
        <5> QED BY <4>4, <5>1, <5>3, <5>4
      <4>8. CASE k < j
        <5>1. k \in 1..(j - 1) BY <4>2, <4>3, <4>8
        <5>2. h[k] = n[k] BY <4>3, <5>1
        <5>3. ~(k < s)
          <6>1. k < s => n[k] = g[k] BY <2>2, <3>6, <4>4
          <6>2. g[k] \in Nat BY <2>2, <4>2
          <6> QED BY <4>4, <5>2, <6>1, <6>2
        <5>4. s < j BY <2>2, <4>2, <4>3, <4>8, <5>3
        <5>5. n[j] = 0 BY <2>2, <3>6, <4>3, <5>4
        <5> QED BY <4>3, <4>5, <5>5
      <4> QED BY <4>2, <4>3, <4>6, <4>7, <4>8
    <3> QED BY <1>3, <3>5, <3>6, <3>7 DEF top
  <2> QED BY <1>1, <2>2, <2>6, <2>7
<1> QED BY <1>4, <1>5

-----------------------------------------------------------------------------
(* The clipped generation.                                                    *)

\* The elements of a tuple have a bound.
LEMMA ElementsBounded ==
    ASSUME NEW g \in Seq(Nat)
    PROVE  \E n \in Nat : \A i \in 1..Len(g) : g[i] <= n
<1>1. Len(g) \in Nat /\ \A i \in 1..Len(g) : g[i] \in Nat BY Elements
<1> DEFINE Bounds(k) == \E n \in Nat : \A i \in 1..k : g[i] <= n
           B == {k \in 0..Len(g) : ~Bounds(k)}
<1>2. SUFFICES ASSUME B # {} PROVE FALSE
  <2>1. Len(g) \in 0..Len(g) BY <1>1
  <2> QED BY <2>1
<1>3. B \in SUBSET Nat BY <1>1
<1> DEFINE k == Min(B)
<1>4. k \in B /\ \A y \in B : k <= y
  <2> HIDE DEF B
  <2> QED BY <1>2, <1>3, MinIsLeast
<1> HIDE DEF k
<1>5. k \in 0..Len(g) /\ ~Bounds(k) BY <1>4
<1>6. k # 0
  <2>1. \A i \in 1..0 : g[i] <= 0 OBVIOUS
  <2>2. 0 \in Nat OBVIOUS
  <2> QED BY <1>5, <2>1, <2>2
<1>7. k \in Nat /\ k - 1 \in 0..Len(g) /\ ~(k <= k - 1) BY <1>1, <1>5, <1>6
<1>12. k - 1 \notin B
  <2> HIDE DEF B
  <2> QED BY <1>4, <1>7
<1>8. PICK n \in Nat : \A i \in 1..(k - 1) : g[i] <= n BY <1>7, <1>12
<1>9. k \in 1..Len(g) /\ g[k] \in Nat BY <1>1, <1>5, <1>6
<1> DEFINE m == IF g[k] <= n THEN n ELSE g[k]
<1>10. m \in Nat /\ n <= m /\ g[k] <= m BY <1>9
<1>11. ASSUME NEW i \in 1..k PROVE g[i] <= m
  <2>1. i \in 1..(k - 1) \/ i = k BY <1>9
  <2>2. i \in 1..Len(g) /\ g[i] \in Nat BY <1>1, <1>9
  <2> HIDE DEF m
  <2> QED BY <1>8, <1>10, <2>1, <2>2
<1> HIDE DEF m
<1> QED BY <1>5, <1>10, <1>11

\* What a lowered prefix is.
LEMMA LoweredElements ==
    ASSUME NEW g \in Seq(Nat), NEW k \in 1..Len(g), NEW v \in Nat
    PROVE  LET c == [SubSeq(g, 1, k) EXCEPT ![k] = v] IN
           /\ c \in Seq(Nat) /\ Len(c) = k
           /\ \A i \in 1..k : c[i] = IF i = k THEN v ELSE g[i]
<1> DEFINE q == SubSeq(g, 1, k)
           c == [q EXCEPT ![k] = v]
<1>1. Len(g) \in Nat /\ \A i \in 1..Len(g) : g[i] \in Nat BY Elements
<1>2. q \in Seq(Nat) /\ Len(q) = k /\ \A i \in 1..k : q[i] = g[i]
  <2>1. \A i \in 1..k : g[i] \in Nat BY <1>1
  <2>2. 1 \in Int /\ k \in Int /\ 1 <= k /\ k - 1 + 1 = k BY <1>1
  <2>3. /\ q \in Seq(Nat)
        /\ Len(q) = IF 1 <= k THEN k - 1 + 1 ELSE 0
        /\ \A i \in 1..k - 1 + 1 : q[i] = g[1 + i - 1]
    BY <2>1, <2>2, SubSeqProperties
  <2> HIDE DEF q
  <2>4. Len(q) = k BY <2>2, <2>3
  <2>5. ASSUME NEW i \in 1..k PROVE q[i] = g[i]
    <3>1. 1 + i - 1 = i /\ i \in 1..k - 1 + 1 BY <2>2
    <3> QED BY <2>3, <3>1
  <2> QED BY <2>3, <2>4, <2>5
<1>3. DOMAIN q = 1..k BY <1>2, Elements
<1> HIDE DEF q
<1>4. c \in Seq(Nat) /\ Len(c) = k
  <2>1. k \in 1..Len(q) BY <1>2
  <2> QED BY <1>2, <2>1, ExceptSeq
<1>5. \A i \in 1..k : c[i] = IF i = k THEN v ELSE g[i] BY <1>2, <1>3
<1> QED BY <1>4, <1>5 DEF c, q

\* The "highest generation (according to cmp_generation) that is less than or equal to gen
\* and has a length of at most run_level + 1" (clip_generation).
THEOREM ClipIsGreatestBelow ==
    ASSUME NEW g \in Generation, NEW level \in Nat
    PROVE  LET c == ClipGeneration(g, level)
               Fits(h) == (h = None \/ Len(h) <= level + 1) /\ CmpGeneration(h, g) <= 0
           IN  /\ c \in Generation /\ Fits(c)
               /\ \A h \in Generation : Fits(h) => CmpGeneration(h, c) <= 0
<1> DEFINE top == level + 1
           s == Len(g)
           Fits(h) == (h = None \/ Len(h) <= top) /\ CmpGeneration(h, g) <= 0
           c == ClipGeneration(g, level)
<1>1. top \in Nat /\ top > 0 OBVIOUS
<1>2. \A a, b \in Seq(Nat) :
         CmpGeneration(a, b) = IF a = b THEN 0 ELSE IF Precedes(a, b) THEN -1 ELSE 1
  BY CmpDecides
<1>3. \A b \in Generation : /\ CmpGeneration(None, b) <= 0
                            /\ CmpGeneration(b, b) = 0
                            /\ b # None => b \in Seq(Nat)
  BY DEF CmpGeneration, Generation
<1>4. None \in Generation /\ \A b \in Seq(Nat) : b # None /\ b \in Generation
  BY NoneAssumption DEF Generation
<1>5. CASE g = None \/ s <= top
  <2>1. c = g BY <1>5 DEF ClipGeneration
  <2> HIDE DEF c
  <2> QED BY <1>3, <1>5, <2>1 DEF c
<1>6. CASE g # None /\ ~(s <= top)
  <2>1. g \in Seq(Nat) BY <1>3, <1>6
  <2> DEFINE Lowered(k, v) == [SubSeq(g, 1, k) EXCEPT ![k] = v]
             M == Max(ToSet(g))
             fits == {kv \in {<<k, v>> : k \in 1..top, v \in 0..M} :
                         /\ kv[2] <= g[kv[1]]
                         /\ CmpGeneration(Lowered(kv[1], kv[2]), g) <= 0}
             K == {kv[1] : kv \in fits}
             k1 == Max(K)
             V == {kv[2] : kv \in {f \in fits : f[1] = k1}}
             v1 == Max(V)
  <2>2. c = IF fits = {} THEN None ELSE Lowered(k1, v1)
    BY <1>6 DEF ClipGeneration
  <2>3. /\ s \in Nat /\ DOMAIN g = 1..s /\ top < s
        /\ \A i \in 1..s : g[i] \in Nat
    BY <1>1, <1>6, <2>1, Elements
  <2>4. M \in Nat /\ \A i \in 1..s : g[i] <= M
    <3>1. PICK n \in Nat : \A i \in 1..Len(g) : g[i] <= n BY <2>1, ElementsBounded
    <3>2. ToSet(g) = {g[i] : i \in 1..s} BY <2>3 DEF ToSet
    <3>3. ToSet(g) \in SUBSET (0..n) BY <2>3, <3>1, <3>2
    <3>4. ToSet(g) # {}
      <4>1. 1 \in 1..s BY <1>1, <2>3
      <4> QED BY <3>2, <4>1
    <3>5. M \in ToSet(g) /\ \A y \in ToSet(g) : M >= y BY <3>3, <3>4, MaxIsGreatest
    <3>6. M \in Nat BY <3>3, <3>5
    <3> HIDE DEF M
    <3>7. ASSUME NEW i \in 1..s PROVE g[i] <= M
      <4>1. g[i] \in ToSet(g) /\ g[i] \in Nat BY <2>3, <3>2
      <4> QED BY <3>5, <3>6, <4>1
    <3> QED BY <3>6, <3>7
  <2> HIDE DEF M
  <2>5. \A k \in 1..top, v \in Nat :
           /\ Lowered(k, v) \in Seq(Nat) /\ Len(Lowered(k, v)) = k
           /\ \A i \in 1..k : Lowered(k, v)[i] = IF i = k THEN v ELSE g[i]
    <3> SUFFICES ASSUME NEW k \in 1..top, NEW v \in Nat
                 PROVE  /\ Lowered(k, v) \in Seq(Nat) /\ Len(Lowered(k, v)) = k
                        /\ \A i \in 1..k : Lowered(k, v)[i] = IF i = k THEN v ELSE g[i]
      OBVIOUS
    <3>1. k \in 1..Len(g) BY <1>1, <2>3
    <3> QED BY <2>1, <3>1, LoweredElements
  <2> HIDE DEF Lowered, s, top
  \* A prefix fits when its last element is lowered.
  <2>6. ASSUME NEW k \in 1..top, NEW v \in Nat, v < g[k]
        PROVE  <<k, v>> \in fits /\ Precedes(Lowered(k, v), g)
    <3>1. k \in 1..s /\ k <= s + 1 BY <1>1, <2>3
    <3>2. v \in 0..M /\ v <= g[k] BY <2>3, <2>4, <2>6, <3>1
    <3> DEFINE q == Lowered(k, v)
    <3>3. /\ q \in Seq(Nat) /\ Len(q) = k
          /\ \A i \in 1..k : q[i] = IF i = k THEN v ELSE g[i]
      BY <2>5
    <3> HIDE DEF q
    <3>4. q[k] < g[k] /\ \A i \in 1..(k - 1) : q[i] = g[i] BY <1>1, <2>6, <3>3
    <3>5. Precedes(q, g)
      <4>1. k \in 1..Len(q) /\ k <= Len(g) + 1 BY <1>1, <3>1, <3>3 DEF s
      <4> QED BY <3>4, <4>1, PrecedesAt
    <3>6. CmpGeneration(q, g) <= 0 BY <1>2, <2>1, <3>3, <3>5
    <3> QED BY <3>2, <3>5, <3>6 DEF q
  \* Nothing else fits.
  <2>7. ASSUME NEW k \in 1..top, NEW v \in 0..M, <<k, v>> \in fits
        PROVE  v < g[k]
    <3>1. k \in 1..s /\ k <= s + 1 /\ k + 1 \in 1..s BY <1>1, <2>3
    <3>2. v <= g[k] /\ CmpGeneration(Lowered(k, v), g) <= 0 /\ v \in Nat BY <2>4, <2>7
    <3> SUFFICES ASSUME v = g[k] PROVE FALSE BY <2>3, <3>1, <3>2
    <3> DEFINE q == Lowered(k, v)
    <3>3. /\ q \in Seq(Nat) /\ Len(q) = k
          /\ \A i \in 1..k : q[i] = IF i = k THEN v ELSE g[i]
      BY ZenonT(60), <2>5, <3>2
    <3> HIDE DEF q
    <3>4. \A i \in 1..((k + 1) - 1) : g[i] = q[i] BY <1>1, <3>3
    <3>5. Precedes(g, q)
      <4>1. k + 1 \in 1..Len(g) /\ k + 1 <= Len(q) + 1 /\ ~(k + 1 <= Len(q))
        BY <1>1, <3>1, <3>3 DEF s
      <4> QED BY <3>4, <4>1, PrecedesAt
    <3>6. CmpGeneration(q, g) = 1 BY <1>2, <2>1, <3>3, <3>5, PrecedesOneWay
    <3> QED BY <3>2, <3>6 DEF q
  <2>8. \A f \in fits : \E k \in 1..top, v \in 0..M : f = <<k, v>> OBVIOUS
  <2> HIDE DEF fits
  \* Where a generation that fits is below g, a lowered prefix fits.
  <2>9. ASSUME NEW h \in Seq(Nat), Len(h) <= top, CmpGeneration(h, g) <= 0
        PROVE  \E j \in 1..top : /\ j <= Len(h) /\ h[j] \in Nat /\ h[j] < g[j]
                                 /\ \A i \in 1..(j - 1) : h[i] = g[i]
                                 /\ <<j, h[j]>> \in fits
    <3>1. Len(h) \in Nat /\ \A i \in 1..Len(h) : h[i] \in Nat BY Elements
    <3>2. h # g BY <1>1, <2>3, <2>9 DEF s
    <3>3. Precedes(h, g) BY <1>2, <2>1, <2>9, <3>2
    <3>4. PICK j \in 1..Len(h) : /\ \A i \in 1..(j - 1) : h[i] = g[i]
                                 /\ j <= s => h[j] < g[j]
      BY <3>3 DEF Precedes, s
    <3>5. j \in 1..top /\ j <= s /\ j <= Len(h) BY <1>1, <2>3, <2>9, <3>1
    <3>6. h[j] \in Nat /\ h[j] < g[j] BY <3>1, <3>4, <3>5
    <3>7. <<j, h[j]>> \in fits BY <2>6, <3>5, <3>6
    <3> QED BY <3>4, <3>5, <3>6, <3>7
  <2>10. CASE fits = {}
    <3>1. c = None BY <2>2, <2>10
    <3>2. \A h \in Generation : Fits(h) => h = None BY <1>3, <2>9, <2>10
    <3> HIDE DEF c
    <3>3. Fits(None) BY <1>3
    <3> QED BY <1>3, <1>4, <3>1, <3>2, <3>3 DEF c, top
  <2>11. CASE fits # {}
    <3>1. /\ k1 \in 1..top /\ \A k, v : <<k, v>> \in fits => k <= k1
          /\ \E v : <<k1, v>> \in fits
      <4>1. K \in SUBSET (0..top) /\ K \subseteq 1..top /\ K # {} BY <1>1, <2>8, <2>11
      <4>2. ASSUME NEW k, NEW v, <<k, v>> \in fits PROVE k \in K
        <5>1. <<k, v>>[1] = k OBVIOUS
        <5> QED BY <4>2, <5>1
      <4>3. ASSUME NEW k \in K PROVE \E v : <<k, v>> \in fits
        <5>1. PICK f \in fits : k = f[1] OBVIOUS
        <5>2. PICK i \in 1..top : \E v \in 0..M : f = <<i, v>> BY <2>8
        <5>3. PICK v \in 0..M : f = <<i, v>> BY <5>2
        <5>4. f[1] = i BY <5>3
        <5> QED BY <5>1, <5>3, <5>4
      <4> HIDE DEF K
      <4>4. k1 \in K /\ \A y \in K : k1 >= y BY <1>1, <4>1, MaxIsGreatest
      <4> HIDE DEF k1
      <4>5. \A y \in K : y <= k1 BY <1>1, <4>1, <4>4
      <4> QED BY <4>1, <4>2, <4>3, <4>4, <4>5
    <3> HIDE DEF k1
    <3>2. <<k1, v1>> \in fits /\ v1 \in 0..M /\ \A v : <<k1, v>> \in fits => v <= v1
      <4>1. V \in SUBSET (0..M) /\ V # {} BY <2>8, <3>1
      <4>2. \A v : v \in V <=> <<k1, v>> \in fits BY <2>8
      <4> HIDE DEF V
      <4>3. v1 \in V /\ \A y \in V : v1 >= y BY <2>4, <4>1, MaxIsGreatest
      <4> HIDE DEF v1
      <4>4. \A y \in V : y <= v1 BY <2>4, <4>1, <4>3
      <4> QED BY <4>1, <4>2, <4>3, <4>4
    <3> HIDE DEF v1
    <3>3. v1 \in Nat /\ k1 \in 1..s /\ g[k1] \in Nat BY <1>1, <2>3, <2>4, <3>1, <3>2
    <3>4. v1 = g[k1] - 1
      <4>1. v1 < g[k1] BY <2>7, <3>1, <3>2
      <4>2. g[k1] - 1 \in Nat /\ g[k1] - 1 < g[k1] BY <3>3, <4>1
      <4>3. <<k1, g[k1] - 1>> \in fits BY <2>6, <3>1, <4>2
      <4>4. g[k1] - 1 <= v1 BY <3>2, <4>3
      <4> QED BY <3>3, <4>1, <4>4
    <3>5. c = Lowered(k1, v1) BY <2>2, <2>11
    <3>6. /\ c \in Seq(Nat) /\ Len(c) = k1 /\ Precedes(c, g)
          /\ \A i \in 1..k1 : c[i] = IF i = k1 THEN v1 ELSE g[i]
      <4> HIDE DEF c
      <4>1. v1 < g[k1] BY <3>3, <3>4
      <4>2. k1 \in 1..top BY <3>1
      <4>3. /\ Lowered(k1, v1) \in Seq(Nat) /\ Len(Lowered(k1, v1)) = k1
            /\ \A i \in 1..k1 : Lowered(k1, v1)[i] = IF i = k1 THEN v1 ELSE g[i]
        BY <2>5, <3>3, <4>2
      <4>4. Precedes(Lowered(k1, v1), g) BY <2>6, <3>3, <4>1, <4>2
      <4> QED BY <3>5, <4>3, <4>4
    <3> HIDE DEF c
    <3>7. c \in Generation /\ Fits(c)
      <4>1. CmpGeneration(c, g) <= 0 BY <1>2, <2>1, <3>6
      <4>2. Len(c) <= top BY <1>1, <3>1, <3>6
      <4> QED BY <1>4, <3>6, <4>1, <4>2
    <3>8. ASSUME NEW h \in Generation, Fits(h) PROVE CmpGeneration(h, c) <= 0
      <4>1. CASE h = None BY <1>3, <3>7, <4>1
      <4>2. CASE h # None
        <5>1. h \in Seq(Nat) BY <1>3, <4>2
        <5>2. PICK j \in 1..top : /\ j <= Len(h) /\ h[j] \in Nat /\ h[j] < g[j]
                                  /\ \A i \in 1..(j - 1) : h[i] = g[i]
                                  /\ <<j, h[j]>> \in fits
          BY <2>9, <3>8, <4>2, <5>1
        <5>3. j <= k1 /\ j \in 1..s /\ g[j] \in Nat BY <1>1, <2>3, <3>1, <5>2
        <5>4. ASSUME NEW i \in 1..k1, \A m \in 1..(i - 1) : c[m] = h[m],
                     i <= Len(h) => c[i] < h[i]
              PROVE  FALSE
          <6>1. Len(h) \in Nat /\ k1 \in Nat BY <3>3, <5>1, Elements
          <6>2. CASE i < j
            <7>1. i \in 1..(j - 1) /\ i <= Len(h) /\ i # k1 BY <5>2, <5>3, <6>1, <6>2
            <7>2. c[i] = g[i] /\ h[i] = g[i] BY <3>6, <5>2, <7>1
            <7>3. h[i] \in Nat
              <8>1. i \in 1..Len(h) BY <6>1, <7>1
              <8> QED BY <5>1, <8>1, Elements
            <7> QED BY <5>4, <7>1, <7>2, <7>3
          <6>3. CASE i = j
            <7>1. c[j] < h[j] BY <5>2, <5>4, <6>3
            <7>2. CASE j = k1 BY <3>3, <3>4, <3>6, <5>2, <7>1, <7>2
            <7>3. CASE j # k1
              <8>1. c[j] = g[j] BY <3>6, <6>3, <7>3
              <8> QED BY <5>2, <5>3, <7>1, <8>1
            <7> QED BY <7>2, <7>3
          <6>4. CASE j < i
            <7>1. j \in 1..(i - 1) /\ j \in 1..k1 /\ j # k1 BY <5>3, <6>1, <6>4
            <7>2. c[j] = h[j] /\ c[j] = g[j] BY <3>6, <5>4, <7>1
            <7> QED BY <5>2, <5>3, <7>2
          <6> QED BY <6>1, <6>2, <6>3, <6>4
        <5>5. ~Precedes(c, h) BY <3>6, <5>4 DEF Precedes
        <5>6. h = c \/ Precedes(h, c) BY <3>6, <5>1, <5>5, PrecedesTotal
        <5> QED BY <1>2, <3>6, <5>1, <5>6
      <4> QED BY <4>1, <4>2
    <3> QED BY <3>7, <3>8 DEF c, top
  <2> QED BY <2>10, <2>11
<1> QED BY <1>5, <1>6 DEF s

-----------------------------------------------------------------------------
(* The stitched generation.                                                   *)

\* stitched_generation() keeps the order: of two outputs of which one is newer, that one
\* is newer after any number of evaluations on defaults.
THEOREM StitchKeepsOrder ==
    ASSUME NEW a \in Generation, NEW b \in Generation, NEW times \in Nat
    PROVE  CmpGeneration(StitchedGeneration(a, times), StitchedGeneration(b, times))
             = CmpGeneration(a, b)
<1> DEFINE S(g) == StitchedGeneration(g, times)
<1>1. \A x, y \in Seq(Nat) :
         CmpGeneration(x, y) = IF x = y THEN 0 ELSE IF Precedes(x, y) THEN -1 ELSE 1
  BY CmpDecides
<1>2. \A g \in Generation : g \in Seq(Nat) \/ g = None BY DEF Generation
<1>3. \A g \in Seq(Nat) : g # None BY NoneAssumption
<1>4. ASSUME NEW g \in Seq(Nat)
      PROVE  /\ S(g) \in Seq(Nat) /\ Len(S(g)) = Len(g)
             /\ \A i \in 1..Len(g) : S(g)[i] = IF i = 1 THEN g[i] + times ELSE g[i]
  <2>1. Len(g) \in Nat /\ DOMAIN g = 1..Len(g) /\ \A i \in 1..Len(g) : g[i] \in Nat BY Elements
  <2>2. CASE g = <<>>
    <3>1. S(g) = g BY <1>3, <2>2 DEF StitchedGeneration
    <3>2. Len(g) = 0 BY <2>2, EmptySeq
    <3> HIDE DEF S
    <3> QED BY <3>1, <3>2
  <2>3. CASE g # <<>>
    <3>1. S(g) = [g EXCEPT ![1] = @ + times] BY <1>3, <2>3 DEF StitchedGeneration
    <3>2. 1 \in 1..Len(g) BY <2>1, <2>3, EmptySeq
    <3>3. g[1] + times \in Nat BY <2>1, <3>2
    <3> HIDE DEF S
    <3>4. S(g) \in Seq(Nat) /\ Len(S(g)) = Len(g) BY <3>1, <3>2, <3>3, ExceptSeq
    <3>5. \A i \in 1..Len(g) : S(g)[i] = IF i = 1 THEN g[i] + times ELSE g[i]
      BY <2>1, <3>1, <3>2
    <3> QED BY <3>4, <3>5
  <2> QED BY <2>2, <2>3
<1>5. S(None) = IF times = 0 THEN None ELSE <<times - 1>> BY DEF StitchedGeneration
<1> HIDE DEF S
<1>6. ASSUME NEW x \in Seq(Nat), NEW y \in Seq(Nat), Precedes(x, y)
      PROVE  Precedes(S(x), S(y))
  <2>1. PICK k \in 1..Len(x) : /\ k <= Len(y) + 1
                               /\ \A i \in 1..(k - 1) : x[i] = y[i]
                               /\ k <= Len(y) => x[k] < y[k]
    BY <1>6 DEF Precedes
  <2>2. /\ Len(x) \in Nat /\ Len(y) \in Nat
        /\ \A i \in 1..Len(x) : x[i] \in Nat
        /\ \A i \in 1..Len(y) : y[i] \in Nat
    BY Elements
  <2>3. /\ Len(S(x)) = Len(x) /\ Len(S(y)) = Len(y)
        /\ \A i \in 1..Len(x) : S(x)[i] = IF i = 1 THEN x[i] + times ELSE x[i]
        /\ \A i \in 1..Len(y) : S(y)[i] = IF i = 1 THEN y[i] + times ELSE y[i]
    BY <1>4
  <2>4. ASSUME NEW i \in 1..(k - 1) PROVE S(x)[i] = S(y)[i]
    <3>1. i \in 1..Len(x) /\ i \in 1..Len(y) BY <2>1, <2>2
    <3> QED BY <2>1, <2>3, <3>1
  <2>5. ASSUME k <= Len(S(y)) PROVE S(x)[k] < S(y)[k]
    <3>1. k \in 1..Len(x) /\ k \in 1..Len(y) BY <2>2, <2>3, <2>5
    <3>2. x[k] < y[k] /\ x[k] \in Nat /\ y[k] \in Nat BY <2>1, <2>2, <3>1
    <3> QED BY <2>3, <3>1, <3>2
  <2>6. k \in 1..Len(S(x)) /\ k <= Len(S(y)) + 1 BY <2>1, <2>3
  <2> QED BY <2>4, <2>5, <2>6, PrecedesAt
<1>7. ASSUME NEW x \in Seq(Nat), NEW y \in Seq(Nat)
      PROVE  CmpGeneration(S(x), S(y)) = CmpGeneration(x, y)
  <2>1. S(x) \in Seq(Nat) /\ S(y) \in Seq(Nat) BY <1>4
  <2>2. CASE x = y BY <1>1, <2>1, <2>2
  <2>3. CASE Precedes(x, y)
    <3>1. Precedes(S(x), S(y)) /\ x # y BY <1>6, <2>3, PrecedesOneWay
    <3>2. S(x) # S(y) BY <2>1, <3>1, PrecedesOneWay
    <3> QED BY <1>1, <2>1, <2>3, <3>1, <3>2
  <2>4. CASE Precedes(y, x)
    <3>1. Precedes(S(y), S(x)) /\ x # y /\ ~Precedes(x, y) BY <1>6, <2>4, PrecedesOneWay
    <3>2. S(x) # S(y) /\ ~Precedes(S(x), S(y)) BY <2>1, <3>1, PrecedesOneWay
    <3> QED BY <1>1, <2>1, <3>1, <3>2
  <2> QED BY <2>2, <2>3, <2>4, PrecedesTotal
<1>8. ASSUME NEW x \in Seq(Nat)
      PROVE  /\ CmpGeneration(S(None), S(x)) = CmpGeneration(None, x)
             /\ CmpGeneration(S(x), S(None)) = CmpGeneration(x, None)
  <2>1. /\ CmpGeneration(None, x) = -1 /\ CmpGeneration(x, None) = 1
        /\ S(x) \in Seq(Nat) /\ S(x) # None
        /\ CmpGeneration(None, S(x)) = -1 /\ CmpGeneration(S(x), None) = 1
    BY <1>3, <1>4 DEF CmpGeneration
  <2>2. CASE times = 0 BY <1>5, <2>1, <2>2
  <2>3. CASE times # 0
    <3> DEFINE n == <<times - 1>>
    <3>1. n \in Seq(Nat) /\ Len(n) = 1 /\ n[1] = times - 1 BY <2>3
    <3>2. S(None) = n BY <1>5, <2>3
    <3> HIDE DEF n
    <3>3. /\ Len(x) \in Nat /\ Len(S(x)) = Len(x)
          /\ \A i \in 1..Len(x) : x[i] \in Nat
          /\ \A i \in 1..Len(x) : S(x)[i] = IF i = 1 THEN x[i] + times ELSE x[i]
      BY <1>4, Elements
    <3>4. 1 <= Len(S(x)) => n[1] < S(x)[1] BY <3>1, <3>3
    <3>5. Precedes(n, S(x))
      <4>1. 1 \in 1..Len(n) /\ 1 <= Len(S(x)) + 1 /\ \A i \in 1..(1 - 1) : n[i] = S(x)[i]
        BY <3>1, <3>3
      <4> QED BY <3>4, <4>1, PrecedesAt
    <3>6. n # S(x) /\ ~Precedes(S(x), n) BY <2>1, <3>1, <3>5, PrecedesOneWay
    <3> QED BY <1>1, <2>1, <3>1, <3>2, <3>5, <3>6
  <2> QED BY <2>2, <2>3
<1>9. CASE a = None /\ b = None BY <1>9 DEF CmpGeneration
<1> QED BY <1>2, <1>7, <1>8, <1>9 DEF S

-----------------------------------------------------------------------------
(* Lists that are made from sets of positions.                                *)

Rank(P, p) == Cardinality({q \in P : q < p})

\* In a finite set of positions there is one with k smaller ones, for each k up to their
\* number.
LEMMA EachRankIsTaken ==
    ASSUME NEW P \in SUBSET Nat, IsFiniteSet(P)
    PROVE  /\ Cardinality(P) \in Nat
           /\ \A k \in 1..Cardinality(P) : \E p \in P : Rank(P, p) = k - 1
<1> DEFINE c == Cardinality(P)
           Below(p) == {q \in P : q < p}
           r == [p \in P |-> Rank(P, p)]
<1>1. c \in Nat BY FS_CardinalityType
<1>2. ASSUME NEW p \in P
      PROVE  IsFiniteSet(Below(p)) /\ Rank(P, p) \in 0..(c - 1)
  <2>1. Below(p) \in SUBSET P /\ p \notin Below(p) OBVIOUS
  <2> DEFINE B == Below(p)
  <2>2. /\ IsFiniteSet(B) /\ Cardinality(B) <= c
        /\ (c = Cardinality(B) => P = B)
    <3> HIDE DEF B
    <3> QED BY <2>1, FS_Subset DEF B
  <2>3. Cardinality(B) \in Nat BY <2>2, FS_CardinalityType
  <2>4. Cardinality(B) # c BY <2>1, <2>2
  <2>5. Rank(P, p) = Cardinality(B) BY DEF Rank
  <2> HIDE DEF B, c
  <2> QED BY <1>1, <2>2, <2>3, <2>4, <2>5 DEF B
<1>3. ASSUME NEW p \in P, NEW q \in P, p < q PROVE Rank(P, p) < Rank(P, q)
  <2> DEFINE S == Below(q)  T == Below(p)
  <2>0. p \in Nat /\ q \in Nat /\ P \subseteq Nat OBVIOUS
  <2>9. \A x \in P : x < p => x < q BY <1>3, <2>0
  <2>8. ~(p < p) BY <2>0
  <2>1. T \in SUBSET S /\ p \in S /\ p \notin T BY <1>3, <2>8, <2>9, Zenon
  <2>2. IsFiniteSet(S) /\ IsFiniteSet(T) BY <1>2
  <2>3. Rank(P, p) = Cardinality(T) /\ Rank(P, q) = Cardinality(S) BY DEF Rank
  <2> HIDE DEF S, T
  <2>4. Cardinality(T) <= Cardinality(S) /\ (Cardinality(S) = Cardinality(T) => S = T)
    BY <2>1, <2>2, FS_Subset
  <2>5. Cardinality(S) \in Nat /\ Cardinality(T) \in Nat BY <2>2, FS_CardinalityType
  <2> QED BY <2>1, <2>3, <2>4, <2>5
<1>4. r \in [P -> 0..(c - 1)] BY <1>2
<1>5. ASSUME NEW p \in P, NEW q \in P, r[p] = r[q] PROVE p = q
  <2>1. p < q \/ q < p \/ p = q OBVIOUS
  <2>3. r[p] = Rank(P, p) /\ r[q] = Rank(P, q) OBVIOUS
  <2> HIDE DEF r, c
  <2>4. Rank(P, p) \in 0..(c - 1) BY <1>2, Zenon
  <2>2. Rank(P, p) = Rank(P, q) BY <1>5, <2>3, Zenon
  <2>5. Rank(P, p) \in Nat BY <1>1, <2>4
  <2>6. ~(Rank(P, p) < Rank(P, p)) BY <2>5
  <2>7. p < q => Rank(P, p) < Rank(P, q) BY <1>3, Zenon
  <2>8. q < p => Rank(P, q) < Rank(P, p) BY <1>3, Zenon
  <2> QED BY <2>1, <2>2, <2>6, <2>7, <2>8, Zenon
<1> HIDE DEF r
<1>6. IsInjective(r) BY <1>4, <1>5, Zenon DEF IsInjective
<1>7. r \in Injection(P, 0..(c - 1)) BY <1>4, <1>6, Zenon DEF Injection
<1>8. IsFiniteSet(0..(c - 1)) /\ Cardinality(0..(c - 1)) = c
  <2> HIDE DEF c
  <2>1. 0 \in Int /\ c - 1 \in Int /\ (0 > c - 1 <=> c = 0) /\ c - 1 - 0 + 1 = c BY <1>1
  <2> QED BY <2>1, FS_Interval
<1>9. r \in Surjection(P, 0..(c - 1)) BY <1>7, <1>8, FS_Injection DEF c
<1>10. \A x \in 0..(c - 1) : \E p \in P : r[p] = x BY <1>9, Zenon DEF Surjection
<1>11. \A p \in P : r[p] = Rank(P, p) BY DEF r
<1> HIDE DEF c
<1>12. ASSUME NEW k \in 1..c PROVE k - 1 \in 0..(c - 1) BY <1>1
<1>13. \A k \in 1..c : \E p \in P : Rank(P, p) = k - 1 BY <1>10, <1>11, <1>12
<1> QED BY <1>1, <1>13 DEF c

\* A set of positions in order: each of them, once.
LEMMA InOrderMembers ==
    ASSUME NEW P \in SUBSET Nat, IsFiniteSet(P)
    PROVE  /\ InOrder(P) \in Seq(P) /\ Len(InOrder(P)) = Cardinality(P)
           /\ Cardinality(P) \in Nat /\ DOMAIN InOrder(P) = 1..Cardinality(P)
           /\ IsInjective(InOrder(P))
<1> DEFINE c == Cardinality(P)  o == InOrder(P)
           Has(p, k) == Cardinality({q \in P : q < p}) = k - 1
<1>1. c \in Nat /\ \A k \in 1..c : \E p \in P : Rank(P, p) = k - 1 BY EachRankIsTaken
<1>2. o = [k \in 1..c |-> CHOOSE p \in P : Has(p, k)] BY DEF InOrder
<1>3. \A k \in 1..c : \E p \in P : Has(p, k) BY <1>1 DEF Rank
<1> HIDE DEF c, o
<1>4. ASSUME NEW k \in 1..c PROVE o[k] \in P /\ Has(o[k], k)
  <2>1. o[k] = CHOOSE p \in P : Has(p, k) BY <1>2
  <2>2. \E p \in P : Has(p, k) BY <1>3
  <2> HIDE DEF Has
  <2> QED BY <2>1, <2>2, Zenon
<1>5. DOMAIN o = 1..c BY <1>2
<1>6. o \in [1..c -> P] BY <1>2, <1>4, <1>5
<1>7. o \in Seq(P) BY <1>1, <1>6, SeqDef
<1>8. Len(o) = c BY <1>1, <1>5, <1>7, LenProperties
<1>9. ASSUME NEW i \in 1..c, NEW j \in 1..c, o[i] = o[j] PROVE i = j
  <2>1. i - 1 = j - 1 BY <1>4, <1>9
  <2> QED BY <2>1
<1>10. IsInjective(o) BY <1>5, <1>9, Zenon DEF IsInjective
<1> QED BY <1>1, <1>5, <1>7, <1>8, <1>10 DEF c, o

\* The positions in order are all of them.
LEMMA InOrderOnto ==
    ASSUME NEW P \in SUBSET Nat, IsFiniteSet(P), NEW p \in P
    PROVE  \E k \in 1..Cardinality(P) : InOrder(P)[k] = p
<1> DEFINE c == Cardinality(P)  o == InOrder(P)
<1>1. o \in Seq(P) /\ c \in Nat /\ DOMAIN o = 1..c /\ IsInjective(o) BY InOrderMembers
<1> HIDE DEF c, o
<1>2. o \in [1..c -> P] BY <1>1, ElementOfSeq, LenProperties
<1>3. o \in Injection(1..c, P) BY <1>1, <1>2, Zenon DEF Injection
<1>4. IsFiniteSet(1..c) /\ Cardinality(1..c) = c
  <2>1. 1 \in Int /\ c \in Int /\ (1 > c => c = 0) /\ c - 1 + 1 = c BY <1>1
  <2> QED BY <2>1, FS_Interval
<1>5. o \in Surjection(1..c, P) BY <1>3, <1>4, FS_Injection DEF c
<1> QED BY <1>5, Zenon DEF Surjection, c, o

\* The positions in a list are naturals, finitely many.
LEMMA Positions ==
    ASSUME NEW X, NEW q \in Seq(X), NEW P \in SUBSET DOMAIN q
    PROVE  P \in SUBSET Nat /\ IsFiniteSet(P)
<1>1. Len(q) \in Nat /\ DOMAIN q = 1..Len(q) BY LenProperties
<1>2. IsFiniteSet(1..Len(q)) BY <1>1, FS_Interval
<1>3. P \in SUBSET (1..Len(q)) BY <1>1
<1>4. IsFiniteSet(P) BY <1>2, <1>3, FS_Subset
<1> QED BY <1>1, <1>4

\* get_output_nodes()
LEMMA ConsumersType ==
    ASSUME ports \in Seq(Port), NEW P \in SUBSET DOMAIN ports
    PROVE  Consumers(P) \in Seq(Node)
<1> DEFINE c == Cardinality(P)  o == InOrder(P)
<1>1. P \in SUBSET Nat /\ IsFiniteSet(P) BY Positions
<1>2. o \in Seq(P) /\ c \in Nat /\ DOMAIN o = 1..c BY <1>1, InOrderMembers
<1>3. Consumers(P) = [k \in 1..c |-> ports[o[k]].node] BY DEF Consumers
<1> HIDE DEF c, o
<1>4. ASSUME NEW k \in 1..c PROVE ports[o[k]].node \in Node
  <2>1. o[k] \in P BY <1>2, ElementOfSeq, LenProperties
  <2>2. ports[o[k]] \in Port BY <2>1, ElementOfSeq, LenProperties
  <2> QED BY <2>2 DEF Port
<1>5. [k \in 1..c |-> ports[o[k]].node] \in [1..c -> Node] BY <1>4
<1> QED BY <1>2, <1>3, <1>5, SeqDef

\* get_output_nodes() misses none of the consumers.
LEMMA ConsumersAll ==
    ASSUME ports \in Seq(Port), NEW P \in SUBSET DOMAIN ports, NEW p \in P
    PROVE  ports[p].node \in ToSet(Consumers(P))
<1> DEFINE c == Cardinality(P)  o == InOrder(P)
<1>1. P \in SUBSET Nat /\ IsFiniteSet(P) BY Positions
<1>2. PICK k \in 1..c : o[k] = p BY <1>1, InOrderOnto
<1>3. Consumers(P) = [i \in 1..c |-> ports[o[i]].node] BY DEF Consumers
<1> HIDE DEF c, o
<1>4. k \in DOMAIN Consumers(P) /\ Consumers(P)[k] = ports[p].node BY <1>2, <1>3
<1> QED BY <1>4, Zenon DEF ToSet

\* Of a list without repetitions some elements are left, in order.
LEMMA WithoutMembers ==
    ASSUME NEW X, NEW list \in Seq(X), NEW S
    PROVE  /\ Without(list, S) \in Seq(X)
           /\ ToSet(Without(list, S)) \subseteq ToSet(list) \ S
           /\ IsInjective(list) => IsInjective(Without(list, S))
<1> DEFINE left == {i \in DOMAIN list : list[i] \notin S}
           c == Cardinality(left)  o == InOrder(left)  w == Without(list, S)
<1>1. left \in SUBSET Nat /\ IsFiniteSet(left)
  <2>1. left \in SUBSET DOMAIN list OBVIOUS
  <2> HIDE DEF left
  <2> QED BY <2>1, Positions
<1>2. o \in Seq(left) /\ c \in Nat /\ DOMAIN o = 1..c /\ IsInjective(o)
  <2> HIDE DEF left
  <2> QED BY <1>1, InOrderMembers
<1>3. w = [k \in 1..c |-> list[o[k]]] BY DEF Without
<1> HIDE DEF c, o, w
<1>4. ASSUME NEW k \in 1..c
      PROVE  /\ o[k] \in DOMAIN list /\ w[k] = list[o[k]]
             /\ w[k] \in X /\ w[k] \notin S
  <2>1. o[k] \in left
    <3> HIDE DEF left
    <3> QED BY <1>2, ElementOfSeq, LenProperties
  <2>2. w[k] = list[o[k]] BY <1>3
  <2>3. o[k] \in DOMAIN list /\ list[o[k]] \notin S BY <2>1
  <2>4. list[o[k]] \in X BY <2>3, ElementOfSeq, LenProperties
  <2> QED BY <2>2, <2>3, <2>4
<1>5. DOMAIN w = 1..c BY <1>3
<1>6. w \in [1..c -> X] BY <1>3, <1>4, <1>5
<1>7. w \in Seq(X) BY <1>2, <1>6, SeqDef
<1>8. ToSet(w) \subseteq ToSet(list) \ S BY <1>4, <1>5, Zenon DEF ToSet
<1>9. ASSUME IsInjective(list) PROVE IsInjective(w)
  <2>1. ASSUME NEW i \in 1..c, NEW j \in 1..c, w[i] = w[j] PROVE i = j
    <3>2. list[o[i]] = list[o[j]] BY <1>4, <2>1
    <3>3. o[i] \in DOMAIN list /\ o[j] \in DOMAIN list BY <1>4, <2>1
    <3>1. o[i] = o[j] BY <1>9, <3>2, <3>3, Zenon DEF IsInjective
    <3> QED BY <1>2, <3>1, Zenon DEF IsInjective
  <2> QED BY <1>5, <2>1, Zenon DEF IsInjective
<1> QED BY <1>7, <1>8, <1>9, Zenon DEF w

\* Only the elements of S leave the list.
LEMMA WithoutOnly ==
    ASSUME NEW X, NEW list \in Seq(X), NEW S, NEW e \in ToSet(list), e \notin S
    PROVE  e \in ToSet(Without(list, S))
<1> DEFINE left == {i \in DOMAIN list : list[i] \notin S}
           c == Cardinality(left)  o == InOrder(left)  w == Without(list, S)
<1>1. left \in SUBSET Nat /\ IsFiniteSet(left)
  <2>1. left \in SUBSET DOMAIN list OBVIOUS
  <2> HIDE DEF left
  <2> QED BY <2>1, Positions
<1>2. PICK i \in DOMAIN list : list[i] = e BY Zenon DEF ToSet
<1>3. i \in left BY <1>2
<1>4. w = [k \in 1..c |-> list[o[k]]] BY DEF Without
<1>5. PICK k \in 1..c : o[k] = i
  <2> HIDE DEF left
  <2> QED BY <1>1, <1>3, InOrderOnto
<1> HIDE DEF c, o, w
<1>6. k \in DOMAIN w /\ w[k] = e BY <1>2, <1>4, <1>5
<1>7. e \in ToSet(w) BY <1>6, Zenon DEF ToSet
<1> QED BY <1>7 DEF w

\* What is flattened of sequences that are not empty is not empty.
LEMMA FlattenSome ==
    ASSUME NEW X, NEW seqs \in Seq(Seq(X)), seqs # <<>>, \A i \in DOMAIN seqs : seqs[i] # <<>>
    PROVE  FlattenSeq(seqs) # <<>>
<1> DEFINE n == Len(seqs)
<1>1. n \in Nat /\ DOMAIN seqs = 1..n BY LenProperties
<1>2. n # 0 BY EmptySeq
<1> HIDE DEF n
<1>3. n \in 1..n /\ n - 1 \in 0..n BY <1>1, <1>2
<1>4. PICK h \in [0..n -> Seq(X)] :
         (\A k \in 1..n : h[k] = h[k - 1] \o seqs[k]) /\ FlattenSeq(seqs) = h[n]
  BY FlattenSteps DEF n
<1>5. h[n] = h[n - 1] \o seqs[n] BY <1>3, <1>4
<1>6. h[n - 1] \in Seq(X) /\ seqs[n] \in Seq(X) /\ seqs[n] # <<>>
  <2>1. h \in [0..n -> Seq(X)] BY <1>4 DEF n
  <2>2. n \in 1..Len(seqs) BY <1>3 DEF n
  <2>3. seqs[n] \in Seq(X) BY <2>2, ElementOfSeq
  <2> QED BY <1>1, <1>3, <2>1, <2>3
<1> DEFINE a == h[n - 1]  b == seqs[n]
<1>7. a \in Seq(X) /\ b \in Seq(X) /\ b # <<>> BY <1>6
<1> HIDE DEF a, b
<1>8. Len(a \o b) = Len(a) + Len(b) /\ Len(a) \in Nat /\ Len(b) \in Nat /\ Len(b) # 0
  BY <1>7, ConcatProperties, LenProperties, EmptySeq
<1>9. a \o b # <<>>
  <2>1. Len(<<>>) = 0 OBVIOUS
  <2>2. Len(a \o b) # 0 BY <1>8
  <2> QED BY <2>1, <2>2
<1> QED BY <1>4, <1>5, <1>9 DEF a, b

\* The nodes that can be reached in one step more.
Further(P, w) == w \cup {ports[p].source : p \in {q \in P : ports[q].node \in w}}

\* What Reach() computes, step by step.
LEMMA ReachSteps ==
    ASSUME NEW P \in SUBSET DOMAIN ports, \A p \in P : ports[p].source \in Node, NEW n \in Node
    PROVE  \E f \in [0..Cardinality(Node) -> SUBSET Node] :
              /\ Reach(P, n) = f[Cardinality(Node)]
              /\ \A k \in 0..Cardinality(Node) :
                    f[k] = IF k = 0 THEN {n} ELSE Further(P, f[k - 1])
<1> DEFINE C == Cardinality(Node)
           V == SUBSET Node
           Is(f) == f = [k \in 0..C |-> IF k = 0 THEN {n}
                                        ELSE LET inner == f[k - 1] IN
                                             inner \cup {ports[p].source :
                                                p \in {q \in P : ports[q].node \in inner}}]
           within == CHOOSE f : Is(f)
           G == [x \in (0..C) \X V |-> Further(P, x[2])]
           v == {n}
<1>1. C \in Nat BY GraphAssumption, FS_CardinalityType
<1>2. Reach(P, n) = within[C] BY DEF Reach
<1>3. v \in V OBVIOUS
<1>4. ASSUME NEW w \in V PROVE Further(P, w) \in V BY DEF Further
<1>5. \A f : Is(f) <=> f = [k \in 0..C |-> IF k = 0 THEN v ELSE Further(P, f[k - 1])]
  BY DEF Further
<1> HIDE DEF v, Is
<1>6. G \in [(0..C) \X V -> V] BY <1>4
<1>7. \A x \in (0..C) \X V : G[x] = Further(P, x[2]) OBVIOUS
<1>8. PICK f \in [0..C -> V] : Recurs(f, 0, C, v, G)
  <2> HIDE DEF C, V, G
  <2>1. 0 \in Nat OBVIOUS
  <2> QED BY <1>1, <1>3, <1>6, <2>1, RecursionExists, Zenon
<1>9. \A k \in 0..C : f[k] = IF k = 0 THEN v ELSE Further(P, f[k - 1])
  <2> HIDE DEF C, V, G
  <2>1. \A k \in 0..C : f[k] = IF k = 0 THEN v ELSE G[<<k, f[k - 1]>>] BY <1>8 DEF Recurs
  <2>2. ASSUME NEW k \in 0..C, k # 0 PROVE G[<<k, f[k - 1]>>] = Further(P, f[k - 1])
    <3>1. k - 1 \in 0..C BY <1>1, <2>2
    <3>2. <<k, f[k - 1]>> \in (0..C) \X V BY <3>1
    <3> QED BY <1>7, <3>2
  <2> QED BY <2>1, <2>2
<1>10. Is(f)
  <2> HIDE DEF C, V
  <2> QED BY <1>5, <1>9
<1>11. Is(within) BY <1>10, Zenon
<1>12. within = [k \in 0..C |-> IF k = 0 THEN v ELSE Further(P, within[k - 1])]
  <2> HIDE DEF within
  <2> QED BY <1>5, <1>11
<1> HIDE DEF within
<1>13. \A k \in 0..C : within[k] = IF k = 0 THEN v ELSE Further(P, within[k - 1])
  <2> HIDE DEF C
  <2> QED BY <1>12
<1>14. ASSUME NEW k \in 0..C, k = 0 \/ within[k - 1] \in V PROVE within[k] \in V
  <2> HIDE DEF V
  <2> QED BY <1>3, <1>4, <1>13, <1>14
<1>15. \A k \in 0..C : within[k] \in V
  <2> HIDE DEF V, C
  <2>1. 0 \in Nat OBVIOUS
  <2> QED BY <1>1, <1>14, <2>1, RecursionStays
<1>16. within \in [0..C -> V]
  <2> HIDE DEF V, C
  <2> QED BY <1>12, <1>15
<1> QED BY <1>2, <1>13, <1>16 DEF v

\* A set that no connection leaves holds what can be reached from it.
LEMMA ReachWithin ==
    ASSUME NEW P \in SUBSET DOMAIN ports, \A p \in P : ports[p].source \in Node,
           NEW S \in SUBSET Node, NEW n \in S,
           \A p \in P : ports[p].node \in S => ports[p].source \in S
    PROVE  Reach(P, n) \in SUBSET S
<1> DEFINE C == Cardinality(Node)
<1>1. C \in Nat BY GraphAssumption, FS_CardinalityType
<1>2. PICK f \in [0..C -> SUBSET Node] :
         /\ Reach(P, n) = f[C]
         /\ \A k \in 0..C : f[k] = IF k = 0 THEN {n} ELSE Further(P, f[k - 1])
  BY ReachSteps
<1> DEFINE V == SUBSET S
<1>3. ASSUME NEW w \in V PROVE Further(P, w) \in V BY DEF Further
<1>4. {n} \in V OBVIOUS
<1> HIDE DEF C, V
<1>5. ASSUME NEW k \in 0..C, k = 0 \/ f[k - 1] \in V PROVE f[k] \in V
  BY <1>2, <1>3, <1>4, <1>5
<1>6. \A k \in 0..C : f[k] \in V
  <2>1. 0 \in Nat OBVIOUS
  <2> QED BY <1>1, <1>5, <2>1, RecursionStays
<1>7. C \in 0..C BY <1>1
<1> QED BY <1>2, <1>6, <1>7 DEF V

\* After as many steps as there are nodes nothing more can be reached.
LEMMA ReachClosed ==
    ASSUME NEW P \in SUBSET DOMAIN ports, \A p \in P : ports[p].source \in Node, NEW n \in Node
    PROVE  /\ Reach(P, n) \in SUBSET Node /\ n \in Reach(P, n)
           /\ \A p \in P : ports[p].node \in Reach(P, n) => ports[p].source \in Reach(P, n)
<1> DEFINE C == Cardinality(Node)
           Closed(w) == Further(P, w) = w
<1>1. C \in Nat /\ IsFiniteSet(Node) BY GraphAssumption, FS_CardinalityType
<1>2. PICK f \in [0..C -> SUBSET Node] :
         /\ Reach(P, n) = f[C]
         /\ \A k \in 0..C : f[k] = IF k = 0 THEN {n} ELSE Further(P, f[k - 1])
  BY ReachSteps
\* Each step either adds a node or is the last that adds any.
<1> DEFINE good == [k \in 0..C |-> n \in f[k] /\ (Closed(f[k]) \/ Cardinality(f[k]) > k)]
<1>3. ASSUME NEW k \in 0..C, k = 0 \/ good[k - 1] \in {TRUE} PROVE good[k] \in {TRUE}
  <2>1. CASE k = 0
    <3>1. f[k] = {n} BY <1>2, <2>1
    <3>2. Cardinality(f[k]) = 1 BY <3>1, FS_Singleton
    <3>3. n \in f[k] /\ Cardinality(f[k]) > k BY <2>1, <3>1, <3>2
    <3> QED BY <3>3
  <2>2. CASE k # 0
    <3>1. k - 1 \in 0..C BY <1>1, <2>2
    <3> DEFINE w == f[k - 1]
    <3>2. f[k] = Further(P, w) /\ w \in SUBSET Node /\ f[k] \in SUBSET Node
      BY <1>2, <2>2, <3>1
    <3>3. n \in w /\ (Closed(w) \/ Cardinality(w) > k - 1) BY <1>3, <2>2, <3>1
    <3> HIDE DEF w
    <3>4. w \subseteq f[k] BY <3>2 DEF Further
    <3>5. CASE Closed(w) BY <3>2, <3>3, <3>4, <3>5
    <3>6. CASE ~Closed(w)
      <4>1. w # f[k] BY <3>2, <3>6
      <4>2. IsFiniteSet(f[k]) /\ IsFiniteSet(w) BY <1>1, <3>2, FS_Subset
      <4>3. Cardinality(w) \in Nat /\ Cardinality(f[k]) \in Nat BY <4>2, FS_CardinalityType
      <4>4. Cardinality(w) <= Cardinality(f[k]) /\ Cardinality(w) # Cardinality(f[k])
        BY <3>4, <4>1, <4>2, FS_Subset
      <4>5. Cardinality(f[k]) > k BY <3>3, <3>6, <4>3, <4>4
      <4> QED BY <3>3, <3>4, <4>5
    <3> QED BY <3>5, <3>6
  <2> QED BY <2>1, <2>2
<1>4. \A k \in 0..C : good[k] \in {TRUE}
  <2> HIDE DEF good, C
  <2>1. 0 \in Nat OBVIOUS
  <2> QED BY <1>1, <1>3, <2>1, RecursionStays
<1>5. C \in 0..C BY <1>1
<1>6. n \in f[C] /\ (Closed(f[C]) \/ Cardinality(f[C]) > C) /\ f[C] \in SUBSET Node
  BY <1>2, <1>4, <1>5
<1>7. Cardinality(f[C]) <= C BY <1>1, <1>6, FS_Subset
<1>8. Cardinality(f[C]) \in Nat
  <2>1. IsFiniteSet(f[C]) BY <1>1, <1>6, FS_Subset
  <2> QED BY <2>1, FS_CardinalityType
<1>9. Closed(f[C]) BY <1>1, <1>6, <1>7, <1>8
<1> QED BY <1>2, <1>6, <1>9 DEF Further

\* The dependencies of a component, and its leaves when those of the others are known.
DependenciesOf(T) == {p \in Edges : ports[p].node \in T /\ ports[p].source \notin T}

LeavesOf(w, T) ==
    LET deps == InOrder(DependenciesOf(T)) IN
    IF deps = <<>> THEN <<T>>
    ELSE FlattenSeq([i \in DOMAIN deps |-> w[Scc(Edges, ports[deps[i]].source)]])

\* A component without dependencies is the one leaf; one with dependencies has their leaves.
LEMMA LeavesOneStep ==
    ASSUME ports \in Seq(Port), NEW w, NEW T, NEW Q,
           DependenciesOf(T) = {} => T \in Q,
           \A p \in DependenciesOf(T) : w[Scc(Edges, ports[p].source)] \in Seq(Q)
    PROVE  /\ LeavesOf(w, T) \in Seq(Q)
           /\ (\A p \in DependenciesOf(T) : w[Scc(Edges, ports[p].source)] # <<>>)
                 => LeavesOf(w, T) # <<>>
<1> DEFINE D == DependenciesOf(T)
           deps == InOrder(D)
           L == Len(deps)
           B == [i \in DOMAIN deps |-> w[Scc(Edges, ports[deps[i]].source)]]
<1>1. D \in SUBSET DOMAIN ports BY DEF Edges, DependenciesOf
<1>2. LeavesOf(w, T) = IF deps = <<>> THEN <<T>> ELSE FlattenSeq(B) BY DEF LeavesOf
<1> HIDE DEF D
<1>3. D \in SUBSET Nat /\ IsFiniteSet(D) BY <1>1, Positions
<1>4. deps \in Seq(D) BY <1>3, InOrderMembers
<1>5. deps = <<>> => D = {}
  <2> SUFFICES ASSUME deps = <<>>, NEW p \in D PROVE FALSE OBVIOUS
  <2>1. PICK k \in 1..Cardinality(D) : InOrder(D)[k] = p BY <1>3, InOrderOnto
  <2>2. DOMAIN deps = 1..Cardinality(D) BY DEF InOrder
  <2> HIDE DEF deps
  <2> QED BY <2>1, <2>2
<1> HIDE DEF deps
<1>6. L \in Nat /\ DOMAIN deps = 1..L /\ \A i \in DOMAIN deps : deps[i] \in D
  BY <1>4, LenProperties, ElementOfSeq
<1>7. \A i \in DOMAIN deps : w[Scc(Edges, ports[deps[i]].source)] \in Seq(Q) BY <1>6 DEF D
<1>8. B \in [1..L -> Seq(Q)] /\ DOMAIN B = 1..L BY <1>6, <1>7
<1>9. B \in Seq(Seq(Q))
  <2> HIDE DEF B, L
  <2> QED BY <1>6, <1>8, SeqDef
<1>10. deps # <<>> => B # <<>>
  <2>1. B = <<>> => DOMAIN deps = {} BY <1>6, <1>8
  <2> QED BY <1>4, <1>6, <2>1, EmptySeq
<1>11. LeavesOf(w, T) \in Seq(Q)
  <2>1. CASE deps = <<>>
    <3>1. T \in Q BY <1>5, <2>1 DEF D
    <3> QED BY <1>2, <2>1, <3>1, SeqDef
  <2>2. CASE deps # <<>>
    <3> HIDE DEF B
    <3> QED BY <1>2, <1>9, <2>2, FlattenType
  <2> QED BY <2>1, <2>2
<1>12. ASSUME \A p \in D : w[Scc(Edges, ports[p].source)] # <<>> PROVE LeavesOf(w, T) # <<>>
  <2>1. CASE deps = <<>> BY <1>2, <2>1
  <2>2. CASE deps # <<>>
    <3>1. \A i \in DOMAIN B : B[i] # <<>> BY <1>6, <1>12
    <3> HIDE DEF B
    <3> QED BY <1>2, <1>9, <1>10, <2>2, <3>1, FlattenSome
  <2> QED BY <2>1, <2>2
<1> QED BY <1>11, <1>12 DEF D

\* What LeafSupernodes() computes, step by step.
LEMMA LeavesSteps ==
    ASSUME ports \in Seq(Port), NEW n \in Node
    PROVE  \E f :
              /\ LeafSupernodes(n) = f[Cardinality(Node)][Scc(Edges, n)]
              /\ \A k \in 0..Cardinality(Node) : \A T \in SUBSET Node :
                    f[k][T] = IF k = 0 THEN <<T>> ELSE LeavesOf(f[k - 1], T)
<1> DEFINE C == Cardinality(Node)
           V == [SUBSET Node -> Seq(SUBSET Node)]
           Dependencies(T) ==
              InOrder({p \in Edges : ports[p].node \in T /\ ports[p].source \notin T})
           Step(w) == [T \in SUBSET Node |-> LeavesOf(w, T)]
           v == [T \in SUBSET Node |-> <<T>>]
           Is(f) == f = [k \in 0..C |-> IF k = 0 THEN v
                            ELSE [T \in SUBSET Node |->
                                    LET deps == Dependencies(T) IN
                                    IF deps = <<>> THEN <<T>>
                                    ELSE FlattenSeq([i \in DOMAIN deps |->
                                            f[k - 1][Scc(Edges, ports[deps[i]].source)]])]]
           leaves == CHOOSE f : Is(f)
           G == [x \in (0..C) \X V |-> Step(x[2])]
<1>1. C \in Nat BY GraphAssumption, FS_CardinalityType
<1>2. LeafSupernodes(n) = leaves[C][Scc(Edges, n)] BY DEF LeafSupernodes
<1>3. v \in V
  <2>1. ASSUME NEW T \in SUBSET Node PROVE <<T>> \in Seq(SUBSET Node) BY SeqDef
  <2> QED BY <2>1
<1>4. ASSUME NEW w \in V PROVE Step(w) \in V
  <2>1. \A m : Scc(Edges, m) \in SUBSET Node BY DEF Scc
  <2>2. ASSUME NEW T \in SUBSET Node PROVE LeavesOf(w, T) \in Seq(SUBSET Node)
    <3>1. \A p \in DependenciesOf(T) : w[Scc(Edges, ports[p].source)] \in Seq(SUBSET Node)
      BY <2>1
    <3> QED BY <3>1, LeavesOneStep
  <2> QED BY <2>2
<1>5. \A f : Is(f) <=> f = [k \in 0..C |-> IF k = 0 THEN v ELSE Step(f[k - 1])]
  BY DEF LeavesOf, DependenciesOf
<1> HIDE DEF Is, Step, v
<1>6. G \in [(0..C) \X V -> V] BY <1>4
<1>7. \A x \in (0..C) \X V : G[x] = Step(x[2]) OBVIOUS
<1>8. PICK f \in [0..C -> V] : Recurs(f, 0, C, v, G)
  <2> HIDE DEF C, V, G, leaves
  <2>1. 0 \in Nat OBVIOUS
  <2> QED BY <1>1, <1>3, <1>6, <2>1, RecursionExists, Zenon
<1>9. \A k \in 0..C : f[k] = IF k = 0 THEN v ELSE Step(f[k - 1])
  <2> HIDE DEF C, V, G
  <2>1. \A k \in 0..C : f[k] = IF k = 0 THEN v ELSE G[<<k, f[k - 1]>>] BY <1>8 DEF Recurs
  <2>2. ASSUME NEW k \in 0..C, k # 0 PROVE G[<<k, f[k - 1]>>] = Step(f[k - 1])
    <3>1. k - 1 \in 0..C BY <1>1, <2>2
    <3>2. <<k, f[k - 1]>> \in (0..C) \X V BY <3>1
    <3> QED BY <1>7, <3>2
  <2> QED BY <2>1, <2>2
<1>10. Is(f)
  <2> HIDE DEF C, V
  <2> QED BY <1>5, <1>9
<1>11. Is(leaves) BY <1>10, Zenon
<1>12. leaves = [k \in 0..C |-> IF k = 0 THEN v ELSE Step(leaves[k - 1])]
  <2> HIDE DEF leaves
  <2> QED BY <1>5, <1>11
<1> HIDE DEF leaves
<1>13. \A k \in 0..C : leaves[k] = IF k = 0 THEN v ELSE Step(leaves[k - 1])
  <2> HIDE DEF C
  <2> QED BY <1>12
<1>14. \A k \in 0..C : \A T \in SUBSET Node :
          leaves[k][T] = IF k = 0 THEN <<T>> ELSE LeavesOf(leaves[k - 1], T)
  BY <1>13 DEF Step, v
<1> QED BY <1>2, <1>14

\* The components that depend on no other.
Leaves == {T \in SUBSET Node : DependenciesOf(T) = {} /\ \E m \in Node : T = Scc(Edges, m)}

\* _find_leaf_supernodes() finds nothing else: the search goes from a component to one from
\* which fewer nodes can be reached, so it does not end before.
LEMMA LeavesAreLeaves ==
    ASSUME ports \in Seq(Port), NEW n \in Node
    PROVE  LeafSupernodes(n) \in Seq(Leaves)
<1> DEFINE C == Cardinality(Node)
           R(m) == Reach(Edges, m)
<1>1. C \in Nat /\ IsFiniteSet(Node) BY GraphAssumption, FS_CardinalityType
<1>2. PICK f : /\ LeafSupernodes(n) = f[C][Scc(Edges, n)]
               /\ \A k \in 0..C : \A T \in SUBSET Node :
                     f[k][T] = IF k = 0 THEN <<T>> ELSE LeavesOf(f[k - 1], T)
  BY LeavesSteps
<1>3. Edges \in SUBSET DOMAIN ports /\ \A p \in Edges : ports[p].source \in Node
  <2>1. \A p \in DOMAIN ports : ports[p] \in Port BY ElementOfSeq, LenProperties
  <2> QED BY <2>1 DEF Edges, Port
<1>4. \A m \in Node : /\ R(m) \in SUBSET Node /\ m \in R(m)
                      /\ \A p \in Edges : ports[p].node \in R(m) => ports[p].source \in R(m)
  BY <1>3, ReachClosed
<1>5. \A m \in Node : IsFiniteSet(R(m)) /\ Cardinality(R(m)) \in 0..C
  <2> SUFFICES ASSUME NEW m \in Node PROVE IsFiniteSet(R(m)) /\ Cardinality(R(m)) \in 0..C
    OBVIOUS
  <2>1. R(m) \in SUBSET Node BY <1>4
  <2> HIDE DEF R
  <2>2. IsFiniteSet(R(m)) /\ Cardinality(R(m)) <= C BY <1>1, <2>1, FS_Subset
  <2>3. Cardinality(R(m)) \in Nat BY <2>2, FS_CardinalityType
  <2> QED BY <1>1, <2>2, <2>3
<1>6. ASSUME NEW m \in Node, NEW p \in DependenciesOf(Scc(Edges, m))
      PROVE  ports[p].source \in Node /\ Cardinality(R(ports[p].source)) < Cardinality(R(m))
  <2> DEFINE b == ports[p].source
  <2>1. /\ p \in Edges /\ ports[p].node \in R(m) /\ b \in Node
        /\ ~(b \in R(m) /\ m \in R(b))
    BY <1>3, <1>6 DEF DependenciesOf, Scc
  <2>2. b \in R(m) BY <1>4, <2>1
  <2>3. R(b) \in SUBSET R(m) BY <1>3, <1>4, <2>2, ReachWithin
  <2>4. m \in R(m) /\ m \notin R(b) BY <1>4, <2>1, <2>2
  <2> HIDE DEF R, b
  <2>5. IsFiniteSet(R(m)) /\ Cardinality(R(m)) \in Nat /\ Cardinality(R(b)) \in Nat
    BY <1>5, <2>1
  <2>6. Cardinality(R(b)) <= Cardinality(R(m)) /\ Cardinality(R(b)) # Cardinality(R(m))
    BY <2>3, <2>4, <2>5, FS_Subset
  <2> QED BY <2>1, <2>5, <2>6 DEF b
<1> DEFINE Q == Leaves
           good == [k \in 0..C |-> \A m \in Node :
                       Cardinality(R(m)) <= k => f[k][Scc(Edges, m)] \in Seq(Q)]
<1>7. ASSUME NEW k \in 0..C, k = 0 \/ good[k - 1] \in {TRUE} PROVE good[k] \in {TRUE}
  <2> SUFFICES ASSUME NEW m \in Node, Cardinality(R(m)) <= k
               PROVE  f[k][Scc(Edges, m)] \in Seq(Q)
    OBVIOUS
  <2> HIDE DEF C, Q
  <2>1. k # 0
    <3>1. Cardinality(R(m)) # 0 BY <1>4, <1>5, FS_EmptySet
    <3> QED BY <1>1, <1>5, <3>1
  <2>2. k - 1 \in 0..C /\ k \in Nat BY <1>1, <2>1
  <2> DEFINE T == Scc(Edges, m)  w == f[k - 1]
  <2>3. f[k][T] = LeavesOf(w, T) BY <1>2, <2>1 DEF Scc
  <2>4. DependenciesOf(T) = {} => T \in Q BY DEF Q, Leaves, Scc
  <2>5. ASSUME NEW p \in DependenciesOf(T) PROVE w[Scc(Edges, ports[p].source)] \in Seq(Q)
    <3>1. ports[p].source \in Node /\ Cardinality(R(ports[p].source)) < Cardinality(R(m))
      BY <1>6
    <3>2. Cardinality(R(ports[p].source)) <= k - 1 BY <1>1, <1>5, <2>2, <3>1
    <3> QED BY <1>7, <2>1, <2>2, <3>1, <3>2
  <2> HIDE DEF T, w
  <2> QED BY <2>3, <2>4, <2>5, LeavesOneStep DEF T
<1>8. \A k \in 0..C : good[k] \in {TRUE}
  <2> HIDE DEF good, C
  <2>1. 0 \in Nat OBVIOUS
  <2> QED BY <1>1, <1>7, <2>1, RecursionStays
<1>9. C \in 0..C BY <1>1
<1>10. Cardinality(R(n)) <= C BY <1>1, <1>5
<1>11. good[C] BY <1>8, <1>9
<1> QED BY <1>2, <1>9, <1>10, <1>11

\* _find_leaf_supernodes() finds at least one, and none outside of a set that no stale
\* connection leaves.
LEMMA LeavesWithin ==
    ASSUME ports \in Seq(Port), NEW S \in SUBSET Node, NEW n \in S,
           \A p \in Edges : ports[p].node \in S => ports[p].source \in S
    PROVE  LeafSupernodes(n) \in Seq(SUBSET S) \ {<<>>}
<1> DEFINE C == Cardinality(Node)
<1>1. C \in Nat BY GraphAssumption, FS_CardinalityType
<1>2. PICK f : /\ LeafSupernodes(n) = f[C][Scc(Edges, n)]
               /\ \A k \in 0..C : \A T \in SUBSET Node :
                     f[k][T] = IF k = 0 THEN <<T>> ELSE LeavesOf(f[k - 1], T)
  BY LeavesSteps
<1>3. Edges \in SUBSET DOMAIN ports /\ \A p \in Edges : ports[p].source \in Node
  <2>1. \A p \in DOMAIN ports : ports[p] \in Port BY ElementOfSeq, LenProperties
  <2> QED BY <2>1 DEF Edges, Port
<1>4. ASSUME NEW m \in S PROVE Scc(Edges, m) \in SUBSET S
  <2>1. Reach(Edges, m) \in SUBSET S BY <1>3, ReachWithin
  <2> QED BY <2>1 DEF Scc
<1> DEFINE Q == SUBSET S
           good == [k \in 0..C |-> \A T \in SUBSET S : f[k][T] \in Seq(Q) \ {<<>>}]
<1>5. ASSUME NEW k \in 0..C, k = 0 \/ good[k - 1] \in {TRUE} PROVE good[k] \in {TRUE}
  <2> SUFFICES ASSUME NEW T \in SUBSET S PROVE f[k][T] \in Seq(Q) \ {<<>>} OBVIOUS
  <2>1. T \in SUBSET Node /\ T \in Q OBVIOUS
  <2> HIDE DEF C, Q
  <2>2. CASE k = 0
    <3>1. f[k][T] = <<T>> BY <1>2, <2>1, <2>2
    <3>2. <<T>> \in Seq(Q) BY <2>1, SeqDef
    <3> QED BY <3>1, <3>2
  <2>3. CASE k # 0
    <3>1. k - 1 \in 0..C BY <1>1, <2>3
    <3> DEFINE w == f[k - 1]
    <3>2. f[k][T] = LeavesOf(w, T) BY <1>2, <2>1, <2>3
    <3>3. ASSUME NEW p \in DependenciesOf(T)
          PROVE  w[Scc(Edges, ports[p].source)] \in Seq(Q) \ {<<>>}
      <4>1. ports[p].source \in S BY DEF DependenciesOf
      <4> QED BY <1>4, <1>5, <2>3, <3>1, <4>1
    <3> HIDE DEF w
    <3> QED BY <2>1, <3>2, <3>3, LeavesOneStep
  <2> QED BY <2>2, <2>3
<1>6. \A k \in 0..C : good[k] \in {TRUE}
  <2> HIDE DEF good, C
  <2>1. 0 \in Nat OBVIOUS
  <2> QED BY <1>1, <1>5, <2>1, RecursionStays
<1>7. C \in 0..C BY <1>1
<1>8. good[C] BY <1>6, <1>7
<1> QED BY <1>2, <1>4, <1>7, <1>8

\* _find_leaf_supernodes() lists sets of nodes.
LEMMA LeavesType ==
    ASSUME ports \in Seq(Port), NEW n \in Node
    PROVE  LeafSupernodes(n) \in Seq(SUBSET Node)
<1>1. \A p \in DOMAIN ports : ports[p] \in Port BY ElementOfSeq, LenProperties
<1>2. \A p \in Edges : ports[p].source \in Node BY <1>1 DEF Edges, Port
<1>3. LeafSupernodes(n) \in Seq(SUBSET Node) \ {<<>>} BY <1>2, LeavesWithin
<1> QED BY <1>3

-----------------------------------------------------------------------------
(* The inductive invariant.                                                   *)

\* Nobody has the empty tuple for a generation.
Numbered ==
    /\ \A n \in Node : gen[n] # <<>>
    /\ \A p \in DOMAIN ports : last[p] # <<>>

\* Who is somewhere: queued, parked, away or running.
Busy(n) == ~Nowhere(n) \/ n \in away \/ running = n

\* Nobody is in two places: a task that is away or runs is in none of the structures of the
\* loop.
Placed ==
    /\ Apart
    /\ \A n \in away : Nowhere(n) /\ running # n
    /\ running # NoTask => loop = "running" /\ Nowhere(running)

\* From the gathering of the inputs to the push of the last data.
Gathered(n) ==
    \/ at[n] \in {"latch", "body", "call", "begin", "stream", "stalled", "passed"}
    \/ at[n] \in {"acquire", "notify", "release"} /\ Len(gen[n]) = 2

\* What the place where a task stands says of the rest of the state.
Mark(t) ==
    /\ at[t] \in {"acquire", "notify", "release"} => putting[t] # <<>>
    /\ t = Main => (at[t] \in {"took", "left"} => work # <<>>)
    /\ t \in Node =>
          /\ at[t] = "stalled" => stalledOn[t] \in DOMAIN ports
          /\ Gathered(t) => \A p \in Inputs(t) :
                               p \in reading[t].default \/ gen[ports[p].source] # None

Marks == \A t \in Task : Mark(t)

Counted == {n \in visited : InFlight(n) \/ status[n] = "stalled"}

\* What the flow knows of its nodes.
Books ==
    /\ \A n \in Node : /\ Busy(n) => InFlight(n) /\ n \in visited
                       /\ status[n] = "stalled" \/ gen[n] # None => n \in visited
    /\ IsInjective(unvisited)
    /\ \A n \in ToSet(unvisited) : n \notin visited /\ status[n] = "waiting"
    /\ pending = Cardinality(Counted)
    /\ {n \in visited : InFlight(n)} \subseteq active

Inv == SyncInv /\ TypeOK /\ Numbered /\ Placed /\ Marks /\ (loop = "running" => Books)

\* The types that the steps below ask for most.
LEMMA Types ==
    ASSUME TypeOK
    PROVE  /\ ports \in Seq(Port) /\ DOMAIN at = Task /\ away \subseteq Node
           /\ running \in TaskOrNone
           /\ \A p \in DOMAIN ports : ports[p] \in Port
           /\ \A p \in DOMAIN ports : ports[p].node \in Node /\ ports[p].source \in Node
<1>1. ports \in Seq(Port) BY DEF TypeOK, ResolutionTypeOK, GraphTypeOK
<1>2. \A p \in DOMAIN ports : ports[p] \in Port BY <1>1, ElementOfSeq, LenProperties
<1>3. \A p \in DOMAIN ports : ports[p].node \in Node /\ ports[p].source \in Node
  BY <1>2 DEF Port
<1> QED BY <1>1, <1>2, <1>3 DEF TypeOK, ResolutionTypeOK

-----------------------------------------------------------------------------
(* Where the tasks are.                                                       *)

\* The tasks are the nodes and Main; both conditions are conditions of the one lock.
LEMMA Constants ==
    /\ Node \subseteq Task /\ Main \in Task /\ Main \notin Node /\ NoTask \notin Task
    /\ IsFiniteSet(Node)
    /\ queueLock \in Lock /\ notEmpty \in Cond /\ notFull \in Cond /\ notEmpty # notFull
    /\ LockOf[notEmpty] = queueLock /\ LockOf[notFull] = queueLock
<1>1. LockOf[notEmpty] \in Lock /\ LockOf[notFull] \in Lock BY SyncAssumption, FlowAssumption
<1> QED BY <1>1, SyncAssumption, FlowAssumption, GraphAssumption

\* The running task is queued or parked.
LEMMA Suspended ==
    ASSUME Placed, NEW t \in Task, running = t, Parks(t), running' = NoTask,
           away \subseteq Node, away' = away
    PROVE  Placed' /\ \A n \in Node : Busy(n)' <=> Busy(n)
<1>1. Apart' /\ \A x \in Task : Nowhere(x)' <=> (Nowhere(x) /\ x # t) BY DEF Parks
<1>2. Placed' BY <1>1, Constants DEF Placed
<1>3. \A n \in Node : Busy(n)' <=> Busy(n) BY <1>1, Constants DEF Busy, Placed
<1> QED BY <1>2, <1>3

\* The running task waits for something that the loop does not know of.
LEMMA Left ==
    ASSUME Placed, Keeps, running \in TaskOrNone, running' = NoTask,
           away \subseteq Node, away' = away
    PROVE  Placed' /\ \A n \in Node : Busy(n)' <=> (Busy(n) /\ running # n)
<1>1. Apart' /\ \A x \in Task : Nowhere(x)' <=> Nowhere(x) BY DEF Keeps
<1>2. Placed' BY <1>1, Constants DEF Placed
<1>3. \A n \in Node : Busy(n)' <=> (Busy(n) /\ running # n)
  BY <1>1, Constants DEF Busy, Placed
<1> QED BY <1>2, <1>3

\* The running node awaits something else than the loop.
LEMMA WentAway ==
    ASSUME Placed, Keeps, NEW n \in Node, running = n, running' = NoTask,
           away \subseteq Node, away' = away \cup {n}
    PROVE  Placed' /\ \A m \in Node : Busy(m)' <=> Busy(m)
<1>1. Apart' /\ \A x \in Task : Nowhere(x)' <=> Nowhere(x) BY DEF Keeps
<1>2. Placed' BY <1>1, Constants DEF Placed
<1>3. \A m \in Node : Busy(m)' <=> Busy(m) BY <1>1, Constants DEF Busy, Placed
<1> QED BY <1>2, <1>3

\* The running task goes on.
LEMMA Stayed ==
    ASSUME Placed, Keeps, running \in TaskOrNone, running' = running, loop' = loop,
           away \subseteq Node, away' = away
    PROVE  Placed' /\ \A n \in Node : Busy(n)' <=> Busy(n)
<1>1. Apart' /\ \A x \in Task : Nowhere(x)' <=> Nowhere(x) BY DEF Keeps
<1>2. Placed' BY <1>1, Constants DEF Placed, TaskOrNone
<1>3. \A n \in Node : Busy(n)' <=> Busy(n) BY <1>1, Constants DEF Busy, Placed
<1> QED BY <1>2, <1>3

\* What a step of t leaves alone of the place of another task.
SameMark(x) ==
    /\ at'[x] = at[x] /\ putting'[x] = putting[x]
    /\ x = Main => work' = work
    /\ x \in Node => /\ stalledOn'[x] = stalledOn[x] /\ gen'[x] = gen[x]
                     /\ reading'[x].default = reading[x].default

\* A step of t keeps the marks of the others.
LEMMA MarksKept ==
    ASSUME Marks, ports' = ports, ports \in Seq(Port),
           \A n \in Node : gen[n] # None => gen'[n] # None,
           NEW t, Mark(t)', \A x \in Task \ {t} : SameMark(x)
    PROVE  Marks'
<1> SUFFICES ASSUME NEW x \in Task \ {t} PROVE Mark(x)' BY DEF Marks
<1>1. Mark(x) /\ SameMark(x) BY DEF Marks
<1>2. \A p \in DOMAIN ports : ports[p].source \in Node
  <2>1. \A p \in DOMAIN ports : ports[p] \in Port BY ElementOfSeq, LenProperties
  <2> QED BY <2>1 DEF Port
<1>3. Inputs(x)' = Inputs(x) BY DEF Inputs
<1>4. Gathered(x)' => Gathered(x) \/ x \notin Node BY <1>1 DEF SameMark, Gathered
<1>5. \A p \in Inputs(x) : gen[ports[p].source] # None => gen'[ports[p].source] # None
  BY <1>2 DEF Inputs
<1>6. CASE x \in Node
  <2>1. x # Main BY <1>6, Constants
  <2>2. Gathered(x)' => \A p \in Inputs(x)' :
           p \in reading'[x].default \/ gen'[ports'[p].source] # None
    BY <1>1, <1>3, <1>4, <1>5, <1>6 DEF Mark, SameMark
  <2>3. /\ at'[x] \in {"acquire", "notify", "release"} => putting'[x] # <<>>
        /\ at'[x] = "stalled" => stalledOn'[x] \in DOMAIN ports'
    BY <1>1, <1>6 DEF Mark, SameMark
  <2> QED BY <1>6, <2>1, <2>2, <2>3 DEF Mark
<1>7. CASE x \notin Node
  BY <1>1, <1>7 DEF Mark, SameMark
<1> QED BY <1>6, <1>7

\* A step that changes no book and puts nobody anywhere.
LEMMA BooksKept ==
    ASSUME Books, UNCHANGED <<status, unvisited, visited, active, pending>>,
           \A n \in Node : Busy(n)' => Busy(n),
           \A n \in Node : gen'[n] # None => gen[n] # None \/ Busy(n)
    PROVE  Books'
<1>1. Counted' = Counted BY DEF Counted, InFlight
<1>2. \A n \in Node : InFlight(n)' <=> InFlight(n) BY DEF InFlight
<1>3. {n \in visited' : InFlight(n)'} = {n \in visited : InFlight(n)} BY DEF InFlight
<1> QED BY <1>1, <1>2, <1>3 DEF Books

\* A step of t that pushes no data and gathers no inputs.
LEMMA MarksMove ==
    ASSUME Marks, ports' = ports, ports \in Seq(Port), gen' = gen,
           \A n \in Node : reading'[n].default = reading[n].default,
           NEW t \in Task, NEW place, DOMAIN at = Task, at' = [at EXCEPT ![t] = place],
           \A x \in Task \ {t} : putting'[x] = putting[x],
           \A n \in Node \ {t} : stalledOn'[n] = stalledOn[n],
           place \in {"acquire", "notify", "release"} => putting'[t] # <<>>,
           IF t = Main THEN place \in {"took", "left"} => work' # <<>>
           ELSE /\ work' = work
                /\ place = "stalled" => stalledOn'[t] \in DOMAIN ports
                /\ Gathered(t)' => Gathered(t)
    PROVE  Marks'
<1>1. \A x \in Task \ {t} : SameMark(x)
  <2>1. \A x \in Task \ {t} : at'[x] = at[x] /\ (x = Main => work' = work) OBVIOUS
  <2> QED BY <2>1, Zenon DEF SameMark
<1>2. at'[t] = place OBVIOUS
<1>3. Inputs(t)' = Inputs(t) BY DEF Inputs
<1>4. ASSUME t # Main PROVE Mark(t)'
  <2>1. Mark(t) /\ t \in Node BY <1>4, FlowAssumption DEF Marks
  <2>2. reading'[t].default = reading[t].default BY <2>1
  <2>3. Gathered(t) => \A p \in Inputs(t) : p \in reading[t].default \/ gen[ports[p].source] # None
    BY <2>1 DEF Mark
  <2>4. ASSUME Gathered(t)'
        PROVE  \A p \in Inputs(t)' :
                  p \in reading'[t].default \/ gen'[ports'[p].source] # None
    <3>1. Gathered(t) BY <1>4, <2>4
    <3>2. \A p \in Inputs(t) : p \in reading[t].default \/ gen[ports[p].source] # None
      BY <2>3, <3>1
    <3> QED BY <1>3, <2>2, <3>2
  <2>5. at'[t] = "stalled" => stalledOn'[t] \in DOMAIN ports' BY <1>2, <1>4
  <2>6. at'[t] \in {"acquire", "notify", "release"} => putting'[t] # <<>> BY <1>2
  <2> QED BY <1>4, <2>4, <2>5, <2>6, Zenon DEF Mark
<1>5. ASSUME t = Main PROVE Mark(t)'
  BY <1>2, <1>5, Constants DEF Mark
<1>6. Mark(t)' BY <1>4, <1>5
<1> QED BY <1>1, <1>6, MarksKept

\* A node that gathers other inputs, or whose record of them loses some, keeps the type.
LEMMA ReadingType ==
    ASSUME NEW P, NEW S \in SUBSET P, NEW n \in Node,
           NEW f \in [Node -> [count : SUBSET P, default : SUBSET P, open : SUBSET P]]
    PROVE  /\ \A r \in [count : SUBSET P, default : SUBSET P, open : SUBSET P] :
                 [f EXCEPT ![n] = r]
                    \in [Node -> [count : SUBSET P, default : SUBSET P, open : SUBSET P]]
           /\ [f EXCEPT ![n].count = @ \ S]
                 \in [Node -> [count : SUBSET P, default : SUBSET P, open : SUBSET P]]
           /\ [f EXCEPT ![n].open = @ \ S]
                 \in [Node -> [count : SUBSET P, default : SUBSET P, open : SUBSET P]]
<1>1. f[n] \in [count : SUBSET P, default : SUBSET P, open : SUBSET P] OBVIOUS
<1>2. [f[n] EXCEPT !.count = @ \ S] \in [count : SUBSET P, default : SUBSET P, open : SUBSET P]
  BY <1>1
<1>3. [f[n] EXCEPT !.open = @ \ S] \in [count : SUBSET P, default : SUBSET P, open : SUBSET P]
  BY <1>1
<1> QED BY <1>2, <1>3

-----------------------------------------------------------------------------
(* Each step keeps the invariant.                                             *)

\* A put() leaves the lock.
LEMMA PutNotifiedKeeps ==
    ASSUME Inv, NEW t \in Task, PutNotified(t), UNCHANGED chunkVars
    PROVE  Inv'
<1> USE DEF Inv
<1>1. /\ running = t /\ at[t] = "notify" /\ running' = NoTask
      /\ at' = [at EXCEPT ![t] = "release"] /\ LockRelease(t, queueLock)
      /\ UNCHANGED <<streamVars, loop, away, statusVars, bookVars, queueVars, dataVars,
                     putting, work, chunkVars>>
  BY DEF PutNotified, Await
<1>2. SyncInv' BY <1>1, Constants, LockReleaseInv
<1>3. Placed' /\ \A n \in Node : Busy(n)' <=> Busy(n)
  <2>1. Nowhere(t) /\ Apart BY <1>1, Constants DEF Placed
  <2>2. Parks(t) BY <1>1, <2>1, Constants, LockReleaseParks DEF SyncInv
  <2> QED BY <1>1, <2>2, Suspended DEF TypeOK, ResolutionTypeOK
<1>4. TypeOK'
  BY <1>1, <1>2 DEF TypeOK, ResolutionTypeOK, GraphTypeOK, StreamTypeOK, SyncInv, TaskOrNone,
     streamVars, statusVars, bookVars, queueVars, dataVars, chunkVars
<1>5. Numbered' BY <1>1 DEF Numbered, streamVars, dataVars, chunkVars
<1>6. Marks'
  <2>1. putting'[t] # <<>> BY <1>1, Constants DEF Marks, Mark
  <2>2. Gathered(t)' => Gathered(t) BY <1>1, Types DEF Gathered, dataVars
  <2>3. /\ UNCHANGED <<ports, gen, work, reading, putting, stalledOn>>
        /\ DOMAIN at = Task /\ ports \in Seq(Port)
    BY <1>1, Types DEF streamVars, dataVars, statusVars
  <2> QED BY <1>1, <2>1, <2>2, <2>3, MarksMove
<1>7. loop' = "running" => Books'
  BY <1>1, <1>3, BooksKept DEF statusVars, bookVars, dataVars
<1> QED BY <1>2, <1>3, <1>4, <1>5, <1>6, <1>7

\* The item is in the queue, or joins it; or the queue is closed.
LEMMA PutBodyKeeps ==
    ASSUME Inv, NEW t \in Task, PutBody(t), UNCHANGED chunkVars
    PROVE  Inv'
<1> USE DEF Inv
<1> DEFINE Set(place) == at' = [at EXCEPT ![t] = place]
           i == Head(putting[t])
<1>1. /\ running = t /\ at[t] = "acquire" /\ running' = NoTask
      /\ UNCHANGED <<streamVars, away, statusVars, bookVars, closed, dataVars, putting, work,
                     chunkVars>>
      /\ \/ Set("release") /\ LockRelease(t, queueLock) /\ UNCHANGED <<items, loop>>
         \/ Set("dead") /\ UNCHANGED <<tasks, syncVars, loop, items>>
         \/ loop' = "error" /\ UNCHANGED <<tasks, syncVars, at, items>>
         \/ /\ Set("notify") /\ items' = Append(items, i) /\ UNCHANGED loop
            /\ ConditionNotify(t, notEmpty, FALSE)
  BY DEF PutBody, PutFails, Await, End
<1>2. putting[t] \in Seq(Node) /\ putting[t] # <<>>
  BY <1>1 DEF Marks, Mark, TypeOK, ResolutionTypeOK
<1>3. i \in Node BY <1>2, HeadTailProperties
<1>4. Nowhere(t) /\ Apart /\ SyncTypeOK BY <1>1, Constants DEF Placed, SyncInv
<1>5. away \subseteq Node /\ away' = away /\ running \in TaskOrNone BY <1>1, Types
<1>6. SyncInv' /\ Placed' /\ \A n \in Node : Busy(n)' => Busy(n)
  <2>1. CASE LockRelease(t, queueLock)
    <3>1. SyncInv' BY <2>1, Constants, LockReleaseInv
    <3>2. Parks(t) BY <1>4, <2>1, Constants, LockReleaseParks
    <3> QED BY <1>1, <1>5, <3>1, <3>2, Suspended
  <2>2. CASE UNCHANGED <<tasks, syncVars>>
    <3>1. SyncInv' /\ Keeps BY <1>4, <2>2, NothingMoves
    <3> QED BY <1>1, <1>5, <3>1, Left
  <2>3. CASE ConditionNotify(t, notEmpty, FALSE)
    <3>1. SyncInv' BY <2>3, Constants, ConditionNotifyInv
    <3>2. Parks(t) BY <1>4, <2>3, Constants, ConditionNotifyParks
    <3> QED BY <1>1, <1>5, <3>1, <3>2, Suspended
  <2> QED BY <1>1, <2>1, <2>2, <2>3
<1>7. TypeOK'
  <2> HIDE DEF i
  <2>4. items \in Seq(Node) BY DEF TypeOK, ResolutionTypeOK
  <2>5. Append(items, i) \in Seq(Node) BY <1>3, <2>4, AppendProperties
  <2>1. items' \in Seq(Node) BY <1>1, <2>4, <2>5
  <2>2. loop' \in {"running", "done", "limit", "error"} BY <1>1 DEF TypeOK, ResolutionTypeOK
  <2>3. at' = at \/ \E place \in {"release", "notify", "dead"} : Set(place) BY <1>1
  <2> QED BY <1>1, <1>6, <2>1, <2>2, <2>3
        DEF TypeOK, ResolutionTypeOK, GraphTypeOK, StreamTypeOK, SyncInv, TaskOrNone,
            streamVars, statusVars, bookVars, dataVars, chunkVars
<1>8. Numbered' BY <1>1 DEF Numbered, streamVars, dataVars, chunkVars
<1>9. Marks'
  <2>4. at = [at EXCEPT ![t] = "acquire"] BY <1>1 DEF TypeOK, ResolutionTypeOK
  <2>1. PICK place \in {"release", "notify", "dead", "acquire"} :
           at' = [at EXCEPT ![t] = place]
    BY <1>1, <2>4
  <2>2. Gathered(t)' => Gathered(t) BY <1>1, <2>1, Types DEF Gathered, dataVars
  <2>3. /\ UNCHANGED <<ports, gen, work, reading, putting, stalledOn>>
        /\ DOMAIN at = Task /\ ports \in Seq(Port)
    BY <1>1, Types DEF streamVars, dataVars, statusVars
  <2> QED BY <1>1, <1>2, <2>1, <2>2, <2>3, MarksMove
<1>10. loop' = "running" => Books'
  <2>1. loop' = "running" => loop = "running" BY <1>1
  <2> QED BY <1>1, <1>6, <2>1, BooksKept DEF statusVars, bookVars, dataVars
<1> QED BY <1>6, <1>7, <1>8, <1>9, <1>10

\* The beginning of a put() of a list: the task acquires the lock of the queue.
LEMMA PutFirstMoves ==
    ASSUME Inv, NEW t \in Task, running = t, NEW list \in Seq(Node),
           PutFirst(t, list), away' = away
    PROVE  /\ SyncInv' /\ Placed' /\ \A n \in Node : Busy(n)' <=> Busy(n)
           /\ running' = NoTask
           /\ at' = [at EXCEPT ![t] = "acquire"]
           /\ putting' = [putting EXCEPT ![t] = list]
           /\ putting' \in [Task -> Seq(Node)]
<1> USE DEF Inv
<1>1. Nowhere(t) /\ Apart /\ SyncTypeOK BY Constants DEF Placed, SyncInv
<1>2. LockAcquire(t, queueLock) /\ running' = NoTask BY DEF PutFirst, Await
<1>3. SyncInv' BY <1>2, Constants, LockAcquireInv
<1>4. Parks(t) BY <1>1, <1>2, Constants, LockAcquireParks
<1>5. away \subseteq Node BY Types
<1>6. Placed' /\ \A n \in Node : Busy(n)' <=> Busy(n) BY <1>2, <1>4, <1>5, Suspended
<1>7. putting \in [Task -> Seq(Node)] BY DEF TypeOK, ResolutionTypeOK
<1> QED BY <1>3, <1>6, <1>7 DEF PutFirst, Await

\* The next of the items to put.
LEMMA PutNextKeeps ==
    ASSUME Inv, NEW t \in Task, PutNext(t), UNCHANGED chunkVars
    PROVE  Inv'
<1> USE DEF Inv
<1> DEFINE list == Tail(putting[t])
<1>1. /\ running = t /\ at[t] = "release" /\ Len(putting[t]) > 1 /\ PutFirst(t, list)
      /\ UNCHANGED <<streamVars, loop, away, statusVars, bookVars, queueVars, dataVars, work,
                     chunkVars>>
  BY DEF PutNext
<1>2. list \in Seq(Node) /\ list # <<>>
  <2>1. putting[t] \in Seq(Node) BY DEF TypeOK, ResolutionTypeOK
  <2>2. putting[t] # <<>> BY <1>1, <2>1, EmptySeq
  <2>3. list \in Seq(Node) /\ Len(list) = Len(putting[t]) - 1
    BY <2>1, <2>2, HeadTailProperties
  <2> HIDE DEF list
  <2>5. Len(putting[t]) \in Nat BY <2>1, LenProperties
  <2>6. Len(list) = Len(putting[t]) - 1 /\ Len(putting[t]) > 1 BY <1>1, <2>3
  <2> DEFINE k == Len(list)  m == Len(putting[t])
  <2>4. k # 0
    <3>1. k = m - 1 /\ m > 1 /\ m \in Nat BY <2>5, <2>6
    <3> HIDE DEF k, m
    <3> QED BY <3>1
  <2> QED BY <2>3, <2>4, EmptySeq
<1> HIDE DEF list
<1>3. /\ SyncInv' /\ Placed' /\ \A n \in Node : Busy(n)' <=> Busy(n)
      /\ running' = NoTask /\ at' = [at EXCEPT ![t] = "acquire"]
      /\ putting' = [putting EXCEPT ![t] = list] /\ putting' \in [Task -> Seq(Node)]
  <2>1. away' = away BY <1>1
  <2> QED BY <1>1, <1>2, <2>1, PutFirstMoves
<1>4. TypeOK'
  BY <1>1, <1>3 DEF TypeOK, ResolutionTypeOK, GraphTypeOK, StreamTypeOK, SyncInv, TaskOrNone,
     streamVars, statusVars, bookVars, queueVars, dataVars, chunkVars
<1>5. Numbered' BY <1>1 DEF Numbered, streamVars, dataVars, chunkVars
<1>6. Marks'
  <2>1. putting'[t] = list /\ \A x \in Task \ {t} : putting'[x] = putting[x]
    BY <1>3 DEF TypeOK, ResolutionTypeOK
  <2>2. Gathered(t)' => Gathered(t) BY <1>1, <1>3, Types DEF Gathered, dataVars
  <2>3. /\ UNCHANGED <<ports, gen, work, reading, stalledOn>>
        /\ DOMAIN at = Task /\ ports \in Seq(Port)
    BY <1>1, Types DEF streamVars, dataVars, statusVars
  <2> QED BY <1>2, <1>3, <2>1, <2>2, <2>3, MarksMove
<1>7. loop' = "running" => Books'
  BY <1>1, <1>3, BooksKept DEF statusVars, bookVars, dataVars
<1> QED BY <1>3, <1>4, <1>5, <1>6, <1>7

\* A step that moves nobody in his code.
LEMMA MarksStand ==
    ASSUME Marks, UNCHANGED <<ports, at, gen, reading, putting, stalledOn, work>>
    PROVE  Marks'
BY DEF Marks, Mark, Gathered, Inputs

\* The loop resumes the task at the head of its queue.
LEMMA DispatchKeeps ==
    ASSUME Inv, Dispatch, UNCHANGED chunkVars
    PROVE  Inv'
<1> USE DEF Inv
<1> DEFINE t == Head(tasks).task
<1>1. /\ loop = "running" /\ running = NoTask /\ tasks # <<>> /\ running' = t
      /\ status' = IF t \in Node THEN [status EXCEPT ![t] = "executing"] ELSE status
      /\ tasks' = Tail(tasks)
      /\ UNCHANGED <<stalledOn, syncVars, streamVars, loop, at, away, bookVars, queueVars,
                     dataVars, putting, work, chunkVars>>
  BY DEF Dispatch
<1>2. Apart BY DEF Placed
<1>3. /\ SyncInv' /\ Apart' /\ t \in Task /\ t \in Ready
      /\ \A x \in Task : Nowhere(x)' <=> (Nowhere(x) \/ x = t)
  BY <1>1, <1>2, PopMoves
<1> HIDE DEF t
<1>4. ~Nowhere(t) BY <1>3 DEF Nowhere
<1>5. away \subseteq Node BY Types
<1>6. Placed' BY <1>1, <1>3, <1>4, <1>5, Constants DEF Placed
<1>7. \A n \in Node : Busy(n)' <=> Busy(n) BY <1>1, <1>3, <1>4, Constants DEF Busy
<1>8. TypeOK'
  BY <1>1, <1>3 DEF TypeOK, ResolutionTypeOK, GraphTypeOK, StreamTypeOK, SyncInv, TaskOrNone,
     streamVars, bookVars, queueVars, dataVars, chunkVars
<1>9. Numbered' BY <1>1 DEF Numbered, streamVars, dataVars, chunkVars
<1>10. Marks' BY <1>1, MarksStand DEF streamVars, dataVars
<1>11. Books'
  <2>1. Books /\ UNCHANGED <<unvisited, visited, active, pending, gen>>
    BY <1>1 DEF bookVars, dataVars
  <2>2. t \in Node => InFlight(t) /\ t \in visited BY <1>4, <2>1 DEF Books, Busy
  <2>3. \A n \in Node : /\ InFlight(n)' <=> InFlight(n)
                        /\ status'[n] = "stalled" <=> status[n] = "stalled"
                        /\ status'[n] = "waiting" <=> status[n] = "waiting"
    BY <1>1, <2>2 DEF InFlight, TypeOK, ResolutionTypeOK, GraphTypeOK
  <2>4. visited \subseteq Node /\ unvisited \in Seq(Node) BY DEF TypeOK, ResolutionTypeOK
  <2>5. Counted' = Counted /\ {n \in visited : InFlight(n)}' = {n \in visited : InFlight(n)}
    BY <2>1, <2>3, <2>4 DEF Counted
  <2>6. ToSet(unvisited) \subseteq Node BY <2>4, QueueMembers
  <2>7. /\ \A n \in Node : /\ Busy(n)' => InFlight(n)' /\ n \in visited'
                           /\ status'[n] = "stalled" \/ gen'[n] # None => n \in visited'
        /\ \A n \in ToSet(unvisited') : n \notin visited' /\ status'[n] = "waiting"
    BY <1>7, <2>1, <2>3, <2>6 DEF Books
  <2> QED BY <2>1, <2>5, <2>7 DEF Books
<1> QED BY <1>3, <1>6, <1>8, <1>9, <1>10, <1>11

\* What a node awaits happens: it is queued again.
LEMMA WakeKeeps ==
    ASSUME Inv, NEW n \in Node, Wake(n), UNCHANGED chunkVars
    PROVE  Inv'
<1> USE DEF Inv
<1>1. /\ loop = "running" /\ running = NoTask /\ n \in away /\ away' = away \ {n}
      /\ Requeue(n)
      /\ UNCHANGED <<syncVars, streamVars, loop, running, at, statusVars, bookVars, queueVars,
                     dataVars, putting, work, chunkVars>>
  BY DEF Wake
<1>2. n \in Task /\ Apart /\ Nowhere(n) /\ SyncTypeOK
  BY <1>1, Constants DEF Placed, SyncInv
<1>3. Parks(n) BY <1>1, <1>2, RequeueParks
<1>4. Apart' /\ \A x \in Task : Nowhere(x)' <=> (Nowhere(x) /\ x # n)
  BY <1>3 DEF Parks
<1>5. SyncInv'
  <2>1. tasks' \in Seq(Packet) BY <1>1, <1>2, RequeueType
  <2> QED BY <1>1, <2>1, QueueInv
<1>6. away \subseteq Node BY Types
<1>7. Placed' BY <1>1, <1>4, <1>6, Constants DEF Placed
<1>8. \A m \in Node : Busy(m)' <=> Busy(m) BY <1>1, <1>4, <1>6, Constants DEF Busy
<1>9. TypeOK'
  BY <1>1, <1>5 DEF TypeOK, ResolutionTypeOK, GraphTypeOK, StreamTypeOK, SyncInv, TaskOrNone,
     streamVars, statusVars, bookVars, queueVars, dataVars, chunkVars
<1>10. Numbered' BY <1>1 DEF Numbered, streamVars, dataVars, chunkVars
<1>11. Marks' BY <1>1, MarksStand DEF streamVars, dataVars, statusVars
<1>12. Books' BY <1>1, <1>8, BooksKept DEF statusVars, bookVars, dataVars
<1> QED BY <1>5, <1>7, <1>9, <1>10, <1>11, <1>12

\* set_defaulted_inputs and the call: the node goes on.
LEMMA CallTypes ==
    ASSUME TypeOK, NEW n \in Node, NEW missing \in SUBSET DOMAIN ports, Call(n, missing)
    PROVE  /\ \E place \in {"begin", "body"} : at' = [at EXCEPT ![n] = place]
           /\ defaulted' \in [Node -> SUBSET DOMAIN ports]
           /\ stitch' \in [DOMAIN ports -> Nat]
           /\ running' = running
<1>1. at' = [at EXCEPT ![n] = IF n \in Generator THEN "begin" ELSE "body"] /\ running' = running
  BY DEF Call
<1>2. defaulted' \in [Node -> SUBSET DOMAIN ports]
  BY DEF Call, TypeOK, ResolutionTypeOK, GraphTypeOK
<1>3. stitch' \in [DOMAIN ports -> Nat]
  <2>1. \A p \in DOMAIN ports : stitch[p] + (IF p \in missing THEN 1 ELSE 0) \in Nat
    BY DEF TypeOK, ResolutionTypeOK, GraphTypeOK
  <2> QED BY <2>1 DEF Call
<1> QED BY <1>1, <1>2, <1>3

\* The node gathers its inputs; some of them may be missing.
LEMMA GatherKeeps ==
    ASSUME Inv, NEW n \in Node, Gather(n), UNCHANGED chunkVars
    PROVE  Inv'
<1> USE DEF Inv
<1> DEFINE missing == {p \in Inputs(n) : NoData(p)}
           counted == {p \in Inputs(n) \ missing : ~ports[p].stream}
           streams == Inputs(n) \ (missing \cup counted)
           gathered == [count |-> counted, default |-> missing, open |-> streams]
           Place(S) == \E place \in S : at' = [at EXCEPT ![n] = place]
<1>1. /\ running = n /\ at[n] = "idle"
      /\ reading' = [reading EXCEPT ![n] = gathered]
      /\ \/ Await(n, "dead") /\ UNCHANGED <<away, defaulted, stitch>>
         \/ Call(n, missing) /\ UNCHANGED away
         \/ Await(n, "latch") /\ away' = away \cup {n} /\ UNCHANGED <<defaulted, stitch>>
      /\ UNCHANGED <<tasks, syncVars, streamVars, loop, statusVars, bookVars, queueVars, gen,
                     latch, putting, work, chunkVars>>
  BY Zenon DEF Gather
<1>2. /\ missing \in SUBSET DOMAIN ports /\ counted \in SUBSET DOMAIN ports
      /\ streams \in SUBSET DOMAIN ports
  BY DEF Inputs
<1>3. \A p \in Inputs(n) : p \in missing \/ gen[ports[p].source] # None
  BY DEF NoData
<1> HIDE DEF missing, counted, streams
<1>4. gathered \in [count : SUBSET DOMAIN ports, default : SUBSET DOMAIN ports,
                    open : SUBSET DOMAIN ports]
  BY <1>2
<1>5. gathered.default = missing OBVIOUS
<1> HIDE DEF gathered
<1>6. SyncInv' /\ Keeps BY <1>1, NothingMoves DEF Placed
<1>7. away \subseteq Node /\ running \in TaskOrNone BY Types
<1>8. /\ Placed' /\ \A m \in Node : Busy(m)' => Busy(m)
      /\ Place({"dead", "latch", "begin", "body"})
      /\ running' \in TaskOrNone /\ away' \subseteq Node
      /\ defaulted' \in [Node -> SUBSET DOMAIN ports] /\ stitch' \in [DOMAIN ports -> Nat]
  <2>1. CASE Await(n, "dead") /\ UNCHANGED <<away, defaulted, stitch>>
    <3>1. running' = NoTask /\ at' = [at EXCEPT ![n] = "dead"] BY <2>1 DEF Await
    <3>2. Placed' /\ \A m \in Node : Busy(m)' => Busy(m) BY <1>6, <1>7, <2>1, <3>1, Left
    <3> QED BY <1>7, <2>1, <3>1, <3>2
          DEF TaskOrNone, TypeOK, ResolutionTypeOK, GraphTypeOK
  <2>2. CASE Call(n, missing) /\ UNCHANGED away
    <3>1. /\ \E place \in {"begin", "body"} : at' = [at EXCEPT ![n] = place]
          /\ defaulted' \in [Node -> SUBSET DOMAIN ports]
          /\ stitch' \in [DOMAIN ports -> Nat]
          /\ running' = running
      BY <1>2, <2>2, CallTypes
    <3>2. Placed' /\ \A m \in Node : Busy(m)' => Busy(m)
      BY <1>1, <1>6, <1>7, <2>2, <3>1, Stayed
    <3>3. Place({"dead", "latch", "begin", "body"}) BY <3>1
    <3> QED BY <1>7, <2>2, <3>1, <3>2, <3>3
  <2>3. CASE Await(n, "latch") /\ away' = away \cup {n} /\ UNCHANGED <<defaulted, stitch>>
    <3>1. running' = NoTask /\ at' = [at EXCEPT ![n] = "latch"] BY <2>3 DEF Await
    <3>2. Placed' /\ \A m \in Node : Busy(m)' => Busy(m)
      BY <1>1, <1>6, <1>7, <2>3, <3>1, WentAway
    <3> QED BY <1>7, <2>3, <3>1, <3>2
          DEF TaskOrNone, TypeOK, ResolutionTypeOK, GraphTypeOK
  <2> QED BY <1>1, <2>1, <2>2, <2>3
<1>9. TypeOK'
  <2>1. reading' \in [Node -> [count : SUBSET DOMAIN ports, default : SUBSET DOMAIN ports,
                               open : SUBSET DOMAIN ports]]
    BY <1>1, <1>4 DEF TypeOK, ResolutionTypeOK
  <2>2. at' \in [Task -> {"idle", "latch", "body", "call", "barrier", "acquire", "notify",
                          "release", "get", "wait", "took", "left", "closed", "resume",
                          "begin", "stream", "stalled", "passed", "cancelled", "end", "dead"}]
    BY <1>8 DEF TypeOK, ResolutionTypeOK
  <2> QED BY <1>1, <1>6, <1>8, <2>1, <2>2 DEF TypeOK, ResolutionTypeOK, GraphTypeOK,
          StreamTypeOK, SyncInv, streamVars, statusVars, bookVars, queueVars, chunkVars
<1>10. Numbered' BY <1>1 DEF Numbered, streamVars, chunkVars
<1>11. Marks'
  <2>1. PICK place \in {"dead", "latch", "begin", "body"} : at' = [at EXCEPT ![n] = place]
    BY <1>8
  <2>2. UNCHANGED <<ports, gen, putting, work, stalledOn>> /\ ports \in Seq(Port)
    BY <1>1, Types DEF streamVars, statusVars
  <2>3. \A x \in Task \ {n} : SameMark(x)
    BY <1>1, <2>1, <2>2, Constants DEF SameMark, TypeOK, ResolutionTypeOK
  <2>4. at'[n] = place BY <2>1, Types, Constants
  <2>5. reading'[n].default = missing BY <1>1, <1>5 DEF TypeOK, ResolutionTypeOK
  <2>6. Inputs(n)' = Inputs(n) BY <2>2 DEF Inputs
  <2>7. \A p \in Inputs(n)' : p \in reading'[n].default \/ gen'[ports'[p].source] # None
    BY <1>3, <2>2, <2>5, <2>6
  <2>8. Mark(n)' BY <2>4, <2>7, Constants DEF Mark
  <2> QED BY <2>2, <2>3, <2>8, MarksKept
<1>12. loop' = "running" => Books'
  BY <1>1, <1>8, BooksKept DEF statusVars, bookVars
<1> QED BY <1>6, <1>8, <1>9, <1>10, <1>11, <1>12

\* A latch of an input is counted down.
LEMMA CountDownKeeps ==
    ASSUME Inv, NEW n \in Node, CountDown(n), UNCHANGED chunkVars
    PROVE  Inv'
<1> USE DEF Inv
<1> DEFINE p == Min(reading[n].count)
           up == ports[p].source
<1>1. /\ running = n /\ at[n] = "latch" /\ reading[n].count # {}
      /\ latch' = [latch EXCEPT ![up] = CountedDown(@)]
      /\ reading' = [reading EXCEPT ![n].count = @ \ {p}]
      /\ running' = NoTask /\ at' = [at EXCEPT ![n] = "latch"]
      /\ away' = away \cup {n}
      /\ UNCHANGED <<tasks, syncVars, streamVars, loop, statusVars, bookVars, queueVars, gen,
                     stitch, defaulted, putting, work, chunkVars>>
  BY DEF CountDown, Await
<1> HIDE DEF p, up
<1>2. SyncInv' /\ Keeps BY <1>1, NothingMoves DEF Placed
<1>3. away \subseteq Node BY Types
<1>4. Placed' /\ \A m \in Node : Busy(m)' <=> Busy(m) BY <1>1, <1>2, <1>3, WentAway
<1>5. reading' \in [Node -> [count : SUBSET DOMAIN ports, default : SUBSET DOMAIN ports,
                             open : SUBSET DOMAIN ports]]
  <2> DEFINE P == DOMAIN ports
  <2>1. reading \in [Node -> [count : SUBSET P, default : SUBSET P, open : SUBSET P]]
    BY DEF TypeOK, ResolutionTypeOK
  <2>2. reading' = [reading EXCEPT ![n].count = @ \ ({p} \cap P)]
    <3>1. reading[n].count \ {p} = reading[n].count \ ({p} \cap P) BY <2>1
    <3> QED BY <1>1, <3>1
  <2>3. {p} \cap P \in SUBSET P OBVIOUS
  <2> HIDE DEF P
  <2>4. reading' \in [Node -> [count : SUBSET P, default : SUBSET P, open : SUBSET P]]
    BY <2>1, <2>2, <2>3, ReadingType
  <2> QED BY <2>4 DEF P
<1>6. latch' \in [Node -> Nat]
  <2>1. \A c \in Nat : CountedDown(c) \in Nat BY DEF CountedDown
  <2>2. latch \in [Node -> Nat] BY DEF TypeOK, ResolutionTypeOK
  <2> QED BY <1>1, <2>1, <2>2
<1>7. TypeOK'
  BY <1>1, <1>2, <1>3, <1>5, <1>6 DEF TypeOK, ResolutionTypeOK, GraphTypeOK, StreamTypeOK,
     SyncInv, TaskOrNone, streamVars, statusVars, bookVars, queueVars, chunkVars
<1>8. Numbered' BY <1>1 DEF Numbered, streamVars, chunkVars
<1>9. Marks'
  <2>1. /\ UNCHANGED <<ports, gen, putting, work, stalledOn>> /\ DOMAIN at = Task
        /\ ports \in Seq(Port) /\ n # Main /\ n \in Task
    BY <1>1, Types, Constants DEF streamVars, statusVars
  <2>2. \A m \in Node : reading'[m].default = reading[m].default
    BY <1>1 DEF TypeOK, ResolutionTypeOK
  <2>3. Gathered(n) BY <1>1 DEF Gathered
  <2> QED BY <1>1, <2>1, <2>2, <2>3, MarksMove
<1>10. loop' = "running" => Books'
  BY <1>1, <1>4, BooksKept DEF statusVars, bookVars
<1> QED BY <1>2, <1>4, <1>7, <1>8, <1>9, <1>10

\* All latches are counted down: the node is called.
LEMMA CalledAfterLatchesKeeps ==
    ASSUME Inv, NEW n \in Node, CalledAfterLatches(n), UNCHANGED chunkVars
    PROVE  Inv'
<1> USE DEF Inv
<1>1. /\ running = n /\ at[n] = "latch" /\ Call(n, reading[n].default)
      /\ UNCHANGED <<tasks, syncVars, streamVars, loop, away, statusVars, bookVars, queueVars,
                     gen, latch, reading, putting, work, chunkVars>>
  BY DEF CalledAfterLatches
<1>2. reading[n].default \in SUBSET DOMAIN ports BY DEF TypeOK, ResolutionTypeOK
<1>3. PICK place \in {"begin", "body"} :
         /\ at' = [at EXCEPT ![n] = place]
         /\ defaulted' \in [Node -> SUBSET DOMAIN ports]
         /\ stitch' \in [DOMAIN ports -> Nat]
         /\ running' = running
  BY <1>1, <1>2, CallTypes
<1>4. SyncInv' /\ Keeps BY <1>1, NothingMoves DEF Placed
<1>5. away \subseteq Node /\ running \in TaskOrNone BY Types
<1>6. Placed' /\ \A m \in Node : Busy(m)' <=> Busy(m) BY <1>1, <1>3, <1>4, <1>5, Stayed
<1>7. TypeOK'
  BY <1>1, <1>3, <1>4 DEF TypeOK, ResolutionTypeOK, GraphTypeOK, StreamTypeOK,
     SyncInv, streamVars, statusVars, bookVars, queueVars, chunkVars
<1>8. Numbered' BY <1>1 DEF Numbered, streamVars, chunkVars
<1>9. Marks'
  <2>1. /\ UNCHANGED <<ports, gen, reading, putting, work, stalledOn>> /\ DOMAIN at = Task
        /\ ports \in Seq(Port) /\ n # Main /\ n \in Task
    BY <1>1, Types, Constants DEF streamVars, statusVars
  <2>2. Gathered(n) BY <1>1 DEF Gathered
  <2> QED BY <1>3, <2>1, <2>2, MarksMove
<1>10. loop' = "running" => Books'
  BY <1>1, <1>6, BooksKept DEF statusVars, bookVars
<1> QED BY <1>4, <1>6, <1>7, <1>8, <1>9, <1>10

\* The code of a node awaits something.
LEMMA CodeAwaitsKeeps ==
    ASSUME Inv, NEW n \in Node, CodeAwaits(n), UNCHANGED chunkVars
    PROVE  Inv'
<1> USE DEF Inv
<1>1. /\ running = n /\ at[n] = "body" /\ running' = NoTask
      /\ at' = [at EXCEPT ![n] = "call"] /\ away' = away \cup {n}
      /\ UNCHANGED <<tasks, syncVars, streamVars, loop, statusVars, bookVars, queueVars,
                     dataVars, putting, work, chunkVars>>
  BY DEF CodeAwaits, Await
<1>2. SyncInv' /\ Keeps BY <1>1, NothingMoves DEF Placed
<1>3. away \subseteq Node BY Types
<1>4. Placed' /\ \A m \in Node : Busy(m)' <=> Busy(m) BY <1>1, <1>2, <1>3, WentAway
<1>5. TypeOK'
  BY <1>1, <1>2, <1>3 DEF TypeOK, ResolutionTypeOK, GraphTypeOK, StreamTypeOK, SyncInv,
     TaskOrNone, streamVars, statusVars, bookVars, queueVars, dataVars, chunkVars
<1>6. Numbered' BY <1>1 DEF Numbered, streamVars, dataVars, chunkVars
<1>7. Marks'
  <2>1. /\ UNCHANGED <<ports, gen, reading, putting, work, stalledOn>> /\ DOMAIN at = Task
        /\ ports \in Seq(Port) /\ n # Main /\ n \in Task
    BY <1>1, Types, Constants DEF streamVars, statusVars, dataVars
  <2>2. Gathered(n) BY <1>1 DEF Gathered
  <2> QED BY <1>1, <2>1, <2>2, MarksMove
<1>8. loop' = "running" => Books'
  BY <1>1, <1>4, BooksKept DEF statusVars, bookVars, dataVars
<1> QED BY <1>2, <1>4, <1>5, <1>6, <1>7, <1>8

\* A node that runs is queued again, at a place from which it does not read its inputs, or
\* where it reads them still.
LEMMA RequeuedKeeps ==
    ASSUME Inv, NEW n \in Node, running = n, Requeue(n), NEW place,
           Await(n, place), place \in {"barrier", "end", "passed"},
           place = "passed" => at[n] = "release" /\ Len(gen[n]) = 2,
           \A x \in Task \ {n} : putting'[x] = putting[x], putting' \in [Task -> Seq(Node)],
           UNCHANGED <<syncVars, streamVars, loop, away, statusVars, bookVars, queueVars,
                       dataVars, work, chunkVars>>
    PROVE  Inv'
<1> USE DEF Inv
<1>1. running' = NoTask /\ at' = [at EXCEPT ![n] = place] BY DEF Await
<1>2. n \in Task /\ Apart /\ Nowhere(n) /\ SyncTypeOK BY Constants DEF Placed, SyncInv
<1>3. Parks(n) BY <1>2, RequeueParks
<1>4. SyncInv'
  <2>1. tasks' \in Seq(Packet) BY <1>2, RequeueType
  <2> QED BY <2>1, QueueInv
<1>5. away \subseteq Node /\ away' = away BY Types
<1>6. Placed' /\ \A m \in Node : Busy(m)' <=> Busy(m) BY <1>1, <1>2, <1>3, <1>5, Suspended
<1>7. TypeOK'
  BY <1>1, <1>4 DEF TypeOK, ResolutionTypeOK, GraphTypeOK, StreamTypeOK, SyncInv, TaskOrNone,
     streamVars, statusVars, bookVars, queueVars, dataVars, chunkVars
<1>8. Numbered' BY DEF Numbered, streamVars, dataVars, chunkVars
<1>9. Marks'
  <2>1. /\ UNCHANGED <<ports, gen, reading, work, stalledOn>> /\ DOMAIN at = Task
        /\ ports \in Seq(Port) /\ n # Main
    BY Types, Constants DEF streamVars, statusVars, dataVars
  <2>2. at'[n] = place BY <1>1, <1>2, Types
  <2>3. Gathered(n)' => Gathered(n) BY <2>1, <2>2 DEF Gathered
  <2>4. place \notin {"acquire", "notify", "release"} /\ place # "stalled" OBVIOUS
  <2>5. \A m \in Node \ {n} : stalledOn'[m] = stalledOn[m] BY <2>1
  <2>6. \A m \in Node : reading'[m].default = reading[m].default BY <2>1
  <2> QED BY <1>1, <1>2, <2>1, <2>3, <2>4, <2>5, <2>6, MarksMove
<1>10. loop' = "running" => Books'
  BY <1>6, BooksKept DEF statusVars, bookVars, dataVars
<1> QED BY <1>4, <1>6, <1>7, <1>8, <1>9, <1>10

\* The code of a coroutine returns.
LEMMA CodeReturnsKeeps ==
    ASSUME Inv, NEW n \in Node, CodeReturns(n), UNCHANGED chunkVars
    PROVE  Inv'
<1>1. putting \in [Task -> Seq(Node)] BY DEF Inv, TypeOK, ResolutionTypeOK
<1>2. /\ running = n /\ Requeue(n) /\ Await(n, "barrier")
      /\ UNCHANGED <<syncVars, streamVars, loop, away, statusVars, bookVars, queueVars,
                     dataVars, putting, work>>
  BY DEF CodeReturns, InCode
<1> QED BY <1>1, <1>2, RequeuedKeeps

\* The code of a node raises.
LEMMA CodeRaisesKeeps ==
    ASSUME Inv, NEW n \in Node, CodeRaises(n), UNCHANGED chunkVars
    PROVE  Inv'
<1> USE DEF Inv
<1>1. /\ loop' = "error" /\ running' = NoTask
      /\ status' = [status EXCEPT ![n] = "error"] /\ active' = active \ {n}
      /\ UNCHANGED <<tasks, syncVars, at, streamVars, away, stalledOn, unvisited, visited,
                     pending, hasItem, queueVars, dataVars, putting, work, chunkVars>>
  BY DEF CodeRaises, End
<1>2. SyncInv' /\ Keeps BY <1>1, NothingMoves DEF Placed
<1>3. away \subseteq Node /\ running \in TaskOrNone BY Types
<1>4. Placed' BY <1>1, <1>2, <1>3, Left
<1>5. TypeOK'
  BY <1>1, <1>2 DEF TypeOK, ResolutionTypeOK, GraphTypeOK, StreamTypeOK, SyncInv, TaskOrNone,
     streamVars, queueVars, dataVars, chunkVars
<1>6. Numbered' BY <1>1 DEF Numbered, streamVars, dataVars, chunkVars
<1>7. Marks' BY <1>1, MarksStand DEF streamVars, dataVars
<1> QED BY <1>1, <1>2, <1>4, <1>5, <1>6, <1>7

\* The node that waits for its next start is in flight no more: one completion less is
\* pending, and there was one.
LEMMA WaitForStartMoves ==
    ASSUME Inv, NEW n \in Node, running = n, NEW place, WaitForStart(n, place),
           away' = away, \A m \in Node \ {n} : gen'[m] = gen[m]
    PROVE  /\ SyncInv' /\ Placed' /\ Books'
           /\ running' = NoTask /\ at' = [at EXCEPT ![n] = place]
           /\ status' \in [Node -> {"waiting", "queued", "executing", "stalled", "error"}]
           /\ active' \subseteq Node /\ pending' \in Nat /\ closed' \in BOOLEAN
           /\ UNCHANGED <<stalledOn, unvisited, visited, hasItem, items>>
<1> USE DEF Inv
<1>1. /\ running' = NoTask /\ at' = [at EXCEPT ![n] = place]
      /\ status' = [status EXCEPT ![n] = "waiting"] /\ active' = active \ {n}
      /\ pending' = pending - 1
      /\ \/ closed' = TRUE /\ NotifyAllNowait(notEmpty, notFull)
         \/ UNCHANGED <<closed, tasks, syncVars>>
      /\ UNCHANGED <<stalledOn, unvisited, visited, hasItem, items>>
  BY DEF WaitForStart, Await
<1>2. n \in Task /\ n # NoTask /\ running \in TaskOrNone BY Constants, Types
<1>3. Books /\ Apart BY <1>2 DEF Placed
<1>4. n \in visited /\ InFlight(n) BY <1>3 DEF Books, Busy
<1>5. SyncInv' /\ Keeps
  <2>1. CASE NotifyAllNowait(notEmpty, notFull)
    <3>1. /\ notEmpty \in Cond /\ notFull \in Cond \ {notEmpty}
          /\ LockOf[notFull] = LockOf[notEmpty]
      BY Constants
    <3> QED BY <1>3, <2>1, <3>1, NotifyAllNowaitMoves
  <2>2. CASE UNCHANGED <<tasks, syncVars>> BY <1>3, <2>2, NothingMoves
  <2> QED BY <1>1, <2>1, <2>2
<1>6. away \subseteq Node BY Types
<1>7. Placed' /\ \A m \in Node : Busy(m)' <=> (Busy(m) /\ m # n)
  BY <1>1, <1>2, <1>5, <1>6, Left
<1>8. /\ visited \subseteq Node /\ active \subseteq Node /\ unvisited \in Seq(Node)
      /\ status \in [Node -> {"waiting", "queued", "executing", "stalled", "error"}]
      /\ closed \in BOOLEAN
  BY DEF TypeOK, ResolutionTypeOK, GraphTypeOK
<1>9. /\ status'[n] = "waiting" /\ ~InFlight(n)'
      /\ \A m \in Node \ {n} : status'[m] = status[m] /\ (InFlight(m)' <=> InFlight(m))
  BY <1>1, <1>8 DEF InFlight
<1>10. Counted' = Counted \ {n} BY <1>1, <1>8, <1>9 DEF Counted
<1>11. pending' \in Nat /\ pending' = Cardinality(Counted)'
  <2> DEFINE C == Counted
  <2>1. IsFiniteSet(C) /\ n \in C
    <3>1. C \in SUBSET Node BY <1>8 DEF Counted
    <3>2. IsFiniteSet(C) BY <3>1, Constants, FS_Subset
    <3> QED BY <1>4, <3>2 DEF Counted
  <2>2. pending = Cardinality(C) BY <1>3 DEF Books
  <2> HIDE DEF C
  <2>3. IsFiniteSet(C \ {n}) /\ Cardinality(C \ {n}) = Cardinality(C) - 1
    BY <2>1, FS_RemoveElement
  <2>4. Cardinality(C \ {n}) \in Nat BY <2>3, FS_CardinalityType
  <2>5. pending' = Cardinality(C \ {n}) BY <1>1, <2>2, <2>3
  <2> QED BY <1>10, <2>4, <2>5 DEF C
<1>12. {m \in visited : InFlight(m)}' \subseteq active'
  <2>1. {m \in visited : InFlight(m)}' \subseteq {m \in visited : InFlight(m)} \ {n}
    BY <1>1, <1>8, <1>9
  <2> QED BY <1>1, <1>3, <2>1 DEF Books
<1>13. Books'
  <2>1. ToSet(unvisited) \subseteq Node BY <1>8, QueueMembers
  <2>2. \A m \in Node : /\ Busy(m)' => InFlight(m)' /\ m \in visited'
                        /\ status'[m] = "stalled" \/ gen'[m] # None => m \in visited'
    BY <1>1, <1>3, <1>4, <1>7, <1>9 DEF Books
  <2>3. \A m \in ToSet(unvisited') : m \notin visited' /\ status'[m] = "waiting"
    BY <1>1, <1>3, <1>9, <2>1 DEF Books
  <2>4. IsInjective(unvisited') BY <1>1, <1>3 DEF Books
  <2> QED BY <1>11, <1>12, <2>2, <2>3, <2>4 DEF Books
<1> QED BY <1>1, <1>5, <1>7, <1>8, <1>11, <1>13

\* push_data(): the next generation of the run level.
LEMMA PushDataMoves ==
    ASSUME Inv, NEW n \in Node, NEW level \in Nat, PushData(n, level)
    PROVE  /\ gen' \in [Node -> Generation] /\ \A m \in Node : gen'[m] # <<>>
           /\ gen'[n] # None /\ Len(gen'[n]) = level + 1
           /\ \A m \in Node \ {n} : gen'[m] = gen[m]
           /\ \A m \in Node : gen[m] # None => gen'[m] # None
<1> USE DEF Inv
<1> DEFINE g == IncGeneration(gen[n], level)
<1>1. gen \in [Node -> Generation] BY DEF TypeOK, ResolutionTypeOK, GraphTypeOK
<1>2. gen[n] \in Generation \ {<<>>} BY <1>1 DEF Numbered
<1>3. g \in Seq(Nat) /\ Len(g) = level + 1 BY <1>2, IncIsLeastAbove
<1>4. gen' = [gen EXCEPT ![n] = g] BY DEF PushData
<1> HIDE DEF g
<1>5. g # None BY <1>3, NoneAssumption
<1>6. g # <<>>
  <2>1. Len(<<>>) = 0 OBVIOUS
  <2>2. level + 1 # 0 OBVIOUS
  <2> QED BY <1>3, <2>1, <2>2
<1>7. g \in Generation BY <1>3 DEF Generation
<1>8. gen' \in [Node -> Generation] /\ gen'[n] = g /\ \A m \in Node \ {n} : gen'[m] = gen[m]
  BY <1>1, <1>4, <1>7
<1>9. \A m \in Node : gen'[m] # <<>> BY <1>6, <1>8 DEF Numbered
<1> QED BY <1>3, <1>5, <1>8, <1>9

\* The marks when n pushes data.
LEMMA MarksPush ==
    ASSUME Marks, ports' = ports, ports \in Seq(Port), work' = work, stalledOn' = stalledOn,
           NEW n \in Node, \A m \in Node \ {n} : gen'[m] = gen[m],
           \A m \in Node : gen[m] # None => gen'[m] # None,
           \A m \in Node \ {n} : reading'[m].default = reading[m].default,
           \A x \in Task \ {n} : at'[x] = at[x] /\ putting'[x] = putting[x],
           at'[n] # "stalled",
           at'[n] \in {"acquire", "notify", "release"} => putting'[n] # <<>>,
           Gathered(n)' => Gathered(n) /\ reading'[n].default = reading[n].default
    PROVE  Marks'
<1>1. n # Main /\ n \in Task BY Constants
<1>2. \A x \in Task \ {n} : SameMark(x) BY DEF SameMark
<1>3. Inputs(n)' = Inputs(n) BY DEF Inputs
<1>4. \A p \in DOMAIN ports : ports[p].source \in Node
  <2>1. \A p \in DOMAIN ports : ports[p] \in Port BY ElementOfSeq, LenProperties
  <2> QED BY <2>1 DEF Port
<1>5. ASSUME Gathered(n)'
      PROVE  \A p \in Inputs(n)' :
                p \in reading'[n].default \/ gen'[ports'[p].source] # None
  <2>1. \A p \in Inputs(n) : p \in reading[n].default \/ gen[ports[p].source] # None
    BY <1>1, <1>5 DEF Marks, Mark
  <2>2. \A p \in Inputs(n) : ports[p].source \in Node BY <1>4 DEF Inputs
  <2> QED BY <1>3, <1>5, <2>1, <2>2
<1>6. Mark(n)' BY <1>1, <1>5 DEF Mark
<1> QED BY <1>2, <1>6, MarksKept

\* The list of the consumers to put.
LEMMA ToEnqueueType ==
    ASSUME ports \in Seq(Port), NEW n
    PROVE  ToEnqueue(n) \in Seq(Node)
<1> DEFINE P == {p \in Outputs(n) :
                    \A q \in Outputs(n) \cap dropped' : ports[q].node # ports[p].node}
<1>1. P \in SUBSET DOMAIN ports BY DEF Outputs
<1>2. ToEnqueue(n) = IF closed THEN <<>> ELSE Consumers(P) BY DEF ToEnqueue
<1> HIDE DEF P
<1>3. Consumers(P) \in Seq(Node) BY <1>1, ConsumersType
<1>4. <<>> \in Seq(Node) BY EmptySeq
<1> QED BY <1>2, <1>3, <1>4

\* How many readings of the data the latch counts.
LEMMA ReadersType ==
    ASSUME ports \in Seq(Port), NEW n, NEW level
    PROVE  Readers(n, level) \in Nat
<1> DEFINE O == Outputs(n)
           R == {pq \in O \X O : ports[pq[1]].node = ports[pq[2]].node /\ Level(pq[2]) = level}
<1>1. O \in SUBSET DOMAIN ports BY DEF Outputs
<1>2. Readers(n, level) = Cardinality(R) BY DEF Readers
<1>3. R \in SUBSET (O \X O) OBVIOUS
<1> HIDE DEF O, R
<1>4. IsFiniteSet(O) BY <1>1, Positions
<1>5. IsFiniteSet(O \X O) BY <1>4, FS_Product
<1>6. IsFiniteSet(R) BY <1>3, <1>5, FS_Subset
<1> QED BY <1>2, <1>6, FS_CardinalityType

\* What follows the push of data: the first consumer is put, the flow ends, or, after the
\* data of a whole generation, the node waits for its next start.
LEMMA AnnounceMoves ==
    ASSUME Inv, NEW n \in Node, running = n, at[n] \in {"barrier", "end", "body", "call"},
           NEW level \in Nat, PushData(n, level), away' = away,
           Announce(n) \/ AnnounceNobody(n) \/ StopAtLimit(n)
    PROVE  /\ SyncInv' /\ Placed' /\ (loop' = "running" => Books')
           /\ loop' \in {"running", "done", "limit", "error"} /\ running' = NoTask
           /\ \E place \in {"acquire", "idle", at[n]} : at' = [at EXCEPT ![n] = place]
           /\ at'[n] = "acquire" => putting'[n] # <<>>
           /\ putting' \in [Task -> Seq(Node)]
           /\ \A x \in Task \ {n} : putting'[x] = putting[x]
           /\ status' \in [Node -> {"waiting", "queued", "executing", "stalled", "error"}]
           /\ active' \subseteq Node /\ pending' \in Nat /\ closed' \in BOOLEAN
           /\ at'[n] = at[n] => loop' = "limit"
           /\ UNCHANGED <<stalledOn, unvisited, visited, hasItem, items>>
<1> USE DEF Inv
<1>1. n \in Task /\ away \subseteq Node /\ running \in TaskOrNone /\ n # NoTask
  BY Constants, Types
<1>2. loop = "running" /\ Books /\ Apart BY <1>1 DEF Placed
<1>3. \A m \in Node \ {n} : gen'[m] = gen[m] BY PushDataMoves
<1>4. \A m \in Node : gen'[m] # None => gen[m] # None \/ Busy(m) BY <1>3 DEF Busy
<1>5. /\ putting \in [Task -> Seq(Node)] /\ active \subseteq Node /\ pending \in Nat
      /\ closed \in BOOLEAN /\ DOMAIN at = Task
      /\ status \in [Node -> {"waiting", "queued", "executing", "stalled", "error"}]
      /\ at \in [Task -> {at[x] : x \in Task}]
  BY DEF TypeOK, ResolutionTypeOK, GraphTypeOK
<1>6. CASE Announce(n)
  <2>1. /\ ToEnqueue(n) # <<>> /\ PutFirst(n, ToEnqueue(n))
        /\ UNCHANGED <<loop, statusVars, bookVars, queueVars>>
    BY <1>6 DEF Announce
  <2>2. ToEnqueue(n) \in Seq(Node) BY Types, ToEnqueueType
  <2> DEFINE list == ToEnqueue(n)
  <2>3. list \in Seq(Node) /\ list # <<>> /\ PutFirst(n, list) BY <2>1, <2>2
  <2> HIDE DEF list
  <2>4. /\ SyncInv' /\ Placed' /\ \A m \in Node : Busy(m)' <=> Busy(m)
        /\ running' = NoTask
        /\ at' = [at EXCEPT ![n] = "acquire"]
        /\ putting' = [putting EXCEPT ![n] = list]
        /\ putting' \in [Task -> Seq(Node)]
    BY <1>1, <2>3, PutFirstMoves
  <2>5. Books' BY <1>2, <1>4, <2>1, <2>4, BooksKept DEF statusVars, bookVars
  <2>6. putting'[n] # <<>> /\ \A x \in Task \ {n} : putting'[x] = putting[x]
    BY <1>1, <1>5, <2>3, <2>4
  <2> QED BY <1>1, <1>2, <1>5, <2>1, <2>4, <2>5, <2>6 DEF statusVars, bookVars, queueVars
<1>7. CASE AnnounceNobody(n)
  <2>1. WaitForStart(n, "idle") /\ UNCHANGED <<loop, putting>> BY <1>7 DEF AnnounceNobody
  <2>2. /\ SyncInv' /\ Placed' /\ Books'
        /\ running' = NoTask /\ at' = [at EXCEPT ![n] = "idle"]
        /\ status' \in [Node -> {"waiting", "queued", "executing", "stalled", "error"}]
        /\ active' \subseteq Node /\ pending' \in Nat /\ closed' \in BOOLEAN
        /\ UNCHANGED <<stalledOn, unvisited, visited, hasItem, items>>
    BY <1>3, <2>1, WaitForStartMoves
  <2>3. at'[n] = "idle" BY <1>1, <1>5, <2>2
  <2> QED BY <1>2, <1>5, <2>1, <2>2, <2>3
<1>8. CASE StopAtLimit(n)
  <2>1. /\ loop' = "limit" /\ running' = NoTask /\ UNCHANGED <<tasks, syncVars, at>>
        /\ UNCHANGED <<statusVars, bookVars, queueVars, putting>>
    BY <1>8 DEF StopAtLimit, End
  <2>2. SyncInv' /\ Keeps BY <1>2, <2>1, NothingMoves
  <2>3. Placed' BY <1>1, <2>1, <2>2, Left
  <2>4. at' = [at EXCEPT ![n] = at[n]] BY <1>5, <2>1
  <2> QED BY <1>1, <1>5, <2>1, <2>2, <2>3, <2>4 DEF statusVars, bookVars, queueVars
<1> QED BY <1>6, <1>7, <1>8

\* The node pushes the data of a whole generation, and has no inputs any more.
LEMMA PushedKeeps ==
    ASSUME Inv, NEW n \in Node, running = n, at[n] \in {"barrier", "end"}, PushData(n, 0),
           Announce(n) \/ AnnounceNobody(n) \/ StopAtLimit(n),
           latch' = [latch EXCEPT ![n] = Readers(n, 0)],
           defaulted' = [defaulted EXCEPT ![n] = {}],
           reading' = [reading EXCEPT ![n] = Nothing],
           dropped' \subseteq DOMAIN ports, blank' \in [Node -> SUBSET Generation],
           chunks' \in [Node -> 0..MaxChunks], thrown' \in [Node -> BOOLEAN],
           UNCHANGED <<ports, away, stitch, work, latch1, last, cancels>>
    PROVE  Inv'
<1> USE DEF Inv
<1>1. /\ gen' \in [Node -> Generation] /\ \A m \in Node : gen'[m] # <<>>
      /\ gen'[n] # None /\ Len(gen'[n]) = 1
      /\ \A m \in Node \ {n} : gen'[m] = gen[m]
      /\ \A m \in Node : gen[m] # None => gen'[m] # None
  <2>1. 0 \in Nat /\ 0 + 1 = 1 OBVIOUS
  <2>2. /\ gen' \in [Node -> Generation] /\ \A m \in Node : gen'[m] # <<>>
        /\ gen'[n] # None /\ Len(gen'[n]) = 0 + 1
        /\ \A m \in Node \ {n} : gen'[m] = gen[m]
        /\ \A m \in Node : gen[m] # None => gen'[m] # None
    BY <2>1, PushDataMoves, Zenon
  <2> QED BY <2>1, <2>2
<1>2. /\ SyncInv' /\ Placed' /\ (loop' = "running" => Books')
      /\ loop' \in {"running", "done", "limit", "error"} /\ running' = NoTask
      /\ \E place \in {"acquire", "idle", at[n]} : at' = [at EXCEPT ![n] = place]
      /\ at'[n] = "acquire" => putting'[n] # <<>>
      /\ putting' \in [Task -> Seq(Node)]
      /\ \A x \in Task \ {n} : putting'[x] = putting[x]
      /\ status' \in [Node -> {"waiting", "queued", "executing", "stalled", "error"}]
      /\ active' \subseteq Node /\ pending' \in Nat /\ closed' \in BOOLEAN
      /\ UNCHANGED <<stalledOn, unvisited, visited, hasItem, items>>
  BY AnnounceMoves
<1>3. PICK place \in {"acquire", "idle", "barrier", "end"} : at' = [at EXCEPT ![n] = place]
  BY <1>2
<1>4. latch' \in [Node -> Nat]
  <2>1. Readers(n, 0) \in Nat BY Types, ReadersType
  <2> QED BY <2>1 DEF TypeOK, ResolutionTypeOK
<1>5. Nothing \in [count : SUBSET DOMAIN ports, default : SUBSET DOMAIN ports,
                   open : SUBSET DOMAIN ports]
  BY DEF Nothing
<1>6. reading' \in [Node -> [count : SUBSET DOMAIN ports, default : SUBSET DOMAIN ports,
                             open : SUBSET DOMAIN ports]]
  BY <1>5 DEF TypeOK, ResolutionTypeOK
<1>7. TypeOK'
  BY <1>1, <1>2, <1>3, <1>4, <1>6 DEF TypeOK, ResolutionTypeOK, GraphTypeOK, StreamTypeOK,
     SyncInv, TaskOrNone
<1>8. Numbered' BY <1>1 DEF Numbered
<1>9. Marks'
  <2>1. DOMAIN at = Task /\ DOMAIN reading = Node /\ n \in Task /\ ports \in Seq(Port)
    BY Types, Constants DEF TypeOK, ResolutionTypeOK
  <2>2. at'[n] = place /\ \A x \in Task \ {n} : at'[x] = at[x] BY <1>3, <2>1
  <2>3. ~Gathered(n)' BY <1>1, <2>2 DEF Gathered
  <2>4. \A m \in Node \ {n} : reading'[m].default = reading[m].default BY <2>1
  <2> QED BY <1>1, <1>2, <2>1, <2>2, <2>3, <2>4, MarksPush
<1> QED BY <1>2, <1>7, <1>8, <1>9

\* A coroutine pushes its data.
LEMMA PushKeeps ==
    ASSUME Inv, NEW n \in Node, Push(n), UNCHANGED chunkVars
    PROVE  Inv'
<1>1. /\ running = n /\ at[n] = "barrier" /\ PushData(n, 0)
      /\ latch' = [latch EXCEPT ![n] = Readers(n, 0)]
      /\ defaulted' = [defaulted EXCEPT ![n] = {}]
      /\ reading' = [reading EXCEPT ![n] = Nothing]
      /\ UNCHANGED <<streamVars, away, stitch, work>>
      /\ Announce(n) \/ AnnounceNobody(n) \/ StopAtLimit(n)
  BY DEF Push
<1>2. /\ dropped' \subseteq DOMAIN ports /\ blank' \in [Node -> SUBSET Generation]
      /\ chunks' \in [Node -> 0..MaxChunks] /\ thrown' \in [Node -> BOOLEAN]
      /\ UNCHANGED <<ports, latch1, last, cancels>>
  BY <1>1 DEF Inv, TypeOK, ResolutionTypeOK, GraphTypeOK, StreamTypeOK, streamVars, chunkVars
<1> QED BY <1>1, <1>2, PushedKeeps

\* A generator pushes the data of its run.
LEMMA PushWholeKeeps ==
    ASSUME Inv, NEW n \in Node, PushWhole(n)
    PROVE  Inv'
<1>1. /\ running = n /\ at[n] = "end" /\ PushData(n, 0)
      /\ blank' = IF NothingSummed(n) THEN [blank EXCEPT ![n] = @ \cup {gen'[n]}] ELSE blank
      /\ chunks' = IF YieldedInRun(n) THEN chunks ELSE [chunks EXCEPT ![n] = 0]
      /\ dropped' = dropped \ {p \in Outputs(n) : status[ports[p].node] = "stalled"}
      /\ latch' = [latch EXCEPT ![n] = Readers(n, 0)]
      /\ defaulted' = [defaulted EXCEPT ![n] = {}]
      /\ reading' = [reading EXCEPT ![n] = Nothing]
      /\ thrown' = [thrown EXCEPT ![n] = FALSE]
      /\ UNCHANGED <<ports, away, stitch, work, latch1, last, cancels>>
      /\ Announce(n) \/ AnnounceNobody(n) \/ StopAtLimit(n)
  BY DEF PushWhole
<1>2. gen' \in [Node -> Generation] BY <1>1, PushDataMoves
<1>3. dropped' \subseteq DOMAIN ports BY <1>1 DEF Inv, TypeOK, ResolutionTypeOK
<1>4. blank' \in [Node -> SUBSET Generation]
  <2>1. blank \in [Node -> SUBSET Generation] BY DEF Inv, TypeOK, ResolutionTypeOK, GraphTypeOK
  <2>2. blank[n] \cup {gen'[n]} \in SUBSET Generation BY <1>2, <2>1
  <2> QED BY <1>1, <2>1, <2>2
<1>5. chunks' \in [Node -> 0..MaxChunks]
  <2>1. chunks \in [Node -> 0..MaxChunks] BY DEF Inv, TypeOK, StreamTypeOK
  <2>2. 0 \in 0..MaxChunks BY StreamAssumption
  <2> QED BY <1>1, <2>1, <2>2
<1>6. thrown' \in [Node -> BOOLEAN] BY <1>1 DEF Inv, TypeOK, StreamTypeOK
<1> QED BY <1>1, <1>3, <1>4, <1>5, <1>6, PushedKeeps

\* The node whose last consumer is in the queue waits for its next start.
LEMMA WaitingKeeps ==
    ASSUME Inv, NEW n \in Node, running = n, NEW place \in {"idle", "stream"},
           WaitForStart(n, place), place = "stream" => Gathered(n),
           putting' \in [Task -> Seq(Node)], \A x \in Task \ {n} : putting'[x] = putting[x],
           UNCHANGED <<streamVars, loop, away, dataVars, work, chunkVars>>
    PROVE  Inv'
<1> USE DEF Inv
<1>1. away' = away /\ \A m \in Node \ {n} : gen'[m] = gen[m] BY DEF dataVars
<1>2. /\ SyncInv' /\ Placed' /\ Books'
      /\ running' = NoTask /\ at' = [at EXCEPT ![n] = place]
      /\ status' \in [Node -> {"waiting", "queued", "executing", "stalled", "error"}]
      /\ active' \subseteq Node /\ pending' \in Nat /\ closed' \in BOOLEAN
      /\ UNCHANGED <<stalledOn, unvisited, visited, hasItem, items>>
  BY <1>1, WaitForStartMoves
<1>3. TypeOK'
  BY <1>2 DEF TypeOK, ResolutionTypeOK, GraphTypeOK, StreamTypeOK, SyncInv, TaskOrNone,
     streamVars, dataVars, chunkVars
<1>4. Numbered' BY DEF Numbered, streamVars, dataVars, chunkVars
<1>5. Marks'
  <2>1. /\ UNCHANGED <<ports, gen, reading, work, stalledOn>> /\ DOMAIN at = Task
        /\ ports \in Seq(Port) /\ n # Main /\ n \in Task
    BY <1>2, Types, Constants DEF streamVars, dataVars
  <2>2. Gathered(n)' => Gathered(n) BY <1>2, <2>1 DEF Gathered
  <2>3. /\ \A m \in Node : reading'[m].default = reading[m].default
        /\ \A m \in Node \ {n} : stalledOn'[m] = stalledOn[m]
        /\ place \notin {"acquire", "notify", "release"} /\ place # "stalled"
    BY <2>1
  <2> QED BY <1>2, <2>1, <2>2, <2>3, MarksMove
<1> QED BY <1>2, <1>3, <1>4, <1>5

\* The last consumer of a whole generation is in the queue.
LEMMA PutsDoneKeeps ==
    ASSUME Inv, NEW n \in Node, PutsDone(n), UNCHANGED chunkVars
    PROVE  Inv'
<1>1. /\ running = n /\ putting' = [putting EXCEPT ![n] = <<>>] /\ WaitForStart(n, "idle")
      /\ UNCHANGED <<streamVars, loop, away, dataVars, work>>
  BY DEF PutsDone
<1>2. putting \in [Task -> Seq(Node)] BY DEF Inv, TypeOK, ResolutionTypeOK
<1>3. <<>> \in Seq(Node) BY EmptySeq
<1>4. putting' \in [Task -> Seq(Node)] /\ \A x \in Task \ {n} : putting'[x] = putting[x]
  BY <1>1, <1>2, <1>3
<1> QED BY <1>1, <1>4, WaitingKeeps

\* A generator waits for the request of its next chunk.
LEMMA WaitForNextChunkKeeps ==
    ASSUME Inv, NEW n \in Node, WaitForNextChunk(n)
    PROVE  Inv'
<1>1. /\ running = n /\ at[n] = "passed" /\ WaitForStart(n, "stream")
      /\ UNCHANGED <<streamVars, loop, away, dataVars, putting, work, chunkVars>>
  BY DEF WaitForNextChunk
<1>2. putting' \in [Task -> Seq(Node)] /\ \A x \in Task \ {n} : putting'[x] = putting[x]
  BY <1>1 DEF Inv, TypeOK, ResolutionTypeOK
<1>3. Gathered(n) BY <1>1 DEF Gathered
<1> QED BY <1>1, <1>2, <1>3, WaitingKeeps

\* The last consumer of a chunk is in the queue.
LEMMA ChunkPutsDoneKeeps ==
    ASSUME Inv, NEW n \in Node, ChunkPutsDone(n)
    PROVE  Inv'
<1>1. /\ running = n /\ at[n] = "release" /\ Len(gen[n]) = 2
      /\ putting' = [putting EXCEPT ![n] = <<>>] /\ Await(n, "passed") /\ Requeue(n)
      /\ UNCHANGED <<syncVars, streamVars, loop, away, statusVars, bookVars, queueVars,
                     dataVars, work, chunkVars>>
  BY DEF ChunkPutsDone, PassBarrier
<1>2. putting \in [Task -> Seq(Node)] BY DEF Inv, TypeOK, ResolutionTypeOK
<1>3. <<>> \in Seq(Node) BY EmptySeq
<1>4. putting' \in [Task -> Seq(Node)] /\ \A x \in Task \ {n} : putting'[x] = putting[x]
  BY <1>1, <1>2, <1>3
<1> QED BY <1>1, <1>4, RequeuedKeeps

\* The generator ends.
LEMMA EndsKeeps ==
    ASSUME Inv, NEW n \in Node, Ends(n)
    PROVE  Inv'
<1>1. /\ running = n /\ Await(n, "end") /\ Requeue(n)
      /\ UNCHANGED <<syncVars, streamVars, loop, away, statusVars, bookVars, queueVars,
                     dataVars, putting, work, chunkVars>>
  BY DEF Ends
<1>2. putting' \in [Task -> Seq(Node)] /\ \A x \in Task \ {n} : putting'[x] = putting[x]
  BY <1>1 DEF Inv, TypeOK, ResolutionTypeOK
<1> QED BY <1>1, <1>2, RequeuedKeeps

\* A generator yields a chunk.
LEMMA CodeYieldsKeeps ==
    ASSUME Inv, NEW n \in Node, CodeYields(n)
    PROVE  Inv'
<1> USE DEF Inv
<1>1. /\ running = n /\ at[n] \in {"body", "call"} /\ n \in Generator
      /\ YieldedInRun(n) => chunks[n] < MaxChunks
      /\ PushData(n, 1)
      /\ chunks' = [chunks EXCEPT ![n] = IF YieldedInRun(n) THEN @ + 1 ELSE 1]
      /\ latch1' = [latch1 EXCEPT ![n] = Readers(n, 1)]
      /\ thrown' = [thrown EXCEPT ![n] = FALSE]
      /\ UNCHANGED <<streamVars, away, stitch, defaulted, latch, reading, work, last, cancels>>
      /\ \/ Announce(n) \/ StopAtLimit(n)
         \/ /\ Await(n, "passed") /\ Requeue(n)
            /\ UNCHANGED <<syncVars, loop, statusVars, bookVars, queueVars, putting>>
  BY DEF CodeYields, InCode, PassBarrier
<1>2. /\ gen' \in [Node -> Generation] /\ \A m \in Node : gen'[m] # <<>>
      /\ \A m \in Node \ {n} : gen'[m] = gen[m]
      /\ \A m \in Node : gen[m] # None => gen'[m] # None
  BY <1>1, PushDataMoves
<1>3. n \in Task /\ DOMAIN at = Task /\ away \subseteq Node /\ away' = away
  BY <1>1, Types, Constants
<1>4. /\ SyncInv' /\ Placed' /\ (loop' = "running" => Books')
      /\ loop' \in {"running", "done", "limit", "error"} /\ running' = NoTask
      /\ \E place \in {"acquire", "idle", "passed", at[n]} : at' = [at EXCEPT ![n] = place]
      /\ at'[n] = "acquire" => putting'[n] # <<>>
      /\ putting' \in [Task -> Seq(Node)]
      /\ \A x \in Task \ {n} : putting'[x] = putting[x]
      /\ status' \in [Node -> {"waiting", "queued", "executing", "stalled", "error"}]
      /\ active' \subseteq Node /\ pending' \in Nat /\ closed' \in BOOLEAN
      /\ UNCHANGED <<stalledOn, unvisited, visited, hasItem, items>>
  <2>1. CASE Announce(n) \/ StopAtLimit(n)
    <3>1. 1 \in Nat /\ at[n] \in {"barrier", "end", "body", "call"} BY <1>1
    <3>2. /\ SyncInv' /\ Placed' /\ (loop' = "running" => Books')
          /\ loop' \in {"running", "done", "limit", "error"} /\ running' = NoTask
          /\ \E place \in {"acquire", "idle", at[n]} : at' = [at EXCEPT ![n] = place]
          /\ at'[n] = "acquire" => putting'[n] # <<>>
          /\ putting' \in [Task -> Seq(Node)]
          /\ \A x \in Task \ {n} : putting'[x] = putting[x]
          /\ status' \in [Node -> {"waiting", "queued", "executing", "stalled", "error"}]
          /\ active' \subseteq Node /\ pending' \in Nat /\ closed' \in BOOLEAN
          /\ UNCHANGED <<stalledOn, unvisited, visited, hasItem, items>>
      BY <1>1, <1>3, <2>1, <3>1, AnnounceMoves
    <3> QED BY <3>2
  <2>2. CASE /\ Await(n, "passed") /\ Requeue(n)
             /\ UNCHANGED <<syncVars, loop, statusVars, bookVars, queueVars, putting>>
    <3>1. running' = NoTask /\ at' = [at EXCEPT ![n] = "passed"] BY <2>2 DEF Await
    <3>2. Apart /\ Nowhere(n) /\ SyncTypeOK /\ loop = "running"
      BY <1>1, <1>3, Constants DEF Placed, SyncInv
    <3>3. Parks(n) BY <1>3, <2>2, <3>2, RequeueParks
    <3>4. SyncInv'
      <4>1. tasks' \in Seq(Packet) BY <1>3, <2>2, <3>2, RequeueType
      <4> QED BY <2>2, <4>1, QueueInv
    <3>5. Placed' /\ \A m \in Node : Busy(m)' <=> Busy(m)
      BY <1>1, <1>3, <3>1, <3>3, Suspended
    <3>6. \A m \in Node : gen'[m] # None => gen[m] # None \/ Busy(m) BY <1>1, <1>2 DEF Busy
    <3>7. Books' BY <2>2, <3>2, <3>5, <3>6, BooksKept DEF statusVars, bookVars
    <3>8. at'[n] = "passed" BY <1>3, <3>1
    <3> QED BY <2>2, <3>1, <3>2, <3>4, <3>5, <3>7, <3>8
          DEF statusVars, bookVars, queueVars, TypeOK, ResolutionTypeOK, GraphTypeOK
  <2> QED BY <1>1, <2>1, <2>2
<1>5. chunks' \in [Node -> 0..MaxChunks]
  <2>1. chunks \in [Node -> 0..MaxChunks] BY DEF TypeOK, StreamTypeOK
  <2>2. MaxChunks \in Nat /\ MaxChunks > 0 BY <1>1, StreamAssumption
  <2>3. (IF YieldedInRun(n) THEN chunks[n] + 1 ELSE 1) \in 0..MaxChunks BY <1>1, <2>1, <2>2
  <2> QED BY <1>1, <2>1, <2>3
<1>6. latch1' \in [Node -> Nat]
  <2>1. Readers(n, 1) \in Nat BY Types, ReadersType
  <2> QED BY <1>1, <2>1 DEF TypeOK, StreamTypeOK
<1>7. PICK place \in {"acquire", "idle", "passed", "body", "call"} :
         at' = [at EXCEPT ![n] = place]
  BY <1>1, <1>4
<1>8. TypeOK'
  BY <1>1, <1>2, <1>4, <1>5, <1>6, <1>7 DEF TypeOK, ResolutionTypeOK, GraphTypeOK,
     StreamTypeOK, SyncInv, TaskOrNone, streamVars
<1>9. Numbered' BY <1>1, <1>2 DEF Numbered, streamVars
<1>10. Marks'
  <2>1. ports \in Seq(Port) /\ UNCHANGED <<ports, work, stalledOn, reading>>
    BY <1>1, <1>4, Types DEF streamVars
  <2>2. at'[n] = place /\ \A x \in Task \ {n} : at'[x] = at[x] BY <1>3, <1>7
  <2>3. Gathered(n) BY <1>1 DEF Gathered
  <2>4. \A m \in Node : reading'[m].default = reading[m].default BY <2>1
  <2>5. place \notin {"stalled", "notify", "release"} OBVIOUS
  <2> QED BY <1>2, <1>4, <2>1, <2>2, <2>3, <2>4, <2>5, MarksPush
<1> QED BY <1>4, <1>8, <1>9, <1>10

\* Main takes the next of the unvisited nodes and puts it, or the flow is done.
LEMMA NextUnvisitedKeeps ==
    ASSUME Inv, running = Main, NextUnvisited,
           UNCHANGED <<streamVars, away, dataVars, work, chunkVars>>
    PROVE  Inv'
<1> USE DEF Inv
<1> DEFINE n == Head(unvisited)
<1>1. Main \in Task /\ Main # NoTask /\ Main \notin Node BY Constants
<1>2. loop = "running" /\ Books /\ Apart BY <1>1 DEF Placed
<1>3. away \subseteq Node /\ running \in TaskOrNone /\ away' = away BY Types
<1>4. CASE unvisited = <<>>
  <2>1. /\ loop' = "done" /\ running' = NoTask /\ UNCHANGED <<tasks, syncVars, at>>
        /\ UNCHANGED <<statusVars, bookVars, queueVars, putting>>
    BY <1>4 DEF NextUnvisited, End
  <2>2. SyncInv' /\ Keeps BY <1>2, <2>1, NothingMoves
  <2>3. Placed' BY <1>3, <2>1, <2>2, Left
  <2>4. TypeOK'
    BY <2>1, <2>2 DEF TypeOK, ResolutionTypeOK, GraphTypeOK, StreamTypeOK, SyncInv,
       TaskOrNone, streamVars, statusVars, bookVars, queueVars, dataVars, chunkVars
  <2>5. Numbered' BY DEF Numbered, streamVars, dataVars, chunkVars
  <2>6. Marks' BY <2>1, MarksStand DEF streamVars, statusVars, dataVars
  <2> QED BY <2>1, <2>2, <2>3, <2>4, <2>5, <2>6
<1>5. CASE unvisited # <<>>
  <2>1. /\ unvisited' = Tail(unvisited)
        /\ IF closed THEN closed' = FALSE /\ items' = <<>> ELSE UNCHANGED queueVars
        /\ IF status[n] = "waiting"
             THEN /\ active' = active \cup {n}
                  /\ status' = [status EXCEPT ![n] = "executing"]
             ELSE UNCHANGED <<active, status>>
        /\ PutFirst(Main, <<n>>)
        /\ UNCHANGED <<loop, stalledOn, visited, pending, hasItem>>
    BY <1>5 DEF NextUnvisited
  <2>2. unvisited \in Seq(Node) /\ IsInjective(unvisited)
    BY <1>2 DEF TypeOK, ResolutionTypeOK, Books
  <2>3. /\ n \in ToSet(unvisited) /\ ToSet(unvisited) = ToSet(Tail(unvisited)) \cup {n}
        /\ IsInjective(Tail(unvisited)) /\ n \notin ToSet(Tail(unvisited))
    BY <1>5, <2>2, TailMembers
  <2>4. n \in Node /\ Tail(unvisited) \in Seq(Node) BY <1>5, <2>2, HeadTailProperties
  <2>5. n \notin visited /\ status[n] = "waiting" BY <1>2, <2>3 DEF Books
  <2>6. ToSet(unvisited') \subseteq Node BY <2>1, <2>4, QueueMembers
  <2> HIDE DEF n
  <2>7. <<n>> \in Seq(Node) /\ <<n>> # <<>> BY <2>4, SeqDef
  <2> DEFINE list == <<n>>
  <2>8. list \in Seq(Node) /\ list # <<>> /\ PutFirst(Main, list) BY <2>1, <2>7
  <2> HIDE DEF list
  <2>9. /\ SyncInv' /\ Placed' /\ \A m \in Node : Busy(m)' <=> Busy(m)
        /\ running' = NoTask /\ at' = [at EXCEPT ![Main] = "acquire"]
        /\ putting' = [putting EXCEPT ![Main] = list] /\ putting' \in [Task -> Seq(Node)]
    BY <1>1, <1>3, <2>8, PutFirstMoves
  <2>10. /\ items' \in Seq(Node) /\ closed' \in BOOLEAN
    <3>1. <<>> \in Seq(Node) BY EmptySeq
    <3> QED BY <2>1, <3>1 DEF TypeOK, ResolutionTypeOK, queueVars
  <2>15. /\ unvisited' \in Seq(Node) /\ active' \subseteq Node
         /\ status' \in [Node -> {"waiting", "queued", "executing", "stalled", "error"}]
    <3>1. /\ active \subseteq Node
          /\ status \in [Node -> {"waiting", "queued", "executing", "stalled", "error"}]
      BY DEF TypeOK, ResolutionTypeOK, GraphTypeOK
    <3>2. active' \in {active, active \cup {n}}
          /\ status' \in {status, [status EXCEPT ![n] = "executing"]}
      BY <2>1
    <3>3. active' \subseteq Node BY <2>4, <3>1, <3>2
    <3>4. status' \in [Node -> {"waiting", "queued", "executing", "stalled", "error"}]
      BY <2>4, <3>1, <3>2
    <3> QED BY <2>1, <2>4, <3>3, <3>4
  <2>16. UNCHANGED <<loop, stalledOn, visited, pending, hasItem>> BY <2>1
  <2>11. TypeOK'
    BY <2>9, <2>10, <2>15, <2>16 DEF TypeOK, ResolutionTypeOK, GraphTypeOK, StreamTypeOK,
       SyncInv, TaskOrNone, streamVars, dataVars, chunkVars
  <2>12. Numbered' BY DEF Numbered, streamVars, dataVars, chunkVars
  <2>13. Marks'
    <3>1. putting'[Main] = list /\ \A x \in Task \ {Main} : putting'[x] = putting[x]
      BY <1>1, <2>9 DEF TypeOK, ResolutionTypeOK
    <3>2. /\ UNCHANGED <<ports, gen, work, reading, stalledOn>>
          /\ DOMAIN at = Task /\ ports \in Seq(Port)
      BY <2>1, Types DEF streamVars, dataVars
    <3> QED BY <1>1, <2>8, <2>9, <3>1, <3>2, MarksMove
  <2>14. Books'
    <3>1. \A m \in Node \ {n} : /\ status'[m] = status[m]
                                /\ InFlight(m)' <=> InFlight(m)
      BY <2>1 DEF InFlight, TypeOK, ResolutionTypeOK, GraphTypeOK
    <3>2. visited \subseteq Node /\ active \subseteq active'
      BY <2>1 DEF TypeOK, ResolutionTypeOK
    <3>3. ~Busy(n) /\ gen[n] = None BY <1>2, <2>4, <2>5 DEF Books
    <3>4. status'[n] = "executing"
      BY <2>1, <2>4, <2>5 DEF TypeOK, ResolutionTypeOK, GraphTypeOK
    <3>5. /\ visited' = visited /\ gen' = gen /\ pending' = pending BY <2>1 DEF dataVars
    <3>6. Counted' = Counted /\ {m \in visited : InFlight(m)}' = {m \in visited : InFlight(m)}
      BY <2>5, <3>1, <3>2, <3>5 DEF Counted
    <3>7. \A m \in Node : /\ Busy(m)' => InFlight(m)' /\ m \in visited'
                          /\ status'[m] = "stalled" \/ gen'[m] # None => m \in visited'
      BY <1>2, <2>9, <3>1, <3>3, <3>4, <3>5 DEF Books
    <3>8. \A m \in ToSet(unvisited') : m \notin visited' /\ status'[m] = "waiting"
      BY <1>2, <2>1, <2>3, <2>6, <3>1, <3>5 DEF Books
    <3> QED BY <1>2, <2>1, <2>3, <3>2, <3>5, <3>6, <3>7, <3>8 DEF Books
  <2> QED BY <2>9, <2>11, <2>12, <2>13, <2>14
<1> QED BY <1>4, <1>5

\* _node_resolve_loop begins.
LEMMA StartKeeps ==
    ASSUME Inv, Start, UNCHANGED chunkVars
    PROVE  Inv'
BY NextUnvisitedKeeps DEF Start

\* The queue was closed: the inner loop is left.
LEMMA QueueClosedKeeps ==
    ASSUME Inv, QueueClosed, UNCHANGED chunkVars
    PROVE  Inv'
BY NextUnvisitedKeeps DEF QueueClosed

\* The tasks of q, which are nowhere, are queued one after the other.
LEMMA ConcatMoves ==
    ASSUME SyncInv, Apart, NEW q \in Seq(Task), IsInjective(q),
           \A x \in ToSet(q) : Nowhere(x), tasks' = tasks \o Wakeups(q), UNCHANGED syncVars
    PROVE  /\ SyncInv' /\ Apart'
           /\ \A x \in Task : Nowhere(x)' <=> (Nowhere(x) /\ x \notin ToSet(q))
<1>1. Wakeups(q) \in Seq(Packet) /\ Names(Wakeups(q)) = q BY NamesWakeups
<1> DEFINE w == Wakeups(q)
<1>2. tasks \in Seq(Packet) /\ IsInjective(Names(tasks)) BY DEF SyncInv, SyncTypeOK, Apart
<1>3. ToSet(q) \cap Ready = {} BY DEF Nowhere
<1>4. w \in Seq(Packet) /\ Names(w) = q /\ tasks' = tasks \o w BY <1>1
<1> HIDE DEF w
<1>5. Ready' = Ready \cup ToSet(q) /\ IsInjective(Names(tasks))'
  BY <1>2, <1>3, <1>4, ReadyConcat
<1>6. SyncInv'
  <2>1. tasks' \in Seq(Packet) BY <1>2, <1>4, ConcatProperties
  <2> QED BY <2>1, QueueInv
<1>7. UNCHANGED <<eventWaiters, lockWaiters, condWaiters>> BY DEF syncVars
<1>8. \A l \in Lock : Queuing(l)' = Queuing(l) BY <1>7 DEF Queuing
<1>9. Apart'
  <2>1. \A x \in ToSet(q) : /\ \A l \in Lock : x \notin Queuing(l)
                            /\ \A e \in Event : x \notin eventWaiters[e]
                            /\ \A c \in Cond : x \notin condWaiters[c]
    BY DEF Nowhere
  <2>2. /\ \A l \in Lock : Queuing(l)' \cap Ready' = {}
        /\ \A e \in Event : eventWaiters'[e] \cap Ready' = {}
        /\ \A c \in Cond : condWaiters'[c] \cap Ready' = {}
    BY <1>5, <1>7, <1>8, <2>1 DEF Apart
  <2>3. /\ \A l \in Lock : /\ IsInjective(lockWaiters'[l])
                           /\ \A m \in Lock \ {l} : Queuing(l)' \cap Queuing(m)' = {}
        /\ \A e \in Event : /\ \A l \in Lock : eventWaiters'[e] \cap Queuing(l)' = {}
                            /\ \A f \in Event \ {e} : eventWaiters'[e] \cap eventWaiters'[f] = {}
        /\ \A c \in Cond : /\ \A l \in Lock : condWaiters'[c] \cap Queuing(l)' = {}
                           /\ \A e \in Event : condWaiters'[c] \cap eventWaiters'[e] = {}
                           /\ \A d \in Cond \ {c} : condWaiters'[c] \cap condWaiters'[d] = {}
    BY <1>7, <1>8 DEF Apart
  <2> QED BY <1>5, <2>2, <2>3, Zenon DEF Apart
<1>10. \A x \in Task : Nowhere(x)' <=> (Nowhere(x) /\ x \notin ToSet(q))
  BY <1>5, <1>7, <1>8 DEF Nowhere
<1> QED BY <1>6, <1>9, <1>10

\* Main leaves the first put() and asks for an item.
LEMMA GetMoves ==
    ASSUME Inv, running = Main, Get, away' = away
    PROVE  /\ SyncInv' /\ Placed' /\ \A n \in Node : Busy(n)' <=> Busy(n)
           /\ running' = NoTask /\ at' = [at EXCEPT ![Main] = "get"] /\ hasItem' = FALSE
<1> USE DEF Inv
<1>1. Nowhere(Main) /\ Apart /\ SyncTypeOK BY Constants DEF Placed, SyncInv
<1>2. /\ LockAcquire(Main, queueLock) /\ running' = NoTask
      /\ at' = [at EXCEPT ![Main] = "get"] /\ hasItem' = FALSE
  BY DEF Get, Await
<1>3. SyncInv' BY <1>2, Constants, LockAcquireInv
<1>4. Parks(Main) BY <1>1, <1>2, Constants, LockAcquireParks
<1>5. away \subseteq Node BY Types
<1>6. Placed' /\ \A n \in Node : Busy(n)' <=> Busy(n)
  BY <1>2, <1>4, <1>5, Constants, Suspended
<1> QED BY <1>2, <1>3, <1>6

\* Main has put the first item.
LEMMA FirstGetKeeps ==
    ASSUME Inv, FirstGet, UNCHANGED chunkVars
    PROVE  Inv'
<1> USE DEF Inv
<1>1. /\ running = Main /\ at[Main] = "release" /\ putting' = [putting EXCEPT ![Main] = <<>>]
      /\ Get
      /\ UNCHANGED <<streamVars, loop, away, statusVars, unvisited, visited, active, pending,
                     queueVars, dataVars, work, chunkVars>>
  BY DEF FirstGet
<1>2. /\ SyncInv' /\ Placed' /\ \A n \in Node : Busy(n)' <=> Busy(n)
      /\ running' = NoTask /\ at' = [at EXCEPT ![Main] = "get"] /\ hasItem' = FALSE
  BY <1>1, GetMoves
<1>3. putting' \in [Task -> Seq(Node)]
  <2>1. <<>> \in Seq(Node) BY EmptySeq
  <2> QED BY <1>1, <2>1 DEF TypeOK, ResolutionTypeOK
<1>4. TypeOK'
  BY <1>1, <1>2, <1>3 DEF TypeOK, ResolutionTypeOK, GraphTypeOK, StreamTypeOK, SyncInv,
     TaskOrNone, streamVars, statusVars, queueVars, dataVars, chunkVars
<1>5. Numbered' BY <1>1 DEF Numbered, streamVars, dataVars, chunkVars
<1>6. Marks'
  <2>1. /\ UNCHANGED <<ports, gen, work, reading, stalledOn>>
        /\ DOMAIN at = Task /\ ports \in Seq(Port) /\ Main \in Task
        /\ \A x \in Task \ {Main} : putting'[x] = putting[x]
    BY <1>1, Types, Constants DEF streamVars, dataVars, statusVars, TypeOK, ResolutionTypeOK
  <2> QED BY <1>2, <2>1, MarksMove
<1>7. loop' = "running" => Books' BY <1>1, <1>2, BooksKept DEF statusVars, dataVars
<1> QED BY <1>2, <1>4, <1>5, <1>6, <1>7

\* Main takes an item, finds the queue closed, or waits for an item.
LEMMA GetBodyKeeps ==
    ASSUME Inv, GetBody, UNCHANGED chunkVars
    PROVE  Inv'
<1> USE DEF Inv
<1>1. /\ running = Main
      /\ \/ /\ items # <<>> /\ items' = Tail(items) /\ work' = <<Head(items)>>
            /\ hasItem' = TRUE /\ at' = [at EXCEPT ![Main] = "took"]
            /\ ConditionNotify(Main, notFull, FALSE)
         \/ /\ at' = [at EXCEPT ![Main] = "closed"] /\ LockRelease(Main, queueLock)
            /\ UNCHANGED <<items, work, hasItem>>
         \/ /\ at' = [at EXCEPT ![Main] = "wait"] /\ ConditionWait(Main, notEmpty)
            /\ UNCHANGED <<items, work, hasItem>>
      /\ running' = NoTask
      /\ UNCHANGED <<streamVars, loop, away, statusVars, unvisited, visited, active, pending,
                     closed, dataVars, putting, chunkVars>>
  BY DEF GetBody, Await
<1>2. Nowhere(Main) /\ Apart /\ SyncTypeOK /\ Main \in Task
  BY <1>1, Constants DEF Placed, SyncInv
<1>3. SyncInv' /\ Parks(Main)
  <2>1. CASE ConditionNotify(Main, notFull, FALSE)
    BY <1>2, <2>1, Constants, ConditionNotifyInv, ConditionNotifyParks
  <2>2. CASE LockRelease(Main, queueLock)
    <3>1. SyncInv' BY <2>2, Constants, LockReleaseInv
    <3>2. Parks(Main) BY <1>2, <2>2, Constants, LockReleaseParks
    <3> QED BY <3>1, <3>2
  <2>3. CASE ConditionWait(Main, notEmpty)
    <3>1. SyncInv' BY <2>3, Constants, ConditionWaitInv
    <3>2. Parks(Main) BY <1>2, <2>3, Constants, ConditionWaitParks
    <3> QED BY <3>1, <3>2
  <2> QED BY <1>1, <2>1, <2>2, <2>3
<1>4. away \subseteq Node /\ away' = away BY <1>1, Types
<1>5. Placed' /\ \A n \in Node : Busy(n)' <=> Busy(n) BY <1>1, <1>2, <1>3, <1>4, Suspended
<1>6. PICK place \in {"took", "closed", "wait"} : at' = [at EXCEPT ![Main] = place]
  BY <1>1
<1>7. /\ items' \in Seq(Node) /\ work' \in Seq(Node) /\ hasItem' \in BOOLEAN
      /\ place = "took" => work' # <<>>
  <2>1. items \in Seq(Node) /\ work \in Seq(Node) /\ hasItem \in BOOLEAN
    BY DEF TypeOK, ResolutionTypeOK
  <2>2. items # <<>> => Tail(items) \in Seq(Node) /\ Head(items) \in Node
    BY <2>1, HeadTailProperties
  <2>3. \A i \in Node : <<i>> \in Seq(Node) /\ <<i>> # <<>> BY SeqDef
  <2>4. at'[Main] = place BY <1>2, <1>6, Types
  <2>5. place = "took" => at' = [at EXCEPT ![Main] = "took"] BY <1>6
  <2>6. at' = [at EXCEPT ![Main] = "closed"] \/ at' = [at EXCEPT ![Main] = "wait"]
           => place # "took"
    BY <1>2, <2>4, Types
  <2> QED BY <1>1, <2>1, <2>2, <2>3, <2>6
<1>8. TypeOK'
  BY <1>1, <1>3, <1>6, <1>7 DEF TypeOK, ResolutionTypeOK, GraphTypeOK, StreamTypeOK, SyncInv,
     TaskOrNone, streamVars, statusVars, dataVars, chunkVars
<1>9. Numbered' BY <1>1 DEF Numbered, streamVars, dataVars, chunkVars
<1>10. Marks'
  <2>1. /\ UNCHANGED <<ports, gen, putting, reading, stalledOn>>
        /\ DOMAIN at = Task /\ ports \in Seq(Port)
    BY <1>1, Types DEF streamVars, dataVars, statusVars
  <2> QED BY <1>2, <1>6, <1>7, <2>1, MarksMove
<1>11. loop' = "running" => Books' BY <1>1, <1>5, BooksKept DEF statusVars, dataVars
<1> QED BY <1>3, <1>5, <1>8, <1>9, <1>10, <1>11

\* Main leaves the lock with its item.
LEMMA GotItemKeeps ==
    ASSUME Inv, GotItem, UNCHANGED chunkVars
    PROVE  Inv'
<1> USE DEF Inv
<1>1. /\ running = Main /\ at[Main] = "took" /\ running' = NoTask
      /\ at' = [at EXCEPT ![Main] = "left"] /\ LockRelease(Main, queueLock)
      /\ UNCHANGED <<streamVars, loop, away, statusVars, bookVars, queueVars, dataVars,
                     putting, work, chunkVars>>
  BY DEF GotItem, Await
<1>2. Nowhere(Main) /\ Apart /\ SyncTypeOK /\ Main \in Task
  BY <1>1, Constants DEF Placed, SyncInv
<1>3. SyncInv' BY <1>1, Constants, LockReleaseInv
<1>4. Parks(Main) BY <1>1, <1>2, Constants, LockReleaseParks
<1>5. away \subseteq Node /\ away' = away BY <1>1, Types
<1>6. Placed' /\ \A n \in Node : Busy(n)' <=> Busy(n) BY <1>1, <1>2, <1>4, <1>5, Suspended
<1>7. TypeOK'
  BY <1>1, <1>3 DEF TypeOK, ResolutionTypeOK, GraphTypeOK, StreamTypeOK, SyncInv,
     TaskOrNone, streamVars, statusVars, bookVars, queueVars, dataVars, chunkVars
<1>8. Numbered' BY <1>1 DEF Numbered, streamVars, dataVars, chunkVars
<1>9. Marks'
  <2>1. work # <<>> BY <1>1, <1>2 DEF Marks, Mark
  <2>2. /\ UNCHANGED <<ports, gen, putting, reading, stalledOn, work>>
        /\ DOMAIN at = Task /\ ports \in Seq(Port)
    BY <1>1, Types DEF streamVars, dataVars, statusVars
  <2> QED BY <1>1, <1>2, <2>1, <2>2, MarksMove
<1>10. loop' = "running" => Books' BY <1>1, <1>6, BooksKept DEF statusVars, bookVars, dataVars
<1> QED BY <1>3, <1>6, <1>7, <1>8, <1>9, <1>10

\* The status of a node that was looked at: one that is in neither list is registered again.
Looked(N) == [n \in Node |-> IF n \in N /\ Unregistered(n) THEN "waiting" ELSE status[n]]

\* Looking at nodes changes nothing that the books say of the others, and adds none to those
\* that have a completion pending.
LEMMA LookedMoves ==
    ASSUME TypeOK, Books, NEW N \in SUBSET Node
    PROVE  LET st == Looked(N)  vis == visited \cup N IN
           /\ st \in [Node -> {"waiting", "queued", "executing", "stalled", "error"}]
           /\ \A n \in vis : /\ st[n] = "stalled" => n \in visited /\ status[n] = "stalled"
                             /\ st[n] \in {"queued", "executing"} => n \in visited /\ InFlight(n)
           /\ \A n \in visited : st[n] = status[n]
           /\ \A n \in Node : /\ Busy(n) => st[n] = status[n]
                              /\ st[n] = "stalled" => n \in visited
           /\ \A n \in ToSet(unvisited) : st[n] = "waiting"
<1> DEFINE st == Looked(N)
<1>1. status \in [Node -> {"waiting", "queued", "executing", "stalled", "error"}]
  BY DEF TypeOK, ResolutionTypeOK, GraphTypeOK
<1>2. \A n \in Node : st[n] = IF n \in N /\ Unregistered(n) THEN "waiting" ELSE status[n]
  BY DEF Looked
<1>3. st \in [Node -> {"waiting", "queued", "executing", "stalled", "error"}]
  BY <1>1 DEF Looked
<1> HIDE DEF st
<1>4. visited \subseteq Node /\ ToSet(unvisited) \subseteq Node
  BY QueueMembers DEF TypeOK, ResolutionTypeOK
<1>5. \A n \in Node : n \notin visited => Unregistered(n) \/ status[n] = "waiting"
  BY DEF Unregistered, Books
<1>6. \A n \in visited : st[n] = status[n] BY <1>2, <1>4 DEF Unregistered
<1>7. \A n \in N : n \notin visited => st[n] = "waiting" BY <1>2, <1>5
<1>8. \A n \in Node : /\ Busy(n) => st[n] = status[n]
                      /\ st[n] = "stalled" => n \in visited
  BY <1>2, <1>6 DEF Books
<1>9. \A n \in ToSet(unvisited) : st[n] = "waiting" BY <1>2, <1>4 DEF Books
<1> QED BY <1>3, <1>6, <1>7, <1>8, <1>9 DEF st, InFlight

\* The first element of a list that passes a test, or 0.
LEMMA FirstResumable ==
    ASSUME NEW list \in Seq(Node)
    PROVE  LET k == SelectInSeq(list, Resumable) IN
           k = 0 \/ (k \in 1..Len(list) /\ Resumable(list[k]))
<1> DEFINE I == {i \in 1..Len(list) : Resumable(list[i])}
<1>1. SelectInSeq(list, Resumable) = IF I # {} THEN Min(I) ELSE 0 BY DEF SelectInSeq
<1>2. I \in SUBSET Nat BY LenProperties
<1>3. ASSUME I # {} PROVE Min(I) \in I
  <2> HIDE DEF I
  <2> QED BY <1>2, <1>3, MinIsMember
<1> QED BY <1>1, <1>3

\* The nodes that Main looks at, and the first that is resumed.
LEMMA LookAtKeeps ==
    ASSUME Inv, running = Main, NEW list \in Seq(Node), LookAt(list),
           UNCHANGED <<streamVars, loop, away, queueVars, dataVars, putting, chunkVars>>
    PROVE  Inv'
<1> USE DEF Inv
<1> DEFINE k == SelectInSeq(list, Resumable)
           looked == IF k = 0 THEN list ELSE SubSeq(list, 1, k)
           N == ToSet(looked)
           st == Looked(N)
           x == list[k]
           rest == SubSeq(list, k + 1, Len(list))
<1>1. /\ unvisited' = Without(unvisited, N) /\ visited' = visited \cup N
      /\ UNCHANGED stalledOn
      /\ IF k = 0
           THEN status' = st /\ work' = <<>> /\ Get /\ UNCHANGED <<active, pending>>
           ELSE status' = [st EXCEPT ![x] = "queued"] /\ Resume(x, st[x], rest)
  BY DEF LookAt, Looked
<1>2. k = 0 \/ (k \in 1..Len(list) /\ Resumable(x)) BY FirstResumable
<1>3. Len(list) \in Nat /\ DOMAIN list = 1..Len(list) /\ \A i \in 1..Len(list) : list[i] \in Node
  BY LenProperties, ElementOfSeq
<1> HIDE DEF k
<1>4. N \in SUBSET Node /\ (k # 0 => x \in N)
  <2>1. CASE k = 0
    <3>1. looked = list BY <2>1
    <3> HIDE DEF looked
    <3> QED BY <2>1, <3>1, QueueMembers
  <2>2. CASE k # 0
    <3> DEFINE s == SubSeq(list, 1, k)
    <3>1. k \in 1..Len(list) BY <1>2, <2>2
    <3>2. \A i \in 1..k : list[i] \in Node BY <1>3, <3>1
    <3>3. 1 \in Int /\ k \in Int /\ 1 <= k /\ k - 1 + 1 = k /\ 1 + k - 1 = k
      BY <1>3, <3>1
    <3>4. s \in Seq(Node) /\ Len(s) = k /\ s[k] = list[k]
      <4>1. /\ SubSeq(list, 1, k) \in Seq(Node)
            /\ Len(SubSeq(list, 1, k)) = IF 1 <= k THEN k - 1 + 1 ELSE 0
            /\ \A i \in 1..k - 1 + 1 : SubSeq(list, 1, k)[i] = list[1 + i - 1]
        BY <3>2, <3>3, SubSeqProperties
      <4> QED BY <3>3, <4>1
    <3>5. looked = s BY <2>2
    <3> HIDE DEF s, looked
    <3>6. k \in DOMAIN s BY <3>3, <3>4, LenProperties
    <3>7. x \in ToSet(s) BY <3>4, <3>6, Zenon DEF ToSet
    <3> QED BY <3>4, <3>5, <3>7, QueueMembers
  <2> QED BY <2>1, <2>2
<1> HIDE DEF N
<1>5. Main \in Task /\ Main # NoTask /\ Main \notin Node /\ loop = "running" /\ Books /\ Apart
      /\ Nowhere(Main)
  BY Constants DEF Placed
<1>6. /\ st \in [Node -> {"waiting", "queued", "executing", "stalled", "error"}]
      /\ \A n \in visited \cup N :
            /\ st[n] = "stalled" => n \in visited /\ status[n] = "stalled"
            /\ st[n] \in {"queued", "executing"} => n \in visited /\ InFlight(n)
      /\ \A n \in visited : st[n] = status[n]
      /\ \A n \in Node : /\ Busy(n) => st[n] = status[n]
                         /\ st[n] = "stalled" => n \in visited
      /\ \A n \in ToSet(unvisited) : st[n] = "waiting"
  BY <1>4, <1>5, LookedMoves
<1> HIDE DEF st
<1>7. away \subseteq Node /\ away' = away /\ running \in TaskOrNone BY Types
<1>8. visited \subseteq Node /\ unvisited \in Seq(Node) /\ active \subseteq Node /\ pending \in Nat
      /\ hasItem \in BOOLEAN
  BY DEF TypeOK, ResolutionTypeOK
<1>9. /\ unvisited' \in Seq(Node) /\ visited' \subseteq Node
      /\ ToSet(unvisited') \subseteq ToSet(unvisited) \ N
      /\ IsInjective(unvisited')
  BY <1>1, <1>4, <1>5, <1>8, WithoutMembers DEF Books
<1>10. rest \in Seq(Node)
  <2>1. CASE k = 0
    <3>1. rest = SubSeq(list, 1, Len(list)) BY <2>1
    <3>2. \A i \in 1..Len(list) : list[i] \in Node BY <1>3
    <3> HIDE DEF rest
    <3> QED BY <1>3, <3>1, <3>2, SubSeqProperties
  <2>2. CASE k # 0
    <3>1. k \in Nat BY <1>2, <1>3, <2>2
    <3>2. k + 1 \in Int /\ \A i \in (k + 1)..Len(list) : list[i] \in Node BY <1>3, <3>1
    <3> QED BY <1>3, <3>2, SubSeqProperties
  <2> QED BY <2>1, <2>2
<1> HIDE DEF rest
<1>11. ports' = ports /\ gen' = gen BY DEF streamVars, dataVars
<1>12. Numbered' BY DEF Numbered, streamVars, dataVars, chunkVars
<1>13. UNCHANGED <<ports, gen, putting, reading, stalledOn>> /\ DOMAIN at = Task
       /\ ports \in Seq(Port)
  BY <1>1, Types DEF streamVars, dataVars
<1>14. CASE k = 0
  <2>1. status' = st /\ work' = <<>> /\ Get /\ UNCHANGED <<active, pending>> BY <1>1, <1>14
  <2>2. /\ SyncInv' /\ Placed' /\ \A n \in Node : Busy(n)' <=> Busy(n)
        /\ running' = NoTask /\ at' = [at EXCEPT ![Main] = "get"] /\ hasItem' = FALSE
    BY <1>7, <2>1, GetMoves
  <2>3. <<>> \in Seq(Node) BY EmptySeq
  <2>4. TypeOK'
    BY <1>1, <1>6, <1>9, <2>1, <2>2, <2>3 DEF TypeOK, ResolutionTypeOK, GraphTypeOK,
       StreamTypeOK, SyncInv, TaskOrNone, streamVars, queueVars, dataVars, chunkVars
  <2>5. Marks' BY <1>5, <1>13, <2>2, MarksMove
  <2>6. \A n \in visited' : n \in visited \/ st[n] \notin {"stalled", "queued", "executing"}
    BY <1>1, <1>6
  <2>7. Counted' = Counted BY <1>1, <1>6, <2>1, <2>6 DEF Counted, InFlight
  <2>8. {n \in visited : InFlight(n)}' = {n \in visited : InFlight(n)}
    BY <1>1, <1>6, <2>1, <2>6 DEF InFlight
  <2>9. \A n \in Node : /\ Busy(n)' => InFlight(n)' /\ n \in visited'
                        /\ status'[n] = "stalled" \/ gen'[n] # None => n \in visited'
    BY <1>1, <1>5, <1>6, <1>11, <2>1, <2>2 DEF Books, InFlight
  <2>10. \A n \in ToSet(unvisited') : n \notin visited' /\ status'[n] = "waiting"
    BY <1>1, <1>5, <1>6, <1>9, <2>1 DEF Books
  <2>11. Books' BY <1>5, <1>9, <2>1, <2>7, <2>8, <2>9, <2>10 DEF Books
  <2> QED BY <1>12, <2>2, <2>4, <2>5, <2>11
<1>15. CASE k # 0
  <2>1. /\ status' = [st EXCEPT ![x] = "queued"] /\ active' = active \cup {x}
        /\ pending' = IF st[x] = "waiting" THEN pending + 1 ELSE pending
        /\ UNCHANGED <<hasItem, syncVars>>
        /\ tasks' = tasks \o <<Wakeup(x), Wakeup(Main)>>
        /\ running' = NoTask /\ at' = [at EXCEPT ![Main] = "resume"] /\ work' = rest
    BY <1>1, <1>15 DEF Resume, Await
  <2>2. x \in Node /\ x \in N /\ Resumable(x) BY <1>2, <1>4, <1>15
  <2> HIDE DEF x
  <2>3. x \in Task /\ x # Main /\ x # NoTask BY <1>5, <2>2, Constants
  <2>4. ~Busy(x) /\ st[x] \in {"waiting", "stalled"}
    <3>1. Unregistered(x) \/ status[x] \in {"waiting", "stalled"} BY <2>2 DEF Resumable
    <3>2. ~Busy(x) BY <1>5, <2>2, <3>1 DEF Books, Unregistered, InFlight
    <3>3. st[x] \in {"waiting", "stalled"} BY <2>2, <3>1 DEF st, Looked
    <3> QED BY <3>2, <3>3
  <2> DEFINE q == <<x, Main>>
  <2>5. /\ q \in Seq(Task) /\ ToSet(q) = {x, Main} /\ IsInjective(q)
        /\ Wakeups(q) = <<Wakeup(x), Wakeup(Main)>>
    <3>1. q \in Seq(Task) /\ Len(q) = 2 /\ q[1] = x /\ q[2] = Main /\ DOMAIN q = 1..2
      BY <1>5, <2>3
    <3>2. 1..2 = {1, 2} OBVIOUS
    <3>3. Wakeups(q) = <<Wakeup(x), Wakeup(Main)>> BY <3>1 DEF Wakeups
    <3> HIDE DEF q
    <3>4. ToSet(q) = {x, Main} BY <3>1, <3>2, Zenon DEF ToSet
    <3>6. \A a, b \in 1..2 : q[a] = q[b] => a = b BY <2>3, <3>1
    <3>5. IsInjective(q) BY <3>1, <3>6, Zenon DEF IsInjective
    <3> QED BY <3>1, <3>3, <3>4, <3>5
  <2> HIDE DEF q
  <2>6. \A y \in ToSet(q) : Nowhere(y) BY <1>5, <2>4, <2>5 DEF Busy
  <2>7. tasks' = tasks \o Wakeups(q) /\ UNCHANGED syncVars BY <2>1, <2>5
  <2>8. /\ SyncInv' /\ Apart'
        /\ \A y \in Task : Nowhere(y)' <=> (Nowhere(y) /\ y \notin ToSet(q))
    BY <1>5, <2>5, <2>6, <2>7, ConcatMoves
  <2>9. Placed'
    <3>1. x \notin away BY <2>4 DEF Busy
    <3> QED BY <1>5, <1>7, <2>1, <2>5, <2>8, <3>1, Constants DEF Placed
  <2>10. \A n \in Node : Busy(n)' <=> (Busy(n) \/ n = x)
    BY <1>5, <1>7, <2>1, <2>2, <2>5, <2>8, Constants DEF Busy
  <2>11. TypeOK'
    <3>1. /\ status' \in [Node -> {"waiting", "queued", "executing", "stalled", "error"}]
          /\ active' \subseteq Node /\ pending' \in Nat
      BY <1>6, <1>8, <2>1, <2>2
    <3> QED BY <1>1, <1>9, <1>10, <2>1, <2>8, <3>1 DEF TypeOK, ResolutionTypeOK, GraphTypeOK,
          StreamTypeOK, SyncInv, TaskOrNone, streamVars, queueVars, dataVars, chunkVars
  <2>12. Marks' BY <1>5, <1>13, <2>1, MarksMove
  <2>13. status'[x] = "queued" /\ \A n \in Node \ {x} : status'[n] = st[n]
    BY <1>6, <2>1, <2>2
  <2>14. \A n \in visited' : n \in visited \/ st[n] \notin {"stalled", "queued", "executing"}
    BY <1>1, <1>6
  <2>15. Counted' = Counted \cup {x}
    <3>1. \A n \in visited' : n # x => (n \in Counted <=> n \in Counted')
      BY <1>1, <1>6, <1>9, <2>13, <2>14 DEF Counted, InFlight
    <3>2. x \in Counted' BY <1>1, <2>2, <2>13 DEF Counted, InFlight
    <3>3. Counted \subseteq visited' /\ Counted' \subseteq visited' BY <1>1 DEF Counted
    <3> QED BY <3>1, <3>2, <3>3
  <2>16. x \in Counted <=> st[x] = "stalled"
    BY <1>1, <1>6, <2>2, <2>4 DEF Counted, InFlight
  <2>17. pending' = Cardinality(Counted)'
    <3> DEFINE C == Counted
    <3>1. C \in SUBSET Node BY <1>8 DEF Counted
    <3>2. pending = Cardinality(C) BY <1>5 DEF Books
    <3> HIDE DEF C
    <3>3. IsFiniteSet(C) BY <3>1, Constants, FS_Subset
    <3>4. Cardinality(C \cup {x}) = IF x \in C THEN Cardinality(C) ELSE Cardinality(C) + 1
      BY <3>3, FS_AddElement
    <3>5. x \in C <=> st[x] # "waiting" BY <2>4, <2>16 DEF C
    <3>6. pending' = Cardinality(C \cup {x}) BY <2>1, <3>2, <3>4, <3>5
    <3> QED BY <2>15, <3>6 DEF C
  <2>18. {n \in visited : InFlight(n)}' \subseteq active'
    <3>2. \A n \in visited' : InFlight(n)' => n = x \/ (n \in visited /\ InFlight(n))
      BY <1>1, <1>6, <1>9, <2>13, <2>14 DEF InFlight
    <3>1. {n \in visited : InFlight(n)}' \subseteq {n \in visited : InFlight(n)} \cup {x}
      BY <3>2
    <3> QED BY <1>5, <2>1, <3>1 DEF Books
  <2>19. \A n \in Node : /\ Busy(n)' => InFlight(n)' /\ n \in visited'
                         /\ status'[n] = "stalled" \/ gen'[n] # None => n \in visited'
    BY <1>1, <1>5, <1>6, <1>11, <2>2, <2>10, <2>13 DEF Books, InFlight
  <2>20. \A n \in ToSet(unvisited') : n \notin visited' /\ status'[n] = "waiting"
    <3>1. ToSet(unvisited) \subseteq Node BY <1>8, QueueMembers
    <3> QED BY <1>1, <1>5, <1>6, <1>9, <2>2, <2>13, <3>1 DEF Books
  <2>21. Books' BY <1>9, <2>17, <2>18, <2>19, <2>20 DEF Books
  <2> QED BY <1>12, <2>8, <2>9, <2>11, <2>12, <2>21
<1> QED BY <1>14, <1>15

\* Main finds the nodes to run first, or a cycle without defaults.
LEMMA SolveKeeps ==
    ASSUME Inv, Solve, UNCHANGED chunkVars
    PROVE  Inv'
<1> USE DEF Inv
<1> DEFINE leaves == LeafSupernodes(Head(work))
<1>1. /\ running = Main /\ at[Main] = "left"
      /\ UNCHANGED <<streamVars, away, queueVars, dataVars, putting, chunkVars>>
      /\ \/ End("error") /\ UNCHANGED <<statusVars, bookVars, work>>
         \/ /\ \E pick \in [ToSet(leaves) -> Node] :
                 LookAt([i \in DOMAIN leaves |-> pick[leaves[i]]])
            /\ UNCHANGED loop
  BY Zenon DEF Solve
<1>2. work \in Seq(Node) /\ work # <<>>
  BY <1>1, Constants DEF Marks, Mark, TypeOK, ResolutionTypeOK
<1>3. Head(work) \in Node BY <1>2, HeadTailProperties
<1>4. leaves \in Seq(SUBSET Node) BY <1>3, Types, LeavesType
<1> HIDE DEF leaves
<1>5. CASE End("error") /\ UNCHANGED <<statusVars, bookVars, work>>
  <2>1. loop' = "error" /\ running' = NoTask /\ UNCHANGED <<tasks, syncVars, at>>
    BY <1>5 DEF End
  <2>2. SyncInv' /\ Keeps BY <2>1, NothingMoves DEF Placed
  <2>3. away \subseteq Node /\ running \in TaskOrNone /\ away' = away BY <1>1, Types
  <2>4. Placed' BY <2>1, <2>2, <2>3, Left
  <2>5. TypeOK'
    BY <1>1, <1>5, <2>1, <2>2 DEF TypeOK, ResolutionTypeOK, GraphTypeOK, StreamTypeOK,
       SyncInv, TaskOrNone, streamVars, statusVars, bookVars, queueVars, dataVars, chunkVars
  <2>6. Numbered' BY <1>1 DEF Numbered, streamVars, dataVars, chunkVars
  <2>7. Marks' BY <1>1, <1>5, <2>1, MarksStand DEF streamVars, statusVars, dataVars
  <2> QED BY <2>1, <2>2, <2>4, <2>5, <2>6, <2>7
<1>6. CASE /\ \E pick \in [ToSet(leaves) -> Node] :
                LookAt([i \in DOMAIN leaves |-> pick[leaves[i]]])
           /\ UNCHANGED loop
  <2>1. PICK pick \in [ToSet(leaves) -> Node] :
           LookAt([i \in DOMAIN leaves |-> pick[leaves[i]]])
    BY <1>6
  <2> DEFINE list == [i \in DOMAIN leaves |-> pick[leaves[i]]]
  <2>2. Len(leaves) \in Nat /\ DOMAIN leaves = 1..Len(leaves) BY <1>4, LenProperties
  <2>3. \A i \in DOMAIN leaves : leaves[i] \in ToSet(leaves) BY Zenon DEF ToSet
  <2>4. list \in [1..Len(leaves) -> Node] BY <2>2, <2>3
  <2>5. list \in Seq(Node)
    <3> HIDE DEF list
    <3> DEFINE N == Len(leaves)
    <3>1. N \in Nat /\ list \in [1..N -> Node] BY <2>2, <2>4
    <3> HIDE DEF N
    <3> QED BY <3>1, SeqDef
  <2>6. LookAt(list) BY <2>1
  <2> HIDE DEF list
  <2> QED BY <1>1, <1>6, <2>5, <2>6, LookAtKeeps
<1> QED BY <1>1, <1>5, <1>6

\* Main has resumed a node and looks at the next.
LEMMA NextLeafKeeps ==
    ASSUME Inv, NextLeaf, UNCHANGED chunkVars
    PROVE  Inv'
<1>1. work \in Seq(Node) BY DEF Inv, TypeOK, ResolutionTypeOK
<1>2. /\ running = Main /\ LookAt(work)
      /\ UNCHANGED <<streamVars, loop, away, queueVars, dataVars, putting>>
  BY DEF NextLeaf
<1> QED BY <1>1, <1>2, LookAtKeeps

\* Whoever asks for a chunk runs, has gathered its inputs, and asks at one of its ports.
LEMMA AsksMeans ==
    ASSUME Inv, NEW n \in Node, NEW p \in Asks(n)
    PROVE  running = n /\ Gathered(n) /\ p \in DOMAIN ports
<1>1. running = n /\ (at[n] = "stalled" \/ InCode(n)) BY DEF Asks
<1>2. Gathered(n) BY <1>1 DEF Gathered, InCode
<1>3. CASE at[n] = "stalled"
  <2>1. p = stalledOn[n] BY <1>1, <1>3 DEF Asks
  <2>2. stalledOn[n] \in DOMAIN ports BY <1>3, Constants DEF Inv, Marks, Mark
  <2> QED BY <1>1, <1>2, <2>1, <2>2
<1>4. CASE at[n] # "stalled"
  <2>1. p \in reading[n].open BY <1>1, <1>4 DEF Asks
  <2>2. reading[n].open \in SUBSET DOMAIN ports BY DEF Inv, TypeOK, ResolutionTypeOK
  <2> QED BY <1>1, <1>2, <2>1, <2>2
<1> QED BY <1>3, <1>4

\* The consumer goes on in its code: its task stays, and keeps its inputs.
LEMMA GoOnKeeps ==
    ASSUME Inv, NEW n \in Node, NEW p \in Asks(n), GoOn(n), Forget(p),
           last' \in [DOMAIN ports -> Generation], \A x \in DOMAIN ports : last'[x] # <<>>,
           reading' \in [Node -> [count : SUBSET DOMAIN ports, default : SUBSET DOMAIN ports,
                                  open : SUBSET DOMAIN ports]],
           \A m \in Node : reading'[m].default = reading[m].default,
           latch1' \in [Node -> Nat],
           UNCHANGED <<tasks, syncVars, ports, blank, loop, away, bookVars, queueVars, gen,
                       stitch, defaulted, latch, putting, work, chunks, cancels, thrown>>
    PROVE  Inv'
<1> USE DEF Inv
<1>1. running = n /\ Gathered(n) /\ p \in DOMAIN ports BY AsksMeans
<1>2. /\ at' = [at EXCEPT ![n] = "body"] /\ stalledOn' = [stalledOn EXCEPT ![n] = 0]
      /\ UNCHANGED <<running, status>>
  BY DEF GoOn
<1>3. dropped' \subseteq DOMAIN ports BY DEF Forget, TypeOK, ResolutionTypeOK
<1>4. SyncInv' /\ Keeps BY NothingMoves DEF Placed
<1>5. away \subseteq Node /\ running \in TaskOrNone BY Types
<1>6. Placed' /\ \A m \in Node : Busy(m)' <=> Busy(m) BY <1>2, <1>4, <1>5, Stayed
<1>7. stalledOn' \in [Node -> {0} \cup DOMAIN ports]
  BY <1>2 DEF TypeOK, ResolutionTypeOK, GraphTypeOK
<1>8. TypeOK'
  BY <1>2, <1>3, <1>4, <1>7 DEF TypeOK, ResolutionTypeOK, GraphTypeOK, StreamTypeOK, SyncInv,
     bookVars, queueVars
<1>9. Numbered' BY DEF Numbered
<1>10. Marks'
  <2>1. \A m \in Node \ {n} : stalledOn'[m] = stalledOn[m]
    BY <1>2 DEF TypeOK, ResolutionTypeOK, GraphTypeOK
  <2>2. n # Main /\ n \in Task /\ DOMAIN at = Task /\ ports \in Seq(Port)
    BY Constants, Types
  <2> QED BY <1>1, <1>2, <2>1, <2>2, MarksMove
<1>11. loop' = "running" => Books' BY <1>2, <1>6, BooksKept DEF bookVars
<1> QED BY <1>4, <1>6, <1>8, <1>9, <1>10, <1>11

\* The chunk that is read next has a number of a run level, or is the latest of its producer.
LEMMA ChunkType ==
    ASSUME Inv, NEW p \in DOMAIN ports
    PROVE  /\ Chunk(p) \in Generation \ {<<>>}
           /\ Desired(p) \in Seq(Nat) /\ Len(Desired(p)) = 2
<1>1. ports[p].source \in Node BY Types DEF Inv
<1>2. gen[ports[p].source] \in Generation \ {<<>>}
  BY <1>1 DEF Inv, Numbered, TypeOK, ResolutionTypeOK, GraphTypeOK
<1>3. last[p] \in Generation \ {<<>>} BY DEF Inv, Numbered, TypeOK, StreamTypeOK
<1> DEFINE d == Desired(p)
<1>4. 1 \in Nat /\ 1 + 1 = 2 OBVIOUS
<1>5. d \in Seq(Nat) /\ Len(d) = 1 + 1
  BY <1>3, <1>4, IncIsLeastAbove, Zenon DEF Desired
<1>6. d # <<>>
  <2> HIDE DEF d
  <2>1. Len(d) # 0 BY <1>4, <1>5
  <2> QED BY <1>5, <2>1, EmptySeq
<1>7. Chunk(p) \in Generation \ {<<>>} BY <1>2, <1>5, <1>6 DEF Chunk, Generation
<1> QED BY <1>4, <1>5, <1>7

\* A chunk is read.
LEMMA ReadKeeps ==
    ASSUME Inv, NEW n \in Node, NEW p \in Asks(n), Read(n, p)
    PROVE  Inv'
<1>1. /\ last' = [last EXCEPT ![p] = Chunk(p)] /\ GoOn(n) /\ Forget(p)
      /\ latch1' = [latch1 EXCEPT ![ports[p].source] = CountedDown(@)]
      /\ UNCHANGED <<tasks, syncVars, ports, blank, loop, away, bookVars, queueVars, dataVars,
                     putting, work, chunks, cancels, thrown>>
  BY DEF Read
<1>2. p \in DOMAIN ports BY AsksMeans
<1>3. last' \in [DOMAIN ports -> Generation] /\ \A x \in DOMAIN ports : last'[x] # <<>>
  BY <1>1, <1>2, ChunkType DEF Inv, Numbered, TypeOK, StreamTypeOK
<1>4. latch1' \in [Node -> Nat]
  <2>1. \A c \in Nat : CountedDown(c) \in Nat BY DEF CountedDown
  <2>2. latch1 \in [Node -> Nat] BY DEF Inv, TypeOK, StreamTypeOK
  <2> QED BY <1>1, <2>1, <2>2
<1>5. reading' = reading /\ UNCHANGED <<gen, stitch, defaulted, latch>> BY <1>1 DEF dataVars
<1>6. reading' \in [Node -> [count : SUBSET DOMAIN ports, default : SUBSET DOMAIN ports,
                             open : SUBSET DOMAIN ports]]
  BY <1>5 DEF Inv, TypeOK, ResolutionTypeOK
<1>7. \A m \in Node : reading'[m].default = reading[m].default BY <1>5
<1> QED BY <1>1, <1>3, <1>4, <1>5, <1>6, <1>7, GoOnKeeps

\* The end of a stream is read.
LEMMA ReadEndKeeps ==
    ASSUME Inv, NEW n \in Node, NEW p \in Asks(n), ReadEnd(n, p)
    PROVE  Inv'
<1>1. /\ last' = [last EXCEPT ![p] = IF Restarted(p) THEN None ELSE @] /\ GoOn(n) /\ Forget(p)
      /\ reading' = [reading EXCEPT ![n].open = @ \ {p}]
      /\ UNCHANGED <<tasks, syncVars, ports, blank, loop, away, bookVars, queueVars, gen,
                     stitch, defaulted, latch, putting, work, chunks, latch1, cancels, thrown>>
  BY DEF ReadEnd
<1>2. p \in DOMAIN ports BY AsksMeans
<1>3. last' \in [DOMAIN ports -> Generation] /\ \A x \in DOMAIN ports : last'[x] # <<>>
  <2>1. None \in Generation /\ None # <<>>
    <3>1. <<>> \in Seq(Nat) BY EmptySeq
    <3> QED BY <3>1, NoneAssumption DEF Generation
  <2> QED BY <1>1, <1>2, <2>1 DEF Inv, Numbered, TypeOK, StreamTypeOK
<1>4. reading' \in [Node -> [count : SUBSET DOMAIN ports, default : SUBSET DOMAIN ports,
                             open : SUBSET DOMAIN ports]]
  <2> DEFINE P == DOMAIN ports
  <2>1. /\ reading \in [Node -> [count : SUBSET P, default : SUBSET P, open : SUBSET P]]
        /\ {p} \in SUBSET P
    BY <1>2 DEF Inv, TypeOK, ResolutionTypeOK
  <2> HIDE DEF P
  <2>2. reading' \in [Node -> [count : SUBSET P, default : SUBSET P, open : SUBSET P]]
    BY <1>1, <2>1, ReadingType
  <2> QED BY <2>2 DEF P
<1>5. \A m \in Node : reading'[m].default = reading[m].default
  BY <1>1 DEF Inv, TypeOK, ResolutionTypeOK
<1>6. latch1' \in [Node -> Nat] BY <1>1 DEF Inv, TypeOK, StreamTypeOK
<1> QED BY <1>1, <1>3, <1>4, <1>5, <1>6, GoOnKeeps

\* There is no chunk to read: the consumer is stalled, and its producer may be asked for
\* one.  The consumer was in flight, and is active no more; its completion stays pending.
LEMMA StallKeeps ==
    ASSUME Inv, NEW n \in Node, NEW p \in Asks(n), Stall(n, p)
    PROVE  Inv'
<1> USE DEF Inv
<1> DEFINE producer == ports[p].source
<1>1. /\ status' = [status EXCEPT ![n] = "stalled"] /\ stalledOn' = [stalledOn EXCEPT ![n] = p]
      /\ active' = active \ {n} /\ at' = [at EXCEPT ![n] = "stalled"] /\ running' = NoTask
      /\ UNCHANGED <<streamVars, away, unvisited, visited, pending, hasItem, closed, dataVars,
                     putting, work, chunkVars>>
      /\ \/ UNCHANGED <<items, tasks, syncVars, loop>>
         \/ loop' = "error" /\ UNCHANGED <<items, tasks, syncVars>>
         \/ items' = Append(items, producer) /\ NotifyNowait(notEmpty) /\ UNCHANGED loop
  BY DEF Stall
<1>2. running = n /\ Gathered(n) /\ p \in DOMAIN ports BY AsksMeans
<1>3. producer \in Node /\ ports \in Seq(Port) /\ DOMAIN at = Task BY <1>2, Types
<1> HIDE DEF producer
<1>4. n \in Task /\ n # NoTask /\ n # Main /\ running \in TaskOrNone BY Constants, Types
<1>5. Books /\ Apart /\ loop = "running" BY <1>2, <1>4 DEF Placed
<1>6. n \in visited /\ InFlight(n) BY <1>2, <1>5 DEF Books, Busy
<1>7. SyncInv' /\ Keeps
  BY <1>1, <1>5, Constants, NothingMoves, NotifyNowaitMoves
<1>8. away \subseteq Node /\ away' = away BY <1>1, Types
<1>9. Placed' /\ \A m \in Node : Busy(m)' <=> (Busy(m) /\ running # m)
  BY <1>1, <1>4, <1>7, <1>8, Left
<1>10. loop' \in {"running", "done", "limit", "error"} /\ items' \in Seq(Node)
  <2>1. items \in Seq(Node) /\ Append(items, producer) \in Seq(Node)
    BY <1>3, AppendProperties DEF TypeOK, ResolutionTypeOK
  <2>2. loop' = "error" \/ loop' = loop BY <1>1
  <2>3. items' = items \/ items' = Append(items, producer) BY <1>1
  <2> QED BY <1>5, <2>1, <2>2, <2>3
<1>11. /\ status' \in [Node -> {"waiting", "queued", "executing", "stalled", "error"}]
       /\ stalledOn' \in [Node -> {0} \cup DOMAIN ports] /\ active' \subseteq Node
  BY <1>1, <1>2 DEF TypeOK, ResolutionTypeOK, GraphTypeOK
<1>12. TypeOK'
  BY <1>1, <1>7, <1>10, <1>11 DEF TypeOK, ResolutionTypeOK, GraphTypeOK, StreamTypeOK, SyncInv,
     TaskOrNone, streamVars, dataVars, chunkVars
<1>13. Numbered' BY <1>1 DEF Numbered, streamVars, dataVars, chunkVars
<1>14. Marks'
  <2>1. UNCHANGED <<ports, gen, work, reading, putting>> BY <1>1 DEF streamVars, dataVars
  <2>2. stalledOn'[n] = p /\ \A m \in Node \ {n} : stalledOn'[m] = stalledOn[m]
    BY <1>1, <1>2 DEF TypeOK, ResolutionTypeOK, GraphTypeOK
  <2> QED BY <1>1, <1>2, <1>3, <1>4, <2>1, <2>2, MarksMove
<1>15. Books'
  <2>1. status'[n] = "stalled" /\ \A m \in Node \ {n} : status'[m] = status[m]
    BY <1>1 DEF TypeOK, ResolutionTypeOK, GraphTypeOK
  <2>2. visited' = visited /\ visited \subseteq Node /\ gen' = gen /\ pending' = pending
        /\ unvisited' = unvisited
    BY <1>1 DEF dataVars, TypeOK, ResolutionTypeOK
  <2>3. Counted' = Counted BY <1>6, <2>1, <2>2 DEF Counted, InFlight
  <2>4. {m \in visited : InFlight(m)}' = {m \in visited : InFlight(m)} \ {n}
    BY <2>1, <2>2 DEF InFlight
  <2>5. \A m \in Node : /\ Busy(m)' => InFlight(m)' /\ m \in visited'
                        /\ status'[m] = "stalled" \/ gen'[m] # None => m \in visited'
    BY <1>2, <1>5, <1>6, <1>9, <2>1, <2>2 DEF Books, InFlight
  <2>6. \A m \in ToSet(unvisited') : m \notin visited' /\ status'[m] = "waiting"
    <3>1. ToSet(unvisited) \subseteq Node BY QueueMembers DEF TypeOK, ResolutionTypeOK
    <3> QED BY <1>5, <1>6, <2>1, <2>2, <3>1 DEF Books
  <2> QED BY <1>1, <1>5, <2>2, <2>3, <2>4, <2>5, <2>6 DEF Books
<1> QED BY <1>7, <1>9, <1>12, <1>13, <1>14, <1>15

\* The next round of a generator.
LEMMA RoundKeeps ==
    ASSUME Inv, NEW n \in Node, Round(n)
    PROVE  Inv'
<1> USE DEF Inv
<1> DEFINE place == IF thrown'[n] /\ at[n] = "begin" THEN "begin" ELSE "body"
<1>1. /\ running = n /\ at[n] \in {"begin", "stream"}
      /\ dropped' = IF at[n] = "begin" THEN dropped \ Outputs(n) ELSE dropped
      /\ thrown' = [thrown EXCEPT ![n] = cancels[n] # {}]
      /\ cancels' = [cancels EXCEPT ![n] = {}]
      /\ at' = [at EXCEPT ![n] = place]
      /\ UNCHANGED <<tasks, syncVars, ports, blank, loop, running, away, statusVars, bookVars,
                     queueVars, dataVars, putting, work, chunks, latch1, last>>
  BY DEF Round
<1>2. place \in {"begin", "body"} OBVIOUS
<1> HIDE DEF place
<1>3. SyncInv' /\ Keeps BY <1>1, NothingMoves DEF Placed
<1>4. away \subseteq Node /\ running \in TaskOrNone /\ ports \in Seq(Port) /\ DOMAIN at = Task
  BY Types
<1>5. Placed' /\ \A m \in Node : Busy(m)' <=> Busy(m) BY <1>1, <1>3, <1>4, Stayed
<1>6. dropped' \subseteq DOMAIN ports /\ at' \in [Task -> {"idle", "latch", "body", "call",
        "barrier", "acquire", "notify", "release", "get", "wait", "took", "left", "closed",
        "resume", "begin", "stream", "stalled", "passed", "cancelled", "end", "dead"}]
  BY <1>1, <1>2 DEF TypeOK, ResolutionTypeOK
<1>7. thrown' \in [Node -> BOOLEAN] /\ cancels' \in [Node -> SUBSET DOMAIN ports]
  BY <1>1 DEF TypeOK, StreamTypeOK
<1>8. TypeOK'
  BY <1>1, <1>3, <1>6, <1>7 DEF TypeOK, ResolutionTypeOK, GraphTypeOK, StreamTypeOK, SyncInv,
     TaskOrNone, statusVars, bookVars, queueVars, dataVars
<1>9. Numbered' BY <1>1 DEF Numbered, dataVars
<1>10. Marks'
  <2>1. Gathered(n) BY <1>1 DEF Gathered
  <2>2. n # Main /\ n \in Task BY Constants
  <2>3. UNCHANGED <<ports, gen, work, reading, putting, stalledOn>>
    BY <1>1 DEF dataVars, statusVars
  <2> QED BY <1>1, <1>2, <1>4, <2>1, <2>2, <2>3, MarksMove
<1>11. loop' = "running" => Books' BY <1>1, <1>5, BooksKept DEF statusVars, bookVars, dataVars
<1> QED BY <1>3, <1>5, <1>8, <1>9, <1>10, <1>11

\* The streams P are cancelled: the producers that wait between two chunks are resumed.
\* They are nowhere, because they wait; each adds a completion that is pending.
LEMMA CancelStreamsMoves ==
    ASSUME Inv, NEW n \in Node, running = n, NEW P \in SUBSET DOMAIN ports, CancelStreams(n, P),
           UNCHANGED <<running, loop>> \/ running' = NoTask
    PROVE  /\ SyncInv' /\ Placed'
           /\ cancels' \in [Node -> SUBSET DOMAIN ports] /\ dropped' \subseteq DOMAIN ports
           /\ latch1' \in [Node -> Nat] /\ active' \subseteq Node /\ pending' \in Nat
           /\ status' \in [Node -> {"waiting", "queued", "executing", "stalled", "error"}]
           /\ (running' = running /\ \A p \in P : gen[ports[p].source] # None) => Books'
<1> USE DEF Inv
<1> DEFINE resumed == {m \in ProducersOf(P) : ~Completed(m) /\ status[m] = "waiting"}
<1>1. /\ cancels' = [m \in Node |-> cancels[m] \cup (P \cap Outputs(m))]
      /\ dropped' = dropped \cup P
      /\ latch1' = [m \in Node |-> latch1[m] - Min({latch1[m], Cardinality(P \cap Outputs(m))})]
      /\ active' = active \cup resumed
      /\ pending' = pending + Cardinality(resumed)
      /\ status' = [m \in Node |-> IF m \in resumed THEN "queued" ELSE status[m]]
      /\ \E q \in SetToSeqs(resumed) : tasks' = tasks \o Wakeups(q)
      /\ UNCHANGED <<syncVars, away, unvisited, visited>>
      /\ UNCHANGED dataVars
  BY DEF CancelStreams
<1>2. n \in Task /\ n # NoTask /\ Books /\ Apart /\ Nowhere(n) /\ loop = "running"
  BY Constants DEF Placed
<1>3. InFlight(n) BY <1>2 DEF Books, Busy
<1>4. resumed \in SUBSET Node /\ \A m \in resumed : status[m] = "waiting"
  BY Types DEF ProducersOf
<1>5. \A m \in resumed : \E p \in P : m = ports[p].source BY DEF ProducersOf
<1> HIDE DEF resumed
<1>6. \A m \in resumed : ~Busy(m) /\ m # n BY <1>2, <1>3, <1>4 DEF Books, InFlight
<1>7. PICK q \in SetToSeqs(resumed) : tasks' = tasks \o Wakeups(q) BY <1>1
<1>8. q \in Seq(Task) /\ ToSet(q) = resumed /\ IsInjective(q)
  <2>1. resumed \in SUBSET Task BY <1>4, Constants
  <2>2. q \in Seq(resumed) /\ ToSet(q) = resumed /\ IsInjective(q)
    BY <2>1, SetToSeqsMembers
  <2>3. q \in Seq(Task) BY <2>1, <2>2, SeqMonotonic
  <2> QED BY <2>2, <2>3
<1>9. /\ SyncInv' /\ Apart'
      /\ \A x \in Task : Nowhere(x)' <=> (Nowhere(x) /\ x \notin resumed)
  <2>1. \A x \in ToSet(q) : Nowhere(x) BY <1>6, <1>8 DEF Busy
  <2>2. UNCHANGED syncVars BY <1>1
  <2>3. SyncInv /\ Apart BY <1>2
  <2> QED BY <1>7, <1>8, <2>1, <2>2, <2>3, ConcatMoves
<1>10. away \subseteq Node /\ away' = away BY <1>1, Types
<1>11. Placed'
  <2>1. \A m \in away : m \in Task /\ m \notin resumed BY <1>6, <1>10, Constants DEF Busy
  <2>2. \A m \in away : Nowhere(m)' BY <1>9, <2>1 DEF Placed
  <2>3. Nowhere(n)' BY <1>2, <1>6, <1>9
  <2>4. \A m \in away : running' # m BY <2>1, Constants DEF Placed
  <2> QED BY <1>2, <1>9, <1>10, <2>2, <2>3, <2>4 DEF Placed
<1>12. \A m \in Node : Busy(m)' => Busy(m) \/ m \in resumed
  BY <1>9, <1>10, Constants DEF Busy
<1>13. cancels' \in [Node -> SUBSET DOMAIN ports] /\ dropped' \subseteq DOMAIN ports
  BY <1>1 DEF TypeOK, ResolutionTypeOK, StreamTypeOK
<1>14. latch1' \in [Node -> Nat]
  <2>1. SUFFICES ASSUME NEW m \in Node
                 PROVE  latch1[m] - Min({latch1[m], Cardinality(P \cap Outputs(m))}) \in Nat
    BY <1>1
  <2> DEFINE a == latch1[m]  O == P \cap Outputs(m)  b == Cardinality(O)
  <2>2. a \in Nat BY DEF TypeOK, StreamTypeOK
  <2>3. IsFiniteSet(O)
    <3>1. O \in SUBSET DOMAIN ports OBVIOUS
    <3> HIDE DEF O
    <3> QED BY <3>1, Positions, Types
  <2>4. b \in Nat BY <2>3, FS_CardinalityType
  <2> HIDE DEF a, b
  <2>5. {a, b} \in SUBSET Nat /\ {a, b} # {} BY <2>2, <2>4
  <2>6. Min({a, b}) \in {a, b} /\ \A y \in {a, b} : Min({a, b}) <= y BY <2>5, MinIsLeast, Zenon
  <2>7. a - Min({a, b}) \in Nat BY <2>2, <2>4, <2>6
  <2> QED BY <2>7 DEF a, b
<1>15. IsFiniteSet(resumed) /\ Cardinality(resumed) \in Nat
  BY <1>4, Constants, FS_Subset, FS_CardinalityType
<1>16. /\ active' \subseteq Node /\ pending' \in Nat
       /\ status' \in [Node -> {"waiting", "queued", "executing", "stalled", "error"}]
  BY <1>1, <1>4, <1>15 DEF TypeOK, ResolutionTypeOK, GraphTypeOK
<1>17. ASSUME running' = running, \A p \in P : gen[ports[p].source] # None
       PROVE  Books'
  <2>1. resumed \subseteq visited BY <1>2, <1>4, <1>5, <1>17 DEF Books
  <2>2. visited' = visited /\ visited \subseteq Node /\ unvisited' = unvisited /\ gen' = gen
    BY <1>1 DEF TypeOK, ResolutionTypeOK, dataVars
  <2>3. /\ \A m \in resumed : status'[m] = "queued" /\ status[m] = "waiting"
        /\ \A m \in Node \ resumed : status'[m] = status[m]
    BY <1>1, <1>4
  <2>4. Counted' = Counted \cup resumed /\ Counted \cap resumed = {}
    BY <2>1, <2>2, <2>3 DEF Counted, InFlight
  <2>5. IsFiniteSet(Counted)
    <3>1. Counted \in SUBSET Node BY <2>2 DEF Counted
    <3> QED BY <3>1, Constants, FS_Subset
  <2>6. Cardinality(Counted') = Cardinality(Counted) + Cardinality(resumed)
    <3> DEFINE A == Counted
    <3>1. IsFiniteSet(A) /\ A \cap resumed = {} BY <2>4, <2>5
    <3>2. Cardinality(A) \in Nat BY <3>1, FS_CardinalityType
    <3> HIDE DEF A
    <3>3. Cardinality(A \cup resumed) = Cardinality(A) + Cardinality(resumed)
                                          - Cardinality(A \cap resumed)
      BY <1>15, <3>1, FS_Union
    <3>4. Cardinality(A \cap resumed) = 0 BY <3>1, FS_EmptySet
    <3>5. Cardinality(A \cup resumed) = Cardinality(A) + Cardinality(resumed)
      BY <1>15, <3>2, <3>3, <3>4
    <3> QED BY <2>4, <3>5 DEF A
  <2>7. pending' = Cardinality(Counted') BY <1>1, <1>2, <2>6 DEF Books
  <2>8. {m \in visited : InFlight(m)}' = {m \in visited : InFlight(m)} \cup resumed
    BY <2>1, <2>2, <2>3 DEF InFlight
  <2>9. \A m \in Node : /\ Busy(m)' => InFlight(m)' /\ m \in visited'
                        /\ status'[m] = "stalled" \/ gen'[m] # None => m \in visited'
    BY <1>2, <1>12, <2>1, <2>2, <2>3 DEF Books, InFlight
  <2>10. \A m \in ToSet(unvisited') : m \notin visited' /\ status'[m] = "waiting"
    <3>1. ToSet(unvisited) \subseteq Node BY QueueMembers DEF TypeOK, ResolutionTypeOK
    <3> QED BY <1>2, <2>1, <2>2, <2>3, <3>1 DEF Books
  <2> QED BY <1>1, <1>2, <2>2, <2>7, <2>8, <2>9, <2>10 DEF Books
<1> QED BY <1>9, <1>11, <1>13, <1>14, <1>16, <1>17

\* The consumer cancels a stream: it found data there when it gathered its inputs, so that
\* the producer has been visited.
LEMMA CancelKeeps ==
    ASSUME Inv, NEW n \in Node, NEW p \in StreamInputs(n), Cancel(n, p)
    PROVE  Inv'
<1> USE DEF Inv
<1>1. /\ InCode(n) /\ p \in StreamInputs(n) \ reading[n].default /\ CancelStreams(n, {p})
      /\ UNCHANGED <<loop, running, at>>
  BY DEF Cancel
<1>2. running = n /\ Gathered(n) BY <1>1 DEF InCode, Gathered
<1>3. p \in Inputs(n) /\ p \in DOMAIN ports /\ {p} \in SUBSET DOMAIN ports
  BY DEF StreamInputs, Inputs
<1>4. gen[ports[p].source] # None BY <1>1, <1>2, <1>3, Constants DEF Marks, Mark
<1>5. /\ UNCHANGED <<syncVars, ports, blank, away, stalledOn, unvisited, visited, hasItem,
                     queueVars>>
      /\ UNCHANGED <<dataVars, putting, work, chunks, last, thrown>>
  BY <1>1 DEF CancelStreams
<1>6. /\ SyncInv' /\ Placed' /\ Books'
      /\ cancels' \in [Node -> SUBSET DOMAIN ports] /\ dropped' \subseteq DOMAIN ports
      /\ latch1' \in [Node -> Nat] /\ active' \subseteq Node /\ pending' \in Nat
      /\ status' \in [Node -> {"waiting", "queued", "executing", "stalled", "error"}]
  BY <1>1, <1>2, <1>3, <1>4, CancelStreamsMoves
<1>7. TypeOK'
  BY <1>1, <1>5, <1>6 DEF TypeOK, ResolutionTypeOK, GraphTypeOK, StreamTypeOK, SyncInv,
     queueVars, dataVars
<1>8. Numbered' BY <1>5 DEF Numbered, dataVars
<1>9. Marks' BY <1>1, <1>5, MarksStand DEF dataVars
<1> QED BY <1>6, <1>7, <1>8, <1>9

\* StreamCancelled leaves the generator.
LEMMA CancelEscapesKeeps ==
    ASSUME Inv, NEW n \in Node, CancelEscapes(n)
    PROVE  Inv'
<1> USE DEF Inv
<1> DEFINE P == StreamInputs(n)
<1>1. /\ running = n /\ at' = [at EXCEPT ![n] = "cancelled"] /\ CancelStreams(n, P)
      /\ IF \E m \in ProducersOf(P) : gen[m] = None
           THEN loop' = "error" /\ running' = NoTask
           ELSE UNCHANGED <<loop, running>>
  BY DEF CancelEscapes
<1>2. P \in SUBSET DOMAIN ports BY DEF StreamInputs, Inputs
<1> HIDE DEF P
<1>3. /\ UNCHANGED <<syncVars, ports, blank, away, stalledOn, unvisited, visited, hasItem,
                     queueVars>>
      /\ UNCHANGED <<dataVars, putting, work, chunks, last, thrown>>
  BY <1>1 DEF CancelStreams
<1>4. n \in Task /\ n # NoTask /\ n # Main /\ loop = "running" BY <1>1, Constants DEF Placed
<1>5. running' \in TaskOrNone /\ loop' \in {"running", "error"} BY <1>1, <1>4 DEF TaskOrNone
<1>6. /\ SyncInv' /\ Placed'
      /\ cancels' \in [Node -> SUBSET DOMAIN ports] /\ dropped' \subseteq DOMAIN ports
      /\ latch1' \in [Node -> Nat] /\ active' \subseteq Node /\ pending' \in Nat
      /\ status' \in [Node -> {"waiting", "queued", "executing", "stalled", "error"}]
      /\ (running' = running /\ \A p \in P : gen[ports[p].source] # None) => Books'
  BY <1>1, <1>2, CancelStreamsMoves
<1>7. TypeOK'
  BY <1>1, <1>3, <1>5, <1>6 DEF TypeOK, ResolutionTypeOK, GraphTypeOK, StreamTypeOK, SyncInv,
     queueVars, dataVars
<1>8. Numbered' BY <1>3 DEF Numbered, dataVars
<1>9. Marks'
  <2>1. UNCHANGED <<ports, gen, work, reading, putting, stalledOn>> BY <1>3 DEF dataVars
  <2>2. ports \in Seq(Port) /\ DOMAIN at = Task BY Types
  <2>3. ~Gathered(n)' BY <1>1, <1>4, <2>2 DEF Gathered
  <2> QED BY <1>1, <1>4, <2>1, <2>2, <2>3, MarksMove
<1>10. loop' = "running" => Books'
  <2>1. ASSUME loop' = "running" PROVE running' = running /\ \A m \in ProducersOf(P) : gen[m] # None
    BY <1>1, <2>1
  <2>2. \A p \in P : ports[p].source \in ProducersOf(P) BY DEF ProducersOf
  <2> QED BY <1>6, <2>1, <2>2
<1> QED BY <1>6, <1>7, <1>8, <1>9, <1>10

-----------------------------------------------------------------------------
(* The invariant, and what follows from it.                                   *)

\* In the beginning only Main is somewhere.
LEMMA InitInv ==
    ASSUME Init
    PROVE  Inv
<1> USE DEF Init, ResolutionInit, StreamInit, GraphInit, SyncInit
<1>1. /\ tasks = <<Wakeup(Main)>> /\ eventSet = {} /\ eventWaiters = [e \in Event |-> {}]
      /\ owner = [l \in Lock |-> NoTask] /\ lockWaiters = [l \in Lock |-> <<>>]
      /\ condWaiters = [c \in Cond |-> {}]
  OBVIOUS
<1>2. Main \in Task /\ Main \notin Node /\ Node \subseteq Task /\ NoTask \notin Task BY Constants
<1>3. /\ <<Wakeup(Main)>> \in Seq(Packet) /\ Ready = {Main} /\ IsInjective(Names(tasks))
  BY <1>1, <1>2, OneName DEF Ready
<1>4. SyncTypeOK
  <2>1. <<>> \in Seq(Task) BY EmptySeq
  <2> QED BY <1>1, <1>3, <2>1 DEF SyncTypeOK, TaskOrNone
<1>5. SyncInv BY <1>1, <1>4 DEF SyncInv, NoWaiterOnFreeLock, NoWaiterOnSetEvent
<1>6. \A l \in Lock : Queuing(l) = {} /\ IsInjective(lockWaiters[l])
  BY <1>1, OneName DEF Queuing
<1>7. Apart BY <1>1, <1>3, <1>6 DEF Apart
<1>8. \A x \in Task : x # Main => Nowhere(x) BY <1>1, <1>3, <1>6 DEF Nowhere
<1>9. Placed BY <1>7 DEF Placed
<1>10. ports \in Seq(Port) /\ None \in Generation /\ None # <<>>
  <2>1. <<>> \in Seq(Nat) BY EmptySeq
  <2> QED BY <2>1, NoneAssumption, GraphAssumption DEF Generation
<1>11. unvisited \in Seq(Node) /\ IsInjective(unvisited) BY FlowAssumption
<1>12. GraphTypeOK BY <1>10 DEF GraphTypeOK
<1>13. ResolutionTypeOK
  <2>1. <<>> \in Seq(Node) BY EmptySeq
  <2>2. /\ reading \in [Node -> [count : SUBSET DOMAIN ports, default : SUBSET DOMAIN ports,
                               open : SUBSET DOMAIN ports]]
        /\ latch \in [Node -> Nat] /\ putting \in [Task -> Seq(Node)]
    BY <2>1 DEF Nothing
  <2>3. /\ items \in Seq(Node) /\ work \in Seq(Node) /\ dropped \subseteq DOMAIN ports
        /\ visited \subseteq Node /\ active \subseteq Node /\ away \subseteq Node
        /\ pending \in Nat /\ hasItem \in BOOLEAN /\ closed \in BOOLEAN
    BY <2>1
  <2>4. loop = "running" /\ running \in TaskOrNone /\ at = [t \in Task |-> "idle"]
    BY DEF TaskOrNone
  <2> QED BY <1>4, <1>11, <1>12, <2>2, <2>3, <2>4 DEF ResolutionTypeOK
<1>14. StreamTypeOK BY <1>10, StreamAssumption DEF StreamTypeOK
<1>15. Numbered BY <1>10 DEF Numbered
<1>16. Marks
  <2>1. \A t \in Task : at[t] = "idle" OBVIOUS
  <2> QED BY <2>1 DEF Marks, Mark, Gathered
<1>17. Books
  <2>1. \A n \in Node : ~Busy(n) BY <1>2, <1>8 DEF Busy
  <2>2. \A n \in Node : status[n] = "waiting" /\ gen[n] = None OBVIOUS
  <2>3. visited = {} /\ pending = 0 OBVIOUS
  <2>4. Counted = {} BY <2>3 DEF Counted
  <2>5. Cardinality({}) = 0 BY FS_EmptySet
  <2>6. ToSet(unvisited) \subseteq Node BY <1>11, QueueMembers
  <2> QED BY <1>11, <2>1, <2>2, <2>3, <2>4, <2>5, <2>6 DEF Books
<1> QED BY <1>5, <1>9, <1>12, <1>13, <1>14, <1>15, <1>16, <1>17 DEF Inv, TypeOK

\* What every step of a node keeps.
LEMMA NodeKeeps ==
    ASSUME Inv, NEW n \in Node, NodeTurn(n), UNCHANGED chunkVars
    PROVE  Inv'
<1>1. CASE Gather(n) BY <1>1, GatherKeeps
<1>2. CASE CountDown(n) BY <1>2, CountDownKeeps
<1>3. CASE CalledAfterLatches(n) BY <1>3, CalledAfterLatchesKeeps
<1>4. CASE CodeAwaits(n) BY <1>4, CodeAwaitsKeeps
<1>5. CASE CodeReturns(n) BY <1>5, CodeReturnsKeeps
<1>6. CASE CodeRaises(n) BY <1>6, CodeRaisesKeeps
<1>7. CASE Push(n) BY <1>7, PushKeeps
<1>8. CASE PutsDone(n) BY <1>8, PutsDoneKeeps
<1> QED BY <1>1, <1>2, <1>3, <1>4, <1>5, <1>6, <1>7, <1>8 DEF NodeTurn

\* What every step of a consumer of streams keeps.
LEMMA ConsumerKeeps ==
    ASSUME Inv, NEW n \in Node, ConsumerTurn(n)
    PROVE  Inv'
<1>1. ASSUME NEW p \in Asks(n), Read(n, p) PROVE Inv' BY <1>1, ReadKeeps
<1>2. ASSUME NEW p \in Asks(n), ReadEnd(n, p) PROVE Inv' BY <1>2, ReadEndKeeps
<1>3. ASSUME NEW p \in Asks(n), Stall(n, p) PROVE Inv' BY <1>3, StallKeeps
<1>4. ASSUME NEW p \in StreamInputs(n), Cancel(n, p) PROVE Inv' BY <1>4, CancelKeeps
<1> QED BY <1>1, <1>2, <1>3, <1>4 DEF ConsumerTurn

\* What every step of a generator keeps.
LEMMA GeneratorKeeps ==
    ASSUME Inv, NEW n \in Node, GeneratorTurn(n)
    PROVE  Inv'
<1>1. CASE Round(n) BY <1>1, RoundKeeps
<1>2. CASE CodeYields(n) BY <1>2, CodeYieldsKeeps
<1>3. CASE ChunkPutsDone(n) BY <1>3, ChunkPutsDoneKeeps
<1>4. CASE WaitForNextChunk(n) BY <1>4, WaitForNextChunkKeeps
<1>5. CASE CancelEscapes(n) BY <1>5, CancelEscapesKeeps
<1>6. CASE Ends(n) BY <1>6, EndsKeeps
<1>7. CASE PushWhole(n) BY <1>7, PushWholeKeeps
<1> QED BY <1>1, <1>2, <1>3, <1>4, <1>5, <1>6, <1>7 DEF GeneratorTurn

\* What every step of Main keeps.
LEMMA MainKeeps ==
    ASSUME Inv, MainTurn, UNCHANGED chunkVars
    PROVE  Inv'
<1>1. CASE Start BY <1>1, StartKeeps
<1>2. CASE FirstGet BY <1>2, FirstGetKeeps
<1>3. CASE GetBody BY <1>3, GetBodyKeeps
<1>4. CASE GotItem BY <1>4, GotItemKeeps
<1>5. CASE Solve BY <1>5, SolveKeeps
<1>6. CASE NextLeaf BY <1>6, NextLeafKeeps
<1>7. CASE QueueClosed BY <1>7, QueueClosedKeeps
<1> QED BY <1>1, <1>2, <1>3, <1>4, <1>5, <1>6, <1>7 DEF MainTurn

\* What every step of a put() keeps.
LEMMA TurnKeeps ==
    ASSUME Inv, NEW t \in Task, Turn(t), UNCHANGED chunkVars
    PROVE  Inv'
<1>1. CASE PutBody(t) BY <1>1, PutBodyKeeps
<1>2. CASE PutNotified(t) BY <1>2, PutNotifiedKeeps
<1>3. CASE PutNext(t) BY <1>3, PutNextKeeps
<1> QED BY <1>1, <1>2, <1>3 DEF Turn

\* The invariant is inductive.
LEMMA NextKeeps ==
    ASSUME Inv, [Next]_vars
    PROVE  Inv'
<1>1. CASE Dispatch /\ UNCHANGED chunkVars BY <1>1, DispatchKeeps
<1>2. CASE MainTurn /\ UNCHANGED chunkVars BY <1>2, MainKeeps
<1>3. ASSUME NEW t \in Task, Turn(t), UNCHANGED chunkVars PROVE Inv' BY <1>3, TurnKeeps
<1>4. ASSUME NEW n \in Node, NodeTurn(n), UNCHANGED chunkVars PROVE Inv' BY <1>4, NodeKeeps
<1>5. ASSUME NEW n \in Node, ConsumerTurn(n) PROVE Inv' BY <1>5, ConsumerKeeps
<1>6. ASSUME NEW n \in Node, GeneratorTurn(n) PROVE Inv' BY <1>6, GeneratorKeeps
<1>7. ASSUME NEW n \in Node, Wake(n), UNCHANGED chunkVars PROVE Inv' BY <1>7, WakeKeeps
<1>8. CASE UNCHANGED vars
  <2>1. UNCHANGED resolutionVars /\ UNCHANGED chunkVars BY <1>8 DEF vars
  <2>2. /\ UNCHANGED <<tasks, syncVars>>
        /\ UNCHANGED <<loop, running, at, away, putting, work>>
        /\ UNCHANGED streamVars /\ UNCHANGED statusVars /\ UNCHANGED bookVars
        /\ UNCHANGED queueVars /\ UNCHANGED dataVars
    BY <2>1 DEF resolutionVars
  <2>3. SyncInv' /\ Keeps BY <2>2, NothingMoves DEF Inv, Placed
  <2>4. away \subseteq Node /\ running \in TaskOrNone BY Types DEF Inv
  <2>5. Placed' /\ \A n \in Node : Busy(n)' <=> Busy(n) BY <2>2, <2>3, <2>4, Stayed DEF Inv
  <2>6. TypeOK'
    BY <2>1, <2>2, <2>3 DEF Inv, TypeOK, ResolutionTypeOK, GraphTypeOK, StreamTypeOK, SyncInv,
       streamVars, statusVars, bookVars, queueVars, dataVars, chunkVars
  <2>7. Numbered' BY <2>1, <2>2 DEF Inv, Numbered, streamVars, dataVars, chunkVars
  <2>8. Marks' BY <2>2, MarksStand DEF Inv, streamVars, statusVars, dataVars
  <2>9. loop' = "running" => Books'
    BY <2>2, <2>5, BooksKept DEF Inv, statusVars, bookVars, dataVars
  <2> QED BY <2>3, <2>5, <2>6, <2>7, <2>8, <2>9 DEF Inv
<1> QED BY <1>1, <1>2, <1>3, <1>4, <1>5, <1>6, <1>7, <1>8 DEF Next, LoopStep, Arrives

\* Whatever the flow is, and in whatever order things happen: nobody is in two places, who
\* is somewhere is in flight, and the books agree with what the nodes do.
THEOREM FlowIsInvariant == Spec => []Inv
<1>1. Init => Inv BY InitInv
<1>2. Inv /\ [Next]_vars => Inv' BY NextKeeps
<1> QED BY <1>1, <1>2, PTL DEF Spec

\* Every variable of a flow keeps its type: no counter falls below zero, none of the lists
\* holds anything but nodes, and every generation is one.
THEOREM FlowTypes == Spec => []TypeOK
<1>1. Inv => TypeOK BY DEF Inv
<1> QED BY <1>1, FlowIsInvariant, PTL

\* The two counters that decide when the resolution queue is closed agree with what the
\* nodes do, whichever way they were resumed.
THEOREM CountersAgree == Spec => []CountersExact
<1>1. Inv => CountersExact BY Zenon DEF Inv, Books, Counted, CountersExact
<1> QED BY <1>1, FlowIsInvariant, PTL

\* Of two generations the higher one does not belong to an earlier run; and of two main
\* generations it belongs to a later one.
LEMMA FirstRises ==
    ASSUME NEW a \in Seq(Nat), NEW b \in Seq(Nat), a # <<>>, b # <<>>, CmpGeneration(a, b) > 0
    PROVE  /\ a[1] \in Nat /\ b[1] \in Nat /\ b[1] <= a[1]
           /\ Len(a) = 1 /\ Len(b) = 1 => b[1] < a[1]
<1>1. /\ Len(a) \in Nat \ {0} /\ Len(b) \in Nat \ {0}
      /\ \A i \in 1..Len(a) : a[i] \in Nat
      /\ \A i \in 1..Len(b) : b[i] \in Nat
  BY Elements, EmptySeq
<1>2. 1 \in 1..Len(a) /\ 1 \in 1..Len(b) BY <1>1
<1>3. a # b /\ ~Precedes(a, b)
  <2>1. CmpGeneration(a, b) = IF a = b THEN 0 ELSE IF Precedes(a, b) THEN -1 ELSE 1
    BY CmpDecides
  <2> QED BY <2>1
<1>4. PICK k \in 1..Len(b) : /\ k <= Len(a) + 1
                             /\ \A i \in 1..(k - 1) : b[i] = a[i]
                             /\ k <= Len(a) => b[k] < a[k]
  BY <1>3, PrecedesTotal, Zenon DEF Precedes
<1>5. CASE k = 1
  <2>1. b[1] < a[1] BY <1>1, <1>4, <1>5
  <2> QED BY <1>1, <1>2, <2>1
<1>6. CASE k # 1
  <2>1. 1 \in 1..(k - 1) BY <1>1, <1>6
  <2>2. b[1] = a[1] BY <1>4, <2>1
  <2>3. Len(b) # 1 BY <1>1, <1>6
  <2> QED BY <1>1, <1>2, <2>2, <2>3
<1> QED BY <1>5, <1>6

\* The chunk that is read is the one that is due, or the latest of a later run.
LEMMA ChunkFollows ==
    ASSUME Inv, NEW p \in DOMAIN ports
    PROVE  \/ Chunk(p) = Desired(p)
           \/ Chunk(p)[1] > Desired(p)[1] /\ Chunk(p) = gen[ports[p].source]
<1>1. CASE ~Restarted(p) BY <1>1 DEF Chunk
<1>2. CASE Restarted(p)
  <2> DEFINE g == gen[ports[p].source]
             d == Desired(p)
  <2>1. ports[p].source \in Node BY Types DEF Inv
  <2>2. g \in Generation \ {<<>>}
    BY <2>1 DEF Inv, Numbered, TypeOK, ResolutionTypeOK, GraphTypeOK
  <2>3. d \in Seq(Nat) /\ Len(d) = 2 BY ChunkType
  <2>4. CmpGeneration(MainGeneration(g), MainGeneration(d)) > 0 BY <1>2 DEF Restarted
  <2>5. Chunk(p) = g BY <1>2 DEF Chunk
  <2> HIDE DEF g, d
  <2>6. d # <<>> /\ d # None /\ d[1] \in Nat
    <3>1. Len(<<>>) # 2 BY EmptySeq
    <3>2. d # <<>> BY <2>3, <3>1, Zenon
    <3>3. 1 \in 1..Len(d) BY <2>3
    <3> QED BY <2>3, <3>2, <3>3, Elements, NoneAssumption
  <2>7. MainGeneration(d) = <<d[1]>> BY <2>6 DEF MainGeneration
  <2>8. <<d[1]>> \in Seq(Nat) /\ <<d[1]>> # <<>> /\ <<d[1]>> # None
    <3>1. <<d[1]>> \in Seq(Nat) /\ Len(<<d[1]>>) = 1 BY <2>6
    <3> QED BY <3>1, NoneAssumption, EmptySeq
  <2>9. g # None
    <3>1. ASSUME g = None PROVE CmpGeneration(None, <<d[1]>>) = -1
      BY <2>8, Zenon DEF CmpGeneration
    <3>2. g = None => MainGeneration(g) = None BY DEF MainGeneration
    <3>3. ~(-1 > 0) OBVIOUS
    <3> QED BY <2>4, <2>7, <3>1, <3>2, <3>3
  <2>10. g \in Seq(Nat) /\ MainGeneration(g) = <<g[1]>> BY <2>2, <2>9 DEF MainGeneration, Generation
  <2>11. g[1] \in Nat
    <3>1. 1 \in 1..Len(g) BY <2>2, <2>10, Elements, EmptySeq
    <3> QED BY <2>10, <3>1, Elements
  <2>12. <<g[1]>> \in Seq(Nat) /\ Len(<<g[1]>>) = 1 /\ Len(<<d[1]>>) = 1 /\ <<g[1]>> # <<>>
         /\ <<g[1]>>[1] = g[1] /\ <<d[1]>>[1] = d[1]
    BY <2>6, <2>11
  <2>13. d[1] < g[1] BY <2>4, <2>7, <2>8, <2>10, <2>12, FirstRises
  <2> QED BY <2>5, <2>6, <2>11, <2>13 DEF d, g
<1> QED BY <1>1, <1>2

\* Only the reader of a stream changes what it has read.
LEMMA OnlyReads ==
    ASSUME Inv, [Next]_vars
    PROVE  \/ last' = last
           \/ \E n \in Node : \E p \in Asks(n) : Read(n, p) \/ ReadEnd(n, p)
<1>1. ASSUME UNCHANGED chunkVars PROVE last' = last BY <1>1 DEF chunkVars
<1>2. ASSUME NEW n \in Node, ConsumerTurn(n)
      PROVE  last' = last \/ \E p \in Asks(n) : Read(n, p) \/ ReadEnd(n, p)
  <2>1. ASSUME NEW p \in Asks(n), Stall(n, p) PROVE last' = last BY <2>1, <1>1 DEF Stall
  <2>2. ASSUME NEW p \in StreamInputs(n), Cancel(n, p) PROVE last' = last
    BY <2>2 DEF Cancel, CancelStreams
  <2> QED BY <1>2, <2>1, <2>2 DEF ConsumerTurn
<1>3. ASSUME NEW n \in Node, GeneratorTurn(n) PROVE last' = last
  <2>1. CASE Round(n) BY <2>1 DEF Round
  <2>2. CASE CodeYields(n) BY <2>2 DEF CodeYields
  <2>3. CASE ChunkPutsDone(n) BY <2>3, <1>1 DEF ChunkPutsDone
  <2>4. CASE WaitForNextChunk(n) BY <2>4, <1>1 DEF WaitForNextChunk
  <2>5. CASE CancelEscapes(n) BY <2>5 DEF CancelEscapes, CancelStreams
  <2>6. CASE Ends(n) BY <2>6, <1>1 DEF Ends
  <2>7. CASE PushWhole(n) BY <2>7 DEF PushWhole
  <2> QED BY <1>3, <2>1, <2>2, <2>3, <2>4, <2>5, <2>6, <2>7 DEF GeneratorTurn
<1>4. UNCHANGED vars => last' = last BY DEF vars, chunkVars
<1> QED BY <1>1, <1>2, <1>3, <1>4 DEF Next, LoopStep, Arrives

\* What a step may do to what was last read of a stream.
Follows(p) ==
    Reads(p) =>
        \/ last'[p] = Desired(p)
        \/ EntersLaterRun(p) /\ last'[p] = gen[ports[p].source]

\* Each step reads in order.
LEMMA StepFollows ==
    ASSUME Inv, [Next]_vars
    PROVE  \A p \in DOMAIN ports : Follows(p)
<1> SUFFICES ASSUME NEW p \in DOMAIN ports PROVE Follows(p) OBVIOUS
<1> USE DEF Follows, Reads, EntersLaterRun
<1>1. last \in [DOMAIN ports -> Generation] BY DEF Inv, TypeOK, StreamTypeOK
<1>2. ASSUME NEW n \in Node, NEW q \in Asks(n), Read(n, q) PROVE Follows(p)
  <2>1. last' = [last EXCEPT ![q] = Chunk(q)] BY <1>2 DEF Read
  <2>2. CASE p = q
    <3>1. last'[p] = Chunk(p) BY <1>1, <2>1, <2>2
    <3> QED BY <3>1, ChunkFollows
  <2>3. CASE p # q
    <3>1. last'[p] = last[p] BY <1>1, <2>1, <2>3
    <3> QED BY <3>1
  <2> QED BY <2>2, <2>3
<1>3. ASSUME NEW n \in Node, NEW q \in Asks(n), ReadEnd(n, q) PROVE Follows(p)
  <2>1. last' = [last EXCEPT ![q] = IF Restarted(q) THEN None ELSE @]
    BY <1>3 DEF ReadEnd
  <2>2. last'[p] \in {last[p], None} BY <1>1, <2>1
  <2> QED BY <2>2
<1>4. last' = last => Follows(p) OBVIOUS
<1> QED BY <1>2, <1>3, <1>4, OnlyReads

\* Within a run no chunk is read twice and none is left out: a reader gets the chunk that is
\* due, and another one only when the producer is in a later run, which it then enters at the
\* chunk that was pushed last, whether or not that is the first (StreamCheckCommand).
THEOREM ReadsInOrder == Spec => NextOrLatest
<1>1. Inv /\ [Next]_vars =>
        [\A p \in DOMAIN ports :
            Reads(p) =>
                \/ last'[p] = Desired(p)
                \/ EntersLaterRun(p) /\ last'[p] = gen[ports[p].source]]_vars
  BY StepFollows DEF Follows
<1> QED BY <1>1, FlowIsInvariant, PTL DEF Spec, NextOrLatest

-----------------------------------------------------------------------------
(* Who is asked for.                                                          *)

\* Nobody takes the whole of a generator that it feeds: there are nodes that get nothing from
\* others, the generator among them and the reader not.
Forward(f) ==
    \A p \in DOMAIN f :
        f[p].source \in Generator /\ ~f[p].stream =>
            \E S \in SUBSET Node :
                /\ f[p].source \in S /\ f[p].node \notin S
                /\ \A q \in DOMAIN f : f[q].node \in S => f[q].source \in S

\* The data of a coroutine are wholes, those of a generator are chunks too.
Short ==
    \A n \in Node : gen[n] # None =>
        Len(gen[n]) = 1 \/ (n \in Generator /\ Len(gen[n]) = 2)

\* A task that is within a put().
Puts(t) == at[t] \in {"acquire", "notify", "release"}

\* What it has still to put.
ToPut(t) ==
    IF at[t] = "acquire" THEN ToSet(putting[t])
    ELSE IF Puts(t) THEN ToSet(Tail(putting[t])) ELSE {}

\* A node that somebody asks for, or that computes.
Asked(n) ==
    \/ n \in ToSet(items) \/ n \in ToSet(work) \/ n \in Counted
    \/ \E t \in Task : n \in ToPut(t)

\* Main holds an item until it asks for the next, and puts a node that nobody resumes
\* before it has been put.
MainHolds ==
    /\ work # <<>> => at[Main] \in {"took", "left", "resume"}
    /\ at[Main] \in {"took", "left"} => Len(work) = 1
    /\ at[Main] \in {"took", "left", "resume"} => hasItem
    /\ Puts(Main) => Len(putting[Main]) = 1 /\ Head(putting[Main]) \in active \ visited
    /\ at[Main] = "closed" => closed
    /\ at[Main] = "idle" => ToSet(unvisited) = Node

\* A node that puts is counted and has data, one that took defaults is counted or has data,
\* it takes them for inputs of its own, and no node is lost sight of.
NodesHold ==
    \A n \in Node :
        /\ Puts(n) => n \in Counted
        /\ Puts(n) \/ at[n] = "passed" => gen[n] # None
        /\ defaulted[n] # {} => n \in Counted \/ gen[n] # None
        /\ reading[n].default \subseteq Inputs(n)
        /\ n \in visited \cup ToSet(unvisited) \cup active
        /\ status[n] # "error"

\* Who cancelled a stream computes, or has computed.
DroppedHold == \A p \in dropped : gen[ports[p].node] # None \/ ports[p].node \in Counted

\* A queue that is closed has nothing left to do.
ClosedIsIdle == closed => items = <<>> /\ active = {} /\ pending = 0 /\ ~hasItem

\* Nodes that never ran, and that compute or wait for each other only.
Starved(S) ==
    \A n \in S : /\ gen[n] = None
                 /\ n \in Counted \/ \A p \in Inputs(n) : Stale(p) => ports[p].source \in S

\* Nodes that take nothing but streams of each other's generators.
Knot(S) ==
    \A p \in DOMAIN ports :
        ports[p].node \in S /\ ports[p].source \in S \cap Generator => ports[p].stream

\* Somebody asks for one of them, unless all are still to be visited.
Served ==
    \A S \in SUBSET Node :
        Starved(S) /\ ~(S \subseteq ToSet(unvisited)) => \E n \in S : Asked(n)

\* The nodes that were a leaf of a solution.
Found == visited \cup (IF at[Main] = "resume" THEN ToSet(work) ELSE {})

\* They waited for nobody but others of their component.
LeavesStarve ==
    \A n \in Found : gen[n] = None => \E S \in SUBSET Node : n \in S /\ Starved(S) /\ Knot(S)

Serving ==
    /\ Forward(ports) /\ Short
    /\ MainHolds /\ NodesHold /\ DroppedHold /\ ClosedIsIdle
    /\ Served /\ LeavesStarve

\* An input at run level 0 or 1 that is not above None.
Behind(g, level, s) ==
    CmpGeneration(StitchedGeneration(ClipGeneration(g, level), s), None) <= 0

\* That is one without data and without defaults.
LEMMA BehindMeans ==
    ASSUME NEW g \in Generation, NEW level \in Nat, NEW s \in Nat
    PROVE  Behind(g, level, s) <=> ClipGeneration(g, level) = None /\ s = 0
<1> DEFINE c == ClipGeneration(g, level)  t == StitchedGeneration(c, s)
<1>1. c \in Generation BY ClipIsGreatestBelow
<1>2. Behind(g, level, s) <=> CmpGeneration(t, None) <= 0 BY DEF Behind
<1>3. CmpGeneration(t, None) = IF t = None THEN 0 ELSE 1 BY DEF CmpGeneration
<1> HIDE DEF c
<1>4. t = None <=> c = None /\ s = 0
  <2>1. CASE c = None
    <3>1. t = IF s = 0 THEN None ELSE <<s - 1>> BY <2>1 DEF StitchedGeneration
    <3>2. s # 0 => <<s - 1>> \in Seq(Nat) OBVIOUS
    <3> QED BY <2>1, <3>1, <3>2, NoneAssumption
  <2>2. CASE c # None
    <3>1. c \in Seq(Nat) BY <1>1, <2>2 DEF Generation
    <3>2. CASE c = <<>>
      <4>1. t = c BY <2>2, <3>2 DEF StitchedGeneration
      <4> QED BY <2>2, <4>1
    <3>3. CASE c # <<>>
      <4> DEFINE r == [c EXCEPT ![1] = @ + s]  N == Len(c)
      <4>1. t = r BY <2>2, <3>3 DEF StitchedGeneration
      <4>2. N \in Nat /\ N # 0 /\ c \in [1..N -> Nat]
        <5>1. N # 0 BY <3>1, <3>3, EmptySeq
        <5> QED BY <3>1, <5>1, LenProperties
      <4> HIDE DEF N
      <4>3. r \in [1..N -> Nat]
        <5>1. c[1] + s \in Nat BY <4>2
        <5> QED BY <4>2, <5>1
      <4> HIDE DEF r, t
      <4>4. r \in Seq(Nat) BY <4>2, <4>3, SeqDef
      <4> QED BY <2>2, <4>1, <4>4, NoneAssumption
    <3> QED BY <3>2, <3>3
  <2> QED BY <2>1, <2>2
<1> HIDE DEF t
<1> QED BY <1>2, <1>3, <1>4 DEF c

\* Data that need not be clipped are above None, and what is above it stays so.
LEMMA BehindNoMore ==
    ASSUME NEW g \in Generation, NEW level \in Nat, NEW s \in Nat
    PROVE  /\ g # None /\ Len(g) <= level + 1 => ~Behind(g, level, s)
           /\ \A h \in Generation : CmpGeneration(g, h) <= 0 /\ Behind(h, level, s)
                                       => Behind(g, level, s)
<1>1. ASSUME g # None, Len(g) <= level + 1 PROVE ~Behind(g, level, s)
  <2>1. ClipGeneration(g, level) = g BY <1>1 DEF ClipGeneration
  <2> QED BY <1>1, <2>1, BehindMeans
<1>2. ASSUME NEW h \in Generation, CmpGeneration(g, h) <= 0, Behind(h, level, s)
      PROVE  Behind(g, level, s)
  <2> DEFINE c == ClipGeneration(g, level)
  <2>1. ClipGeneration(h, level) = None /\ s = 0 BY <1>2, BehindMeans
  <2>2. c \in Generation /\ (c = None \/ Len(c) <= level + 1) /\ CmpGeneration(c, g) <= 0
    BY ClipIsGreatestBelow
  <2> HIDE DEF c
  <2>3. CmpGeneration(c, h) <= 0 BY <1>2, <2>2, OrderIsTotal
  <2>4. CmpGeneration(c, None) <= 0 BY <2>1, <2>2, <2>3, ClipIsGreatestBelow
  <2>5. c = None BY <2>4 DEF CmpGeneration
  <2> QED BY <2>1, <2>5, BehindMeans DEF c
<1> QED BY <1>1, <1>2

\* A connection to a node that never ran is stale when its data are not above None.
LEMMA StaleMeans ==
    ASSUME TypeOK, NEW p \in DOMAIN ports
    PROVE  /\ gen[ports[p].source] \in Generation /\ stitch[p] \in Nat /\ Level(p) \in {0, 1}
           /\ gen[ports[p].node] = None =>
                 (Stale(p) <=> Behind(gen[ports[p].source], Level(p), stitch[p]))
           /\ /\ gen[ports[p].node] = None /\ Stale(p) /\ Short
              /\ ports[p].source \in Generator => ports[p].stream
              => gen[ports[p].source] = None
<1>1. ports[p].source \in Node BY Types
<1>2. gen[ports[p].source] \in Generation /\ stitch[p] \in Nat /\ Level(p) \in {0, 1}
  BY <1>1 DEF TypeOK, ResolutionTypeOK, GraphTypeOK, Level
<1>3. gen[ports[p].node] = None =>
         (Stale(p) <=> Behind(gen[ports[p].source], Level(p), stitch[p]))
  BY DEF Stale, Behind
<1>4. ASSUME gen[ports[p].node] = None, Stale(p), Short,
             ports[p].source \in Generator => ports[p].stream, gen[ports[p].source] # None
      PROVE  FALSE
  <2>1. Len(gen[ports[p].source]) = 1 \/ (Level(p) = 1 /\ Len(gen[ports[p].source]) = 2)
    BY <1>1, <1>4 DEF Short, Level
  <2> DEFINE g == gen[ports[p].source]  l == Level(p)  s == stitch[p]
  <2>2. g \in Generation /\ l \in {0, 1} /\ s \in Nat /\ g # None
        /\ (Len(g) = 1 \/ (l = 1 /\ Len(g) = 2)) /\ Behind(g, l, s)
    BY <1>2, <1>3, <1>4, <2>1
  <2> HIDE DEF g, l, s
  <2>3. l = 0 \/ l = 1 BY <2>2
  <2>4. l \in Nat /\ Len(g) <= l + 1
    <3>1. CASE l = 0
      <4>1. Len(g) = 1 /\ 1 <= l + 1 BY <2>2, <3>1
      <4> QED BY <3>1, <4>1
    <3>2. CASE l = 1
      <4>1. (Len(g) = 1 \/ Len(g) = 2) /\ 1 <= l + 1 /\ 2 <= l + 1 BY <2>2, <3>2
      <4> QED BY <3>2, <4>1
    <3> QED BY <2>3, <3>1, <3>2
  <2> QED BY <2>2, <2>4, BehindNoMore
<1> QED BY <1>2, <1>3, <1>4

\* A set without a counted member is starved if it was.
LEMMA StarvedBefore ==
    ASSUME UNCHANGED <<gen, ports>>,
           \A n \in Node : n \in Counted /\ gen[n] = None => n \in Counted',
           \A p \in DOMAIN ports : stitch'[p] = stitch[p] \/ ports[p].node \in Counted',
           NEW S \in SUBSET Node
    PROVE  /\ Starved(S) => Starved(S)'
           /\ Starved(S)' /\ S \cap Counted' = {} => Starved(S)
<1>1. \A p \in DOMAIN ports : stitch'[p] = stitch[p] => (Stale(p)' <=> Stale(p))
  BY DEF Stale, Level
<1>2. \A n : Inputs(n)' = Inputs(n) BY DEF Inputs
<1>3. \A n : \A p \in Inputs(n) : p \in DOMAIN ports /\ ports[p].node = n BY DEF Inputs
<1>4. \A n \in Node \ Counted' : \A p \in Inputs(n) : Stale(p)' <=> Stale(p) BY <1>1, <1>3
<1>5. ASSUME Starved(S) PROVE Starved(S)'
  <2> SUFFICES ASSUME NEW n \in S, n \notin Counted'
               PROVE  \A p \in Inputs(n)' : Stale(p)' => ports'[p].source \in S
    BY <1>5 DEF Starved
  <2>1. n \in Node /\ gen[n] = None /\ n \notin Counted BY <1>5 DEF Starved
  <2> QED BY <1>2, <1>4, <1>5, <2>1 DEF Starved
<1>6. ASSUME Starved(S)', S \cap Counted' = {} PROVE Starved(S)
  <2> SUFFICES ASSUME NEW n \in S PROVE gen[n] = None /\ \A p \in Inputs(n) : Stale(p) => ports[p].source \in S
    BY DEF Starved
  <2>1. n \in Node \ Counted' BY <1>6
  <2>2. gen'[n] = None /\ \A p \in Inputs(n)' : Stale(p)' => ports'[p].source \in S
    BY <1>6, <2>1 DEF Starved
  <2> QED BY <1>2, <1>4, <2>1, <2>2
<1> QED BY <1>5, <1>6

\* A step that pushes no data keeps the others served, if it asks for one of each starved set
\* of which one was asked for, and for each node that is no longer to be visited.
LEMMA ServedKept ==
    ASSUME Served, LeavesStarve, UNCHANGED <<gen, ports>>,
           \A n \in Node : n \in Counted /\ gen[n] = None => n \in Counted',
           \A p \in DOMAIN ports : stitch'[p] = stitch[p] \/ ports[p].node \in Counted',
           \A S \in SUBSET Node : Starved(S) /\ (\E n \in S : Asked(n)) => \E n \in S : Asked(n)',
           \A n \in Node : n \in ToSet(unvisited) => n \in ToSet(unvisited)' \/ Asked(n)',
           \A n \in Found' \ Found : gen[n] = None =>
              \E S \in SUBSET Node : n \in S /\ Starved(S) /\ Knot(S)
    PROVE  Served' /\ LeavesStarve'
<1>1. ASSUME NEW S \in SUBSET Node, Starved(S)', ~(S \subseteq ToSet(unvisited)')
      PROVE  \E n \in S : Asked(n)'
  <2>1. CASE S \cap Counted' # {}
    <3>1. PICK n \in S : n \in Counted' BY <2>1
    <3> QED BY <3>1 DEF Asked
  <2>2. CASE S \cap Counted' = {}
    <3>1. Starved(S) BY <1>1, <2>2, StarvedBefore
    <3>2. CASE S \subseteq ToSet(unvisited) BY <1>1, <3>2
    <3>3. CASE ~(S \subseteq ToSet(unvisited)) BY <3>1, <3>3 DEF Served
    <3> QED BY <3>2, <3>3
  <2> QED BY <2>1, <2>2
<1>2. ASSUME NEW n \in Found', gen[n] = None
      PROVE  \E S \in SUBSET Node : n \in S /\ Starved(S)' /\ Knot(S)'
  <2>1. PICK S \in SUBSET Node : n \in S /\ Starved(S) /\ Knot(S)
    <3>1. CASE n \in Found BY <1>2, <3>1 DEF LeavesStarve
    <3>2. CASE n \notin Found BY <1>2, <3>2
    <3> QED BY <3>1, <3>2
  <2>2. Starved(S)' BY <2>1, StarvedBefore
  <2>3. Knot(S)' BY <2>1 DEF Knot
  <2> QED BY <2>1, <2>2, <2>3
<1> QED BY <1>1, <1>2 DEF Served, LeavesStarve

\* A step that leaves the books alone, and moves nodes that put nothing.
LEMMA ServingStays ==
    ASSUME Inv, Serving, UNCHANGED <<ports, gen, unvisited, visited, active, pending, hasItem,
                                     items, closed, work>>,
           dropped' \subseteq dropped,
           \A n \in Node : status'[n] = status[n] \/ (InFlight(n) /\ InFlight(n)'),
           \A n \in Node : defaulted'[n] = defaulted[n] \/ n \in Counted,
           \A n \in Node : reading'[n].default \in {reading[n].default} \cup SUBSET Inputs(n),
           \A p \in DOMAIN ports : stitch'[p] = stitch[p] \/ ports[p].node \in Counted,
           \A t \in Task : (at'[t] = at[t] /\ putting'[t] = putting[t])
              \/ (/\ t \in Node /\ ToPut(t) = {} /\ ~Puts(t)'
                  /\ at'[t] = "passed" => gen[t] # None)
    PROVE  Serving'
<1>1. /\ Node \subseteq Task /\ Main \in Task /\ Main \notin Node /\ visited \subseteq Node
  BY Constants DEF Inv, TypeOK, ResolutionTypeOK
<1>2. at'[Main] = at[Main] /\ putting'[Main] = putting[Main] /\ (Puts(Main)' <=> Puts(Main))
  BY <1>1 DEF Puts
<1>3. \A t \in Task : ToPut(t)' = ToPut(t)
  <2> SUFFICES ASSUME NEW t \in Task PROVE ToPut(t)' = ToPut(t) OBVIOUS
  <2>1. CASE at'[t] = at[t] /\ putting'[t] = putting[t] BY <2>1 DEF ToPut, Puts
  <2>2. CASE ToPut(t) = {} /\ ~Puts(t)' BY <2>2 DEF ToPut, Puts
  <2> QED BY <2>1, <2>2
<1>4. Counted' = Counted BY <1>1 DEF Counted, InFlight
<1>5. \A n : Asked(n)' <=> Asked(n) BY <1>3, <1>4 DEF Asked
<1>6. Forward(ports)' /\ Short' BY DEF Serving, Short
<1>7. MainHolds' BY <1>2 DEF Serving, MainHolds
<1>8. NodesHold'
  <2> SUFFICES ASSUME NEW n \in Node
               PROVE  /\ Puts(n)' => n \in Counted'
                      /\ Puts(n)' \/ at'[n] = "passed" => gen'[n] # None
                      /\ defaulted'[n] # {} => n \in Counted' \/ gen'[n] # None
                      /\ reading'[n].default \subseteq Inputs(n)'
                      /\ n \in visited' \cup ToSet(unvisited') \cup active'
                      /\ status'[n] # "error"
    BY DEF NodesHold
  <2>1. /\ Puts(n) => n \in Counted
        /\ Puts(n) \/ at[n] = "passed" => gen[n] # None
        /\ defaulted[n] # {} => n \in Counted \/ gen[n] # None
        /\ reading[n].default \subseteq Inputs(n)
        /\ n \in visited \cup ToSet(unvisited) \cup active
        /\ status[n] # "error"
    BY DEF Serving, NodesHold
  <2>2. n \in Task BY <1>1
  <2>3. (Puts(n)' => n \in Counted') /\ (Puts(n)' \/ at'[n] = "passed" => gen'[n] # None)
    <3>1. CASE at'[n] = at[n] BY <1>4, <2>1, <3>1 DEF Puts
    <3>2. CASE at'[n] # at[n] BY <2>2, <3>2
    <3> QED BY <3>1, <3>2
  <2>4. defaulted'[n] # {} => n \in Counted' \/ gen'[n] # None BY <1>4, <2>1
  <2>5. status'[n] # "error" BY <2>1 DEF InFlight
  <2>6. reading'[n].default \subseteq Inputs(n)' BY <2>1 DEF Inputs
  <2> QED BY <2>1, <2>3, <2>4, <2>5, <2>6
<1>9. DroppedHold' BY <1>4 DEF Serving, DroppedHold
<1>10. ClosedIsIdle' BY DEF Serving, ClosedIsIdle
<1>11. Served' /\ LeavesStarve'
  <2>1. Served /\ LeavesStarve BY DEF Serving
  <2>2. Found' = Found BY <1>2 DEF Found
  <2> QED BY <1>4, <1>5, <2>1, <2>2, ServedKept
<1> QED BY <1>6, <1>7, <1>8, <1>9, <1>10, <1>11 DEF Serving

\* What is open while somebody runs or puts: a queue is closed only when nobody is counted.
LEMMA StillOpen ==
    ASSUME Inv, Serving, loop = "running"
    PROVE  /\ closed => Counted = {}
           /\ running \in Node => running \in Counted /\ running \in visited
           /\ running \in Node \/ (\E t \in Task : Puts(t)) => ~closed
<1>1. Books BY DEF Inv
<1>2. ASSUME closed PROVE Counted = {}
  <2>1. Cardinality(Counted) = 0 BY <1>1, <1>2 DEF Books, Serving, ClosedIsIdle
  <2>2. Counted \in SUBSET Node BY DEF Counted, Inv, TypeOK, ResolutionTypeOK
  <2>3. IsFiniteSet(Counted) BY <2>2, Constants, FS_Subset
  <2> QED BY <2>1, <2>3, FS_EmptySet
<1>3. ASSUME running \in Node PROVE running \in Counted /\ running \in visited
  BY <1>1, <1>3 DEF Books, Busy, Counted
<1>4. ASSUME NEW t \in Task, Puts(t) PROVE ~closed
  <2>1. CASE t \in Node BY <1>2, <1>4, <2>1 DEF Serving, NodesHold
  <2>2. CASE t = Main BY <1>4, <2>2 DEF Serving, MainHolds, ClosedIsIdle
  <2> QED BY <2>1, <2>2, FlowAssumption
<1> QED BY <1>2, <1>3, <1>4

\* The running node goes to another place, or stays in its code.
LEMMA MoveServes ==
    ASSUME Inv, Serving, loop = "running", NEW n \in Node, running = n,
           NEW place, at' = [at EXCEPT ![n] = place],
           place \notin {"acquire", "notify", "release"}, ToPut(n) = {},
           place = "passed" => gen[n] # None,
           UNCHANGED <<ports, gen, status, bookVars, queueVars, work>>,
           dropped' \subseteq dropped,
           \A m \in Node \ {n} : defaulted'[m] = defaulted[m],
           \A m \in Node : reading'[m].default \in {reading[m].default} \cup SUBSET Inputs(m),
           \A p \in DOMAIN ports \ Inputs(n) : stitch'[p] = stitch[p],
           \A t \in Task \ {n} : putting'[t] = putting[t]
    PROVE  Serving'
<1>1. DOMAIN at = Task /\ Node \subseteq Task BY Constants, Types DEF Inv
<1>2. n \in Counted BY StillOpen
<1>3. \A t \in Task \ {n} : at'[t] = at[t] /\ putting'[t] = putting[t] BY <1>1
<1>4. ~Puts(n)' /\ (at'[n] = "passed" => gen[n] # None) BY <1>1 DEF Puts
<1>5. \A m \in Node : defaulted'[m] = defaulted[m] \/ m \in Counted BY <1>2
<1>6. \A p \in DOMAIN ports : stitch'[p] = stitch[p] \/ ports[p].node \in Counted
  BY <1>2 DEF Inputs
<1>7. \A t \in Task : (at'[t] = at[t] /\ putting'[t] = putting[t])
         \/ (t \in Node /\ ToPut(t) = {} /\ ~Puts(t)' /\ (at'[t] = "passed" => gen[t] # None))
  BY <1>3, <1>4
<1> QED BY <1>5, <1>6, <1>7, ServingStays DEF bookVars, queueVars

\* A call takes the defaults of the node that makes it.
LEMMA CallMoves ==
    ASSUME Inv, NEW n \in Node, NEW missing \in SUBSET Inputs(n), Call(n, missing)
    PROVE  /\ \A m \in Node \ {n} : defaulted'[m] = defaulted[m]
           /\ \A p \in DOMAIN ports \ Inputs(n) : stitch'[p] = stitch[p]
           /\ \E place \in {"begin", "body"} : at' = [at EXCEPT ![n] = place]
<1>1. /\ defaulted' = [defaulted EXCEPT ![n] = missing]
      /\ stitch' = [p \in DOMAIN ports |-> stitch[p] + (IF p \in missing THEN 1 ELSE 0)]
      /\ at' = [at EXCEPT ![n] = IF n \in Generator THEN "begin" ELSE "body"]
  BY DEF Call
<1>2. defaulted \in [Node -> SUBSET DOMAIN ports] /\ stitch \in [DOMAIN ports -> Nat]
  BY DEF Inv, TypeOK, ResolutionTypeOK, GraphTypeOK
<1>3. \A p \in DOMAIN ports \ Inputs(n) : stitch'[p] = stitch[p] BY <1>1, <1>2
<1> QED BY <1>1, <1>2, <1>3

\* A task is resumed, and what a node awaits happens.
LEMMA ResumedServes ==
    ASSUME Inv, Serving, loop = "running", UNCHANGED chunkVars,
           Dispatch \/ \E n \in Node : Wake(n)
    PROVE  Serving'
<1>1. DOMAIN status = Node /\ tasks \in Seq(Packet)
  BY DEF Inv, TypeOK, ResolutionTypeOK, GraphTypeOK, SyncInv, SyncTypeOK
<1>2. CASE Dispatch
  <2>1. /\ tasks # <<>>
        /\ status' = IF Head(tasks).task \in Node
                       THEN [status EXCEPT ![Head(tasks).task] = "executing"] ELSE status
        /\ UNCHANGED <<syncVars, streamVars, at, bookVars, queueVars, dataVars, putting, work>>
    BY <1>2 DEF Dispatch
  <2>2. ASSUME Head(tasks).task \in Node PROVE InFlight(Head(tasks).task)
    <3>1. Head(tasks).task \in Ready
      <4>1. Apart /\ tasks' = Tail(tasks) /\ UNCHANGED syncVars /\ SyncInv
        BY <1>2 DEF Dispatch, Inv, Placed
      <4> QED BY <2>1, <4>1, PopMoves
    <3> QED BY <2>2, <3>1 DEF Inv, Books, Busy, Nowhere
  <2>3. \A n \in Node : status'[n] = status[n] \/ (InFlight(n) /\ InFlight(n)')
    BY <1>1, <2>1, <2>2 DEF InFlight
  <2> QED BY <2>1, <2>3, ServingStays DEF streamVars, bookVars, queueVars, dataVars
<1>3. ASSUME NEW n \in Node, Wake(n) PROVE Serving'
  BY <1>3, ServingStays DEF Wake, streamVars, statusVars, bookVars, queueVars, dataVars
<1> QED BY <1>2, <1>3

\* A node gathers its inputs, counts down latches and computes.
LEMMA ComputingServes ==
    ASSUME Inv, Serving, loop = "running", NEW n \in Node,
           \/ Gather(n) \/ CountDown(n) \/ CalledAfterLatches(n)
           \/ CodeAwaits(n) \/ CodeReturns(n)
    PROVE  Serving'
<1>1. /\ running = n /\ at[n] \in {"idle", "latch", "body", "call"}
      /\ UNCHANGED <<streamVars, statusVars, bookVars, queueVars, gen, putting, work>>
  BY DEF Gather, CountDown, CalledAfterLatches, CodeAwaits, CodeReturns, InCode, dataVars
<1>2. ToPut(n) = {} BY <1>1 DEF ToPut, Puts
<1>3. ASSUME NEW place \in {"begin", "idle", "latch", "body", "call", "barrier", "dead"},
             at' = [at EXCEPT ![n] = place],
             \A m \in Node \ {n} : defaulted'[m] = defaulted[m],
             \A p \in DOMAIN ports \ Inputs(n) : stitch'[p] = stitch[p],
             \A m \in Node : reading'[m].default \in {reading[m].default} \cup SUBSET Inputs(m)
      PROVE  Serving'
  BY <1>1, <1>2, <1>3, MoveServes DEF streamVars, statusVars
<1>4. ASSUME NEW missing \in SUBSET Inputs(n), Call(n, missing),
             \A m \in Node : reading'[m].default \in {reading[m].default} \cup SUBSET Inputs(m)
      PROVE  Serving'
  BY <1>3, <1>4, CallMoves
<1>9. reading \in [Node -> [count : SUBSET DOMAIN ports, default : SUBSET DOMAIN ports,
                            open : SUBSET DOMAIN ports]]
  BY DEF Inv, TypeOK, ResolutionTypeOK
<1>5. CASE Gather(n)
  <2> DEFINE missing == {p \in Inputs(n) : NoData(p)}
  <2>1. /\ \/ at' = [at EXCEPT ![n] = "dead"] /\ UNCHANGED <<defaulted, stitch>>
           \/ Call(n, missing)
           \/ at' = [at EXCEPT ![n] = "latch"] /\ UNCHANGED <<defaulted, stitch>>
        /\ \E counted, open : reading' = [reading EXCEPT ![n] =
                                   [count |-> counted, default |-> missing, open |-> open]]
    BY <1>5 DEF Gather, Await
  <2>2. missing \in SUBSET Inputs(n) OBVIOUS
  <2> HIDE DEF missing
  <2>3. \A m \in Node : reading'[m].default \in {reading[m].default} \cup SUBSET Inputs(m)
    BY <1>9, <2>1, <2>2
  <2> QED BY <1>3, <1>4, <2>1, <2>2, <2>3
<1>6. CASE CountDown(n)
  <2>1. /\ at' = [at EXCEPT ![n] = "latch"] /\ UNCHANGED <<defaulted, stitch>>
        /\ \E c : reading' = [reading EXCEPT ![n].count = c]
    BY <1>6 DEF CountDown, Await
  <2>2. \A m \in Node : reading'[m].default = reading[m].default BY <1>9, <2>1
  <2> QED BY <1>3, <2>1, <2>2
<1>7. CASE CalledAfterLatches(n)
  <2>1. Call(n, reading[n].default) /\ reading' = reading BY <1>7 DEF CalledAfterLatches
  <2>2. reading[n].default \in SUBSET Inputs(n) BY DEF Serving, NodesHold
  <2> QED BY <1>4, <2>1, <2>2
<1>8. CASE CodeAwaits(n) \/ CodeReturns(n)
  BY <1>3, <1>8 DEF CodeAwaits, CodeReturns, Await, dataVars
<1> QED BY <1>5, <1>6, <1>7, <1>8

\* What is asked for stays asked for, if it does not leave the lists.
LEMMA AskedStays ==
    ASSUME NEW n, Asked(n),
           n \in ToSet(items) => Asked(n)', n \in ToSet(work) => Asked(n)',
           n \in Counted => Asked(n)',
           NEW t, n \in ToPut(t) => Asked(n)',
           \A x \in Task \ {t} : ToPut(x)' = ToPut(x)
    PROVE  Asked(n)'
<1>1. ASSUME NEW x \in Task, n \in ToPut(x) PROVE Asked(n)'
  <2>1. CASE x = t BY <1>1, <2>1
  <2>2. CASE x # t
    <3>1. n \in ToPut(x)' BY <1>1, <2>2
    <3> QED BY <1>1, <3>1 DEF Asked
  <2> QED BY <2>1, <2>2
<1> QED BY <1>1 DEF Asked

\* What is put and what is to put are the same when the nodes that move put nothing.
LEMMA ToPutMoves ==
    ASSUME DOMAIN at = Task, putting' = putting, NEW n \in Node, ~Puts(n), NEW place,
           place \notin {"acquire", "notify", "release"},
           at' = at \/ at' = [at EXCEPT ![n] = place]
    PROVE  /\ \A t \in Task : (Puts(t)' <=> Puts(t)) /\ ToPut(t)' = ToPut(t)
           /\ at'[Main] = at[Main] /\ \A m \in Node \ {n} : at'[m] = at[m]
           /\ at'[n] = at[n] \/ at'[n] = place
<1>1. Node \subseteq Task /\ Main \in Task /\ Main \notin Node BY Constants
<1>2. \A t \in Task \ {n} : at'[t] = at[t] BY <1>1
<1>3. \A t \in Task \ {n} : (Puts(t)' <=> Puts(t)) /\ ToPut(t)' = ToPut(t)
  BY <1>2 DEF Puts, ToPut
<1>4. at'[n] = at[n] \/ at'[n] = place BY <1>1
<1>5. ~Puts(n)' BY <1>4 DEF Puts
<1>6. ToPut(n)' = ToPut(n) BY <1>5 DEF ToPut, Puts
<1> QED BY <1>1, <1>2, <1>3, <1>4, <1>5, <1>6

\* A step of a node that puts nothing, and after which at least as many are counted, in the
\* queue and active, but for the visited ones.
LEMMA GrowingServes ==
    ASSUME Inv, Serving, loop = "running", NEW n \in Node, running = n, ~Puts(n),
           NEW place \in {"stalled", "cancelled"}, at' = at \/ at' = [at EXCEPT ![n] = place],
           UNCHANGED <<ports, gen, stitch, defaulted, reading, putting, work, unvisited,
                       visited, hasItem, closed>>,
           \A p \in dropped' : p \in dropped \/ p \in Inputs(n),
           \A m \in Node : status'[m] # "error",
           Counted \subseteq Counted', ToSet(items) \subseteq ToSet(items)',
           active \subseteq active' \cup visited
    PROVE  Serving'
<1>1. DOMAIN at = Task /\ Node \subseteq Task /\ Main \in Task BY Constants, Types DEF Inv
<1>2. n \in Counted /\ ~closed BY StillOpen
<1>3. /\ \A t \in Task : (Puts(t)' <=> Puts(t)) /\ ToPut(t)' = ToPut(t)
      /\ at'[Main] = at[Main] /\ \A m \in Node \ {n} : at'[m] = at[m]
      /\ at'[n] = at[n] \/ at'[n] = place
  BY <1>1, ToPutMoves
<1>4. \A m : Asked(m) => Asked(m)' BY <1>3 DEF Asked
<1>5. Forward(ports)' /\ Short' BY DEF Serving, Short
<1>6. MainHolds' BY <1>1, <1>3 DEF Serving, MainHolds
<1>7. NodesHold'
  <2>1. \A m \in Node : at'[m] = "passed" => at[m] = "passed" BY <1>3
  <2>2. \A m \in Node : Puts(m)' <=> Puts(m) BY <1>1, <1>3
  <2>3. \A m \in Node : Inputs(m)' = Inputs(m) BY DEF Inputs
  <2> QED BY <2>1, <2>2, <2>3 DEF Serving, NodesHold
<1>8. DroppedHold' BY <1>2 DEF Serving, DroppedHold, Inputs
<1>9. ClosedIsIdle' BY <1>2 DEF ClosedIsIdle
<1>10. Served' /\ LeavesStarve'
  <2>1. Served /\ LeavesStarve BY DEF Serving
  <2>2. Found' = Found BY <1>3 DEF Found
  <2> QED BY <1>4, <2>1, <2>2, ServedKept
<1> QED BY <1>5, <1>6, <1>7, <1>8, <1>9, <1>10 DEF Serving

\* A node stalls, and asks for the producer.
LEMMA StallServes ==
    ASSUME Inv, Serving, loop = "running", NEW n \in Node, NEW p \in Asks(n), Stall(n, p),
           loop' = "running"
    PROVE  Serving'
<1>1. /\ running = n /\ ~Puts(n)
      /\ at' = [at EXCEPT ![n] = "stalled"] /\ status' = [status EXCEPT ![n] = "stalled"]
      /\ active' = active \ {n}
      /\ items' = items \/ items' = Append(items, ports[p].source)
      /\ UNCHANGED <<ports, gen, stitch, defaulted, reading, putting, work, unvisited,
                     visited, hasItem, closed, dropped>>
  <2>1. running = n /\ at[n] \in {"stalled", "body", "call"}
    BY AsksMeans DEF Asks, InCode
  <2> QED BY <2>1 DEF Stall, Puts, streamVars, dataVars
<1>2. p \in DOMAIN ports BY AsksMeans
<1>3. ports[p].source \in Node /\ items \in Seq(Node) /\ DOMAIN status = Node
  BY <1>2, Types DEF Inv, TypeOK, ResolutionTypeOK, GraphTypeOK
<1>4. n \in visited BY <1>1, StillOpen
<1>5. \A m \in Node : status'[m] # "error" BY <1>1, <1>3 DEF Serving, NodesHold
<1>6. Counted \subseteq Counted'
  <2>1. status'[n] = "stalled" /\ \A m \in Node \ {n} : status'[m] = status[m] BY <1>1, <1>3
  <2>2. visited \subseteq Node BY DEF Inv, TypeOK, ResolutionTypeOK
  <2> QED BY <1>1, <1>4, <2>1, <2>2 DEF Counted, InFlight
<1>7. ToSet(items) \subseteq ToSet(items)'
  <2> DEFINE s == ports[p].source
  <2>1. ToSet(Append(items, s)) = ToSet(items) \cup {s} BY <1>3, AppendMembers
  <2>2. items' = items \/ items' = Append(items, s) BY <1>1
  <2> HIDE DEF s
  <2> QED BY <2>1, <2>2
<1> QED BY <1>1, <1>4, <1>5, <1>6, <1>7, GrowingServes

\* A node cancels streams that it reads.
LEMMA CancelServes ==
    ASSUME Inv, Serving, loop = "running", NEW n \in Node, running = n, ~Puts(n),
           NEW P \in SUBSET Inputs(n), CancelStreams(n, P),
           at' = at \/ at' = [at EXCEPT ![n] = "cancelled"]
    PROVE  Serving'
<1> DEFINE resumed == {m \in ProducersOf(P) : ~Completed(m) /\ status[m] = "waiting"}
<1>1. /\ dropped' = dropped \cup P /\ active' = active \cup resumed
      /\ status' = [m \in Node |-> IF m \in resumed THEN "queued" ELSE status[m]]
      /\ UNCHANGED <<ports, gen, stitch, defaulted, reading, putting, work, unvisited,
                     visited, hasItem, closed, items>>
  BY DEF CancelStreams, queueVars, dataVars
<1> HIDE DEF resumed
<1>2. \A m \in Node : status'[m] = "queued" \/ status'[m] = status[m] BY <1>1
<1>3. \A m \in Node : status'[m] # "error" BY <1>2 DEF Serving, NodesHold
<1>4. Counted \subseteq Counted'
  <2>1. visited \subseteq Node BY DEF Inv, TypeOK, ResolutionTypeOK
  <2> QED BY <1>1, <1>2, <2>1 DEF Counted, InFlight
<1> QED BY <1>1, <1>3, <1>4, GrowingServes

\* A node reads a stream, stalls on it or cancels it.
LEMMA ConsumerServes ==
    ASSUME Inv, Serving, loop = "running", NEW n \in Node, ConsumerTurn(n), loop' = "running"
    PROVE  Serving'
<1>1. ASSUME NEW p \in Asks(n), Read(n, p) \/ ReadEnd(n, p) PROVE Serving'
  <2>1. running = n /\ at[n] \in {"stalled", "body", "call"}
    BY <1>1, AsksMeans DEF Asks, InCode
  <2>2. ToPut(n) = {} BY <2>1 DEF ToPut, Puts
  <2>3. /\ at' = [at EXCEPT ![n] = "body"] /\ dropped' \subseteq dropped
        /\ UNCHANGED <<ports, gen, status, bookVars, queueVars, work, stitch, defaulted, putting>>
        /\ \/ reading' = reading
           \/ reading' = [reading EXCEPT ![n].open = @ \ {p}]
    BY <1>1 DEF Read, ReadEnd, GoOn, Forget, dataVars
  <2>4. \A m \in Node : reading'[m].default = reading[m].default
    <3>1. reading \in [Node -> [count : SUBSET DOMAIN ports, default : SUBSET DOMAIN ports,
                                open : SUBSET DOMAIN ports]]
      BY DEF Inv, TypeOK, ResolutionTypeOK
    <3> QED BY <2>3, <3>1
  <2> QED BY <2>1, <2>2, <2>3, <2>4, MoveServes
<1>2. ASSUME NEW p \in Asks(n), Stall(n, p) PROVE Serving' BY <1>2, StallServes
<1>3. ASSUME NEW p \in StreamInputs(n), Cancel(n, p) PROVE Serving'
  <2>1. running = n /\ ~Puts(n) /\ CancelStreams(n, {p}) /\ at' = at
    BY <1>3 DEF Cancel, InCode, Puts
  <2>2. {p} \in SUBSET Inputs(n) BY DEF StreamInputs
  <2> QED BY <2>1, <2>2, CancelServes
<1> QED BY <1>1, <1>2, <1>3 DEF ConsumerTurn

\* A task that has put the last of its list has nothing left to put.
LEMMA LastPut ==
    ASSUME Inv, NEW t \in Task, at[t] = "release", Len(putting[t]) = 1
    PROVE  ToPut(t) = {}
<1>1. putting[t] \in Seq(Node) /\ putting[t] # <<>>
  BY DEF Inv, Marks, Mark, TypeOK, ResolutionTypeOK
<1> DEFINE r == Tail(putting[t])
<1>2. r \in Seq(Node) /\ Len(r) = Len(putting[t]) - 1 BY <1>1, HeadTailProperties
<1> HIDE DEF r
<1>3. Len(r) = 0 BY <1>2
<1>4. r = <<>> BY <1>2, <1>3, EmptySeq
<1>5. ToSet(r) = {} BY <1>4 DEF ToSet
<1> QED BY <1>5 DEF ToPut, Puts, r

\* A generator begins, has put its chunk, is cancelled or returns.
LEMMA GeneratorMovesServe ==
    ASSUME Inv, Serving, loop = "running", NEW n \in Node, loop' = "running",
           Round(n) \/ ChunkPutsDone(n) \/ CancelEscapes(n) \/ Ends(n)
    PROVE  Serving'
<1>1. CASE Round(n)
  <2>1. /\ running = n /\ at[n] \in {"begin", "stream"} /\ dropped' \subseteq dropped
        /\ \E place \in {"begin", "body"} : at' = [at EXCEPT ![n] = place]
        /\ UNCHANGED <<ports, gen, status, bookVars, queueVars, work, stitch, defaulted, putting,
                       reading>>
    BY <1>1 DEF Round, statusVars, dataVars
  <2>2. ToPut(n) = {} BY <2>1 DEF ToPut, Puts
  <2> QED BY <2>1, <2>2, MoveServes
<1>2. CASE ChunkPutsDone(n)
  <2>1. /\ running = n /\ at[n] = "release" /\ Len(putting[n]) = 1
        /\ at' = [at EXCEPT ![n] = "passed"] /\ putting' = [putting EXCEPT ![n] = <<>>]
        /\ UNCHANGED <<ports, dropped, gen, status, bookVars, queueVars, work, stitch, defaulted,
                       reading>>
    BY <1>2 DEF ChunkPutsDone, PassBarrier, Await, streamVars, statusVars, dataVars
  <2>2. gen[n] # None BY <2>1 DEF Serving, NodesHold, Puts
  <2>3. ToPut(n) = {} BY <2>1, LastPut, Constants
  <2>4. \A t \in Task \ {n} : putting'[t] = putting[t]
    <3>1. DOMAIN putting = Task BY DEF Inv, TypeOK, ResolutionTypeOK
    <3> QED BY <2>1, <3>1
  <2> QED BY <2>1, <2>2, <2>3, <2>4, MoveServes
<1>3. CASE CancelEscapes(n)
  <2>1. /\ running = n /\ ~Puts(n) /\ CancelStreams(n, StreamInputs(n))
        /\ at' = [at EXCEPT ![n] = "cancelled"]
    BY <1>3 DEF CancelEscapes, Puts
  <2>2. StreamInputs(n) \in SUBSET Inputs(n) BY DEF StreamInputs
  <2> QED BY <2>1, <2>2, CancelServes
<1>4. CASE Ends(n)
  <2>1. /\ running = n /\ at[n] \in {"body", "call", "cancelled"}
        /\ at' = [at EXCEPT ![n] = "end"]
        /\ UNCHANGED <<ports, dropped, gen, status, bookVars, queueVars, work, stitch, defaulted,
                       reading, putting>>
    BY <1>4 DEF Ends, InCode, Await, streamVars, statusVars, dataVars
  <2>2. ToPut(n) = {} BY <2>1 DEF ToPut, Puts
  <2> QED BY <2>1, <2>2, MoveServes
<1> QED BY <1>1, <1>2, <1>3, <1>4

\* A step of a put().
LEMMA PuttingServes ==
    ASSUME Inv, Serving, NEW t \in Task, Puts(t), ~closed,
           NEW place \in {"acquire", "notify", "release"}, at' = [at EXCEPT ![t] = place],
           UNCHANGED <<streamVars, statusVars, bookVars, closed, dataVars, work>>,
           \A x \in Task \ {t} : putting'[x] = putting[x],
           t = Main => putting'[t] = putting[t],
           ToSet(items) \subseteq ToSet(items)',
           ToPut(t) \subseteq ToPut(t)' \cup ToSet(items)'
    PROVE  Serving'
<1>1. Node \subseteq Task /\ Main \in Task /\ Main \notin Node BY Constants
<1>2. /\ DOMAIN at = Task /\ at'[t] = place /\ Puts(t)'
      /\ \A x \in Task \ {t} : at'[x] = at[x] /\ (Puts(x)' <=> Puts(x)) /\ ToPut(x)' = ToPut(x)
  <2>1. DOMAIN at = Task BY Types DEF Inv
  <2> QED BY <2>1 DEF Puts, ToPut
<1>3. Counted' = Counted BY DEF Counted, InFlight, statusVars, bookVars
<1>4. Forward(ports)' /\ Short' BY DEF Serving, Short, streamVars, dataVars
<1>5. MainHolds'
  <2>1. CASE t = Main
    BY <1>2, <2>1 DEF Serving, MainHolds, bookVars, Puts
  <2>2. CASE t # Main
    <3>1. at'[Main] = at[Main] /\ (Puts(Main)' <=> Puts(Main)) /\ putting'[Main] = putting[Main]
      BY <1>1, <1>2, <2>2
    <3> QED BY <3>1 DEF Serving, MainHolds, bookVars
  <2> QED BY <2>1, <2>2
<1>6. NodesHold'
  <2>1. \A n \in Node : (Puts(n)' <=> Puts(n)) /\ (at'[n] = "passed" => at[n] = "passed")
    BY <1>1, <1>2
  <2>2. \A n \in Node : Inputs(n)' = Inputs(n) BY DEF Inputs, streamVars
  <2> QED BY <1>3, <2>1, <2>2
       DEF Serving, NodesHold, streamVars, statusVars, bookVars, dataVars
<1>7. ClosedIsIdle' BY DEF ClosedIsIdle
<1>8. \A n \in Node : Asked(n) => Asked(n)'
  <2> SUFFICES ASSUME NEW n \in Node, Asked(n) PROVE Asked(n)' OBVIOUS
  <2>1. /\ n \in ToSet(items) => Asked(n)'
        /\ n \in ToSet(work) => Asked(n)'
        /\ n \in Counted => Asked(n)'
        /\ n \in ToPut(t) => Asked(n)'
    BY <1>3 DEF Asked
  <2> QED BY <1>2, <2>1, AskedStays
<1>9. Served' /\ LeavesStarve'
  <2>1. Served /\ LeavesStarve BY DEF Serving
  <2>2. UNCHANGED <<gen, ports, unvisited, stitch>> BY DEF dataVars, streamVars, bookVars
  <2>3. Found' = Found
    <3>1. (at'[Main] = "resume") <=> (at[Main] = "resume") BY <1>1, <1>2 DEF Puts
    <3> QED BY <3>1 DEF Found, bookVars
  <2> QED BY <1>3, <1>8, <2>1, <2>2, <2>3, ServedKept
<1>10. DroppedHold' BY <1>3 DEF Serving, DroppedHold, streamVars, dataVars
<1> QED BY <1>4, <1>5, <1>6, <1>7, <1>9, <1>10 DEF Serving

\* A put() keeps the nodes served.
LEMMA TurnServes ==
    ASSUME Inv, Serving, loop = "running", NEW t \in Task, Turn(t), loop' = "running"
    PROVE  Serving'
<1>1. Puts(t) BY DEF Turn, PutBody, PutNotified, PutNext, Puts
<1>2. ~closed BY <1>1, StillOpen
<1>3. putting[t] \in Seq(Node) /\ putting[t] # <<>>
  BY <1>1 DEF Puts, Inv, Marks, Mark, TypeOK, ResolutionTypeOK
<1>4. items \in Seq(Node) /\ Head(putting[t]) \in Node /\ DOMAIN putting = Task /\ DOMAIN at = Task
  BY <1>3, HeadTailProperties DEF Inv, TypeOK, ResolutionTypeOK
<1>5. ToSet(putting[t]) = ToSet(Tail(putting[t])) \cup {Head(putting[t])}
  BY <1>3, TailMembers
<1>6. CASE PutBody(t)
  <2>1. /\ at[t] = "acquire" /\ UNCHANGED <<streamVars, statusVars, bookVars, closed, dataVars,
                                           putting, work>>
        /\ \/ /\ Head(putting[t]) \in ToSet(items) /\ items' = items
              /\ at' = [at EXCEPT ![t] = "release"]
           \/ /\ items' = Append(items, Head(putting[t]))
              /\ at' = [at EXCEPT ![t] = "notify"]
    BY <1>2, <1>6 DEF PutBody, Await
  <2>2. ToSet(items) \cup {Head(putting[t])} \subseteq ToSet(items)'
    <3>1. ToSet(Append(items, Head(putting[t]))) = ToSet(items) \cup {Head(putting[t])}
      BY <1>4, AppendMembers
    <3> QED BY <2>1, <3>1
  <2>3. PICK place \in {"notify", "release"} : at' = [at EXCEPT ![t] = place] BY <2>1
  <2>4. ToPut(t) = ToSet(putting[t]) /\ ToPut(t)' = ToSet(Tail(putting[t]))
    BY <1>4, <2>1, <2>3 DEF ToPut, Puts
  <2>5. ToPut(t) \subseteq ToPut(t)' \cup ToSet(items)' BY <1>5, <2>2, <2>4
  <2> QED BY <1>1, <1>2, <2>1, <2>2, <2>3, <2>5, PuttingServes
<1>7. CASE PutNotified(t)
  <2>1. /\ at[t] = "notify" /\ at' = [at EXCEPT ![t] = "release"]
        /\ UNCHANGED <<streamVars, statusVars, bookVars, queueVars, dataVars, putting, work>>
    BY <1>7 DEF PutNotified, Await
  <2>2. ToPut(t)' = ToPut(t) BY <1>4, <2>1 DEF ToPut, Puts
  <2> QED BY <1>1, <1>2, <2>1, <2>2, PuttingServes DEF queueVars
<1>8. CASE PutNext(t)
  <2>1. /\ at[t] = "release" /\ Len(putting[t]) > 1 /\ at' = [at EXCEPT ![t] = "acquire"]
        /\ putting' = [putting EXCEPT ![t] = Tail(putting[t])]
        /\ UNCHANGED <<streamVars, statusVars, bookVars, queueVars, dataVars, work>>
    BY <1>8 DEF PutNext, PutFirst, Await
  <2>2. t # Main
    <3>1. t = Main => Len(putting[t]) = 1 BY <1>1 DEF Serving, MainHolds
    <3>2. ~(1 > 1) OBVIOUS
    <3> QED BY <2>1, <3>1, <3>2
  <2>3. ToPut(t)' = ToPut(t) BY <1>4, <2>1 DEF ToPut, Puts
  <2>4. \A x \in Task \ {t} : putting'[x] = putting[x] BY <1>4, <2>1
  <2> QED BY <1>1, <1>2, <2>1, <2>2, <2>3, <2>4, PuttingServes DEF queueVars
<1> QED BY <1>6, <1>7, <1>8 DEF Turn

\* A step of n after which it has data: the others are held, and asked for, as they were.
Others(n) ==
    /\ MainHolds' /\ NodesHold' /\ DroppedHold' /\ ClosedIsIdle'
    /\ Found' = Found /\ unvisited' = unvisited
    /\ \A m \in Node \ {n} : /\ m \in Counted => m \in Counted'
                             /\ Asked(m) => Asked(m)'

\* What such a step leaves alone.
Spares(n) ==
    /\ UNCHANGED <<ports, work>> /\ dropped' \subseteq dropped
    /\ \A x \in Task \ {n} : putting'[x] = putting[x]
    /\ gen'[n] # None /\ \A m \in Node \ {n} : gen'[m] = gen[m]
    /\ \A m \in Node \ {n} : defaulted'[m] = defaulted[m]
    /\ \A m \in Node : reading'[m].default \in {reading[m].default} \cup SUBSET Inputs(m)
    /\ ToPut(n) = {}

\* A node waits for its next start.
LEMMA WaitForStartServes ==
    ASSUME Inv, Serving, loop = "running", NEW n \in Node, running = n, Spares(n),
           NEW place \in {"idle", "stream"}, WaitForStart(n, place)
    PROVE  Others(n)
<1>1. Node \subseteq Task /\ Main \in Task /\ Main \notin Node BY Constants
<1>2. /\ at' = [at EXCEPT ![n] = place] /\ status' = [status EXCEPT ![n] = "waiting"]
      /\ active' = active \ {n}
      /\ closed' = closed \/ NoMoreWork(active', pending')
      /\ UNCHANGED <<stalledOn, unvisited, visited, hasItem, items>>
  BY DEF WaitForStart, Await
<1>3. n \in visited /\ ~closed BY StillOpen
<1>4. DOMAIN at = Task /\ DOMAIN status = Node /\ visited \subseteq Node
  BY DEF Inv, TypeOK, ResolutionTypeOK, GraphTypeOK
<1>5. at'[n] = place /\ ~Puts(n)' BY <1>1, <1>2, <1>4 DEF Puts
<1>6. \A x \in Task \ {n} : at'[x] = at[x] /\ (Puts(x)' <=> Puts(x)) /\ ToPut(x)' = ToPut(x)
  BY <1>2, <1>4 DEF Puts, ToPut, Spares
<1>7. \A m \in Node \ {n} : status'[m] = status[m] /\ (m \in Counted => m \in Counted')
  BY <1>2, <1>4 DEF Counted, InFlight
<1>8. at'[Main] = at[Main] /\ (Puts(Main)' <=> Puts(Main)) /\ putting'[Main] = putting[Main]
  BY <1>1, <1>6 DEF Spares
<1>9. MainHolds'
  <2>1. Puts(Main) => Head(putting[Main]) \in active' \ visited'
    BY <1>2, <1>3 DEF Serving, MainHolds
  <2> QED BY <1>2, <1>3, <1>8, <2>1 DEF Serving, MainHolds, Spares
<1>10. NodesHold'
  <2>1. status'[n] = "waiting" BY <1>2, <1>4
  <2>2. \A m \in Node : Inputs(m)' = Inputs(m) BY DEF Inputs, Spares
  <2>3. \A m \in Node : reading'[m].default \subseteq Inputs(m)'
    BY <2>2 DEF Spares, Serving, NodesHold
  <2>4. \A m \in Node : m \in visited' \cup ToSet(unvisited') \cup active'
    BY <1>2, <1>3 DEF Serving, NodesHold
  <2>5. ASSUME NEW m \in Node \ {n}
        PROVE  /\ Puts(m)' => m \in Counted'
               /\ Puts(m)' \/ at'[m] = "passed" => gen'[m] # None
               /\ defaulted'[m] # {} => m \in Counted' \/ gen'[m] # None
               /\ status'[m] # "error"
    BY <1>1, <1>6, <1>7, <2>5 DEF Spares, Serving, NodesHold
  <2>6. gen'[n] # None BY DEF Spares
  <2> QED BY <1>5, <2>1, <2>3, <2>4, <2>5, <2>6 DEF NodesHold
<1>11. DroppedHold'
  <2> SUFFICES ASSUME NEW p \in dropped'
               PROVE  gen'[ports'[p].node] # None \/ ports'[p].node \in Counted'
    BY DEF DroppedHold
  <2>1. p \in dropped /\ ports' = ports BY DEF Spares
  <2>2. p \in DOMAIN ports BY <2>1 DEF Inv, TypeOK, ResolutionTypeOK
  <2>3. ports[p].node \in Node BY <2>2, Types DEF Inv
  <2>4. gen[ports[p].node] # None \/ ports[p].node \in Counted BY <2>1 DEF Serving, DroppedHold
  <2>5. CASE ports[p].node = n BY <2>1, <2>5 DEF Spares
  <2>6. CASE ports[p].node # n BY <1>7, <2>1, <2>3, <2>4, <2>6 DEF Spares
  <2> QED BY <2>5, <2>6
<1>12. ClosedIsIdle' BY <1>2, <1>3 DEF ClosedIsIdle, NoMoreWork
<1>13. Found' = Found BY <1>2, <1>8 DEF Found, Spares
<1>14. ASSUME NEW m \in Node \ {n}, Asked(m) PROVE Asked(m)'
  <2>1. /\ m \in ToSet(items) => Asked(m)'
        /\ m \in ToSet(work) => Asked(m)'
        /\ m \in Counted => Asked(m)'
        /\ m \in ToPut(n) => Asked(m)'
    BY <1>2, <1>7 DEF Asked, Spares
  <2> QED BY <1>6, <1>14, <2>1, AskedStays
<1> QED BY <1>2, <1>7, <1>9, <1>10, <1>11, <1>12, <1>13, <1>14 DEF Others

\* A node begins to put the readers of its new data, or passes its barrier.
LEMMA AnnouncedServes ==
    ASSUME Inv, Serving, loop = "running", NEW n \in Node, running = n, Spares(n),
           NEW place \in {"acquire", "passed"}, at' = [at EXCEPT ![n] = place],
           UNCHANGED <<statusVars, bookVars, queueVars>>
    PROVE  Others(n)
<1>1. Node \subseteq Task /\ Main \in Task /\ Main \notin Node BY Constants
<1>2. DOMAIN at = Task BY Types DEF Inv
<1>3. n \in Counted /\ Counted' = Counted
  <2>1. Counted' = Counted BY DEF Counted, InFlight, statusVars, bookVars
  <2> QED BY <2>1, StillOpen
<1>4. at'[n] = place BY <1>1, <1>2
<1>5. \A x \in Task \ {n} : at'[x] = at[x] /\ (Puts(x)' <=> Puts(x)) /\ ToPut(x)' = ToPut(x)
  BY <1>2 DEF Puts, ToPut, Spares
<1>6. at'[Main] = at[Main] /\ (Puts(Main)' <=> Puts(Main)) /\ putting'[Main] = putting[Main]
  BY <1>1, <1>5 DEF Spares
<1>7. MainHolds' BY <1>6 DEF Serving, MainHolds, Spares, bookVars, queueVars
<1>8. NodesHold'
  <2>1. \A m \in Node : Inputs(m)' = Inputs(m) BY DEF Inputs, Spares
  <2>2. \A m \in Node : reading'[m].default \subseteq Inputs(m)'
    BY <2>1 DEF Spares, Serving, NodesHold
  <2>3. ASSUME NEW m \in Node \ {n}
        PROVE  /\ Puts(m)' => m \in Counted'
               /\ Puts(m)' \/ at'[m] = "passed" => gen'[m] # None
               /\ defaulted'[m] # {} => m \in Counted' \/ gen'[m] # None
    BY <1>1, <1>3, <1>5, <2>3 DEF Spares, Serving, NodesHold
  <2>4. gen'[n] # None BY DEF Spares
  <2>5. \A m \in Node : /\ m \in visited' \cup ToSet(unvisited') \cup active'
                        /\ status'[m] # "error"
    BY DEF Serving, NodesHold, statusVars, bookVars
  <2> QED BY <1>3, <2>2, <2>3, <2>4, <2>5 DEF NodesHold
<1>9. DroppedHold'
  <2> SUFFICES ASSUME NEW p \in dropped'
               PROVE  gen'[ports'[p].node] # None \/ ports'[p].node \in Counted'
    BY DEF DroppedHold
  <2>1. p \in dropped /\ ports' = ports BY DEF Spares
  <2>2. p \in DOMAIN ports BY <2>1 DEF Inv, TypeOK, ResolutionTypeOK
  <2>3. ports[p].node \in Node BY <2>2, Types DEF Inv
  <2>4. gen[ports[p].node] # None \/ ports[p].node \in Counted BY <2>1 DEF Serving, DroppedHold
  <2> QED BY <1>3, <2>1, <2>3, <2>4 DEF Spares
<1>10. ClosedIsIdle' BY DEF Serving, ClosedIsIdle, bookVars, queueVars
<1>11. Found' = Found /\ unvisited' = unvisited BY <1>6 DEF Found, Spares, bookVars
<1>12. ASSUME NEW m \in Node \ {n}, Asked(m) PROVE Asked(m)'
  <2>1. /\ m \in ToSet(items) => Asked(m)'
        /\ m \in ToSet(work) => Asked(m)'
        /\ m \in Counted => Asked(m)'
        /\ m \in ToPut(n) => Asked(m)'
    BY <1>3 DEF Asked, Spares, queueVars
  <2> QED BY <1>5, <1>12, <2>1, AskedStays
<1> QED BY <1>3, <1>7, <1>8, <1>9, <1>10, <1>11, <1>12 DEF Others

\* After a step that pushes no data the starved sets are those of before.
LEMMA WaitedServes ==
    ASSUME Inv, Serving, NEW n \in Node, Others(n), UNCHANGED <<gen, ports, stitch>>,
           gen[n] # None
    PROVE  Serving'
<1>1. Served' /\ LeavesStarve'
  <2>1. Served /\ LeavesStarve BY DEF Serving
  <2>2. \A m \in Node : m \in Counted /\ gen[m] = None => m \in Counted' BY DEF Others
  <2>3. ASSUME NEW S \in SUBSET Node, Starved(S), \E m \in S : Asked(m)
        PROVE  \E m \in S : Asked(m)'
    <3>1. n \notin S BY <2>3 DEF Starved
    <3> QED BY <2>3, <3>1 DEF Others
  <2> QED BY <2>1, <2>2, <2>3, ServedKept DEF Others
<1>2. Forward(ports)' /\ Short' BY DEF Serving, Short
<1> QED BY <1>1, <1>2 DEF Serving, Others

\* The last consumer is in the queue, or the next chunk is awaited.
LEMMA PutsDoneServes ==
    ASSUME Inv, Serving, loop = "running", NEW n \in Node, PutsDone(n) \/ WaitForNextChunk(n)
    PROVE  Serving'
<1>1. /\ running = n
      /\ at[n] = "passed" \/ (at[n] = "release" /\ Len(putting[n]) = 1)
      /\ putting' = putting \/ putting' = [putting EXCEPT ![n] = <<>>]
      /\ \E place \in {"idle", "stream"} : WaitForStart(n, place)
      /\ UNCHANGED <<ports, dropped, gen, stitch, defaulted, reading, work>>
  BY DEF PutsDone, WaitForNextChunk, streamVars, dataVars
<1>2. Node \subseteq Task /\ DOMAIN putting = Task
  BY Constants DEF Inv, TypeOK, ResolutionTypeOK
<1>3. gen[n] # None BY <1>1 DEF Serving, NodesHold, Puts
<1>4. ToPut(n) = {}
  <2>1. CASE at[n] = "passed" BY <2>1 DEF ToPut, Puts
  <2>2. CASE at[n] = "release" /\ Len(putting[n]) = 1 BY <1>2, <2>2, LastPut
  <2> QED BY <1>1, <2>1, <2>2
<1>5. Spares(n) BY <1>1, <1>2, <1>3, <1>4 DEF Spares
<1>6. Others(n) BY <1>1, <1>5, WaitForStartServes
<1> QED BY <1>1, <1>3, <1>6, WaitedServes

\* What a push makes of the connections to nodes that never ran: those of the others are as
\* they were, one of its own is not stale again, nor is it if it need not be clipped.
LEMMA PushedStale ==
    ASSUME Inv, Serving, NEW n \in Node, NEW level \in {0, 1}, level = 1 => n \in Generator,
           PushData(n, level), UNCHANGED <<ports, stitch>>,
           NEW p \in DOMAIN ports, ports[p].node # n, gen[ports[p].node] = None
    PROVE  /\ Stale(p)' => Stale(p)
           /\ ports[p].source # n => (Stale(p)' <=> Stale(p))
           /\ ports[p].source = n /\ (n \in Generator => ports[p].stream) => ~Stale(p)'
<1> DEFINE g == gen[ports[p].source]  h == gen'[ports[p].source]  l == Level(p)  s == stitch[p]
<1>1. /\ gen' \in [Node -> Generation] /\ gen'[n] # None /\ Len(gen'[n]) = level + 1
      /\ \A m \in Node \ {n} : gen'[m] = gen[m]
  <2>1. level \in Nat OBVIOUS
  <2> QED BY <2>1, PushDataMoves
<1>2. ports[p].source \in Node /\ ports[p].node \in Node BY Types DEF Inv
<1>3. g \in Generation /\ s \in Nat /\ l \in {0, 1} /\ (Stale(p) <=> Behind(g, l, s))
  BY StaleMeans DEF Inv
<1>4. h \in Generation BY <1>1, <1>2
<1>5. Stale(p)' <=> Behind(h, l, s)
  <2>1. gen'[ports[p].node] = None BY <1>1, <1>2
  <2>2. l' = l /\ s' = s BY DEF Level
  <2>3. Stale(p)' <=> CmpGeneration(StitchedGeneration(ClipGeneration(h, l), s), None) <= 0
    BY <2>1, <2>2 DEF Stale
  <2> QED BY <2>3 DEF Behind
<1>6. ports[p].source # n => (Stale(p)' <=> Stale(p)) BY <1>1, <1>2, <1>3, <1>5
<1>7. ASSUME ports[p].source = n PROVE Stale(p)' => Stale(p)
  <2>1. g \in Generation \ {<<>>} /\ h = IncGeneration(g, level) /\ level \in Nat
    BY <1>2, <1>3, <1>7 DEF PushData, Inv, Numbered, TypeOK, ResolutionTypeOK, GraphTypeOK
  <2> HIDE DEF g, h, l, s
  <2>2. CmpGeneration(h, g) > 0 BY <2>1, IncIsLeastAbove
  <2>3. CmpGeneration(g, h) <= 0
    <3>1. CmpGeneration(g, h) = -CmpGeneration(h, g) /\ CmpGeneration(h, g) \in {-1, 0, 1}
      BY <1>3, <1>4, OrderIsTotal
    <3> QED BY <2>2, <3>1
  <2>4. l \in Nat BY <1>3
  <2> QED BY <1>3, <1>4, <1>5, <2>3, <2>4, BehindNoMore
<1>8. ASSUME ports[p].source = n, n \in Generator => ports[p].stream PROVE ~Stale(p)'
  <2>1. h # None /\ Len(h) = level + 1 BY <1>1, <1>8
  <2>2. level <= l BY <1>8 DEF Level
  <2> HIDE DEF g, h, l, s
  <2>3. Len(h) <= l + 1 /\ l \in Nat BY <1>3, <2>1, <2>2
  <2> QED BY <1>3, <1>4, <1>5, <2>1, <2>3, BehindNoMore
<1> QED BY <1>6, <1>7, <1>8

\* A node pushes its data: whoever waited for it, and for nobody else, is to be put.
LEMMA PushedServes ==
    ASSUME Inv, Serving, loop = "running", loop' = "running", NEW n \in Node, running = n,
           ~Puts(n), NEW level \in {0, 1}, level = 1 => n \in Generator, PushData(n, level),
           UNCHANGED <<ports, stitch, work>>, dropped' \subseteq dropped,
           \A m \in Node \ {n} : defaulted'[m] = defaulted[m],
           \A m \in Node : reading'[m].default \in {reading[m].default} \cup SUBSET Inputs(m),
           \/ Announce(n) \/ AnnounceNobody(n)
           \/ /\ ToEnqueue(n) = <<>> /\ PassBarrier(n)
              /\ UNCHANGED <<statusVars, bookVars, queueVars, putting>>
    PROVE  Serving'
<1>1. Node \subseteq Task /\ DOMAIN at = Task /\ DOMAIN putting = Task /\ ports \in Seq(Port)
  BY Constants, Types DEF Inv, TypeOK, ResolutionTypeOK
<1>2. /\ gen'[n] # None /\ Len(gen'[n]) = level + 1
      /\ \A m \in Node \ {n} : gen'[m] = gen[m]
      /\ \A m \in Node : gen[m] # None => gen'[m] # None
  <2>1. level \in Nat OBVIOUS
  <2> QED BY <2>1, PushDataMoves
<1>3. ToPut(n) = {} BY DEF ToPut, Puts
<1>4. Spares(n) /\ Others(n) /\ \A m \in ToSet(ToEnqueue(n)) : Asked(m)'
  <2>1. CASE AnnounceNobody(n)
    <3>1. ToEnqueue(n) = <<>> /\ WaitForStart(n, "idle") /\ putting' = putting
      BY <2>1 DEF AnnounceNobody
    <3>2. Spares(n) BY <1>2, <1>3, <3>1 DEF Spares
    <3>3. Others(n) BY <3>1, <3>2, WaitForStartServes
    <3>4. ToSet(ToEnqueue(n)) = {} BY <3>1 DEF ToSet
    <3> QED BY <3>2, <3>3, <3>4
  <2>2. CASE /\ ToEnqueue(n) = <<>> /\ PassBarrier(n)
             /\ UNCHANGED <<statusVars, bookVars, queueVars, putting>>
    <3>1. Spares(n) BY <1>2, <1>3, <2>2 DEF Spares
    <3>2. Others(n) BY <2>2, <3>1, AnnouncedServes DEF PassBarrier, Await
    <3>3. ToSet(ToEnqueue(n)) = {} BY <2>2 DEF ToSet
    <3> QED BY <3>1, <3>2, <3>3
  <2>3. CASE Announce(n)
    <3> DEFINE list == ToEnqueue(n)
    <3>1. /\ at' = [at EXCEPT ![n] = "acquire"] /\ putting' = [putting EXCEPT ![n] = list]
          /\ UNCHANGED <<statusVars, bookVars, queueVars>>
      BY <2>3 DEF Announce, PutFirst, Await
    <3> HIDE DEF list
    <3>2. Spares(n) BY <1>1, <1>2, <1>3, <3>1 DEF Spares
    <3>3. Others(n) BY <3>1, <3>2, AnnouncedServes
    <3>4. at'[n] = "acquire" /\ putting'[n] = list BY <1>1, <3>1
    <3>5. ToPut(n)' = ToSet(list) BY <3>4 DEF ToPut
    <3>6. \A m \in ToSet(list) : Asked(m)' BY <1>1, <3>5 DEF Asked
    <3> QED BY <3>2, <3>3, <3>6 DEF list
  <2> QED BY <2>1, <2>2, <2>3
\* No reader that never ran, and does not compute, has cancelled a stream.
<1>5. ASSUME NEW p \in Outputs(n), gen[ports[p].node] = None, ports[p].node \notin Counted
      PROVE  ports[p].node \in ToSet(ToEnqueue(n))
  <2> DEFINE P == {x \in Outputs(n) :
                      \A q \in Outputs(n) \cap dropped' : ports[q].node # ports[x].node}
  <2>1. ~closed BY StillOpen
  <2>2. ToEnqueue(n) = Consumers(P) BY <2>1 DEF ToEnqueue
  <2>3. \A q \in dropped : gen[ports[q].node] # None \/ ports[q].node \in Counted
    BY DEF Serving, DroppedHold
  <2>4. p \in P BY <1>5, <2>3
  <2>5. P \in SUBSET DOMAIN ports BY DEF Outputs
  <2> HIDE DEF P
  <2> QED BY <1>1, <2>2, <2>4, <2>5, ConsumersAll
<1>6. \A S \in SUBSET Node : \A m \in S \ {n} : \A p \in Inputs(m) :
         /\ p \in DOMAIN ports /\ ports[p].node = m /\ m \in Node
         /\ ports[p].source \in Node
  BY Types DEF Inputs, Inv
<1>7. ASSUME NEW S \in SUBSET Node, Starved(S)', ~(S \subseteq ToSet(unvisited)')
      PROVE  \E m \in S : Asked(m)'
  <2>1. n \notin S /\ \A m \in S : gen[m] = None BY <1>2, <1>7 DEF Starved
  <2>2. CASE \E m \in S : m \in Counted
    <3>1. PICK m \in S : m \in Counted BY <2>2
    <3> QED BY <1>4, <2>1, <3>1 DEF Others, Asked
  <2>3. CASE \E m \in S : m \in Counted' BY <2>3 DEF Asked
  <2>4. CASE \A m \in S : m \notin Counted /\ m \notin Counted'
    <3>1. CASE Starved(S)
      <4>1. unvisited' = unvisited BY <1>4 DEF Others
      <4>2. PICK m \in S : Asked(m) BY <1>7, <3>1, <4>1 DEF Serving, Served
      <4> QED BY <1>4, <2>1, <4>2 DEF Others
    <3>2. CASE ~Starved(S)
      <4>6. PICK m \in S : \E p \in Inputs(m) : Stale(p) /\ ports[p].source \notin S
        BY <2>1, <3>2 DEF Starved
      <4>1. PICK p \in Inputs(m) : Stale(p) /\ ports[p].source \notin S BY <4>6
      <4>2. p \in DOMAIN ports /\ ports[p].node = m /\ m \in Node /\ m # n
        BY <1>6, <2>1, <4>1
      <4>3. ~Stale(p)'
        <5>1. Inputs(m)' = Inputs(m) BY DEF Inputs
        <5> QED BY <1>7, <2>4, <4>1, <5>1 DEF Starved
      <4>4. ports[p].source = n BY <2>1, <4>1, <4>2, <4>3, PushedStale
      <4>5. m \in ToSet(ToEnqueue(n)) BY <1>5, <2>1, <2>4, <4>1, <4>2, <4>4 DEF Outputs
      <4> QED BY <1>4, <4>1, <4>5
    <3> QED BY <3>1, <3>2
  <2> QED BY <2>2, <2>3, <2>4
<1>8. ASSUME NEW x \in Found', gen'[x] = None, x \in Node
      PROVE  \E S \in SUBSET Node : x \in S /\ Starved(S)' /\ Knot(S)'
  <2>1. x \in Found /\ x # n /\ gen[x] = None BY <1>2, <1>4, <1>8 DEF Others
  <2>2. PICK S \in SUBSET Node : x \in S /\ Starved(S) /\ Knot(S)
    BY <2>1 DEF Serving, LeavesStarve
  <2> DEFINE R == S \ {n}
  <2>3. R \in SUBSET Node /\ x \in R BY <2>1, <2>2
  <2>4. Knot(R)' BY <2>2 DEF Knot
  <2>5. ASSUME NEW m \in R, m \notin Counted', NEW p \in Inputs(m), Stale(p)'
        PROVE  ports[p].source \in R
    <3>1. /\ p \in DOMAIN ports /\ ports[p].node = m /\ m \in Node /\ m # n /\ gen[m] = None
          /\ ports[p].source \in Node
      BY <1>6, <2>2 DEF Starved
    <3>2. m \notin Counted BY <1>4, <2>5, <3>1 DEF Others
    <3>3. Stale(p) BY <2>5, <3>1, PushedStale
    <3>4. ports[p].source \in S BY <2>2, <2>5, <3>2, <3>3 DEF Starved
    <3>5. ports[p].source # n
      <4>1. ports[p].source = n /\ n \in Generator => ports[p].stream
        BY <2>2, <3>1, <3>4 DEF Knot
      <4> QED BY <2>5, <3>1, <4>1, PushedStale
    <3> QED BY <3>4, <3>5
  <2>6. Starved(R)'
    <3>1. \A m \in R : gen'[m] = None /\ Inputs(m)' = Inputs(m)
      BY <1>2, <2>2 DEF Starved, Inputs
    <3> HIDE DEF R
    <3> QED BY <2>5, <3>1 DEF Starved
  <2> QED BY <2>3, <2>4, <2>6
<1>9. Served' BY <1>7 DEF Served
<1>10. LeavesStarve'
  <2>1. Found \subseteq Node
    <3>1. visited \subseteq Node /\ work \in Seq(Node) BY DEF Inv, TypeOK, ResolutionTypeOK
    <3> QED BY <3>1, QueueMembers DEF Found
  <2>2. Found' \subseteq Node BY <1>4, <2>1 DEF Others
  <2> QED BY <1>8, <2>2 DEF LeavesStarve
<1>11. Forward(ports)' /\ Short'
  <2>1. level + 1 = 1 \/ (n \in Generator /\ level + 1 = 2) OBVIOUS
  <2> QED BY <1>2, <2>1 DEF Serving, Short
<1> QED BY <1>4, <1>9, <1>10, <1>11 DEF Serving, Others

\* A coroutine pushes its data, a generator a chunk or the whole of them.
LEMMA PushServes ==
    ASSUME Inv, Serving, loop = "running", NEW n \in Node, loop' = "running",
           Push(n) \/ CodeYields(n) \/ PushWhole(n)
    PROVE  Serving'
<1>1. /\ DOMAIN defaulted = Node
      /\ reading \in [Node -> [count : SUBSET DOMAIN ports, default : SUBSET DOMAIN ports,
                               open : SUBSET DOMAIN ports]]
  BY DEF Inv, TypeOK, ResolutionTypeOK, GraphTypeOK
<1>2. reading' = [reading EXCEPT ![n] = Nothing] =>
         \A m \in Node : reading'[m].default \in {reading[m].default} \cup SUBSET Inputs(m)
  BY <1>1 DEF Nothing
<1>3. ~StopAtLimit(n) BY DEF StopAtLimit, End
<1>4. CASE Push(n)
  <2>1. /\ running = n /\ ~Puts(n) /\ PushData(n, 0)
        /\ defaulted' = [defaulted EXCEPT ![n] = {}]
        /\ reading' = [reading EXCEPT ![n] = Nothing]
        /\ UNCHANGED <<ports, dropped, stitch, work>>
        /\ Announce(n) \/ AnnounceNobody(n)
    BY <1>3, <1>4 DEF Push, Puts, streamVars
  <2> QED BY <1>1, <1>2, <2>1, PushedServes
<1>5. CASE PushWhole(n)
  <2>1. /\ running = n /\ ~Puts(n) /\ PushData(n, 0)
        /\ defaulted' = [defaulted EXCEPT ![n] = {}]
        /\ reading' = [reading EXCEPT ![n] = Nothing]
        /\ dropped' \subseteq dropped
        /\ UNCHANGED <<ports, stitch, work>>
        /\ Announce(n) \/ AnnounceNobody(n)
    BY <1>3, <1>5 DEF PushWhole, Puts
  <2> QED BY <1>1, <1>2, <2>1, PushedServes
<1>6. CASE CodeYields(n)
  <2>1. /\ running = n /\ ~Puts(n) /\ PushData(n, 1) /\ n \in Generator
        /\ UNCHANGED <<ports, dropped, stitch, work, defaulted, reading>>
        /\ \/ Announce(n) \/ AnnounceNobody(n)
           \/ /\ ToEnqueue(n) = <<>> /\ PassBarrier(n)
              /\ UNCHANGED <<statusVars, bookVars, queueVars, putting>>
    BY <1>3, <1>6 DEF CodeYields, InCode, Puts, streamVars
  <2> QED BY <2>1, PushedServes
<1> QED BY <1>4, <1>5, <1>6

\* What a step of Main leaves to the nodes.
LEMMA MainMoves ==
    ASSUME Inv, NEW place, at' = [at EXCEPT ![Main] = place],
           \A x \in Task \ {Main} : putting'[x] = putting[x]
    PROVE  /\ at'[Main] = place
           /\ \A n \in Node : at'[n] = at[n] /\ (Puts(n)' <=> Puts(n))
           /\ \A x \in Task \ {Main} : ToPut(x)' = ToPut(x)
<1>1. DOMAIN at = Task /\ Node \subseteq Task /\ Main \in Task /\ Main \notin Node
  BY Constants DEF Inv, TypeOK, ResolutionTypeOK
<1> QED BY <1>1 DEF Puts, ToPut

\* Main leaves the streams and the data alone, and what the nodes hold but for their status.
LEMMA MainSpares ==
    ASSUME Inv, Serving, UNCHANGED <<streamVars, dataVars>>,
           \A n \in Node : at'[n] = at[n] /\ (Puts(n)' <=> Puts(n)),
           \A n \in Node : status'[n] # "error", Counted \subseteq Counted',
           visited \cup ToSet(unvisited) \cup active
              \subseteq visited' \cup ToSet(unvisited') \cup active'
    PROVE  /\ Forward(ports)' /\ Short' /\ NodesHold' /\ DroppedHold'
           /\ UNCHANGED <<gen, ports, stitch>>
<1> USE DEF streamVars, dataVars
<1>1. Forward(ports)' /\ Short' BY DEF Serving, Short
<1>2. \A n \in Node : Inputs(n)' = Inputs(n) BY DEF Inputs
<1>3. NodesHold'
  <2> SUFFICES ASSUME NEW n \in Node
               PROVE  /\ Puts(n)' => n \in Counted'
                      /\ Puts(n)' \/ at'[n] = "passed" => gen'[n] # None
                      /\ defaulted'[n] # {} => n \in Counted' \/ gen'[n] # None
                      /\ reading'[n].default \subseteq Inputs(n)'
                      /\ n \in visited' \cup ToSet(unvisited') \cup active'
                      /\ status'[n] # "error"
    BY DEF NodesHold
  <2>1. /\ Puts(n) => n \in Counted
        /\ Puts(n) \/ at[n] = "passed" => gen[n] # None
        /\ defaulted[n] # {} => n \in Counted \/ gen[n] # None
        /\ reading[n].default \subseteq Inputs(n)
        /\ n \in visited \cup ToSet(unvisited) \cup active
    BY DEF Serving, NodesHold
  <2>2. n \in Counted => n \in Counted' OBVIOUS
  <2> QED BY <1>2, <2>1, <2>2
<1>4. DroppedHold' BY DEF Serving, DroppedHold
<1> QED BY <1>1, <1>3, <1>4

\* Main takes the next unvisited node, and puts it.
LEMMA NextUnvisitedServes ==
    ASSUME Inv, Serving, loop = "running", NextUnvisited, at[Main] \in {"idle", "closed"},
           UNCHANGED <<streamVars, dataVars, work>>, loop' = "running"
    PROVE  Serving'
<1>2. /\ DOMAIN putting = Task /\ DOMAIN status = Node /\ unvisited \in Seq(Node) /\ Main \in Task
      /\ Main \notin Node
  BY Constants DEF Inv, TypeOK, ResolutionTypeOK, GraphTypeOK
<1>14. unvisited # <<>> BY DEF NextUnvisited, End
<1>15. PICK n \in Node : n = Head(unvisited) BY <1>2, <1>14, HeadTailProperties
<1>1. /\ unvisited' = Tail(unvisited)
      /\ IF closed THEN closed' = FALSE /\ items' = <<>> ELSE UNCHANGED queueVars
      /\ IF status[n] = "waiting"
           THEN /\ active' = active \cup {n}
                /\ status' = [status EXCEPT ![n] = "executing"]
           ELSE UNCHANGED <<active, status>>
      /\ at' = [at EXCEPT ![Main] = "acquire"] /\ putting' = [putting EXCEPT ![Main] = <<n>>]
      /\ UNCHANGED <<stalledOn, visited, pending, hasItem>>
  BY <1>14, <1>15 DEF NextUnvisited, PutFirst, Await
<1>3. n \in ToSet(unvisited) /\ ToSet(unvisited) = ToSet(unvisited)' \cup {n}
  BY <1>1, <1>2, <1>14, <1>15, TailMembers
<1>4. n \notin visited /\ status[n] = "waiting" BY <1>3 DEF Inv, Books
<1>5. work = <<>> /\ ~closed' /\ items' = items
  BY <1>1 DEF Serving, MainHolds, ClosedIsIdle, queueVars
<1>6. active' = active \cup {n} /\ status' = [status EXCEPT ![n] = "executing"]
  BY <1>1, <1>4
<1>7. /\ at'[Main] = "acquire"
      /\ \A m \in Node : at'[m] = at[m] /\ (Puts(m)' <=> Puts(m))
      /\ \A x \in Task \ {Main} : ToPut(x)' = ToPut(x)
  <2>1. \A x \in Task \ {Main} : putting'[x] = putting[x] BY <1>1, <1>2
  <2> QED BY <1>1, <2>1, MainMoves
<1>8. Counted' = Counted
  <2>1. \A m \in visited : status'[m] = status[m] BY <1>4, <1>6, <1>2
  <2> QED BY <1>1, <2>1 DEF Counted, InFlight
<1>9. /\ Forward(ports)' /\ Short' /\ NodesHold' /\ DroppedHold'
      /\ UNCHANGED <<gen, ports, stitch>>
  <2>1. \A m \in Node : status'[m] # "error" BY <1>2, <1>6 DEF Serving, NodesHold
  <2> QED BY <1>1, <1>3, <1>6, <1>7, <1>8, <2>1, MainSpares
<1>10. MainHolds'
  <2>1. putting'[Main] = <<n>> BY <1>1, <1>2
  <2>2. Len(<<n>>) = 1 /\ Head(<<n>>) = n OBVIOUS
  <2>3. n \in active' \ visited' BY <1>1, <1>4, <1>6
  <2> QED BY <1>5, <1>7, <2>1, <2>2, <2>3 DEF MainHolds
<1>12. ClosedIsIdle' BY <1>5 DEF ClosedIsIdle
<1>13. Served' /\ LeavesStarve'
  <2>1. Served /\ LeavesStarve BY DEF Serving
  <2>2. ASSUME NEW m \in Node, Asked(m) PROVE Asked(m)'
    <3>1. m \notin ToPut(Main) BY DEF ToPut, Puts
    <3>2. /\ m \in ToSet(items) => Asked(m)'
          /\ m \in ToSet(work) => Asked(m)'
          /\ m \in Counted => Asked(m)'
      BY <1>5, <1>8 DEF Asked
    <3> QED BY <1>7, <2>2, <3>1, <3>2, AskedStays
  <2>3. Asked(n)'
    <3>1. putting'[Main] = <<n>> BY <1>1, <1>2
    <3>2. n \in ToSet(<<n>>) BY DEF ToSet
    <3>3. n \in ToPut(Main)' BY <1>7, <3>1, <3>2 DEF ToPut
    <3> QED BY <1>2, <3>3 DEF Asked
  <2>4. Found' \subseteq Found BY <1>1, <1>7 DEF Found
  <2> QED BY <1>3, <1>8, <1>9, <2>1, <2>2, <2>3, <2>4, ServedKept
<1> QED BY <1>9, <1>10, <1>12, <1>13 DEF Serving

\* The flow is done: a node that never ran would be asked for, and nobody is.
LEMMA DoneServes ==
    ASSUME Inv, Serving, loop = "running", unvisited = <<>>, at[Main] \in {"idle", "closed"}
    PROVE  \A n \in Node : gen[n] # None
<1> SUFFICES ASSUME NEW n \in Node, gen[n] = None PROVE FALSE OBVIOUS
<1>1. ToSet(unvisited) = {} BY DEF ToSet
<1>2. closed
  <2>1. at[Main] = "idle" => Node = {} BY <1>1 DEF Serving, MainHolds
  <2> QED BY <2>1 DEF Serving, MainHolds
<1>3. items = <<>> /\ work = <<>> /\ active = {} BY <1>2 DEF Serving, ClosedIsIdle, MainHolds
<1>4. Counted = {} /\ \A t \in Task : ~Puts(t) BY <1>2, StillOpen
<1>5. \A m : ~Asked(m)
  <2>1. ToSet(items) = {} /\ ToSet(work) = {} BY <1>3 DEF ToSet
  <2>2. \A t \in Task : ToPut(t) = {} BY <1>4 DEF ToPut, Puts
  <2> QED BY <1>4, <2>1, <2>2 DEF Asked
<1>6. n \in Found BY <1>1, <1>3 DEF Serving, NodesHold, Found
<1>7. PICK S \in SUBSET Node : n \in S /\ Starved(S) BY <1>6 DEF Serving, LeavesStarve
<1> QED BY <1>1, <1>5, <1>7 DEF Serving, Served

\* Main asks for an item, takes one, and leaves the queue with it.
LEMMA GetServes ==
    ASSUME Inv, Serving, loop = "running", FirstGet \/ GetBody \/ GotItem
    PROVE  Serving'
<1>1. /\ DOMAIN putting = Task /\ Main \in Task /\ Main \notin Node /\ Node \subseteq Task
      /\ items \in Seq(Node) /\ putting[Main] \in Seq(Node)
  BY Constants DEF Inv, TypeOK, ResolutionTypeOK
\* What is left of the three to show.
<1>2. ASSUME NEW place \in {"get", "took", "left", "closed", "wait"},
             at' = [at EXCEPT ![Main] = place], \A x \in Task \ {Main} : putting'[x] = putting[x],
             UNCHANGED <<streamVars, statusVars, unvisited, visited, active, pending, closed,
                         dataVars>>,
             ToPut(Main) = {},
             ToSet(items) \cup ToSet(work) \subseteq ToSet(items)' \cup ToSet(work)',
             work' # <<>> => place \in {"took", "left"},
             place \in {"took", "left"} => Len(work') = 1 /\ hasItem',
             place = "closed" => closed,
             closed => items' = items /\ (hasItem' => hasItem)
      PROVE  Serving'
  <2>1. /\ at'[Main] = place
        /\ \A n \in Node : at'[n] = at[n] /\ (Puts(n)' <=> Puts(n))
        /\ \A x \in Task \ {Main} : ToPut(x)' = ToPut(x)
    BY <1>2, MainMoves
  <2>2. Counted' = Counted BY <1>2 DEF Counted, InFlight, statusVars
  <2>3. /\ Forward(ports)' /\ Short' /\ NodesHold' /\ DroppedHold'
        /\ UNCHANGED <<gen, ports, stitch>>
    <3>1. \A n \in Node : status'[n] # "error" BY <1>2 DEF Serving, NodesHold, statusVars
    <3> QED BY <1>2, <2>1, <2>2, <3>1, MainSpares
  <2>4. MainHolds' BY <1>2, <2>1 DEF MainHolds, Puts
  <2>6. ClosedIsIdle' BY <1>2 DEF Serving, ClosedIsIdle
  <2>7. ASSUME NEW m \in Node, Asked(m) PROVE Asked(m)'
    <3>1. m \notin ToPut(Main) BY <1>2
    <3>2. /\ m \in ToSet(items) => Asked(m)'
          /\ m \in ToSet(work) => Asked(m)'
          /\ m \in Counted => Asked(m)'
      BY <1>2, <2>2 DEF Asked
    <3> QED BY <2>1, <2>7, <3>1, <3>2, AskedStays
  <2>8. Served' /\ LeavesStarve'
    <3>1. Served /\ LeavesStarve BY DEF Serving
    <3>2. Found' \subseteq Found BY <1>2, <2>1 DEF Found
    <3> QED BY <1>2, <2>2, <2>3, <2>7, <3>1, <3>2, ServedKept
  <2> QED BY <2>3, <2>4, <2>6, <2>8 DEF Serving
<1>3. CASE FirstGet
  <2>1. /\ at[Main] = "release" /\ putting' = [putting EXCEPT ![Main] = <<>>] /\ hasItem' = FALSE
        /\ at' = [at EXCEPT ![Main] = "get"]
        /\ UNCHANGED <<streamVars, statusVars, unvisited, visited, active, pending, queueVars,
                       dataVars, work>>
    BY <1>3 DEF FirstGet, Get, Await
  <2>2. work = <<>> /\ Len(putting[Main]) = 1
    BY <2>1 DEF Serving, MainHolds, Puts
  <2>3. ToPut(Main) = {} BY <1>1, <2>1, <2>2, LastPut
  <2>4. \A x \in Task \ {Main} : putting'[x] = putting[x] BY <1>1, <2>1
  <2> QED BY <1>2, <2>1, <2>2, <2>3, <2>4 DEF queueVars
<1>4. CASE GetBody
  <2>1. /\ at[Main] \in {"get", "wait"}
        /\ \/ /\ items # <<>> /\ items' = Tail(items) /\ work' = <<Head(items)>>
              /\ hasItem' = TRUE /\ at' = [at EXCEPT ![Main] = "took"]
           \/ /\ at' = [at EXCEPT ![Main] = "closed"] /\ closed
              /\ UNCHANGED <<items, work, hasItem>>
           \/ /\ at' = [at EXCEPT ![Main] = "wait"]
              /\ UNCHANGED <<items, work, hasItem>>
        /\ UNCHANGED <<streamVars, statusVars, unvisited, visited, active, pending, closed,
                       dataVars, putting>>
    BY <1>4 DEF GetBody, Await
  <2>2. work = <<>> /\ ToPut(Main) = {} BY <2>1 DEF Serving, MainHolds, ToPut, Puts
  <2>3. CASE items # <<>> /\ items' = Tail(items) /\ work' = <<Head(items)>>
              /\ hasItem' = TRUE /\ at' = [at EXCEPT ![Main] = "took"]
    <3>1. ToSet(items) = ToSet(Tail(items)) \cup {Head(items)} BY <1>1, <2>3, TailMembers
    <3>2. ToSet(<<Head(items)>>) = {Head(items)} /\ Len(<<Head(items)>>) = 1 BY DEF ToSet
    <3>3. ToSet(work) = {} BY <2>2 DEF ToSet
    <3>4. ToSet(items) \cup ToSet(work) \subseteq ToSet(items)' \cup ToSet(work)'
      BY <2>3, <3>1, <3>2, <3>3
    <3>5. ~closed BY <2>3 DEF Serving, ClosedIsIdle
    <3>6. work' # <<>> /\ Len(work') = 1 BY <2>3
    <3> QED BY <1>2, <2>1, <2>2, <2>3, <3>4, <3>5, <3>6
  <2>4. CASE UNCHANGED <<items, work, hasItem>>
    <3>1. work' # <<Head(items)>>
      <4>1. <<Head(items)>> # <<>> OBVIOUS
      <4> QED BY <2>2, <2>4, <4>1
    <3>2. \/ at' = [at EXCEPT ![Main] = "closed"] /\ closed
          \/ at' = [at EXCEPT ![Main] = "wait"]
      BY <2>1, <3>1
    <3> QED BY <1>2, <2>1, <2>2, <2>4, <3>2
  <2> QED BY <2>1, <2>3, <2>4
<1>5. CASE GotItem
  <2>1. /\ at[Main] = "took" /\ at' = [at EXCEPT ![Main] = "left"]
        /\ UNCHANGED <<streamVars, statusVars, bookVars, queueVars, dataVars, putting, work>>
    BY <1>5 DEF GotItem, Await
  <2>2. ToPut(Main) = {} /\ Len(work) = 1 /\ hasItem
    BY <2>1 DEF Serving, MainHolds, ToPut, Puts
  <2> QED BY <1>2, <2>1, <2>2 DEF queueVars, bookVars
<1> QED BY <1>3, <1>4, <1>5

\* The elements before the first that passes the test do not pass it.
LEMMA NoneBefore ==
    ASSUME NEW list \in Seq(Node), NEW i \in 1..Len(list),
           LET k == SelectInSeq(list, Resumable) IN k = 0 \/ i < k
    PROVE  ~Resumable(list[i])
<1> DEFINE I == {j \in 1..Len(list) : Resumable(list[j])}
<1>1. SelectInSeq(list, Resumable) = IF I # {} THEN Min(I) ELSE 0 BY DEF SelectInSeq
<1>2. I \in SUBSET Nat BY LenProperties
<1>3. SUFFICES ASSUME i \in I PROVE FALSE OBVIOUS
<1>4. Min(I) \in I /\ Min(I) <= i
  <2> HIDE DEF I
  <2> QED BY <1>2, <1>3, MinIsLeast
<1>5. Min(I) \in Nat /\ i \in Nat /\ Min(I) # 0 BY <1>2, <1>4, LenProperties
<1> QED BY <1>1, <1>3, <1>4, <1>5

\* Main looks at a list of nodes with one of each starved set whose turn it is, unless one of
\* them computes: each of the list is in the queue, at work, resumed, or to be looked at next.
LEMMA LookAtServes ==
    ASSUME Inv, Serving, loop = "running", at[Main] \in {"left", "resume"},
           NEW list \in Seq(Node), LookAt(list),
           UNCHANGED <<streamVars, queueVars, dataVars, putting>>,
           \A S \in SUBSET Node :
              Starved(S) /\ S \cap Counted = {} /\ (\E n \in S : n \in ToSet(work))
                 => \E n \in S : n \in ToSet(list),
           \A n \in ToSet(list) : gen[n] = None =>
              \E S \in SUBSET Node : n \in S /\ Starved(S) /\ Knot(S)
    PROVE  Serving'
<1> DEFINE k == SelectInSeq(list, Resumable)
           looked == IF k = 0 THEN list ELSE SubSeq(list, 1, k)
           N == ToSet(looked)
           st == Looked(N)
           x == list[k]
           rest == SubSeq(list, k + 1, Len(list))
<1>1. /\ unvisited' = Without(unvisited, N) /\ visited' = visited \cup N
      /\ UNCHANGED stalledOn
      /\ IF k = 0
           THEN status' = st /\ work' = <<>> /\ Get /\ UNCHANGED <<active, pending>>
           ELSE status' = [st EXCEPT ![x] = "queued"] /\ Resume(x, st[x], rest)
  BY DEF LookAt, Looked
<1>2. k = 0 \/ (k \in 1..Len(list) /\ Resumable(x)) BY FirstResumable
<1>3. \A i \in 1..Len(list) : (k = 0 \/ i < k) => ~Resumable(list[i]) BY NoneBefore
<1>4. Len(list) \in Nat /\ DOMAIN list = 1..Len(list) /\ \A i \in 1..Len(list) : list[i] \in Node
  BY LenProperties, ElementOfSeq
<1> HIDE DEF k
\* Where each element of the list goes.
<1>5. /\ N \subseteq ToSet(list)
      /\ \A i \in 1..Len(list) : k = 0 \/ i <= k => list[i] \in N
      /\ k # 0 => \A i \in 1..Len(list) : i > k => list[i] \in ToSet(rest)
      /\ k # 0 => ToSet(rest) \subseteq ToSet(list)
  <2>1. CASE k = 0
    <3>1. looked = list BY <2>1
    <3> HIDE DEF looked
    <3>2. \A i \in 1..Len(list) : list[i] \in ToSet(list) BY <1>4, Zenon DEF ToSet
    <3> QED BY <2>1, <3>1, <3>2
  <2>2. CASE k # 0
    <3> DEFINE s == SubSeq(list, 1, k)  L == Len(list)
    <3>1. k \in 1..L BY <1>2, <2>2
    <3>2. /\ DOMAIN s = 1..k /\ \A i \in 1..k : s[i] = list[i]
      <4>1. \A i \in 1..k : list[i] \in Node BY <1>4, <3>1
      <4>2. 1 \in Int /\ k \in Int /\ 1 <= k /\ k - 1 + 1 = k BY <1>4, <3>1
      <4>3. /\ SubSeq(list, 1, k) \in Seq(Node)
            /\ Len(SubSeq(list, 1, k)) = IF 1 <= k THEN k - 1 + 1 ELSE 0
            /\ \A i \in 1..k - 1 + 1 : SubSeq(list, 1, k)[i] = list[1 + i - 1]
        BY <4>1, <4>2, SubSeqProperties
      <4>4. \A i \in 1..k : 1 + i - 1 = i BY <4>2
      <4>5. s \in Seq(Node) /\ Len(s) = k /\ \A i \in 1..k : s[i] = list[i]
        BY <4>2, <4>3, <4>4
      <4> HIDE DEF s
      <4> QED BY <4>5, LenProperties
    <3>3. /\ DOMAIN rest = 1..(L - k) /\ \A i \in 1..(L - k) : rest[i] = list[k + i]
      <4>0. k \in Nat /\ k <= L /\ L \in Nat BY <1>4, <3>1
      <4>1. \A i \in (k + 1)..L : list[i] \in Node BY <1>4, <4>0
      <4>2. k + 1 \in Int /\ L \in Int BY <4>0
      <4>3. /\ SubSeq(list, k + 1, L) \in Seq(Node)
            /\ Len(SubSeq(list, k + 1, L)) = IF k + 1 <= L THEN L - (k + 1) + 1 ELSE 0
            /\ \A i \in 1..L - (k + 1) + 1 : SubSeq(list, k + 1, L)[i] = list[(k + 1) + i - 1]
        <5> HIDE DEF L
        <5> QED BY <4>1, <4>2, SubSeqProperties
      <4>4. /\ L - (k + 1) + 1 = L - k /\ (~(k + 1 <= L) => L - k = 0)
            /\ \A i \in 1..(L - k) : (k + 1) + i - 1 = k + i
        <5> HIDE DEF L
        <5> QED BY <4>0
      <4>5. rest \in Seq(Node) /\ Len(rest) = L - k
            /\ \A i \in 1..(L - k) : rest[i] = list[k + i]
        <5>1. rest = SubSeq(list, k + 1, L) OBVIOUS
        <5> HIDE DEF rest, L
        <5> QED BY <4>3, <4>4, <5>1
      <4> HIDE DEF rest, L
      <4> QED BY <4>5, LenProperties
    <3>4. looked = s BY <2>2
    <3> HIDE DEF s, looked, rest
    <3>5. N \subseteq ToSet(list)
      <4>1. \A i \in 1..k : i \in DOMAIN list BY <1>4, <3>1
      <4> QED BY <3>2, <3>4, <4>1, Zenon DEF ToSet
    <3>6. ASSUME NEW i \in 1..L, i <= k PROVE list[i] \in N
      <4>1. i \in 1..k BY <1>4, <3>1, <3>6
      <4> QED BY <3>2, <3>4, <4>1, Zenon DEF ToSet
    <3>7. ASSUME NEW i \in 1..L, i > k PROVE list[i] \in ToSet(rest)
      <4>1. i - k \in 1..(L - k) /\ k + (i - k) = i BY <1>4, <3>1, <3>7
      <4>2. i - k \in DOMAIN rest /\ rest[i - k] = list[i] BY <3>3, <4>1
      <4> QED BY <4>2, Zenon DEF ToSet
    <3>8. ToSet(rest) \subseteq ToSet(list)
      <4>1. \A i \in 1..(L - k) : k + i \in DOMAIN list BY <1>4, <3>1
      <4> QED BY <3>3, <4>1, Zenon DEF ToSet
    <3> QED BY <2>2, <3>5, <3>6, <3>7, <3>8
  <2> QED BY <2>1, <2>2
<1>6. N \in SUBSET Node /\ (k # 0 => x \in N /\ x \in Node)
  <2>1. ToSet(list) \subseteq Node BY QueueMembers
  <2>2. k # 0 => k \in 1..Len(list) /\ k <= k BY <1>2, <1>4
  <2>3. k # 0 => x \in N BY <1>5, <2>2
  <2> HIDE DEF N, x
  <2> QED BY <1>5, <2>1, <2>3
<1> HIDE DEF N, looked, rest
<1>7. Main \in Task /\ Main \notin Node /\ Books /\ TypeOK BY Constants DEF Inv
<1>8. /\ DOMAIN status = Node /\ visited \subseteq Node /\ unvisited \in Seq(Node)
      /\ ToSet(unvisited) \subseteq Node
  BY QueueMembers DEF Inv, TypeOK, ResolutionTypeOK, GraphTypeOK
<1>9. /\ \A n \in visited \cup N : st[n] \in {"queued", "executing"} => n \in visited
      /\ \A n \in visited : st[n] = status[n]
      /\ st \in [Node -> {"waiting", "queued", "executing", "stalled", "error"}]
  BY <1>6, <1>7, LookedMoves
<1>10. \A n \in Node : st[n] = "waiting" \/ st[n] = status[n] BY DEF Looked
<1> HIDE DEF st
<1>11. PICK place \in {"get", "resume"} :
          /\ at' = [at EXCEPT ![Main] = place]
          /\ place = "get" => work' = <<>>
          /\ place = "resume" => hasItem' = hasItem
  BY <1>1 DEF Get, Resume, Await
<1>12. /\ at'[Main] = place
       /\ \A n \in Node : at'[n] = at[n] /\ (Puts(n)' <=> Puts(n))
       /\ \A y \in Task \ {Main} : ToPut(y)' = ToPut(y)
  BY <1>11, MainMoves
<1>13. hasItem /\ ~closed BY DEF Serving, MainHolds, ClosedIsIdle
<1>14. \A n \in Node : status'[n] = st[n] \/ (k # 0 /\ n = x /\ status'[n] = "queued")
  BY <1>1, <1>6, <1>9
<1>15. ASSUME NEW n \in Counted PROVE n \in Counted'
  <2>1. n \in visited' /\ st[n] = status[n] /\ n \in Node BY <1>1, <1>8, <1>9 DEF Counted
  <2> QED BY <1>14, <2>1 DEF Counted, InFlight
<1>16. /\ Forward(ports)' /\ Short' /\ NodesHold' /\ DroppedHold'
       /\ UNCHANGED <<gen, ports, stitch>>
  <2>1. \A n \in Node : status'[n] # "error"
    BY <1>10, <1>14 DEF Serving, NodesHold
  <2>2. active \subseteq active' BY <1>1 DEF Resume
  <2>3. visited \cup ToSet(unvisited) \subseteq visited' \cup ToSet(unvisited')
    BY <1>1, <1>8, WithoutOnly
  <2> QED BY <1>12, <1>15, <2>1, <2>2, <2>3, MainSpares
<1>17. MainHolds' BY <1>11, <1>12, <1>13 DEF MainHolds, Puts
<1>19. ClosedIsIdle' BY <1>13 DEF ClosedIsIdle, queueVars
<1>20. ASSUME NEW i \in 1..Len(list) PROVE Asked(list[i])'
  <2> DEFINE n == list[i]
  <2>1. PICK m \in Node : m = n BY <1>4
  <2>2. CASE k = 0 \/ i < k
    <3>1. ~Resumable(m) /\ m \in N
      <4>1. k # 0 => i <= k BY <1>2, <1>4, <2>2
      <4> QED BY <1>3, <1>5, <2>1, <2>2, <4>1
    <3>2. m \in ToSet(items) \/ (~Unregistered(m) /\ status[m] \notin {"waiting", "stalled"})
      BY <3>1 DEF Resumable
    <3>3. CASE m \in ToSet(items) BY <2>1, <3>3 DEF Asked, queueVars
    <3>4. CASE ~Unregistered(m) /\ status[m] \notin {"waiting", "stalled"}
      <4>1. m \in visited BY <1>7, <3>4 DEF Unregistered, Books
      <4>2. InFlight(m)
        <5>1. status[m] \in {"waiting", "queued", "executing", "stalled", "error"}
          BY DEF Inv, TypeOK, ResolutionTypeOK, GraphTypeOK
        <5> QED BY <3>4, <5>1 DEF Serving, NodesHold, InFlight
      <4>3. m \in Counted BY <4>1, <4>2 DEF Counted
      <4> QED BY <1>15, <2>1, <4>3 DEF Asked
    <3> QED BY <3>2, <3>3, <3>4
  <2>3. CASE k # 0 /\ i = k
    <3>1. status' = [st EXCEPT ![x] = "queued"] BY <1>1, <2>3
    <3>2. m \in visited' /\ status'[m] = "queued" BY <1>1, <1>6, <1>9, <2>1, <2>3, <3>1
    <3>3. m \in Counted' BY <3>2 DEF Counted, InFlight
    <3> QED BY <2>1, <3>3 DEF Asked
  <2>4. CASE k # 0 /\ i > k
    <3>1. work' = rest BY <1>1, <2>4 DEF Resume
    <3>2. m \in ToSet(work)' BY <1>5, <2>1, <2>4, <3>1
    <3> QED BY <2>1, <3>2 DEF Asked
  <2>5. i \in Nat /\ (k = 0 \/ k \in Nat) BY <1>2, <1>4
  <2> QED BY <2>2, <2>3, <2>4, <2>5
<1>21. ASSUME NEW m \in ToSet(list) PROVE Asked(m)'
  <2>1. PICK i \in 1..Len(list) : list[i] = m BY <1>4, Zenon DEF ToSet
  <2>2. Asked(list[i])' BY <1>20
  <2> QED BY <2>1, <2>2
<1>22. Served' /\ LeavesStarve'
  <2>1. Served /\ LeavesStarve BY DEF Serving
  <2>2. ASSUME NEW S \in SUBSET Node, Starved(S), NEW n \in S, Asked(n)
        PROVE  \E m \in S : Asked(m)'
    <3>1. CASE S \cap Counted # {}
      <4>1. PICK m \in S : m \in Counted BY <3>1
      <4> QED BY <1>15, <4>1 DEF Asked
    <3>2. CASE S \cap Counted = {} /\ n \in ToSet(work)
      <4>1. PICK m \in S : m \in ToSet(list) BY <2>2, <3>2
      <4> QED BY <1>21, <4>1
    <3>3. CASE n \notin ToSet(work)
      <4>1. n \notin ToPut(Main) BY DEF ToPut, Puts
      <4>2. /\ n \in ToSet(items) => Asked(n)'
            /\ n \in Counted => Asked(n)'
        BY <1>15 DEF Asked, queueVars
      <4>3. Asked(n)' BY <1>12, <2>2, <3>3, <4>1, <4>2, AskedStays
      <4> QED BY <4>3
    <3> QED BY <3>1, <3>2, <3>3
  <2>3. ASSUME NEW n \in Node, n \in ToSet(unvisited) PROVE n \in ToSet(unvisited)' \/ Asked(n)'
    <3>1. CASE n \in N BY <1>5, <1>21, <3>1
    <3>2. CASE n \notin N BY <1>1, <1>8, <2>3, <3>2, WithoutOnly
    <3> QED BY <3>1, <3>2
  <2>4. Found' \subseteq Found \cup ToSet(list)
    <3>1. place = "resume" => ToSet(work)' \subseteq ToSet(list)
      <4>1. CASE k = 0
        <5>1. work' = <<>> BY <1>1, <4>1
        <5>2. ToSet(work') = {} BY <5>1 DEF ToSet
        <5> QED BY <5>2
      <4>2. CASE k # 0 BY <1>1, <1>5, <4>2 DEF Resume
      <4> QED BY <4>1, <4>2
    <3> QED BY <1>1, <1>5, <1>12, <3>1 DEF Found
  <2>5. \A n \in Found' \ Found : gen[n] = None =>
           \E S \in SUBSET Node : n \in S /\ Starved(S) /\ Knot(S)
    BY <2>4
  <2> QED BY <1>15, <1>16, <2>1, <2>2, <2>3, <2>5, ServedKept
<1> QED BY <1>16, <1>17, <1>19, <1>22 DEF Serving

\* The members of a leaf that never ran wait for each other only: a leaf depends on no other
\* component, and its members reach each other.
LEMMA KnotOfLeaf ==
    ASSUME Inv, Serving, loop = "running", NEW T \in Leaves, NEW n \in T, gen[n] = None
    PROVE  \E S \in SUBSET Node : n \in S /\ Starved(S) /\ Knot(S)
<1> DEFINE R(m) == Reach(Edges, m)
<1>1. PICK m \in Node : T = Scc(Edges, m) BY DEF Leaves
<1>2. Edges \in SUBSET DOMAIN ports /\ \A p \in Edges : ports[p].source \in Node
  BY Types DEF Edges, Inv
<1>3. \A a \in Node : /\ R(a) \in SUBSET Node /\ a \in R(a)
                      /\ \A p \in Edges : ports[p].node \in R(a) => ports[p].source \in R(a)
  BY <1>2, ReachClosed
<1>4. T \in SUBSET Node /\ \A a \in T : a \in R(m) /\ m \in R(a)
  BY <1>1 DEF Scc
<1>5. ASSUME NEW a \in T, NEW b \in T PROVE b \in R(a)
  <2>1. R(a) \in SUBSET Node /\ m \in R(a) /\ b \in R(m) /\ a \in Node BY <1>3, <1>4
  <2>2. \A p \in Edges : ports[p].node \in R(a) => ports[p].source \in R(a) BY <1>3, <2>1
  <2>3. R(m) \in SUBSET R(a)
    <3> DEFINE Z == R(a)
    <3>1. Z \in SUBSET Node /\ m \in Z
          /\ \A p \in Edges : ports[p].node \in Z => ports[p].source \in Z
      BY <2>1, <2>2
    <3> HIDE DEF Z
    <3>2. Reach(Edges, m) \in SUBSET Z BY <1>2, <3>1, ReachWithin
    <3> QED BY <3>2 DEF Z
  <2> QED BY <2>1, <2>3
\* The generator among them feeds no whole to another.
<1>6. ASSUME NEW p \in DOMAIN ports, ports[p].node \in T, ports[p].source \in T \cap Generator,
             ~ports[p].stream
      PROVE  FALSE
  <2> DEFINE a == ports[p].source
  <2>1. PICK Z \in SUBSET Node :
           /\ a \in Z /\ ports[p].node \notin Z
           /\ \A q \in DOMAIN ports : ports[q].node \in Z => ports[q].source \in Z
    BY <1>6 DEF Serving, Forward
  <2>2. \A q \in Edges : ports[q].node \in Z => ports[q].source \in Z BY <1>2, <2>1
  <2>3. a \in Z BY <2>1
  <2>4. ports[p].node \in R(a) BY <1>5, <1>6
  <2> HIDE DEF a
  <2>5. R(a) \in SUBSET Z BY <1>2, <2>2, <2>3, ReachWithin
  <2> QED BY <2>1, <2>4, <2>5
<1> HIDE DEF R
<1> DEFINE S == {a \in T : gen[a] = None}
<1>7. Knot(S) BY <1>6 DEF Knot
<1>8. ASSUME NEW a \in S, a \notin Counted, NEW p \in Inputs(a), Stale(p)
      PROVE  ports[p].source \in S
  <2>1. p \in DOMAIN ports /\ ports[p].node = a /\ a \in Node /\ gen[a] = None /\ a \in T
    BY <1>4, <1>8 DEF Inputs
  <2>2. status[a] # "stalled"
    <3>1. status[a] = "stalled" => a \in visited BY <2>1 DEF Inv, Books
    <3> QED BY <1>8, <3>1 DEF Counted, InFlight
  <2>3. defaulted[a] = {} BY <1>8, <2>1 DEF Serving, NodesHold
  <2>4. p \in Edges BY <1>8, <2>1, <2>2, <2>3 DEF Edges
  <2>5. ports[p].source \in T BY <2>1, <2>4 DEF Leaves, DependenciesOf
  <2>6. ports[p].source \in Generator => ports[p].stream BY <1>6, <2>1, <2>5
  <2>7. gen[ports[p].source] = None BY <1>8, <2>1, <2>6, StaleMeans DEF Inv, Serving
  <2> QED BY <2>5, <2>7
<1>9. Starved(S) BY <1>8 DEF Starved
<1>10. S \in SUBSET Node /\ n \in S BY <1>4
<1> QED BY <1>7, <1>9, <1>10

\* Main finds the nodes to run first: of a starved set that the solution is for it takes one,
\* and each that it takes is in a leaf.
LEMMA SolveServes ==
    ASSUME Inv, Serving, loop = "running", Solve, UNCHANGED chunkVars, loop' = "running"
    PROVE  Serving'
<1> DEFINE leaves == LeafSupernodes(Head(work))
<1>1. /\ at[Main] = "left" /\ UNCHANGED <<streamVars, queueVars, dataVars, putting, chunkVars>>
      /\ \E pick \in [ToSet(leaves) -> Node] :
            /\ \A S \in ToSet(leaves) : pick[S] \in Candidates(S)
            /\ LookAt([i \in DOMAIN leaves |-> pick[leaves[i]]])
  BY DEF Solve, End
<1>2. PICK pick \in [ToSet(leaves) -> Node] :
         /\ \A S \in ToSet(leaves) : pick[S] \in Candidates(S)
         /\ LookAt([i \in DOMAIN leaves |-> pick[leaves[i]]])
  BY <1>1
<1>3. work \in Seq(Node) /\ Len(work) = 1 /\ work # <<>> /\ ports \in Seq(Port) /\ TypeOK
  BY <1>1, Constants, Types DEF Serving, MainHolds, Inv, Marks, Mark, TypeOK, ResolutionTypeOK
<1>4. Head(work) \in Node /\ ToSet(work) = {Head(work)}
  <2> DEFINE h == Head(work)
  <2>1. h \in Node /\ h = work[1] /\ DOMAIN work = 1..1
    BY <1>3, HeadTailProperties, LenProperties
  <2> HIDE DEF h
  <2>2. \A i \in 1..1 : i = 1 OBVIOUS
  <2>3. 1 \in 1..1 OBVIOUS
  <2>4. ToSet(work) = {h} BY <2>1, <2>2, <2>3, Zenon DEF ToSet
  <2> QED BY <2>1, <2>4 DEF h
<1>5. leaves \in Seq(Leaves) BY <1>3, <1>4, LeavesAreLeaves
<1> DEFINE list == [i \in DOMAIN leaves |-> pick[leaves[i]]]
<1>6. LookAt(list) BY <1>2
<1>7. Len(leaves) \in Nat /\ DOMAIN leaves = 1..Len(leaves)
      /\ \A i \in DOMAIN leaves : leaves[i] \in ToSet(leaves) /\ leaves[i] \in Leaves
  <2> HIDE DEF leaves
  <2>1. Len(leaves) \in Nat /\ DOMAIN leaves = 1..Len(leaves) BY <1>5, LenProperties
  <2>2. \A i \in DOMAIN leaves : leaves[i] \in ToSet(leaves) BY Zenon DEF ToSet
  <2>3. \A i \in DOMAIN leaves : leaves[i] \in Leaves BY <1>5, <2>1, ElementOfSeq
  <2> QED BY <2>1, <2>2, <2>3
<1>8. list \in Seq(Node)
  <2> HIDE DEF leaves
  <2> DEFINE L == Len(leaves)
  <2>1. L \in Nat /\ list \in [1..L -> Node] BY <1>7
  <2> HIDE DEF L, list
  <2> QED BY <2>1, SeqDef
<1>9. ASSUME NEW S \in SUBSET Node, Starved(S), S \cap Counted = {},
             \E n \in S : n \in ToSet(work)
      PROVE  \E n \in S : n \in ToSet(list)
  <2>1. Head(work) \in S BY <1>4, <1>9
  <2>2. \A p \in Edges : ports[p].node \in S => ports[p].source \in S
    BY <1>9 DEF Starved, Edges, Inputs
  <2>3. leaves \in Seq(SUBSET S) \ {<<>>} BY <1>3, <2>1, <2>2, LeavesWithin
  <2> HIDE DEF leaves
  <2>4. Len(leaves) # 0 BY <2>3, EmptySeq
  <2>5. 1 \in DOMAIN leaves /\ 1 \in 1..Len(leaves) BY <1>7, <2>4
  <2>6. leaves[1] \in SUBSET S BY <2>3, <2>5, ElementOfSeq
  <2>7. pick[leaves[1]] \in leaves[1] BY <1>2, <1>7, <2>5 DEF Candidates
  <2>8. 1 \in DOMAIN list /\ list[1] = pick[leaves[1]] BY <2>5
  <2> HIDE DEF list
  <2>9. list[1] \in ToSet(list) BY <2>8, Zenon DEF ToSet
  <2> QED BY <2>6, <2>7, <2>8, <2>9
<1>10. ASSUME NEW n \in ToSet(list), gen[n] = None
       PROVE  \E S \in SUBSET Node : n \in S /\ Starved(S) /\ Knot(S)
  <2> HIDE DEF leaves
  <2>1. PICK i \in DOMAIN leaves : n = pick[leaves[i]]
    <3>1. PICK i \in DOMAIN list : n = list[i] BY Zenon DEF ToSet
    <3> QED BY <3>1
  <2>2. n \in leaves[i] /\ leaves[i] \in Leaves BY <1>2, <1>7, <2>1 DEF Candidates
  <2> HIDE DEF list
  <2> QED BY <1>10, <2>2, KnotOfLeaf
<1> HIDE DEF list
<1> QED BY <1>1, <1>6, <1>8, <1>9, <1>10, LookAtServes

\* Main keeps the nodes served.
LEMMA MainServes ==
    ASSUME Inv, Serving, loop = "running", MainTurn, UNCHANGED chunkVars, loop' = "running"
    PROVE  Serving'
<1>1. CASE Start \/ QueueClosed
  BY <1>1, NextUnvisitedServes DEF Start, QueueClosed
<1>2. CASE FirstGet \/ GetBody \/ GotItem BY <1>2, GetServes
<1>3. CASE Solve BY <1>3, SolveServes
<1>4. CASE NextLeaf
  <2>1. work \in Seq(Node) BY DEF Inv, TypeOK, ResolutionTypeOK
  <2>2. /\ at[Main] = "resume" /\ LookAt(work)
        /\ UNCHANGED <<streamVars, queueVars, dataVars, putting>>
    BY <1>4 DEF NextLeaf
  <2>3. \A n \in ToSet(work) : gen[n] = None =>
           \E S \in SUBSET Node : n \in S /\ Starved(S) /\ Knot(S)
    BY <2>2 DEF Serving, LeavesStarve, Found
  <2> QED BY <2>1, <2>2, <2>3, LookAtServes
<1> QED BY <1>1, <1>2, <1>3, <1>4 DEF MainTurn

\* The flow is done only by a step of Main that finds nobody unvisited, and that leaves the
\* data alone.
LEMMA DoneMeans ==
    ASSUME Inv, loop = "running", loop' = "done", Next
    PROVE  /\ unvisited = <<>> /\ at[Main] \in {"idle", "closed"} /\ gen' = gen
<1>1. CASE Dispatch BY <1>1 DEF Dispatch
<1>2. CASE MainTurn
  <2>1. CASE Start \/ QueueClosed
    BY <2>1 DEF Start, QueueClosed, NextUnvisited, dataVars
  <2>2. CASE FirstGet \/ GetBody \/ GotItem \/ NextLeaf
    BY <2>2 DEF FirstGet, GetBody, GotItem, NextLeaf
  <2>3. CASE Solve BY <2>3 DEF Solve, End
  <2> QED BY <1>2, <2>1, <2>2, <2>3 DEF MainTurn
<1>3. ASSUME NEW t \in Task, Turn(t) PROVE FALSE
  BY <1>3 DEF Turn, PutBody, PutFails, End, PutNotified, PutNext
<1>4. ASSUME NEW n \in Node, NodeTurn(n) PROVE FALSE
  <2>1. CASE Gather(n) \/ CountDown(n) \/ CalledAfterLatches(n) \/ CodeAwaits(n)
              \/ CodeReturns(n) \/ PutsDone(n)
    BY <2>1 DEF Gather, CountDown, CalledAfterLatches, CodeAwaits, CodeReturns, PutsDone
  <2>2. CASE CodeRaises(n) BY <2>2 DEF CodeRaises, End
  <2>3. CASE Push(n) BY <2>3 DEF Push, Announce, AnnounceNobody, StopAtLimit, End
  <2> QED BY <1>4, <2>1, <2>2, <2>3 DEF NodeTurn
<1>5. ASSUME NEW n \in Node, ConsumerTurn(n) PROVE FALSE
  BY <1>5 DEF ConsumerTurn, Read, ReadEnd, Stall, Cancel
<1>6. ASSUME NEW n \in Node, GeneratorTurn(n) PROVE FALSE
  <2>1. CASE Round(n) \/ ChunkPutsDone(n) \/ WaitForNextChunk(n) \/ Ends(n)
    BY <2>1 DEF Round, ChunkPutsDone, WaitForNextChunk, Ends
  <2>2. CASE CancelEscapes(n) BY <2>2 DEF CancelEscapes
  <2>3. CASE CodeYields(n) \/ PushWhole(n)
    BY <2>3 DEF CodeYields, PushWhole, Announce, AnnounceNobody, StopAtLimit, End
  <2> QED BY <1>6, <2>1, <2>2, <2>3 DEF GeneratorTurn
<1>7. ASSUME NEW n \in Node, Wake(n) PROVE FALSE BY <1>7 DEF Wake
<1> QED BY <1>1, <1>2, <1>3, <1>4, <1>5, <1>6, <1>7 DEF Next, LoopStep, Arrives

\* Nothing happens any more when the loop has ended.
LEMMA EndedStays ==
    ASSUME Inv, loop # "running", Next
    PROVE  FALSE
<1>1. running = NoTask /\ NoTask \notin Task /\ Node \subseteq Task /\ Main \in Task
  BY Constants DEF Inv, Placed
<1>2. \A t \in Task : running # t BY <1>1
<1>3. ~Dispatch BY DEF Dispatch
<1>4. ~MainTurn
  BY <1>1, <1>2 DEF MainTurn, Start, FirstGet, GetBody, GotItem, Solve, NextLeaf, QueueClosed
<1>5. \A t \in Task : ~Turn(t) BY <1>2 DEF Turn, PutBody, PutNotified, PutNext
<1>6. \A n \in Node : ~NodeTurn(n)
  BY <1>1, <1>2 DEF NodeTurn, Gather, CountDown, CalledAfterLatches, CodeAwaits, CodeReturns,
     CodeRaises, Push, PutsDone, InCode
<1>7. \A n \in Node : ~ConsumerTurn(n)
  BY <1>1, <1>2 DEF ConsumerTurn, Asks, Cancel, InCode
<1>8. \A n \in Node : ~GeneratorTurn(n)
  BY <1>1, <1>2 DEF GeneratorTurn, Round, CodeYields, ChunkPutsDone, WaitForNextChunk,
     CancelEscapes, Ends, PushWhole, InCode
<1>9. \A n \in Node : ~Wake(n) BY DEF Wake
<1> QED BY <1>3, <1>4, <1>5, <1>6, <1>7, <1>8, <1>9 DEF Next, LoopStep, Arrives
\* In the beginning all are still to be visited.
LEMMA InitServes ==
    ASSUME \A f \in Flows : Forward(f), Init
    PROVE  Serving
<1> USE DEF Init, ResolutionInit, StreamInit, GraphInit
<1>1. Node \subseteq Task /\ Main \in Task BY Constants
<1>2. Forward(ports) /\ Short BY DEF Short
<1>3. unvisited \in Seq(Node) /\ ToSet(unvisited) = Node BY FlowAssumption
<1>4. MainHolds BY <1>1, <1>3 DEF MainHolds, Puts
<1>5. NodesHold BY <1>1, <1>3 DEF NodesHold, Puts, Nothing
<1>6. ClosedIsIdle /\ DroppedHold BY DEF ClosedIsIdle, DroppedHold
<1>7. Served BY <1>3 DEF Served
<1>8. LeavesStarve BY <1>1 DEF LeavesStarve, Found
<1> QED BY <1>2, <1>4, <1>5, <1>6, <1>7, <1>8 DEF Serving

\* Every step keeps the nodes served.
LEMMA NextServes ==
    ASSUME Inv, Serving, loop = "running", Next, loop' = "running"
    PROVE  Serving'
<1>1. CASE Dispatch /\ UNCHANGED chunkVars BY <1>1, ResumedServes
<1>2. CASE MainTurn /\ UNCHANGED chunkVars BY <1>2, MainServes
<1>3. ASSUME NEW t \in Task, Turn(t), UNCHANGED chunkVars PROVE Serving' BY <1>3, TurnServes
<1>4. ASSUME NEW n \in Node, NodeTurn(n), UNCHANGED chunkVars PROVE Serving'
  <2>1. CASE Gather(n) \/ CountDown(n) \/ CalledAfterLatches(n) \/ CodeAwaits(n)
              \/ CodeReturns(n)
    BY <2>1, ComputingServes
  <2>2. CASE CodeRaises(n) BY <2>2 DEF CodeRaises, End
  <2>3. CASE Push(n) BY <2>3, PushServes
  <2>4. CASE PutsDone(n) BY <2>4, PutsDoneServes
  <2> QED BY <1>4, <2>1, <2>2, <2>3, <2>4 DEF NodeTurn
<1>5. ASSUME NEW n \in Node, ConsumerTurn(n) PROVE Serving' BY <1>5, ConsumerServes
<1>6. ASSUME NEW n \in Node, GeneratorTurn(n) PROVE Serving'
  <2>1. CASE Round(n) \/ ChunkPutsDone(n) \/ CancelEscapes(n) \/ Ends(n)
    BY <2>1, GeneratorMovesServe
  <2>2. CASE CodeYields(n) \/ PushWhole(n) BY <2>2, PushServes
  <2>3. CASE WaitForNextChunk(n) BY <2>3, PutsDoneServes
  <2> QED BY <1>6, <2>1, <2>2, <2>3 DEF GeneratorTurn
<1>7. ASSUME NEW n \in Node, Wake(n), UNCHANGED chunkVars PROVE Serving'
  BY <1>7, ResumedServes
<1> QED BY <1>1, <1>2, <1>3, <1>4, <1>5, <1>6, <1>7 DEF Next, LoopStep, Arrives

\* A flow in which nobody takes the whole of a generator that it feeds is done only when every
\* node of it has computed.
THEOREM EveryNodeHasRun ==
    ASSUME \A f \in Flows : Forward(f)
    PROVE  Spec => []EveryNodeRuns
<1> DEFINE Good == Inv /\ (loop = "running" => Serving) /\ EveryNodeRuns
<1>1. Init => Good
  <2> SUFFICES ASSUME Init PROVE Good OBVIOUS
  <2>1. loop = "running" BY DEF Init, ResolutionInit
  <2> QED BY <2>1, InitInv, InitServes DEF EveryNodeRuns
<1>2. Good /\ [Next]_vars => Good'
  <2> SUFFICES ASSUME Good, [Next]_vars PROVE Good' OBVIOUS
  <2>1. Inv' BY NextKeeps
  <2>2. CASE Next
    <3>1. loop = "running" BY <2>2, EndedStays
    <3>2. loop' = "running" => Serving' BY <2>2, <3>1, NextServes
    <3>3. ASSUME loop' = "done" PROVE \A n \in Node : gen'[n] # None
      <4>1. unvisited = <<>> /\ at[Main] \in {"idle", "closed"} /\ gen' = gen
        BY <2>2, <3>1, <3>3, DoneMeans
      <4> QED BY <3>1, <4>1, DoneServes
    <3> QED BY <2>1, <3>2, <3>3 DEF EveryNodeRuns
  <2>3. CASE UNCHANGED vars
    <3>1. /\ UNCHANGED <<ports, gen, unvisited, visited, active, pending, hasItem, items, closed,
                         work, dropped, status, defaulted, reading, stitch, at, putting, loop>>
      BY <2>3 DEF vars, resolutionVars, chunkVars, streamVars, statusVars, bookVars, queueVars,
         dataVars
    <3>2. Serving => Serving' BY <2>1, <3>1, ServingStays
    <3> QED BY <2>1, <3>1, <3>2 DEF EveryNodeRuns
  <2> QED BY <2>2, <2>3
<1>3. Good => EveryNodeRuns OBVIOUS
<1> QED BY <1>1, <1>2, <1>3, PTL DEF Spec

=============================================================================
