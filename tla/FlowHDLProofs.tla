---------------------------- MODULE FlowHDLProofs ----------------------------
(***************************************************************************)
(* Proofs about FlowHDL, for every program: however many nodes, names and  *)
(* templates it has.                                                       *)
(***************************************************************************)
EXTENDS FlowHDL, SequenceProofs

-----------------------------------------------------------------------------
(* The folds of the finalization, step by step.                               *)

\* One step of each fold: x is what does not change, d what is built, p the element.
Step(fold, x, d, p) ==
    CASE fold = "argument" -> Argument(d, x.node, p, x.args[p])
      [] fold = "redirect" -> Redirect(d, p, x)
      [] fold = "drop"     -> [d EXCEPT !.outs[p] = Proper(x, @)]
      [] fold = "resolve"  -> Resolve(d, p, x)
      [] fold = "target"   -> IF IsGroup(d) THEN returned[d.node] ELSE d
      [] fold = "merge"    -> Update(d, p.names)
      [] fold = "proper"   -> IF x.kind[p] = "group" THEN d ELSE Append(d, p)

\* it folds every subset of the positions, from the least one on.
Folds(it, fold, x, base, s) ==
    it = [S \in SUBSET DOMAIN s |->
            IF S = {} THEN base ELSE Step(fold, x, it[S \ {Max(S)}], s[Max(S)])]

\* A fold over a sequence is what its definition says: such a function exists.
LEMMA FoldExists ==
    ASSUME NEW fold, NEW x, NEW base, NEW s, NEW n \in Nat, DOMAIN s = 1..n
    PROVE  \E it : Folds(it, fold, x, base, s)
<1> DEFINE Is(it, m) ==
             it = [S \in SUBSET (1..m) |->
                     IF S = {} THEN base ELSE Step(fold, x, it[S \ {Max(S)}], s[Max(S)])]
           M == {m \in 0..n : \E it : Is(it, m)}
<1>1. 0 \in M
  <2> DEFINE it == [S \in SUBSET (1..0) |-> base]
  <2>1. \A S \in SUBSET (1..0) : S = {} OBVIOUS
  <2>2. Is(it, 0) BY <2>1, Zenon
  <2> HIDE DEF Is, it
  <2> QED BY <2>2
<1>2. ASSUME NEW m \in 1..n, m - 1 \in M PROVE m \in M
  <2>1. PICK it : Is(it, m - 1) BY <1>2
  <2> DEFINE jt == [S \in SUBSET (1..m) |->
                      IF m \in S THEN Step(fold, x, it[S \ {m}], s[m]) ELSE it[S]]
  <2>2. ASSUME NEW S \in SUBSET (1..m)
        PROVE  jt[S] = IF S = {} THEN base ELSE Step(fold, x, jt[S \ {Max(S)}], s[Max(S)])
    <3>0. /\ m \in Nat /\ S \in SUBSET (0..m)
          /\ \A i \in 1..m : i # m => i \in 1..(m - 1)
          /\ \A i \in 1..(m - 1) : i \in 1..m
      OBVIOUS
    <3> DEFINE g == Max(S)
               T == S \ {g}
    <3>1. S # {} => g \in S /\ \A y \in S : g >= y BY <3>0, MaxIsGreatest
    <3> HIDE DEF g
    <3>2. CASE m \in S
      <4>1. g \in 1..m /\ g >= m BY <3>1, <3>2
      <4>0. g = m BY <3>0, <4>1
      <4>2. T \in SUBSET (1..m) /\ m \notin T BY <4>0
      <4>3. jt[T] = it[T] BY <4>2
      <4>4. jt[S] = Step(fold, x, it[T], s[m]) BY <3>2, <4>0
      <4> QED BY <3>2, <4>0, <4>3, <4>4 DEF g
    <3>3. CASE m \notin S
      <4>1. S \in SUBSET (1..(m - 1)) BY <3>0, <3>3
      <4>2. jt[S] = it[S] BY <3>3
      <4>3. T \in SUBSET (1..m) /\ m \notin T BY <3>3
      <4>4. jt[T] = it[T] BY <4>3
      <4>5. it[S] = IF S = {} THEN base ELSE Step(fold, x, it[T], s[g])
        BY <2>1, <4>1 DEF g
      <4> QED BY <4>2, <4>4, <4>5 DEF g
    <3> QED BY <3>2, <3>3
  <2>3. Is(jt, m)
    <3>1. jt = [S \in SUBSET (1..m) |-> jt[S]] OBVIOUS
    <3> HIDE DEF jt
    <3> QED BY <2>2, <3>1
  <2> HIDE DEF Is, jt
  <2> QED BY <2>3
<1> HIDE DEF M
<1>3. n \in M
  <2>1. \A m \in 0..n : m \in M BY <1>1, <1>2, UptoInduction
  <2> QED BY <2>1
<1> QED BY <1>3 DEF M, Folds

\* The folds.
Given(n, args, base, s) == FoldLeft(LAMBDA d, i : Argument(d, n, i, args[i]), base, s)
Redirected(alias, base, s) == FoldLeft(LAMBDA d, p : Redirect(d, p, alias), base, s)
Dropped(x, base, s) == FoldLeft(LAMBDA e, n : [e EXCEPT !.outs[n] = Proper(x, @)], base, s)
Resolved(ns, base, s) == FoldLeft(LAMBDA d, p : Resolve(d, p, ns), base, s)

\* h[k] is what a fold has built from the first k elements.
Run(h, fold, x, base, s, r) ==
    /\ h[0] = base
    /\ \A k \in 1..Len(s) : h[k] = Step(fold, x, h[k - 1], s[k])
    /\ h[Len(s)] = r

\* It starts with the base and takes one element after the other.
LEMMA FoldRuns ==
    ASSUME NEW fold, NEW x, NEW base, NEW s, Len(s) \in Nat, DOMAIN s = 1..Len(s),
           NEW it, Folds(it, fold, x, base, s)
    PROVE  \E h : Run(h, fold, x, base, s, it[DOMAIN s])
<1> DEFINE n == Len(s)
           h == [k \in 0..n |-> it[1..k]]
<1>0. n \in Nat /\ DOMAIN s = 1..n OBVIOUS
<1> HIDE DEF n
<1>1. \A k \in 0..n : 1..k \in SUBSET DOMAIN s BY <1>0
<1>2. h[0] = base
  <2>1. 0 \in 0..n /\ 1..0 = {} BY <1>0
  <2> QED BY <1>1, <2>1 DEF Folds
<1>3. ASSUME NEW k \in 1..n PROVE h[k] = Step(fold, x, h[k - 1], s[k])
  <2>0. /\ k \in 0..n /\ k - 1 \in 0..n /\ k \in Nat /\ k \in 1..k
        /\ \A y \in 1..k : y <= k /\ y \in 0..k
    BY <1>0
  <2>1. 1..k \in SUBSET (0..k) /\ 1..k # {} BY <2>0
  <2> DEFINE g == Max(1..k)
  <2>2. g \in 1..k /\ \A y \in 1..k : g >= y BY <2>0, <2>1, MaxIsGreatest
  <2>3. g = k
    <3> HIDE DEF g
    <3> QED BY <2>0, <2>2
  <2>4. (1..k) \ {k} = 1..(k - 1) BY <2>0
  <2>5. it[1..k] = Step(fold, x, it[(1..k) \ {g}], s[g]) BY <1>1, <2>0, <2>1 DEF Folds
  <2> HIDE DEF g
  <2> QED BY <2>0, <2>3, <2>4, <2>5
<1>4. h[n] = it[DOMAIN s]
  <2>1. n \in 0..n BY <1>0
  <2> QED BY <1>0, <2>1
<1> HIDE DEF h
<1>5. Run(h, fold, x, base, s, it[DOMAIN s]) BY <1>2, <1>3, <1>4 DEF Run, n
<1> QED BY <1>5

\* The arguments of a draft, one after the other.
LEMMA ArgumentRuns ==
    ASSUME NEW n, NEW args, NEW base, NEW s, Len(s) \in Nat, DOMAIN s = 1..Len(s)
    PROVE  \E h : Run(h, "argument", [node |-> n, args |-> args], base, s,
                     Given(n, args, base, s))
<1> DEFINE x0 == [node |-> n, args |-> args]
           b0 == base
           Op(d, p) == Argument(d, n, p, args[p])
           Is(f) == f = [S \in SUBSET DOMAIN s |->
                           IF S = {} THEN b0 ELSE Op(f[S \ {Max(S)}], s[Max(S)])]
           it == CHOOSE f : Is(f)
<1>1. \A d, p : Step("argument", x0, d, p) = Op(d, p) BY DEF Step
<1>2. \A f : Is(f) <=> Folds(f, "argument", x0, b0, s)
  <2> HIDE DEF x0, Op
  <2> QED BY <1>1, Zenon DEF Folds
<1>3. Given(n, args, base, s) = it[DOMAIN s]
  BY Zenon DEF Given, FoldLeft, MapThenFoldSet
<1>4. \E f : Folds(f, "argument", x0, b0, s)
  <2> HIDE DEF x0, b0
  <2> QED BY FoldExists
<1>5. Is(it)
  <2> HIDE DEF Is
  <2> QED BY <1>2, <1>4, Zenon
<1>6. Folds(it, "argument", x0, b0, s)
  <2> HIDE DEF Is, it, x0
  <2> QED BY <1>2, <1>5, Zenon
<1>7. \E h : Run(h, "argument", x0, b0, s, it[DOMAIN s])
  <2> HIDE DEF x0, b0, it, Is
  <2> QED BY <1>6, FoldRuns
<1> HIDE DEF it
<1> QED BY <1>3, <1>7, Zenon

\* The ports that are redirected, one after the other.
LEMMA RedirectRuns ==
    ASSUME NEW alias, NEW base, NEW s, Len(s) \in Nat, DOMAIN s = 1..Len(s)
    PROVE  \E h : Run(h, "redirect", alias, base, s,
                     Redirected(alias, base, s))
<1> DEFINE x0 == alias
           b0 == base
           Op(d, p) == Redirect(d, p, alias)
           Is(f) == f = [S \in SUBSET DOMAIN s |->
                           IF S = {} THEN b0 ELSE Op(f[S \ {Max(S)}], s[Max(S)])]
           it == CHOOSE f : Is(f)
<1>1. \A d, p : Step("redirect", x0, d, p) = Op(d, p) BY DEF Step
<1>2. \A f : Is(f) <=> Folds(f, "redirect", x0, b0, s)
  <2> HIDE DEF x0, Op
  <2> QED BY <1>1, Zenon DEF Folds
<1>3. Redirected(alias, base, s) = it[DOMAIN s]
  BY Zenon DEF Redirected, FoldLeft, MapThenFoldSet
<1>4. \E f : Folds(f, "redirect", x0, b0, s)
  <2> HIDE DEF x0, b0
  <2> QED BY FoldExists
<1>5. Is(it)
  <2> HIDE DEF Is
  <2> QED BY <1>2, <1>4, Zenon
<1>6. Folds(it, "redirect", x0, b0, s)
  <2> HIDE DEF Is, it, x0
  <2> QED BY <1>2, <1>5, Zenon
<1>7. \E h : Run(h, "redirect", x0, b0, s, it[DOMAIN s])
  <2> HIDE DEF x0, b0, it, Is
  <2> QED BY <1>6, FoldRuns
<1> HIDE DEF it
<1> QED BY <1>3, <1>7, Zenon

\* The consumers that are dropped, one after the other.
LEMMA DropRuns ==
    ASSUME NEW x, NEW base, NEW s, Len(s) \in Nat, DOMAIN s = 1..Len(s)
    PROVE  \E h : Run(h, "drop", x, base, s,
                     Dropped(x, base, s))
<1> DEFINE x0 == x
           b0 == base
           Op(d, p) == [d EXCEPT !.outs[p] = Proper(x, @)]
           Is(f) == f = [S \in SUBSET DOMAIN s |->
                           IF S = {} THEN b0 ELSE Op(f[S \ {Max(S)}], s[Max(S)])]
           it == CHOOSE f : Is(f)
<1>1. \A d, p : Step("drop", x0, d, p) = Op(d, p) BY DEF Step
<1>2. \A f : Is(f) <=> Folds(f, "drop", x0, b0, s)
  <2> HIDE DEF x0, Op
  <2> QED BY <1>1, Zenon DEF Folds
<1>3. Dropped(x, base, s) = it[DOMAIN s]
  BY Zenon DEF Dropped, FoldLeft, MapThenFoldSet
<1>4. \E f : Folds(f, "drop", x0, b0, s)
  <2> HIDE DEF x0, b0
  <2> QED BY FoldExists
<1>5. Is(it)
  <2> HIDE DEF Is
  <2> QED BY <1>2, <1>4, Zenon
<1>6. Folds(it, "drop", x0, b0, s)
  <2> HIDE DEF Is, it, x0
  <2> QED BY <1>2, <1>5, Zenon
<1>7. \E h : Run(h, "drop", x0, b0, s, it[DOMAIN s])
  <2> HIDE DEF x0, b0, it, Is
  <2> QED BY <1>6, FoldRuns
<1> HIDE DEF it
<1> QED BY <1>3, <1>7, Zenon

\* The placeholders, one after the other.
LEMMA ResolveRuns ==
    ASSUME NEW ns, NEW base, NEW s, Len(s) \in Nat, DOMAIN s = 1..Len(s)
    PROVE  \E h : Run(h, "resolve", ns, base, s,
                     Resolved(ns, base, s))
<1> DEFINE x0 == ns
           b0 == base
           Op(d, p) == Resolve(d, p, ns)
           Is(f) == f = [S \in SUBSET DOMAIN s |->
                           IF S = {} THEN b0 ELSE Op(f[S \ {Max(S)}], s[Max(S)])]
           it == CHOOSE f : Is(f)
<1>1. \A d, p : Step("resolve", x0, d, p) = Op(d, p) BY DEF Step
<1>2. \A f : Is(f) <=> Folds(f, "resolve", x0, b0, s)
  <2> HIDE DEF x0, Op
  <2> QED BY <1>1, Zenon DEF Folds
<1>3. Resolved(ns, base, s) = it[DOMAIN s]
  BY Zenon DEF Resolved, FoldLeft, MapThenFoldSet
<1>4. \E f : Folds(f, "resolve", x0, b0, s)
  <2> HIDE DEF x0, b0
  <2> QED BY FoldExists
<1>5. Is(it)
  <2> HIDE DEF Is
  <2> QED BY <1>2, <1>4, Zenon
<1>6. Folds(it, "resolve", x0, b0, s)
  <2> HIDE DEF Is, it, x0
  <2> QED BY <1>2, <1>5, Zenon
<1>7. \E h : Run(h, "resolve", x0, b0, s, it[DOMAIN s])
  <2> HIDE DEF x0, b0, it, Is
  <2> QED BY <1>6, FoldRuns
<1> HIDE DEF it
<1> QED BY <1>3, <1>7, Zenon

\* The groups that are left out, one after the other.
LEMMA ProperRuns ==
    ASSUME NEW x, NEW s, Len(s) \in Nat, DOMAIN s = 1..Len(s)
    PROVE  \E h : Run(h, "proper", x, <<>>, s,
                     Proper(x, s))
<1> DEFINE x0 == x
           b0 == <<>>
           Op(d, p) == (IF x.kind[p] = "group" THEN d ELSE Append(d, p))
           Is(f) == f = [S \in SUBSET DOMAIN s |->
                           IF S = {} THEN b0 ELSE Op(f[S \ {Max(S)}], s[Max(S)])]
           it == CHOOSE f : Is(f)
<1>1. \A d, p : Step("proper", x0, d, p) = Op(d, p) BY DEF Step
<1>2. \A f : Is(f) <=> Folds(f, "proper", x0, b0, s)
  <2> HIDE DEF x0, Op
  <2> QED BY <1>1, Zenon DEF Folds
<1>3. Proper(x, s) = it[DOMAIN s]
  BY Zenon DEF Proper, FoldLeft, MapThenFoldSet
<1>4. \E f : Folds(f, "proper", x0, b0, s)
  <2> HIDE DEF x0, b0
  <2> QED BY FoldExists
<1>5. Is(it)
  <2> HIDE DEF Is
  <2> QED BY <1>2, <1>4, Zenon
<1>6. Folds(it, "proper", x0, b0, s)
  <2> HIDE DEF Is, it, x0
  <2> QED BY <1>2, <1>5, Zenon
<1>7. \E h : Run(h, "proper", x0, b0, s, it[DOMAIN s])
  <2> HIDE DEF x0, b0, it, Is
  <2> QED BY <1>6, FoldRuns
<1> HIDE DEF it
<1> QED BY <1>3, <1>7, Zenon

\* What a group stands for, one group after the other.
LEMMA TargetRuns ==
    ASSUME NEW a, Len(draft.kind) \in Nat, DOMAIN draft.kind = 1..Len(draft.kind)
    PROVE  \E h : Run(h, "target", 0, a, draft.kind, Target(a))
<1> DEFINE x0 == 0
           b0 == a
           s == draft.kind
           Op(d, p) == IF IsGroup(d) THEN returned[d.node] ELSE d
           Is(f) == f = [S \in SUBSET DOMAIN s |->
                           IF S = {} THEN b0 ELSE Op(f[S \ {Max(S)}], s[Max(S)])]
           it == CHOOSE f : Is(f)
<1>1. \A d, p : Step("target", x0, d, p) = Op(d, p) BY DEF Step
<1>2. \A f : Is(f) <=> Folds(f, "target", x0, b0, s)
  <2> HIDE DEF x0, Op, s
  <2> QED BY <1>1, Zenon DEF Folds
<1>3. Target(a) = it[DOMAIN s]
  BY Zenon DEF Target, FoldLeft, MapThenFoldSet
<1>4. \E f : Folds(f, "target", x0, b0, s)
  <2> HIDE DEF x0, b0
  <2> QED BY FoldExists
<1>5. Is(it)
  <2> HIDE DEF Is
  <2> QED BY <1>2, <1>4, Zenon
<1>6. Folds(it, "target", x0, b0, s)
  <2> HIDE DEF Is, it, x0
  <2> QED BY <1>2, <1>5, Zenon
<1>7. \E h : Run(h, "target", x0, b0, s, it[DOMAIN s])
  <2> HIDE DEF x0, b0, it, Is
  <2> QED BY <1>6, FoldRuns
<1> HIDE DEF it
<1> QED BY <1>3, <1>7, Zenon

\* The names of the views, one view after the other.
LEMMA MergedRuns ==
    ASSUME NEW v, Len(v.results) \in Nat, DOMAIN v.results = 1..Len(v.results)
    PROVE  \E h : Run(h, "merge", 0, v.names, v.results, Merged(v))
<1> DEFINE x0 == 0
           b0 == v.names
           s == v.results
           Op(d, p) == Update(d, p.names)
           Is(f) == f = [S \in SUBSET DOMAIN s |->
                           IF S = {} THEN b0 ELSE Op(f[S \ {Max(S)}], s[Max(S)])]
           it == CHOOSE f : Is(f)
<1>1. \A d, p : Step("merge", x0, d, p) = Op(d, p) BY DEF Step
<1>2. \A f : Is(f) <=> Folds(f, "merge", x0, b0, s)
  <2> HIDE DEF x0, Op, s
  <2> QED BY <1>1, Zenon DEF Folds
<1>3. Merged(v) = it[DOMAIN s]
  BY Zenon DEF Merged, FoldLeft, MapThenFoldSet
<1>4. \E f : Folds(f, "merge", x0, b0, s)
  <2> HIDE DEF x0, b0
  <2> QED BY FoldExists
<1>5. Is(it)
  <2> HIDE DEF Is
  <2> QED BY <1>2, <1>4, Zenon
<1>6. Folds(it, "merge", x0, b0, s)
  <2> HIDE DEF Is, it, x0
  <2> QED BY <1>2, <1>5, Zenon
<1>7. \E h : Run(h, "merge", x0, b0, s, it[DOMAIN s])
  <2> HIDE DEF x0, b0, it, Is
  <2> QED BY <1>6, FoldRuns
<1> HIDE DEF it
<1> QED BY <1>3, <1>7, Zenon

-----------------------------------------------------------------------------
(* How often a list holds an element.                                         *)

Group(d, n) == d.kind[n] = "group"

\* How often a list holds m.
Listed(s, m) == {j \in DOMAIN s : s[j] = m}
Count(s, m) == Cardinality(Listed(s, m))

\* What is counted can be counted.
LEMMA CountType ==
    ASSUME NEW X, NEW s \in Seq(X), NEW m
    PROVE  IsFiniteSet(Listed(s, m)) /\ Count(s, m) \in Nat
<1>1. DOMAIN s = 1..Len(s) /\ Len(s) \in Nat BY LenProperties
<1>2. IsFiniteSet(1..Len(s)) BY <1>1, FS_Interval
<1>3. Listed(s, m) \in SUBSET (1..Len(s)) BY <1>1 DEF Listed
<1>4. IsFiniteSet(Listed(s, m)) BY <1>2, <1>3, FS_Subset
<1> QED BY <1>4, FS_CardinalityType DEF Count

\* An empty list holds nothing.
LEMMA CountEmpty == ASSUME NEW m PROVE Count(<<>>, m) = 0
<1>1. Listed(<<>>, m) = {} BY DEF Listed
<1> QED BY <1>1, FS_EmptySet DEF Count

\* One more element.
LEMMA CountAppend ==
    ASSUME NEW X, NEW s \in Seq(X), NEW e \in X, NEW m
    PROVE  Count(Append(s, e), m) = IF e = m THEN Count(s, m) + 1 ELSE Count(s, m)
<1> DEFINE t == Append(s, e)
           n == Len(s)
<1>1. /\ n \in Nat /\ DOMAIN s = 1..n
      /\ DOMAIN t = 1..(n + 1) /\ t[n + 1] = e /\ \A j \in 1..n : t[j] = s[j]
  <2>1. t \in Seq(X) /\ Len(t) = n + 1 /\ t[n + 1] = e /\ \A j \in 1..n : t[j] = s[j]
    BY AppendProperties
  <2> HIDE DEF t
  <2> QED BY <2>1, LenProperties
<1> HIDE DEF t, n
<1>2. n + 1 \notin Listed(s, m) BY <1>1 DEF Listed
<1>3. Listed(t, m) = IF e = m THEN Listed(s, m) \cup {n + 1} ELSE Listed(s, m)
  <2>1. \A j : j \in 1..(n + 1) <=> j \in 1..n \/ j = n + 1 BY <1>1
  <2> QED BY <1>1, <2>1 DEF Listed
<1>4. IsFiniteSet(Listed(s, m)) BY CountType
<1>5. Count(t, m) = IF e = m THEN Count(s, m) + 1 ELSE Count(s, m)
  BY <1>2, <1>3, <1>4, FS_AddElement DEF Count
<1> QED BY <1>5 DEF t

\* A list without one of its elements: the ones behind it move up.
LEMMA WithoutOne ==
    ASSUME NEW X, NEW s \in Seq(X), NEW i \in 1..Len(s)
    PROVE  LET t == RemoveAt(s, i) IN
           /\ t \in Seq(X) /\ Len(t) = Len(s) - 1
           /\ \A j \in 1..(Len(s) - 1) : t[j] = s[IF j < i THEN j ELSE j + 1]
<1> DEFINE n == Len(s)
           a == SubSeq(s, 1, i - 1)
           b == SubSeq(s, i + 1, n)
<1>1. n \in Nat /\ i \in 1..n BY LenProperties
<1>2. /\ a \in Seq(X) /\ Len(a) = i - 1 /\ \A j \in 1..(i - 1) : a[j] = s[j]
      /\ b \in Seq(X) /\ Len(b) = n - i /\ \A j \in 1..(n - i) : b[j] = s[i + j]
  <2>1. a = [j \in 1..(i - 1) |-> s[j]] BY <1>1
  <2>2. b = [j \in 1..(n - i) |-> s[i + j]] BY <1>1
  <2>3. /\ \A j \in 1..(i - 1) : j \in 1..n
        /\ \A j \in 1..(n - i) : i + j \in 1..n
    BY <1>1
  <2>4. \A j \in 1..n : s[j] \in X BY ElementOfSeq
  <2>5. i - 1 \in Nat /\ n - i \in Nat BY <1>1
  <2> HIDE DEF a, b, n
  <2>6. a \in Seq(X) /\ Len(a) = i - 1 /\ \A j \in 1..(i - 1) : a[j] = s[j]
    BY <2>1, <2>3, <2>4, <2>5
  <2>7. b \in Seq(X) /\ Len(b) = n - i /\ \A j \in 1..(n - i) : b[j] = s[i + j]
    BY <2>2, <2>3, <2>4, <2>5
  <2> QED BY <2>6, <2>7
<1> HIDE DEF a, b, n
<1>3. /\ a \o b \in Seq(X) /\ Len(a \o b) = n - 1
      /\ \A j \in 1..(n - 1) : (a \o b)[j] = IF j <= i - 1 THEN a[j] ELSE b[j - (i - 1)]
  <2>1. Len(a) + Len(b) = n - 1 BY <1>1, <1>2
  <2>2. /\ a \o b \in Seq(X) /\ Len(a \o b) = Len(a) + Len(b)
        /\ \A j \in 1..(Len(a) + Len(b)) :
              (a \o b)[j] = IF j <= Len(a) THEN a[j] ELSE b[j - Len(a)]
    BY <1>2, ConcatProperties
  <2> QED BY <1>2, <2>1, <2>2
<1>4. ASSUME NEW j \in 1..(n - 1) PROVE (a \o b)[j] = s[IF j < i THEN j ELSE j + 1]
  <2>1. CASE j < i
    <3>1. j \in 1..(i - 1) /\ j <= i - 1 BY <1>1, <2>1
    <3> QED BY <1>2, <1>3, <2>1, <3>1
  <2>2. CASE ~(j < i)
    <3>1. ~(j <= i - 1) /\ j - (i - 1) \in 1..(n - i) /\ i + (j - (i - 1)) = j + 1
      BY <1>1, <2>2
    <3> QED BY <1>2, <1>3, <2>2, <3>1
  <2> QED BY <2>1, <2>2
<1>5. RemoveAt(s, i) = a \o b BY DEF RemoveAt, a, b, n
<1> QED BY <1>3, <1>4, <1>5 DEF n

\* One element less.
LEMMA CountRemoveFirst ==
    ASSUME NEW X, NEW s \in Seq(X), NEW e, Contains(s, e), NEW m
    PROVE  /\ RemoveFirst(s, e) \in Seq(X)
           /\ Count(RemoveFirst(s, e), m) = IF e = m THEN Count(s, m) - 1 ELSE Count(s, m)
<1> DEFINE n == Len(s)
           I == {j \in 1..n : s[j] = e}
           i == Min(I)
           t == RemoveFirst(s, e)
<1>1. n \in Nat /\ DOMAIN s = 1..n BY LenProperties
<1>2. I # {} /\ I \in SUBSET Nat BY <1>1 DEF Contains
<1>3. i \in I
  <2> HIDE DEF I
  <2> QED BY <1>2, MinIsLeast
<1>4. t = RemoveAt(s, i)
  <2>1. SelectInSeq(s, LAMBDA v : v = e) = i BY <1>2 DEF SelectInSeq
  <2> QED BY <2>1 DEF RemoveFirst, Contains
<1>5. i \in 1..n /\ s[i] = e BY <1>3
<1> HIDE DEF i, I, t
<1>6. /\ t \in Seq(X) /\ Len(t) = n - 1
      /\ \A j \in 1..(n - 1) : t[j] = s[IF j < i THEN j ELSE j + 1]
  BY <1>4, <1>5, WithoutOne
<1> HIDE DEF n
<1> DEFINE f == [j \in Listed(t, m) |-> IF j < i THEN j ELSE j + 1]
           S == Listed(s, m) \ {i}
<1>7. DOMAIN t = 1..(n - 1) BY <1>6, LenProperties
<1>8. f \in Bijection(Listed(t, m), S)
  <2>1. ASSUME NEW j \in Listed(t, m) PROVE f[j] \in S
    <3>1. j \in 1..(n - 1) /\ t[j] = m BY <1>7 DEF Listed
    <3>2. f[j] \in 1..n /\ f[j] # i BY <1>1, <1>5, <3>1
    <3>3. s[f[j]] = m BY <1>6, <3>1
    <3> QED BY <1>1, <3>2, <3>3 DEF Listed
  <2>2. ASSUME NEW j \in Listed(t, m), NEW k \in Listed(t, m), f[j] = f[k] PROVE j = k
    <3>1. j \in 1..(n - 1) /\ k \in 1..(n - 1) BY <1>7 DEF Listed
    <3> QED BY <1>1, <1>5, <2>2, <3>1
  <2>3. ASSUME NEW k \in S PROVE \E j \in Listed(t, m) : f[j] = k
    <3>1. k \in 1..n /\ k # i /\ s[k] = m BY <1>1 DEF Listed
    <3> DEFINE j == IF k < i THEN k ELSE k - 1
    <3>2. j \in 1..(n - 1) /\ (IF j < i THEN j ELSE j + 1) = k BY <1>1, <1>5, <3>1
    <3>3. t[j] = m BY <1>6, <3>1, <3>2
    <3>4. j \in Listed(t, m) BY <1>7, <3>2, <3>3 DEF Listed
    <3> QED BY <3>2, <3>4
  <2> QED BY <2>1, <2>2, <2>3 DEF Bijection, Injection, Surjection, IsInjective
<1>9. ExistsBijection(Listed(t, m), S) BY <1>8 DEF ExistsBijection
<1>10. /\ IsFiniteSet(Listed(t, m)) /\ Cardinality(S) = Cardinality(Listed(t, m))
  <2> HIDE DEF S, f
  <2>1. IsFiniteSet(Listed(t, m)) BY <1>6, CountType
  <2> QED BY <1>9, <2>1, FS_Bijection
<1>11. IsFiniteSet(Listed(s, m)) BY CountType
<1>12. Cardinality(S) = IF i \in Listed(s, m) THEN Cardinality(Listed(s, m)) - 1
                                             ELSE Cardinality(Listed(s, m))
  BY <1>11, FS_RemoveElement
<1>13. i \in Listed(s, m) <=> e = m BY <1>1, <1>5 DEF Listed
<1>14. Count(t, m) = IF e = m THEN Count(s, m) - 1 ELSE Count(s, m)
  <2> HIDE DEF S
  <2> QED BY <1>10, <1>12, <1>13 DEF Count
<1> QED BY <1>6, <1>14 DEF t

\* A list without the groups: the other elements, each as often as before.
LEMMA ProperList ==
    ASSUME NEW N, NEW d, NEW s \in Seq(N)
    PROVE  /\ Proper(d, s) \in Seq({n \in N : ~Group(d, n)})
           /\ ToSet(Proper(d, s)) = {n \in ToSet(s) : ~Group(d, n)}
           /\ IsInjective(s) => IsInjective(Proper(d, s))
           /\ \A m : ~Group(d, m) => Count(Proper(d, s), m) = Count(s, m)
<1> DEFINE l == Len(s)
           P == {n \in N : ~Group(d, n)}
           From(k, m) == {j \in 1..k : s[j] = m}
<1>1. l \in Nat /\ DOMAIN s = 1..l /\ \A k \in 1..l : s[k] \in N
  BY LenProperties, ElementOfSeq
<1> HIDE DEF l
<1>2. PICK h : /\ h[0] = <<>>
               /\ \A k \in 1..l : h[k] = (IF d.kind[s[k]] = "group" THEN h[k - 1]
                                                                   ELSE Append(h[k - 1], s[k]))
               /\ Proper(d, s) = h[l]
  <2>1. PICK h : Run(h, "proper", d, <<>>, s, Proper(d, s)) BY <1>1, ProperRuns DEF l
  <2> QED BY <2>1 DEF Run, Step, l
<1> DEFINE Good(k) ==
             /\ h[k] \in Seq(P)
             /\ ToSet(h[k]) = {s[j] : j \in {i \in 1..k : ~Group(d, s[i])}}
             /\ (\A i, j \in 1..k : s[i] = s[j] => i = j) => IsInjective(h[k])
             /\ \A m : ~Group(d, m) => Count(h[k], m) = Cardinality(From(k, m))
           S == {k \in 0..l : Good(k)}
<1>3. 0 \in S
  <2>1. h[0] \in Seq(P) BY <1>2, EmptySeq
  <2>2. DOMAIN h[0] = {} BY <1>2
  <2>3. ToSet(h[0]) = {} /\ IsInjective(h[0]) BY <2>2 DEF ToSet, IsInjective
  <2>4. \A m : From(0, m) = {} OBVIOUS
  <2>5. \A m : Count(h[0], m) = 0 BY <1>2, CountEmpty
  <2>6. {s[j] : j \in {i \in 1..0 : ~Group(d, s[i])}} = {} OBVIOUS
  <2>7. \A m : Count(h[0], m) = Cardinality(From(0, m))
    <3> HIDE DEF From
    <3> QED BY <2>4, <2>5, FS_EmptySet
  <2>8. 0 \in 0..l BY <1>1
  <2> HIDE DEF From, P
  <2> QED BY <2>1, <2>3, <2>6, <2>7, <2>8
<1>4. ASSUME NEW k \in 1..l, k - 1 \in S PROVE k \in S
  <2> DEFINE a == h[k - 1]
             e == s[k]
  <2>0. k \in 0..l /\ k - 1 \in Nat /\ k \in Nat /\ e \in N
        /\ \A i : i \in 1..k <=> i \in 1..(k - 1) \/ i = k
    BY <1>1
  <2>1. /\ a \in Seq(P)
        /\ ToSet(a) = {s[j] : j \in {i \in 1..(k - 1) : ~Group(d, s[i])}}
        /\ (\A i, j \in 1..(k - 1) : s[i] = s[j] => i = j) => IsInjective(a)
        /\ \A m : ~Group(d, m) => Count(a, m) = Cardinality(From(k - 1, m))
    BY <1>4
  <2>2. \A m : From(k, m) = IF e = m THEN From(k - 1, m) \cup {k} ELSE From(k - 1, m)
    BY <2>0
  <2>3. \A m : k \notin From(k - 1, m) /\ IsFiniteSet(From(k - 1, m))
    <3>1. IsFiniteSet(1..(k - 1)) BY <2>0, FS_Interval
    <3>2. \A m : From(k - 1, m) \in SUBSET (1..(k - 1)) OBVIOUS
    <3>3. \A m : IsFiniteSet(From(k - 1, m))
      <4> HIDE DEF From
      <4> QED BY <3>1, <3>2, FS_Subset
    <3>4. k \notin 1..(k - 1) BY <2>0
    <3>5. \A m : k \notin From(k - 1, m) BY <3>2, <3>4
    <3> HIDE DEF From
    <3> QED BY <3>3, <3>5
  <2>4. \A m : Cardinality(From(k, m)) =
                  IF e = m THEN Cardinality(From(k - 1, m)) + 1
                           ELSE Cardinality(From(k - 1, m))
    <3> HIDE DEF From, e
    <3> QED BY <2>2, <2>3, FS_AddElement
  <2>5. CASE Group(d, e)
    <3>1. h[k] = a BY <1>2, <2>5 DEF Group
    <3>2. {s[j] : j \in {i \in 1..k : ~Group(d, s[i])}}
            = {s[j] : j \in {i \in 1..(k - 1) : ~Group(d, s[i])}}
      BY <2>0, <2>5
    <3>3. \A m : ~Group(d, m) => e # m BY <2>5
    <3> HIDE DEF From, P, e
    <3> QED BY <2>0, <2>1, <2>4, <3>1, <3>2, <3>3
  <2>6. CASE ~Group(d, e)
    <3>1. h[k] = Append(a, e) BY <1>2, <2>6 DEF Group
    <3>2. e \in P BY <2>0, <2>6
    <3> HIDE DEF P, e
    <3>3. /\ h[k] \in Seq(P) /\ DOMAIN h[k] = 1..(Len(a) + 1) /\ DOMAIN a = 1..Len(a)
          /\ Len(a) \in Nat
          /\ h[k][Len(a) + 1] = e /\ \A j \in 1..Len(a) : h[k][j] = a[j]
      <4>1. /\ h[k] \in Seq(P) /\ Len(h[k]) = Len(a) + 1
            /\ h[k][Len(a) + 1] = e /\ \A j \in 1..Len(a) : h[k][j] = a[j]
        BY <2>1, <3>1, <3>2, AppendProperties
      <4> QED BY <2>1, <4>1, LenProperties
    <3>4. ToSet(h[k]) = ToSet(a) \cup {e}
      <4>1. \A j : j \in 1..(Len(a) + 1) <=> j \in 1..Len(a) \/ j = Len(a) + 1 BY <3>3
      <4> QED BY <3>3, <4>1 DEF ToSet
    <3>5. ToSet(h[k]) = {s[j] : j \in {i \in 1..k : ~Group(d, s[i])}}
      BY <2>0, <2>1, <2>6, <3>4 DEF e
    <3>6. ASSUME \A i, j \in 1..k : s[i] = s[j] => i = j PROVE IsInjective(h[k])
      <4>1. \A i \in 1..(k - 1) : s[i] # e BY <2>0, <3>6 DEF e
      <4>2. e \notin ToSet(a) BY <2>1, <4>1
      <4>3. \A j \in 1..Len(a) : a[j] # e BY <3>3, <4>2 DEF ToSet
      <4>4. IsInjective(a) BY <2>0, <2>1, <3>6
      <4>5. \A i, j \in 1..Len(a) : a[i] = a[j] => i = j BY <3>3, <4>4 DEF IsInjective
      <4>6. ASSUME NEW i \in 1..(Len(a) + 1), NEW j \in 1..(Len(a) + 1), h[k][i] = h[k][j]
            PROVE  i = j
        <5>1. (i \in 1..Len(a) \/ i = Len(a) + 1) /\ (j \in 1..Len(a) \/ j = Len(a) + 1)
          BY <3>3
        <5> QED BY <3>3, <4>3, <4>5, <4>6, <5>1
      <4> QED BY <3>3, <4>6 DEF IsInjective
    <3>7. \A m : Count(h[k], m) = IF e = m THEN Count(a, m) + 1 ELSE Count(a, m)
      BY <2>1, <3>1, <3>2, CountAppend
    <3>8. \A m : ~Group(d, m) => Count(h[k], m) = Cardinality(From(k, m))
      <4> HIDE DEF From
      <4> QED BY <2>1, <2>4, <3>7
    <3> HIDE DEF From
    <3> QED BY <2>0, <3>3, <3>5, <3>6, <3>8
  <2> QED BY <2>5, <2>6
<1>5. l \in S
  <2> HIDE DEF S
  <2>1. \A k \in 0..l : k \in S BY <1>1, <1>3, <1>4, UptoInduction
  <2> QED BY <1>1, <2>1
<1>6. /\ h[l] \in Seq(P)
      /\ ToSet(h[l]) = {s[j] : j \in {i \in 1..l : ~Group(d, s[i])}}
      /\ (\A i, j \in 1..l : s[i] = s[j] => i = j) => IsInjective(h[l])
      /\ \A m : ~Group(d, m) => Count(h[l], m) = Cardinality(From(l, m))
  BY <1>5
<1>7. \A m : From(l, m) = Listed(s, m) BY <1>1 DEF Listed
<1>8. {s[j] : j \in {i \in 1..l : ~Group(d, s[i])}} = {n \in ToSet(s) : ~Group(d, n)}
  BY <1>1 DEF ToSet
<1>9. IsInjective(s) => \A i, j \in 1..l : s[i] = s[j] => i = j BY <1>1 DEF IsInjective
<1> HIDE DEF From, P
<1>10. \A m : ~Group(d, m) => Count(Proper(d, s), m) = Count(s, m)
  BY <1>2, <1>6, <1>7 DEF Count
<1> QED BY <1>2, <1>6, <1>8, <1>9, <1>10 DEF P

-----------------------------------------------------------------------------
(* The drafts, and what the operations on them leave alone.                   *)

Kind == {"node", "constant", "group"}

IsList(s) == \E m \in Nat : DOMAIN s = 1..m

\* The drafts are numbered, and their ports are.
Numbered(d) ==
    /\ DOMAIN d = {"kind", "port", "outs", "wire"}
    /\ d.kind \in Seq(Kind)
    /\ (\E P : d.port \in Seq(P)) /\ DOMAIN d.port = DOMAIN d.kind
    /\ \A n \in DOMAIN d.port : IsList(d.port[n])

\* The drafts of d are still there in e.
Keeps(d, e) ==
    /\ Numbered(e)
    /\ Len(d.kind) <= Len(e.kind)
    /\ \A n \in 1..Len(d.kind) : e.kind[n] = d.kind[n]

Same(d, e) == Numbered(e) /\ e.kind = d.kind

\* Two lists numbered by the same positions are equally long.
LEMMA SameLength ==
    ASSUME NEW m \in Nat, NEW n \in Nat, 1..m = 1..n
    PROVE  m = n
<1>1. m \in 1..m \/ m = 0 OBVIOUS
<1>2. n \in 1..n \/ n = 0 OBVIOUS
<1>3. (m \in 1..n \/ m = 0) /\ (n \in 1..m \/ n = 0) BY <1>1, <1>2
<1> QED BY <1>3

\* A port can be given anything.
LEMMA PortGiven ==
    ASSUME NEW d, Numbered(d), NEW n, NEW i, NEW a
    PROVE  Same(d, [d EXCEPT !.port[n][i] = a])
<1> DEFINE p == [d.port EXCEPT ![n] = [@ EXCEPT ![i] = a]]
           e == [d EXCEPT !.port[n][i] = a]
<1>1. PICK P : d.port \in Seq(P) BY DEF Numbered
<1>2. DOMAIN d = {"kind", "port", "outs", "wire"} BY DEF Numbered
<1>3. DOMAIN e = DOMAIN d /\ e.kind = d.kind /\ e.port = p BY <1>2
<1>4. DOMAIN p = DOMAIN d.port OBVIOUS
<1>5. p \in Seq(P \cup {[d.port[n] EXCEPT ![i] = a]})
  <2> DEFINE Q == P \cup {[d.port[n] EXCEPT ![i] = a]}
  <2>1. Len(d.port) \in Nat /\ DOMAIN d.port = 1..Len(d.port) BY <1>1, LenProperties
  <2>2. \A j \in 1..Len(d.port) : d.port[j] \in P BY <1>1, ElementOfSeq
  <2>3. p = [j \in 1..Len(d.port) |-> p[j]] BY <2>1
  <2>4. \A j \in 1..Len(d.port) : p[j] \in Q BY <2>1, <2>2
  <2> HIDE DEF p, Q
  <2>5. p \in Seq(Q) BY <2>1, <2>3, <2>4
  <2> QED BY <2>5 DEF Q
<1>6. \A j \in DOMAIN p : DOMAIN p[j] = DOMAIN d.port[j] OBVIOUS
<1>7. \A j \in DOMAIN p : IsList(p[j])
  <2> HIDE DEF p
  <2> QED BY <1>4, <1>6 DEF Numbered, IsList
<1> HIDE DEF p, e
<1>8. Same(d, e) BY <1>2, <1>3, <1>4, <1>5, <1>7 DEF Same, Numbered
<1> QED BY <1>8 DEF e

\* The consumers and the references are no drafts.
LEMMA OthersGiven ==
    ASSUME NEW d, Numbered(d), NEW o, NEW w
    PROVE  /\ Same(d, [d EXCEPT !.outs = o])
           /\ Same(d, [d EXCEPT !.wire = w])
           /\ Same(d, [d EXCEPT !.outs = o, !.wire = w])
BY DEF Same, Numbered

\* Connecting a port keeps the drafts as they are.
LEMMA ConnectSame ==
    ASSUME NEW d, Numbered(d), NEW k, NEW n, NEW i
    PROVE  Same(d, Connect(d, k, n, i))
<1> DEFINE o == [d.outs EXCEPT ![d.wire[k].node] = Append(@, n)]
           e == [d EXCEPT !.outs = o]
<1>1. Same(d, e) BY OthersGiven
<1>2. Connect(d, k, n, i) = [e EXCEPT !.port[n][i] = Wire(k)]
  BY DEF Connect, Numbered
<1> HIDE DEF e
<1>3. Same(e, [e EXCEPT !.port[n][i] = Wire(k)])
  <2>1. Numbered(e) BY <1>1 DEF Same
  <2> QED BY <2>1, PortGiven
<1> QED BY <1>1, <1>2, <1>3 DEF Same

\* So does connecting it through a reference of its own.
LEMMA AttachSame ==
    ASSUME NEW d, Numbered(d), NEW m, NEW n, NEW i
    PROVE  Same(d, Attach(d, m, n, i))
<1> DEFINE e == [d EXCEPT !.wire = Append(@, [node |-> m, of |-> m])]
<1>1. Same(d, e) BY DEF Same, Numbered
<1>2. Attach(d, m, n, i) = Connect(e, Len(d.wire) + 1, n, i) BY DEF Attach
<1> HIDE DEF e
<1>3. Same(e, Attach(d, m, n, i)) BY <1>1, <1>2, ConnectSame DEF Same
<1> QED BY <1>1, <1>3 DEF Same

\* A new draft gets the next number.
LEMMA NewDraftKeeps ==
    ASSUME NEW d, Numbered(d), NEW k \in Kind, NEW ports, IsList(ports)
    PROVE  /\ Keeps(d, NewDraft(d, k, ports))
           /\ Len(NewDraft(d, k, ports).kind) = Len(d.kind) + 1
<1> DEFINE e == NewDraft(d, k, ports)
<1>1. PICK P : d.port \in Seq(P) BY DEF Numbered
<1>2. /\ DOMAIN e = {"kind", "port", "outs", "wire"}
      /\ e.kind = Append(d.kind, k) /\ e.port = Append(d.port, ports)
  BY DEF NewDraft, Numbered
<1>3. d.port \in Seq(P \cup {ports}) BY <1>1, SeqMonotonic
<1>4. /\ Append(d.kind, k) \in Seq(Kind) /\ Len(Append(d.kind, k)) = Len(d.kind) + 1
      /\ \A n \in 1..Len(d.kind) : Append(d.kind, k)[n] = d.kind[n]
  BY AppendProperties DEF Numbered
<1>5. /\ Append(d.port, ports) \in Seq(P \cup {ports})
      /\ Len(Append(d.port, ports)) = Len(d.port) + 1
      /\ \A n \in 1..Len(d.port) : Append(d.port, ports)[n] = d.port[n]
      /\ Append(d.port, ports)[Len(d.port) + 1] = ports
  BY <1>3, AppendProperties
<1>6. /\ Len(d.port) \in Nat /\ DOMAIN d.port = 1..Len(d.port)
      /\ Len(d.kind) \in Nat /\ DOMAIN d.kind = 1..Len(d.kind)
  BY <1>1, LenProperties DEF Numbered
<1>7. Len(d.port) = Len(d.kind)
  <2>1. 1..Len(d.port) = 1..Len(d.kind) BY <1>6 DEF Numbered
  <2> QED BY <1>6, <2>1, SameLength
<1> HIDE DEF e
<1>8. /\ DOMAIN e.port = 1..(Len(d.kind) + 1) /\ DOMAIN e.kind = 1..(Len(d.kind) + 1)
  BY <1>2, <1>4, <1>5, <1>7, LenProperties
<1>9. ASSUME NEW n \in DOMAIN e.port PROVE IsList(e.port[n])
  <2>1. n \in 1..Len(d.port) \/ n = Len(d.port) + 1 BY <1>6, <1>7, <1>8
  <2> QED BY <1>2, <1>5, <1>6, <2>1 DEF Numbered
<1>10. Numbered(e) BY <1>2, <1>4, <1>5, <1>8, <1>9 DEF Numbered
<1>11. Keeps(d, e) /\ Len(e.kind) = Len(d.kind) + 1
  BY <1>2, <1>4, <1>6, <1>10 DEF Keeps
<1> QED BY <1>11 DEF e

\* Drafts are kept through two steps when each keeps them.
LEMMA KeepsTransitive ==
    ASSUME NEW c, NEW d, NEW e, Numbered(c), Keeps(c, d), Keeps(d, e)
    PROVE  Keeps(c, e)
<1>1. Len(c.kind) \in Nat /\ Len(d.kind) \in Nat /\ Len(e.kind) \in Nat
  BY LenProperties DEF Keeps, Numbered
<1> QED BY <1>1 DEF Keeps

\* What adds no draft keeps them all.
LEMMA SameKeeps ==
    ASSUME NEW d, NEW e, Numbered(d), Same(d, e)
    PROVE  Keeps(d, e)
<1>1. Len(d.kind) \in Nat BY LenProperties DEF Numbered
<1> QED BY <1>1 DEF Keeps, Same

\* An argument adds at most a constant.
LEMMA ArgumentKeeps ==
    ASSUME NEW d, Numbered(d), NEW n, NEW i, NEW a
    PROVE  Keeps(d, Argument(d, n, i, a))
<1>1. CASE a.is = "node"
  <2>1. Argument(d, n, i, a) = Attach(d, a.node, n, i) BY <1>1 DEF Argument
  <2> QED BY <2>1, AttachSame, SameKeeps
<1>2. CASE a.is = "wire"
  <2>1. Argument(d, n, i, a) = Connect(d, a.wire, n, i) BY <1>2 DEF Argument
  <2> QED BY <2>1, ConnectSame, SameKeeps
<1>3. CASE a.is = "value"
  <2> DEFINE e == NewDraft(d, "constant", <<>>)
  <2>1. Argument(d, n, i, a) = Attach(e, Len(d.kind) + 1, n, i) BY <1>3 DEF Argument
  <2>2. IsList(<<>>)
    <3>1. DOMAIN <<>> = 1..0 OBVIOUS
    <3> QED BY <3>1 DEF IsList
  <2>3. Keeps(d, e) BY <2>2, NewDraftKeeps DEF Kind
  <2> HIDE DEF e
  <2>4. Keeps(e, Argument(d, n, i, a)) BY <2>1, <2>3, AttachSame, SameKeeps DEF Keeps
  <2> QED BY <2>3, <2>4, KeepsTransitive
<1>4. CASE a.is \notin {"node", "wire", "value"}
  <2>1. Argument(d, n, i, a) = [d EXCEPT !.port[n][i] = a] BY <1>4 DEF Argument
  <2> QED BY <2>1, PortGiven, SameKeeps
<1> QED BY <1>1, <1>2, <1>3, <1>4

\* A call adds one draft and the constants of its defaults.
LEMMA InstantiateKeeps ==
    ASSUME Numbered(draft), NEW k \in Kind, NEW args, IsList(args)
    PROVE  Keeps(draft, Instantiate(k, args))
<1> DEFINE n == Len(draft.kind) + 1
           ports == [i \in DOMAIN args |-> Lit("unset")]
           base == NewDraft(draft, k, ports)
           s == [i \in DOMAIN args |-> i]
           l == Len(s)
           r == Given(n, args, base, s)
<1>1. Keeps(draft, base)
  <2>1. IsList(ports) BY DEF IsList
  <2> HIDE DEF ports
  <2> QED BY <2>1, NewDraftKeeps
<1>2. l \in Nat /\ DOMAIN s = 1..l
  <2>1. PICK m \in Nat : DOMAIN args = 1..m BY DEF IsList
  <2>2. s = [i \in 1..m |-> i] BY <2>1
  <2> HIDE DEF s
  <2>3. Len(s) = m /\ DOMAIN s = 1..m BY <2>2
  <2> QED BY <2>1, <2>3
<1>3. Instantiate(k, args) = r BY DEF Instantiate, FoldLeftDomain, Given
<1> HIDE DEF n, base, s
<1>4. PICK h : Run(h, "argument", [node |-> n, args |-> args], base, s, r)
  BY <1>2, ArgumentRuns
<1> DEFINE S == {j \in 0..l : Keeps(draft, h[j])}
<1> HIDE DEF r
<1>5. h[0] = base /\ h[l] = r /\ \A j \in 1..l : h[j] = Argument(h[j - 1], n, s[j], args[s[j]])
  BY <1>4 DEF Run, Step
<1> HIDE DEF l
<1>6. 0 \in S BY <1>1, <1>2, <1>5
<1>7. ASSUME NEW j \in 1..l, j - 1 \in S PROVE j \in S
  <2>1. Keeps(draft, h[j - 1]) /\ Numbered(h[j - 1]) BY <1>7 DEF Keeps
  <2>2. Keeps(h[j - 1], h[j]) BY <1>5, <2>1, ArgumentKeeps
  <2>3. Keeps(draft, h[j]) BY <2>1, <2>2, KeepsTransitive
  <2>4. j \in 0..l BY <1>2
  <2> QED BY <2>3, <2>4
<1>8. l \in S
  <2> HIDE DEF S
  <2>1. \A j \in 0..l : j \in S BY <1>2, <1>6, <1>7, UptoInduction
  <2> QED BY <1>2, <2>1
<1> QED BY <1>3, <1>5, <1>8

\* A redirect adds no draft and changes no kind.
LEMMA RedirectSame ==
    ASSUME NEW d, Numbered(d), NEW p, NEW alias
    PROVE  Same(d, Redirect(d, p, alias))
<1> DEFINE k == d.port[p.node][p.index].wire
           g == d.wire[k].node
           to == Target(Node(g)).node
           left == [d.outs EXCEPT ![g] = RemoveFirst(@, p.node)]
           o == [left EXCEPT ![to] = Append(@, p.node)]
           w == [d.wire EXCEPT ![k] = [@ EXCEPT !.node = to]]
<1>1. CASE ConnectedTo(d, p, alias)
  <2>1. Redirect(d, p, alias) = [d EXCEPT !.outs = o, !.wire[k].node = to]
    BY <1>1 DEF Redirect
  <2>2. [d EXCEPT !.outs = o, !.wire[k].node = to] = [d EXCEPT !.outs = o, !.wire = w]
    <3> HIDE DEF k, to, o
    <3> QED BY DEF Numbered
  <2> HIDE DEF o, w
  <2>3. Same(d, [d EXCEPT !.outs = o, !.wire = w]) BY OthersGiven
  <2> QED BY <2>1, <2>2, <2>3
<1>2. CASE ~ConnectedTo(d, p, alias)
  BY <1>2 DEF Redirect, Same
<1> QED BY <1>1, <1>2

\* Neither does the resolution of a placeholder.
LEMMA ResolveSame ==
    ASSUME NEW d, Numbered(d), NEW p, NEW ns
    PROVE  Same(d, Resolve(d, p, ns))
<1>1. CASE d.port[p.node][p.index].is = "later"
  <2>1. Resolve(d, p, ns)
          = Attach(d, ns[d.port[p.node][p.index].name].node, p.node, p.index)
    BY <1>1 DEF Resolve
  <2> QED BY <2>1, AttachSame
<1>2. CASE d.port[p.node][p.index].is # "later"
  BY <1>2 DEF Resolve, Same
<1> QED BY <1>1, <1>2

\* A fold over drafts whose steps leave the nodes alone leaves them alone.
LEMMA FoldSame ==
    ASSUME NEW fold \in {"redirect", "drop", "resolve"}, NEW x, NEW base, Numbered(base),
           NEW s, Len(s) \in Nat, NEW r, NEW h, Run(h, fold, x, base, s, r)
    PROVE  Same(base, r)
<1> DEFINE l == Len(s)
           S == {j \in 0..l : Same(base, h[j])}
<1>1. l \in Nat /\ h[0] = base /\ h[l] = r
      /\ \A j \in 1..l : h[j] = Step(fold, x, h[j - 1], s[j])
  BY DEF Run
<1> HIDE DEF l
<1>2. 0 \in S BY <1>1 DEF Same
<1>3. ASSUME NEW j \in 1..l, j - 1 \in S PROVE j \in S
  <2>1. Same(base, h[j - 1]) /\ Numbered(h[j - 1]) BY <1>3 DEF Same
  <2>2. Same(h[j - 1], h[j])
    <3> DEFINE c == h[j - 1]
               e == [c EXCEPT !.outs[s[j]] = Proper(x, @)]
    <3>1. Same(c, Redirect(c, s[j], x)) BY <2>1, RedirectSame
    <3>2. Same(c, Resolve(c, s[j], x)) BY <2>1, ResolveSame
    <3>3. Same(c, e)
      <4>1. e = [c EXCEPT !.outs = [c.outs EXCEPT ![s[j]] = Proper(x, @)]]
        BY <2>1 DEF Numbered
      <4> QED BY <2>1, <4>1, OthersGiven
    <3>4. h[j] = Step(fold, x, c, s[j]) BY <1>1
    <3> HIDE DEF c
    <3>5. \/ h[j] = Redirect(c, s[j], x) \/ h[j] = Resolve(c, s[j], x) \/ h[j] = e
      BY <3>4 DEF Step
    <3> HIDE DEF e
    <3>6. Same(c, h[j]) BY <3>1, <3>2, <3>3, <3>5
    <3> QED BY <3>6 DEF c
  <2>3. Same(base, h[j]) BY <2>1, <2>2 DEF Same
  <2>4. j \in 0..l BY <1>1
  <2> QED BY <2>3, <2>4
<1>4. l \in S
  <2> HIDE DEF S
  <2>1. \A j \in 0..l : j \in S BY <1>1, <1>2, <1>3, UptoInduction
  <2> QED BY <1>1, <2>1
<1> QED BY <1>1, <1>4

\* The ports of a list of nodes are a list.
LEMMA PortsList ==
    ASSUME Numbered(draft), NEW ns \in Seq(DOMAIN draft.kind)
    PROVE  \E X : Ports(ns) \in Seq(X)
<1> DEFINE X == [node : DOMAIN draft.kind, index : Nat]
           of(n) == [i \in DOMAIN draft.port[n] |-> [node |-> n, index |-> i]]
           seqs == [j \in DOMAIN ns |-> of(ns[j])]
<1>1. DOMAIN ns = 1..Len(ns) /\ Len(ns) \in Nat BY LenProperties
<1>2. \A j \in 1..Len(ns) : ns[j] \in DOMAIN draft.kind BY ElementOfSeq
<1>3. \A n \in DOMAIN draft.kind : of(n) \in Seq(X)
  <2>1. TAKE n \in DOMAIN draft.kind
  <2>2. PICK m \in Nat : DOMAIN draft.port[n] = 1..m BY DEF Numbered, IsList
  <2>3. of(n) = [i \in 1..m |-> [node |-> n, index |-> i]] BY <2>2
  <2>4. \A i \in 1..m : [node |-> n, index |-> i] \in X OBVIOUS
  <2> HIDE DEF of, X
  <2> QED BY <2>2, <2>3, <2>4
<1>4. seqs \in Seq(Seq(X))
  <2>1. seqs = [j \in 1..Len(ns) |-> of(ns[j])] BY <1>1
  <2> HIDE DEF of, X, seqs
  <2> QED BY <1>1, <1>2, <1>3, <2>1
<1>5. Ports(ns) = FlattenSeq(seqs) BY DEF Ports
<1> HIDE DEF X, seqs
<1> QED BY <1>4, <1>5, FlattenType

\* The connections of a view leave its nodes alone.
LEMMA ConnectedSame ==
    ASSUME Numbered(draft), NEW v, AllNodes(v) \in Seq(DOMAIN draft.kind)
    PROVE  Same(draft, Connected(v))
<1> DEFINE ns == AllNodes(v)
           ps == Ports(ns)
           al == Alias(v)
           rn == ResolvedNames(v)
           d1 == Redirected(al, draft, ps)
           d2 == Dropped(d1, d1, ns)
           d3 == Resolved(rn, d2, ps)
<1>1. Connected(v) = d3 BY DEF Connected, DropGroups, Redirected, Dropped, Resolved
<1>2. Len(ps) \in Nat /\ DOMAIN ps = 1..Len(ps)
  <2>1. PICK X : ps \in Seq(X) BY PortsList
  <2> HIDE DEF ps
  <2> QED BY <2>1, LenProperties
<1>3. Len(ns) \in Nat /\ DOMAIN ns = 1..Len(ns) BY LenProperties
<1> HIDE DEF ns, ps, al, rn
<1>4. Same(draft, d1)
  <2>1. PICK h : Run(h, "redirect", al, draft, ps, d1) BY <1>2, RedirectRuns
  <2> HIDE DEF d1
  <2> QED BY <1>2, <2>1, FoldSame
<1> HIDE DEF d1
<1>5. Same(d1, d2)
  <2>1. PICK h : Run(h, "drop", d1, d1, ns, d2) BY <1>3, DropRuns
  <2> HIDE DEF d2
  <2> QED BY <1>3, <1>4, <2>1, FoldSame DEF Same
<1> HIDE DEF d2
<1>6. Same(d2, d3)
  <2>1. PICK h : Run(h, "resolve", rn, d2, ps, d3) BY <1>2, ResolveRuns
  <2> HIDE DEF d3
  <2> QED BY <1>2, <1>5, <2>1, FoldSame DEF Same
<1> HIDE DEF d3
<1> QED BY <1>1, <1>4, <1>5, <1>6 DEF Same

-----------------------------------------------------------------------------
(* Each node is in the flow, or among the drafts of one open view.            *)

\* Only the outer view is not that of a group; what child views leave behind are nodes.
ViewOK(v) ==
    /\ DOMAIN v = {"id", "group", "params", "as", "names", "drafts", "results"}
    /\ v.drafts \in Seq(DOMAIN draft.kind) /\ IsInjective(v.drafts)
    /\ \E X : v.results \in Seq(X)
    /\ \A j \in DOMAIN v.results : v.results[j].final \in Seq(DOMAIN draft.kind)

ViewsOK ==
    /\ \E X : views \in Seq(X)
    /\ views # <<>>
    /\ \A j \in DOMAIN views : ViewOK(views[j]) /\ (views[j].group = 0 <=> j = 1)

AddedOK == added \in Seq({n \in DOMAIN draft.kind : ~Group(draft, n)}) /\ IsInjective(added)

\* No node is in two places.
InOnePlace ==
    \A j \in DOMAIN views :
        /\ ToSet(views[j].drafts) \cap ToSet(added) = {}
        /\ \A k \in DOMAIN views :
              j # k => ToSet(views[j].drafts) \cap ToSet(views[k].drafts) = {}

InSomePlace ==
    \A n \in DOMAIN draft.kind :
        \/ Group(draft, n) \/ n \in ToSet(added)
        \/ \E j \in DOMAIN views : n \in ToSet(views[j].drafts)

Definition == Numbered(draft) /\ ViewsOK /\ AddedOK /\ InOnePlace /\ InSomePlace

NodesInv == (status = "open" => Definition) /\ NodesAddedOnce

\* A statement begins with an empty flow.
LEMMA InitNodes == Init => NodesInv
<1> SUFFICES ASSUME Init PROVE NodesInv OBVIOUS
<1> USE DEF Init
<1>1. <<>> \in Seq(Kind) /\ \A X : <<>> \in Seq(X) BY EmptySeq
<1>2. DOMAIN <<>> = {} OBVIOUS
<1>3. Numbered(draft) BY <1>1, <1>2 DEF Numbered
<1>4. ViewsOK
  <2> DEFINE v == [id |-> 1, group |-> 0, params |-> <<>>, as |-> "f",
                   names |-> <<>>, drafts |-> <<>>, results |-> <<>>]
  <2>1. views = <<v>> OBVIOUS
  <2>2. ViewOK(v)
    <3>1. v.drafts = <<>> /\ v.results = <<>> OBVIOUS
    <3>2. DOMAIN v = {"id", "group", "params", "as", "names", "drafts", "results"} OBVIOUS
    <3> HIDE DEF v
    <3> QED BY <1>1, <1>2, <3>1, <3>2 DEF ViewOK, IsInjective
  <2>3. v.group = 0 OBVIOUS
  <2> HIDE DEF v
  <2>4. views \in Seq({v}) /\ views # <<>> /\ DOMAIN views = {1} /\ views[1] = v BY <2>1
  <2> QED BY <2>2, <2>3, <2>4 DEF ViewsOK
<1>5. AddedOK BY <1>1, <1>2 DEF AddedOK, IsInjective
<1>6. InOnePlace
  <2>1. DOMAIN views = {1} /\ views[1].drafts = <<>> OBVIOUS
  <2> QED BY <1>2, <2>1 DEF InOnePlace, ToSet
<1>7. InSomePlace BY <1>2 DEF InSomePlace
<1> QED BY <1>3, <1>4, <1>5, <1>6, <1>7 DEF NodesInv, Definition, NodesAddedOnce

\* The nodes that are registered are the new ones, one after the other.
LEMMA RegisteredNew ==
    ASSUME Numbered(draft), Keeps(draft, draft')
    PROVE  /\ Registered \in Seq(DOMAIN draft'.kind)
           /\ DOMAIN draft'.kind = DOMAIN draft.kind \cup ToSet(Registered)
           /\ DOMAIN draft.kind \cap ToSet(Registered) = {}
           /\ IsInjective(Registered)
<1> DEFINE l == Len(draft.kind)
           m == Len(draft'.kind)
<1>1. /\ l \in Nat /\ DOMAIN draft.kind = 1..l
      /\ m \in Nat /\ DOMAIN draft'.kind = 1..m /\ l <= m
  BY LenProperties DEF Keeps, Numbered
<1>2. Registered = [j \in 1..(m - l) |-> l + j] BY DEF Registered
<1> HIDE DEF l, m
<1>3. m - l \in Nat /\ \A j \in 1..(m - l) : l + j \in 1..m BY <1>1
<1>4. Registered \in Seq(1..m)
  <2> DEFINE q == m - l
             N == 1..m
             r == [j \in 1..q |-> l + j]
  <2>1. q \in Nat /\ \A j \in 1..q : l + j \in N BY <1>3
  <2>2. Registered = r BY <1>2
  <2> HIDE DEF q, N
  <2>3. r \in Seq(N) BY <2>1
  <2> QED BY <2>2, <2>3 DEF N
<1>5. ToSet(Registered) = (l + 1)..m
  <2>1. \A n \in (l + 1)..m : n - l \in 1..(m - l) /\ l + (n - l) = n BY <1>1
  <2>2. \A j \in 1..(m - l) : l + j \in (l + 1)..m BY <1>1
  <2>3. ToSet(Registered) = {l + j : j \in 1..(m - l)} BY <1>2 DEF ToSet
  <2> QED BY <2>1, <2>2, <2>3
<1>6. IsInjective(Registered) BY <1>1, <1>2 DEF IsInjective
<1>7. 1..m = (1..l) \cup ((l + 1)..m) /\ (1..l) \cap ((l + 1)..m) = {} BY <1>1
<1> QED BY <1>1, <1>4, <1>5, <1>6, <1>7

\* Two lists without repetitions and without a common element, one behind the other.
LEMMA InjectiveConcat ==
    ASSUME NEW X, NEW s \in Seq(X), NEW t \in Seq(X)
    PROVE  /\ s \o t \in Seq(X) /\ ToSet(s \o t) = ToSet(s) \cup ToSet(t)
           /\ IsInjective(s) /\ IsInjective(t) /\ ToSet(s) \cap ToSet(t) = {}
                => IsInjective(s \o t)
<1> DEFINE m == Len(s)
           n == Len(t)
           r == s \o t
<1>1. /\ m \in Nat /\ n \in Nat /\ DOMAIN s = 1..m /\ DOMAIN t = 1..n
      /\ r \in Seq(X) /\ DOMAIN r = 1..(m + n)
      /\ \A i \in 1..(m + n) : r[i] = IF i <= m THEN s[i] ELSE t[i - m]
  <2>1. /\ r \in Seq(X) /\ Len(r) = m + n
        /\ \A i \in 1..(m + n) : r[i] = IF i <= m THEN s[i] ELSE t[i - m]
    BY ConcatProperties
  <2> HIDE DEF r
  <2> QED BY <2>1, LenProperties
<1> HIDE DEF m, n, r
<1>2. \A i \in 1..(m + n) : IF i <= m THEN i \in 1..m ELSE i - m \in 1..n BY <1>1
<1>3. ToSet(r) = ToSet(s) \cup ToSet(t)
  <2>1. ASSUME NEW i \in 1..(m + n) PROVE r[i] \in ToSet(s) \cup ToSet(t)
    BY <1>1, <1>2 DEF ToSet
  <2>2. ASSUME NEW i \in 1..m PROVE s[i] \in ToSet(r)
    <3>1. i \in 1..(m + n) /\ i <= m BY <1>1
    <3> QED BY <1>1, <3>1 DEF ToSet
  <2>3. ASSUME NEW i \in 1..n PROVE t[i] \in ToSet(r)
    <3>1. i + m \in 1..(m + n) /\ ~(i + m <= m) /\ (i + m) - m = i BY <1>1
    <3> QED BY <1>1, <3>1 DEF ToSet
  <2> QED BY <1>1, <2>1, <2>2, <2>3 DEF ToSet
<1>4. ASSUME IsInjective(s), IsInjective(t), ToSet(s) \cap ToSet(t) = {}
      PROVE  IsInjective(r)
  <2>1. \A i \in 1..m, j \in 1..n : s[i] # t[j] BY <1>1, <1>4 DEF ToSet
  <2>2. /\ \A i, j \in 1..m : s[i] = s[j] => i = j
        /\ \A i, j \in 1..n : t[i] = t[j] => i = j
    BY <1>1, <1>4 DEF IsInjective
  <2>3. ASSUME NEW i \in 1..(m + n), NEW j \in 1..(m + n), r[i] = r[j] PROVE i = j
    <3>1. CASE i <= m /\ j <= m BY <1>1, <1>2, <2>2, <2>3, <3>1
    <3>2. CASE i <= m /\ ~(j <= m) BY <1>1, <1>2, <2>1, <2>3, <3>2
    <3>3. CASE ~(i <= m) /\ j <= m BY <1>1, <1>2, <2>1, <2>3, <3>3
    <3>4. CASE ~(i <= m) /\ ~(j <= m)
      <4>1. i - m = j - m BY <1>1, <1>2, <2>2, <2>3, <3>4
      <4> QED BY <1>1, <4>1
    <3> QED BY <3>1, <3>2, <3>3, <3>4
  <2> QED BY <1>1, <2>3 DEF IsInjective
<1> QED BY <1>1, <1>3, <1>4 DEF r

\* The nodes of a view and of its templates are a list of nodes.
LEMMA AllNodesList ==
    ASSUME Numbered(draft), NEW v, ViewOK(v)
    PROVE  AllNodes(v) \in Seq(DOMAIN draft.kind)
<1> DEFINE N == DOMAIN draft.kind
           finals == [j \in DOMAIN v.results |-> v.results[j].final]
<1>1. PICK X : v.results \in Seq(X) BY DEF ViewOK
<1>2. Len(v.results) \in Nat /\ DOMAIN v.results = 1..Len(v.results) BY <1>1, LenProperties
<1>3. finals \in Seq(Seq(N))
  <2> DEFINE l == Len(v.results)
  <2>1. finals = [j \in 1..l |-> finals[j]] BY <1>2
  <2>2. \A j \in 1..l : finals[j] \in Seq(N) BY <1>2 DEF ViewOK
  <2>3. l \in Nat BY <1>2
  <2> HIDE DEF finals, l, N
  <2> QED BY <2>1, <2>2, <2>3
<1>4. FlattenSeq(finals) \in Seq(N)
  <2> HIDE DEF finals, N
  <2> QED BY <1>3, FlattenType
<1>5. OwnNodes(v) \in Seq(N)
  <2>1. v.drafts \in Seq(N) BY DEF ViewOK
  <2> HIDE DEF N
  <2>2. Proper(draft, v.drafts) \in Seq({n \in N : ~Group(draft, n)}) BY <2>1, ProperList
  <2>3. Proper(draft, v.drafts) \in Seq(N) BY <2>2, SeqMonotonic
  <2> QED BY <2>3 DEF OwnNodes
<1>6. AllNodes(v) = FlattenSeq(finals) \o OwnNodes(v) BY DEF AllNodes
<1> HIDE DEF finals, N
<1>7. AllNodes(v) \in Seq(N) BY <1>4, <1>5, <1>6, ConcatProperties
<1> QED BY <1>7 DEF N

\* What is written about a view besides its drafts and names.
SameView(v, w) == DOMAIN w = DOMAIN v /\ w.group = v.group /\ w.results = v.results

\* Drafts are registered with the innermost view, and at most a view without any is opened.
Registers ==
    /\ Keeps(draft, draft')
    /\ added' = added
    /\ \E X : views' \in Seq(X)
    /\ DOMAIN views \subseteq DOMAIN views'
    /\ \A j \in DOMAIN views :
          /\ SameView(views[j], views'[j])
          /\ views'[j].drafts = IF j = Len(views) THEN views[j].drafts \o Registered
                                                  ELSE views[j].drafts
    /\ \A j \in DOMAIN views' \ DOMAIN views :
          /\ DOMAIN views'[j] = {"id", "group", "params", "as", "names", "drafts", "results"}
          /\ views'[j].group # 0 /\ views'[j].drafts = <<>> /\ views'[j].results = <<>>

\* The new drafts are registered with the innermost view: each is still in one place.
LEMMA RegistersKeeps == ASSUME Definition, Registers PROVE Definition'
<1> DEFINE N == DOMAIN draft.kind
           M == DOMAIN draft'.kind
           l == Len(views)
<1>1. /\ Registered \in Seq(M) /\ M = N \cup ToSet(Registered)
      /\ N \cap ToSet(Registered) = {} /\ IsInjective(Registered)
  BY RegisteredNew DEF Definition, Registers
<1>2. /\ l \in Nat /\ DOMAIN views = 1..l /\ l # 0 /\ l \in DOMAIN views
  <2>1. PICK X : views \in Seq(X) BY DEF Definition, ViewsOK
  <2>2. l \in Nat /\ DOMAIN views = 1..l BY <2>1, LenProperties
  <2>3. views # <<>> BY DEF Definition, ViewsOK
  <2>4. l # 0 BY <2>1, <2>3, EmptySeq DEF l
  <2> QED BY <2>2, <2>4
<1>3. \A n \in N : n \in M /\ (Group(draft', n) <=> Group(draft, n))
  <2>1. \A n \in 1..Len(draft.kind) : draft'.kind[n] = draft.kind[n] BY DEF Registers, Keeps
  <2>2. N = 1..Len(draft.kind) BY LenProperties DEF Definition, Numbered
  <2> QED BY <1>1, <2>1, <2>2 DEF Group
<1>4. ASSUME NEW j \in DOMAIN views
      PROVE  /\ views[j].drafts \in Seq(N) /\ IsInjective(views[j].drafts)
             /\ ToSet(views[j].drafts) \in SUBSET N
  <2>1. views[j].drafts \in Seq(N) /\ IsInjective(views[j].drafts)
    BY DEF Definition, ViewsOK, ViewOK
  <2> HIDE DEF N
  <2>2. ToSet(views[j].drafts) \in SUBSET N
    <3>1. Range(views[j].drafts) \in SUBSET N BY <2>1, RangeOfSeq
    <3> QED BY <3>1 DEF Range, ToSet
  <2> QED BY <2>1, <2>2
<1>5. ASSUME NEW j \in DOMAIN views
      PROVE  /\ views'[j].drafts \in Seq(M) /\ IsInjective(views'[j].drafts)
             /\ ToSet(views'[j].drafts) =
                  IF j = l THEN ToSet(views[j].drafts) \cup ToSet(Registered)
                           ELSE ToSet(views[j].drafts)
  <2>1. views[j].drafts \in Seq(M)
    <3> HIDE DEF N, M
    <3> QED BY <1>1, <1>4, SeqMonotonic
  <2>2. ToSet(views[j].drafts) \cap ToSet(Registered) = {} BY <1>1, <1>4
  <2>3. views'[j].drafts = IF j = l THEN views[j].drafts \o Registered ELSE views[j].drafts
    BY DEF Registers
  <2>4. IsInjective(views[j].drafts) BY <1>4
  <2> DEFINE s == views[j].drafts
             t == Registered
  <2>5. /\ s \o t \in Seq(M) /\ IsInjective(s \o t)
        /\ ToSet(s \o t) = ToSet(s) \cup ToSet(t)
    <3>1. /\ s \in Seq(M) /\ t \in Seq(M) /\ IsInjective(s) /\ IsInjective(t)
          /\ ToSet(s) \cap ToSet(t) = {}
      BY <1>1, <2>1, <2>2, <2>4
    <3> HIDE DEF M, s, t
    <3> QED BY <3>1, InjectiveConcat
  <2> HIDE DEF M, l
  <2> QED BY <2>1, <2>3, <2>4, <2>5
<1>6. ASSUME NEW j \in DOMAIN views', j \notin DOMAIN views
      PROVE  views'[j].drafts = <<>> /\ ToSet(views'[j].drafts) = {}
  <2>1. views'[j].drafts = <<>> BY <1>6 DEF Registers
  <2>2. DOMAIN <<>> = {} OBVIOUS
  <2> QED BY <2>1, <2>2 DEF ToSet
<1>7. ToSet(added) \in SUBSET N
  <2>1. added \in Seq({n \in N : ~Group(draft, n)}) BY DEF Definition, AddedOK
  <2>2. Range(added) \in SUBSET {n \in N : ~Group(draft, n)} BY <2>1, RangeOfSeq
  <2> QED BY <2>2 DEF Range, ToSet
<1>8. ViewsOK'
  <2>1. \E X : views' \in Seq(X) BY DEF Registers
  <2>2. views' # <<>>
    <3>1. l \in DOMAIN views' BY <1>2 DEF Registers
    <3>2. DOMAIN <<>> = {} OBVIOUS
    <3> QED BY <3>1, <3>2
  <2>3. ASSUME NEW j \in DOMAIN views
        PROVE  ViewOK(views[j])' /\ (views'[j].group = 0 <=> j = 1)
    <3>1. ViewOK(views[j]) /\ (views[j].group = 0 <=> j = 1) BY DEF Definition, ViewsOK
    <3>2. SameView(views[j], views'[j]) BY DEF Registers
    <3>3. \A i \in DOMAIN views[j].results : views[j].results[i].final \in Seq(M)
      <4>1. \A i \in DOMAIN views[j].results : views[j].results[i].final \in Seq(N)
        BY <3>1 DEF ViewOK
      <4> HIDE DEF N, M
      <4> QED BY <1>1, <4>1, SeqMonotonic
    <3>4. ViewOK(views[j])' BY <1>5, <3>1, <3>2, <3>3 DEF ViewOK, SameView
    <3> QED BY <3>1, <3>2, <3>4 DEF SameView
  <2>4. ASSUME NEW j \in DOMAIN views', j \notin DOMAIN views
        PROVE  ViewOK(views[j])' /\ (views'[j].group = 0 <=> j = 1)
    <3>1. j # 1 BY <1>2, <2>4
    <3>2. /\ DOMAIN views'[j] = {"id", "group", "params", "as", "names", "drafts", "results"}
          /\ views'[j].group # 0 /\ views'[j].drafts = <<>> /\ views'[j].results = <<>>
      BY <2>4 DEF Registers
    <3>3. <<>> \in Seq(M) /\ (\A X : <<>> \in Seq(X)) /\ DOMAIN <<>> = {} BY EmptySeq
    <3>4. ViewOK(views[j])' BY <3>2, <3>3 DEF ViewOK, IsInjective
    <3> QED BY <3>1, <3>2, <3>4
  <2> QED BY <2>1, <2>2, <2>3, <2>4 DEF ViewsOK
<1>9. AddedOK'
  <2>1. added \in Seq({n \in N : ~Group(draft, n)}) /\ IsInjective(added)
    BY DEF Definition, AddedOK
  <2>2. {n \in N : ~Group(draft, n)} \subseteq {n \in M : ~Group(draft', n)} BY <1>3
  <2> DEFINE A == {n \in N : ~Group(draft, n)}
             B == {n \in M : ~Group(draft', n)}
  <2>3. added \in Seq(B)
    <3>1. added \in Seq(A) /\ A \subseteq B BY <2>1, <2>2
    <3> HIDE DEF A, B
    <3> QED BY <3>1, SeqMonotonic
  <2> QED BY <2>1, <2>3 DEF AddedOK, Registers
<1>10. InOnePlace'
  <2>1. ASSUME NEW j \in DOMAIN views' PROVE ToSet(views'[j].drafts) \cap ToSet(added) = {}
    <3>1. CASE j \in DOMAIN views
      <4>1. ToSet(views[j].drafts) \cap ToSet(added) = {} BY <3>1 DEF Definition, InOnePlace
      <4> QED BY <1>1, <1>5, <1>7, <3>1, <4>1
    <3> QED BY <1>6, <3>1
  <2>2. ASSUME NEW j \in DOMAIN views', NEW k \in DOMAIN views', j # k
        PROVE  ToSet(views'[j].drafts) \cap ToSet(views'[k].drafts) = {}
    <3>1. CASE j \in DOMAIN views /\ k \in DOMAIN views
      <4>1. ToSet(views[j].drafts) \cap ToSet(views[k].drafts) = {}
        BY <2>2, <3>1 DEF Definition, InOnePlace
      <4>2. /\ ToSet(views[j].drafts) \cap ToSet(Registered) = {}
            /\ ToSet(views[k].drafts) \cap ToSet(Registered) = {}
        BY <1>1, <1>4, <3>1
      <4> QED BY <1>5, <2>2, <3>1, <4>1, <4>2
    <3> QED BY <1>6, <3>1
  <2>3. added' = added BY DEF Registers
  <2> QED BY <2>1, <2>2, <2>3 DEF InOnePlace
<1>11. InSomePlace'
  <2>1. ASSUME NEW n \in M
        PROVE  \/ Group(draft', n) \/ n \in ToSet(added)
               \/ \E j \in DOMAIN views' : n \in ToSet(views'[j].drafts)
    <3>0. DOMAIN views \subseteq DOMAIN views' BY DEF Registers
    <3>1. CASE n \in N
      <4>1. CASE \E j \in DOMAIN views : n \in ToSet(views[j].drafts)
        BY <1>5, <3>0, <4>1
      <4>2. CASE Group(draft, n) BY <1>3, <3>1, <4>2
      <4> QED BY <3>1, <4>1, <4>2 DEF Definition, InSomePlace
    <3>2. CASE n \in ToSet(Registered)
      <4>1. n \in ToSet(views'[l].drafts) BY <1>2, <1>5, <3>2
      <4> QED BY <1>2, <3>0, <4>1
    <3> QED BY <1>1, <3>1, <3>2
  <2>2. added' = added BY DEF Registers
  <2> QED BY <2>1, <2>2 DEF InSomePlace
<1> QED BY <1>8, <1>9, <1>10, <1>11 DEF Definition, Registers, Keeps

\* The innermost view exists.
LEMMA LastView ==
    ASSUME Definition
    PROVE  /\ Len(views) \in Nat \ {0} /\ DOMAIN views = 1..Len(views)
           /\ Len(views) \in DOMAIN views /\ Here = views[Len(views)] /\ ViewOK(Here)
<1>1. PICK X : views \in Seq(X) BY DEF Definition, ViewsOK
<1>2. Len(views) \in Nat /\ DOMAIN views = 1..Len(views) BY <1>1, LenProperties
<1>3. views # <<>> BY DEF Definition, ViewsOK
<1>4. Len(views) # 0 BY <1>1, <1>3, EmptySeq
<1>5. Len(views) \in DOMAIN views BY <1>2, <1>4
<1>6. Here = views[Len(views)] BY DEF Here, Last
<1> QED BY <1>2, <1>4, <1>5, <1>6 DEF Definition, ViewsOK

\* The innermost view is changed.
LEMMA HereChanged ==
    ASSUME Definition, NEW w
    PROVE  LET vs == [views EXCEPT ![Len(views)] = w] IN
           /\ \E X : vs \in Seq(X)
           /\ DOMAIN vs = DOMAIN views
           /\ \A j \in DOMAIN views : vs[j] = IF j = Len(views) THEN w ELSE views[j]
<1> DEFINE vs == [views EXCEPT ![Len(views)] = w]
<1>1. PICK X : views \in Seq(X) BY DEF Definition, ViewsOK
<1>2. DOMAIN vs = DOMAIN views OBVIOUS
<1>3. \A j \in DOMAIN views : vs[j] = IF j = Len(views) THEN w ELSE views[j] OBVIOUS
<1>4. views \in Seq(X \cup {w}) BY <1>1, SeqMonotonic
<1>5. vs \in Seq(X \cup {w})
  <2>1. Len(views) \in 1..Len(views) BY LastView
  <2> DEFINE Y == X \cup {w}
  <2>2. views \in Seq(Y) /\ w \in Y BY <1>4
  <2> HIDE DEF Y
  <2> QED BY <2>1, <2>2, ExceptSeq DEF Y
<1> QED BY <1>2, <1>3, <1>5

\* The arguments of a statement are a list.
LEMMA BoundedList ==
    ASSUME NEW S, NEW n, NEW args \in BoundedSeq(S, n)
    PROVE  IsList(args)
<1>1. PICK m \in 0..n : args \in [1..m -> S] BY DEF BoundedSeq, SeqOf
<1> QED BY <1>1 DEF IsList

\* The definition of a node keeps each draft in its place.
LEMMA DefineNodeKeeps ==
    ASSUME Definition, NEW x, NEW args, IsList(args), DefineNode(x, args)
    PROVE  Definition' /\ Registers
<1> DEFINE a == Assign(Here, x, Node(Len(draft.kind) + 1))
           w == [a EXCEPT !.drafts = @ \o Registered]
<1>1. Keeps(draft, draft')
  <2>1. draft' = Instantiate("node", args) BY DEF DefineNode
  <2> QED BY <2>1, InstantiateKeeps DEF Definition, Kind
<1>2. views' = [views EXCEPT ![Len(views)] = w] BY DEF DefineNode
<1>3. SameView(Here, w) /\ w.drafts = Here.drafts \o Registered
  BY LastView DEF SameView, Assign, ViewOK
<1> HIDE DEF w
<1>4. /\ \E X : views' \in Seq(X)
      /\ DOMAIN views' = DOMAIN views
      /\ \A j \in DOMAIN views : views'[j] = IF j = Len(views) THEN w ELSE views[j]
  BY <1>2, HereChanged
<1>5. added' = added BY DEF DefineNode
<1>6. Registers BY <1>1, <1>3, <1>4, <1>5, LastView DEF Registers, SameView
<1> QED BY <1>6, RegistersKeeps

\* A kept output adds no draft.
LEMMA KeepOutputKeeps ==
    ASSUME Definition, NEW x, NEW y, KeepOutput(x, y)
    PROVE  Definition' /\ Registers
<1> DEFINE m == Read(y).node
           k == Len(draft.wire) + 1
           w == Assign(Here, x, Wire(k))
<1>1. Same(draft, draft')
  <2>1. draft' = [draft EXCEPT !.wire = Append(@, [node |-> m, of |-> m])] BY DEF KeepOutput
  <2> QED BY <2>1 DEF Definition, Numbered, Same
<1>2. views' = [views EXCEPT ![Len(views)] = w] BY DEF KeepOutput
<1>3. SameView(Here, w) /\ w.drafts = Here.drafts
  BY LastView DEF SameView, Assign, ViewOK
<1>4. Here.drafts \o Registered = Here.drafts
  <2>1. Len(draft.kind) \in Nat BY LenProperties DEF Definition, Numbered
  <2>2. Registered = [j \in 1..(Len(draft.kind) - Len(draft.kind)) |-> Len(draft.kind) + j]
    BY <1>1 DEF Registered, Same
  <2>3. 1..(Len(draft.kind) - Len(draft.kind)) = {} BY <2>1
  <2>4. Registered = <<>> BY <2>2, <2>3
  <2> QED BY <2>4, LastView, ConcatEmptySeq DEF ViewOK
<1> HIDE DEF w
<1>5. /\ \E X : views' \in Seq(X)
      /\ DOMAIN views' = DOMAIN views
      /\ \A j \in DOMAIN views : views'[j] = IF j = Len(views) THEN w ELSE views[j]
  BY <1>2, HereChanged
<1>6. added' = added BY DEF KeepOutput
<1>7. Keeps(draft, draft') BY <1>1, SameKeeps DEF Definition
<1>8. Registers BY <1>3, <1>4, <1>5, <1>6, <1>7, LastView DEF Registers, SameView
<1> QED BY <1>8, RegistersKeeps

\* A call of a template registers the group with the caller and opens a view for it.
LEMMA CallTemplateKeeps ==
    ASSUME Definition, NEW x, NEW args, IsList(args), CallTemplate(x, args)
    PROVE  /\ Definition' /\ Registers
           /\ DOMAIN views' = 1..(Len(views) + 1)
           /\ views'[Len(views) + 1] = View(Len(draft.kind) + 1, args, x)
           /\ \A j \in DOMAIN views :
                 views'[j] = IF j = Len(views) THEN [Here EXCEPT !.drafts = @ \o Registered]
                                               ELSE views[j]
<1> DEFINE w == [Here EXCEPT !.drafts = @ \o Registered]
           vs == [views EXCEPT ![Len(views)] = w]
           c == View(Len(draft.kind) + 1, args, x)
           l == Len(views)
<1>1. Keeps(draft, draft')
  <2>1. draft' = Instantiate("group", args) BY DEF CallTemplate
  <2> QED BY <2>1, InstantiateKeeps DEF Definition, Kind
<1>2. views' = Append(vs, c)
  <2>1. views' = Append([views EXCEPT ![Len(views)].drafts = @ \o Registered], c)
    BY DEF CallTemplate
  <2>2. [views EXCEPT ![Len(views)].drafts = @ \o Registered] = vs BY LastView
  <2> QED BY <2>1, <2>2
<1>3. SameView(Here, w) /\ w.drafts = Here.drafts \o Registered
  BY LastView DEF SameView, ViewOK
<1>4. /\ DOMAIN c = {"id", "group", "params", "as", "names", "drafts", "results"}
      /\ c.group # 0 /\ c.drafts = <<>> /\ c.results = <<>>
  <2>1. Len(draft.kind) \in Nat BY LenProperties DEF Definition, Numbered
  <2> QED BY <2>1 DEF View
<1> HIDE DEF w
<1>5. /\ \E X : vs \in Seq(X)
      /\ DOMAIN vs = DOMAIN views
      /\ \A j \in DOMAIN views : vs[j] = IF j = Len(views) THEN w ELSE views[j]
  BY HereChanged
<1> HIDE DEF vs, c
<1>6. l \in Nat /\ DOMAIN views = 1..l BY LastView
<1>7. /\ \E X : views' \in Seq(X)
      /\ DOMAIN views' = 1..(l + 1) /\ views'[l + 1] = c
      /\ \A j \in DOMAIN views : views'[j] = vs[j]
  <2>1. PICK X : vs \in Seq(X) BY <1>5
  <2>2. vs \in Seq(X \cup {c}) BY <2>1, SeqMonotonic
  <2>3. DOMAIN vs = 1..Len(vs) /\ Len(vs) \in Nat BY <2>1, LenProperties
  <2>4. Len(vs) = l BY <1>5, <1>6, <2>3, SameLength
  <2>5. /\ views' \in Seq(X \cup {c}) /\ Len(views') = l + 1 /\ views'[l + 1] = c
        /\ \A j \in 1..l : views'[j] = vs[j]
    BY <1>2, <2>2, <2>4, AppendProperties
  <2>6. DOMAIN views' = 1..(l + 1) BY <2>5, LenProperties
  <2> QED BY <1>6, <2>5, <2>6
<1>8. /\ DOMAIN views \subseteq DOMAIN views'
      /\ \A j \in DOMAIN views' \ DOMAIN views : views'[j] = c
  <2>1. \A j \in 1..(l + 1) : j \in 1..l \/ j = l + 1 BY <1>6
  <2>2. \A j \in 1..l : j \in 1..(l + 1) BY <1>6
  <2> QED BY <1>6, <1>7, <2>1, <2>2
<1>9. added' = added BY DEF CallTemplate
<1>10. ASSUME NEW j \in DOMAIN views
       PROVE  /\ SameView(views[j], views'[j])
              /\ views'[j].drafts = IF j = Len(views) THEN views[j].drafts \o Registered
                                                      ELSE views[j].drafts
  BY <1>3, <1>5, <1>7, LastView DEF SameView
<1>11. Registers BY <1>1, <1>4, <1>7, <1>8, <1>9, <1>10 DEF Registers
<1>12. \A j \in DOMAIN views : views'[j] = IF j = Len(views) THEN w ELSE views[j]
  BY <1>5, <1>7
<1> QED BY <1>7, <1>11, <1>12, RegistersKeeps DEF w, c, l

\* The nodes of the innermost view: what finalizing it adds to the flow.
LEMMA OwnNodesAdded ==
    ASSUME Definition
    PROVE  /\ added \o OwnNodes(Here) \in Seq({n \in DOMAIN draft.kind : ~Group(draft, n)})
           /\ IsInjective(added \o OwnNodes(Here))
           /\ ToSet(added \o OwnNodes(Here))
                = ToSet(added) \cup {n \in ToSet(Here.drafts) : ~Group(draft, n)}
<1> DEFINE N == DOMAIN draft.kind
           P == {n \in N : ~Group(draft, n)}
           own == OwnNodes(Here)
<1>1. Here.drafts \in Seq(N) /\ IsInjective(Here.drafts) BY LastView DEF ViewOK
<1>2. added \in Seq(P) /\ IsInjective(added) BY DEF Definition, AddedOK
<1>3. /\ own \in Seq(P) /\ ToSet(own) = {n \in ToSet(Here.drafts) : ~Group(draft, n)}
      /\ IsInjective(own)
  <2> HIDE DEF N
  <2> QED BY <1>1, ProperList DEF OwnNodes
<1>4. ToSet(added) \cap ToSet(own) = {}
  <2>1. ToSet(Here.drafts) \cap ToSet(added) = {} BY LastView DEF Definition, InOnePlace
  <2> QED BY <1>3, <2>1
<1>5. /\ added \o own \in Seq(P) /\ IsInjective(added \o own)
      /\ ToSet(added \o own) = ToSet(added) \cup ToSet(own)
  <2> HIDE DEF P, N, own
  <2> QED BY <1>2, <1>3, <1>4, InjectiveConcat
<1> QED BY <1>3, <1>5

\* The view around the innermost one, when that has returned.
ReturnedTo ==
    [Assign(views[Len(views) - 1], Here.as, Node(Here.group)) EXCEPT
        !.results = Append(@, [names |-> ResolvedNames(Here), final |-> AllNodes(Here)])]

\* A template that returns leaves its drafts to the view that called it.
LEMMA ReturnKeeps ==
    ASSUME Definition, NEW a, ReturnFromTemplate(a), status = "open", status' = "open"
    PROVE  /\ Definition'
           /\ Len(views) - 1 \in DOMAIN views
           /\ DOMAIN views' = 1..(Len(views) - 1)
           /\ \A j \in 1..(Len(views) - 1) :
                 views'[j] = IF j = Len(views) - 1 THEN ReturnedTo ELSE views[j]
<1> DEFINE l == Len(views)
           N == DOMAIN draft.kind
           outer == views[l - 1]
           result == [names |-> ResolvedNames(Here), final |-> AllNodes(Here)]
           w == [Assign(outer, Here.as, Node(Here.group)) EXCEPT !.results = Append(@, result)]
           front == SubSeq(views, 1, l - 2)
<1>1. /\ Here.group # 0 /\ draft' = Connected(Here) /\ added' = added \o OwnNodes(Here)
      /\ views' = Append(front, w)
  <2>1. CASE Refused(Here) BY <2>1 DEF ReturnFromTemplate
  <2>2. CASE ~Refused(Here) BY <2>2 DEF ReturnFromTemplate
  <2> QED BY <2>1, <2>2
<1>2. /\ l \in Nat /\ DOMAIN views = 1..l /\ l \in DOMAIN views /\ Here = views[l]
  BY LastView
<1>3. \A j \in DOMAIN views : ViewOK(views[j]) /\ (views[j].group = 0 <=> j = 1)
  BY DEF Definition, ViewsOK
<1>4. l # 1 BY <1>1, <1>2, <1>3
<1>5. l - 1 \in DOMAIN views /\ l - 2 \in Nat
  <2> HIDE DEF l
  <2> QED BY <1>2, <1>4
<1>6. Same(draft, draft')
  <2>1. AllNodes(Here) \in Seq(N) BY AllNodesList, LastView DEF Definition
  <2> QED BY <1>1, <2>1, ConnectedSame DEF Definition
<1>7. ViewOK(outer) BY <1>3, <1>5
<1>8. /\ DOMAIN w = DOMAIN outer /\ w.group = outer.group /\ w.drafts = outer.drafts
      /\ w.results = Append(outer.results, result)
  BY <1>7 DEF Assign, ViewOK
<1>9. /\ \E X : w.results \in Seq(X)
      /\ \A j \in DOMAIN w.results : w.results[j].final \in Seq(N)
  <2>1. PICK X : outer.results \in Seq(X) BY <1>7 DEF ViewOK
  <2>2. outer.results \in Seq(X \cup {result}) BY <2>1, SeqMonotonic
  <2>3. result.final \in Seq(N) BY AllNodesList, LastView DEF Definition
  <2>4. \A j \in DOMAIN outer.results : outer.results[j].final \in Seq(N) BY <1>7 DEF ViewOK
  <2> DEFINE m == Len(outer.results)
  <2>5. m \in Nat /\ DOMAIN outer.results = 1..m BY <2>1, LenProperties
  <2> HIDE DEF m, result, N, outer, w
  <2>6. /\ w.results \in Seq(X \cup {result}) /\ Len(w.results) = m + 1
        /\ w.results[m + 1] = result /\ \A j \in 1..m : w.results[j] = outer.results[j]
    BY <1>8, <2>2, AppendProperties DEF m
  <2>7. DOMAIN w.results = 1..(m + 1) BY <2>6, LenProperties
  <2>8. \A j \in 1..(m + 1) : j \in 1..m \/ j = m + 1 BY <2>5
  <2> QED BY <2>3, <2>4, <2>5, <2>6, <2>7, <2>8
<1>10. ViewOK(w) /\ (w.group = 0 <=> l - 1 = 1)
  <2>1. w.group = 0 <=> l - 1 = 1 BY <1>3, <1>5, <1>8
  <2> HIDE DEF w, N, outer
  <2> QED BY <1>7, <1>8, <1>9, <2>1 DEF ViewOK, N
<1>11. /\ \E X : views' \in Seq(X)
       /\ DOMAIN views' = 1..(l - 1)
       /\ \A j \in 1..(l - 1) : views'[j] = IF j = l - 1 THEN w ELSE views[j]
  <2>1. PICK X : views \in Seq(X) BY DEF Definition, ViewsOK
  <2> DEFINE Y == X \cup {w}
  <2>2. views \in Seq(Y) BY <2>1, SeqMonotonic
  <2>3. w \in Y OBVIOUS
  <2> HIDE DEF Y, w, l
  <2>4. \A i \in 1..l : views[i] \in Y BY <1>2, <2>2, ElementOfSeq DEF l
  <2>5. /\ front \in Seq(Y) /\ Len(front) = l - 2 /\ \A i \in 1..(l - 2) : front[i] = views[i]
    <3>1. front = [i \in 1..(l - 2) |-> views[i]]
      <4>1. 1 + (l - 2) - 1 = l - 2 BY <1>2
      <4> QED BY <1>2, <1>5, <4>1
    <3>2. \A i \in 1..(l - 2) : views[i] \in Y BY <1>2, <1>5, <2>4
    <3> HIDE DEF front
    <3>3. front \in Seq(Y) /\ Len(front) = l - 2 BY <1>5, <3>1, <3>2
    <3> QED BY <3>1, <3>3
  <2> HIDE DEF front
  <2>6. /\ views' \in Seq(Y) /\ Len(views') = (l - 2) + 1 /\ views'[(l - 2) + 1] = w
        /\ \A i \in 1..(l - 2) : views'[i] = front[i]
    BY <1>1, <2>3, <2>5, AppendProperties
  <2>7. (l - 2) + 1 = l - 1 /\ \A j \in 1..(l - 1) : j = l - 1 \/ (j \in 1..(l - 2) /\ j # l - 1)
    BY <1>2
  <2>8. DOMAIN views' = 1..(l - 1) BY <2>6, <2>7, LenProperties
  <2> QED BY <2>5, <2>6, <2>7, <2>8
<1>0. w = ReturnedTo BY DEF ReturnedTo
<1> HIDE DEF w, front, result, l
<1>12. \A j \in 1..(l - 1) : /\ j \in DOMAIN views /\ j # l
                             /\ views'[j].drafts = views[j].drafts
                             /\ ViewOK(views'[j]) /\ (views'[j].group = 0 <=> j = 1)
  <2>1. \A j \in 1..(l - 1) : j \in 1..l /\ j # l BY <1>2
  <2> QED BY <1>2, <1>3, <1>8, <1>10, <1>11, <2>1
<1>13. draft'.kind = draft.kind /\ Numbered(draft') BY <1>6 DEF Same
<1>14. ViewsOK'
  <2>1. views' # <<>>
    <3>1. 1 \in 1..(l - 1) BY <1>2, <1>5
    <3>2. DOMAIN <<>> = {} OBVIOUS
    <3> QED BY <1>11, <3>1, <3>2
  <2>2. \A j \in DOMAIN views' : ViewOK(views[j])' BY <1>11, <1>12, <1>13 DEF ViewOK
  <2> QED BY <1>11, <1>12, <2>1, <2>2 DEF ViewsOK
<1>15. AddedOK' BY <1>1, <1>13, OwnNodesAdded DEF AddedOK, Group
<1>16. ToSet(added') = ToSet(added) \cup {n \in ToSet(views[l].drafts) : ~Group(draft, n)}
  BY <1>1, <1>2, OwnNodesAdded
<1>17. InOnePlace'
  <2>1. ASSUME NEW j \in 1..(l - 1)
        PROVE  ToSet(views[j].drafts) \cap ToSet(added') = {}
    <3>1. /\ ToSet(views[j].drafts) \cap ToSet(added) = {}
          /\ ToSet(views[j].drafts) \cap ToSet(views[l].drafts) = {}
      BY <1>2, <1>12 DEF Definition, InOnePlace
    <3> QED BY <1>16, <3>1
  <2>2. \A j, k \in 1..(l - 1) :
           j # k => ToSet(views[j].drafts) \cap ToSet(views[k].drafts) = {}
    BY <1>12 DEF Definition, InOnePlace
  <2> QED BY <1>11, <1>12, <2>1, <2>2 DEF InOnePlace
<1>18. InSomePlace'
  <2>1. ASSUME NEW n \in N, ~Group(draft, n)
        PROVE  \/ n \in ToSet(added')
               \/ \E j \in 1..(l - 1) : n \in ToSet(views'[j].drafts)
    <3>1. CASE n \in ToSet(added) BY <1>16, <3>1
    <3>2. CASE \E j \in DOMAIN views : n \in ToSet(views[j].drafts)
      <4>1. PICK j \in DOMAIN views : n \in ToSet(views[j].drafts) BY <3>2
      <4>2. CASE j = l BY <1>16, <2>1, <4>1, <4>2
      <4>3. CASE j # l
        <5>1. j \in 1..(l - 1) BY <1>2, <4>3
        <5> QED BY <1>12, <4>1, <5>1
      <4> QED BY <4>2, <4>3
    <3> QED BY <2>1, <3>1, <3>2 DEF Definition, InSomePlace
  <2> QED BY <1>11, <1>13, <2>1 DEF InSomePlace, Group
<1>19. Definition' BY <1>13, <1>14, <1>15, <1>17, <1>18 DEF Definition
<1> QED BY <1>0, <1>5, <1>11, <1>19 DEF l

\* When the outer view ends, every node is in the flow.
LEMMA ExitCompletes ==
    ASSUME Definition, Exit
    PROVE  NodesAddedOnce'
<1>1. CASE status' = "done"
  <2> DEFINE N == DOMAIN draft.kind
             l == Len(views)
  <2>1. Here.group = 0 /\ draft' = Connected(Here) /\ added' = added \o OwnNodes(Here)
    <3>1. CASE Refused(Here) \/ NotFinal(Here, Connected(Here)) BY <1>1, <3>1 DEF Exit
    <3>2. CASE ~(Refused(Here) \/ NotFinal(Here, Connected(Here))) BY <1>1, <3>2 DEF Exit
    <3> QED BY <3>1, <3>2
  <2>2. Same(draft, draft')
    <3>1. AllNodes(Here) \in Seq(N) BY AllNodesList, LastView DEF Definition
    <3> QED BY <2>1, <3>1, ConnectedSame DEF Definition
  <2>3. l = 1 /\ DOMAIN views = {1}
    <3>1. \A j \in DOMAIN views : views[j].group = 0 <=> j = 1 BY DEF Definition, ViewsOK
    <3>2. l = 1 BY <2>1, <3>1, LastView
    <3> QED BY <3>2, LastView
  <2>4. /\ added' \in Seq({n \in N : ~Group(draft, n)}) /\ IsInjective(added')
        /\ ToSet(added') = ToSet(added) \cup {n \in ToSet(Here.drafts) : ~Group(draft, n)}
    BY <2>1, OwnNodesAdded
  <2>5. \A n \in N : ~Group(draft, n) => n \in ToSet(added')
    <3>1. Here = views[1] BY <2>3, LastView
    <3> QED BY <2>3, <2>4, <3>1 DEF Definition, InSomePlace
  <2>6. \A n \in ToSet(added') : n \in N /\ ~Group(draft, n)
    <3> DEFINE P == {n \in N : ~Group(draft, n)}
    <3>1. added' \in Seq(P) BY <2>4
    <3>2. Range(added') \in SUBSET P
      <4> HIDE DEF P
      <4> QED BY <3>1, RangeOfSeq
    <3> QED BY <3>2 DEF Range, ToSet
  <2>7. ToSet(added') = {n \in DOMAIN draft'.kind : draft'.kind[n] # "group"}
    BY <2>2, <2>5, <2>6 DEF Same, Group
  <2> QED BY <2>4, <2>7 DEF NodesAddedOnce
<1>2. CASE status' # "done" BY <1>2 DEF NodesAddedOnce
<1> QED BY <1>1, <1>2

\* Every statement keeps the invariant.
LEMMA NextNodes == NodesInv /\ [Next]_vars => NodesInv'
<1> SUFFICES ASSUME NodesInv, [Next]_vars PROVE NodesInv' OBVIOUS
<1>1. CASE UNCHANGED vars
  BY <1>1 DEF NodesInv, Definition, vars, Numbered, ViewsOK, ViewOK, AddedOK, InOnePlace,
              InSomePlace, NodesAddedOnce, IsList, Group, Kind
<1>2. CASE Next
  <2>1. status = "open" /\ Definition BY <1>2 DEF Next, NodesInv
  <2>2. ASSUME NEW x, NEW args, IsList(args), DefineNode(x, args) PROVE NodesInv'
    <3>1. status' = "open" BY <2>1, <2>2 DEF DefineNode
    <3>2. Definition' BY <2>1, <2>2, DefineNodeKeeps
    <3> QED BY <3>1, <3>2 DEF NodesInv, NodesAddedOnce
  <2>3. ASSUME NEW x, NEW y, KeepOutput(x, y) PROVE NodesInv'
    <3>1. status' = "open" BY <2>1, <2>3 DEF KeepOutput
    <3>2. Definition' BY <2>1, <2>3, KeepOutputKeeps
    <3> QED BY <3>1, <3>2 DEF NodesInv, NodesAddedOnce
  <2>4. ASSUME NEW x, NEW args, IsList(args), CallTemplate(x, args) PROVE NodesInv'
    <3>1. status' = "open" BY <2>1, <2>4 DEF CallTemplate
    <3>2. Definition' BY <2>1, <2>4, CallTemplateKeeps
    <3> QED BY <3>1, <3>2 DEF NodesInv, NodesAddedOnce
  <2>5. ASSUME NEW a, ReturnFromTemplate(a) PROVE NodesInv'
    <3>1. status' = "open" \/ status' = "error" BY <2>1, <2>5 DEF ReturnFromTemplate
    <3>2. status' = "open" => Definition' BY <2>1, <2>5, ReturnKeeps
    <3> QED BY <3>1, <3>2 DEF NodesInv, NodesAddedOnce
  <2>6. ASSUME Exit PROVE NodesInv'
    <3>1. status' = "done" \/ status' = "error" BY <2>6 DEF Exit
    <3>2. NodesAddedOnce' BY <2>1, <2>6, ExitCompletes
    <3> QED BY <3>1, <3>2 DEF NodesInv
  <2>7. \A literals : \A args \in Arguments(literals) : IsList(args)
    BY BoundedList DEF Arguments
  <2> QED BY <1>2, <2>2, <2>3, <2>4, <2>5, <2>6, <2>7 DEF Next, Statement
<1> QED BY <1>1, <1>2

\* However templates are nested and names assigned: in the finished flow each node and each
\* constant that the program makes is there once, and no group is.
THEOREM NodesAreAddedOnce == Spec => []NodesAddedOnce
<1>1. NodesInv => NodesAddedOnce BY DEF NodesInv
<1> QED BY <1>1, InitNodes, NextNodes, PTL DEF Spec

-----------------------------------------------------------------------------
(* The two sides of the connections.                                          *)

\* What a port or a name can be given, besides a node or a reference to an output.
Open == {"later", "value", "default", "unset"}

\* The port i of n is connected to m.
TakenBy(d, n, m) ==
    {i \in DOMAIN d.port[n] : d.port[n][i].is = "wire" /\ d.wire[d.port[n][i].wire].node = m}

\* As often as n takes the output of m, the output of m lists n.
Symmetric(d) ==
    \A m, n \in DOMAIN d.kind :
        ~Group(d, n) => Cardinality(TakenBy(d, n, m)) = Count(d.outs[m], n)

\* At most one port has the reference k.
Alone(d, k) ==
    \A n, m \in DOMAIN d.kind : \A i \in DOMAIN d.port[n], j \in DOMAIN d.port[m] :
        d.port[n][i] = Wire(k) /\ d.port[m][j] = Wire(k) => n = m /\ i = j

\* No two ports share a reference to the output of a group.
Unshared(d) == \A k \in DOMAIN d.wire : Group(d, d.wire[k].node) => Alone(d, k)

PortOK(d, a) == a.is \in Open \/ \E k \in DOMAIN d.wire : a = Wire(k)

Wired(d) ==
    /\ d.outs \in Seq(Seq(DOMAIN d.kind)) /\ DOMAIN d.outs = DOMAIN d.kind
    /\ \E W : d.wire \in Seq(W)
    /\ \A k \in DOMAIN d.wire :
          DOMAIN d.wire[k] = {"node", "of"} /\ d.wire[k].node \in DOMAIN d.kind
    /\ \A n \in DOMAIN d.port : \A i \in DOMAIN d.port[n] : PortOK(d, d.port[n][i])
    /\ Symmetric(d) /\ Unshared(d)

\* A port that holds a reference tells which.
LEMMA WireIs ==
    ASSUME NEW k, NEW l
    PROVE  /\ Wire(k).is = "wire" /\ Wire(k).wire = k /\ Wire(k).is \notin Open
           /\ Wire(k) = Wire(l) => k = l
BY DEF Wire, Open

\* What is not a reference is connected to nothing.
LEMMA OpenIs ==
    ASSUME NEW d, NEW a, PortOK(d, a), a.is # "wire"
    PROVE  a.is \in Open
BY WireIs DEF PortOK

\* The connected ports can be counted.
LEMMA TakenFinite ==
    ASSUME NEW d, NEW n, IsList(d.port[n])
    PROVE  \A m : IsFiniteSet(TakenBy(d, n, m))
<1>1. PICK l \in Nat : DOMAIN d.port[n] = 1..l BY DEF IsList
<1>2. IsFiniteSet(1..l) BY <1>1, FS_Interval
<1>3. \A m : TakenBy(d, n, m) \in SUBSET (1..l) BY <1>1 DEF TakenBy
<1> QED BY <1>2, <1>3, FS_Subset

\* A list does not hold what it cannot.
LEMMA CountOutside ==
    ASSUME NEW X, NEW s \in Seq(X), NEW m, m \notin X
    PROVE  Count(s, m) = 0
<1>1. DOMAIN s = 1..Len(s) BY LenProperties
<1>2. \A j \in 1..Len(s) : s[j] \in X BY ElementOfSeq
<1>3. Listed(s, m) = {} BY <1>1, <1>2 DEF Listed
<1> QED BY <1>3, FS_EmptySet DEF Count

\* The port i of n is given Wire(k), and n becomes a consumer of the node of k.
Wires(d, e, n, i, k) ==
    /\ DOMAIN e = DOMAIN d /\ e.kind = d.kind /\ e.wire = d.wire
    /\ DOMAIN e.port = DOMAIN d.port /\ DOMAIN e.outs = DOMAIN d.outs
    /\ \A m \in DOMAIN d.port : DOMAIN e.port[m] = DOMAIN d.port[m]
    /\ \A m \in DOMAIN d.port : \A j \in DOMAIN d.port[m] :
          e.port[m][j] = IF m = n /\ j = i THEN Wire(k) ELSE d.port[m][j]
    /\ e.outs = [d.outs EXCEPT ![d.wire[k].node] = Append(@, n)]

\* What Connect changes.
LEMMA ConnectWires ==
    ASSUME NEW d, Numbered(d), NEW k, NEW n, NEW i
    PROVE  Wires(d, Connect(d, k, n, i), n, i, k)
<1> DEFINE w == Wire(k)
           g == d.wire[k].node
           o == [d.outs EXCEPT ![g] = Append(@, n)]
           p == [d.port EXCEPT ![n] = [@ EXCEPT ![i] = w]]
           e == Connect(d, k, n, i)
<1>1. DOMAIN d = {"kind", "port", "outs", "wire"} BY DEF Numbered
<1>2. e = [d EXCEPT !.outs[g] = Append(@, n), !.port[n][i] = w] BY DEF Connect
<1> HIDE DEF w, g, e
<1>3. /\ DOMAIN e = DOMAIN d /\ e.kind = d.kind /\ e.wire = d.wire
      /\ e.outs = o /\ e.port = p
  BY <1>1, <1>2
<1>4. DOMAIN o = DOMAIN d.outs OBVIOUS
<1>5. /\ DOMAIN p = DOMAIN d.port
      /\ \A m \in DOMAIN d.port : DOMAIN p[m] = DOMAIN d.port[m]
      /\ \A m \in DOMAIN d.port : \A j \in DOMAIN d.port[m] :
            p[m][j] = IF m = n /\ j = i THEN w ELSE d.port[m][j]
  OBVIOUS
<1> HIDE DEF p
<1> QED BY <1>3, <1>4, <1>5 DEF Wires, w, g, e

\* The reference k may be given to a port: it is not that of a group that another one has.
Unused(d, k) ==
    Group(d, d.wire[k].node) =>
        \A n \in DOMAIN d.kind : \A i \in DOMAIN d.port[n] : d.port[n][i] # Wire(k)

\* A port that was not connected is, on both sides.
LEMMA WiresWired ==
    ASSUME NEW d, NEW e, Numbered(d), Wired(d), NEW k \in DOMAIN d.wire, Unused(d, k),
           NEW n \in DOMAIN d.kind, NEW i \in DOMAIN d.port[n], d.port[n][i].is # "wire",
           Wires(d, e, n, i, k)
    PROVE  Wired(e)
<1> DEFINE N == DOMAIN d.kind
           g == d.wire[k].node
<1>1. /\ e.kind = d.kind /\ e.wire = d.wire /\ DOMAIN d.port = N /\ DOMAIN d.outs = N
      /\ DOMAIN e.port = N /\ DOMAIN e.outs = N /\ g \in N
      /\ \A m : Group(e, m) <=> Group(d, m)
  BY DEF Wires, Wired, Numbered, Group
<1>2. \A m \in N : d.outs[m] \in Seq(N)
  <2>1. d.outs \in Seq(Seq(N)) BY DEF Wired
  <2>2. N = 1..Len(d.outs) BY <1>1, <2>1, LenProperties
  <2> QED BY <2>1, <2>2, ElementOfSeq
<1>3. /\ \A m \in N : e.outs[m] = IF m = g THEN Append(d.outs[m], n) ELSE d.outs[m]
      /\ \A m \in N : DOMAIN e.port[m] = DOMAIN d.port[m]
      /\ \A m \in N : \A j \in DOMAIN d.port[m] :
            e.port[m][j] = IF m = n /\ j = i THEN Wire(k) ELSE d.port[m][j]
  BY <1>1 DEF Wires
<1>4. e.outs \in Seq(Seq(N)) /\ \A m \in N : e.outs[m] \in Seq(N)
  <2> DEFINE Y == Seq(N)
             s == d.outs
             o == Append(s[g], n)
  <2>1. s \in Seq(Y) BY DEF Wired
  <2>2. N = 1..Len(s) BY <1>1, <2>1, LenProperties
  <2>3. o \in Y
    <3>1. s[g] \in Seq(N) /\ n \in N BY <1>1, <1>2
    <3> HIDE DEF N, s, g
    <3> QED BY <3>1, AppendProperties
  <2>4. e.outs = [s EXCEPT ![g] = o] BY DEF Wires
  <2>5. g \in 1..Len(s) BY <1>1, <2>2
  <2> HIDE DEF Y, s, o, g
  <2>6. e.outs \in Seq(Y) /\ Len(e.outs) = Len(s) BY <2>1, <2>3, <2>4, <2>5, ExceptSeq
  <2>7. \A m \in 1..Len(s) : e.outs[m] \in Y BY <2>6, ElementOfSeq
  <2> QED BY <2>2, <2>6, <2>7 DEF Y
<1>5. \A m \in N : \A j \in DOMAIN e.port[m] : PortOK(e, e.port[m][j])
  BY <1>1, <1>3 DEF PortOK, Wired
<1>6. Unshared(e)
  <2>1. ASSUME NEW l \in DOMAIN d.wire, l # k, Alone(d, l) PROVE Alone(e, l)
    <3> SUFFICES ASSUME NEW a \in N, NEW b \in N,
                        NEW x \in DOMAIN d.port[a], NEW y \in DOMAIN d.port[b],
                        e.port[a][x] = Wire(l), e.port[b][y] = Wire(l)
                 PROVE  a = b /\ x = y
      BY <1>1, <1>3 DEF Alone
    <3>1. /\ e.port[a][x] = IF a = n /\ x = i THEN Wire(k) ELSE d.port[a][x]
          /\ e.port[b][y] = IF b = n /\ y = i THEN Wire(k) ELSE d.port[b][y]
      BY <1>3
    <3>2. d.port[a][x] = Wire(l) /\ d.port[b][y] = Wire(l) BY <2>1, <3>1, WireIs
    <3> QED BY <2>1, <3>2 DEF Alone
  <2>2. Group(d, g) => Alone(e, k)
    <3> SUFFICES ASSUME Group(d, g), NEW a \in N, NEW b \in N,
                        NEW x \in DOMAIN d.port[a], NEW y \in DOMAIN d.port[b],
                        e.port[a][x] = Wire(k), e.port[b][y] = Wire(k)
                 PROVE  a = b /\ x = y
      BY <1>1, <1>3 DEF Alone
    <3>1. /\ e.port[a][x] = IF a = n /\ x = i THEN Wire(k) ELSE d.port[a][x]
          /\ e.port[b][y] = IF b = n /\ y = i THEN Wire(k) ELSE d.port[b][y]
      BY <1>3
    <3> QED BY <3>1 DEF Unused
  <2> QED BY <1>1, <2>1, <2>2 DEF Wired, Unshared
<1>7. ASSUME NEW m \in N, NEW c \in N, ~Group(d, c)
      PROVE  Cardinality(TakenBy(e, c, m)) = Count(e.outs[m], c)
  <2>1. Cardinality(TakenBy(d, c, m)) = Count(d.outs[m], c) BY <1>7 DEF Wired, Symmetric
  <2>2. Count(e.outs[m], c) = IF m = g /\ c = n THEN Count(d.outs[m], c) + 1
                                               ELSE Count(d.outs[m], c)
    <3>1. d.outs[m] \in Seq(N) BY <1>2
    <3>2. e.outs[m] = IF m = g THEN Append(d.outs[m], n) ELSE d.outs[m] BY <1>3
    <3>3. n \in N OBVIOUS
    <3> HIDE DEF g, N
    <3> QED BY <3>1, <3>2, <3>3, CountAppend
  <2>3. TakenBy(e, c, m) = IF m = g /\ c = n THEN TakenBy(d, c, m) \cup {i}
                                             ELSE TakenBy(d, c, m)
    <3>1. \A j \in DOMAIN d.port[c] :
             e.port[c][j] = IF c = n /\ j = i THEN Wire(k) ELSE d.port[c][j]
      BY <1>3
    <3>2. Wire(k).is = "wire" /\ Wire(k).wire = k BY WireIs
    <3>3. DOMAIN e.port[c] = DOMAIN d.port[c] BY <1>3
    <3> QED BY <1>1, <3>1, <3>2, <3>3 DEF TakenBy
  <2>4. i \notin TakenBy(d, n, m) BY DEF TakenBy
  <2>5. IsFiniteSet(TakenBy(d, c, m)) BY <1>1, TakenFinite DEF Numbered
  <2>6. Cardinality(TakenBy(e, c, m)) =
          IF m = g /\ c = n THEN Cardinality(TakenBy(d, c, m)) + 1
                            ELSE Cardinality(TakenBy(d, c, m))
    BY <2>3, <2>4, <2>5, FS_AddElement
  <2> QED BY <2>1, <2>2, <2>6
<1>8. Symmetric(e) BY <1>1, <1>7 DEF Symmetric
<1> QED BY <1>1, <1>4, <1>5, <1>6, <1>8 DEF Wired

\* A new reference, which no port has.
LEMMA NewWire ==
    ASSUME NEW d, Numbered(d), Wired(d), NEW m \in DOMAIN d.kind
    PROVE  LET e == [d EXCEPT !.wire = Append(@, [node |-> m, of |-> m])] IN
           /\ Same(d, e) /\ Wired(e)
           /\ e.port = d.port /\ e.outs = d.outs
           /\ \A l \in DOMAIN d.wire : l \in DOMAIN e.wire /\ e.wire[l] = d.wire[l]
           /\ Len(d.wire) + 1 \in DOMAIN e.wire /\ Unused(e, Len(d.wire) + 1)
           /\ e.wire[Len(d.wire) + 1].node = m
<1> DEFINE c == Len(d.wire)
           w == [node |-> m, of |-> m]
           e == [d EXCEPT !.wire = Append(@, [node |-> m, of |-> m])]
<1>1. PICK W : d.wire \in Seq(W) BY DEF Wired
<1>2. c \in Nat /\ DOMAIN d.wire = 1..c BY <1>1, LenProperties
<1>3. /\ e.kind = d.kind /\ e.port = d.port /\ e.outs = d.outs /\ e.wire = Append(d.wire, w)
      /\ DOMAIN e = DOMAIN d
  BY DEF Numbered
<1>4. d.wire \in Seq(W \cup {w}) BY <1>1, SeqMonotonic
<1>5. w.node = m /\ DOMAIN w = {"node", "of"} OBVIOUS
<1> HIDE DEF w, e
<1>6. /\ e.wire \in Seq(W \cup {w}) /\ DOMAIN e.wire = 1..(c + 1)
      /\ e.wire[c + 1] = w /\ \A l \in 1..c : e.wire[l] = d.wire[l]
  <2>1. /\ e.wire \in Seq(W \cup {w}) /\ Len(e.wire) = c + 1
        /\ e.wire[c + 1] = w /\ \A l \in 1..c : e.wire[l] = d.wire[l]
    BY <1>3, <1>4, AppendProperties
  <2> QED BY <2>1, LenProperties
<1> HIDE DEF c
<1>7. \A l \in 1..(c + 1) : l \in 1..c \/ l = c + 1 BY <1>2
<1>8. \A l \in 1..c : l \in 1..(c + 1) /\ l # c + 1 BY <1>2
<1>9. c + 1 \in 1..(c + 1) BY <1>2
<1>10. Same(d, e) BY <1>3 DEF Same, Numbered
<1>11. \A n \in DOMAIN d.port : \A i \in DOMAIN d.port[n] :
          \/ d.port[n][i].is \in Open
          \/ \E k \in 1..c : d.port[n][i] = Wire(k)
  BY <1>2 DEF Wired, PortOK
<1>12. \A n \in DOMAIN d.port : \A i \in DOMAIN d.port[n] : d.port[n][i] # Wire(c + 1)
  BY <1>8, <1>11, WireIs
<1>13. \A k : Group(e, k) <=> Group(d, k) BY <1>3 DEF Group
<1>14. Unshared(e)
  <2>1. \A k : Alone(d, k) => Alone(e, k) BY <1>3 DEF Alone
  <2>2. Alone(e, c + 1) BY <1>3, <1>12 DEF Alone, Numbered
  <2> QED BY <1>2, <1>6, <1>7, <1>13, <2>1, <2>2 DEF Wired, Unshared
<1>15. \A n \in DOMAIN d.kind : \A b : TakenBy(e, n, b) = TakenBy(d, n, b)
  <2> SUFFICES ASSUME NEW n \in DOMAIN d.kind, NEW b, NEW i \in DOMAIN d.port[n],
                      d.port[n][i].is = "wire"
               PROVE  e.wire[d.port[n][i].wire] = d.wire[d.port[n][i].wire]
    BY <1>3 DEF TakenBy
  <2>1. n \in DOMAIN d.port BY DEF Numbered
  <2>2. PICK k \in 1..c : d.port[n][i] = Wire(k) BY <1>11, <2>1 DEF Open
  <2> QED BY <1>6, <2>2, WireIs
<1>16. Symmetric(e) BY <1>3, <1>13, <1>15 DEF Symmetric, Wired
<1>17. \A k \in DOMAIN e.wire :
          DOMAIN e.wire[k] = {"node", "of"} /\ e.wire[k].node \in DOMAIN d.kind
  BY <1>2, <1>5, <1>6, <1>7 DEF Wired
<1>18. \A n \in DOMAIN e.port : \A i \in DOMAIN e.port[n] : PortOK(e, e.port[n][i])
  BY <1>3, <1>6, <1>8, <1>11 DEF PortOK
<1>19. Wired(e) BY <1>3, <1>6, <1>14, <1>16, <1>17, <1>18 DEF Wired
<1>20. Unused(e, c + 1) BY <1>3, <1>12 DEF Unused, Numbered
<1> QED BY <1>2, <1>3, <1>5, <1>6, <1>8, <1>9, <1>10, <1>19, <1>20 DEF c, e

\* Besides constants that are new, only the port i of n is different.
Sets(d, e, n, i) ==
    /\ Keeps(d, e) /\ Wired(e)
    /\ \A m \in DOMAIN e.kind : m \in DOMAIN d.kind \/ e.kind[m] = "constant"
    /\ \A l \in DOMAIN d.wire : l \in DOMAIN e.wire /\ e.wire[l] = d.wire[l]
    /\ \A m \in DOMAIN d.port : DOMAIN e.port[m] = DOMAIN d.port[m]
    /\ \A m \in DOMAIN d.port : \A j \in DOMAIN d.port[m] :
          e.port[m][j] = d.port[m][j] \/ (m = n /\ j = i)

\* A port without a reference can be given one that nobody uses.
LEMMA ConnectSets ==
    ASSUME NEW d, Numbered(d), Wired(d), NEW k \in DOMAIN d.wire, Unused(d, k),
           NEW n \in DOMAIN d.kind, NEW i \in DOMAIN d.port[n], d.port[n][i].is # "wire"
    PROVE  /\ Sets(d, Connect(d, k, n, i), n, i)
           /\ Connect(d, k, n, i).port[n][i] = Wire(k)
<1> DEFINE e == Connect(d, k, n, i)
<1>1. Wires(d, e, n, i, k) BY ConnectWires
<1>2. Same(d, e) BY ConnectSame
<1> HIDE DEF e
<1>3. Wired(e) BY <1>1, WiresWired
<1>4. Keeps(d, e) BY <1>2, SameKeeps
<1>5. Sets(d, e, n, i) BY <1>1, <1>2, <1>3, <1>4 DEF Sets, Wires
<1>6. e.port[n][i] = Wire(k) BY <1>1 DEF Wires, Numbered
<1> QED BY <1>5, <1>6 DEF e

\* It can be given a new reference to any draft.
LEMMA AttachSets ==
    ASSUME NEW d, Numbered(d), Wired(d), NEW m \in DOMAIN d.kind,
           NEW n \in DOMAIN d.kind, NEW i \in DOMAIN d.port[n], d.port[n][i].is # "wire"
    PROVE  /\ Sets(d, Attach(d, m, n, i), n, i)
           /\ Same(d, Attach(d, m, n, i))
           /\ Attach(d, m, n, i).port[n][i].is = "wire"
<1> DEFINE c == [d EXCEPT !.wire = Append(@, [node |-> m, of |-> m])]
           k == Len(d.wire) + 1
           e == Attach(d, m, n, i)
<1>1. e = Connect(c, k, n, i) BY DEF Attach
<1>2. /\ Same(d, c) /\ Wired(c)
      /\ c.port = d.port /\ c.outs = d.outs
      /\ \A l \in DOMAIN d.wire : l \in DOMAIN c.wire /\ c.wire[l] = d.wire[l]
      /\ k \in DOMAIN c.wire /\ Unused(c, k)
  BY NewWire
<1> HIDE DEF c, k, e
<1>3. Sets(c, e, n, i) /\ e.port[n][i] = Wire(k) BY <1>1, <1>2, ConnectSets DEF Same
<1>4. Same(c, e) BY <1>1, <1>2, ConnectSame DEF Same
<1>5. Same(d, e) BY <1>2, <1>4 DEF Same
<1>6. Keeps(d, e) BY <1>5, SameKeeps
<1>7. \A l \in DOMAIN d.wire : l \in DOMAIN e.wire /\ e.wire[l] = d.wire[l]
  BY <1>2, <1>3 DEF Sets
<1>8. Sets(d, e, n, i) BY <1>2, <1>3, <1>5, <1>6, <1>7 DEF Sets, Same
<1> QED BY <1>3, <1>5, <1>8, WireIs DEF e

\* A draft whose ports are not connected.
LEMMA NewDraftWired ==
    ASSUME NEW d, Numbered(d), Wired(d), NEW kd \in Kind, NEW ports, IsList(ports),
           \A i \in DOMAIN ports : ports[i].is \in Open
    PROVE  LET e == NewDraft(d, kd, ports)
               n == Len(d.kind) + 1
           IN  /\ Keeps(d, e) /\ Wired(e) /\ e.wire = d.wire
               /\ DOMAIN e.kind = DOMAIN d.kind \cup {n} /\ e.kind[n] = kd
               /\ e.port[n] = ports /\ \A m \in DOMAIN d.port : e.port[m] = d.port[m]
<1> DEFINE e == NewDraft(d, kd, ports)
           l == Len(d.kind)
           n == l + 1
           N == DOMAIN d.kind
           M == 1..n
<1>1. Keeps(d, e) /\ Len(e.kind) = n BY NewDraftKeeps
<1>2. /\ e.kind = Append(d.kind, kd) /\ e.port = Append(d.port, ports)
      /\ e.outs = Append(d.outs, <<>>) /\ e.wire = d.wire
  BY DEF NewDraft, Numbered
<1>3. l \in Nat /\ N = 1..l BY LenProperties DEF Numbered
<1> HIDE DEF e, l, N
<1>4. /\ n \in M /\ n \notin N /\ M = N \cup {n} /\ \A m \in N : m \in M /\ m # n
      /\ \A m \in M : m \in N \/ m = n
  BY <1>3
<1>5. DOMAIN e.kind = M BY <1>1, LenProperties DEF Keeps, Numbered
<1>6. e.kind[n] = kd /\ \A m \in N : e.kind[m] = d.kind[m]
  <2>1. /\ Append(d.kind, kd)[l + 1] = kd
        /\ \A m \in 1..l : Append(d.kind, kd)[m] = d.kind[m]
    BY AppendProperties DEF Numbered, l
  <2> QED BY <1>2, <1>3, <2>1
<1>7. DOMAIN d.port = N /\ e.port[n] = ports /\ \A m \in N : e.port[m] = d.port[m]
  <2>1. PICK P : d.port \in Seq(P) BY DEF Numbered
  <2>2. d.port \in Seq(P \cup {ports}) BY <2>1, SeqMonotonic
  <2>3. DOMAIN d.port = N BY DEF Numbered, N
  <2>4. Len(d.port) = l
    <3>1. Len(d.port) \in Nat /\ DOMAIN d.port = 1..Len(d.port) BY <2>1, LenProperties
    <3> QED BY <1>3, <2>3, <3>1, SameLength
  <2>5. /\ Append(d.port, ports)[l + 1] = ports
        /\ \A m \in 1..l : Append(d.port, ports)[m] = d.port[m]
    BY <2>2, <2>4, AppendProperties
  <2> QED BY <1>2, <1>3, <2>3, <2>5
<1>8. DOMAIN d.outs = N /\ \A m \in N : d.outs[m] \in Seq(N)
  <2>1. d.outs \in Seq(Seq(N)) /\ DOMAIN d.outs = N BY DEF Wired, N
  <2>2. N = 1..Len(d.outs) BY <2>1, LenProperties
  <2> QED BY <2>1, <2>2, ElementOfSeq
<1>9. /\ e.outs \in Seq(Seq(M)) /\ DOMAIN e.outs = M
      /\ e.outs[n] = <<>> /\ \A m \in N : e.outs[m] = d.outs[m]
  <2>1. d.outs \in Seq(Seq(N)) BY DEF Wired, N
  <2>2. d.outs \in Seq(Seq(M))
    <3>1. Seq(N) \subseteq Seq(M)
      <4>1. N \subseteq M BY <1>4
      <4> HIDE DEF M
      <4> QED BY <4>1, SeqMonotonic
    <3> HIDE DEF M
    <3> QED BY <2>1, <3>1, SeqMonotonic
  <2>3. Len(d.outs) = l
    <3>1. Len(d.outs) \in Nat /\ DOMAIN d.outs = 1..Len(d.outs) BY <2>1, LenProperties
    <3> QED BY <1>3, <1>8, <3>1, SameLength
  <2>4. <<>> \in Seq(M) BY EmptySeq
  <2> DEFINE Y == Seq(M)
             z == <<>>
  <2>5. d.outs \in Seq(Y) /\ z \in Y BY <2>2, <2>4
  <2> HIDE DEF Y, z
  <2>6. /\ Append(d.outs, z) \in Seq(Y) /\ Len(Append(d.outs, z)) = l + 1
        /\ Append(d.outs, z)[l + 1] = z
        /\ \A m \in 1..l : Append(d.outs, z)[m] = d.outs[m]
    BY <2>3, <2>5, AppendProperties
  <2>7. e.outs = Append(d.outs, z) BY <1>2 DEF z
  <2>8. DOMAIN e.outs = 1..(l + 1) BY <2>6, <2>7, LenProperties
  <2> QED BY <1>3, <2>6, <2>7, <2>8 DEF Y, z
<1> HIDE DEF M
<1>10. \A m \in N : Group(e, m) <=> Group(d, m) BY <1>6 DEF Group
<1>11. \A k \in DOMAIN d.wire :
          DOMAIN d.wire[k] = {"node", "of"} /\ d.wire[k].node \in N
  BY DEF Wired, N
<1>12. \A m \in N : \A i \in DOMAIN d.port[m] : PortOK(d, d.port[m][i])
  BY <1>7 DEF Wired
<1>13. DOMAIN e.port = M BY <1>1, <1>5 DEF Keeps, Numbered
<1>14. \A m \in DOMAIN e.port : \A i \in DOMAIN e.port[m] : PortOK(e, e.port[m][i])
  <2>1. \A a : PortOK(d, a) => PortOK(e, a) BY <1>2 DEF PortOK
  <2>2. \A i \in DOMAIN ports : PortOK(e, ports[i]) BY DEF PortOK
  <2> QED BY <1>4, <1>7, <1>12, <1>13, <2>1, <2>2
<1>15. Unshared(e)
  <2>1. ASSUME NEW k \in DOMAIN d.wire, Alone(d, k) PROVE Alone(e, k)
    <3> SUFFICES ASSUME NEW a \in M, NEW b \in M,
                        NEW x \in DOMAIN e.port[a], NEW y \in DOMAIN e.port[b],
                        e.port[a][x] = Wire(k), e.port[b][y] = Wire(k)
                 PROVE  a = b /\ x = y
      BY <1>5 DEF Alone
    <3>1. a \in N /\ b \in N BY <1>4, <1>7, WireIs
    <3> QED BY <1>7, <2>1, <3>1 DEF Alone, N
  <2> QED BY <1>2, <1>10, <1>11, <2>1 DEF Wired, Unshared
<1>16. \A c \in N : \A m : TakenBy(e, c, m) = TakenBy(d, c, m) BY <1>2, <1>7 DEF TakenBy
<1>17. \A m : TakenBy(e, n, m) = {}
  <2>1. \A i \in DOMAIN ports : ports[i].is # "wire" BY DEF Open
  <2> QED BY <1>7, <2>1 DEF TakenBy
<1>18. \A c \in N : TakenBy(d, c, n) = {}
  <2> SUFFICES ASSUME NEW c \in N, NEW i \in DOMAIN d.port[c], d.port[c][i].is = "wire"
               PROVE  d.wire[d.port[c][i].wire].node # n
    BY DEF TakenBy
  <2>1. PICK k \in DOMAIN d.wire : d.port[c][i] = Wire(k) BY <1>12 DEF PortOK, Open
  <2> QED BY <1>4, <1>11, <2>1, WireIs
<1>19. ASSUME NEW m \in M, NEW c \in M, ~Group(e, c)
       PROVE  Cardinality(TakenBy(e, c, m)) = Count(e.outs[m], c)
  <2>0. Cardinality({}) = 0 BY FS_EmptySet
  <2>1. CASE m = n
    <3>1. Count(e.outs[m], c) = 0 BY <1>9, <2>1, CountEmpty
    <3>2. TakenBy(e, c, m) = {} BY <1>4, <1>16, <1>17, <1>18, <2>1
    <3> QED BY <2>0, <3>1, <3>2
  <2>2. CASE m \in N /\ c = n
    <3>1. Count(e.outs[m], c) = 0 BY <1>4, <1>8, <1>9, <2>2, CountOutside
    <3> QED BY <1>17, <2>0, <2>2, <3>1
  <2>3. CASE m \in N /\ c \in N
    <3>1. Cardinality(TakenBy(d, c, m)) = Count(d.outs[m], c)
      BY <1>10, <1>19, <2>3 DEF Wired, Symmetric, N
    <3> QED BY <1>9, <1>16, <2>3, <3>1
  <2> QED BY <1>4, <2>1, <2>2, <2>3
<1>20. Symmetric(e) BY <1>5, <1>19 DEF Symmetric
<1>21. \A k \in DOMAIN e.wire :
          DOMAIN e.wire[k] = {"node", "of"} /\ e.wire[k].node \in M
  BY <1>2, <1>4, <1>11
<1>22. Wired(e)
  <2>1. \E W : e.wire \in Seq(W) BY <1>2 DEF Wired
  <2> QED BY <1>5, <1>9, <1>14, <1>15, <1>20, <1>21, <2>1 DEF Wired
<1> HIDE DEF n
<1>23. /\ Keeps(d, e) /\ Wired(e) /\ e.wire = d.wire
       /\ DOMAIN e.kind = DOMAIN d.kind \cup {n} /\ e.kind[n] = kd
       /\ e.port[n] = ports /\ \A m \in DOMAIN d.port : e.port[m] = d.port[m]
  BY <1>1, <1>2, <1>4, <1>5, <1>6, <1>7, <1>22 DEF N
<1> QED BY <1>23 DEF e, n, l

\* A port is given a literal or a placeholder.
LEMMA OpenSets ==
    ASSUME NEW d, Numbered(d), Wired(d), NEW n \in DOMAIN d.kind, NEW i \in DOMAIN d.port[n],
           d.port[n][i].is # "wire", NEW a, a.is \in Open
    PROVE  Sets(d, [d EXCEPT !.port[n][i] = a], n, i)
<1> DEFINE e == [d EXCEPT !.port[n][i] = a]
           p == [d.port EXCEPT ![n] = [@ EXCEPT ![i] = a]]
<1>1. Same(d, e) BY PortGiven
<1>2. e.port = p /\ e.outs = d.outs /\ e.wire = d.wire BY DEF Numbered
<1>3. /\ DOMAIN p = DOMAIN d.port
      /\ \A m \in DOMAIN d.port : DOMAIN p[m] = DOMAIN d.port[m]
      /\ \A m \in DOMAIN d.port : \A j \in DOMAIN d.port[m] :
            p[m][j] = IF m = n /\ j = i THEN a ELSE d.port[m][j]
  OBVIOUS
<1> HIDE DEF e, p
<1>4. e.kind = d.kind /\ (\A m : Group(e, m) <=> Group(d, m)) /\ DOMAIN d.port = DOMAIN d.kind
  BY <1>1 DEF Same, Group, Numbered
<1>5. a.is # "wire" BY DEF Open
<1>6. \A m \in DOMAIN e.port : \A j \in DOMAIN e.port[m] : PortOK(e, e.port[m][j])
  <2>1. \A b : PortOK(d, b) => PortOK(e, b) BY <1>2 DEF PortOK
  <2>2. PortOK(e, a) BY DEF PortOK
  <2>3. \A m \in DOMAIN d.port : \A j \in DOMAIN d.port[m] : PortOK(d, d.port[m][j])
    BY DEF Wired
  <2> QED BY <1>2, <1>3, <2>1, <2>2, <2>3
<1>7. Unshared(e)
  <2>1. ASSUME NEW k, Alone(d, k) PROVE Alone(e, k)
    <3> SUFFICES ASSUME NEW b \in DOMAIN d.kind, NEW c \in DOMAIN d.kind,
                        NEW x \in DOMAIN d.port[b], NEW y \in DOMAIN d.port[c],
                        e.port[b][x] = Wire(k), e.port[c][y] = Wire(k)
                 PROVE  b = c /\ x = y
      BY <1>2, <1>3, <1>4 DEF Alone
    <3>1. d.port[b][x] = Wire(k) /\ d.port[c][y] = Wire(k) BY <1>2, <1>3, <1>4, <1>5, WireIs
    <3> QED BY <2>1, <3>1 DEF Alone
  <2> QED BY <1>2, <1>4, <2>1 DEF Wired, Unshared
<1>8. \A c \in DOMAIN d.kind : \A m : TakenBy(e, c, m) = TakenBy(d, c, m)
  BY <1>2, <1>3, <1>4, <1>5 DEF TakenBy
<1>9. Symmetric(e) BY <1>2, <1>4, <1>8 DEF Symmetric, Wired
<1>10. Wired(e) BY <1>2, <1>4, <1>6, <1>7, <1>9 DEF Wired
<1>11. Keeps(d, e) BY <1>1, SameKeeps
<1>12. Sets(d, e, n, i) BY <1>2, <1>3, <1>4, <1>10, <1>11 DEF Sets
<1> QED BY <1>12 DEF e

\* A name, a parameter, an argument: a group only after its template has returned (is in R),
\* and a reference to the output of a node.
Known(d, R, a) ==
    \/ a.is \in Open
    \/ /\ a.is = "node" /\ a.node \in DOMAIN d.kind
       /\ Group(d, a.node) => a.node \in R
    \/ /\ a.is = "wire" /\ a.wire \in DOMAIN d.wire
       /\ ~Group(d, d.wire[a.wire].node)

\* References to nodes go on referring to nodes.
WiresStay(d, e) ==
    \A k \in DOMAIN d.wire :
        /\ k \in DOMAIN e.wire
        /\ e.wire[k].node = d.wire[k].node \/ ~Group(e, e.wire[k].node)

\* A group that is kept remains a group.
LEMMA KeptGroups ==
    ASSUME NEW d, NEW e, Numbered(d), Keeps(d, e)
    PROVE  /\ DOMAIN d.kind \subseteq DOMAIN e.kind
           /\ \A n \in DOMAIN d.kind : Group(e, n) <=> Group(d, n)
<1>1. Len(d.kind) \in Nat /\ DOMAIN d.kind = 1..Len(d.kind) BY LenProperties DEF Numbered
<1>2. Len(e.kind) \in Nat /\ DOMAIN e.kind = 1..Len(e.kind)
  BY LenProperties DEF Keeps, Numbered
<1>3. 1..Len(d.kind) \subseteq 1..Len(e.kind) BY <1>1, <1>2 DEF Keeps
<1> QED BY <1>1, <1>2, <1>3 DEF Keeps, Group

\* What is known stays known.
LEMMA KnownStays ==
    ASSUME NEW d, NEW e, Numbered(d), Wired(d), Keeps(d, e), WiresStay(d, e),
           NEW R, NEW S, R \subseteq S, NEW a, Known(d, R, a)
    PROVE  Known(e, S, a)
<1>1. CASE a.is \in Open BY <1>1 DEF Known
<1>2. CASE a.is = "node" BY <1>2, KeptGroups DEF Known, Open
<1>3. CASE a.is = "wire"
  <2>1. a.wire \in DOMAIN d.wire /\ ~Group(d, d.wire[a.wire].node) BY <1>3 DEF Known, Open
  <2>2. d.wire[a.wire].node \in DOMAIN d.kind BY <2>1 DEF Wired
  <2>3. a.wire \in DOMAIN e.wire /\ ~Group(e, e.wire[a.wire].node)
    BY <2>1, <2>2, KeptGroups DEF WiresStay
  <2> QED BY <1>3, <2>3 DEF Known
<1> QED BY <1>1, <1>2, <1>3 DEF Known

\* What two steps did to one port is done to it.
LEMMA SetsTransitive ==
    ASSUME NEW c, NEW d, NEW e, NEW n, NEW i, Numbered(c), Sets(c, d, n, i), Sets(d, e, n, i)
    PROVE  Sets(c, e, n, i)
<1>1. Keeps(c, e) BY KeepsTransitive DEF Sets
<1>2. DOMAIN c.kind \subseteq DOMAIN d.kind BY KeptGroups DEF Sets
<1>3. DOMAIN c.port = DOMAIN c.kind /\ DOMAIN d.port = DOMAIN d.kind
  BY DEF Sets, Keeps, Numbered
<1>4. \A m \in DOMAIN e.kind : m \in DOMAIN c.kind \/ e.kind[m] = "constant"
  <2>1. Len(d.kind) \in Nat /\ DOMAIN d.kind = 1..Len(d.kind)
    BY LenProperties DEF Sets, Keeps, Numbered
  <2>2. \A m \in DOMAIN d.kind : e.kind[m] = d.kind[m] BY <2>1 DEF Sets, Keeps
  <2> QED BY <2>2 DEF Sets
<1> QED BY <1>1, <1>2, <1>3, <1>4 DEF Sets

\* One argument, given to a port that has nothing yet.
LEMMA ArgumentSets ==
    ASSUME NEW d, Numbered(d), Wired(d), NEW n \in DOMAIN d.kind, NEW i \in DOMAIN d.port[n],
           d.port[n][i].is # "wire", NEW R, NEW a, Known(d, R, a)
    PROVE  Sets(d, Argument(d, n, i, a), n, i)
<1>1. CASE a.is = "node"
  <2>1. Argument(d, n, i, a) = Attach(d, a.node, n, i) BY <1>1 DEF Argument
  <2>2. a.node \in DOMAIN d.kind BY <1>1 DEF Known, Open
  <2> QED BY <2>1, <2>2, AttachSets
<1>2. CASE a.is = "wire"
  <2>1. Argument(d, n, i, a) = Connect(d, a.wire, n, i) BY <1>2 DEF Argument
  <2>2. a.wire \in DOMAIN d.wire /\ ~Group(d, d.wire[a.wire].node) BY <1>2 DEF Known, Open
  <2>3. Unused(d, a.wire) BY <2>2 DEF Unused
  <2> QED BY <2>1, <2>2, <2>3, ConnectSets
<1>3. CASE a.is = "value"
  <2> DEFINE c == NewDraft(d, "constant", <<>>)
             m == Len(d.kind) + 1
             e == Argument(d, n, i, a)
  <2>1. e = Attach(c, m, n, i) BY <1>3 DEF Argument
  <2>2. IsList(<<>>) /\ DOMAIN <<>> = {}
    <3>1. DOMAIN <<>> = 1..0 OBVIOUS
    <3> QED BY <3>1 DEF IsList
  <2>3. "constant" \in Kind BY DEF Kind
  <2> DEFINE z == <<>>
  <2>4. IsList(z) /\ \A j \in DOMAIN z : z[j].is \in Open BY <2>2
  <2> HIDE DEF z
  <2>5. LET b == NewDraft(d, "constant", z) IN
        /\ Keeps(d, b) /\ Wired(b) /\ b.wire = d.wire
        /\ DOMAIN b.kind = DOMAIN d.kind \cup {m} /\ b.kind[m] = "constant"
        /\ b.port[m] = z /\ \A j \in DOMAIN d.port : b.port[j] = d.port[j]
    BY <2>3, <2>4, NewDraftWired
  <2>6. /\ Keeps(d, c) /\ Wired(c) /\ c.wire = d.wire
        /\ DOMAIN c.kind = DOMAIN d.kind \cup {m} /\ c.kind[m] = "constant"
        /\ \A j \in DOMAIN d.port : c.port[j] = d.port[j]
    BY <2>5 DEF z
  <2> HIDE DEF c, e, m
  <2>7. n \in DOMAIN d.port BY DEF Numbered
  <2>8. Sets(d, c, n, i) BY <2>6 DEF Sets
  <2>9. Sets(c, e, n, i)
    <3>1. /\ m \in DOMAIN c.kind /\ n \in DOMAIN c.kind /\ c.port[n] = d.port[n]
          /\ Numbered(c)
      BY <2>6, <2>7 DEF Keeps
    <3> QED BY <2>1, <2>6, <3>1, AttachSets
  <2>10. Sets(d, e, n, i) BY <2>8, <2>9, SetsTransitive
  <2> QED BY <2>10 DEF e
<1>4. CASE a.is \notin {"node", "wire", "value"}
  <2>1. Argument(d, n, i, a) = [d EXCEPT !.port[n][i] = a] BY <1>4 DEF Argument
  <2>2. a.is \in Open BY <1>4 DEF Known
  <2> QED BY <2>1, <2>2, OpenSets
<1> QED BY <1>1, <1>2, <1>3, <1>4

\* A draft and its arguments.
LEMMA InstantiateWired ==
    ASSUME Numbered(draft), Wired(draft), NEW kd \in Kind, NEW args, IsList(args), NEW R,
           \A i \in DOMAIN args : Known(draft, R, args[i])
    PROVE  LET e == Instantiate(kd, args)
               n == Len(draft.kind) + 1
           IN  /\ Keeps(draft, e) /\ Wired(e) /\ WiresStay(draft, e)
               /\ n \in DOMAIN e.kind /\ e.kind[n] = kd
               /\ \A m \in DOMAIN e.kind :
                     m \in DOMAIN draft.kind \/ m = n \/ e.kind[m] = "constant"
<1> DEFINE n == Len(draft.kind) + 1
           ports == [i \in DOMAIN args |-> Lit("unset")]
           base == NewDraft(draft, kd, ports)
           s == [i \in DOMAIN args |-> i]
           r == Given(n, args, base, s)
<1>1. PICK q \in Nat : DOMAIN args = 1..q BY DEF IsList
<1>2. /\ Keeps(draft, base) /\ Wired(base) /\ base.wire = draft.wire
      /\ DOMAIN base.kind = DOMAIN draft.kind \cup {n} /\ base.kind[n] = kd
      /\ base.port[n] = ports
  <2>1. IsList(ports) BY DEF IsList
  <2>2. \A i \in DOMAIN ports : ports[i].is \in Open BY DEF Lit, Open
  <2> HIDE DEF ports
  <2> QED BY <2>1, <2>2, NewDraftWired
<1>3. Len(s) = q /\ DOMAIN s = 1..q /\ \A j \in 1..q : s[j] = j
  <2>1. s = [i \in 1..q |-> i] BY <1>1
  <2> HIDE DEF s
  <2> QED BY <1>1, <2>1
<1>4. Instantiate(kd, args) = r BY DEF Instantiate, FoldLeftDomain, Given
<1>5. DOMAIN base.port[n] = 1..q /\ \A i \in 1..q : base.port[n][i].is # "wire"
  <2>1. DOMAIN ports = DOMAIN args /\ \A i \in DOMAIN args : ports[i].is = "unset" BY DEF Lit
  <2> HIDE DEF ports, base, n
  <2> QED BY <1>1, <1>2, <2>1
<1> HIDE DEF n, base, s, ports
<1>6. PICK h : Run(h, "argument", [node |-> n, args |-> args], base, s, r)
  BY <1>3, ArgumentRuns
<1> HIDE DEF r
<1>7. h[0] = base /\ h[q] = r /\ \A j \in 1..q : h[j] = Argument(h[j - 1], n, j, args[j])
  BY <1>3, <1>6 DEF Run, Step
<1> DEFINE Good(j) ==
             LET d == h[j] IN
             /\ Keeps(draft, d) /\ Wired(d)
             /\ n \in DOMAIN d.kind /\ d.kind[n] = kd
             /\ \A m \in DOMAIN d.kind :
                   m \in DOMAIN draft.kind \/ m = n \/ d.kind[m] = "constant"
             /\ \A l \in DOMAIN draft.wire : l \in DOMAIN d.wire /\ d.wire[l] = draft.wire[l]
             /\ DOMAIN d.port[n] = 1..q /\ \A i \in (j + 1)..q : d.port[n][i].is # "wire"
           S == {j \in 0..q : Good(j)}
<1>8. 0 \in S
  <2>1. 0 \in 0..q /\ \A i \in (0 + 1)..q : i \in 1..q BY <1>1
  <2> QED BY <1>2, <1>5, <1>7, <2>1
<1>9. ASSUME NEW j \in 1..q, j - 1 \in S PROVE j \in S
  <2> DEFINE d == h[j - 1]
             e == h[j]
  <2>1. Good(j - 1) BY <1>9
  <2>2. Numbered(d) BY <2>1 DEF Keeps
  <2>3. WiresStay(draft, d) BY <2>1 DEF WiresStay
  <2>4. Known(d, R, args[j])
    <3>1. Known(draft, R, args[j]) BY <1>1
    <3>2. Keeps(draft, d) BY <2>1
    <3> HIDE DEF d
    <3> QED BY <2>3, <3>1, <3>2, KnownStays
  <2>5. /\ j \in 0..q /\ j \in ((j - 1) + 1)..q
        /\ \A i \in (j + 1)..q : i \in ((j - 1) + 1)..q /\ i # j /\ i \in 1..q
    BY <1>1
  <2>6. n \in DOMAIN d.kind /\ j \in DOMAIN d.port[n] /\ d.port[n][j].is # "wire"
    BY <2>1, <2>5
  <2>7. e = Argument(d, n, j, args[j]) BY <1>7
  <2>8. Wired(d) BY <2>1
  <2> HIDE DEF d, e
  <2>9. Sets(d, e, n, j) BY <2>2, <2>4, <2>6, <2>7, <2>8, ArgumentSets
  <2>10. n \in DOMAIN d.port BY <2>2, <2>6 DEF Numbered
  <2>11. Keeps(draft, e) /\ Wired(e)
    <3>1. Keeps(draft, d) BY <2>1 DEF d
    <3> QED BY <2>9, <3>1, KeepsTransitive DEF Sets
  <2>12. \A m \in DOMAIN d.kind : m \in DOMAIN e.kind /\ e.kind[m] = d.kind[m]
    <3>1. Len(d.kind) \in Nat /\ DOMAIN d.kind = 1..Len(d.kind)
      BY <2>2, LenProperties DEF Numbered
    <3>2. DOMAIN d.kind \subseteq DOMAIN e.kind BY <2>2, <2>9, KeptGroups DEF Sets
    <3> QED BY <2>9, <3>1, <3>2 DEF Sets, Keeps
  <2>13. \A m \in DOMAIN e.kind : m \in DOMAIN draft.kind \/ m = n \/ e.kind[m] = "constant"
    <3>1. \A m \in DOMAIN d.kind :
             m \in DOMAIN draft.kind \/ m = n \/ d.kind[m] = "constant"
      BY <2>1 DEF d
    <3> QED BY <2>9, <2>12, <3>1 DEF Sets
  <2>14. n \in DOMAIN e.kind /\ e.kind[n] = kd
    <3>1. d.kind[n] = kd BY <2>1 DEF d
    <3> QED BY <2>6, <2>12, <3>1
  <2>15. \A l \in DOMAIN draft.wire : l \in DOMAIN e.wire /\ e.wire[l] = draft.wire[l]
    <3>1. \A l \in DOMAIN draft.wire : l \in DOMAIN d.wire /\ d.wire[l] = draft.wire[l]
      BY <2>1 DEF d
    <3> QED BY <2>9, <3>1 DEF Sets
  <2>16. DOMAIN e.port[n] = 1..q /\ \A i \in (j + 1)..q : e.port[n][i].is # "wire"
    <3>1. DOMAIN d.port[n] = 1..q /\ \A i \in ((j - 1) + 1)..q : d.port[n][i].is # "wire"
      BY <2>1 DEF d
    <3>2. \A i \in 1..q : i # j => e.port[n][i] = d.port[n][i] BY <2>9, <2>10, <3>1 DEF Sets
    <3> QED BY <2>5, <2>9, <2>10, <3>1, <3>2 DEF Sets
  <2> QED BY <2>5, <2>11, <2>13, <2>14, <2>15, <2>16 DEF e
<1>10. q \in S
  <2> HIDE DEF S
  <2>1. \A j \in 0..q : j \in S BY <1>1, <1>8, <1>9, UptoInduction
  <2> QED BY <1>1, <2>1
<1>11. Good(q) BY <1>10
<1> QED BY <1>4, <1>7, <1>11 DEF WiresStay, n

\* A reference to a group is made one to a node, on both sides.
Moves(d, e, n, k, g, to) ==
    /\ DOMAIN e = DOMAIN d /\ e.kind = d.kind /\ e.port = d.port
    /\ e.wire = [d.wire EXCEPT ![k] = [@ EXCEPT !.node = to]]
    /\ e.outs = [[d.outs EXCEPT ![g] = RemoveFirst(@, n)] EXCEPT ![to] = Append(@, n)]

\* What Redirect changes.
LEMMA RedirectMoves ==
    ASSUME NEW d, Numbered(d), NEW p, NEW alias, ConnectedTo(d, p, alias)
    PROVE  LET k == d.port[p.node][p.index].wire
               g == d.wire[k].node
           IN  Moves(d, Redirect(d, p, alias), p.node, k, g, Target(Node(g)).node)
<1> DEFINE k == d.port[p.node][p.index].wire
           g == d.wire[k].node
           to == Target(Node(g)).node
           left == [d.outs EXCEPT ![g] = RemoveFirst(@, p.node)]
           o == [left EXCEPT ![to] = Append(@, p.node)]
           w == [d.wire EXCEPT ![k] = [@ EXCEPT !.node = to]]
           e == Redirect(d, p, alias)
<1>1. e = [d EXCEPT !.outs = o, !.wire[k].node = to] BY DEF Redirect
<1>2. [d EXCEPT !.outs = o, !.wire[k].node = to] = [d EXCEPT !.outs = o, !.wire = w]
  <2> HIDE DEF k, to, o
  <2> QED BY DEF Numbered
<1> HIDE DEF e
<1>3. /\ DOMAIN e = DOMAIN d /\ e.kind = d.kind /\ e.port = d.port
      /\ e.outs = o /\ e.wire = w
  <2> HIDE DEF o, w
  <2>1. e = [d EXCEPT !.outs = o, !.wire = w] BY <1>1, <1>2
  <2> QED BY <2>1 DEF Numbered
<1> HIDE DEF k, to
<1> QED BY <1>3 DEF Moves, k, g, to, e

\* Where nobody shares the reference, both sides agree after it has moved.
LEMMA MovesWired ==
    ASSUME NEW d, NEW e, Numbered(d), Wired(d), NEW n \in DOMAIN d.kind, ~Group(d, n),
           NEW i \in DOMAIN d.port[n], NEW k \in DOMAIN d.wire, d.port[n][i] = Wire(k),
           NEW g, g = d.wire[k].node, Group(d, g), NEW to \in DOMAIN d.kind, ~Group(d, to),
           Moves(d, e, n, k, g, to)
    PROVE  Wired(e) /\ WiresStay(d, e)
<1> DEFINE N == DOMAIN d.kind
           w == [d.wire[k] EXCEPT !.node = to]
<1>1. /\ e.kind = d.kind /\ e.port = d.port /\ DOMAIN d.port = N /\ DOMAIN d.outs = N
      /\ \A m : Group(e, m) <=> Group(d, m)
  BY DEF Moves, Wired, Numbered, Group
<1>2. /\ \A l \in DOMAIN d.wire :
            DOMAIN d.wire[l] = {"node", "of"} /\ d.wire[l].node \in N
      /\ g \in N /\ g # to
  BY DEF Wired
<1>3. DOMAIN w = {"node", "of"} /\ w.node = to BY <1>2
<1>4. e.wire = [d.wire EXCEPT ![k] = w] BY DEF Moves
<1>5. /\ DOMAIN e.wire = DOMAIN d.wire
      /\ \A l \in DOMAIN d.wire : e.wire[l] = IF l = k THEN w ELSE d.wire[l]
  <2> HIDE DEF w
  <2> QED BY <1>4
<1>6. \E W : e.wire \in Seq(W)
  <2>1. PICK W : d.wire \in Seq(W) BY DEF Wired
  <2>2. d.wire \in Seq(W \cup {w}) BY <2>1, SeqMonotonic
  <2>3. k \in 1..Len(d.wire) BY <2>1, LenProperties
  <2> HIDE DEF w
  <2> DEFINE Y == W \cup {w}
  <2>4. d.wire \in Seq(Y) /\ w \in Y BY <2>2
  <2> HIDE DEF Y
  <2> QED BY <1>4, <2>3, <2>4, ExceptSeq
<1> HIDE DEF w
<1>7. \A m \in N : d.outs[m] \in Seq(N)
  <2>1. d.outs \in Seq(Seq(N)) BY DEF Wired
  <2>2. N = 1..Len(d.outs) BY <1>1, <2>1, LenProperties
  <2> QED BY <2>1, <2>2, ElementOfSeq
<1>8. i \in TakenBy(d, n, g) BY WireIs DEF TakenBy
<1>9. \A c \in N : \A m : IsFiniteSet(TakenBy(d, c, m))
  BY <1>1, TakenFinite DEF Numbered
<1>10. Contains(d.outs[g], n)
  <2>1. Cardinality(TakenBy(d, n, g)) = Count(d.outs[g], n) BY <1>2 DEF Wired, Symmetric
  <2>2. Cardinality(TakenBy(d, n, g)) # 0 BY <1>8, <1>9, FS_EmptySet
  <2>3. Listed(d.outs[g], n) # {} BY <2>1, <2>2, FS_EmptySet DEF Count
  <2>4. DOMAIN d.outs[g] = 1..Len(d.outs[g]) BY <1>2, <1>7, LenProperties
  <2> QED BY <2>3, <2>4 DEF Listed, Contains
<1> DEFINE x == RemoveFirst(d.outs[g], n)
           y == Append(d.outs[to], n)
<1>11. /\ x \in Seq(N)
       /\ \A c : Count(x, c) = IF c = n THEN Count(d.outs[g], c) - 1 ELSE Count(d.outs[g], c)
  <2>1. d.outs[g] \in Seq(N) BY <1>2, <1>7
  <2> HIDE DEF N
  <2> QED BY <1>10, <2>1, CountRemoveFirst
<1>12. /\ y \in Seq(N)
       /\ \A c : Count(y, c) = IF c = n THEN Count(d.outs[to], c) + 1 ELSE Count(d.outs[to], c)
  <2>1. d.outs[to] \in Seq(N) /\ n \in N BY <1>7
  <2> HIDE DEF N
  <2> QED BY <2>1, CountAppend, AppendProperties
<1> HIDE DEF x, y
<1>13. /\ e.outs \in Seq(Seq(N)) /\ DOMAIN e.outs = N
       /\ \A m \in N : e.outs[m] = IF m = to THEN y ELSE IF m = g THEN x ELSE d.outs[m]
  <2> DEFINE Y == Seq(N)
             s == d.outs
             t == [s EXCEPT ![g] = x]
  <2>1. s \in Seq(Y) BY DEF Wired
  <2>2. N = 1..Len(s) BY <1>1, <2>1, LenProperties
  <2>3. e.outs = [t EXCEPT ![to] = y]
    <3>1. t[to] = s[to] BY <1>1, <1>2
    <3>2. e.outs = [t EXCEPT ![to] = Append(t[to], n)] BY DEF Moves, x
    <3> HIDE DEF t
    <3> QED BY <3>1, <3>2 DEF y
  <2>4. x \in Y /\ y \in Y /\ g \in 1..Len(s) /\ to \in 1..Len(s) BY <1>2, <1>11, <1>12, <2>2
  <2> HIDE DEF Y, s
  <2>5. /\ t \in Seq(Y) /\ Len(t) = Len(s)
        /\ \A m \in 1..Len(s) : t[m] = IF m = g THEN x ELSE s[m]
    BY <2>1, <2>4, ExceptSeq
  <2> HIDE DEF t
  <2>6. /\ e.outs \in Seq(Y) /\ Len(e.outs) = Len(s)
        /\ \A m \in 1..Len(s) : e.outs[m] = IF m = to THEN y ELSE t[m]
    BY <2>3, <2>4, <2>5, ExceptSeq
  <2>7. DOMAIN e.outs = 1..Len(s) BY <2>6, LenProperties
  <2>8. \A m \in 1..Len(s) : e.outs[m] = IF m = to THEN y ELSE IF m = g THEN x ELSE s[m]
    BY <2>5, <2>6
  <2> HIDE DEF N
  <2> QED BY <2>2, <2>6, <2>7, <2>8 DEF Y, s
<1>14. ASSUME NEW c \in N, NEW j \in DOMAIN d.port[c], d.port[c][j] = Wire(k)
       PROVE  c = n /\ j = i
  BY <1>14 DEF Wired, Unshared, Alone
<1>15. \A c \in N : \A j \in DOMAIN d.port[c] :
          d.port[c][j].is = "wire" =>
             \E l \in DOMAIN d.wire : d.port[c][j] = Wire(l) /\ d.port[c][j].wire = l
  <2> SUFFICES ASSUME NEW c \in N, NEW j \in DOMAIN d.port[c], d.port[c][j].is = "wire"
               PROVE  \E l \in DOMAIN d.wire : d.port[c][j] = Wire(l) /\ d.port[c][j].wire = l
    OBVIOUS
  <2>1. PortOK(d, d.port[c][j]) BY <1>1 DEF Wired
  <2> QED BY <2>1, WireIs DEF PortOK, Open
<1>16. ASSUME NEW c \in N, NEW m \in N
       PROVE  TakenBy(e, c, m) = CASE c = n /\ m = g  -> TakenBy(d, c, m) \ {i}
                                   [] c = n /\ m = to -> TakenBy(d, c, m) \cup {i}
                                   [] OTHER           -> TakenBy(d, c, m)
  <2>1. ASSUME NEW j \in DOMAIN d.port[c], d.port[c][j].is = "wire"
        PROVE  e.wire[d.port[c][j].wire].node
                 = IF c = n /\ j = i THEN to ELSE d.wire[d.port[c][j].wire].node
    <3>1. PICK l \in DOMAIN d.wire : d.port[c][j] = Wire(l) /\ d.port[c][j].wire = l
      BY <1>15, <2>1
    <3>2. CASE l = k
      <4>1. c = n /\ j = i BY <1>14, <3>1, <3>2
      <4> QED BY <1>3, <1>5, <3>1, <3>2, <4>1
    <3>3. CASE l # k
      <4>1. ~(c = n /\ j = i) BY <3>1, <3>3, WireIs
      <4> QED BY <1>5, <3>1, <3>3, <4>1
    <3> QED BY <3>2, <3>3
  <2>2. TakenBy(e, c, m) =
          {j \in DOMAIN d.port[c] : d.port[c][j].is = "wire"
                                      /\ (IF c = n /\ j = i THEN to
                                          ELSE d.wire[d.port[c][j].wire].node) = m}
    BY <1>1, <2>1 DEF TakenBy
  <2>3. d.port[n][i].is = "wire" BY WireIs
  <2>4. CASE c = n /\ m = g BY <1>2, <2>2, <2>4 DEF TakenBy
  <2>5. CASE c = n /\ m = to BY <1>2, <2>2, <2>3, <2>5 DEF TakenBy
  <2>6. CASE ~(c = n /\ m = g) /\ ~(c = n /\ m = to)
    <3>1. c = n => i \notin TakenBy(d, n, m) BY <1>8, <2>6 DEF TakenBy
    <3> QED BY <2>2, <2>6, <3>1 DEF TakenBy
  <2> QED BY <1>2, <2>4, <2>5, <2>6
<1>17. ASSUME NEW m \in N, NEW c \in N, ~Group(d, c)
       PROVE  Cardinality(TakenBy(e, c, m)) = Count(e.outs[m], c)
  <2>1. Cardinality(TakenBy(d, c, m)) = Count(d.outs[m], c) BY <1>17 DEF Wired, Symmetric
  <2>2. IsFiniteSet(TakenBy(d, c, m)) BY <1>9
  <2>3. CASE c = n /\ m = g
    <3>1. TakenBy(e, c, m) = TakenBy(d, c, m) \ {i} BY <1>16, <2>3
    <3>2. Cardinality(TakenBy(e, c, m)) = Cardinality(TakenBy(d, c, m)) - 1
      BY <1>8, <2>2, <2>3, <3>1, FS_RemoveElement
    <3> QED BY <1>2, <1>11, <1>13, <2>1, <2>3, <3>2
  <2>4. CASE c = n /\ m = to
    <3>1. TakenBy(e, c, m) = TakenBy(d, c, m) \cup {i} BY <1>2, <1>16, <2>4
    <3>2. i \notin TakenBy(d, c, m) BY <1>2, <1>8, <2>4 DEF TakenBy
    <3>3. Cardinality(TakenBy(e, c, m)) = Cardinality(TakenBy(d, c, m)) + 1
      BY <2>2, <3>1, <3>2, FS_AddElement
    <3> QED BY <1>12, <1>13, <2>1, <2>4, <3>3
  <2>5. CASE ~(c = n /\ m = g) /\ ~(c = n /\ m = to)
    <3>1. TakenBy(e, c, m) = TakenBy(d, c, m) BY <1>16, <2>5
    <3>2. Count(e.outs[m], c) = Count(d.outs[m], c) BY <1>11, <1>12, <1>13, <2>5
    <3> QED BY <2>1, <3>1, <3>2
  <2> QED BY <2>3, <2>4, <2>5
<1>18. Symmetric(e) BY <1>1, <1>17 DEF Symmetric
<1>19. Unshared(e)
  <2>1. \A l : Alone(d, l) => Alone(e, l) BY <1>1 DEF Alone
  <2> QED BY <1>1, <1>3, <1>5, <2>1 DEF Wired, Unshared
<1>20. \A l \in DOMAIN e.wire : DOMAIN e.wire[l] = {"node", "of"} /\ e.wire[l].node \in N
  BY <1>2, <1>3, <1>5
<1>21. \A m \in DOMAIN e.port : \A j \in DOMAIN e.port[m] : PortOK(e, e.port[m][j])
  <2>1. \A a : PortOK(d, a) => PortOK(e, a) BY <1>5 DEF PortOK
  <2>2. \A m \in DOMAIN d.port : \A j \in DOMAIN d.port[m] : PortOK(d, d.port[m][j])
    BY DEF Wired
  <2> QED BY <1>1, <2>1, <2>2
<1>22. Wired(e) BY <1>1, <1>6, <1>13, <1>18, <1>19, <1>20, <1>21 DEF Wired
<1>23. WiresStay(d, e) BY <1>1, <1>3, <1>5 DEF WiresStay
<1> QED BY <1>22, <1>23

\* The consumers of n without the groups.
DropAt(d, x, n) == [d EXCEPT !.outs[n] = Proper(x, @)]

\* Only nodes are left among the consumers.
LEMMA DropWired ==
    ASSUME NEW d, Numbered(d), Wired(d), NEW x, x.kind = d.kind, NEW n \in DOMAIN d.kind
    PROVE  /\ Wired(DropAt(d, x, n)) /\ WiresStay(d, DropAt(d, x, n))
           /\ DropAt(d, x, n).port = d.port /\ DropAt(d, x, n).wire = d.wire
<1> DEFINE N == DOMAIN d.kind
           e == DropAt(d, x, n)
           y == Proper(x, d.outs[n])
<1>1. /\ e.kind = d.kind /\ e.port = d.port /\ e.wire = d.wire
      /\ e.outs = [d.outs EXCEPT ![n] = y]
  BY DEF Numbered, DropAt
<1>2. DOMAIN d.port = N /\ DOMAIN d.outs = N BY DEF Wired, Numbered
<1>3. \A m \in N : d.outs[m] \in Seq(N)
  <2>1. d.outs \in Seq(Seq(N)) BY DEF Wired
  <2>2. N = 1..Len(d.outs) BY <1>2, <2>1, LenProperties
  <2> QED BY <2>1, <2>2, ElementOfSeq
<1>4. y \in Seq(N) /\ \A c : ~Group(d, c) => Count(y, c) = Count(d.outs[n], c)
  <2>1. d.outs[n] \in Seq(N) BY <1>3
  <2>2. \A c : Group(x, c) <=> Group(d, c) BY DEF Group
  <2> HIDE DEF N
  <2>3. /\ y \in Seq({c \in N : ~Group(x, c)})
        /\ \A c : ~Group(x, c) => Count(y, c) = Count(d.outs[n], c)
    BY <2>1, ProperList
  <2>4. {c \in N : ~Group(x, c)} \subseteq N OBVIOUS
  <2>5. y \in Seq(N)
    <3> HIDE DEF y
    <3> QED BY <2>3, <2>4, SeqMonotonic
  <2> QED BY <2>2, <2>3, <2>5
<1> HIDE DEF e, y
<1>5. /\ e.outs \in Seq(Seq(N)) /\ DOMAIN e.outs = N
      /\ \A m \in N : e.outs[m] = IF m = n THEN y ELSE d.outs[m]
  <2> DEFINE Y == Seq(N)
             s == d.outs
  <2>1. s \in Seq(Y) BY DEF Wired
  <2>2. N = 1..Len(s) BY <1>2, <2>1, LenProperties
  <2>3. y \in Y /\ n \in 1..Len(s) /\ e.outs = [s EXCEPT ![n] = y] BY <1>1, <1>4, <2>2
  <2> HIDE DEF Y, s
  <2>4. /\ e.outs \in Seq(Y) /\ Len(e.outs) = Len(s)
        /\ \A m \in 1..Len(s) : e.outs[m] = IF m = n THEN y ELSE s[m]
    BY <2>1, <2>3, ExceptSeq
  <2>5. DOMAIN e.outs = 1..Len(s) BY <2>4, LenProperties
  <2> HIDE DEF N
  <2> QED BY <2>2, <2>4, <2>5 DEF Y, s
<1>6. \A m : Group(e, m) <=> Group(d, m) BY <1>1 DEF Group
<1>7. \A c, m : TakenBy(e, c, m) = TakenBy(d, c, m) BY <1>1 DEF TakenBy
<1>8. \A m, c \in N : ~Group(d, c) => Count(e.outs[m], c) = Count(d.outs[m], c)
  BY <1>4, <1>5
<1>9. Symmetric(e) BY <1>1, <1>6, <1>7, <1>8 DEF Symmetric, Wired
<1>10. Unshared(e)
  <2>1. \A l : Alone(d, l) => Alone(e, l) BY <1>1 DEF Alone
  <2> QED BY <1>1, <1>6, <2>1 DEF Wired, Unshared
<1>11. \A m \in DOMAIN e.port : \A j \in DOMAIN e.port[m] : PortOK(e, e.port[m][j])
  BY <1>1 DEF PortOK, Wired
<1>12. Wired(e) BY <1>1, <1>5, <1>9, <1>10, <1>11 DEF Wired
<1> QED BY <1>1, <1>12 DEF WiresStay, e

-----------------------------------------------------------------------------
(* What the names stand for.                                                  *)

KnownHere(a) == Known(draft, DOMAIN returned, a)

\* The groups that have returned can be ranked: each returned something of a lower rank.
Ranked(rank) ==
    \A g \in DOMAIN returned :
        /\ rank[g] \in 1..Cardinality(DOMAIN returned)
        /\ IsGroup(returned[g]) => rank[returned[g].node] < rank[g]

ReturnsOK ==
    /\ \A g \in DOMAIN returned :
          g \in DOMAIN draft.kind /\ Group(draft, g) /\ KnownHere(returned[g])
    /\ \E rank : Ranked(rank)

\* There are no more groups than drafts.
LEMMA ReturnedFinite ==
    ASSUME Numbered(draft), DOMAIN returned \subseteq DOMAIN draft.kind
    PROVE  /\ IsFiniteSet(DOMAIN returned)
           /\ Cardinality(DOMAIN returned) \in 0..Len(draft.kind)
<1>1. Len(draft.kind) \in Nat /\ DOMAIN draft.kind = 1..Len(draft.kind)
  BY LenProperties DEF Numbered
<1> DEFINE l == Len(draft.kind)
           R == DOMAIN returned
<1>2. IsFiniteSet(1..l) /\ Cardinality(1..l) = l
  <2>1. l \in Nat BY <1>1
  <2> HIDE DEF l
  <2> QED BY <2>1, FS_Interval
<1>3. R \subseteq 1..l BY <1>1
<1> HIDE DEF l, R
<1>4. IsFiniteSet(R) /\ Cardinality(R) <= Cardinality(1..l) BY <1>2, <1>3, FS_Subset
<1>5. Cardinality(R) \in Nat BY <1>4, FS_CardinalityType
<1>6. l \in Nat BY <1>1 DEF l
<1> QED BY <1>2, <1>4, <1>5, <1>6 DEF l, R

\* A name stands for something known that is no group.
LEMMA TargetKnown ==
    ASSUME Numbered(draft), ReturnsOK, NEW a, KnownHere(a)
    PROVE  KnownHere(Target(a)) /\ ~IsGroup(Target(a))
<1> DEFINE l == Len(draft.kind)
           C == Cardinality(DOMAIN returned)
           r == Target(a)
<1>1. l \in Nat /\ DOMAIN draft.kind = 1..l BY LenProperties DEF Numbered
<1>2. C \in 0..l BY ReturnedFinite DEF ReturnsOK
<1>3. PICK rank : Ranked(rank) BY DEF ReturnsOK
<1>4. PICK h : Run(h, "target", 0, a, draft.kind, r) BY <1>1, TargetRuns
<1> HIDE DEF r
<1>5. /\ h[0] = a /\ h[l] = r
      /\ \A j \in 1..l : h[j] = IF IsGroup(h[j - 1]) THEN returned[h[j - 1].node] ELSE h[j - 1]
  BY <1>4 DEF Run, Step
<1> HIDE DEF l, C
<1> DEFINE Good(j) == /\ KnownHere(h[j])
                      /\ IsGroup(h[j]) => rank[h[j].node] <= C - j
           S == {j \in 0..l : Good(j)}
<1>6. \A b : KnownHere(b) /\ IsGroup(b) => b.node \in DOMAIN returned
  BY DEF KnownHere, Known, IsGroup, Group, Open
<1>7. \A g \in DOMAIN returned : rank[g] \in 1..C BY <1>3 DEF Ranked, C
<1>8. 0 \in S
  <2>1. KnownHere(h[0]) BY <1>5
  <2>2. IsGroup(h[0]) => rank[h[0].node] <= C - 0
    <3> SUFFICES ASSUME IsGroup(h[0]) PROVE rank[h[0].node] <= C - 0 OBVIOUS
    <3>1. rank[h[0].node] \in 1..C BY <1>6, <1>7, <2>1
    <3> QED BY <1>1, <1>2, <3>1
  <2>3. 0 \in 0..l BY <1>1
  <2> QED BY <2>1, <2>2, <2>3
<1>9. ASSUME NEW j \in 1..l, j - 1 \in S PROVE j \in S
  <2>1. KnownHere(h[j - 1]) /\ (IsGroup(h[j - 1]) => rank[h[j - 1].node] <= C - (j - 1))
    BY <1>9
  <2>2. j \in 0..l BY <1>1
  <2>3. CASE IsGroup(h[j - 1])
    <3> DEFINE g == h[j - 1].node
    <3>1. g \in DOMAIN returned BY <1>6, <2>1, <2>3
    <3>2. h[j] = returned[g] BY <1>5, <2>3
    <3> HIDE DEF g
    <3>3. KnownHere(h[j]) BY <3>1, <3>2 DEF ReturnsOK
    <3>4. IsGroup(h[j]) => rank[h[j].node] <= C - j
      <4> SUFFICES ASSUME IsGroup(h[j]) PROVE rank[h[j].node] <= C - j OBVIOUS
      <4>1. rank[h[j].node] < rank[g] BY <1>3, <3>1, <3>2 DEF Ranked
      <4>2. rank[h[j].node] \in 1..C /\ rank[g] \in 1..C BY <1>6, <1>7, <3>1, <3>3
      <4>3. rank[g] <= C - (j - 1) BY <2>1, <2>3 DEF g
      <4> QED BY <1>1, <1>2, <4>1, <4>2, <4>3
    <3> QED BY <2>2, <3>3, <3>4
  <2>4. CASE ~IsGroup(h[j - 1])
    <3>1. h[j] = h[j - 1] BY <1>5, <2>4
    <3> QED BY <2>1, <2>2, <2>4, <3>1
  <2> QED BY <2>3, <2>4
<1>10. l \in S
  <2> HIDE DEF S
  <2>1. \A j \in 0..l : j \in S BY <1>1, <1>8, <1>9, UptoInduction
  <2> QED BY <1>1, <2>1
<1>11. KnownHere(r) /\ (IsGroup(r) => rank[r.node] <= C - l) BY <1>5, <1>10
<1>12. ~IsGroup(r)
  <2> SUFFICES ASSUME IsGroup(r) PROVE FALSE OBVIOUS
  <2>1. rank[r.node] \in 1..C /\ rank[r.node] <= C - l BY <1>6, <1>7, <1>11
  <2> QED BY <1>1, <1>2, <2>1
<1> QED BY <1>11, <1>12 DEF r

\* The names of a view and of the views in it.
LEMMA MergedKnown ==
    ASSUME NEW v, NEW X, v.results \in Seq(X),
           \A x \in DOMAIN v.names : KnownHere(v.names[x]),
           \A j \in DOMAIN v.results :
              \A x \in DOMAIN v.results[j].names : KnownHere(v.results[j].names[x])
    PROVE  \A x \in DOMAIN Merged(v) : KnownHere(Merged(v)[x])
<1> DEFINE l == Len(v.results)
           r == Merged(v)
<1>1. l \in Nat /\ DOMAIN v.results = 1..l BY LenProperties
<1>2. PICK h : Run(h, "merge", 0, v.names, v.results, r) BY <1>1, MergedRuns
<1> HIDE DEF r
<1>3. /\ h[0] = v.names /\ h[l] = r
      /\ \A j \in 1..l : h[j] = Update(h[j - 1], v.results[j].names)
  BY <1>2 DEF Run, Step
<1> HIDE DEF l
<1> DEFINE S == {j \in 0..l : \A x \in DOMAIN h[j] : KnownHere(h[j][x])}
<1>4. 0 \in S BY <1>1, <1>3
<1>5. ASSUME NEW j \in 1..l, j - 1 \in S PROVE j \in S
  <2>1. \A x \in DOMAIN h[j - 1] : KnownHere(h[j - 1][x]) BY <1>5
  <2>2. \A x \in DOMAIN v.results[j].names : KnownHere(v.results[j].names[x]) BY <1>1
  <2> DEFINE ns == h[j - 1]
             more == v.results[j].names
  <2>3. h[j] = Update(ns, more) BY <1>3
  <2> HIDE DEF ns, more
  <2>4. /\ DOMAIN h[j] = DOMAIN ns \cup DOMAIN more
        /\ \A x \in DOMAIN h[j] : h[j][x] = IF x \in DOMAIN more THEN more[x] ELSE ns[x]
    BY <2>3 DEF Update
  <2>5. \A x \in DOMAIN h[j] : KnownHere(h[j][x])
    BY <2>1, <2>2, <2>4 DEF ns, more
  <2>6. j \in 0..l BY <1>1
  <2> QED BY <2>5, <2>6
<1>6. l \in S
  <2> HIDE DEF S
  <2>1. \A j \in 0..l : j \in S BY <1>1, <1>4, <1>5, UptoInduction
  <2> QED BY <1>1, <2>1
<1> QED BY <1>3, <1>6 DEF r

-----------------------------------------------------------------------------
(* The connections of a view that is finalized.                               *)

\* Nodes and constants.
Nodes == {n \in DOMAIN draft.kind : ~Group(draft, n)}

\* A port of a node.
IsPort(p) == p.node \in Nodes /\ p.index \in DOMAIN draft.port[p.node]

\* The ports that the finalization walks through are ports of nodes.
LEMMA PortsOfNodes ==
    ASSUME Numbered(draft), NEW ns \in Seq(Nodes)
    PROVE  /\ Len(Ports(ns)) \in Nat /\ DOMAIN Ports(ns) = 1..Len(Ports(ns))
           /\ \A j \in 1..Len(Ports(ns)) : IsPort(Ports(ns)[j])
<1> DEFINE X == {p \in [node : Nodes, index : Nat] : IsPort(p)}
           of(n) == [i \in DOMAIN draft.port[n] |-> [node |-> n, index |-> i]]
           seqs == [j \in DOMAIN ns |-> of(ns[j])]
           ps == Ports(ns)
<1>1. DOMAIN ns = 1..Len(ns) /\ Len(ns) \in Nat BY LenProperties
<1>2. \A j \in 1..Len(ns) : ns[j] \in Nodes BY ElementOfSeq
<1>3. \A n \in Nodes : of(n) \in Seq(X)
  <2>1. TAKE n \in Nodes
  <2>2. PICK m \in Nat : DOMAIN draft.port[n] = 1..m BY DEF Numbered, IsList, Nodes
  <2>3. of(n) = [i \in 1..m |-> [node |-> n, index |-> i]] BY <2>2
  <2>4. \A i \in 1..m : [node |-> n, index |-> i] \in X BY <2>2 DEF IsPort
  <2> HIDE DEF of, X
  <2> QED BY <2>2, <2>3, <2>4
<1>4. seqs \in Seq(Seq(X))
  <2>1. seqs = [j \in 1..Len(ns) |-> of(ns[j])] BY <1>1
  <2> HIDE DEF of, X, seqs
  <2> QED BY <1>1, <1>2, <1>3, <2>1
<1>5. ps = FlattenSeq(seqs) BY DEF Ports
<1>6. \A p \in X : IsPort(p) OBVIOUS
<1> HIDE DEF X, seqs, ps
<1>7. ps \in Seq(X) BY <1>4, <1>5, FlattenType
<1>8. Len(ps) \in Nat /\ DOMAIN ps = 1..Len(ps) /\ \A j \in 1..Len(ps) : ps[j] \in X
  BY <1>7, LenProperties, ElementOfSeq
<1> QED BY <1>6, <1>8 DEF ps

\* References stay through two steps when each leaves them.
LEMMA WiresStayTransitive ==
    ASSUME NEW c, NEW d, NEW e, WiresStay(c, d), WiresStay(d, e), e.kind = d.kind
    PROVE  WiresStay(c, e)
BY DEF WiresStay, Group

\* The groups of a view are known to have returned.
AliasOK(alias) == \A g \in alias : g \in DOMAIN returned /\ Group(draft, g)

\* No port makes the loops fail.
PortsAccepted(ps, alias, rn) ==
    \A j \in 1..Len(ps) :
        LET p == ps[j]
            a == draft.port[p.node][p.index]
        IN  /\ IsPort(p)
            /\ a.is # "unset"
            /\ a.is = "later" => a.name \in DOMAIN rn /\ rn[a.name].is = "node"
            /\ ConnectedTo(draft, p, alias) =>
                  Target(Node(draft.wire[a.wire].node)).is = "node"

\* What is connected to groups is redirected.
LEMMA RedirectedWired ==
    ASSUME Numbered(draft), Wired(draft), ReturnsOK, NEW ps, Len(ps) \in Nat,
           DOMAIN ps = 1..Len(ps), NEW alias, AliasOK(alias), NEW rn,
           PortsAccepted(ps, alias, rn)
    PROVE  LET e == Redirected(alias, draft, ps) IN
           Same(draft, e) /\ Wired(e) /\ e.port = draft.port /\ WiresStay(draft, e)
<1> DEFINE r == Redirected(alias, draft, ps)
           l == Len(ps)
<1>1. PICK h : Run(h, "redirect", alias, draft, ps, r) BY RedirectRuns
<1> HIDE DEF r
<1>2. /\ h[0] = draft /\ h[l] = r /\ l \in Nat
      /\ \A j \in 1..l : h[j] = Redirect(h[j - 1], ps[j], alias)
  BY <1>1 DEF Run, Step
<1> HIDE DEF l
<1> DEFINE Good(d) == Same(draft, d) /\ Wired(d) /\ d.port = draft.port /\ WiresStay(draft, d)
           S == {j \in 0..l : Good(h[j])}
<1>3. 0 \in S BY <1>2 DEF Same, WiresStay
<1>4. ASSUME NEW j \in 1..l, j - 1 \in S PROVE j \in S
  <2> DEFINE d == h[j - 1]
             e == h[j]
             p == ps[j]
             a == draft.port[p.node][p.index]
  <2>1. Good(d) /\ j \in 0..l BY <1>2, <1>4
  <2>2. e = Redirect(d, p, alias) BY <1>2
  <2>3. /\ IsPort(p)
        /\ ConnectedTo(draft, p, alias) => Target(Node(draft.wire[a.wire].node)).is = "node"
    BY DEF PortsAccepted, l
  <2> HIDE DEF d, e, p
  <2>4. CASE ConnectedTo(d, p, alias)
    <3> DEFINE k == d.port[p.node][p.index].wire
               g == d.wire[k].node
               to == Target(Node(g)).node
    <3>1. d.port[p.node][p.index] = a BY <2>1
    <3>2. a.is = "wire" /\ g \in alias BY <2>4, <3>1 DEF ConnectedTo
    <3>3. p.node \in DOMAIN draft.kind /\ ~Group(draft, p.node)
          /\ p.index \in DOMAIN draft.port[p.node]
      BY <2>3 DEF IsPort, Nodes
    <3>4. PortOK(draft, a) BY <3>3 DEF Wired, Numbered
    <3>5. k \in DOMAIN draft.wire /\ a = Wire(k) BY <3>1, <3>2, <3>4, WireIs DEF PortOK, Open
    <3>6. g \in DOMAIN returned /\ Group(draft, g) /\ Group(d, g)
      BY <2>1, <3>2 DEF AliasOK, Same, Group
    <3>7. k \in DOMAIN d.wire /\ draft.wire[k].node = g
      BY <2>1, <3>5, <3>6 DEF WiresStay
    <3> HIDE DEF k, g
    <3>8. Target(Node(g)).is = "node"
      <4>1. a.wire = k BY <3>5, WireIs
      <4>2. ConnectedTo(draft, p, alias) BY <3>2, <3>7, <4>1 DEF ConnectedTo
      <4> QED BY <2>3, <3>7, <4>1, <4>2
    <3>9. KnownHere(Node(g))
      <4>1. g \in DOMAIN draft.kind BY <3>6 DEF ReturnsOK
      <4> QED BY <3>6, <4>1 DEF KnownHere, Known, Node
    <3>10. to \in DOMAIN draft.kind /\ ~Group(draft, to)
      <4>1. KnownHere(Target(Node(g))) /\ ~IsGroup(Target(Node(g))) BY <3>9, TargetKnown
      <4> QED BY <3>8, <4>1 DEF KnownHere, Known, IsGroup, Group, Open
    <3>11. Moves(d, e, p.node, k, g, to)
      BY <2>1, <2>2, <2>4, RedirectMoves DEF Same, k, g
    <3> HIDE DEF to
    <3>12. /\ Numbered(d) /\ Wired(d) /\ d.kind = draft.kind /\ d.port = draft.port
           /\ p.node \in DOMAIN d.kind /\ ~Group(d, p.node) /\ p.index \in DOMAIN d.port[p.node]
           /\ d.port[p.node][p.index] = Wire(k) /\ g = d.wire[k].node
           /\ to \in DOMAIN d.kind /\ ~Group(d, to)
      BY <2>1, <3>1, <3>3, <3>5, <3>10 DEF Same, Group, g
    <3>13. Wired(e) /\ WiresStay(d, e) BY <3>6, <3>7, <3>11, <3>12, MovesWired
    <3>14. Same(d, e) BY <2>2, <3>12, RedirectSame
    <3>15. Same(draft, e) /\ e.port = draft.port /\ e.kind = d.kind
      BY <2>1, <3>11, <3>14 DEF Same, Moves
    <3>16. WiresStay(draft, e) BY <2>1, <3>13, <3>15, WiresStayTransitive
    <3> QED BY <2>1, <3>13, <3>15, <3>16 DEF e
  <2>5. CASE ~ConnectedTo(d, p, alias)
    <3>1. e = d BY <2>2, <2>5 DEF Redirect
    <3> QED BY <2>1, <3>1 DEF e
  <2> QED BY <2>4, <2>5
<1>5. l \in S
  <2> HIDE DEF S
  <2>1. \A j \in 0..l : j \in S BY <1>2, <1>3, <1>4, UptoInduction
  <2> QED BY <1>2, <2>1
<1>6. Good(h[l]) BY <1>5
<1> QED BY <1>2, <1>6 DEF r

\* Groups are dropped from the consumers.
LEMMA DroppedWired ==
    ASSUME NEW d, Numbered(d), Wired(d), NEW ns \in Seq(DOMAIN d.kind)
    PROVE  LET e == Dropped(d, d, ns) IN
           Same(d, e) /\ Wired(e) /\ e.port = d.port /\ e.wire = d.wire
<1> DEFINE r == Dropped(d, d, ns)
           l == Len(ns)
<1>1. l \in Nat /\ DOMAIN ns = 1..l /\ \A j \in 1..l : ns[j] \in DOMAIN d.kind
  BY LenProperties, ElementOfSeq
<1>2. PICK h : Run(h, "drop", d, d, ns, r) BY <1>1, DropRuns
<1> HIDE DEF r
<1>3. /\ h[0] = d /\ h[l] = r
      /\ \A j \in 1..l : h[j] = [h[j - 1] EXCEPT !.outs[ns[j]] = Proper(d, @)]
  BY <1>2 DEF Run, Step
<1> HIDE DEF l
<1> DEFINE Good(c) == Same(d, c) /\ Wired(c) /\ c.port = d.port /\ c.wire = d.wire
           S == {j \in 0..l : Good(h[j])}
<1>4. 0 \in S BY <1>1, <1>3 DEF Same
<1>5. ASSUME NEW j \in 1..l, j - 1 \in S PROVE j \in S
  <2> DEFINE c == h[j - 1]
             n == ns[j]
             e == DropAt(c, d, n)
  <2>1. Good(c) /\ j \in 0..l BY <1>1, <1>5
  <2>2. h[j] = e BY <1>3 DEF DropAt
  <2>3. n \in DOMAIN d.kind BY <1>1
  <2> HIDE DEF c, n
  <2>4. Numbered(c) /\ Wired(c) /\ d.kind = c.kind /\ n \in DOMAIN c.kind
    BY <2>1, <2>3 DEF Same
  <2>5. Wired(e) /\ e.port = c.port /\ e.wire = c.wire BY <2>4, DropWired
  <2>6. Same(c, e)
    <3> DEFINE o == [c.outs EXCEPT ![n] = Proper(d, @)]
    <3>1. e = [c EXCEPT !.outs = o] BY <2>4 DEF Numbered, DropAt
    <3> HIDE DEF o, e
    <3>2. Same(c, [c EXCEPT !.outs = o]) BY <2>4, OthersGiven
    <3> QED BY <3>1, <3>2
  <2> HIDE DEF e
  <2>7. Good(e) BY <2>1, <2>5, <2>6 DEF Same
  <2> QED BY <2>1, <2>2, <2>7
<1>6. l \in S
  <2> HIDE DEF S
  <2>1. \A j \in 0..l : j \in S BY <1>1, <1>4, <1>5, UptoInduction
  <2> QED BY <1>1, <2>1
<1>7. Good(h[l]) BY <1>6
<1> QED BY <1>3, <1>7 DEF r

\* What is still to be connected is what it was in draft.
Pending(d) ==
    \A n \in DOMAIN draft.port :
        /\ DOMAIN d.port[n] = DOMAIN draft.port[n]
        /\ \A i \in DOMAIN draft.port[n] :
              d.port[n][i].is = "later" => d.port[n][i] = draft.port[n][i]

\* Placeholders are connected to nodes.
LEMMA ResolvedWired ==
    ASSUME Numbered(draft), Wired(draft), NEW ps, Len(ps) \in Nat,
           DOMAIN ps = 1..Len(ps), NEW alias, NEW rn, PortsAccepted(ps, alias, rn),
           \A x \in DOMAIN rn : KnownHere(rn[x]),
           NEW d, Same(draft, d), Wired(d), WiresStay(draft, d), d.port = draft.port
    PROVE  LET e == Resolved(rn, d, ps) IN
           Same(draft, e) /\ Wired(e) /\ WiresStay(draft, e)
<1> DEFINE r == Resolved(rn, d, ps)
           l == Len(ps)
<1>1. PICK h : Run(h, "resolve", rn, d, ps, r) BY ResolveRuns
<1> HIDE DEF r
<1>2. /\ h[0] = d /\ h[l] = r /\ l \in Nat
      /\ \A j \in 1..l : h[j] = Resolve(h[j - 1], ps[j], rn)
  BY <1>1 DEF Run, Step
<1> HIDE DEF l
<1> DEFINE Good(c) == Same(draft, c) /\ Wired(c) /\ WiresStay(draft, c) /\ Pending(c)
           S == {j \in 0..l : Good(h[j])}
<1>3. 0 \in S BY <1>2 DEF Pending
<1>4. ASSUME NEW j \in 1..l, j - 1 \in S PROVE j \in S
  <2> DEFINE c == h[j - 1]
             e == h[j]
             p == ps[j]
             n == p.node
             i == p.index
             a == draft.port[n][i]
  <2>1. Good(c) /\ j \in 0..l BY <1>2, <1>4
  <2>2. e = Resolve(c, p, rn) BY <1>2
  <2>3. /\ IsPort(p)
        /\ a.is = "later" => a.name \in DOMAIN rn /\ rn[a.name].is = "node"
    BY DEF PortsAccepted, l
  <2>4. n \in DOMAIN draft.kind /\ i \in DOMAIN draft.port[n] /\ n \in DOMAIN draft.port
    BY <2>3 DEF IsPort, Nodes, Numbered
  <2> HIDE DEF c, e, n, i, p
  <2>5. CASE c.port[n][i].is = "later"
    <3>1. c.port[n][i] = a BY <2>1, <2>4, <2>5 DEF Pending
    <3> DEFINE m == rn[a.name].node
    <3>2. m \in DOMAIN draft.kind
      <4>1. a.name \in DOMAIN rn /\ rn[a.name].is = "node" BY <2>3, <2>5, <3>1
      <4>2. KnownHere(rn[a.name]) BY <4>1
      <4> QED BY <4>1, <4>2 DEF KnownHere, Known, Open
    <3>3. e = Attach(c, m, n, i) BY <2>2, <2>5, <3>1 DEF Resolve, n, i
    <3> HIDE DEF m
    <3>4. /\ Numbered(c) /\ Wired(c) /\ m \in DOMAIN c.kind /\ n \in DOMAIN c.kind
          /\ i \in DOMAIN c.port[n] /\ c.port[n][i].is # "wire"
      BY <2>1, <2>4, <2>5, <3>2 DEF Same, Pending
    <3>5. Sets(c, e, n, i) /\ Same(c, e) /\ e.port[n][i].is = "wire"
      BY <3>3, <3>4, AttachSets
    <3>6. Wired(e) /\ WiresStay(c, e) BY <3>5 DEF Sets, WiresStay
    <3>7. Same(draft, e) /\ e.kind = c.kind BY <2>1, <3>5 DEF Same
    <3>8. WiresStay(draft, e)
      <4>1. WiresStay(draft, c) BY <2>1
      <4> QED BY <3>6, <3>7, <4>1, WiresStayTransitive
    <3>9. Pending(e)
      <4>1. DOMAIN c.port = DOMAIN draft.port BY <2>1 DEF Same, Numbered
      <4>2. ASSUME NEW b \in DOMAIN draft.port
            PROVE  /\ DOMAIN e.port[b] = DOMAIN draft.port[b]
                   /\ \A x \in DOMAIN draft.port[b] :
                         e.port[b][x].is = "later" => e.port[b][x] = draft.port[b][x]
        <5>1. DOMAIN c.port[b] = DOMAIN draft.port[b] BY <2>1 DEF Pending
        <5>2. \A x \in DOMAIN draft.port[b] :
                 e.port[b][x] = c.port[b][x] \/ (b = n /\ x = i)
          BY <3>5, <4>1, <5>1 DEF Sets
        <5>3. \A x \in DOMAIN draft.port[b] :
                 c.port[b][x].is = "later" => c.port[b][x] = draft.port[b][x]
          BY <2>1 DEF Pending
        <5>4. DOMAIN e.port[b] = DOMAIN c.port[b] BY <3>5, <4>1 DEF Sets
        <5> QED BY <3>5, <5>1, <5>2, <5>3, <5>4
      <4> QED BY <4>2 DEF Pending
    <3> QED BY <2>1, <3>6, <3>7, <3>8, <3>9 DEF e
  <2>6. CASE c.port[n][i].is # "later"
    <3>1. e = c BY <2>2, <2>6 DEF Resolve, n, i
    <3> QED BY <2>1, <3>1 DEF e
  <2> QED BY <2>5, <2>6
<1>5. l \in S
  <2> HIDE DEF S
  <2>1. \A j \in 0..l : j \in S BY <1>2, <1>3, <1>4, UptoInduction
  <2> QED BY <1>2, <2>1
<1>6. Good(h[l]) BY <1>5
<1> QED BY <1>2, <1>6 DEF r

\* The names a view ends with, and the groups it knows.
NamesKnown(v) == \A x \in DOMAIN Merged(v) : KnownHere(Merged(v)[x])

\* After the resolution no name of a view is a group.
LEMMA NamesResolved ==
    ASSUME Numbered(draft), ReturnsOK, NEW v, NamesKnown(v)
    PROVE  \A x \in DOMAIN ResolvedNames(v) :
              KnownHere(ResolvedNames(v)[x]) /\ ~IsGroup(ResolvedNames(v)[x])
BY TargetKnown DEF NamesKnown, ResolvedNames

\* The connections of a view that is not refused keep both sides alike.
LEMMA ConnectedWired ==
    ASSUME Numbered(draft), Wired(draft), ReturnsOK, NEW v, AllNodes(v) \in Seq(Nodes),
           NamesKnown(v), ~Refused(v),
           \A n \in ToSet(v.drafts) : Group(draft, n) => n \in DOMAIN returned
    PROVE  Same(draft, Connected(v)) /\ Wired(Connected(v)) /\ WiresStay(draft, Connected(v))
<1> DEFINE ns == AllNodes(v)
           ps == Ports(ns)
           al == Alias(v)
           rn == ResolvedNames(v)
           d1 == Redirected(al, draft, ps)
           d2 == Dropped(d1, d1, ns)
           d3 == Resolved(rn, d2, ps)
<1>1. Connected(v) = d3 BY DEF Connected, DropGroups, Redirected, Dropped, Resolved
<1>2. /\ Len(ps) \in Nat /\ DOMAIN ps = 1..Len(ps)
      /\ \A j \in 1..Len(ps) : IsPort(ps[j])
  BY PortsOfNodes
<1>3. AliasOK(al)
  <2>1. ASSUME NEW n \in al PROVE n \in DOMAIN returned /\ Group(draft, n)
    <3>1. Group(draft, n) BY DEF Alias, Group
    <3>2. CASE n \in ToSet(v.drafts) BY <3>1, <3>2
    <3>3. CASE n \notin ToSet(v.drafts)
      <4>1. PICK b \in Range(Merged(v)) : b.is = "node" /\ n = b.node BY <3>3 DEF Alias
      <4>2. PICK x \in DOMAIN Merged(v) : b = Merged(v)[x] BY <4>1 DEF Range
      <4>3. KnownHere(b) BY <4>2 DEF NamesKnown
      <4> QED BY <3>1, <4>1, <4>3 DEF KnownHere, Known, Open
    <3> QED BY <3>1, <3>2, <3>3
  <2> QED BY <2>1 DEF AliasOK
<1>4. \A x \in DOMAIN rn : KnownHere(rn[x]) BY NamesResolved
<1>5. PortsAccepted(ps, al, rn)
  <2> SUFFICES ASSUME NEW j \in 1..Len(ps)
               PROVE  LET p == ps[j]
                          a == draft.port[p.node][p.index]
                      IN  /\ IsPort(p)
                          /\ a.is # "unset"
                          /\ a.is = "later" => a.name \in DOMAIN rn /\ rn[a.name].is = "node"
                          /\ ConnectedTo(draft, p, al) =>
                                Target(Node(draft.wire[a.wire].node)).is = "node"
    BY DEF PortsAccepted
  <2>1. ps[j] \in ToSet(ps) BY <1>2 DEF ToSet
  <2>2. DOMAIN rn = DOMAIN Merged(v) BY DEF ResolvedNames
  <2> HIDE DEF rn, al
  <2> QED BY <1>2, <2>1, <2>2 DEF Refused, rn, al
<1>6. ns \in Seq(DOMAIN draft.kind)
  <2>1. Nodes \subseteq DOMAIN draft.kind BY DEF Nodes
  <2> QED BY <2>1, SeqMonotonic
<1> HIDE DEF ns, ps, al, rn
<1>7. Same(draft, d1) /\ Wired(d1) /\ d1.port = draft.port /\ WiresStay(draft, d1)
  BY <1>2, <1>3, <1>5, RedirectedWired
<1> HIDE DEF d1
<1>8. Same(d1, d2) /\ Wired(d2) /\ d2.port = d1.port /\ d2.wire = d1.wire
  <2>1. Numbered(d1) /\ ns \in Seq(DOMAIN d1.kind) BY <1>6, <1>7 DEF Same
  <2> QED BY <1>7, <2>1, DroppedWired
<1> HIDE DEF d2
<1>9. Same(draft, d2) /\ WiresStay(draft, d2) /\ d2.port = draft.port
  BY <1>7, <1>8 DEF Same, WiresStay, Group
<1>10. Same(draft, d3) /\ Wired(d3) /\ WiresStay(draft, d3)
  BY <1>2, <1>4, <1>5, <1>8, <1>9, ResolvedWired
<1> HIDE DEF d3
<1> QED BY <1>1, <1>10

-----------------------------------------------------------------------------
(* The statements keep both sides alike.                                      *)

\* What a view knows: its names, its parameters and what the views in it have left behind.
KnownView(d, R, v) ==
    /\ \A x \in DOMAIN v.names : Known(d, R, v.names[x])
    /\ \A i \in DOMAIN v.params : Known(d, R, v.params[i])
    /\ \A j \in DOMAIN v.results :
          /\ \A x \in DOMAIN v.results[j].names : Known(d, R, v.results[j].names[x])
          /\ v.results[j].final \in Seq({n \in DOMAIN d.kind : ~Group(d, n)})

KnownViews == \A j \in DOMAIN views : KnownView(draft, DOMAIN returned, views[j])

\* The groups whose views are open have not returned; of those that a view has made only the
\* one whose view is the next has not.
GroupsOK ==
    /\ \A j \in DOMAIN views :
          j # 1 => /\ views[j].group \in DOMAIN draft.kind /\ Group(draft, views[j].group)
                   /\ views[j].group \notin DOMAIN returned
    /\ \A j, k \in DOMAIN views : views[j].group = views[k].group => j = k
    /\ \A j \in DOMAIN views : \A n \in ToSet(views[j].drafts) :
          Group(draft, n) => \/ n \in DOMAIN returned
                             \/ j + 1 \in DOMAIN views /\ n = views[j + 1].group

Wiring ==
    /\ Definition /\ Wired(draft) /\ ReturnsOK /\ KnownViews /\ GroupsOK
    /\ size \in Sizes

WiringInv == (status = "open" => Wiring) /\ SymmetricWiring

\* Nothing that is known gets lost.
LEMMA ViewStays ==
    ASSUME NEW d, NEW e, Numbered(d), Wired(d), Keeps(d, e), WiresStay(d, e),
           NEW R, NEW S, R \subseteq S, NEW v, KnownView(d, R, v)
    PROVE  KnownView(e, S, v)
<1>1. \A a : Known(d, R, a) => Known(e, S, a) BY KnownStays
<1>2. {n \in DOMAIN d.kind : ~Group(d, n)} \subseteq {n \in DOMAIN e.kind : ~Group(e, n)}
  BY KeptGroups
<1>3. ASSUME NEW s \in Seq({n \in DOMAIN d.kind : ~Group(d, n)})
      PROVE  s \in Seq({n \in DOMAIN e.kind : ~Group(e, n)})
  <2> DEFINE X == {n \in DOMAIN d.kind : ~Group(d, n)}
             Y == {n \in DOMAIN e.kind : ~Group(e, n)}
  <2>1. s \in Seq(X) /\ X \subseteq Y BY <1>2
  <2> HIDE DEF X, Y
  <2>2. s \in Seq(Y) BY <2>1, SeqMonotonic
  <2> QED BY <2>2 DEF Y
<1> QED BY <1>1, <1>3 DEF KnownView

\* A name is assigned.
LEMMA AssignKnown ==
    ASSUME NEW d, NEW R, NEW v, {"names", "params", "results"} \subseteq DOMAIN v,
           KnownView(d, R, v), NEW x, NEW a, Known(d, R, a)
    PROVE  KnownView(d, R, Assign(v, x, a))
<1> DEFINE w == Assign(v, x, a)
           ns == v.names
           more == Entry(x, a)
<1>1. /\ w.params = v.params /\ w.results = v.results
      /\ w.names = Update(ns, more)
  BY DEF Assign
<1>2. DOMAIN more = {x} /\ more[x] = a BY DEF Entry
<1> HIDE DEF w, more, ns
<1>3. /\ DOMAIN w.names = DOMAIN ns \cup {x}
      /\ \A y \in DOMAIN w.names : w.names[y] = IF y = x THEN a ELSE ns[y]
  BY <1>1, <1>2 DEF Update
<1>4. \A y \in DOMAIN w.names : Known(d, R, w.names[y]) BY <1>3 DEF KnownView, ns
<1> QED BY <1>1, <1>4 DEF KnownView, w

\* A statement that leaves what has returned alone.
LEMMA ReturnsStay ==
    ASSUME Wiring, Keeps(draft, draft'), WiresStay(draft, draft'), returned' = returned
    PROVE  ReturnsOK'
<1> DEFINE R == DOMAIN returned
<1>1. Numbered(draft) /\ Wired(draft) BY DEF Wiring, Definition
<1>2. \A a : Known(draft, R, a) => Known(draft', R, a)
  <2>1. R \subseteq R OBVIOUS
  <2> HIDE DEF R
  <2> QED BY <1>1, <2>1, KnownStays
<1>3. /\ DOMAIN draft.kind \subseteq DOMAIN draft'.kind
      /\ \A n \in DOMAIN draft.kind : Group(draft', n) <=> Group(draft, n)
  BY <1>1, KeptGroups
<1>4. ASSUME NEW g \in R
      PROVE  /\ g \in DOMAIN draft'.kind /\ Group(draft', g) /\ Known(draft', R, returned[g])
             /\ IsGroup(returned[g])' => IsGroup(returned[g])
  <2>1. g \in DOMAIN draft.kind /\ Group(draft, g) /\ Known(draft, R, returned[g])
    BY DEF Wiring, ReturnsOK, KnownHere
  <2>2. returned[g].is = "node" => returned[g].node \in DOMAIN draft.kind
    BY <2>1 DEF Known, Open
  <2> QED BY <1>2, <1>3, <2>1, <2>2 DEF IsGroup, Group
<1>5. PICK rank : Ranked(rank) BY DEF Wiring, ReturnsOK
<1>6. Ranked(rank)' BY <1>4, <1>5 DEF Ranked
<1> QED BY <1>4, <1>6 DEF ReturnsOK, KnownHere

\* What is read in a view, and its parameters.
LEMMA ReadKnown ==
    ASSUME Wiring
    PROVE  /\ \A x : KnownHere(Read(x))
           /\ \A a \in ToSet(Here.params) : KnownHere(a)
<1>1. KnownView(draft, DOMAIN returned, Here) BY LastView DEF Wiring, KnownViews
<1> QED BY <1>1 DEF Read, Later, Known, Open, KnownHere, KnownView, ToSet

\* What a program can pass to a call is known.
LEMMA ArgumentsKnown ==
    ASSUME Wiring, NEW L \in SUBSET {"value", "default", "unset"}, NEW args \in Arguments(L)
    PROVE  IsList(args) /\ \A i \in DOMAIN args : KnownHere(args[i])
<1> DEFINE values == {Read(x) : x \in NamesHere} \cup ToSet(Here.params) \cup {Lit(l) : l \in L}
<1>1. args \in BoundedSeq(values, size.args) BY DEF Arguments
<1>2. \A a \in values : KnownHere(a)
  <2>1. \A l \in L : KnownHere(Lit(l)) BY DEF KnownHere, Known, Lit, Open
  <2> QED BY <2>1, ReadKnown
<1> HIDE DEF values
<1>3. PICK m \in 0..size.args : args \in [1..m -> values] BY <1>1 DEF BoundedSeq, SeqOf
<1> QED BY <1>1, <1>2, <1>3, BoundedList

\* The literals of a program are literals.
LEMMA LiteralsOK ==
    ASSUME Wiring
    PROVE  /\ size.literals \in SUBSET {"value", "default", "unset"}
           /\ size.literals \cap {"value"} \in SUBSET {"value", "default", "unset"}
BY HDLAssumption DEF Wiring

\* The nodes of a view and of its templates are no groups.
LEMMA AllNodesProper ==
    ASSUME Numbered(draft), NEW v, ViewOK(v), KnownView(draft, DOMAIN returned, v)
    PROVE  AllNodes(v) \in Seq(Nodes)
<1> DEFINE finals == [j \in DOMAIN v.results |-> v.results[j].final]
<1>1. PICK X : v.results \in Seq(X) BY DEF ViewOK
<1>2. Len(v.results) \in Nat /\ DOMAIN v.results = 1..Len(v.results) BY <1>1, LenProperties
<1>3. finals \in Seq(Seq(Nodes))
  <2> DEFINE l == Len(v.results)
  <2>1. finals = [j \in 1..l |-> finals[j]] BY <1>2
  <2>2. \A j \in 1..l : finals[j] \in Seq(Nodes) BY <1>2 DEF KnownView, Nodes
  <2>3. l \in Nat BY <1>2
  <2> HIDE DEF finals, l
  <2> QED BY <2>1, <2>2, <2>3
<1>4. FlattenSeq(finals) \in Seq(Nodes)
  <2> HIDE DEF finals
  <2> QED BY <1>3, FlattenType
<1>5. OwnNodes(v) \in Seq(Nodes)
  <2> DEFINE N == DOMAIN draft.kind
  <2>1. v.drafts \in Seq(N) BY DEF ViewOK
  <2> HIDE DEF N
  <2>2. Proper(draft, v.drafts) \in Seq({n \in N : ~Group(draft, n)}) BY <2>1, ProperList
  <2> QED BY <2>2 DEF OwnNodes, Nodes, N
<1>6. AllNodes(v) = FlattenSeq(finals) \o OwnNodes(v) BY DEF AllNodes
<1> HIDE DEF finals
<1> QED BY <1>4, <1>5, <1>6, ConcatProperties

\* The drafts that are registered are new.
LEMMA DraftsRegistered ==
    ASSUME Definition, Registers
    PROVE  /\ \A m \in ToSet(Registered) : m \in DOMAIN draft'.kind /\ m \notin DOMAIN draft.kind
           /\ \A j \in DOMAIN views : \A m \in ToSet(views'[j].drafts) :
                 \/ m \in ToSet(views[j].drafts)
                 \/ j = Len(views) /\ m \in ToSet(Registered)
           /\ \A j \in DOMAIN views : ToSet(views[j].drafts) \subseteq DOMAIN draft.kind
           /\ \A j \in DOMAIN views : views'[j].group = views[j].group
           /\ DOMAIN draft.kind \subseteq DOMAIN draft'.kind
           /\ \A m \in DOMAIN draft.kind : Group(draft', m) <=> Group(draft, m)
<1>1. Numbered(draft) /\ Keeps(draft, draft') BY DEF Definition, Registers
<1>2. \A m \in ToSet(Registered) : m \in DOMAIN draft'.kind /\ m \notin DOMAIN draft.kind
  BY <1>1, RegisteredNew
<1>3. /\ DOMAIN draft.kind \subseteq DOMAIN draft'.kind
      /\ \A m \in DOMAIN draft.kind : Group(draft', m) <=> Group(draft, m)
  BY <1>1, KeptGroups
<1>4. ASSUME NEW j \in DOMAIN views, NEW m \in ToSet(views'[j].drafts)
      PROVE  \/ m \in ToSet(views[j].drafts)
             \/ j = Len(views) /\ m \in ToSet(Registered)
  <2>1. CASE j = Len(views)
    <3> DEFINE N == DOMAIN draft'.kind
               s == views[j].drafts
    <3>1. views'[j].drafts = s \o Registered BY <2>1 DEF Registers
    <3>2. Registered \in Seq(N) BY <1>1, RegisteredNew
    <3>3. s \in Seq(N)
      <4>1. s \in Seq(DOMAIN draft.kind) BY DEF Definition, ViewsOK, ViewOK
      <4>2. DOMAIN draft.kind \subseteq N BY <1>3
      <4> HIDE DEF N, s
      <4> QED BY <4>1, <4>2, SeqMonotonic
    <3> HIDE DEF N, s
    <3>4. ToSet(s \o Registered) = ToSet(s) \cup ToSet(Registered)
      BY <3>2, <3>3, InjectiveConcat
    <3> QED BY <1>4, <2>1, <3>1, <3>4 DEF s
  <2>2. CASE j # Len(views)
    <3>1. views'[j].drafts = views[j].drafts BY <2>2 DEF Registers
    <3> QED BY <1>4, <3>1
  <2> QED BY <2>1, <2>2
<1>5. \A j \in DOMAIN views : ToSet(views[j].drafts) \subseteq DOMAIN draft.kind
  <2>1. \A j \in DOMAIN views : views[j].drafts \in Seq(DOMAIN draft.kind)
    BY DEF Definition, ViewsOK, ViewOK
  <2>2. \A j \in DOMAIN views : Range(views[j].drafts) \subseteq DOMAIN draft.kind
    BY <2>1, RangeOfSeq
  <2> QED BY <2>2 DEF Range, ToSet
<1>6. \A j \in DOMAIN views : views'[j].group = views[j].group
  BY DEF Registers, SameView
<1> QED BY <1>2, <1>3, <1>4, <1>5, <1>6

\* The statements of one view make no groups.
LEMMA GroupsStay ==
    ASSUME Wiring, Registers, DOMAIN views' = DOMAIN views, returned' = returned,
           \A m \in DOMAIN draft'.kind : m \in DOMAIN draft.kind \/ ~Group(draft', m)
    PROVE  GroupsOK'
<1>1. GroupsOK /\ Definition BY DEF Wiring
<1>2. \A j \in DOMAIN views : \A m \in ToSet(views'[j].drafts) :
         Group(draft', m) => \/ m \in DOMAIN returned
                             \/ j + 1 \in DOMAIN views /\ m = views[j + 1].group
  BY <1>1, DraftsRegistered DEF GroupsOK
<1>3. \A j \in DOMAIN views :
        j # 1 => /\ views[j].group \in DOMAIN draft'.kind /\ Group(draft', views[j].group)
                 /\ views[j].group \notin DOMAIN returned
  BY <1>1, DraftsRegistered DEF GroupsOK
<1>4. \A j, k \in DOMAIN views : views[j].group = views[k].group => j = k
  BY <1>1 DEF GroupsOK
<1>5. \A j \in DOMAIN views : views'[j].group = views[j].group BY <1>1, DraftsRegistered
<1> QED BY <1>2, <1>3, <1>4, <1>5 DEF GroupsOK

\* The definition of a node keeps both sides of every connection alike.
LEMMA DefineNodeWires ==
    ASSUME Wiring, NEW x, NEW args, IsList(args), \A i \in DOMAIN args : KnownHere(args[i]),
           DefineNode(x, args), size' = size
    PROVE  Wiring'
<1> DEFINE R == DOMAIN returned
           n == Len(draft.kind) + 1
           l == Len(views)
           a == Node(n)
           v == Assign(Here, x, a)
           w == [v EXCEPT !.drafts = @ \o Registered]
<1>1. Definition' /\ Registers BY DefineNodeKeeps DEF Wiring
<1>2. Numbered(draft) /\ Wired(draft) /\ Definition BY DEF Wiring, Definition
<1>3. /\ Keeps(draft, draft') /\ Wired(draft') /\ WiresStay(draft, draft')
      /\ n \in DOMAIN draft'.kind /\ draft'.kind[n] = "node"
      /\ \A m \in DOMAIN draft'.kind :
            m \in DOMAIN draft.kind \/ m = n \/ draft'.kind[m] = "constant"
  <2>1. \A i \in DOMAIN args : Known(draft, R, args[i]) BY DEF KnownHere
  <2>2. draft' = Instantiate("node", args) BY DEF DefineNode
  <2>3. "node" \in Kind BY DEF Kind
  <2> HIDE DEF R
  <2> QED BY <1>2, <2>1, <2>2, <2>3, InstantiateWired
<1>4. returned' = returned BY DEF DefineNode
<1>5. ReturnsOK' BY <1>3, <1>4, ReturnsStay
<1>6. /\ DOMAIN views' = DOMAIN views
      /\ \A j \in DOMAIN views : views'[j] = IF j = l THEN w ELSE views[j]
  <2>1. views' = [views EXCEPT ![l] = w] BY DEF DefineNode
  <2> HIDE DEF l, w
  <2> QED BY <2>1
<1>7. \A j \in DOMAIN views : KnownView(draft', R, views[j])
  <2>1. \A j \in DOMAIN views : KnownView(draft, R, views[j]) BY DEF Wiring, KnownViews
  <2>2. R \subseteq R OBVIOUS
  <2> HIDE DEF R
  <2> QED BY <1>2, <1>3, <2>1, <2>2, ViewStays
<1>8. KnownView(draft', R, w)
  <2>1. ViewOK(Here) /\ KnownView(draft', R, Here) BY <1>2, <1>7, LastView
  <2>2. {"names", "params", "results", "drafts"} \subseteq DOMAIN Here BY <2>1 DEF ViewOK
  <2>3. Known(draft', R, a) BY <1>3 DEF Known, Node, Group
  <2> HIDE DEF a, R
  <2>4. KnownView(draft', R, v) BY <2>1, <2>2, <2>3, AssignKnown
  <2>5. DOMAIN v = DOMAIN Here BY DEF Assign
  <2> HIDE DEF v
  <2>6. w.names = v.names /\ w.params = v.params /\ w.results = v.results BY <2>2, <2>5
  <2> QED BY <2>4, <2>6 DEF KnownView
<1>9. KnownViews' BY <1>4, <1>6, <1>7, <1>8 DEF KnownViews
<1>10. GroupsOK'
  <2>1. \A m \in DOMAIN draft'.kind : m \in DOMAIN draft.kind \/ ~Group(draft', m)
    BY <1>3 DEF Group
  <2>2. DOMAIN views' = DOMAIN views BY <1>6
  <2> QED BY <1>1, <1>4, <2>1, <2>2, GroupsStay
<1> QED BY <1>1, <1>3, <1>5, <1>9, <1>10 DEF Wiring

\* An output of a group that is kept under a name is one use of groups (see Uses).
Direct == "kept output of a group" \notin Uses

\* An output of a node is kept under a name: the reference points to no group.
LEMMA KeepOutputWires ==
    ASSUME Direct, Wiring, NEW x, NEW y, KeepOutput(x, y), size' = size
    PROVE  Wiring'
<1> DEFINE R == DOMAIN returned
           m == Read(y).node
           k == Len(draft.wire) + 1
           l == Len(views)
           a == Wire(k)
           w == Assign(Here, x, a)
           e == [draft EXCEPT !.wire = Append(@, [node |-> m, of |-> m])]
<1>1. Definition' /\ Registers BY KeepOutputKeeps DEF Wiring
<1>2. Numbered(draft) /\ Wired(draft) /\ Definition BY DEF Wiring, Definition
<1>3. m \in DOMAIN draft.kind /\ ~Group(draft, m)
  <2>1. KnownHere(Read(y)) BY ReadKnown
  <2>2. Read(y).is = "node" /\ ~IsGroup(Read(y)) BY DEF KeepOutput, Direct
  <2> QED BY <2>1, <2>2 DEF KnownHere, Known, IsGroup, Group, Open
<1>4. draft' = e BY DEF KeepOutput
<1> HIDE DEF m
<1>5. /\ Same(draft, e) /\ Wired(e)
      /\ \A i \in DOMAIN draft.wire : i \in DOMAIN e.wire /\ e.wire[i] = draft.wire[i]
      /\ k \in DOMAIN e.wire /\ e.wire[k].node = m
  BY <1>2, <1>3, NewWire
<1> HIDE DEF e, k
<1>6. Keeps(draft, draft') /\ Wired(draft') /\ WiresStay(draft, draft')
  BY <1>2, <1>4, <1>5, SameKeeps DEF WiresStay
<1>7. returned' = returned BY DEF KeepOutput
<1>8. ReturnsOK' BY <1>6, <1>7, ReturnsStay
<1>9. /\ DOMAIN views' = DOMAIN views
      /\ \A j \in DOMAIN views : views'[j] = IF j = l THEN w ELSE views[j]
  <2>1. views' = [views EXCEPT ![l] = w] BY DEF KeepOutput, k
  <2> HIDE DEF l, w
  <2> QED BY <2>1
<1>10. \A j \in DOMAIN views : KnownView(draft', R, views[j])
  <2>1. \A j \in DOMAIN views : KnownView(draft, R, views[j]) BY DEF Wiring, KnownViews
  <2>2. R \subseteq R OBVIOUS
  <2> HIDE DEF R
  <2> QED BY <1>2, <1>6, <2>1, <2>2, ViewStays
<1>11. KnownView(draft', R, w)
  <2>1. ViewOK(Here) /\ KnownView(draft', R, Here) BY <1>2, <1>10, LastView
  <2>2. {"names", "params", "results"} \subseteq DOMAIN Here BY <2>1 DEF ViewOK
  <2>3. Known(draft', R, a)
    <3>1. a.is = "wire" /\ a.wire = k BY WireIs
    <3>2. ~Group(draft', m) BY <1>3, <1>4, <1>5 DEF Same, Group
    <3> QED BY <1>4, <1>5, <3>1, <3>2 DEF Known
  <2> HIDE DEF a, R
  <2> QED BY <2>1, <2>2, <2>3, AssignKnown
<1>12. KnownViews' BY <1>7, <1>9, <1>10, <1>11 DEF KnownViews
<1>13. GroupsOK'
  <2>1. \A n \in DOMAIN draft'.kind : n \in DOMAIN draft.kind \/ ~Group(draft', n)
    BY <1>4, <1>5 DEF Same
  <2>2. DOMAIN views' = DOMAIN views BY <1>9
  <2> QED BY <1>1, <1>7, <2>1, <2>2, GroupsStay
<1> QED BY <1>1, <1>6, <1>8, <1>12, <1>13 DEF Wiring

\* The call of a template connects the group, and opens a group that has not returned.
LEMMA CallTemplateWires ==
    ASSUME Wiring, NEW x, NEW args, IsList(args), \A i \in DOMAIN args : KnownHere(args[i]),
           CallTemplate(x, args), size' = size
    PROVE  Wiring'
<1> DEFINE R == DOMAIN returned
           n == Len(draft.kind) + 1
           l == Len(views)
           w == [Here EXCEPT !.drafts = @ \o Registered]
           c == View(n, args, x)
<1>1. /\ Definition' /\ Registers
      /\ DOMAIN views' = 1..(l + 1) /\ views'[l + 1] = c
      /\ \A j \in DOMAIN views : views'[j] = IF j = l THEN w ELSE views[j]
  BY CallTemplateKeeps DEF Wiring
<1>2. Numbered(draft) /\ Wired(draft) /\ Definition BY DEF Wiring, Definition
<1>3. /\ Keeps(draft, draft') /\ Wired(draft') /\ WiresStay(draft, draft')
      /\ n \in DOMAIN draft'.kind /\ draft'.kind[n] = "group"
      /\ \A m \in DOMAIN draft'.kind :
            m \in DOMAIN draft.kind \/ m = n \/ draft'.kind[m] = "constant"
  <2>1. \A i \in DOMAIN args : Known(draft, R, args[i]) BY DEF KnownHere
  <2>2. draft' = Instantiate("group", args) BY DEF CallTemplate
  <2>3. "group" \in Kind BY DEF Kind
  <2> HIDE DEF R
  <2> QED BY <1>2, <2>1, <2>2, <2>3, InstantiateWired
<1>4. returned' = returned BY DEF CallTemplate
<1>5. ReturnsOK' BY <1>3, <1>4, ReturnsStay
<1>6. n \notin DOMAIN draft.kind /\ n \notin R
  <2>1. Len(draft.kind) \in Nat /\ DOMAIN draft.kind = 1..Len(draft.kind)
    BY <1>2, LenProperties DEF Numbered
  <2>2. R \subseteq DOMAIN draft.kind BY DEF Wiring, ReturnsOK
  <2> QED BY <2>1, <2>2
<1>7. /\ l \in Nat \ {0} /\ DOMAIN views = 1..l
      /\ \A j \in DOMAIN views' : j \in DOMAIN views \/ j = l + 1
      /\ \A j \in DOMAIN views : j \in DOMAIN views' /\ j # l + 1
  <2>1. l \in Nat \ {0} /\ DOMAIN views = 1..l BY <1>2, LastView
  <2> HIDE DEF l
  <2> QED BY <1>1, <2>1
<1>8. \A j \in DOMAIN views : KnownView(draft', R, views[j])
  <2>1. \A j \in DOMAIN views : KnownView(draft, R, views[j]) BY DEF Wiring, KnownViews
  <2>2. R \subseteq R OBVIOUS
  <2> HIDE DEF R
  <2> QED BY <1>2, <1>3, <2>1, <2>2, ViewStays
<1>9. KnownView(draft', R, w)
  <2>1. ViewOK(Here) /\ KnownView(draft', R, Here) BY <1>2, <1>8, LastView
  <2>2. {"names", "params", "results", "drafts"} \subseteq DOMAIN Here BY <2>1 DEF ViewOK
  <2>3. w.names = Here.names /\ w.params = Here.params /\ w.results = Here.results BY <2>2
  <2> QED BY <2>1, <2>3 DEF KnownView
<1>10. KnownView(draft', R, c)
  <2>1. c.names = <<>> /\ c.params = args /\ c.results = <<>> BY DEF View
  <2>2. DOMAIN <<>> = {} OBVIOUS
  <2>3. \A i \in DOMAIN args : Known(draft', R, args[i])
    <3>1. \A i \in DOMAIN args : Known(draft, R, args[i]) BY DEF KnownHere
    <3>2. R \subseteq R OBVIOUS
    <3> HIDE DEF R
    <3> QED BY <1>2, <1>3, <3>1, <3>2, KnownStays
  <2> HIDE DEF c
  <2> QED BY <2>1, <2>2, <2>3 DEF KnownView
<1>11. KnownViews'
  <2> HIDE DEF l, w, c
  <2> QED BY <1>1, <1>4, <1>7, <1>8, <1>9, <1>10 DEF KnownViews
<1>12. GroupsOK'
  <2>1. c.group = n BY DEF View
  <2>2. GroupsOK BY DEF Wiring
  <2> HIDE DEF c, w
  <2>3. /\ \A j \in DOMAIN views : views'[j].group = views[j].group
        /\ DOMAIN draft.kind \subseteq DOMAIN draft'.kind
        /\ \A m \in DOMAIN draft.kind : Group(draft', m) <=> Group(draft, m)
        /\ \A j \in DOMAIN views : ToSet(views[j].drafts) \subseteq DOMAIN draft.kind
        /\ \A j \in DOMAIN views : \A m \in ToSet(views'[j].drafts) :
              \/ m \in ToSet(views[j].drafts)
              \/ j = l /\ m \in ToSet(Registered)
        /\ \A m \in ToSet(Registered) : m \in DOMAIN draft'.kind /\ m \notin DOMAIN draft.kind
    BY <1>1, <1>2, DraftsRegistered
  <2>4. Group(draft', n) BY <1>3 DEF Group
  <2>5. ASSUME NEW j \in DOMAIN views'
        PROVE  j # 1 => /\ views'[j].group \in DOMAIN draft'.kind
                        /\ Group(draft', views'[j].group) /\ views'[j].group \notin R
    <3>1. CASE j = l + 1 BY <1>1, <1>3, <1>6, <2>1, <2>4, <3>1
    <3>2. CASE j \in DOMAIN views BY <2>2, <2>3, <3>2 DEF GroupsOK
    <3> QED BY <1>7, <3>1, <3>2
  <2>6. ASSUME NEW j \in DOMAIN views', NEW i \in DOMAIN views', views'[j].group = views'[i].group
        PROVE  j = i
    <3>1. views[1].group = 0 /\ n # 0
      <4>1. 1 \in DOMAIN views BY <1>7
      <4>2. Len(draft.kind) \in Nat BY <1>2, LenProperties DEF Numbered
      <4> QED BY <1>2, <4>1, <4>2 DEF Definition, ViewsOK
    <3>2. \A q \in DOMAIN views : views[q].group # n
      BY <1>6, <2>2, <3>1 DEF GroupsOK
    <3>3. CASE j = l + 1 /\ i = l + 1 BY <3>3
    <3>4. CASE j = l + 1 /\ i \in DOMAIN views BY <1>1, <2>1, <2>3, <2>6, <3>2, <3>4
    <3>5. CASE j \in DOMAIN views /\ i = l + 1 BY <1>1, <2>1, <2>3, <2>6, <3>2, <3>5
    <3>6. CASE j \in DOMAIN views /\ i \in DOMAIN views BY <2>2, <2>3, <2>6, <3>6 DEF GroupsOK
    <3> QED BY <1>7, <3>3, <3>4, <3>5, <3>6
  <2>7. ASSUME NEW j \in DOMAIN views', NEW m \in ToSet(views'[j].drafts), Group(draft', m)
        PROVE  \/ m \in R
               \/ j + 1 \in DOMAIN views' /\ m = views'[j + 1].group
    <3>1. CASE j = l + 1
      <4>1. views'[j].drafts = <<>> BY <1>1, <3>1 DEF View, c
      <4>2. DOMAIN <<>> = {} OBVIOUS
      <4> QED BY <2>7, <4>1, <4>2 DEF ToSet
    <3>2. CASE j \in DOMAIN views /\ m \in ToSet(views[j].drafts)
      <4>1. \/ m \in R
            \/ j + 1 \in DOMAIN views /\ m = views[j + 1].group
        BY <2>2, <2>3, <2>7, <3>2 DEF GroupsOK
      <4> QED BY <1>7, <2>3, <4>1
    <3>3. CASE j = l /\ m \in ToSet(Registered)
      <4>1. m = n
        <5>1. draft'.kind[m] # "constant" BY <2>7 DEF Group
        <5> QED BY <1>3, <2>3, <3>3, <5>1
      <4>2. j + 1 \in DOMAIN views' BY <1>1, <1>7, <3>3
      <4> QED BY <1>1, <2>1, <3>3, <4>1, <4>2
    <3> QED BY <1>7, <2>3, <3>1, <3>2, <3>3
  <2> QED BY <1>4, <2>5, <2>6, <2>7 DEF GroupsOK
<1> QED BY <1>1, <1>3, <1>5, <1>11, <1>12 DEF Wiring

\* What a view is finalized to.
LEMMA FinalizedWired ==
    ASSUME Wiring, Here.group \notin DOMAIN returned, ~Refused(Here)
    PROVE  /\ Same(draft, Connected(Here)) /\ Wired(Connected(Here))
           /\ WiresStay(draft, Connected(Here))
           /\ \A x \in DOMAIN ResolvedNames(Here) : KnownHere(ResolvedNames(Here)[x])
           /\ AllNodes(Here) \in Seq(Nodes)
<1>1. Numbered(draft) /\ Wired(draft) /\ Definition /\ ReturnsOK BY DEF Wiring, Definition
<1>2. /\ Len(views) \in Nat \ {0} /\ DOMAIN views = 1..Len(views)
      /\ Here = views[Len(views)] /\ ViewOK(Here)
  BY <1>1, LastView
<1>3. KnownView(draft, DOMAIN returned, Here) BY <1>1, LastView DEF Wiring, KnownViews
<1>4. AllNodes(Here) \in Seq(Nodes) BY <1>1, <1>2, <1>3, AllNodesProper
<1>5. NamesKnown(Here)
  <2> DEFINE v == Here
  <2>1. PICK X : v.results \in Seq(X) BY <1>2 DEF ViewOK
  <2>2. /\ \A x \in DOMAIN v.names : KnownHere(v.names[x])
        /\ \A j \in DOMAIN v.results :
              \A x \in DOMAIN v.results[j].names : KnownHere(v.results[j].names[x])
    BY <1>3 DEF KnownView, KnownHere
  <2> HIDE DEF v
  <2>3. \A x \in DOMAIN Merged(v) : KnownHere(Merged(v)[x]) BY <2>1, <2>2, MergedKnown
  <2> QED BY <2>3 DEF NamesKnown, v
<1>6. \A n \in ToSet(Here.drafts) : Group(draft, n) => n \in DOMAIN returned
  <2>1. Len(views) \in DOMAIN views /\ Len(views) + 1 \notin DOMAIN views BY <1>2
  <2> QED BY <1>2, <2>1 DEF Wiring, GroupsOK
<1> DEFINE v == Here
<1>7. \A x \in DOMAIN ResolvedNames(v) : KnownHere(ResolvedNames(v)[x])
  <2> HIDE DEF v
  <2>1. NamesKnown(v) BY <1>5 DEF v
  <2> QED BY <1>1, <2>1, NamesResolved
<1>8. Same(draft, Connected(v)) /\ Wired(Connected(v)) /\ WiresStay(draft, Connected(v))
  <2>1. /\ AllNodes(v) \in Seq(Nodes) /\ NamesKnown(v) /\ ~Refused(v)
        /\ \A n \in ToSet(v.drafts) : Group(draft, n) => n \in DOMAIN returned
    BY <1>4, <1>5, <1>6
  <2> HIDE DEF v
  <2> QED BY <1>1, <2>1, ConnectedWired
<1> QED BY <1>4, <1>7, <1>8

\* A template that returns: what it returned is ranked above all that returned before.
LEMMA ReturnedRanked ==
    ASSUME Wiring, NEW g, g \in DOMAIN draft.kind, Group(draft, g), g \notin DOMAIN returned,
           NEW a, KnownHere(a), Same(draft, draft'), Wired(draft'), WiresStay(draft, draft'),
           returned' = Update(returned, Entry(g, a))
    PROVE  /\ DOMAIN returned' = DOMAIN returned \cup {g}
           /\ ReturnsOK'
<1> DEFINE R == DOMAIN returned
           S == R \cup {g}
           C == Cardinality(R)
           more == Entry(g, a)
<1>1. Numbered(draft) /\ Wired(draft) /\ ReturnsOK BY DEF Wiring, Definition
<1>2. DOMAIN more = {g} /\ more[g] = a BY DEF Entry
<1>3. DOMAIN returned' = S /\ \A y \in S : returned'[y] = IF y = g THEN a ELSE returned[y]
  <2>1. returned' = Update(returned, more) OBVIOUS
  <2> HIDE DEF more
  <2> QED BY <1>2, <2>1 DEF Update
<1>4. IsFiniteSet(R) /\ C \in Nat
  <2>1. R \subseteq DOMAIN draft.kind BY <1>1 DEF ReturnsOK
  <2>2. Len(draft.kind) \in Nat BY <1>1, LenProperties DEF Numbered
  <2> QED BY <1>1, <2>1, <2>2, ReturnedFinite
<1>5. Cardinality(S) = C + 1 BY <1>4, FS_AddElement
<1>6. draft'.kind = draft.kind BY DEF Same
<1>7. ASSUME NEW b, KnownHere(b)
      PROVE  Known(draft', S, b) /\ (IsGroup(b) => b.node \in R)
  <2>1. Known(draft, R, b) BY <1>7 DEF KnownHere
  <2>2. Keeps(draft, draft') BY <1>1, SameKeeps
  <2>3. R \subseteq S OBVIOUS
  <2>4. IsGroup(b) => b.node \in R BY <2>1 DEF Known, IsGroup, Group, Open
  <2> HIDE DEF R, S
  <2> QED BY <1>1, <2>1, <2>2, <2>3, <2>4, KnownStays
<1>8. ASSUME NEW y \in S
      PROVE  /\ y \in DOMAIN draft'.kind /\ Group(draft', y) /\ Known(draft', S, returned'[y])
             /\ IsGroup(returned[y])' => returned'[y].node \in R
  <2>1. CASE y = g
    <3>1. IsGroup(returned[y])' => IsGroup(a) BY <1>3, <1>6, <2>1 DEF IsGroup
    <3> QED BY <1>3, <1>6, <1>7, <2>1, <3>1 DEF Group
  <2>2. CASE y # g
    <3>1. y \in R /\ returned'[y] = returned[y] BY <1>3, <2>2
    <3>2. KnownHere(returned[y]) /\ y \in DOMAIN draft.kind /\ Group(draft, y)
      BY <1>1, <3>1 DEF ReturnsOK
    <3>3. IsGroup(returned[y])' => IsGroup(returned[y]) BY <1>6, <3>1 DEF IsGroup
    <3> QED BY <1>6, <1>7, <3>1, <3>2, <3>3 DEF Group
  <2> QED BY <2>1, <2>2
<1>9. PICK rank : Ranked(rank) BY <1>1 DEF ReturnsOK
<1> DEFINE new == [y \in S |-> IF y = g THEN C + 1 ELSE rank[y]]
<1>10. PICK f : f = new OBVIOUS
<1>11. Ranked(f)'
  <2>1. \A y \in R : rank[y] \in 1..C /\ new[y] = rank[y] BY <1>9 DEF Ranked
  <2>2. ASSUME NEW y \in S
        PROVE  /\ new[y] \in 1..(C + 1)
               /\ IsGroup(returned[y])' => new[returned'[y].node] < new[y]
    <3>1. CASE y = g
      <4>1. new[y] = C + 1 BY <3>1
      <4>2. \A z \in R : new[z] \in 1..C BY <2>1
      <4> HIDE DEF new, C
      <4> QED BY <1>4, <1>8, <4>1, <4>2 DEF C
    <3>2. CASE y # g
      <4>1. y \in R /\ returned'[y] = returned[y] BY <1>3, <3>2
      <4>2. new[y] = rank[y] /\ rank[y] \in 1..C BY <2>1, <4>1
      <4>3. IsGroup(returned[y])' => IsGroup(returned[y]) BY <1>6, <4>1 DEF IsGroup
      <4>4. IsGroup(returned[y]) => rank[returned[y].node] < rank[y] BY <1>9, <4>1 DEF Ranked
      <4>5. IsGroup(returned[y])' => new[returned'[y].node] = rank[returned[y].node]
        BY <1>8, <2>1, <4>1
      <4>6. new[y] \in 1..(C + 1)
        <5> HIDE DEF new, C
        <5> QED BY <1>4, <4>2 DEF C
      <4> HIDE DEF new
      <4> QED BY <4>2, <4>3, <4>4, <4>5, <4>6
    <3> QED BY <3>1, <3>2
  <2> HIDE DEF new, C, S
  <2>3. DOMAIN returned' = S /\ Cardinality(S) = C + 1 BY <1>3, <1>5
  <2> QED BY <1>10, <2>2, <2>3 DEF Ranked
<1> HIDE DEF new, S
<1> QED BY <1>3, <1>8, <1>11 DEF ReturnsOK, KnownHere, S

\* A template returns what the view knows: the groups can still be ranked.
LEMMA ReturnWires ==
    ASSUME Wiring, NEW a, KnownHere(a), ReturnFromTemplate(a), status = "open",
           status' = "open", size' = size
    PROVE  Wiring'
<1> DEFINE R == DOMAIN returned
           l == Len(views)
           g == Here.group
           outer == views[l - 1]
           result == [names |-> ResolvedNames(Here), final |-> AllNodes(Here)]
           b == Node(g)
           v == Assign(outer, Here.as, b)
           w == [v EXCEPT !.results = Append(@, result)]
<1>1. Numbered(draft) /\ Wired(draft) /\ Definition /\ ReturnsOK /\ GroupsOK
  BY DEF Wiring, Definition
<1>2. /\ g # 0 /\ ~Refused(Here) /\ draft' = Connected(Here)
      /\ returned' = Update(returned, Entry(g, a))
  <2>1. CASE Refused(Here) BY <2>1 DEF ReturnFromTemplate
  <2>2. CASE ~Refused(Here) BY <2>2 DEF ReturnFromTemplate
  <2> QED BY <2>1, <2>2
<1>3. /\ Definition' /\ l - 1 \in DOMAIN views /\ DOMAIN views' = 1..(l - 1)
      /\ \A j \in 1..(l - 1) : views'[j] = IF j = l - 1 THEN w ELSE views[j]
  BY <1>1, ReturnKeeps DEF ReturnedTo
<1>4. /\ l \in Nat \ {0} /\ DOMAIN views = 1..l /\ l \in DOMAIN views /\ Here = views[l]
  BY <1>1, LastView
<1>5. g \in DOMAIN draft.kind /\ Group(draft, g) /\ g \notin R
  <2>1. l # 1 BY <1>1, <1>2, <1>4 DEF Definition, ViewsOK
  <2> QED BY <1>1, <1>4, <2>1 DEF GroupsOK
<1>6. /\ Same(draft, draft') /\ Wired(draft') /\ WiresStay(draft, draft')
      /\ \A x \in DOMAIN ResolvedNames(Here) : KnownHere(ResolvedNames(Here)[x])
      /\ AllNodes(Here) \in Seq(Nodes)
  BY <1>2, <1>5, FinalizedWired
<1>7. DOMAIN returned' = R \cup {g} /\ ReturnsOK'
  <2> HIDE DEF g
  <2> QED BY <1>2, <1>5, <1>6, ReturnedRanked
<1> DEFINE S == DOMAIN returned'
<1>8. Keeps(draft, draft') /\ R \subseteq S BY <1>1, <1>6, <1>7, SameKeeps
<1>9. \A j \in DOMAIN views : KnownView(draft', S, views[j])
  <2>1. \A j \in DOMAIN views : KnownView(draft, R, views[j]) BY DEF Wiring, KnownViews
  <2> HIDE DEF R, S
  <2> QED BY <1>1, <1>6, <1>8, <2>1, ViewStays
<1>10. KnownView(draft', S, w)
  <2>1. ViewOK(outer) /\ KnownView(draft', S, outer)
    BY <1>1, <1>3, <1>9 DEF Definition, ViewsOK
  <2>2. {"names", "params", "results"} \subseteq DOMAIN outer BY <2>1 DEF ViewOK
  <2>3. Known(draft', S, b) BY <1>5, <1>6, <1>7 DEF Known, Node, Same
  <2>4. PICK X : outer.results \in Seq(X) BY <2>1 DEF ViewOK
  <2>5. /\ \A x \in DOMAIN result.names : Known(draft', S, result.names[x])
        /\ result.final \in Seq({n \in DOMAIN draft'.kind : ~Group(draft', n)})
    <3>1. \A x \in DOMAIN ResolvedNames(Here) : Known(draft, R, ResolvedNames(Here)[x])
      BY <1>6 DEF KnownHere
    <3>2. \A x \in DOMAIN ResolvedNames(Here) : Known(draft', S, ResolvedNames(Here)[x])
      <4> HIDE DEF R, S
      <4> QED BY <1>1, <1>6, <1>8, <3>1, KnownStays
    <3>3. {n \in DOMAIN draft'.kind : ~Group(draft', n)} = Nodes
      BY <1>6 DEF Same, Group, Nodes
    <3> QED BY <1>6, <3>2, <3>3
  <2> HIDE DEF b, S, outer, result
  <2>6. KnownView(draft', S, v) BY <2>1, <2>2, <2>3, AssignKnown
  <2>7. DOMAIN v = DOMAIN outer /\ v.results = outer.results BY <2>2 DEF Assign
  <2> HIDE DEF v
  <2>8. /\ w.names = v.names /\ w.params = v.params
        /\ w.results = Append(outer.results, result)
    BY <2>2, <2>7
  <2> DEFINE m == Len(outer.results)
  <2>9. /\ m \in Nat /\ DOMAIN outer.results = 1..m /\ DOMAIN w.results = 1..(m + 1)
        /\ w.results[m + 1] = result /\ \A j \in 1..m : w.results[j] = outer.results[j]
    <3> DEFINE Y == X \cup {result}
    <3>1. outer.results \in Seq(Y) /\ result \in Y BY <2>4, SeqMonotonic
    <3> HIDE DEF Y, w
    <3>2. /\ w.results \in Seq(Y) /\ Len(w.results) = m + 1
          /\ w.results[m + 1] = result /\ \A j \in 1..m : w.results[j] = outer.results[j]
      BY <2>8, <3>1, AppendProperties
    <3> QED BY <3>1, <3>2, LenProperties
  <2> HIDE DEF m, w
  <2>10. \A j \in 1..(m + 1) : j \in 1..m \/ j = m + 1 BY <2>9
  <2> QED BY <2>5, <2>6, <2>7, <2>8, <2>9, <2>10 DEF KnownView
<1>11. \A j \in 1..(l - 1) : j \in DOMAIN views /\ j # l
  <2> HIDE DEF l
  <2> QED BY <1>4
<1>12. KnownViews'
  <2> HIDE DEF w, l
  <2> QED BY <1>3, <1>9, <1>10, <1>11 DEF KnownViews
<1>13. GroupsOK'
  <2>1. ViewOK(outer) BY <1>1, <1>3 DEF Definition, ViewsOK
  <2>2. {"names", "results", "drafts", "group"} \subseteq DOMAIN outer BY <2>1 DEF ViewOK
  <2>3. w.group = outer.group /\ w.drafts = outer.drafts BY <2>2 DEF Assign
  <2>4. \A j \in 1..(l - 1) : views'[j].group = views[j].group /\ views'[j].drafts = views[j].drafts
    <3> HIDE DEF w
    <3> QED BY <1>3, <2>3
  <2>5. \A m : Group(draft', m) <=> Group(draft, m) BY <1>6 DEF Same, Group
  <2>6. draft'.kind = draft.kind BY <1>6 DEF Same
  <2> HIDE DEF w, outer, l
  <2>7. ASSUME NEW j \in 1..(l - 1)
        PROVE  j # 1 => /\ views'[j].group \in DOMAIN draft'.kind
                        /\ Group(draft', views'[j].group) /\ views'[j].group \notin S
    <3>1. views[j].group # g BY <1>1, <1>4, <1>11 DEF GroupsOK
    <3> QED BY <1>1, <1>7, <1>11, <2>4, <2>5, <2>6, <3>1 DEF GroupsOK
  <2>8. \A j, i \in 1..(l - 1) : views'[j].group = views'[i].group => j = i
    BY <1>1, <1>11, <2>4 DEF GroupsOK
  <2>9. ASSUME NEW j \in 1..(l - 1), NEW m \in ToSet(views'[j].drafts), Group(draft', m)
        PROVE  \/ m \in S
               \/ j + 1 \in 1..(l - 1) /\ m = views'[j + 1].group
    <3>1. \/ m \in R
          \/ j + 1 \in DOMAIN views /\ m = views[j + 1].group
      BY <1>1, <1>11, <2>4, <2>5, <2>9 DEF GroupsOK
    <3>2. CASE m \in R BY <1>7, <3>2
    <3>3. CASE m \notin R
      <4>1. CASE j + 1 = l BY <1>4, <1>7, <3>1, <3>3, <4>1
      <4>2. CASE j + 1 # l
        <5>1. j + 1 \in 1..(l - 1) BY <1>4, <4>2
        <5> QED BY <2>4, <3>1, <3>3, <5>1
      <4> QED BY <4>1, <4>2
    <3> QED BY <3>2, <3>3
  <2> QED BY <1>3, <2>7, <2>8, <2>9 DEF GroupsOK
<1> QED BY <1>3, <1>6, <1>7, <1>12, <1>13 DEF Wiring

\* When the outer view ends, both sides tell of the same connections.
LEMMA ExitWires ==
    ASSUME Wiring, Exit
    PROVE  SymmetricWiring'
<1>1. CASE status' = "done"
  <2>1. /\ Here.group = 0 /\ ~Refused(Here) /\ draft' = Connected(Here)
    <3>1. CASE Refused(Here) \/ NotFinal(Here, Connected(Here)) BY <1>1, <3>1 DEF Exit
    <3>2. CASE ~(Refused(Here) \/ NotFinal(Here, Connected(Here))) BY <1>1, <3>2 DEF Exit
    <3> QED BY <3>1, <3>2
  <2>2. 0 \notin DOMAIN returned
    <3>1. Len(draft.kind) \in Nat /\ DOMAIN draft.kind = 1..Len(draft.kind)
      BY LenProperties DEF Wiring, Definition, Numbered
    <3>2. DOMAIN returned \subseteq DOMAIN draft.kind BY DEF Wiring, ReturnsOK
    <3> QED BY <3>1, <3>2
  <2>3. Wired(draft') BY <2>1, <2>2, FinalizedWired
  <2>4. ToSet(added') = {n \in DOMAIN draft'.kind : ~Group(draft', n)}
    <3>1. NodesAddedOnce' BY ExitCompletes DEF Wiring
    <3> QED BY <1>1, <3>1 DEF NodesAddedOnce, Group
  <2>5. ASSUME NEW m \in ToSet(added'), NEW n \in ToSet(added')
        PROVE  Cardinality({i \in DOMAIN draft'.port[n] :
                               draft'.port[n][i].is = "wire" /\ SourceOf(n, i)' = m})
                 = Cardinality({j \in DOMAIN draft'.outs[m] : draft'.outs[m][j] = n})
    <3>1. Cardinality(TakenBy(draft', n, m)) = Count(draft'.outs[m], n)
      BY <2>3, <2>4 DEF Wired, Symmetric
    <3> QED BY <3>1 DEF TakenBy, SourceOf, Count, Listed
  <2> QED BY <2>5 DEF SymmetricWiring, SourceOf
<1>2. CASE status' # "done" BY <1>2 DEF SymmetricWiring
<1> QED BY <1>1, <1>2

\* An empty program is connected alike.
LEMMA InitWires == Init => WiringInv
<1> SUFFICES ASSUME Init PROVE WiringInv OBVIOUS
<1>1. Definition BY InitNodes DEF Init, NodesInv
<1>2. /\ draft.kind = <<>> /\ draft.port = <<>> /\ draft.outs = <<>> /\ draft.wire = <<>>
      /\ DOMAIN <<>> = {} /\ returned = <<>> /\ size \in Sizes /\ status = "open"
  BY DEF Init
<1>3. Wired(draft)
  <2>1. \A X : <<>> \in Seq(X) BY EmptySeq
  <2>2. Symmetric(draft) /\ Unshared(draft) BY <1>2 DEF Symmetric, Unshared
  <2>3. draft.outs \in Seq(Seq(DOMAIN draft.kind))
    <3> DEFINE Y == Seq(DOMAIN draft.kind)
    <3> HIDE DEF Y
    <3>1. draft.outs \in Seq(Y) BY <1>2, <2>1
    <3> QED BY <3>1 DEF Y
  <2>4. \E W : draft.wire \in Seq(W) BY <1>2, <2>1
  <2> QED BY <1>2, <2>2, <2>3, <2>4 DEF Wired
<1>4. ReturnsOK
  <2>1. \E f : Ranked(f) BY <1>2 DEF Ranked
  <2> QED BY <1>2, <2>1 DEF ReturnsOK
<1>5. /\ DOMAIN views = {1} /\ views[1].group = 0 /\ views[1].names = <<>>
      /\ views[1].params = <<>> /\ views[1].drafts = <<>> /\ views[1].results = <<>>
  BY DEF Init
<1>6. KnownViews BY <1>2, <1>5 DEF KnownViews, KnownView
<1>7. GroupsOK BY <1>2, <1>5 DEF GroupsOK, ToSet
<1> QED BY <1>1, <1>2, <1>3, <1>4, <1>6, <1>7 DEF WiringInv, Wiring, SymmetricWiring

\* Every statement of a program, and its end, keep the invariant.
LEMMA NextWires == ASSUME Direct PROVE WiringInv /\ [Next]_vars => WiringInv'
<1> SUFFICES ASSUME WiringInv, [Next]_vars PROVE WiringInv' OBVIOUS
<1>1. CASE UNCHANGED vars
  <2>1. SymmetricWiring' BY <1>1 DEF WiringInv, SymmetricWiring, SourceOf, vars
  <2>2. Wiring => Wiring'
    <3>1. Definition => Definition'
      BY <1>1 DEF Definition, vars, Numbered, ViewsOK, ViewOK, AddedOK, InOnePlace,
                  InSomePlace, IsList, Group, Kind
    <3>2. draft' = draft /\ returned' = returned /\ views' = views /\ size' = size
      BY <1>1 DEF vars
    <3>3. Wired(draft) => Wired(draft') BY <3>2
    <3>4. ReturnsOK => ReturnsOK'
      BY <3>2 DEF ReturnsOK, KnownHere, Ranked, IsGroup
    <3>5. KnownViews => KnownViews' BY <3>2 DEF KnownViews
    <3>6. GroupsOK => GroupsOK' BY <3>2 DEF GroupsOK
    <3> QED BY <3>1, <3>2, <3>3, <3>4, <3>5, <3>6 DEF Wiring
  <2> QED BY <1>1, <2>1, <2>2 DEF WiringInv, vars
<1>2. CASE Next
  <2>1. status = "open" /\ Wiring /\ size' = size BY <1>2 DEF Next, WiringInv
  <2>2. ASSUME NEW x, NEW args \in Arguments(size.literals), DefineNode(x, args)
        PROVE  WiringInv'
    <3>1. status' = "open" BY <2>1, <2>2 DEF DefineNode
    <3>2. IsList(args) /\ \A i \in DOMAIN args : KnownHere(args[i])
      BY <2>1, LiteralsOK, ArgumentsKnown
    <3>3. Wiring' BY <2>1, <2>2, <3>2, DefineNodeWires
    <3> QED BY <3>1, <3>3 DEF WiringInv, SymmetricWiring
  <2>3. ASSUME NEW x, NEW y, KeepOutput(x, y) PROVE WiringInv'
    <3>1. status' = "open" BY <2>1, <2>3 DEF KeepOutput
    <3>2. Wiring' BY <2>1, <2>3, KeepOutputWires
    <3> QED BY <3>1, <3>2 DEF WiringInv, SymmetricWiring
  <2>4. ASSUME NEW x, NEW args \in Arguments(size.literals \cap {"value"}), CallTemplate(x, args)
        PROVE  WiringInv'
    <3>1. status' = "open" BY <2>1, <2>4 DEF CallTemplate
    <3>2. IsList(args) /\ \A i \in DOMAIN args : KnownHere(args[i])
      BY <2>1, LiteralsOK, ArgumentsKnown
    <3>3. Wiring' BY <2>1, <2>4, <3>2, CallTemplateWires
    <3> QED BY <3>1, <3>3 DEF WiringInv, SymmetricWiring
  <2>5. ASSUME NEW a \in {Read(x) : x \in NamesHere} \cup ToSet(Here.params),
               ReturnFromTemplate(a)
        PROVE  WiringInv'
    <3>1. status' = "open" \/ status' = "error" BY <2>1, <2>5 DEF ReturnFromTemplate
    <3>2. KnownHere(a) BY <2>1, ReadKnown
    <3>3. status' = "open" => Wiring' BY <2>1, <2>5, <3>2, ReturnWires
    <3> QED BY <3>1, <3>3 DEF WiringInv, SymmetricWiring
  <2>6. ASSUME Exit PROVE WiringInv'
    <3>1. status' = "done" \/ status' = "error" BY <2>6 DEF Exit
    <3>2. SymmetricWiring' BY <2>1, <2>6, ExitWires
    <3> QED BY <3>1, <3>2 DEF WiringInv
  <2> QED BY <1>2, <2>2, <2>3, <2>4, <2>5, <2>6 DEF Next, Statement
<1> QED BY <1>1, <1>2

\* In whatever order nodes are defined and templates used, outputs of nodes kept under names
\* and ports redirected to what a template returned: in the finished flow a node lists a
\* consumer exactly as often as that consumer takes its output.
THEOREM WiringIsSymmetric ==
    ASSUME Direct
    PROVE  Spec => []SymmetricWiring
<1>1. WiringInv => SymmetricWiring BY DEF WiringInv
<1>2. WiringInv /\ [Next]_vars => WiringInv' BY NextWires
<1> QED BY <1>1, <1>2, InitWires, PTL DEF Spec

=============================================================================
