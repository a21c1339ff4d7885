----------------------------- MODULE Generations -----------------------------
(* The generations that number the data of the nodes (helpers.py): a tuple of *)
(* naturals, the main generation first, then the chunk of a stream within it, *)
(* or None before the first data.                                             *)
EXTENDS Integers, SequencesExt, FiniteSetsExt

CONSTANT None

ASSUME NoneAssumption == None \notin Seq(Nat)

Generation == Seq(Nat) \cup {None}

\* None is the lowest; a prefix, which stands for the whole of its parts, follows them.
CmpGeneration(a, b) ==
    IF a = b THEN 0
    ELSE IF a = None THEN -1
    ELSE IF b = None THEN 1
    ELSE LET differ == {i \in DOMAIN a \cap DOMAIN b : a[i] # b[i]} IN
         IF differ = {} THEN IF Len(a) < Len(b) THEN 1 ELSE -1
         ELSE IF a[Min(differ)] < b[Min(differ)] THEN -1 ELSE 1

\* The first k elements of g, and zeros up to the length of a run level.
Padded(g, k, level) == [i \in 1..(level + 1) |-> IF i <= k /\ i <= Len(g) THEN g[i] ELSE 0]

\* The lowest generation of a run level above g: a further part of g, or the next at the
\* deepest position that gives a higher one.
IncGeneration(g, level) ==
    IF g = None THEN Padded(<<>>, 0, level)
    ELSE LET part == Padded(g, level + 1, level)
             Raised(k) == [Padded(g, k, level) EXCEPT ![k] = @ + 1]
             higher == {k \in 1..(level + 1) : CmpGeneration(Raised(k), g) > 0}
         IN  IF CmpGeneration(part, g) > 0 THEN part ELSE Raised(Max(higher))

\* The highest generation up to g that is not below a run level: g itself, or a prefix
\* whose last element is lowered until it does not exceed g; None when there is none.
ClipGeneration(g, level) ==
    IF g = None \/ Len(g) <= level + 1 THEN g
    ELSE LET Lowered(k, v) == [SubSeq(g, 1, k) EXCEPT ![k] = v]
             fits == {kv \in {<<k, v>> : k \in 1..(level + 1), v \in 0..Max(ToSet(g))} :
                          /\ kv[2] <= g[kv[1]]
                          /\ CmpGeneration(Lowered(kv[1], kv[2]), g) <= 0}
         IN  IF fits = {} THEN None
             ELSE LET k == Max({kv[1] : kv \in fits})
                      v == Max({kv[2] : kv \in {f \in fits : f[1] = k}})
                  IN  Lowered(k, v)

MainGeneration(g) == IF g = None \/ g = <<>> THEN g ELSE <<g[1]>>

\* What the generation of an input counts for, after `stitch' evaluations on defaults.
StitchedGeneration(g, stitch) ==
    IF g = None THEN IF stitch = 0 THEN None ELSE <<stitch - 1>>
    ELSE IF g = <<>> THEN g
    ELSE [g EXCEPT ![1] = @ + stitch]

=============================================================================
