----------------------------- MODULE MCSmallFlows -----------------------------
(* Instances of Flow with at most three nodes.                                 *)
EXTENDS MCFlow

CONSTANTS n1, n2, n3

AnyOrder == SetToSeqs(Node)

PlainPort == {p \in Port : ~p.stream /\ ~p.early}

\* Every flow of up to k connections, no two between the same nodes.
FlowsUpTo(max) ==
    {f \in UNION {[1..m -> PlainPort] : m \in 0..max} :
        \A i, j \in DOMAIN f :
            i # j => f[i].node # f[j].node \/ f[i].source # f[j].source}

\* One of the flows that differ only in the names of n1, n2 and n3: Init allows each
\* order of the nodes, so the names do not matter.
Named(f) ==
    LET mention[i \in 0..Len(f)] ==
            IF i = 0 THEN <<>> ELSE mention[i - 1] \o <<f[i].node, f[i].source>>
        names == mention[Len(f)]
        First(n) == SelectInSeq(names, LAMBDA m : m = n)
        Before(n, m) == First(m) = 0 \/ (First(n) > 0 /\ First(n) <= First(m))
    IN  Before(n1, n2) /\ Before(n2, n3)

NoSelfLoop(f) == \A i \in DOMAIN f : f[i].node # f[i].source

SmallFlows == {f \in FlowsUpTo(3) : Named(f) /\ (Len(f) = 3 => NoSelfLoop(f))}

\* A node with a default on its own data, listed before another consumer.
Accumulator == {<<InDefault(n1, n1), In(n2, n1)>>}

\* A cycle whose data has a second consumer.
Feedback == {<<In(n1, n2), InDefault(n2, n1), In(n3, n2)>>}

-------------------------------------------------------------------------------
(* Flows with streams.                                                         *)

\* A stream with one reader; the same beside a node that reads the whole; a generator that
\* reads a stream; a node with two streams; a cycle.
OneReader == <<Early(StreamIn(n3, n2))>>
WholeAndParts == <<StreamIn(n3, n2), In(n1, n2)>>
PartsAndWhole == <<In(n1, n2), StreamIn(n3, n2)>>
Pipeline == <<StreamIn(n2, n1), Early(StreamIn(n3, n2))>>
Zipped == <<StreamIn(n3, n1), StreamIn(n3, n2)>>
Loop == <<Early(Default(StreamIn(n3, n2))), In(n2, n3)>>

SomeFlows == {OneReader, WholeAndParts, PartsAndWhole, Pipeline, Zipped, Loop}

\* A stream with two readers.
TwoReaders == {<<StreamIn(n2, n1), StreamIn(n3, n1)>>}

\* A node that waits for the whole of a generator, which may cancel its own stream.
WaitsForCanceller == {<<Early(StreamIn(n2, n1)), In(n3, n2)>>}

\* A node that takes the whole of a generator, beside one that may leave its stream.
LeavesBesideWhole == {<<In(n1, n2), Early(StreamIn(n3, n2))>>}

\* A node that takes the whole of a generator.
TakesWhole == {<<In(n2, n1)>>}

\* The stream with one reader, alone.
Alone == {OneReader}

===============================================================================
