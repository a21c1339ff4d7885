-------------------------------- MODULE Flow --------------------------------
(* A flow as a whole: the resolution loop, the nodes and their streams, and    *)
(* what the documentation promises of them.                                    *)
EXTENDS Streams

vars == <<resolutionVars, chunkVars>>

Init == ResolutionInit /\ StreamInit

LoopStep ==
    \/ (Dispatch \/ MainTurn) /\ UNCHANGED chunkVars
    \/ \E t \in Task : Turn(t) /\ UNCHANGED chunkVars
    \/ \E n \in Node :
          \/ NodeTurn(n) /\ UNCHANGED chunkVars
          \/ ConsumerTurn(n)
          \/ GeneratorTurn(n)

Arrives(n) == Wake(n) /\ UNCHANGED chunkVars

Next == LoopStep \/ \E n \in Node : Arrives(n)

Spec == Init /\ [][Next]_vars

\* The loop keeps running, and what a node awaits happens in the end.
FairSpec == Spec /\ WF_vars(LoopStep) /\ \A n \in Node : SF_vars(Arrives(n))

-----------------------------------------------------------------------------

TypeOK == ResolutionTypeOK /\ StreamTypeOK

InFlight(n) == status[n] \in {"queued", "executing"}

\* The two counters that decide when the queue is closed agree with what the nodes do: a
\* completion is pending for each visited node that was resumed and does not wait yet,
\* stalled or not, and all of these are active but for the stalled ones, whichever way
\* they were resumed.
CountersExact ==
    loop = "running" =>
        /\ pending = Cardinality({n \in visited : InFlight(n) \/ status[n] = "stalled"})
        /\ {n \in visited : InFlight(n)} \subseteq active

\* run_until_complete() returns only after every node of the flow has computed.
EveryNodeRuns == loop = "done" => \A n \in Node : gen[n] # None

\* "Each execute exactly once" (test_multiple_consumer_execution.py): in a flow without a
\* cycle every node computes at most once.
RunsOnce ==
    LET acyclic == \A p \in DOMAIN ports :
            ports[p].node \notin Reach(DOMAIN ports, ports[p].source)
    IN  acyclic => \A n \in Node : CmpGeneration(gen[n], <<0>>) <= 0

\* The main generations of a node.
Runs(n) == IF gen[n] = None THEN 0 ELSE gen[n][1] + 1

\* "All nodes evaluate the same number of times" (flowno_resolution_internals.rst, Basic
\* Rule): when the flow is done no node has run more often than another.
SameNumberOfRuns == loop = "done" => \A m, n \in Node : Runs(m) = Runs(n)

\* "Before a node evaluates, it recursively ensures all of its inputs are newer than its
\* most recent evaluation" (key_concepts.rst): a node that gathers its inputs finds none
\* that is stale, but for ports with a default, which need not wait.
InputsAreFresh ==
    \A n \in Node :
        running = n /\ at[n] = "idle" =>
            \A p \in Inputs(n) : Stale(p) => ports[p].default

\* "When a node evaluates, it triggers all of its dependent downstream nodes to evaluate
\* next given the new data" (key_concepts.rst): when the flow is done no node has inputs
\* all of which are newer than its own data.
NobodyIsReady ==
    loop = "done" => \A n \in Node : Inputs(n) # {} => \E p \in Inputs(n) : Stale(p)

\* "Wait for the last output data to have been read before overwriting" (flow.py:520): the
\* data of a node is never two generations ahead of what a consumer has gathered.
HasGathered(n) == at[n] \in {"latch", "body", "call", "barrier"}

Lockstep ==
    \A p \in DOMAIN ports :
        LET n == ports[p].node IN
        Runs(ports[p].source) + stitch[p] <= Runs(n) + (IF HasGathered(n) THEN 2 ELSE 1)

\* A flow ends: Main is never left waiting for an item that nobody will put.
FlowEnds == <>(loop # "running")

-----------------------------------------------------------------------------
(* Streams.                                                                   *)

Quiet == tasks = <<>> /\ running = NoTask /\ away = {}

\* "The task will be resumed when the resolver wakes it": when nothing is left to happen no
\* node is stalled on a stream that has another chunk for it, or has ended.
NoConsumerForgotten ==
    Quiet => \A n \in Node : status[n] = "stalled" => ~ChunkReady(stalledOn[n]) /\ ~Ended(stalledOn[n])

\* A step that reads a chunk.
Reads(p) == last'[p] \notin {last[p], None}

\* The chunk read belongs to a later run of the producer than the chunk that was due.
EntersLaterRun(p) == last'[p][1] > Desired(p)[1]

\* "All consumers should receive all chunks" (test_streaming.py): the chunks of a stream are
\* read in order, the first of the first run to begin with.  A reader gets the one after the
\* last it read, or goes over to a later run and gets the first of that.  (It may leave the
\* run before it too early: what it has left unread there is not looked at.)
ChunksInOrder ==
    [][\A p \in DOMAIN ports :
          Reads(p) =>
              \/ last'[p] = Desired(p)
              \/ EntersLaterRun(p) /\ last'[p][2] = 0]_vars

\* What the check of a stream gives in every flow (StreamCheckCommand): the chunk that is
\* due, or, when the producer is in a later run, whatever chunk it has pushed last.
NextOrLatest ==
    [][\A p \in DOMAIN ports :
          Reads(p) =>
              \/ last'[p] = Desired(p)
              \/ EntersLaterRun(p) /\ last'[p] = gen[ports[p].source]]_vars

\* Nobody stops before the end (Stream.__anext__): when the flow is done, the last chunk that
\* a coroutine has read, which returned after the end of its stream, is the last of them.
EveryChunkRead ==
    loop = "done" =>
        \A p \in DOMAIN ports :
            LET producer == ports[p].source IN
            ports[p].stream /\ ~ports[p].early /\ ports[p].node \notin Generator =>
                last[p] = <<MainGeneration(gen[producer])[1], chunks[producer] - 1>>

=============================================================================
