------------------------------- MODULE Streams -------------------------------
(***************************************************************************)
(* Streams (flow.py, node_base.py): nodes whose call is an async generator *)
(* push each chunk they yield as data of run level 1; a node with a        *)
(* streaming input is called with a Stream, reads the chunks one by one,   *)
(* stalls when there is none, and may cancel the stream.                   *)
(*                                                                         *)
(* A stream command puts its task in front of the run queue: the task goes *)
(* on before anybody else runs, and the command is one step with the       *)
(* beginning of what follows.                                              *)
(***************************************************************************)
EXTENDS FlowResolution

CONSTANTS MaxChunks,      \* bound: the chunks of one run of a generator
          Stubborn,       \* the generators that catch StreamCancelled and may go on
          Terse,          \* the generators that may return without a chunk
          Unsummed        \* the generators whose chunks cannot be added up

ASSUME StreamAssumption ==
    /\ MaxChunks \in Nat /\ (Generator # {} => MaxChunks > 0)
    /\ Stubborn \subseteq Generator /\ Terse \subseteq Generator /\ Unsummed \subseteq Generator

VARIABLES
    chunks,    \* how many chunks FinalizedNode._data has of the latest main generation
    latch1,    \* the count of FinalizedNode._barrier1
    last,      \* StreamConsumerState.last_consumed_generation
    cancels,   \* Flow._cancelled_streams, as ports
    thrown     \* the generator was resumed with athrow(StreamCancelled)

chunkVars == <<chunks, latch1, last, cancels, thrown>>

StreamTypeOK ==
    /\ chunks \in [Node -> 0..MaxChunks]
    /\ latch1 \in [Node -> Nat]
    /\ last \in [DOMAIN ports -> Generation]
    /\ cancels \in [Node -> SUBSET DOMAIN ports]
    /\ thrown \in [Node -> BOOLEAN]

StreamInit ==
    /\ chunks = [n \in Node |-> 0]
    /\ latch1 = [n \in Node |-> 0]
    /\ last = [p \in DOMAIN ports |-> None]
    /\ cancels = [n \in Node |-> {}]
    /\ thrown = [n \in Node |-> FALSE]

StreamInputs(n) == {p \in Inputs(n) : ports[p].stream}

-----------------------------------------------------------------------------
(* A consumer: Stream.__anext__ and StreamCheckCommand.                       *)

Desired(p) == IncGeneration(last[p], 1)

\* The producer has begun another main generation than the one that was read.
Restarted(p) ==
    CmpGeneration(MainGeneration(gen[ports[p].source]), MainGeneration(Desired(p))) > 0

Completed(n) == gen[n] # None /\ Len(gen[n]) = 1

\* mutant: the latest chunk, whatever was read before
ChunkLatest(p) == gen[ports[p].source]

\* The chunk to read: the latest of a producer that has restarted, else the next.
Chunk(p) == IF Restarted(p) THEN gen[ports[p].source] ELSE Desired(p)

\* mutant: nothing is read of a stream that is complete
ChunkReadyInRun(p) ==
    LET n == ports[p].source IN
    ~Completed(n) /\ (Restarted(p) \/ (Desired(p)[1] = gen[n][1] /\ Desired(p)[2] < chunks[n]))

ChunkReady(p) ==
    LET n == ports[p].source IN
    IF Restarted(p) THEN ~Completed(n)
    ELSE Desired(p)[1] = gen[n][1] /\ Desired(p)[2] < chunks[n]

Ended(p) == ~ChunkReady(p) /\ (Restarted(p) \/ gen[ports[p].source] = MainGeneration(Desired(p)))

\* The streams that n may ask for a chunk now, or asks for again.
Asks(n) ==
    IF running # n THEN {}
    ELSE IF at[n] = "stalled" THEN {stalledOn[n]}
    ELSE IF InCode(n) THEN reading[n].open ELSE {}

\* The task goes on in the user's code.
GoOn(n) ==
    /\ at' = [at EXCEPT ![n] = "body"]
    /\ stalledOn' = [stalledOn EXCEPT ![n] = 0]
    /\ UNCHANGED <<running, status>>

Forget(p) == dropped' = IF Restarted(p) THEN dropped \ {p} ELSE dropped

Read(n, p) ==
    /\ p \in Asks(n) /\ ChunkReady(p)
    /\ last' = [last EXCEPT ![p] = Chunk(p)]
    /\ GoOn(n)
    /\ Forget(p)
    /\ latch1' = [latch1 EXCEPT ![ports[p].source] = CountedDown(@)]
    /\ UNCHANGED <<tasks, syncVars, ports, blank, loop, away, bookVars, queueVars, dataVars,
                   putting, work, chunks, cancels, thrown>>

\* StopAsyncIteration
ReadEnd(n, p) ==
    /\ p \in Asks(n) /\ Ended(p)
    /\ last' = [last EXCEPT ![p] = IF Restarted(p) THEN None ELSE @]
    /\ GoOn(n)
    /\ Forget(p)
    /\ reading' = [reading EXCEPT ![n].open = @ \ {p}]
    /\ UNCHANGED <<tasks, syncVars, ports, blank, loop, away, bookVars, queueVars, gen,
                   stitch, defaulted, latch, putting, work, chunks, latch1, cancels, thrown>>

\* mutant: leaves a producer alone that waits
WakesStalled(producer) == status'[producer] = "stalled" /\ producer \notin ToSet(items)

\* StreamWaitCommand and AsyncSetQueue.put_nowait(): the task is not queued again, and the
\* producer is, unless it is at work; a closed queue raises in the handler.
Wakes(producer) == status'[producer] \in {"waiting", "stalled"} /\ producer \notin ToSet(items)

Stall(n, p) ==
    LET producer == ports[p].source IN
    /\ p \in Asks(n) /\ ~ChunkReady(p) /\ ~Ended(p)
    /\ status' = [status EXCEPT ![n] = "stalled"]
    /\ stalledOn' = [stalledOn EXCEPT ![n] = p]
    /\ active' = active \ {n}
    /\ at' = [at EXCEPT ![n] = "stalled"]
    /\ running' = NoTask
    /\ IF ~Wakes(producer)
         THEN UNCHANGED <<items, tasks, syncVars, loop>>
       ELSE IF closed
         THEN loop' = "error" /\ UNCHANGED <<items, tasks, syncVars>>
         ELSE /\ items' = Append(items, producer)
              /\ NotifyNowait(notEmpty)
              /\ UNCHANGED loop
    /\ UNCHANGED <<streamVars, away, unvisited, visited, pending, hasItem, closed, dataVars,
                   putting, work, chunkVars>>

-----------------------------------------------------------------------------
(* StreamCancelCommand, for each of the streams P in turn: the producer is    *)
(* told, and resumed when it waits between two chunks.                        *)

ProducersOf(P) == {ports[p].source : p \in P}

CancelStreams(n, P) ==
    LET resumed == {m \in ProducersOf(P) : ~Completed(m) /\ status[m] = "waiting"} IN
    /\ cancels' = [m \in Node |-> cancels[m] \cup (P \cap Outputs(m))]
    /\ dropped' = dropped \cup P
    /\ latch1' = [m \in Node |-> latch1[m] - Min({latch1[m], Cardinality(P \cap Outputs(m))})]
    /\ active' = active \cup resumed
    /\ pending' = pending + Cardinality(resumed)
    /\ status' = [m \in Node |-> IF m \in resumed THEN "queued" ELSE status[m]]
    /\ \E q \in SetToSeqs(resumed) : tasks' = tasks \o Wakeups(q)
    /\ UNCHANGED <<syncVars, ports, blank, away, stalledOn, unvisited, visited, hasItem,
                   queueVars, dataVars, putting, work, chunks, last, thrown>>

\* Stream.cancel(), by the user's code; bound: once until the producer has taken notice.
Cancel(n, p) ==
    /\ InCode(n) /\ ports[p].early
    /\ p \in StreamInputs(n) \ reading[n].default
    /\ p \notin cancels[ports[p].source]
    /\ CancelStreams(n, {p})
    /\ UNCHANGED <<loop, running, at>>

\* StreamCancelled leaves the generator: all of its input streams are cancelled.  A
\* producer that never ran has no generation, whose length the handler asks for.
CancelEscapes(n) ==
    /\ running = n /\ thrown[n] /\ at[n] \in {"begin", "body", "call"}
    /\ at' = [at EXCEPT ![n] = "cancelled"]
    /\ CancelStreams(n, StreamInputs(n))
    /\ IF \E m \in ProducersOf(StreamInputs(n)) : gen[m] = None
         THEN loop' = "error" /\ running' = NoTask
         ELSE UNCHANGED <<loop, running>>

-----------------------------------------------------------------------------
(* A generator: _handle_async_generator_node.                                 *)

\* The next round of its loop: athrow() when a stream was cancelled, else anext().  A new
\* run first forgets the cancellations of the one before.
Round(n) ==
    /\ running = n /\ at[n] \in {"begin", "stream"} /\ ~thrown[n]
    /\ dropped' = IF at[n] = "begin" THEN dropped \ Outputs(n) ELSE dropped
    /\ thrown' = [thrown EXCEPT ![n] = cancels[n] # {}]
    /\ cancels' = [cancels EXCEPT ![n] = {}]
    /\ at' = [at EXCEPT ![n] = IF thrown'[n] /\ @ = "begin" THEN "begin" ELSE "body"]
    /\ UNCHANGED <<tasks, syncVars, ports, blank, loop, running, away, statusVars, bookVars,
                   queueVars, dataVars, putting, work, chunks, latch1, last>>

YieldedInRun(n) == gen[n] # None /\ Len(gen[n]) = 2

\* The barrier's event is set.
PassBarrier(n) == Await(n, "passed") /\ Requeue(n)

CodeYields(n) ==
    /\ InCode(n) /\ n \in Generator
    /\ thrown[n] => n \in Stubborn
    /\ YieldedInRun(n) => chunks[n] < MaxChunks
    /\ PushData(n, 1)
    /\ chunks' = [chunks EXCEPT ![n] = IF YieldedInRun(n) THEN @ + 1 ELSE 1]
    /\ latch1' = [latch1 EXCEPT ![n] = Readers(n, 1)]
    /\ thrown' = [thrown EXCEPT ![n] = FALSE]
    /\ UNCHANGED <<streamVars, away, stitch, defaulted, latch, reading, work, last, cancels>>
    /\ \/ Announce(n)
       \/ StopAtLimit(n)
       \/ /\ ToEnqueue(n) = <<>> /\ ~ReachedLimit(gen'[n])
          /\ PassBarrier(n)
          /\ UNCHANGED <<syncVars, loop, statusVars, bookVars, queueVars, putting>>

ChunkPutsDone(n) ==
    /\ running = n /\ at[n] = "release"
    /\ Len(putting[n]) = 1 /\ Len(gen[n]) = 2
    /\ putting' = [putting EXCEPT ![n] = <<>>]
    /\ PassBarrier(n)
    /\ UNCHANGED <<syncVars, streamVars, loop, away, statusVars, bookVars, queueVars,
                   dataVars, work, chunkVars>>

WaitForNextChunk(n) ==
    /\ running = n /\ at[n] = "passed"
    /\ WaitForStart(n, "stream")
    /\ UNCHANGED <<streamVars, loop, away, dataVars, putting, work, chunkVars>>

\* The generator returns, or was cancelled.
Ends(n) ==
    /\ running = n /\ n \in Generator
    /\ \/ InCode(n) /\ (thrown[n] \/ (MayLeave(n) /\ (YieldedInRun(n) \/ n \in Terse)))
       \/ at[n] = "cancelled"
    /\ Await(n, "end")
    /\ Requeue(n)
    /\ UNCHANGED <<syncVars, streamVars, loop, away, statusVars, bookVars, queueVars,
                   dataVars, putting, work, chunkVars>>

\* Nothing is accumulated: no chunk came, or the last of them was added to another without
\* success, which drops both (NotImplementedError); the next begins anew.
NothingSummed(n) == ~YieldedInRun(n) \/ (n \in Unsummed /\ chunks[n] % 2 = 0)

\* The accumulated chunks become the data of the main generation, None without any.
PushWhole(n) ==
    /\ running = n /\ at[n] = "end"
    /\ PushData(n, 0)
    /\ blank' = IF NothingSummed(n) THEN [blank EXCEPT ![n] = @ \cup {gen'[n]}] ELSE blank
    /\ chunks' = IF YieldedInRun(n) THEN chunks ELSE [chunks EXCEPT ![n] = 0]
    /\ dropped' = dropped \ {p \in Outputs(n) : status[ports[p].node] = "stalled"}
    /\ latch' = [latch EXCEPT ![n] = Readers(n, 0)]
    /\ defaulted' = [defaulted EXCEPT ![n] = {}]
    /\ reading' = [reading EXCEPT ![n] = Nothing]
    /\ thrown' = [thrown EXCEPT ![n] = FALSE]
    /\ UNCHANGED <<ports, away, stitch, work, latch1, last, cancels>>
    /\ Announce(n) \/ AnnounceNobody(n) \/ StopAtLimit(n)

ConsumerTurn(n) ==
    \/ \E p \in Asks(n) : Read(n, p) \/ ReadEnd(n, p) \/ Stall(n, p)
    \/ \E p \in StreamInputs(n) : Cancel(n, p)

GeneratorTurn(n) ==
    \/ Round(n) \/ CodeYields(n) \/ ChunkPutsDone(n) \/ WaitForNextChunk(n)
    \/ CancelEscapes(n) \/ Ends(n) \/ PushWhole(n)

=============================================================================
