--------------------------- MODULE FlowResolution ---------------------------
(***************************************************************************)
(* How a flow of nodes is executed (flow.py, node_base.py): each node is a  *)
(* task of the event loop that waits for its next generation, gathers its  *)
(* inputs, computes, pushes its data and puts its consumers into the       *)
(* resolution queue; the root task of the loop, here Main, takes nodes     *)
(* from that queue, finds the nodes that must run before them and resumes  *)
(* these.  Here is what all nodes share and the nodes whose call is a      *)
(* coroutine; Streams.tla adds the streams and the async generators.       *)
(*                                                                         *)
(* The run queue is FIFO, as in EventLoop.tla, and the resolution queue is *)
(* the AsyncSetQueue of AsyncQueue.tla, with its lock and its conditions:  *)
(* how many turns each operation takes decides what is interleaved.        *)
(* `away' holds the nodes that await something other than the queue: the   *)
(* user's code may await anything, and the lock of an upstream latch.      *)
(***************************************************************************)
EXTENDS SyncPrimitives, FlowGraph

CONSTANTS Main,
          Orders,         \* the orders in which the nodes may be added to the flow
          Slow,           \* the nodes whose code awaits something
          Unfed,          \* the nodes that have an unconnected input without a default
          Limit,          \* stop_at_node_generation: how many main generations, or 0
          queueLock, notEmpty, notFull

ASSUME FlowAssumption ==
    /\ Main \notin Node /\ Task = Node \cup {Main}
    /\ \A o \in Orders : o \in Seq(Node) /\ IsInjective(o) /\ ToSet(o) = Node
    /\ Limit \in Nat /\ Slow \subseteq Node /\ Unfed \subseteq Node
    /\ Lock = {queueLock} /\ Cond = {notEmpty, notFull} /\ notEmpty # notFull

VARIABLES
    loop,      \* "running", or how run_until_complete() ended
    running,   \* the task that the loop has resumed
    at,        \* the await each task is suspended in
    away,      \* the nodes that await something outside of this module
    unvisited, \* Flow.unvisited
    visited,   \* Flow.visited
    active,    \* Flow._active_nodes
    pending,   \* Flow._pending_node_completions
    hasItem,   \* Flow._main_loop_has_item
    items,     \* Flow.resolution_queue.items
    closed,    \* Flow.resolution_queue.closed
    dropped,   \* Flow._cancelled_stream_connections, as ports
    latch,     \* the count of FinalizedNode._barrier0
    reading,   \* the inputs a node gathered: to count down, to default, streams to read
    putting,   \* what a task still has to put into the queue
    work       \* the node that Main took, then the leaves it has still to look at

statusVars == <<status, stalledOn>>
streamVars == <<ports, dropped, blank>>     \* what only Streams.tla changes
bookVars == <<unvisited, visited, active, pending, hasItem>>
queueVars == <<items, closed>>
dataVars == <<gen, stitch, defaulted, latch, reading>>
resolutionVars == <<tasks, syncVars, streamVars, loop, running, at, away, statusVars,
                    bookVars, queueVars, dataVars, putting, work>>

-----------------------------------------------------------------------------

ResolutionTypeOK ==
    /\ SyncTypeOK
    /\ GraphTypeOK
    /\ loop \in {"running", "done", "limit", "error"}
    /\ running \in TaskOrNone
    /\ at \in [Task -> {"idle", "latch", "body", "call", "barrier", "acquire", "notify",
                        "release", "get", "wait", "took", "left", "closed", "resume",
                        "begin", "stream", "stalled", "passed", "cancelled", "end", "dead"}]
    /\ away \subseteq Node
    /\ unvisited \in Seq(Node)
    /\ visited \subseteq Node
    /\ active \subseteq Node
    /\ pending \in Nat
    /\ hasItem \in BOOLEAN
    /\ items \in Seq(Node)
    /\ closed \in BOOLEAN
    /\ dropped \subseteq DOMAIN ports
    /\ latch \in [Node -> Nat]
    /\ reading \in [Node -> [count : SUBSET DOMAIN ports, default : SUBSET DOMAIN ports,
                           open : SUBSET DOMAIN ports]]
    /\ putting \in [Task -> Seq(Node)]
    /\ work \in Seq(Node)

Nothing == [count |-> {}, default |-> {}, open |-> {}]

\* Every node is registered and stands in its first wait; Main starts.
ResolutionInit ==
    /\ SyncInit
    /\ GraphInit
    /\ tasks = <<Wakeup(Main)>>
    /\ loop = "running"
    /\ running = NoTask
    /\ at = [t \in Task |-> "idle"]
    /\ away = {}
    /\ unvisited \in Orders
    /\ visited = {} /\ active = {} /\ pending = 0 /\ hasItem = FALSE
    /\ items = <<>> /\ closed = FALSE
    /\ dropped = {}
    /\ latch = [n \in Node |-> 0]
    /\ reading = [n \in Node |-> Nothing]
    /\ putting = [t \in Task |-> <<>>]
    /\ work = <<>>

-----------------------------------------------------------------------------
(* The loop of EventLoop.tla.                                                 *)

\* Before a task of a node is resumed its status becomes Executing.
Dispatch ==
    /\ loop = "running" /\ running = NoTask
    /\ tasks # <<>>
    /\ LET t == Head(tasks).task IN
         /\ running' = t
         /\ status' = IF t \in Node THEN [status EXCEPT ![t] = "executing"] ELSE status
    /\ tasks' = Tail(tasks)
    /\ UNCHANGED <<stalledOn, syncVars, streamVars, loop, at, away, bookVars, queueVars, dataVars, putting, work>>

\* What a node awaits happens.
Wake(n) ==
    /\ loop = "running" /\ running = NoTask
    /\ n \in away
    /\ away' = away \ {n}
    /\ Requeue(n)
    /\ UNCHANGED <<syncVars, streamVars, loop, running, at, statusVars, bookVars, queueVars, dataVars,
                   putting, work>>

Await(t, place) ==
    /\ running' = NoTask
    /\ at' = [at EXCEPT ![t] = place]

End(how) ==
    /\ loop' = how
    /\ running' = NoTask
    /\ UNCHANGED <<tasks, syncVars, at>>

-----------------------------------------------------------------------------
(* AsyncSetQueue.put(), by a node and by Main, and what each does then.       *)

PutFirst(t, list) ==
    /\ putting' = [putting EXCEPT ![t] = list]
    /\ Await(t, "acquire")
    /\ LockAcquire(t, queueLock)

\* A put() of Main or of a generator that has yielded ends the flow; one of a node that has
\* pushed its final data ends the node's task.
PutFails(t) ==
    IF t \in Node /\ Len(gen[t]) = 1
      THEN Await(t, "dead") /\ UNCHANGED <<tasks, syncVars, loop>>
      ELSE End("error")

PutBody(t) ==
    /\ running = t /\ at[t] = "acquire"
    /\ LET i == Head(putting[t]) IN
       \/ /\ i \in ToSet(items)
          /\ Await(t, "release")
          /\ LockRelease(t, queueLock)
          /\ UNCHANGED <<items, loop>>
       \/ /\ i \notin ToSet(items)
          /\ IF closed                                \* QueueClosedError
               THEN PutFails(t) /\ UNCHANGED items
               ELSE /\ items' = Append(items, i)
                    /\ Await(t, "notify")
                    /\ ConditionNotify(t, notEmpty, FALSE)
                    /\ UNCHANGED loop
    /\ UNCHANGED <<streamVars, away, statusVars, bookVars, closed, dataVars, putting, work>>

PutNotified(t) ==
    /\ running = t /\ at[t] = "notify"
    /\ Await(t, "release")
    /\ LockRelease(t, queueLock)
    /\ UNCHANGED <<streamVars, loop, away, statusVars, bookVars, queueVars, dataVars, putting, work>>

\* putAll: the next item.
PutNext(t) ==
    /\ running = t /\ at[t] = "release"
    /\ Len(putting[t]) > 1
    /\ PutFirst(t, Tail(putting[t]))
    /\ UNCHANGED <<streamVars, loop, away, statusVars, bookVars, queueVars, dataVars, work>>

-----------------------------------------------------------------------------
(* A node.                                                                    *)

\* mutant: does not ask whether Main is still at work
CloseEarly(act, pend) == items = <<>> /\ act = {} /\ pend = 0

\* No more work: nothing is queued, nobody computes, and Main holds no item.
NoMoreWork(act, pend) == items = <<>> /\ act = {} /\ pend = 0 /\ ~hasItem

\* WaitForStartNextGenerationCommand; the node was Executing, because it ran.
WaitForStart(n, place) ==
    /\ Await(n, place)
    /\ status' = [status EXCEPT ![n] = "waiting"]
    /\ active' = active \ {n}
    /\ pending' = pending - 1
    /\ IF NoMoreWork(active', pending')
         THEN closed' = TRUE /\ NotifyAllNowait(notEmpty, notFull)
         ELSE UNCHANGED <<closed, tasks, syncVars>>
    /\ UNCHANGED <<stalledOn, unvisited, visited, hasItem, items>>

\* set_defaulted_inputs, then node.call(): the node stands in the user's code, or before
\* the first anext() of the generator it returned.
Call(n, missing) ==
    /\ defaulted' = [defaulted EXCEPT ![n] = missing]
    /\ stitch' = [p \in DOMAIN ports |-> stitch[p] + (IF p \in missing THEN 1 ELSE 0)]
    /\ at' = [at EXCEPT ![n] = IF n \in Generator THEN "begin" ELSE "body"]
    /\ UNCHANGED running

\* gather_inputs(): an input that is not connected, or whose source has no data, needs a
\* default; without one the node's task ends.  Then the latches of the inputs of run level 0 are counted down, one after the
\* other.
Gather(n) ==
    LET missing == {p \in Inputs(n) : NoData(p)}
        counted == {p \in Inputs(n) \ missing : ~ports[p].stream}
        streams == Inputs(n) \ (missing \cup counted)
    IN
    /\ running = n /\ at[n] = "idle"
    /\ reading' = [reading EXCEPT ![n] = [count |-> counted, default |-> missing,
                                          open |-> streams]]
    /\ IF n \in Unfed \/ \E p \in missing : ~ports[p].default
         THEN Await(n, "dead") /\ UNCHANGED <<away, defaulted, stitch>>
       ELSE IF counted = {}
         THEN Call(n, missing) /\ UNCHANGED away
         ELSE /\ Await(n, "latch")
              /\ away' = away \cup {n}
              /\ UNCHANGED <<defaulted, stitch>>
    /\ UNCHANGED <<tasks, syncVars, streamVars, loop, statusVars, bookVars, queueVars, gen,
                   latch, putting, work>>

\* mutant: counts a latch below zero
OneLess(c) == c - 1

\* count_down(exception_if_zero = True), whose ZeroLatchError is caught
CountedDown(c) == IF c = 0 THEN 0 ELSE c - 1

CountDown(n) ==
    LET p == Min(reading[n].count)
        up == ports[p].source
    IN
    /\ running = n /\ at[n] = "latch"
    /\ reading[n].count # {}
    /\ latch' = [latch EXCEPT ![up] = CountedDown(@)]
    /\ reading' = [reading EXCEPT ![n].count = @ \ {p}]
    /\ Await(n, "latch")
    /\ away' = away \cup {n}
    /\ UNCHANGED <<tasks, syncVars, streamVars, loop, statusVars, bookVars, queueVars, gen,
                   stitch, defaulted, putting, work>>

CalledAfterLatches(n) ==
    /\ running = n /\ at[n] = "latch"
    /\ reading[n].count = {}
    /\ Call(n, reading[n].default)
    /\ UNCHANGED <<tasks, syncVars, streamVars, loop, away, statusVars, bookVars, queueVars,
                   gen, latch, reading, putting, work>>

\* The user's code may await something, ...
InCode(n) == running = n /\ at[n] \in {"body", "call"}

MayLeave(n) == \A p \in reading[n].open : ports[p].early

CodeAwaits(n) ==
    /\ running = n /\ at[n] = "body" /\ n \in Slow
    /\ Await(n, "call")
    /\ away' = away \cup {n}
    /\ UNCHANGED <<tasks, syncVars, streamVars, loop, statusVars, bookVars, queueVars,
                   dataVars, putting, work>>

\* ... return, whereupon a coroutine node passes _barrier0.wait(), whose event is set
\* (CountdownLatch.tla), ...
CodeReturns(n) ==
    /\ InCode(n) /\ n \notin Generator /\ MayLeave(n)
    /\ Await(n, "barrier")
    /\ Requeue(n)
    /\ UNCHANGED <<syncVars, streamVars, loop, away, statusVars, bookVars, queueVars,
                   dataVars, putting, work>>

\* ... or raise: TerminateWithExceptionCommand ends the flow.
CodeRaises(n) ==
    /\ InCode(n)
    /\ End("error")
    /\ status' = [status EXCEPT ![n] = "error"]
    /\ active' = active \ {n}
    /\ UNCHANGED <<streamVars, away, stalledOn, unvisited, visited, pending, hasItem,
                   queueVars, dataVars, putting, work>>

ReachedLimit(g) == Limit > 0 /\ CmpGeneration(g, <<Limit - 1>>) >= 0

\* len(get_output_nodes_by_run_level()): a consumer is listed once for each connection,
\* and all of its inputs are looked at each time.
Readers(n, level) ==
    Cardinality({pq \in Outputs(n) \X Outputs(n) :
                    ports[pq[1]].node = ports[pq[2]].node /\ Level(pq[2]) = level})

\* _enqueue_output_nodes: not the consumers that cancelled their stream, and none into a
\* closed queue.
ToEnqueue(n) ==
    IF closed THEN <<>>
    ELSE Consumers({p \in Outputs(n) :
                       \A q \in Outputs(n) \cap dropped' : ports[q].node # ports[p].node})

\* After new data: the end of the flow at the limit, the first of the consumers into the
\* queue, or what follows when there is none.
Announce(n) ==
    /\ ToEnqueue(n) # <<>> /\ ~ReachedLimit(gen'[n])
    /\ PutFirst(n, ToEnqueue(n))
    /\ UNCHANGED <<loop, statusVars, bookVars, queueVars>>

AnnounceNobody(n) ==
    /\ ToEnqueue(n) = <<>> /\ ~ReachedLimit(gen'[n])
    /\ WaitForStart(n, "idle")
    /\ UNCHANGED <<loop, putting>>

StopAtLimit(n) ==
    /\ ReachedLimit(gen'[n])
    /\ End("limit")
    /\ UNCHANGED <<statusVars, bookVars, queueVars, putting>>

\* push_data and set_count, then the `finally' of evaluate_node.
Push(n) ==
    /\ running = n /\ at[n] = "barrier"
    /\ PushData(n, 0)
    /\ latch' = [latch EXCEPT ![n] = Readers(n, 0)]
    /\ defaulted' = [defaulted EXCEPT ![n] = {}]
    /\ reading' = [reading EXCEPT ![n] = Nothing]
    /\ UNCHANGED <<streamVars, away, stitch, work>>
    /\ Announce(n) \/ AnnounceNobody(n) \/ StopAtLimit(n)

\* The last consumer is in the queue.
PutsDone(n) ==
    /\ running = n /\ at[n] = "release"
    /\ Len(putting[n]) = 1 /\ Len(gen[n]) = 1
    /\ putting' = [putting EXCEPT ![n] = <<>>]
    /\ WaitForStart(n, "idle")
    /\ UNCHANGED <<streamVars, loop, away, dataVars, work>>

-----------------------------------------------------------------------------
(* Main: _node_resolve_loop.                                                  *)

\* The next unvisited node, or the end.  A closed queue is replaced by a new one.
NextUnvisited ==
    IF unvisited = <<>>
      THEN End("done") /\ UNCHANGED <<statusVars, bookVars, queueVars, putting>>
      ELSE LET n == Head(unvisited) IN
           /\ unvisited' = Tail(unvisited)
           /\ IF closed THEN closed' = FALSE /\ items' = <<>> ELSE UNCHANGED queueVars
           /\ IF status[n] = "waiting"
                THEN /\ active' = active \cup {n}
                     /\ status' = [status EXCEPT ![n] = "executing"]
                ELSE UNCHANGED <<active, status>>
           /\ PutFirst(Main, <<n>>)
           /\ UNCHANGED <<loop, stalledOn, visited, pending, hasItem>>

Start ==
    /\ running = Main /\ at[Main] = "idle"
    /\ NextUnvisited
    /\ UNCHANGED <<streamVars, away, dataVars, work>>

\* resolution_queue.get()
Get ==
    /\ hasItem' = FALSE
    /\ Await(Main, "get")
    /\ LockAcquire(Main, queueLock)

FirstGet ==
    /\ running = Main /\ at[Main] = "release"
    /\ putting' = [putting EXCEPT ![Main] = <<>>]
    /\ Get
    /\ UNCHANGED <<streamVars, loop, away, statusVars, unvisited, visited, active, pending, queueVars,
                   dataVars, work>>

GetBody ==
    /\ running = Main /\ at[Main] \in {"get", "wait"}
    /\ \/ /\ items # <<>>
          /\ items' = Tail(items)
          /\ work' = <<Head(items)>>
          /\ hasItem' = TRUE                 \* on_queue_get
          /\ Await(Main, "took")
          /\ ConditionNotify(Main, notFull, FALSE)
       \/ /\ items = <<>> /\ closed
          /\ Await(Main, "closed")
          /\ LockRelease(Main, queueLock)
          /\ UNCHANGED <<items, work, hasItem>>
       \/ /\ items = <<>> /\ ~closed
          /\ Await(Main, "wait")
          /\ ConditionWait(Main, notEmpty)
          /\ UNCHANGED <<items, work, hasItem>>
    /\ UNCHANGED <<streamVars, loop, away, statusVars, unvisited, visited, active, pending, closed,
                   dataVars, putting>>

GotItem ==
    /\ running = Main /\ at[Main] = "took"
    /\ Await(Main, "left")
    /\ LockRelease(Main, queueLock)
    /\ UNCHANGED <<streamVars, loop, away, statusVars, bookVars, queueVars, dataVars, putting, work>>

\* A node that was taken from `unvisited' as the initial node is in neither list: it is
\* registered again when it is first visited, with a new task.
Unregistered(n) == n \notin visited /\ n \notin ToSet(unvisited)

\* mutant: resumes a node that computes
ResumableAny(n) == n \notin ToSet(items)

\* mutant: resumes no node that is stalled
ResumableWaiting(n) ==
    /\ n \notin ToSet(items)
    /\ Unregistered(n) \/ status[n] = "waiting"

Resumable(n) ==
    /\ n \notin ToSet(items)
    /\ Unregistered(n) \/ status[n] \in {"waiting", "stalled"}

\* mutant: counts no completion
ResumeUncounted(n, was, rest) ==
    /\ active' = active \cup {n}
    /\ UNCHANGED <<pending, hasItem, syncVars>>
    /\ tasks' = tasks \o <<Wakeup(n), Wakeup(Main)>>
    /\ Await(Main, "resume")
    /\ work' = rest

\* mutant: counts the completion of a stalled node a second time
ResumeCounted(n, was, rest) ==
    /\ active' = active \cup {n}
    /\ pending' = pending + 1
    /\ UNCHANGED <<hasItem, syncVars>>
    /\ tasks' = tasks \o <<Wakeup(n), Wakeup(Main)>>
    /\ Await(Main, "resume")
    /\ work' = rest

\* ResumeNodesCommand for one node that waits or is stalled; the completion of a node that
\* is stalled is already pending.
Resume(n, was, rest) ==
    /\ active' = active \cup {n}
    /\ pending' = IF was = "waiting" THEN pending + 1 ELSE pending
    /\ UNCHANGED <<hasItem, syncVars>>
    /\ tasks' = tasks \o <<Wakeup(n), Wakeup(Main)>>
    /\ Await(Main, "resume")
    /\ work' = rest

\* The elements of a list that are not in S.
Without(list, S) ==
    LET left == {i \in DOMAIN list : list[i] \notin S} IN
    [k \in 1..Cardinality(left) |-> list[InOrder(left)[k]]]

\* The leaves of a solution from the first on, up to one that is resumed: they become
\* visited, those in the queue and those that do not wait are passed over.
LookAt(list) ==
    LET k == SelectInSeq(list, Resumable)
        looked == IF k = 0 THEN list ELSE SubSeq(list, 1, k)
        registered == [n \in Node |-> IF n \in ToSet(looked) /\ Unregistered(n)
                                        THEN "waiting" ELSE status[n]]
    IN
    /\ unvisited' = Without(unvisited, ToSet(looked))
    /\ visited' = visited \cup ToSet(looked)
    /\ UNCHANGED stalledOn
    /\ IF k = 0
         THEN /\ status' = registered
              /\ work' = <<>>
              /\ Get
              /\ UNCHANGED <<active, pending>>
         ELSE /\ status' = [registered EXCEPT ![list[k]] = "queued"]
              /\ Resume(list[k], registered[list[k]], SubSeq(list, k + 1, Len(list)))

\* _find_node_solution, and the first of its nodes that waits; no solution when a cycle
\* lacks defaults.
Solve ==
    /\ running = Main /\ at[Main] = "left"
    /\ \E leaves \in {LeafSupernodes(Head(work))} :
       IF \E S \in ToSet(leaves) : Candidates(S) = {}
         THEN /\ End("error")                        \* MissingDefaultError
              /\ UNCHANGED <<statusVars, bookVars, work>>
         ELSE /\ \E pick \in [ToSet(leaves) -> Node] :
                   /\ \A S \in ToSet(leaves) : pick[S] \in Candidates(S)
                   /\ LookAt([i \in DOMAIN leaves |-> pick[leaves[i]]])
              /\ UNCHANGED loop
    /\ UNCHANGED <<streamVars, away, queueVars, dataVars, putting>>

NextLeaf ==
    /\ running = Main /\ at[Main] = "resume"
    /\ LookAt(work)
    /\ UNCHANGED <<streamVars, loop, away, queueVars, dataVars, putting>>

\* QueueClosedError leaves the inner loop.
QueueClosed ==
    /\ running = Main /\ at[Main] = "closed"
    /\ NextUnvisited
    /\ UNCHANGED <<streamVars, away, dataVars, work>>

-----------------------------------------------------------------------------

MainTurn == Start \/ FirstGet \/ GetBody \/ GotItem \/ Solve \/ NextLeaf \/ QueueClosed

NodeTurn(n) ==
    \/ Gather(n) \/ CountDown(n) \/ CalledAfterLatches(n)
    \/ CodeAwaits(n) \/ CodeReturns(n) \/ CodeRaises(n)
    \/ Push(n) \/ PutsDone(n)

Turn(t) == PutBody(t) \/ PutNotified(t) \/ PutNext(t)

=============================================================================
