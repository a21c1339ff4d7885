# A TLA+ model of flowno

flowno runs Python coroutines as the nodes of a dataflow graph. It brings its
own single-threaded event loop, its own synchronization primitives and queues,
a resolver that decides which node computes next, a small language for the
definition of flows, and an HTTP client. These modules model that machinery,
TLC checks it on small instances, and TLAPS proves the loop, the primitives, the
latch, the queues, the generations, the definition of flows, the counters, the
streams and the first run of each node of a flow, and the HTTP client for every
number of tasks, locks, events, conditions, items, nodes, templates, chunks and
bytes.

All paths below are relative to the root of the repository; the package is
`src/flowno/`.

## 1. The system: inventory

| Part | State | Operations | What makes it correct |
|---|---|---|---|
| **Event loop** `core/event_loop/event_loop.py` | the run queue `tasks`, the heap of sleepers, the selector's map, `watching_task`, `cancel_waiters`, `pending_cancellation`, `finished`, `exceptions`, `cancelled` | one branch of `_handle_command` for each command, `cancel()`, `create_task()`, `run_until_complete()` | each suspended task is resumed once for what it awaits; joins and cancels behave like futures; nobody starves |
| **Primitives** `core/event_loop/synchronization.py` | `Event._set`, `Lock._owner`; the queues of waiters are the loop's | wait, set, acquire, release, wait, notify, notify_all, and the `*_nowait` methods for command handlers | mutual exclusion, FIFO hand-over, no lost wake-up |
| **Countdown latch** same file | `_count`, an event, a lock | wait, count_down, countdown_nowait, set_count | nobody passes before zero, everybody passes after |
| **Queues** `core/event_loop/queues.py` | `items`, `closed`, a lock and two conditions; the map of an AsyncMapQueue | put, get, peek, close, put_nowait, close_nowait, iteration, `until_empty()` | a bounded FIFO buffer; no operation sleeps beside what it waits for or outlives the close |
| **Task handles** `core/event_loop/tasks.py` | none of their own | cancel, join, is_finished, is_error, is_cancelled | agree with the loop |
| **Generations** `utilities/helpers.py` | none (pure) | cmp, inc, clip, main, stitched | an order in which `inc` raises and a whole follows its parts |
| **Flow** `core/flow/flow.py`, `core/node_base.py` | node statuses, `unvisited`, `visited`, `_active_nodes`, `_pending_node_completions`, the resolution queue, data and generations of the nodes, stitch levels, latches | `_node_resolve_loop`, `_find_node_solution`, `evaluate_node`, and the commands Wait-, Resume-, Terminate- of `FlowEventLoop` | every node runs on fresh data, and the flow ends when there is no more work |
| **Streams** same files | `_stream_consumer_state`, stalled nodes, `_cancelled_streams` | check, wait, cancel of a stream; async generator nodes | each chunk is read once, in order; a stalled consumer wakes |
| **Flow description** `core/flow_hdl.py`, `flow_hdl_view.py`, `group_node.py`, `node_base.py` | the names of a `with FlowHDL()`, drafts of nodes, connections kept at both ends | attribute access, use of templates, finalization | each forward reference becomes the node it names, templates vanish |
| **Sockets** `core/event_loop/selectors.py` | one global selector, what a TLS object has decrypted | send, recv, accept | bytes arrive in order, in pieces of any length |
| **HTTP** `io/` | buffers | request, chunked body, server-sent events | pieces are put together, whatever their cuts |

Who calls whom: user code yields *commands* (`commands.py`, `primitives.py`) to
the loop; the primitives are coroutines made of commands; the queues and the
latch are coroutines made of primitives; sockets and the HTTP client are
coroutines that await the selector. A flow is a subclass of the loop with more
commands. Its root task, the resolver (`Main` in the models), takes nodes from a
resolution queue and resumes the nodes that must run before them; the tasks of
the nodes put their consumers into that queue. Command handlers of the flow
call the `*_nowait` methods of queue and latch, between any two steps of the
tasks. `FlowHDL` builds the graph that a flow runs. There is one thread; only
`create_task()` is called from others.

What is hard here: the order in which the turns of the tasks interleave (an
operation of a queue takes three or four turns), cancellation at any await,
state that is tested in one turn and used in a later one (a solution of the
resolver, a notify), the counters that decide that a flow is over, connections
that are kept twice and rewired in four loops, reads that cut messages anywhere,
and hangs, which nothing in the loop detects: it then sleeps in `select()`.
Nothing is persisted, and TCP neither loses nor reorders, so a connection that
closes is the one fault there is. The list of hazards in `PROJECT.json` names
the line at which each of these bites and the properties that watch it.

## 2. The modules

| Module | Models |
|---|---|
| `SyncPrimitives` | Event, Lock, Condition with the handlers that implement them, and their `*_nowait` methods: operators on the run queue and the waiters' queues |
| `EventLoop` | the loop, for arbitrary programs: a task in its turn may cancel others, then yields any command, returns or raises |
| `Futures` | abstract: what a join or a cancel promises |
| `EventLoopFutures` | the refinement mapping from `EventLoop` to `Futures` |
| `AsyncQueue` | AsyncQueue, AsyncSetQueue, AsyncMapQueue and `until_empty()`: an action for each stretch of an operation between two awaits |
| `BoundedQueue` | abstract: a linearizable bounded FIFO buffer |
| `CountdownLatch` | the latch, in the same style |
| `Generations` | generations as tuples or None, and their operators |
| `FlowGraph` | the graph of a flow, what is stale in it, the solver |
| `FlowResolution` | the resolver and the tasks of nodes whose call is a coroutine |
| `Streams` | streaming inputs and nodes whose call is an async generator |
| `Flow` | their composition, and the properties of a flow |
| `FlowHDL` | the definition of a flow: names, forward references, templates, finalization |
| `Sockets` | one connection, plain or TLS, as the tasks see it |
| `Http` | one call of the HTTP client and the server at the other end, over `Sockets` |
| `MC*` | instances for TLC |
| `SyncPrimitivesProofs` | lemmas about the primitives: each handler keeps their types and the two rules about waiters, and moves tasks between the places where they can wait |
| `EventLoopProofs` | theorems about the loop, with cancellations at any moment and with cancellations of parked tasks; the loop implements `Futures` |
| `CountdownLatchProofs`, `AsyncQueueProofs` | theorems about the latch; about the contents of the queues, their lock and their wake-ups |
| `SequenceProofs` | lemmas that need no model: what a recursion over an interval defines exists, induction up to n, the concatenation of a list of sequences |
| `FlowProofs` | theorems about the operators on generations, and about a flow of any number of nodes, connected in any way; the last section is about who is asked for |
| `FlowHDLProofs` | theorems about the definition of a flow, for every program |
| `HttpProofs` | theorems about a call of the client, for every exchange and every size of a `recv()` |

`EventLoop`, `AsyncQueue`, `CountdownLatch` and `FlowResolution` each EXTEND
`SyncPrimitives`, so all of them use one model of locks and conditions and one
FIFO run queue. `Flow` EXTENDS `Streams`, which EXTENDS `FlowResolution`, which
EXTENDS `FlowGraph` and, through it, `Generations`.

### State and actions

* `EventLoop`: the variables are the fields of `EventLoop.__init__`. `Dispatch`
  is one round of the loop body (pop a packet, send or throw); each `...Command`
  action is the branch of that name; `Finish` and `Fail` are the three `except`
  branches. The coroutine is external: `at` is the await in which it is
  suspended, `inside` the `async with` block it stands in, `caught` the
  exceptions it was thrown. An exception that cuts a `Condition.wait()` short is
  raised in the block, without the lock: the code may catch it and go on there with
  any command, and is `lockless` until it leaves the block. Sleepers and sockets become ready at any time. An
  assertion or an exception in a handler ends the loop (`loop = "raised"`).
* `AsyncQueue`: `call` is the operation of each task, `pc` its await, `reply`
  how it will end. `PutBody`, `GetBody`, `PeekBody`, `CloseBody` are the bodies
  of the `async with` block from the acquire or the wait to the next await;
  `LeaveBlock` is `__aexit__`. `PutNowait` and `CloseNowait` may happen whenever
  no task is in its turn, as command handlers do. `Cancel` is `cancel()` of a
  task that waits in the queue. `variant` fixes the class of the queue, its
  maxsize and who calls what. Of the map, `causes` keeps how many causes each
  key has. `BeginUntilEmpty` and the steps after it are the iterator
  `until_empty()`, which closes the queue that it has emptied.
* `Generations` says what each operator computes by a condition, where
  `helpers.py` goes through the positions: `IncGeneration` is the lowest
  generation of the level above the old one, `ClipGeneration` the highest that
  is not above it.
* `FlowGraph`, `FlowResolution`: a connected input port is an index into
  `ports`. The run queue is FIFO and the operations of the resolution queue take
  as many turns as in the code, because what interleaves depends on it. `Start`,
  `FirstGet`, `GetBody`, `GotItem`, `Solve`, `NextLeaf`, `QueueClosed` are
  `_node_resolve_loop` from await to await; `Gather`, `CountDown`,
  `CalledAfterLatches`, `Returned`, `Push`, `PutsDone` are `evaluate_node`.
  `away` holds the nodes that await what is outside of the module: user code,
  and the lock inside an upstream latch (any number of turns). Strongly
  connected components are defined by reachability, and the leaves of the
  condensed graph in the order of `_find_leaf_supernodes`; the node that breaks
  a cycle is any candidate, because the code iterates over a `set`. A node
  that was popped as the initial node is registered a second time, as
  `_mark_node_as_visited` does.
* `Streams`: `last` is `StreamConsumerState.last_consumed_generation`, `chunks`
  the number of chunks that a producer has of its latest run, `cancels` the
  cancelled streams that it has not been told of, `thrown` a generator that was
  resumed with `athrow()`. `Read`, `ReadEnd`, `Stall` are the outcomes of
  `Stream.__anext__` and its commands; `Cancel` is `StreamCancelCommand`, and
  `CancelEscapes` the same for all inputs of a generator that is cancelled
  itself. `Round`, `CodeYields`, `ChunkPutsDone`, `WaitForNextChunk`, `Ends`,
  `PushWhole` are the loop over an async generator. The stream commands put
  their task in front of the run queue, so a command and what follows it are one
  step. User code reads its streams in any order, awaits something, returns,
  raises, or (on a port that is `early`) cancels a stream or returns before its
  end.
* `FlowHDL`: a state is a program that was written so far. `DefineNode`,
  `KeepOutput`, `CallTemplate`, `ReturnFromTemplate` are its statements, in the
  innermost view; `Exit` and `ReturnFromTemplate` finalize that view in the
  phases of `_finalize`: group calls are followed to their results, placeholders
  become nodes, groups are bypassed, constants and nodes are added to the flow.
  `draft` is what the code builds (ports, wires, the consumers of each output);
  `scope`, `written` and `returned` are the program text, which only the
  properties look at.
* `Sockets`, `Http`: a byte is a unit: `"head"` stands for the status line and
  the headers, `"end"` for the empty line after them; sizes, CR and LF are units
  of their own. `Receivable` are the outcomes of one `recv()`: any prefix up to
  `BufSize`, a whole record and what the TLS object keeps, or nothing at the
  end. `SendRequest`, `ReceiveHeaders`, `ReceiveRemainder`, `StreamRead`,
  `Resumed` are `HttpClient` from await to await or yield; `Accept`,
  `ServerReceives`, `ServerSends` are `HttpServer` and `sendAll()`. A server
  other than flowno's own may use any framing and hang up at any moment.

## 3. What the runs check

Each property has a mutant, a plausible bug in a definition that models code,
with which the same run fails.

| Run | Shows |
|---|---|
| `loop_core` | three tasks that spawn, join, sleep, use a socket, an event, a lock and its condition, and cancel tasks that wait in one of these. `OnePlace`: the loop will resume each suspended task from exactly one place. `InsideOwns`, `OwnerWillRelease`, `NoWaiterOnFreeLock`, `FifoHandOver`: whoever is inside a block owns its lock exactly when no exception has cut a `wait()` of it short there (see `bug_caught_wait`), a lock is never left to a task that will not release it, nor free while tasks queue, and passes in order. `ImplementsFutures`: joins and cancels refine `Futures` |
| `loop_any_cancel` | two tasks with every command, cancellation at any moment, `create_task()` from another thread, `exit()`. What survives the stale wake-ups of such cancellations: `NothingLeftBehind`, `NoWaiterOnSetEvent`; and, under fairness, `QueuedIsServed` and `FirstCancelReaches`: every packet is delivered, and the first cancellation of a task arrives (later ones: `bug_second_cancel`) |
| `queue` | four variants: an AsyncQueue with a limit, an AsyncSetQueue as the flow uses it (with `peek`, the `*_nowait` calls and cancelled operations), an AsyncMapQueue, and a queue that several tasks drain with `until_empty()`. `OwnsInside`: the assertions that end the loop never fail. `NoGetterForgotten`, `NoPutterForgotten`: nobody sleeps beside what it waits for. `EachItemOnce`, `MapAgrees`: two tests in two places keep the set, and the map agrees with the queue although they change at different moments. `ImplementsBoundedQueue`: every operation takes effect in one moment. Under fairness no operation outlives the close (`ClosedEndsCalls`) or starves on the lock (`LockServed`) |
| `latch` | a latch that is armed only while it is closed: `PassesAtZero`, and `WaitEnds` under fairness |
| `flow` | every flow of at most two connections between three nodes and every one of three connections without a self-loop, each port with or without a default, in each order of registration, with nodes that compute at once, await, or raise. `EveryNodeRuns`, `RunsOnce` (acyclic flows), `InputsAreFresh`, and `FlowEnds` under fairness: the resolver hangs in none of them |
| `streams` | six flows with generators: one reader that may leave early; a reader beside a node that takes the whole, in both orders; a generator that reads a generator; a node with two streams; a cycle through a stream. `NoConsumerForgotten`: nobody is stalled beside a chunk or an end. `ChunksInOrder`: each chunk read is the one that is due, the first of the first run to begin with, or the first of a later run of the producer (with a second reader: `bug_skipped`). `EveryChunkRead`: whoever returns after the end of its stream does not stop before its last chunk; it looks at the last chunk that was read only, those before it are what `ChunksInOrder` is about. `CountersExact`: the two counters that decide when the queue is closed agree with what the nodes do. `FlowEnds` as above |
| `hdl` | every program of four families (below). `SymmetricWiring`: ports and consumer lists tell of the same connections. `MeansWhatItSays`: each port is connected to the node that the program says, through whatever forward references and templates. `NodesAddedOnce`: the flow holds each node that the program makes, and each constant that a literal becomes, once, and no group. `RefusesForAReason`: a definition is refused only when an argument is missing, its name is not assigned in its own view, or holds an output reference although it was used before its assignment (`bug_forward_output`) |
| `http` | calls of each kind against answers of each framing, cut in every way. `BodyIsWhatWasSent`: a body that is returned as a whole (`ReadsBody`: by `request()`, or by `stream_request()` with an error) is what the server sent, all of it unless the server broke off. `NothingSkipped`: what a stream has yielded, what it holds and what is still to come make up the answer. `ChunksAsSent`: what a stream has yielded, also when it has ended or raised, are the chunks of the server, whole and in order. `MessagesAsSent`: the messages do not depend on how events were cut into chunks. `CallEnds` under fairness |

Four runs find a statement of the repository violated by what the code does:

| Run | Statement, and what happens |
|---|---|
| `bug_stale_join` | `MutualExclusion`: "only one task can hold the lock at a time" (`synchronization.py:182`). `cancel()` leaves a joiner in `watching_task`; the end of the joined task resumes it once more, out of whatever it awaits by then, even out of `acquire()` |
| `bug_left` | `FlowEnds`: "runs until all nodes have completed or a termination condition ... is met" (`flow.py:917`). One node takes the whole of a generator, another leaves the stream of that generator after a chunk. The request of the first is solved to the generator, which still puts the consumers of the chunk and so is Executing: it is passed over (`flow.py:1053`). Only readers of the stream ask for the generator again, and the one there is has left: all sleep, the queue is never closed, and `run_until_complete()` does not return |
| `bug_capture` | `MeansWhatItSays`: a template leaves "no trace at runtime" (`groups.rst:16`). The names of a finished template are merged into those of the flow around it and win: a forward reference `f.n1` of the flow is connected to the `n1` of the template |
| `bug_chunks` | `EveryChunk`: "we need to start reading chunks from initial body then continuing to read from socket" (`http_client.py:888`). Each round begins with a `recv()`: chunks that came with the headers or with the chunk before, from a server that then closes, are dropped without an exception |

Sixteen more configurations show, in the same way, disagreements of less weight or
with the same cause as one above:

| Configuration | Module, property | What happens |
|---|---|---|
| `bug_two_paths` | `MCFlow`, `SameNumberOfRuns` | "all nodes evaluate the same number of times" (`flowno_resolution_internals.rst:307`): a node that is needed along two paths is twice in the solution (`flow.py:1261`); with four other leaves between the two it has run, and waits again, when the resolver comes to it the second time |
| `bug_peek` | `MCAsyncQueue`, `NobodyForgotten` | the notify of a `put()` wakes a `peek()`, which takes nothing and passes nothing on: a getter sleeps beside an item (`queues.py:153`, :196) |
| `bug_latch` | `MCCountdownLatch`, `PassesAtZero` | `set_count()` leaves the event set, so a latch that is armed when it is open does not close (`synchronization.py:559`) |
| `bug_lockstep` | `MCSmallFlows`, `Lockstep` | "Wait for the last output data to have been read before overwriting" (`flow.py:520`): because of `bug_latch` the barrier never blocks |
| `bug_rerun` | `MCSmallFlows`, `RunsOnce` | "multiple consumers of the same streaming source each execute exactly once" (`tests/test_multiple_consumer_execution.py:3`): the final data of a generator puts its consumers into the queue once more, although they run already; when one of two readers has ended by then, the producer and the whole flow run again (`flow.py:839`) |
| `bug_dropped` | `MCSmallFlows`, `NobodyIsReady` | the request of a node that is still Executing is dropped: with `f.p = P(f.p)` before `f.q = Q(f.p)` the flow ends after one generation (`key_concepts.rst:11`) |
| `bug_stubborn` | `MCSmallFlows`, `NoConsumerForgotten` | a generator that catches `StreamCancelled` and yields on is never asked again: its later readers sleep for ever |
| `bug_asleep` | `MCSmallFlows`, `FlowEnds` | as `bug_left`, where the reader cancels its stream: the generator is resumed "so it can clean up" (`tests/test_stream_cancellation.py:808`), awaits while it does, and the request for its whole is passed over meanwhile. Its end does not ask for a reader that has left (`flow.py:839`). Without an await in the cleanup the flow ends |
| `bug_any_order` | `MCFlowHDL`, `AnyOrder` | a placeholder that is passed into a template is refused, or captured by a name of the template (`flowno_resolution_internals.rst:116`) |
| `bug_kept_output` | `MCFlowHDL`, `SymmetricWiring` | the stored output of a group, used twice, is entered into the wrong list of consumers |
| `bug_forward_output` | `MCFlowHDL`, `AnyOrder` | the same claim: a name that holds an output reference (`f.x2 = f.x1.output(0)`) can be used after its assignment and not before (`flow_hdl_view.py:271`) |
| `bug_orphan` | `MCFlowHDL`, `NoTraceOfTemplates` | "leaving no trace of the template at runtime" (`groups.rst:16`): a literal argument of a template becomes a `Constant` that feeds the group (`node_base.py:277`); the group is dropped from its consumers (`flow_hdl_view.py:224`), and the constant stays and is executed. The template gets the literal itself, so `IncTwice(1)` of that page runs two constants |
| `bug_skipped` | `MCSmallFlows`, `ChunksInOrder` | "All consumers should receive all chunks" (`tests/test_streaming.py:661`): of two readers the slower one finds the producer in the next run (`bug_rerun`), and the reset of its stream hands it the latest chunk, not the first (`flow.py:1441`) |
| `bug_caught_wait` | `MCEventLoop`, `MutualExclusion`, `AssertionsHold` | `synchronization.py:182` again, with cancellations of parked tasks only: a task cancelled in `Condition.wait()` gets the exception in its block without the lock (`event_loop.py:664`, :758); when it catches it there, another is in a block of that lock too. And when it calls `notify()` or `wait()` there, the assertion that the caller holds the lock (`event_loop.py:687`, :703) ends the whole loop: TLC reports `AssertionsHold` when `MutualExclusion` is taken out of the configuration |
| `bug_second_cancel` | `MCEventLoop`, `EveryCancelReaches` | "the task will receive a TaskCancelled exception" (`tasks.py:87`): a task that has caught one cancellation stays marked to its end, so a later `cancel()` returns True and sends nothing (`event_loop.py:781`) |
| `bug_done` | `MCHttp`, `DoneEnds` | "until I receive a message that is just '[DONE]' or chunk size 0" (`http_client.py:672`): on a connection that stays open a stream ends with neither |

### Bounds, and why they are enough

* Tasks: three where a lock changes hands past a waiter (owner, first, second
  in the queue), two where every command is allowed. One lock, condition, event
  and socket: the handlers treat each of them alone. `loop_core` cancels only
  tasks that are parked (`CancelParkedOnly`): with other cancellations its
  properties fail, which is `bug_stale_join`; `loop_any_cancel` drops the limit.
* Programs are not bounded in length: each task yields any command for ever.
  Tasks are a finite set, so a task is spawned at most once.
* Queue: two items; a limit of 2 gives full, partly full and empty, one of 1
  makes `until_empty()` meet waiting putters; three tasks give two sleepers and
  one that acts. The set has two callers besides the handlers, and a `max` that
  its items cannot fill, as `maxsize = None`. `MaxCauses = 2`: a cause that
  makes a key and one that is added to it.
* Latch: counts up to 3 with three tasks, so the last decrement meets others.
* Flow: `Limit = 3` stops a flow when a node makes its third generation (so
  each cycle goes around twice); three nodes give chains, forks, joins,
  triangles, cycles of two and three nodes with a further consumer, and
  self-loops. No two connections join the same two nodes. Flows that differ in
  the names of the nodes only are checked once.
* Streams: `MaxChunks = 3` chunks in each run of a generator: a first, a last
  and one between. One connection for each pair of nodes. In `Pipeline` only
  the last reader leaves early, and the first generator computes at once: a
  slow one brings in the second run that `bug_rerun` shows. No generator
  returns without a chunk (`Terse = {}`) and none catches `StreamCancelled`
  (`Stubborn = {}`), all chunks can be added up (`Unsummed = {}`) and all ports
  without a default are connected (`Unfed = {}`); what these do is said in
  section 5. A generator has one reader: `bug_skipped` and `bug_rerun` add a second.
* `FlowHDL`: `Plain` has three nodes of up to two arguments with values, unset
  and defaulted ports and stored outputs; `Again` assigns names again; `Nested`
  has templates in templates; `Wide` templates of two arguments. Views have
  names of their own and the programs in `Uses` are left out; `bug_capture`,
  `bug_any_order` and `bug_kept_output` add these. `bug_forward_output` and
  `bug_orphan` are programs of these families. The names x1, x2, x3 are
  interchangeable in every family that uses all of them, so the symmetry is sound.
* Http: `BufSize = 6` units where the code asks for 1024 bytes, and chunks of up
  to three pieces: one read may hold parts of two chunks, and a chunk, its CRLFs
  and its terminator may each take several reads. Sizes are one unit and go up to
  three (`Size`, `ExchangeAssumption`), so a size
  line is cut only before its CRLF and within it. A JSON message is cut between
  tokens only. `bug_chunks` uses 20, more than the whole answer.
* The reachable deadlocks are programs that really stop (all tasks over, a flow
  that ended, tasks that wait for ever), so `CHECK_DEADLOCK` is off; hangs of
  the queues, of the flow and of the client are what their liveness properties
  exclude.

### Fairness

The loop is one thread that keeps running: weak fairness of `Dispatch` and of
the turn of the running task (a task that never yields hangs everything, which
is outside of the model); in `Flow` both are `LoopStep`. The clock advances:
strong fairness of each sleeper. What the code of a node awaits happens in the
end: strong fairness of `Arrives`. Whoever counts a latch down keeps doing so.
In `Http` the loop resumes a task whose socket is ready: weak fairness of
`Client` and of `Server`. Nothing makes a server hang up, so `CallEnds` promises
an end only after it has, or when the answer has a length. No fairness makes a
program issue a command, call an operation, cancel or end.

## 4. What is proved

`tlapm` checks these for every value of the constants that the modules' named
assumptions allow: `SyncAssumption` (finitely many tasks, each condition built
with a lock), `LoopAssumption`, `QueueAssumption` (`put_nowait` is a method of
AsyncSetQueue, a key has at least one cause), `LatchAssumption`, and for a flow
`GraphAssumption` (finitely many nodes), `FlowAssumption` (the tasks are the
nodes and the root task; each node is added to the flow once) and
`StreamAssumption`, for a program that defines a flow `HDLAssumption` (the
bounds of a family are any numbers), and for a call `SocketAssumption` (a `recv()` asks for at
least one byte) and `ExchangeAssumption` (chunks of at most three units, as far
as `Size` writes numbers; any number of chunks, any body, any post).

| Theorem | States | Hypothesis |
|---|---|---|
| `TypeCorrect` | `TypeOK` of the loop | |
| `FreeLockHasNoQueue`, `SetEventHasNoWaiter` | `NoWaiterOnFreeLock`, `NoWaiterOnSetEvent` | |
| `LocksAreFifo` | `FifoHandOver` | |
| `JoinersAreAnswered` | `NothingLeftBehind` | |
| `CancellersAreWatchers` | `CancellersWatch`: whoever waits in `cancel()` is found by the loop that wakes the watchers | |
| `EveryTaskHasOnePlace` | `OnePlace` | `CancelParkedOnly` |
| `SectionsAreOwned`, `BlocksExclude` | `InsideOwns`; `OwnersExclude`: two tasks are not in blocks of one lock, unless one of them is `lockless` | `CancelParkedOnly` |
| `OwnersWillRelease` | `OwnerWillRelease` | `CancelParkedOnly` |
| `LoopImplementsFutures` | `ImplementsFutures` | `CancelParkedOnly`, no `exit()` |
| `LatchTypes`, `NobodyPassesEarly` | `TypeOK` of the latch, `PassesAtZero` | `~ArmAnyTime` |
| `QueueTypes` | `TypeOK` of the queues | |
| `InsideOwnsTheLock` | `OwnsInside` | |
| `ItemsOnce` | `EachItemOnce` | `SetUnbounded` |
| `GettersServed` | `NoGetterForgotten` | |
| `PuttersServed` | `NoPutterForgotten` | `SetUnbounded` |
| `MapKeepsUp` | `MapAgrees` | |
| `QueueImplements` | `ImplementsBoundedQueue` | `SetUnbounded` |
| `FlowTypes` | `TypeOK` of a flow | |
| `CountersAgree` | `CountersExact` | |
| `ReadsInOrder` | `NextOrLatest`: a reader gets the chunk that is due, or the latest of a later run. Nothing is left out or read twice within a run; that a later run may be entered behind its first chunk is `bug_skipped` | |
| `EveryNodeHasRun` | `EveryNodeRuns` | `Forward` |
| `NodesAreAddedOnce` | `NodesAddedOnce` | |
| `WiringIsSymmetric` | `SymmetricWiring` | `Direct` |
| `HttpTypeCorrect` | `TypeOK` of a call | |
| `BodiesArrive` | `BodyIsWhatWasSent` | |
| `StreamsSkipNothing` | `NothingSkipped` | |
| `StreamsYieldWhatWasSent` | `ChunksAsSent` | |
| `MessagesArrive` | `MessagesAsSent` | `EventsEnd` |
| `OrderIsTotal` | `CmpGeneration` is a total order, `None` included | |
| `IncIsLeastAbove` | "the minimal generation greater than gen" of a run level (`helpers.py:85`) | not the empty tuple |
| `ClipIsGreatestBelow` | the "highest generation ... less than or equal to gen" that fits the run level (`helpers.py:138`) | |
| `StitchKeepsOrder` | a stitch changes no comparison | |

### The hypotheses

They are those under which the runs check the same properties, and the code is
wrong without them, but for `Forward`:

* `CancelParkedOnly`: a program cancels only tasks that sleep or wait for a
  socket, an event, a lock or a condition. `bug_stale_join` has the program
  that breaks mutual exclusion without it. It does not keep a program from catching
  a cancellation of `wait()` in its block: that is a part of the model, and why
  `InsideOwns` and `OwnersExclude` speak of `lockless` tasks. The first six theorems do not need it.
* no `exit()`: it raises `ExitLoop` out of the loop and leaves every join
  unanswered, on purpose.
* `~ArmAnyTime`: a latch is armed only while it is closed (`bug_latch`).
* `SetUnbounded`: an AsyncSetQueue has room for all items. flowno builds its sets
  without a `maxsize`; with one a duplicate may get in (section 5).
* `Direct`: no output of a group is kept under a name. A kept output is one
  reference, and each port that it is passed to shares it; the redirection of
  the first moves the reference and with it the others, whose node then stays
  in the list of consumers of the group (`bug_kept_output`). Outputs of nodes
  may be kept and shared, and groups passed to any number of calls.
* `Forward`: nobody takes the whole of a generator that it feeds, directly or through
  others: there is a set of nodes that get nothing from outside of it, with the
  generator in it and the reader not. Every flow without a cycle is of this kind,
  every flow without generators, every flow whose generators are read as streams
  only, and all flows of the runs `flow` and `streams`. This one is needed by the
  argument; no flow is known that violates the property without it (TLC finds
  none with two connections between three nodes).
* `EventsEnd`: events come with a good status and in chunks, and no event ends
  after the end mark. The code stops at the mark for one chunk only and goes on
  with the next, so what it makes of later events depends on the cuts; and
  events of an answer with an error are not split at all. All streams of
  events in `MCHttp` are of this kind.

### The arguments

*Primitives.* `SyncInv` joins the types of the primitives with
`NoWaiterOnFreeLock` and `NoWaiterOnSetEvent`. None is inductive alone: a release
takes the head of a queue, which must be well typed, and an acquire of a free
lock must find no queue that it would overtake. One lemma for each handler shows
that it keeps `SyncInv`, and one that it keeps `Apart`: a task stands in at most
one of the run queue, the queues of the locks, and the sets of waiters of
conditions and events, and once in that. Both hold in every module that
EXTENDS `SyncPrimitives`, and its proofs begin with them.

*Loop.* `TypeInv` adds the loop's own types. `JoinInv` adds `ClosedIsDone` (a
coroutine that has ended has an entry in `finished` or `exceptions`), without
which a join could be registered with a task that is over. `LoopInv` is for
programs that cancel parked tasks; while the loop runs it says, beside `Apart`:
`WaitsApart`, the same for sleepers, sockets and joins; `Placed`, a task is in
no place exactly when it runs or has no coroutine; `Homes`, which await belongs
to which place and lock; `Letters`, what kind of packet a task can find in each
await, and that a wake-up out of `acquire()` or `wait()` comes with the lock and
a cancellation without it; `Owners`, whoever is in a block and not `lockless` has its lock, and
whoever has a lock is in its block or is about to be resumed there. `OnePlace`
follows from the first four, the rest from `Owners` and `Letters`. An exception
in a handler stops the loop, and the last conjuncts of `LoopInv` are the
properties in that state.

*Futures.* `OutcomeInv` adds that no task joins itself and that a cancellation in
the hands of a task is its own or that of a task that is over (`Known`): that
is why an answer that says `cancelled` is never taken for the cancellation of the
task that asked. Each step of the loop then is a step of `Futures` or invisible.

*Latch.* `LatchInv` relates the event to the counter (`OpenAtZero`), and a
packet for a task in `wait()` to an event that was set (`WokenBySet`).

*Queues.* `CallsInv` has the places again, what is decided of a call at each
await (`Phases`), and why an item is in the queue once. For a set with room for
all, no `put()` ever waits, so the duplicate it looks for is looked for in the
stretch that appends (`SetOnce`). For a map, a key is in the queue, or carried
by one call, or has no causes (`MapOnce`). `QueueImplements` shows for each
stretch between two awaits which step of `BoundedQueue` it is. `HoldInv` adds
who has the lock: the argument is the one of the loop, and here it needs no
hypothesis, because only tasks that wait in the queue are cancelled. `WakeInv`
counts: while somebody sleeps in `get()`, at least as many getters are on
their way to look as there are items (`GettersSuffice`), and the same for
putters and room. A `notify()` per item keeps the inequality; a getter that
leaves with an item takes one from both sides. `NoGetterForgotten` is the case
in which nobody is on the way. `KeysInv` is the other half of `MapOnce`: where
nobody is cancelled a block that ends has decided its call, so a key with causes
is in the queue or carried by a call, and `MapAgrees` is the two together.

*Generations.* All four operators compare tuples of any length, by the first
position at which they differ (`LeastDifference`).

*Flow.* `CountersExact` speaks of statuses, and a status is changed by the
handler of one task while another runs: nothing in it says that the node whose
completion is taken off was counted. The inductive invariant `Inv` therefore ties
the statuses to the places: a node that is queued, waits for the lock of the
resolution queue, awaits something outside or runs (`Busy`) is in flight and
visited, so a node whose status is "waiting" or "stalled" is nowhere, and a
handler that resumes it puts no task into the run queue twice. `Books` joins this
with the two counters and with what `unvisited` means: a node in that list was
never visited and waits. One path would break it. A cancelled stream resumes
its producer without marking it as visited (`CancelStreams`), so `Marks` says what
a reader knows: it gathered its inputs, and each of them had data or was
defaulted; a producer with data has been visited. An exception that leaves a
generator cancels the defaulted streams too, and there the handler asks for the
length of a generation that is None and ends the loop before anything is wrong
(`CancelEscapes`). `Marks` also keeps `putting` and `work` from being empty where
their head is taken. The lists that the resolver builds are typed by lemmas about
`InOrder`, `Without` and `LeafSupernodes`, whose recursion is bounded by the
number of nodes; that what such a recursion defines exists is `RecursionExists`.
`ReadsInOrder` needs of `Inv` only the types and `FirstRises`: a producer that has
restarted is in a run above the one that the chunk that is due belongs to, and its
latest data are a chunk of that run.

*Every node runs.* A node that never ran has asked for what it needs, but its
request is solved to others, dropped when one of these is at work, and made again
when data come, so the argument follows no request. `Served` speaks of sets: when
the members of a set never ran, and each of them computes or has stale inputs from
within the set only (`Starved`), one of them is asked for (`Asked`: it is in the
queue, in a solution, about to be put, or counted), or all are still in
`unvisited`. What a solution takes out of the queue it replaces: the leaves found
from a member of a starved set are in that set (`LeavesWithin`), and each of them is
resumed, or in the queue or at work already (`LookAtServes`). What a push does to
it is to make inputs fresh, so that a set is starved which was not; but then the
push was what a member waited for, and its consumers are put (`PushedServes`), but
for readers that cancelled, and these compute or have run (`DroppedHold`). A
queue that is closed has nobody who is asked for (`ClosedIsIdle`). It remains that a
node which never ran is in a starved set at the end. That is not obvious: whoever
waits for the whole of a generator that has yielded chunks waits for a node with
data. `LeavesStarve` says it of every node that was a leaf of a solution, and each
visited one was. It is true when the leaf is found, because its component
depends on no other (`KnotOfLeaf`). `LeavesAreLeaves` shows that the search, which
stops after as many steps as there are nodes, ends at such components only: each
step goes to one from which fewer nodes can be reached. It stays true because
within the component nobody takes the whole of a generator (`Knot`): the first
chunk makes the inputs of its readers fresh, and the set without the
generator is starved again. `Knot` is what `Forward` is for. `Serving` joins these with
what the tasks hold meanwhile; TLC checked it on the flows of the runs before it
was proved.

*Flow definitions.* The finalization is folds over lists of drafts and ports.
A fold is a function of the set of positions it has gone through; that this
function exists is `FoldExists`, and one lemma for each fold names its state
after each position (`Runs`), so the proof goes on as for a loop: a loop
invariant, and what it says at the end. `NodesInv` is for `NodesAreAddedOnce`: drafts
are numbered in the order of their definition, and each one that is no group is
in exactly one place: in the list of the open view it was defined in, or in the
flow, where the end of that view puts it (`InOnePlace`, `InSomePlace`). `WiringInv` is for `WiringIsSymmetric`. `Symmetric` counts, for
each node and each draft, the ports of the one and the entries in the list
of the other; it is not kept by a redirection, unless the reference that moves is
used by one port only. So `Unshared` says that two ports share a reference to
nothing but a node. `ReturnsOK` says that the groups which have returned can be
ranked, so that each returned something of lower rank; then `Target`, which
follows them for as many steps as there are drafts, ends at a node, and a
redirection never goes to a group, whose list would be lost with it. That needs
`GroupsOK` (a group whose template is still open has not returned) and
`KnownViews` (a name or argument of a view that is a group is one that has
returned, so a template can return nothing that is not ranked yet). `RedirectedWired`,
`DroppedWired` and `ResolvedWired` are the loop invariants of the three phases.

*HTTP.* The inductive invariant `HttpInv` follows the bytes of the answer. `Coming`
is what the client has still to receive: what the TLS object keeps, what the
socket holds, what the server has not sent. While the headers are read, `data`
and `Coming` make up the answer (`HeadFirst`); while a body is read they make up
the body (`BodyNext`); and at each await and yield of a stream they make it up
together with the headers and what the reader has used (`StreamNext`, `Taken`).
`InOrder` says that nothing comes before the server answers. One case is
apart from all three: a server that hangs up before its headers have ended
(`Broken`), after which the code goes on with what it has. What one `recv()` may do
is one lemma (`ClientReceives`): it moves the front of `Coming` to the caller, and
returns nothing only when nothing will come any more. What
the code looks for is where it should be, whatever the body holds: the first end
of headers in what was read is the one that the server wrote (`HeadersEnd`), and
a size is used only with its line break behind it (`SizeLineEnds`), so what is
taken away for it is what was sent for it. `StreamsYieldWhatWasSent` needs one fact
more: an answer can be cut into chunks in one way only. `Decoded` compares the chunks
that were yielded with those that were sent at the first place where they
differ: each begins with its size, so two chunks at one place of one answer are
the same. That a chunk which is yielded was complete is `StepYields`.
`MessagesArrive` compares what one `Split` of everything received tells with what
one `Split` of each chunk in turn has told (`Told`). A run over two parts is a run
over the second from where the first ended (`RanConcat`), and `Split` begins
each chunk by going once more through what it has kept, which ends no event and
so only puts itself back (`RanKeeps`). Once the mark was seen the two part: one is
stopped for good, the other goes on, and that it tells nothing more needs
`RanMarks`, that a run is stopped only by a mark among its units, and that
nothing ends after the mark.

### What stays with TLC

Liveness under fairness is out of the prover's reach. The proofs follow a fold step
by step. `MeansWhatItSays` and `RefusesForAReason` of `FlowHDL` compare what the finalization
builds, fold after fold, with what the text of the program says when it is read
from the outside in, by operators that have no step in common with it. They have
no common loop invariant, and stay with TLC. `RunsOnce` and `InputsAreFresh`
hold in the flows of the run `flow` and not in every flow: a node that is
resumed twice for one solution (`bug_two_paths`) breaks the first, and the second
too when it has an input. The staleness of an input only falls while its
node is on its way, so everything else that `InputsAreFresh` needs is true; what
is false is that the leaves still are leaves when their turn comes.
`NoConsumerForgotten`, `EveryChunkRead` and `ChunksInOrder` hold in the flows of the
run `streams` and not in every flow either; TLC finds the exceptions among flows of two
connections. An exception that ends the loop leaves readers stalled beside a chunk,
and so does a reader that cancels its stream and reads on (section 5). A node whose
port has a default may use it and never read the stream. `Served` is no step towards
them: it promises a first run only, and a reader that stalls has begun its own.

## 5. What is not modelled

* Instrumentation of loop and flow, logging, event logs: observers.
* The decorators and `mono_node.py`, `streaming_node.py`: they build a class from
  a function before anything runs. What they leave in it, run levels and
  defaults, are inputs of `FlowGraph` and `FlowHDL`.
* `parent_generation()`, which nothing calls. The signal handlers of the loop.
* The bytes that wake `select()` when another thread calls `create_task()`, and that
  `select()` blocks: `CreateTask` may come between any two steps.
* Parsing and formatting of URLs, headers and events, decompression, and the
  bytes of a number: text. `connect()`, the TLS handshake, `bind()`, `listen()`
  and the socket errors other than its end.
* A node with several output ports (independent of each other), a second run of
  one loop, two loops in two threads, a program that uses a lock other than by
  `async with`.

### Other disagreements, met while modelling

Loop and queues:

* a `Condition.wait()` that is cancelled does not take the lock again before the
  exception is raised in the block (`bug_caught_wait`), and a
  task can be cancelled with effect once only (`bug_second_cancel`);
* a task that is cancelled between its last packet and its end is recorded as
  finished and as failed (`event_loop.py:791`, `tasks.py:125`);
* a release by a task that does not own the lock is ignored, though
  `synchronization.py:267` documents an error;
* a getter that is cancelled after it was notified takes the notification with
  it (`event_loop.py:758`);
* `AsyncSetQueue.put()` with a maxsize may insert a duplicate (`queues.py:350`);
* an `AsyncMapQueue.put()` that is cancelled or finds the queue closed leaves its
  key in the map, and later puts of that key only add causes (`queues.py:513`;
  the instance `CancelledMap`);
* two sleepers with one deadline raise `TypeError` (`event_loop.py:578`), two
  tasks that wait for one socket `KeyError` (:594).

Flows and streams:

* the docstring of `inc_generation` says that `((0, 0), 2)` gives `(0, 0, 0)`;
  that is below `(0, 0)`, and the code gives `(0, 1, 0)` (`helpers.py:109`);
* a generator that ends without a chunk leaves its consumer without data: the
  consumer fails in `gather_inputs()` and the flow hangs (`Terse`), and so it does
  after an even number of chunks that cannot be added up; after an odd number it
  takes the last chunk for the whole (`flow.py:606`; `bug_left.cfg` shows the hang with
  `Flows <- TakesWhole` and `Unsummed = {n1}`);
* a node whose input is not connected and has no default fails in
  `gather_inputs()` in the same way (`Unfed`, `node_base.py:703`); a flow that
  is built with `FlowHDL` is refused before (`flow_hdl_view.py:251`);
* a stream that is reset skips what its reader has not read: the chunks of the new
  run before the latest, shown by `bug_skipped`, and the rest of the old run, of
  which no property speaks (`flow.py:1441`);
* a consumer that leaves a stream early in `Pipeline` with a slow first node makes
  nodes run twice or the flow hang, as one beside a node that takes the whole does
  (`bug_left`);
* a node that cancels its stream and reads on, while the producer is busy with a
  chunk, is left out when that chunk is announced (`flow.py:855`); it sleeps beside
  it unless somebody else asks for the producer;
* the barrier of a node never closes, so a producer may run ahead
  (`bug_latch`, `bug_lockstep`), other than the internals guide says.

Flow description: a placeholder for a name that holds an output reference is
refused (`bug_forward_output`); a literal passed to a template leaves a constant
that nobody uses (`bug_orphan`); templates within templates that use one name capture each other, as in
`bug_capture`; an argument `None` becomes a constant, although a comment calls it
disconnected.

HTTP:

* the last chunk yields an extra empty one; a truncated body with a
  `Content-Length` is returned without an exception;
* `request()` asserts that a body is bytes and so raises for a chunked answer;
  `stream_request()` with an OK status reads chunks whatever the framing;
* `HttpServer.handle_client` calls `client_sock.close()` (`http_server.py:117`),
  which `SocketHandle` does not have: the task ends with `AttributeError`, and the
  connection stays open;
* the sockets of the client block: `connect()` and `send()` stop the loop, and
  what `send()` did not take is only asserted away (`http_client.py:569`);
* a TLS `recv()` waits for the socket although the TLS object still holds
  decrypted data;
* each chunk is decompressed on its own; a JSON message that is cut inside of a
  string raises `JSONDecodeError`.

## 6. Plan

Done: all modules of section 2; the proofs about the loop, the primitives, the
refinement of `Futures`, the latch, the queues with the refinement of
`BoundedQueue`, generations, the nodes and connections of flow definitions, the
types, the counters and the streams of a flow, that each of its nodes runs, and the
bodies, chunks and messages of the client. Left, in this order:

1. `EveryNodeHasRun` without `Forward`, and `NoConsumerForgotten` of a flow that still
   runs and whose readers read nothing after a `cancel()`.
2. `MeansWhatItSays` of `FlowHDL` in programs without templates, where no
   connection is ever redirected.
3. The resolver with requests that are dropped (`bug_dropped`, `bug_left`, `bug_asleep`) and repeated
   (`bug_rerun`, `bug_two_paths`): which flows keep `RunsOnce`, `InputsAreFresh`
   and `NobodyIsReady`.
