------------------------------ MODULE EventLoop ------------------------------
(***************************************************************************)
(* flowno's event loop (event_loop.py, tasks.py, commands.py): one thread  *)
(* pops a packet from the run queue, resumes the task's coroutine with the *)
(* packet's value or exception, and handles the command the coroutine      *)
(* yields.  Tasks are arbitrary programs: while a task runs it may call    *)
(* EventLoop.cancel(), and it ends its turn by yielding one of the         *)
(* commands in Ops, by returning or by raising.  Programs use a Lock the   *)
(* way `async with' does: a task is inside at most one block, and leaves   *)
(* it by a release.                                                        *)
(*                                                                         *)
(* External to the code, and modelled from how the loop uses them: the     *)
(* Python coroutine (at, inside, lockless, caught), the clock and the      *)
(* selector, which make any sleeper and any registered socket ready at any *)
(* time.                                                                   *)
(***************************************************************************)
EXTENDS SyncPrimitives

CONSTANTS Root,             \* the task given to run_until_complete
          Socket, NoLock,
          Ops,              \* the kinds of command the programs use
          CancelParkedOnly, \* programs cancel only tasks that sleep, or wait for a
                            \* socket, an event, a lock or a condition
          WaitForSpawned    \* run_until_complete(wait_for_spawned_tasks = ...)

ASSUME LoopAssumption ==
    /\ Root \in Task
    /\ NoLock \notin Lock
    /\ {CancelParkedOnly, WaitForSpawned} \subseteq BOOLEAN

VARIABLES
    loop,          \* "running", "exiting" (_exit_requested), "stopped", "raised"
    running,       \* _current_task
    at,            \* where each coroutine stands
    inside,        \* the lock whose `async with' block the coroutine is in
    lockless,      \* the coroutines in whose block a Condition.wait() was cut short
    caught,        \* the exceptions thrown into the coroutine so far
    sleeping,      \* EventLoop.sleeping: how many entries of the heap name a task
    network,       \* the selector's map: the task registered for each socket
    watching,      \* EventLoop.watching_task
    cancelWaiters, \* EventLoop.cancel_waiters
    pending,       \* EventLoop.pending_cancellation
    finished,      \* EventLoop.finished, its keys
    exceptions,    \* EventLoop.exceptions
    cancelled      \* EventLoop.cancelled

progVars == <<at, inside, lockless, caught>>
parkVars == <<sleeping, network>>
joinVars == <<watching, cancelWaiters, pending>>
outcomeVars == <<finished, exceptions, cancelled>>
vars == <<tasks, syncVars, loop, running, progVars, parkVars, joinVars, outcomeVars>>

NoExc == [kind |-> "none", of |-> NoTask]
Exc == [kind : ExcKind, of : Task]

\* "yield" is any await that is not listed.
Place == {"absent", "start", "run", "acquire", "release", "wait", "yield", "closed"}

TypeOK ==
    /\ SyncTypeOK
    /\ loop \in {"running", "exiting", "stopped", "raised"}
    /\ running \in TaskOrNone
    /\ at \in [Task -> Place]
    /\ inside \in [Task -> Lock \cup {NoLock}]
    /\ lockless \subseteq Task
    /\ caught \in [Task -> SUBSET Exc]
    /\ sleeping \in [Task -> Nat]
    /\ network \in [Socket -> TaskOrNone]
    /\ watching \in [Task -> Seq(Task)]
    /\ cancelWaiters \in [Task -> SUBSET Task]
    /\ pending \subseteq Task
    /\ finished \subseteq Task
    /\ exceptions \in [Task -> Exc \cup {NoExc}]
    /\ cancelled \subseteq Task

Init ==
    /\ SyncInit
    /\ tasks = <<Wakeup(Root)>>
    /\ loop = "running"
    /\ running = NoTask
    /\ at = [t \in Task |-> IF t = Root THEN "start" ELSE "absent"]
    /\ inside = [t \in Task |-> NoLock]
    /\ lockless = {}
    /\ caught = [t \in Task |-> {}]
    /\ sleeping = [t \in Task |-> 0]
    /\ network = [s \in Socket |-> NoTask]
    /\ watching = [t \in Task |-> <<>>]
    /\ cancelWaiters = [t \in Task |-> {}]
    /\ pending = {}
    /\ finished = {}
    /\ exceptions = [t \in Task |-> NoExc]
    /\ cancelled = {}

-----------------------------------------------------------------------------
(* The loop body: wake what is ready, then run the head of the queue.         *)

Idle == loop = "running" /\ running = NoTask

\* mutant: does not look whether anyone is registered
SocketReadyAny(s) ==
    /\ Idle
    /\ tasks' = Append(tasks, Wakeup(network[s]))
    /\ network' = [network EXCEPT ![s] = NoTask]
    /\ UNCHANGED <<syncVars, loop, running, progVars, sleeping, joinVars, outcomeVars>>

\* One ready socket of the list that select() returns; a list is several steps.
SocketReady(s) ==
    /\ Idle
    /\ network[s] # NoTask
    /\ tasks' = Append(tasks, Wakeup(network[s]))
    /\ network' = [network EXCEPT ![s] = NoTask]
    /\ UNCHANGED <<syncVars, loop, running, progVars, sleeping, joinVars, outcomeVars>>

SleeperDue(t) ==
    /\ Idle
    /\ sleeping[t] > 0
    /\ tasks' = Append(tasks, Wakeup(t))
    /\ sleeping' = [sleeping EXCEPT ![t] = @ - 1]
    /\ UNCHANGED <<syncVars, loop, running, progVars, network, joinVars, outcomeVars>>

\* send() or throw() into a suspended coroutine.  What the coroutine believes about
\* its lock follows from the await it was suspended in: an interrupted acquire or
\* release leaves the block; an interrupted wait raises in the body of the block, where
\* the program may catch the exception and go on, and nobody reacquires the lock for it.
Resume(p) ==
    LET t == p.task
        thrown == p.kind \in ExcKind
        leaves == at[t] = "release" \/ (thrown /\ at[t] = "acquire")
    IN
    /\ at[t] # "closed"
    /\ thrown => at[t] # "start"
    /\ running' = t
    /\ tasks' = Tail(tasks)
    /\ at' = [at EXCEPT ![t] = "run"]
    /\ inside' = [inside EXCEPT ![t] = IF leaves THEN NoLock ELSE @]
    /\ lockless' = IF leaves THEN lockless \ {t}
                   ELSE IF thrown /\ at[t] = "wait" THEN lockless \cup {t}
                   ELSE lockless
    /\ caught' = [caught EXCEPT ![t] =
                     IF thrown THEN @ \cup {[kind |-> p.kind, of |-> p.of]} ELSE @]
    /\ UNCHANGED <<syncVars, loop, parkVars, joinVars, outcomeVars>>

AnswerNone(t, w, o) == Wakeup(w)                \* mutant: joiners get None

\* What a task that watches t is resumed with when t ends with outcome o.
Answer(t, w, o) ==
    IF o.kind = "cancelled" /\ w \in cancelWaiters[t]
      THEN Wakeup(w)
      ELSE [task |-> w, kind |-> o.kind, of |-> o.of]

AnswersLost(t, o) == <<>>                       \* mutant: watchers are not woken
Answers(t, o) == [i \in 1..Len(watching[t]) |-> Answer(t, watching[t][i], o)]

\* mutant: del watching_task[t] only
ForgetWatchers(t) ==
    /\ watching' = [watching EXCEPT ![t] = <<>>]
    /\ UNCHANGED <<cancelWaiters, pending>>

\* The join and cancel bookkeeping kept for t.
Forget(t) ==
    /\ watching' = [watching EXCEPT ![t] = <<>>]
    /\ cancelWaiters' = [cancelWaiters EXCEPT ![t] = {}]
    /\ pending' = pending \ {t}

\* The coroutine of t ended: wake its watchers behind `queue', forget the
\* bookkeeping kept for it, and stop when it is the root and nobody else counts.
Close(t, queue, o) ==
    /\ at' = [at EXCEPT ![t] = "closed"]
    /\ running' = NoTask
    /\ tasks' = queue \o Answers(t, o)
    /\ Forget(t)
    /\ loop' = IF t = Root /\ ~WaitForSpawned THEN "stopped" ELSE loop
    /\ UNCHANGED <<syncVars, inside, lockless, caught, parkVars>>

\* except StopIteration
Finish(t, queue) ==
    /\ finished' = finished \cup {t}
    /\ Close(t, queue, [kind |-> "result", of |-> t])
    /\ UNCHANGED <<exceptions, cancelled>>

\* except TaskCancelled, except Exception
Fail(t, queue, e) ==
    /\ exceptions' = [exceptions EXCEPT ![t] = e]
    /\ cancelled' = IF e.kind = "cancelled" THEN cancelled \cup {t} ELSE cancelled
    /\ Close(t, queue, e)
    /\ UNCHANGED finished

\* An exception thrown into a coroutine that has not started comes straight back.
FailUnstarted(p) ==
    /\ at[p.task] = "start"
    /\ p.kind \in ExcKind
    /\ Fail(p.task, Tail(tasks), [kind |-> p.kind, of |-> p.of])

\* A coroutine that has ended answers with RuntimeError, which the loop records.
FailClosed(p) ==
    /\ at[p.task] = "closed"
    /\ Fail(p.task, Tail(tasks), [kind |-> "error", of |-> p.task])

Dispatch ==
    /\ Idle
    /\ tasks # <<>>
    /\ LET p == Head(tasks) IN Resume(p) \/ FailUnstarted(p) \/ FailClosed(p)

HasLivingTasks ==
    \/ tasks # <<>>
    \/ \E t \in Task : sleeping[t] > 0 \/ watching[t] # <<>>
    \/ \E s \in Socket : network[s] # NoTask
    \/ \E e \in Event : eventWaiters[e] # {}
    \/ \E l \in Lock : lockWaiters[l] # <<>>
    \/ \E c \in Cond : condWaiters[c] # {}

Stop ==
    /\ running = NoTask
    /\ loop = "exiting" \/ (loop = "running" /\ ~HasLivingTasks)
    /\ loop' = "stopped"
    /\ UNCHANGED <<tasks, syncVars, running, progVars, parkVars, joinVars, outcomeVars>>

-----------------------------------------------------------------------------
(* The turn of the running task: any number of calls of EventLoop.cancel(),   *)
(* then one command, a return or a raise.                                     *)

Running(t) == loop = "running" /\ running = t

Yield(t, place) ==
    /\ Running(t)
    /\ at[t] = "run"
    /\ running' = NoTask
    /\ at' = [at EXCEPT ![t] = place]
    /\ UNCHANGED <<lockless, caught>>

Done(x) == x \in finished \/ exceptions[x] # NoExc

Return(t) ==
    /\ Running(t)
    /\ at[t] = "run" /\ inside[t] = NoLock
    /\ Finish(t, tasks)

\* A task raises an exception of its own, or lets one thrown into it through.
Raise(t) ==
    /\ Running(t)
    /\ at[t] = "run" /\ inside[t] = NoLock
    /\ \E e \in {[kind |-> "error", of |-> t]} \cup caught[t] : Fail(t, tasks, e)

SpawnCommand(t, x) ==
    /\ "spawn" \in Ops
    /\ Running(t) /\ at[t] = "run"
    /\ at[x] = "absent"
    /\ running' = NoTask
    /\ at' = [at EXCEPT ![t] = "yield", ![x] = "start"]
    /\ tasks' = tasks \o <<Wakeup(x), [task |-> t, kind |-> "handle", of |-> x]>>
    /\ UNCHANGED <<syncVars, loop, inside, lockless, caught, parkVars, joinVars, outcomeVars>>

\* create_task(): from another thread at any time, or by the running task.
CreateTask(x) ==
    /\ "create" \in Ops
    /\ loop = "running"
    /\ at[x] = "absent"
    /\ at' = [at EXCEPT ![x] = "start"]
    /\ tasks' = Append(tasks, Wakeup(x))
    /\ UNCHANGED <<syncVars, loop, running, inside, lockless, caught, parkVars, joinVars,
                   outcomeVars>>

\* How a join or a cancel of a task that is over is answered.
OutcomePacket(t, x) ==
    IF x \in finished
      THEN [task |-> t, kind |-> "result", of |-> x]
      ELSE [task |-> t, kind |-> exceptions[x].kind, of |-> exceptions[x].of]

JoinCommand(t, x) ==
    /\ "join" \in Ops
    /\ x # t /\ at[x] # "absent"
    /\ Yield(t, "yield")
    /\ IF Done(x)
         THEN tasks' = Append(tasks, OutcomePacket(t, x)) /\ UNCHANGED watching
         ELSE watching' = [watching EXCEPT ![x] = Append(@, t)] /\ UNCHANGED tasks
    /\ UNCHANGED <<syncVars, loop, inside, parkVars, cancelWaiters, pending, outcomeVars>>

Parked(x) ==
    \/ sleeping[x] > 0
    \/ \E s \in Socket : network[s] = x
    \/ \E e \in Event : x \in eventWaiters[e]
    \/ \E l \in Lock : x \in ToSet(lockWaiters[l])
    \/ \E c \in Cond : x \in condWaiters[c]

MayCancel(t, x) ==
    /\ "cancel" \in Ops
    /\ x # t /\ at[x] # "absent"
    /\ CancelParkedOnly => Parked(x) \/ x \in pending \/ Done(x)

Nothing(x) == Wakeup(x)                         \* mutant: resumes with None
Injected(x) == [task |-> x, kind |-> "cancelled", of |-> x]

\* EventLoop.cancel() of a task that is neither over nor already being cancelled:
\* it leaves what it waits for, though not the task it joins, and gets a packet
\* with TaskCancelled behind the packets it already has.
Cancel(x) ==
    /\ x \notin pending /\ ~Done(x)
    /\ pending' = pending \cup {x}
    /\ sleeping' = [sleeping EXCEPT ![x] = 0]
    /\ network' \in DropFromOne(network, {s \in Socket : network[s] = x}, LAMBDA o : NoTask)
    /\ RemoveFromSync(x)
    /\ tasks' = Append(tasks, Injected(x))

\* handle.cancel() whose awaitable is dropped.
CancelNoAwait(t, x) ==
    /\ Running(t) /\ at[t] = "run"
    /\ MayCancel(t, x)
    /\ Cancel(x)
    /\ UNCHANGED <<loop, running, progVars, watching, cancelWaiters, outcomeVars>>

Watch(t, x) ==
    /\ watching' = [watching EXCEPT ![x] = Append(@, t)]
    /\ cancelWaiters' = [cancelWaiters EXCEPT ![x] = @ \cup {t}]

\* await handle.cancel(): EventLoop.cancel(), then CancelCommand.
AwaitCancel(t, x) ==
    /\ MayCancel(t, x)
    /\ Yield(t, "yield")
    /\ \/ /\ Done(x)
          /\ tasks' = Append(tasks, OutcomePacket(t, x))
          /\ UNCHANGED <<syncVars, parkVars, joinVars>>
       \/ /\ ~Done(x) /\ x \in pending
          /\ Watch(t, x)
          /\ UNCHANGED <<tasks, syncVars, parkVars, pending>>
       \/ Cancel(x) /\ Watch(t, x)
    /\ UNCHANGED <<loop, inside, outcomeVars>>

\* end_time may be over when the command is handled; heappush compares two
\* coroutines, which raises TypeError, when two end times are equal.
SleepCommand(t) ==
    /\ "sleep" \in Ops
    /\ Yield(t, "yield")
    /\ \/ Requeue(t) /\ UNCHANGED <<loop, sleeping>>
       \/ sleeping' = [sleeping EXCEPT ![t] = @ + 1] /\ UNCHANGED <<loop, tasks>>
       \/ /\ \E x \in Task : sleeping[x] > 0
          /\ loop' = "raised" /\ UNCHANGED <<tasks, sleeping>>
    /\ UNCHANGED <<syncVars, inside, network, joinVars, outcomeVars>>

\* SocketAccept-, SocketSend- and SocketRecvCommand: the selector refuses a socket
\* that is registered already, and the error leaves the loop.
SocketCommand(t, s) ==
    /\ "socket" \in Ops
    /\ Yield(t, "yield")
    /\ IF network[s] = NoTask
         THEN network' = [network EXCEPT ![s] = t] /\ UNCHANGED loop
         ELSE loop' = "raised" /\ UNCHANGED network
    /\ UNCHANGED <<tasks, syncVars, inside, sleeping, joinVars, outcomeVars>>

\* exit(): the loop stops, or raises the exception it was given.
ExitCommand(t) ==
    /\ "exit" \in Ops
    /\ Yield(t, "yield")
    /\ finished' = finished \cup {t}
    /\ loop' \in {"exiting", "raised"}
    /\ UNCHANGED <<tasks, syncVars, inside, parkVars, joinVars, exceptions, cancelled>>

\* What the commands of the primitives leave alone.
NotSync == UNCHANGED <<parkVars, joinVars, outcomeVars>>

EventWaitCommand(t, e) ==
    /\ "event" \in Ops
    /\ Yield(t, "yield")
    /\ EventWait(t, e)
    /\ NotSync /\ UNCHANGED <<loop, inside>>

EventSetCommand(t, e) ==
    /\ "event" \in Ops
    /\ Yield(t, "yield")
    /\ EventSet(t, e)
    /\ NotSync /\ UNCHANGED <<loop, inside>>

LockAcquireCommand(t, l) ==
    /\ "lock" \in Ops
    /\ inside[t] = NoLock
    /\ Yield(t, "acquire")
    /\ inside' = [inside EXCEPT ![t] = l]
    /\ LockAcquire(t, l)
    /\ NotSync /\ UNCHANGED loop

\* __aexit__, on the normal way out of the block or for an exception; the task may have
\* lost the lock in an interrupted wait.
LockReleaseCommand(t, l) ==
    /\ inside[t] = l
    /\ Yield(t, "release")
    /\ LockRelease(t, l)
    /\ NotSync /\ UNCHANGED <<loop, inside>>

\* An assertion that fails in a command handler is not caught: the loop raises.
AssertOwner(t, c, Handler) ==
    IF OwnsLockOf(t, c)
      THEN Handler /\ UNCHANGED loop
      ELSE loop' = "raised" /\ UNCHANGED <<tasks, syncVars>>

ConditionWaitCommand(t, c) ==
    /\ "condition" \in Ops
    /\ inside[t] = LockOf[c]
    /\ Yield(t, "wait")
    /\ AssertOwner(t, c, ConditionWait(t, c))
    /\ NotSync /\ UNCHANGED inside

ConditionNotifyCommand(t, c) ==
    /\ "condition" \in Ops
    /\ inside[t] = LockOf[c]
    /\ Yield(t, "yield")
    /\ \E all \in BOOLEAN : AssertOwner(t, c, ConditionNotify(t, c, all))
    /\ NotSync /\ UNCHANGED inside

-----------------------------------------------------------------------------

Turn(t) ==
    \/ Return(t) \/ Raise(t)
    \/ \E x \in Task : \/ SpawnCommand(t, x) \/ JoinCommand(t, x)
                       \/ CancelNoAwait(t, x) \/ AwaitCancel(t, x)
    \/ SleepCommand(t) \/ ExitCommand(t)
    \/ \E s \in Socket : SocketCommand(t, s)
    \/ \E e \in Event : EventWaitCommand(t, e) \/ EventSetCommand(t, e)
    \/ \E l \in Lock : LockAcquireCommand(t, l) \/ LockReleaseCommand(t, l)
    \/ \E c \in Cond : ConditionWaitCommand(t, c) \/ ConditionNotifyCommand(t, c)

LoopStep ==
    \/ Dispatch
    \/ Stop
    \/ \E t \in Task : SleeperDue(t) \/ Turn(t)
    \/ \E s \in Socket : SocketReady(s)

Next == LoopStep \/ \E x \in Task : CreateTask(x)

Spec == Init /\ [][Next]_vars

\* The thread of the loop keeps running: it dispatches what is queued, and a task
\* whose turn it is ends its turn.
Fairness ==
    /\ WF_vars(Dispatch)
    /\ \A t \in Task : WF_vars(Turn(t))
    /\ \A t \in Task : SF_vars(SleeperDue(t))   \* the clock advances

FairSpec == Spec /\ Fairness

-----------------------------------------------------------------------------
(* Properties.                                                                *)

\* The places that hold t in the queues f[k].
Entries(f, t) == UNION {{<<k, i>> : i \in {j \in DOMAIN f[k] : f[k][j] = t}} : k \in DOMAIN f}

\* How many times the loop would resume t if everything it waits for happened.
Positions(t) ==
    Cardinality({i \in DOMAIN tasks : tasks[i].task = t})
    + sleeping[t]
    + Cardinality({s \in Socket : network[s] = t})
    + Cardinality({e \in Event : t \in eventWaiters[e]})
    + Cardinality(Entries(lockWaiters, t))
    + Cardinality({c \in Cond : t \in condWaiters[c]})
    + Cardinality(Entries(watching, t))

\* A suspended task is in exactly one place from which the loop will resume it, and
\* the running task and a task that is over are in none: no task is forgotten by
\* a handler that parks it nowhere, and none is resumed a second time out of an
\* await that has already been answered.
OnePlace ==
    loop = "running" =>
        \A t \in Task :
            Positions(t) = IF at[t] \in {"absent", "closed"} \/ running = t THEN 0 ELSE 1

InSection(t, l) ==
    inside[t] = l /\ at[t] \notin {"acquire", "wait", "release", "closed"}

\* "Only one task can hold the lock at a time" (Lock): two tasks are never both in the
\* body of a block of the same lock.  The code violates this in two ways: by stale
\* packets (bug_stale_join), and by a task that goes on in its block after its
\* Condition.wait() was cancelled (bug_caught_wait).
MutualExclusion ==
    \A l \in Lock : \A t, u \in Task : InSection(t, l) /\ InSection(u, l) => t = u

\* The second way is the only one where no task is cancelled but while it is parked.
OwnersExclude ==
    \A l \in Lock : \A t, u \in Task \ lockless : InSection(t, l) /\ InSection(u, l) => t = u

\* A task in the body of an `async with' block owns the lock, however it was handed over,
\* unless its Condition.wait() was interrupted in this block: then it does not, and for
\* it, and for nobody else, the assertion in the handlers of wait() and notify() fails
\* and ends the loop.
InsideOwns ==
    \A t \in Task, l \in Lock : InSection(t, l) => (owner[l] = t <=> t \notin lockless)

\* Whoever calls wait() or notify() inside of the block passes the assertion of the handler.
\* The code violates this for a task that catches the cancellation of its wait() and then
\* notifies from the same block (bug_caught_wait).
AssertionsHold ==
    [][\A t \in Task, c \in Cond :
          ConditionWaitCommand(t, c) \/ ConditionNotifyCommand(t, c) => OwnsLockOf(t, c)]_vars

\* A lock is owned by a task that will release it: never by one that is over or that
\* has left the block (the queue of such a lock is never served again).
OwnerWillRelease ==
    \A l \in Lock : owner[l] # NoTask =>
        at[owner[l]] # "closed" /\ inside[owner[l]] = l

\* When a task is over nothing of the join and cancel bookkeeping about it is left, so
\* whoever joined it or cancelled it has been answered.
NothingLeftBehind ==
    \A x \in Task : at[x] = "closed" =>
        watching[x] = <<>> /\ cancelWaiters[x] = {} /\ x \notin pending

\* Whoever waits in cancel() also watches the task, so it is woken when the task ends.
CancellersWatch ==
    \A x \in Task : cancelWaiters[x] \subseteq ToSet(watching[x])

\* The lock is given to tasks in the order they queue for it: an owner is replaced only
\* by the head of the queue.
FifoHandOver ==
    [][\A l \in Lock :
          owner[l] # owner'[l] /\ lockWaiters[l] # <<>> => owner'[l] = Head(lockWaiters[l])]_vars

\* Each queued packet is delivered: no task starves in the run queue.
QueuedIsServed ==
    \A t \in Task :
        (\E i \in DOMAIN tasks : tasks[i].task = t)
            ~> (running = t \/ at[t] = "closed" \/ loop # "running")

\* "If the task is still running, it will receive a TaskCancelled exception"
\* (TaskHandle.cancel), unless it ends before: so it is for the first cancel() of a task,
\* which makes it pending until it is over, whatever packets are before the exception.
FirstCancelReaches ==
    \A t \in Task :
        t \in pending ~> \/ at[t] = "closed" \/ loop # "running"
                         \/ [kind |-> "cancelled", of |-> t] \in caught[t]

\* The same sentence read of every call: the exception is then on its way to the task.
\* The code sends none to a task that has caught its first one (bug_second_cancel).
EveryCancelReaches ==
    [][\A t, x \in Task : AwaitCancel(t, x) /\ ~Done(x) => Injected(x) \in ToSet(tasks')]_vars

=============================================================================
