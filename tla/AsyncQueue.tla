----------------------------- MODULE AsyncQueue -----------------------------
(***************************************************************************)
(* flowno's AsyncQueue, AsyncSetQueue and AsyncMapQueue (queues.py): a     *)
(* deque behind one lock with two conditions on it.  Tasks call the        *)
(* operations in any order; between two awaits of an operation other tasks *)
(* run.  A task that runs is resumed by the event loop of EventLoop.tla,   *)
(* of which this module keeps the run queue: Dispatch is its loop body,    *)
(* Cancel its cancel() of a task that waits in an operation.               *)
(*                                                                         *)
(* maxsize = None is a `max' that the items of the instance cannot fill.   *)
(***************************************************************************)
EXTENDS SyncPrimitives

CONSTANTS Item, NoItem,
          Variants,        \* the queues: class, maxsize, and who calls which operations
          MaxCauses,       \* bound: the causes of one key of an AsyncMapQueue
          queueLock, notEmpty, notFull

ASSUME QueueAssumption ==
    /\ \A v \in Variants :
          /\ v.class \in {"plain", "set", "map"}
          /\ v.max \in Nat /\ v.callers \subseteq Task
          /\ "put_nowait" \in v.calls => v.class = "set"
    /\ MaxCauses \in Nat \ {0}
    /\ NoItem \notin Item
    /\ Lock = {queueLock} /\ Cond = {notEmpty, notFull} /\ notEmpty # notFull

VARIABLES
    variant,     \* the queue of this behaviour
    causes,      \* AsyncMapQueue._map: how many causes each key has
    items,       \* AsyncQueue.items
    closed,      \* AsyncQueue._closed
    running,     \* the task that the loop has resumed
    call,        \* the operation each task is in
    pc,          \* the await it is suspended in
    reply,       \* what its operation returns or raises, once that is decided
    interrupted  \* the tasks that have been cancelled

queueVars == <<items, closed, call, reply, interrupted>>
mapVars == <<variant, causes>>
vars == <<tasks, syncVars, mapVars, items, closed, running, call, pc, reply, interrupted>>

Idle == [op |-> "none", item |-> NoItem]
Operation == [op : {"get", "peek", "close"}, item : {NoItem}] \cup [op : {"put"}, item : Item]

Pending == [kind |-> "pending", item |-> NoItem]
Ok(i) == [kind |-> "ok", item |-> i]
QueueClosed == [kind |-> "closed", item |-> NoItem]
Reply == {Pending, QueueClosed} \cup {Ok(i) : i \in Item \cup {NoItem}}

TypeOK ==
    /\ SyncTypeOK
    /\ variant \in Variants
    /\ causes \in [Item -> 0..MaxCauses]
    /\ items \in Seq(Item)
    /\ closed \in BOOLEAN
    /\ running \in TaskOrNone
    /\ call \in [Task -> Operation \cup {Idle}]
    /\ pc \in [Task -> {"idle", "acquire", "wait", "closing", "leave", "release"}]
    /\ reply \in [Task -> Reply]
    /\ interrupted \subseteq Task

Init ==
    /\ SyncInit
    /\ variant \in Variants
    /\ causes = [i \in Item |-> 0]
    /\ tasks = <<>>
    /\ items = <<>> /\ closed = FALSE
    /\ running = NoTask
    /\ call = [t \in Task |-> Idle]
    /\ pc = [t \in Task |-> "idle"]
    /\ reply = [t \in Task |-> Pending]
    /\ interrupted = {}

-----------------------------------------------------------------------------
(* The loop.                                                                  *)

Calls == variant.calls

\* The first await of every operation is the lock.
Begin(t, o) ==
    /\ running = NoTask
    /\ pc[t] = "idle" /\ t \in variant.callers
    /\ LockAcquire(t, queueLock)
    /\ call' = [call EXCEPT ![t] = o]
    /\ pc' = [pc EXCEPT ![t] = "acquire"]
    /\ UNCHANGED <<items, closed, running, reply, interrupted, variant>>

\* mutant: enters the key when it has been put
MapPutLate(i) == causes' = causes

\* AsyncMapQueue.put() of a new key enters it into the map at once.
MapPut(i) == causes' = [causes EXCEPT ![i] = 1]

\* A task calls an operation.
BeginCall(t, o) ==
    /\ o.op \in Calls
    /\ Begin(t, o)
    /\ IF variant.class = "map" /\ o.op = "put"
         THEN causes[o.item] = 0 /\ MapPut(o.item)
         ELSE UNCHANGED causes

\* AsyncMapQueue.put() of a key that is in the map appends the cause, without an await.
MapPutKnown(t, i) ==
    /\ running = NoTask
    /\ pc[t] = "idle" /\ t \in variant.callers
    /\ variant.class = "map" /\ "put" \in Calls
    /\ causes[i] > 0 /\ causes[i] < MaxCauses
    /\ causes' = [causes EXCEPT ![i] = @ + 1]
    /\ UNCHANGED <<tasks, syncVars, variant, items, closed, running, call, pc, reply, interrupted>>

\* _UntilEmptyIterator.__anext__: closes the queue that it finds empty, before it has the
\* lock, and gets an item of any other.
BeginUntilEmpty(t) ==
    /\ "until_empty" \in Calls
    /\ Begin(t, [op |-> IF items = <<>> THEN "close" ELSE "get", item |-> NoItem])
    /\ UNCHANGED causes

\* An exception thrown into the await for the lock leaves the operation at once; thrown
\* into the await for a condition it first leaves the `async with' block.
Dispatch ==
    /\ running = NoTask
    /\ tasks # <<>>
    /\ LET p == Head(tasks) IN
         IF p.kind = "cancelled" /\ pc[p.task] = "acquire"
           THEN /\ pc' = [pc EXCEPT ![p.task] = "idle"]
                /\ call' = [call EXCEPT ![p.task] = Idle]
                /\ UNCHANGED running
           ELSE /\ running' = p.task
                /\ pc' = [pc EXCEPT ![p.task] = IF p.kind = "cancelled" THEN "leave" ELSE @]
                /\ UNCHANGED call
    /\ tasks' = Tail(tasks)
    /\ UNCHANGED <<syncVars, mapVars, items, closed, reply, interrupted>>

\* EventLoop.cancel() of a task that queues for the lock or waits on a condition.
Cancel(t) ==
    /\ "cancel" \in Calls
    /\ running = NoTask
    /\ t \notin interrupted
    /\ t \in ToSet(lockWaiters[queueLock]) \cup condWaiters[notEmpty] \cup condWaiters[notFull]
    /\ interrupted' = interrupted \cup {t}
    /\ RemoveFromSync(t)
    /\ tasks' = Append(tasks, [task |-> t, kind |-> "cancelled", of |-> t])
    /\ UNCHANGED <<mapVars, items, closed, running, call, pc, reply>>

-----------------------------------------------------------------------------
(* The operations: what the running task does from one await to the next.    *)

Full == Len(items) >= variant.max

Await(t, place) ==
    /\ running' = NoTask
    /\ pc' = [pc EXCEPT ![t] = place]

Decide(t, r) == reply' = [reply EXCEPT ![t] = r]

Wait(t, c) ==
    /\ Await(t, "wait")
    /\ ConditionWait(t, c)
    /\ UNCHANGED queueVars

\* Leave the `async with' block, with the reply or exception r.
Leave(t, r) ==
    /\ Await(t, "release")
    /\ Decide(t, r)
    /\ LockRelease(t, queueLock)
    /\ UNCHANGED <<items, closed, call, interrupted>>

InBody(t, o) == running = t /\ call[t].op = o /\ pc[t] \in {"acquire", "wait"}

\* mutant: forgets notify()
PutQuiet(t) ==
    /\ items' = Append(items, call[t].item)
    /\ Decide(t, Ok(call[t].item))
    /\ Await(t, "leave")
    /\ Requeue(t)
    /\ UNCHANGED <<syncVars, closed, call, interrupted>>

PutItem(t) ==
    /\ items' = Append(items, call[t].item)
    /\ Decide(t, Ok(call[t].item))
    /\ Await(t, "leave")
    /\ ConditionNotify(t, notEmpty, FALSE)
    /\ UNCHANGED <<closed, call, interrupted>>

\* mutant: looks for the end of the queue only when there is room
PlainPutLate(t) ==
    \/ Full /\ Wait(t, notFull)
    \/ ~Full /\ closed /\ Leave(t, QueueClosed)
    \/ ~Full /\ ~closed /\ PutItem(t)

\* AsyncQueue.put
PlainPut(t) ==
    \/ closed /\ Leave(t, QueueClosed)
    \/ ~closed /\ Full /\ Wait(t, notFull)
    \/ ~closed /\ ~Full /\ PutItem(t)

\* AsyncSetQueue.put: looks for the item once, before it waits, and for the end of the
\* queue once, when it has waited.
SetPut(t) ==
    LET found == pc[t] = "acquire" /\ call[t].item \in ToSet(items) IN
    \/ found /\ Leave(t, Ok(call[t].item))
    \/ ~found /\ Full /\ Wait(t, notFull)
    \/ ~found /\ ~Full /\ closed /\ Leave(t, QueueClosed)
    \/ ~found /\ ~Full /\ ~closed /\ PutItem(t)

\* mutant: a woken putter does not look again (if for while)
PutBodyOnce(t) ==
    /\ InBody(t, "put")
    /\ IF pc[t] = "wait" THEN PutItem(t) ELSE PlainPut(t)

PutBody(t) ==
    /\ InBody(t, "put")
    /\ IF variant.class = "set" THEN SetPut(t) ELSE PlainPut(t)

\* mutant: forgets notify()
GetQuiet(t) ==
    /\ Decide(t, Ok(Head(items)))
    /\ items' = Tail(items)
    /\ Await(t, "leave")
    /\ Requeue(t)
    /\ UNCHANGED <<syncVars, closed, call, interrupted>>

GetItem(t) ==
    /\ Decide(t, Ok(Head(items)))
    /\ items' = Tail(items)
    /\ Await(t, "leave")
    /\ ConditionNotify(t, notFull, FALSE)
    /\ UNCHANGED <<closed, call, interrupted>>

WaitForItem(t) ==
    /\ items = <<>>
    /\ IF closed THEN Leave(t, QueueClosed) ELSE Wait(t, notEmpty)

GetBody(t) ==
    /\ InBody(t, "get")
    /\ WaitForItem(t) \/ (items # <<>> /\ GetItem(t))

PeekBody(t) ==
    /\ InBody(t, "peek")
    /\ WaitForItem(t) \/ (items # <<>> /\ Leave(t, Ok(Head(items))))

\* close(): two notify_all(), in two steps.
CloseBody(t) ==
    /\ InBody(t, "close")
    /\ closed' = TRUE
    /\ Decide(t, Ok(NoItem))
    /\ Await(t, "closing")
    /\ ConditionNotify(t, notEmpty, TRUE)
    /\ UNCHANGED <<items, call, interrupted>>

CloseRest(t) ==
    /\ running = t /\ pc[t] = "closing"
    /\ Await(t, "leave")
    /\ ConditionNotify(t, notFull, TRUE)
    /\ UNCHANGED queueVars

\* After the last await inside the block, or out of it with TaskCancelled.
LeaveBlock(t) ==
    /\ running = t /\ pc[t] = "leave"
    /\ Leave(t, reply[t])

\* AsyncMapQueue.get(): the causes leave the map with the key.
Pop(i) == causes' = [causes EXCEPT ![i] = 0]

\* The release was the last await: the operation returns or raises.
Return(t) ==
    /\ running = t /\ pc[t] = "release"
    /\ Await(t, "idle")
    /\ call' = [call EXCEPT ![t] = Idle]
    /\ Decide(t, Pending)
    /\ IF variant.class = "map" /\ call[t].op = "get" /\ reply[t].kind = "ok"
         THEN Pop(reply[t].item)
         ELSE UNCHANGED causes
    /\ UNCHANGED <<variant, tasks, syncVars, items, closed, interrupted>>

Turn(t) ==
    \/ /\ \/ PutBody(t) \/ GetBody(t) \/ PeekBody(t)
          \/ CloseBody(t) \/ CloseRest(t) \/ LeaveBlock(t)
       /\ UNCHANGED mapVars
    \/ Return(t)

-----------------------------------------------------------------------------
(* put_nowait() (AsyncSetQueue) and close_nowait(), called by the handler of a *)
(* command of some other task.                                                *)

PutNowait(i) ==
    /\ "put_nowait" \in Calls
    /\ running = NoTask
    /\ i \notin ToSet(items) /\ ~closed
    /\ items' = Append(items, i)
    /\ NotifyNowait(notEmpty)
    /\ UNCHANGED <<mapVars, closed, running, call, pc, reply, interrupted>>

CloseNowait ==
    /\ "close_nowait" \in Calls
    /\ running = NoTask
    /\ closed' = TRUE
    /\ NotifyAllNowait(notEmpty, notFull)
    /\ UNCHANGED <<mapVars, items, running, call, pc, reply, interrupted>>

-----------------------------------------------------------------------------

Next ==
    \/ Dispatch
    \/ \E t \in Task :
          \/ Turn(t) \/ Cancel(t)
          \/ \E o \in Operation : BeginCall(t, o)
          \/ \E i \in Item : MapPutKnown(t, i)
          \/ BeginUntilEmpty(t)
    \/ \E i \in Item : PutNowait(i)
    \/ CloseNowait

Spec == Init /\ [][Next]_vars

\* The loop keeps running.  Nothing makes a program call an operation.
FairSpec == Spec /\ WF_vars(Dispatch) /\ \A t \in Task : WF_vars(Turn(t))

-----------------------------------------------------------------------------
(* Properties.                                                                *)

\* "Condition wait by non-owner", "Condition notify by non-owner": the asserts that end the
\* loop never fail.  Whoever runs inside of the `async with' block owns the lock, however
\* it was woken: by a release, by a *_nowait(), after others were cancelled.
OwnsInside ==
    \A t \in Task :
        running = t /\ pc[t] \in {"acquire", "wait", "closing"} => owner[queueLock] = t

\* Nothing is on its way: every task is outside the queue or sleeps on a condition.
Quiet == tasks = <<>> /\ running = NoTask

\* "If the queue is empty, this will wait until an item is put into the queue" (get):
\* when all is quiet nobody sleeps in get() or peek() while there is an item.
NobodyForgotten == Quiet /\ items # <<>> => condWaiters[notEmpty] = {}

\* The same where nothing swallows a wake-up: a peek() that was woken takes no item and
\* wakes nobody, and neither does a get() that is cancelled after it was woken.
NoGetterForgotten == "peek" \notin Calls /\ interrupted = {} => NobodyForgotten

\* "this will wait until space is available" (put): when all is quiet nobody sleeps in
\* put() while there is room.
NoPutterForgotten == Quiet /\ ~Full /\ interrupted = {} => condWaiters[notFull] = {}

\* AsyncSetQueue "ensures each item appears only once", AsyncMapQueue "maintains unique
\* keys": by two tests in two different places, one before and one under the lock.
EachItemOnce == variant.class \in {"set", "map"} => IsInjective(items)

\* The call of t carries item i, into the queue or out of it.
Carries(t, i) ==
    \/ call[t].op = "put" /\ call[t].item = i /\ reply[t] = Pending
    \/ call[t].op = "get" /\ reply[t] = Ok(i)

\* AsyncMapQueue: map and queue agree, although they change at different moments: a key
\* with causes is in the queue, or on its way in or out, and the reverse; so no cause is
\* kept for a key that nobody will get.  A put() that finds the queue closed, or is
\* cancelled, leaves its key behind.
MapAgrees ==
    variant.class = "map" /\ ~closed /\ interrupted = {} =>
        {i \in Item : causes[i] > 0} = ToSet(items) \cup {i \in Item : \E t \in Task : Carries(t, i)}

\* "After closing": put() raises, get() succeeds until the queue is empty and then raises.
\* No operation outlives close(), wherever it slept.
ClosedEndsCalls == \A t \in Task : closed /\ pc[t] # "idle" ~> pc[t] = "idle"

\* "The lock uses FIFO ordering to prevent starvation": however often other tasks call
\* the queue, a task that queues for the lock gets it, unless it is cancelled.
LockServed ==
    \A t \in Task :
        t \in ToSet(lockWaiters[queueLock]) ~> owner[queueLock] = t \/ t \in interrupted

-----------------------------------------------------------------------------

Q == INSTANCE BoundedQueue WITH buffer <- items, shut <- closed

\* Every operation takes effect in one moment under the lock, as on a FIFO buffer.
ImplementsBoundedQueue == Q!Spec

=============================================================================
