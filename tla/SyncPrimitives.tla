--------------------------- MODULE SyncPrimitives ---------------------------
(***************************************************************************)
(* The synchronization primitives of flowno's event loop: Event, Lock and  *)
(* Condition (synchronization.py) together with the branches of            *)
(* EventLoop._handle_command that implement them, and the *_nowait methods *)
(* that command handlers call.                                             *)
(*                                                                         *)
(* Every operator is the effect of one handler on the wait structures and  *)
(* on the run queue `tasks'; the modules that EXTEND this one decide which *)
(* task issues a command, and when.  Lock._locked is not kept apart from   *)
(* Lock._owner: every assignment to one in event_loop.py and               *)
(* synchronization.py is next to the matching assignment to the other.     *)
(***************************************************************************)
EXTENDS SequencesExt

CONSTANTS Task, NoTask, Event, Lock, Cond,
          LockOf     \* the lock a Condition was built with

ASSUME SyncAssumption ==
    /\ IsFiniteSet(Task)
    /\ NoTask \notin Task
    /\ LockOf \in [Cond -> Lock]

VARIABLES
    tasks,         \* EventLoop.tasks: the run queue of (task, value, exception)
    eventSet,      \* the events whose _set is True
    eventWaiters,  \* EventLoop.event_waiters
    owner,         \* Lock._owner
    lockWaiters,   \* EventLoop.lock_waiters, FIFO
    condWaiters    \* EventLoop.condition_waiters

syncVars == <<eventSet, eventWaiters, owner, lockWaiters, condWaiters>>

TaskOrNone == Task \cup {NoTask}

\* What a packet carries: nothing (None), a TaskHandle, the result of task `of',
\* or an exception that task `of' raised or was cancelled with.
ExcKind == {"error", "cancelled"}
Packet == [task : Task, kind : {"none"}, of : {NoTask}]
          \cup [task : Task, kind : {"handle", "result"} \cup ExcKind, of : Task]

Wakeup(t) == [task |-> t, kind |-> "none", of |-> NoTask]
Wakeups(q) == [i \in 1..Len(q) |-> Wakeup(q[i])]

\* tasks.append((t, None, None))
RequeueFirst(t) == tasks' = <<Wakeup(t)>> \o tasks            \* mutant: appendleft
Requeue(t) == tasks' = Append(tasks, Wakeup(t))

SyncTypeOK ==
    /\ tasks \in Seq(Packet)
    /\ eventSet \subseteq Event
    /\ eventWaiters \in [Event -> SUBSET Task]
    /\ owner \in [Lock -> TaskOrNone]
    /\ lockWaiters \in [Lock -> Seq(Task)]
    /\ condWaiters \in [Cond -> SUBSET Task]

SyncInit ==
    /\ eventSet = {}
    /\ eventWaiters = [e \in Event |-> {}]
    /\ owner = [l \in Lock |-> NoTask]
    /\ lockWaiters = [l \in Lock |-> <<>>]
    /\ condWaiters = [c \in Cond |-> {}]

-----------------------------------------------------------------------------
(* Event *)

\* mutant: registers without looking at _set
EventWaitAlways(t, e) ==
    /\ eventWaiters' = [eventWaiters EXCEPT ![e] = @ \cup {t}]
    /\ UNCHANGED <<tasks, eventSet, owner, lockWaiters, condWaiters>>

EventWait(t, e) ==
    /\ IF e \in eventSet
         THEN /\ Requeue(t)
              /\ UNCHANGED eventWaiters
         ELSE /\ eventWaiters' = [eventWaiters EXCEPT ![e] = @ \cup {t}]
              /\ UNCHANGED tasks
    /\ UNCHANGED <<eventSet, owner, lockWaiters, condWaiters>>

\* The waiters are a Python set: they are woken in any order.
EventSet(t, e) ==
    /\ eventSet' = eventSet \cup {e}
    /\ \E q \in SetToSeqs(eventWaiters[e]) :
          tasks' = Append(tasks \o Wakeups(q), Wakeup(t))
    /\ eventWaiters' = [eventWaiters EXCEPT ![e] = {}]
    /\ UNCHANGED <<owner, lockWaiters, condWaiters>>

-----------------------------------------------------------------------------
(* Lock *)

\* mutant: asks whether anyone queues instead of whether the lock is held
LockAcquireNoQueue(t, l) ==
    /\ IF lockWaiters[l] = <<>>
         THEN /\ owner' = [owner EXCEPT ![l] = t]
              /\ Requeue(t)
              /\ UNCHANGED lockWaiters
         ELSE /\ lockWaiters' = [lockWaiters EXCEPT ![l] = Append(@, t)]
              /\ UNCHANGED <<owner, tasks>>
    /\ UNCHANGED <<eventSet, eventWaiters, condWaiters>>

LockAcquire(t, l) ==
    /\ IF owner[l] = NoTask
         THEN /\ owner' = [owner EXCEPT ![l] = t]
              /\ Requeue(t)
              /\ UNCHANGED lockWaiters
         ELSE /\ lockWaiters' = [lockWaiters EXCEPT ![l] = Append(@, t)]
              /\ UNCHANGED <<owner, tasks>>
    /\ UNCHANGED <<eventSet, eventWaiters, condWaiters>>

\* mutant: wakes the head of the queue but marks the lock free
HandOverFree(l, queue) ==
    /\ owner' = [owner EXCEPT ![l] = NoTask]
    /\ IF lockWaiters[l] # <<>>
         THEN /\ lockWaiters' = [lockWaiters EXCEPT ![l] = Tail(@)]
              /\ tasks' = Append(tasks, Wakeup(Head(lockWaiters[l]))) \o queue
         ELSE tasks' = tasks \o queue /\ UNCHANGED lockWaiters

\* mutant: pop() for popleft()
HandOverLast(l, queue) ==
    IF lockWaiters[l] # <<>>
      THEN /\ owner' = [owner EXCEPT ![l] = Last(lockWaiters[l])]
           /\ lockWaiters' = [lockWaiters EXCEPT ![l] = Front(@)]
           /\ tasks' = Append(tasks, Wakeup(Last(lockWaiters[l]))) \o queue
      ELSE /\ owner' = [owner EXCEPT ![l] = NoTask]
           /\ tasks' = tasks \o queue
           /\ UNCHANGED lockWaiters

\* Give the lock to the task at the head of its queue, or free it; the releaser
\* is not queued here: a releasing task is, one that waits on a condition is not.
HandOver(l, queue) ==
    IF lockWaiters[l] # <<>>
      THEN /\ owner' = [owner EXCEPT ![l] = Head(lockWaiters[l])]
           /\ lockWaiters' = [lockWaiters EXCEPT ![l] = Tail(@)]
           /\ tasks' = Append(tasks, Wakeup(Head(lockWaiters[l]))) \o queue
      ELSE /\ owner' = [owner EXCEPT ![l] = NoTask]
           /\ tasks' = tasks \o queue
           /\ UNCHANGED lockWaiters

\* A release by a task that does not own the lock is ignored: the task continues.
LockRelease(t, l) ==
    /\ IF owner[l] # t
         THEN /\ Requeue(t)
              /\ UNCHANGED <<owner, lockWaiters>>
         ELSE HandOver(l, <<Wakeup(t)>>)
    /\ UNCHANGED <<eventSet, eventWaiters, condWaiters>>

-----------------------------------------------------------------------------
(* Condition: both commands assert that the caller owns the lock; the modules *)
(* that issue them say what becomes of the loop when the assertion fails.     *)

OwnsLockOf(t, c) == owner[LockOf[c]] = t

ConditionWait(t, c) ==
    /\ OwnsLockOf(t, c)
    /\ condWaiters' = [condWaiters EXCEPT ![c] = @ \cup {t}]
    /\ HandOver(LockOf[c], <<>>)
    /\ UNCHANGED <<eventSet, eventWaiters>>

\* notify() moves one waiter of the condition, any one (set.pop), to the queue of
\* the lock; notify_all() moves them all.
ConditionNotify(t, c, all) ==
    /\ OwnsLockOf(t, c)
    /\ \E W \in SUBSET condWaiters[c] :
         /\ IF all THEN W = condWaiters[c]
                   ELSE Cardinality(W) = IF condWaiters[c] = {} THEN 0 ELSE 1
         /\ condWaiters' = [condWaiters EXCEPT ![c] = @ \ W]
         /\ \E q \in SetToSeqs(W) :
               lockWaiters' = [lockWaiters EXCEPT ![LockOf[c]] = @ \o q]
    /\ Requeue(t)
    /\ UNCHANGED <<eventSet, eventWaiters, owner>>

\* notify_nowait() and notify_all_nowait(), for command handlers: they do not ask who
\* owns the lock.  The waiters q leave their conditions in that order; the first one
\* gets the lock if it is free, the others queue for it.
PassTo(l, q) ==
    IF owner[l] = NoTask /\ q # <<>>
      THEN /\ owner' = [owner EXCEPT ![l] = Head(q)]
           /\ tasks' = Append(tasks, Wakeup(Head(q)))
           /\ lockWaiters' = [lockWaiters EXCEPT ![l] = @ \o Tail(q)]
      ELSE /\ lockWaiters' = [lockWaiters EXCEPT ![l] = @ \o q]
           /\ UNCHANGED <<owner, tasks>>

NotifyNowait(c) ==
    /\ \E W \in SUBSET condWaiters[c] :
         /\ Cardinality(W) = IF condWaiters[c] = {} THEN 0 ELSE 1
         /\ condWaiters' = [condWaiters EXCEPT ![c] = @ \ W]
         /\ \E q \in SetToSeqs(W) : PassTo(LockOf[c], q)
    /\ UNCHANGED <<eventSet, eventWaiters>>

\* notify_all_nowait() of c and then of d, two conditions of one lock
NotifyAllNowait(c, d) ==
    /\ \E q \in SetToSeqs(condWaiters[c]), r \in SetToSeqs(condWaiters[d]) :
          PassTo(LockOf[c], q \o r)
    /\ condWaiters' = [condWaiters EXCEPT ![c] = {}, ![d] = {}]
    /\ UNCHANGED <<eventSet, eventWaiters>>

-----------------------------------------------------------------------------
(* Cancellation: _remove_task_from_wait_states leaves each kind of primitive  *)
(* after the first structure that holds the task.                             *)

\* What f may become when one s of S, if there is any, drops a task from f[s].
DropFromOne(f, S, Drop(_)) ==
    IF S = {} THEN {f} ELSE {[f EXCEPT ![s] = Drop(@)] : s \in S}

\* mutant: leaves the task in the queue of a lock
RemoveFromOthers(t) ==
    /\ eventWaiters' \in DropFromOne(eventWaiters,
           {e \in Event : t \in eventWaiters[e]}, LAMBDA W : W \ {t})
    /\ condWaiters' \in DropFromOne(condWaiters,
           {c \in Cond : t \in condWaiters[c]}, LAMBDA W : W \ {t})
    /\ UNCHANGED <<eventSet, owner, lockWaiters>>

\* _remove_task_from_wait_states()
RemoveFromSync(t) ==
    /\ eventWaiters' \in DropFromOne(eventWaiters,
           {e \in Event : t \in eventWaiters[e]}, LAMBDA W : W \ {t})
    /\ lockWaiters' \in DropFromOne(lockWaiters,
           {l \in Lock : t \in ToSet(lockWaiters[l])}, LAMBDA q : RemoveFirst(q, t))
    /\ condWaiters' \in DropFromOne(condWaiters,
           {c \in Cond : t \in condWaiters[c]}, LAMBDA W : W \ {t})
    /\ UNCHANGED <<eventSet, owner>>

-----------------------------------------------------------------------------
(* Invariants of the primitives that hold whatever the programs do, and       *)
(* whatever is cancelled, because each handler keeps them.                    *)

\* Nobody queues for a free lock: a waiter left in the queue of a lock that no one
\* owns would never be woken, because only a release or a notify by the owner
\* serves the queue.
NoWaiterOnFreeLock == \A l \in Lock : lockWaiters[l] # <<>> => owner[l] # NoTask

\* Nobody waits for an event that is set: set() runs its wake-up loop once, so a
\* waiter registered after it would sleep forever.
NoWaiterOnSetEvent == \A e \in eventSet : eventWaiters[e] = {}

=============================================================================
