--------------------------- MODULE CountdownLatch ---------------------------
(***************************************************************************)
(* CountdownLatch (synchronization.py): a counter, an Event that is set    *)
(* when it reaches zero, and a Lock around the decrement.  flowno keeps    *)
(* two of them per node: a producer waits on one until its consumers have  *)
(* read its data, and arms it again with set_count().                      *)
(***************************************************************************)
EXTENDS SyncPrimitives

CONSTANTS InitialCount, MaxCount,
          Calls,         \* the operations the tasks call
          ArmAnyTime,    \* set_count() is called with any count, also once the latch
                         \* has opened; else only to change the count of a closed one
          latchLock, latchEvent

ASSUME LatchAssumption ==
    /\ MaxCount \in Nat /\ InitialCount \in 0..MaxCount
    /\ ArmAnyTime \in BOOLEAN
    /\ Lock = {latchLock} /\ Event = {latchEvent}

VARIABLES
    count,     \* CountdownLatch._count
    running,   \* the task that the loop has resumed
    pc         \* the await each task is suspended in

vars == <<tasks, syncVars, count, running, pc>>

TypeOK ==
    /\ SyncTypeOK
    /\ count \in 0..MaxCount
    /\ running \in TaskOrNone
    /\ pc \in [Task -> {"idle", "wait", "acquire", "set", "release"}]

\* A latch that is built with count 0 is open.
Init ==
    /\ eventSet = IF InitialCount = 0 THEN {latchEvent} ELSE {}
    /\ eventWaiters = [e \in Event |-> {}]
    /\ owner = [l \in Lock |-> NoTask]
    /\ lockWaiters = [l \in Lock |-> <<>>]
    /\ condWaiters = [c \in Cond |-> {}]
    /\ tasks = <<>>
    /\ count = InitialCount
    /\ running = NoTask
    /\ pc = [t \in Task |-> "idle"]

-----------------------------------------------------------------------------

Dispatch ==
    /\ running = NoTask
    /\ tasks # <<>>
    /\ running' = Head(tasks).task
    /\ tasks' = Tail(tasks)
    /\ UNCHANGED <<syncVars, count, pc>>

Call(t, o, place) ==
    /\ o \in Calls
    /\ running = NoTask
    /\ pc[t] = "idle"
    /\ pc' = [pc EXCEPT ![t] = place]
    /\ UNCHANGED <<count, running>>

\* wait()
WaitCall(t) == Call(t, "wait", "wait") /\ EventWait(t, latchEvent)

\* count_down(): its first await is the lock.
CountDownCall(t) == Call(t, "count_down", "acquire") /\ LockAcquire(t, latchLock)

Await(t, place) ==
    /\ running' = NoTask
    /\ pc' = [pc EXCEPT ![t] = place]

Release(t) ==
    /\ Await(t, "release")
    /\ LockRelease(t, latchLock)

\* mutant: sets the event one count too early
CountDownEarly(t) ==
    /\ running = t /\ pc[t] = "acquire"
    /\ count' = IF count = 0 THEN 0 ELSE count - 1
    /\ IF count \in {1, 2}
         THEN Await(t, "set") /\ EventSet(t, latchEvent)
         ELSE Release(t)

\* count_down() with the lock: at zero it only warns or raises, otherwise it decrements
\* and, at zero, sets the event before it releases the lock.
CountDown(t) ==
    /\ running = t /\ pc[t] = "acquire"
    /\ count' = IF count = 0 THEN 0 ELSE count - 1
    /\ IF count = 1
         THEN Await(t, "set") /\ EventSet(t, latchEvent)
         ELSE Release(t)

AfterSet(t) ==
    /\ running = t /\ pc[t] = "set"
    /\ Release(t)
    /\ UNCHANGED count

Return(t) ==
    /\ running = t /\ pc[t] \in {"wait", "release"}
    /\ Await(t, "idle")
    /\ UNCHANGED <<tasks, syncVars, count>>

\* mutant: sets the event and forgets the waiters
CountdownNowaitQuiet ==
    /\ "countdown_nowait" \in Calls
    /\ running = NoTask
    /\ count > 0
    /\ count' = count - 1
    /\ eventSet' = IF count = 1 THEN Event ELSE eventSet
    /\ UNCHANGED <<tasks, eventWaiters, owner, lockWaiters, condWaiters, running, pc>>

\* countdown_nowait(), from the handler of a command of another task: it takes no lock.
CountdownNowait ==
    /\ "countdown_nowait" \in Calls
    /\ running = NoTask
    /\ count > 0
    /\ count' = count - 1
    /\ IF count = 1
         THEN /\ eventSet' = eventSet \cup {latchEvent}
              /\ \E q \in SetToSeqs(eventWaiters[latchEvent]) : tasks' = tasks \o Wakeups(q)
              /\ eventWaiters' = [eventWaiters EXCEPT ![latchEvent] = {}]
         ELSE UNCHANGED <<eventSet, eventWaiters, tasks>>
    /\ UNCHANGED <<owner, lockWaiters, condWaiters, running, pc>>

\* set_count(): "should only be called when no tasks are waiting on the latch".
SetCount(n) ==
    /\ "set_count" \in Calls
    /\ running = NoTask
    /\ \A t \in Task : pc[t] # "wait"
    /\ ArmAnyTime \/ (n > 0 /\ eventSet = {})
    /\ count' = n
    /\ UNCHANGED <<tasks, syncVars, running, pc>>

Turn(t) == CountDown(t) \/ AfterSet(t) \/ Return(t)

Next ==
    \/ Dispatch
    \/ \E t \in Task : WaitCall(t) \/ CountDownCall(t) \/ Turn(t)
    \/ CountdownNowait
    \/ \E n \in 0..MaxCount : SetCount(n)

Spec == Init /\ [][Next]_vars

\* The loop keeps running, and whoever is needed keeps counting down.
FairSpec ==
    /\ Spec
    /\ WF_vars(Dispatch)
    /\ \A t \in Task : WF_vars(Turn(t))
    /\ WF_vars(CountdownNowait)

-----------------------------------------------------------------------------

\* "This coroutine will not complete until count_down() has been called the specified
\* number of times" (wait).
PassesAtZero ==
    [][\A t \in Task : pc[t] = "wait" /\ pc'[t] = "idle" => count = 0]_vars

\* If the count keeps going down everybody who waits is released.
WaitEnds == \A t \in Task : pc[t] = "wait" ~> pc[t] = "idle"

=============================================================================
