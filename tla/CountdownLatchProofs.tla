------------------------ MODULE CountdownLatchProofs ------------------------
(***************************************************************************)
(* Nobody passes a latch before it has been counted down, for any number   *)
(* of tasks and any count, as long as set_count() is called for closed     *)
(* latches only (ArmAnyTime = FALSE; with TRUE it is not so).              *)
(***************************************************************************)
EXTENDS CountdownLatch, SyncPrimitivesProofs

\* A task that is in no place is outside of the operations, or runs.
Placed ==
    /\ \A t \in Task : Nowhere(t) <=> (pc[t] = "idle" \/ running = t)
    /\ \A t \in Task : running = t => pc[t] # "idle"

\* The event tells that the count is zero.
OpenAtZero == latchEvent \in eventSet <=> count = 0

\* A task in wait() that the event no longer holds back has seen it set.
WokenBySet ==
    \A t \in Task : pc[t] = "wait" /\ t \notin eventWaiters[latchEvent] => latchEvent \in eventSet

LatchTypeOK ==
    /\ count \in 0..MaxCount
    /\ running \in TaskOrNone
    /\ pc \in [Task -> {"idle", "wait", "acquire", "set", "release"}]

LatchInv ==
    /\ SyncInv /\ LatchTypeOK
    /\ Apart /\ Placed
    /\ OpenAtZero /\ WokenBySet

-----------------------------------------------------------------------------

\* A new latch, and no call yet.
LEMMA InitLatch == Init => LatchInv
<1> SUFFICES ASSUME Init PROVE LatchInv OBVIOUS
<1>1. /\ Apart /\ \A x \in Task : Nowhere(x) BY InitPlaces DEF Init
<1>2. SyncTypeOK
  <2>1. <<>> \in Seq(Packet) /\ <<>> \in Seq(Task) OBVIOUS
  <2> QED BY <2>1, LatchAssumption DEF Init, SyncTypeOK, TaskOrNone
<1>3. NoWaiterOnFreeLock /\ NoWaiterOnSetEvent
  BY LatchAssumption DEF Init, NoWaiterOnFreeLock, NoWaiterOnSetEvent
<1>4. LatchTypeOK BY LatchAssumption DEF Init, LatchTypeOK, TaskOrNone
<1>5. Placed BY <1>1, SyncAssumption DEF Init, Placed
<1>6. OpenAtZero /\ WokenBySet BY DEF Init, OpenAtZero, WokenBySet
<1> QED BY <1>1, <1>2, <1>3, <1>4, <1>5, <1>6 DEF LatchInv, SyncInv

\* The part of an await that all operations share: the task is parked and does not run.
LEMMA AwaitPlaced ==
    ASSUME LatchInv, NEW t \in Task, Parks(t), running \in {t, NoTask}, running' = NoTask,
           NEW place \in {"wait", "acquire", "set", "release"},
           pc' = [pc EXCEPT ![t] = place]
    PROVE  Placed'
BY SyncAssumption DEF LatchInv, LatchTypeOK, Placed, Parks

\* A step that leaves the places, the programs and the event alone.
LEMMA LatchKept ==
    ASSUME LatchInv, Keeps, SyncInv', LatchTypeOK', UNCHANGED <<running, pc>>
    PROVE  Apart' /\ Placed'
BY DEF LatchInv, Placed, Keeps

\* Every step keeps the invariant; set_count() does because it arms closed latches only.
LEMMA NextLatch ==
    ASSUME LatchInv, [Next]_vars, ArmAnyTime = FALSE
    PROVE  LatchInv'
<1>1. /\ pc \in [Task -> {"idle", "wait", "acquire", "set", "release"}]
      /\ eventWaiters \in [Event -> SUBSET Task] /\ eventSet \subseteq Event
      /\ count \in 0..MaxCount /\ MaxCount \in Nat /\ SyncTypeOK
  BY LatchAssumption DEF LatchInv, LatchTypeOK, SyncInv, SyncTypeOK
<1>2. latchEvent \in Event /\ latchLock \in Lock BY LatchAssumption
<1>3. ASSUME Dispatch PROVE LatchInv'
  <2> DEFINE h == Head(tasks).task
  <2>1. /\ SyncInv' /\ Apart' /\ h \in Task /\ h \in Ready
        /\ \A x \in Task : Nowhere(x)' <=> (Nowhere(x) \/ x = h)
    BY <1>3, PopMoves DEF LatchInv, Dispatch
  <2>2. running' = h /\ UNCHANGED <<pc, count, syncVars>> /\ running = NoTask
    BY <1>3 DEF Dispatch
  <2> HIDE DEF h
  <2>3. ~Nowhere(h) BY <2>1 DEF Nowhere
  <2>4. Placed' BY <2>1, <2>2, <2>3, SyncAssumption DEF LatchInv, Placed
  <2> QED BY <2>1, <2>2, <2>4 DEF LatchInv, LatchTypeOK, TaskOrNone, OpenAtZero,
                                  WokenBySet, syncVars
<1>4. ASSUME NEW t \in Task, WaitCall(t) PROVE LatchInv'
  <2>1. /\ EventWait(t, latchEvent) /\ pc' = [pc EXCEPT ![t] = "wait"]
        /\ running = NoTask /\ running' = NoTask /\ count' = count /\ pc[t] = "idle"
    BY <1>4 DEF WaitCall, Call
  <2>2. Nowhere(t) BY <2>1 DEF LatchInv, Placed
  <2>3. SyncInv' /\ Parks(t)
    BY <1>1, <1>2, <2>1, <2>2, EventWaitInv, EventWaitParks DEF LatchInv
  <2>4. Placed' BY <2>1, <2>3, AwaitPlaced
  <2>5. OpenAtZero' /\ WokenBySet'
    BY <1>1, <1>2, <2>1 DEF LatchInv, EventWait, OpenAtZero, WokenBySet
  <2> QED BY <2>1, <2>3, <2>4, <2>5 DEF LatchInv, LatchTypeOK, TaskOrNone, Parks
<1>5. ASSUME NEW t \in Task, CountDownCall(t) PROVE LatchInv'
  <2>1. /\ LockAcquire(t, latchLock) /\ pc' = [pc EXCEPT ![t] = "acquire"]
        /\ running = NoTask /\ running' = NoTask /\ count' = count /\ pc[t] = "idle"
    BY <1>5 DEF CountDownCall, Call
  <2>2. Nowhere(t) BY <2>1 DEF LatchInv, Placed
  <2>3. SyncInv' /\ Parks(t)
    BY <1>1, <1>2, <2>1, <2>2, LockAcquireInv, LockAcquireParks DEF LatchInv
  <2>4. Placed' BY <2>1, <2>3, AwaitPlaced
  <2>5. UNCHANGED <<eventSet, eventWaiters>> BY <2>1 DEF LockAcquire
  <2>6. OpenAtZero' /\ WokenBySet'
    BY <1>1, <2>1, <2>5 DEF LatchInv, OpenAtZero, WokenBySet
  <2> QED BY <2>1, <2>3, <2>4, <2>6 DEF LatchInv, LatchTypeOK, TaskOrNone, Parks
<1>6. ASSUME NEW t \in Task, running = t, pc[t] # "wait", Release(t),
             UNCHANGED count \/ (count' \in 0..MaxCount /\ (count' = 0 <=> count = 0))
      PROVE LatchInv'
  <2>1. /\ LockRelease(t, latchLock) /\ pc' = [pc EXCEPT ![t] = "release"]
        /\ running' = NoTask
    BY <1>6 DEF Release, Await
  <2>2. Nowhere(t) BY <1>6 DEF LatchInv, Placed
  <2>3. SyncInv' /\ Parks(t)
    BY <1>1, <1>2, <2>1, <2>2, LockReleaseInv, LockReleaseParks DEF LatchInv
  <2>4. Placed' BY <1>6, <2>1, <2>3, AwaitPlaced
  <2>5. UNCHANGED <<eventSet, eventWaiters>> BY <2>1 DEF LockRelease, HandOver
  <2>6. OpenAtZero' /\ WokenBySet'
    BY <1>1, <1>6, <2>1, <2>5 DEF LatchInv, OpenAtZero, WokenBySet
  <2> QED BY <1>6, <2>1, <2>3, <2>4, <2>6 DEF LatchInv, LatchTypeOK, TaskOrNone, Parks
<1>7. ASSUME NEW t \in Task, CountDown(t) PROVE LatchInv'
  <2>1. CASE count # 1
    <3>1. Release(t) /\ running = t /\ pc[t] # "wait" BY <1>7, <2>1 DEF CountDown
    <3>2. count' \in 0..MaxCount /\ (count' = 0 <=> count = 0)
      BY <1>1, <1>7, <2>1 DEF CountDown
    <3> QED BY <1>6, <3>1, <3>2
  <2>2. CASE count = 1
    <3>1. /\ running = t /\ running' = NoTask /\ pc[t] = "acquire"
          /\ pc' = [pc EXCEPT ![t] = "set"] /\ EventSet(t, latchEvent) /\ count' = 0
      BY <1>7, <2>2 DEF CountDown, Await
    <3>2. Nowhere(t) BY <3>1 DEF LatchInv, Placed
    <3>3. SyncInv' /\ Parks(t)
      BY <1>1, <1>2, <3>1, <3>2, EventSetInv, EventSetParks DEF LatchInv
    <3>4. Placed' BY <3>1, <3>3, AwaitPlaced
    <3>5. OpenAtZero' /\ WokenBySet' BY <3>1 DEF EventSet, OpenAtZero, WokenBySet
    <3>6. LatchTypeOK' BY <1>1, <3>1 DEF LatchInv, LatchTypeOK, TaskOrNone
    <3> QED BY <3>3, <3>4, <3>5, <3>6 DEF LatchInv, Parks
  <2> QED BY <2>1, <2>2
<1>8. ASSUME NEW t \in Task, AfterSet(t) PROVE LatchInv'
  BY <1>6, <1>8 DEF AfterSet
<1>9. ASSUME NEW t \in Task, Return(t) PROVE LatchInv'
  <2>1. /\ running = t /\ running' = NoTask /\ pc' = [pc EXCEPT ![t] = "idle"]
        /\ UNCHANGED <<tasks, syncVars, count>>
    BY <1>9 DEF Return, Await
  <2>2. SyncInv' /\ Keeps BY <2>1, NothingMoves DEF LatchInv
  <2>3. Placed' BY <1>1, <2>1, <2>2, SyncAssumption DEF LatchInv, Placed, Keeps
  <2>4. OpenAtZero' /\ WokenBySet'
    BY <1>1, <2>1 DEF LatchInv, OpenAtZero, WokenBySet, syncVars
  <2> QED BY <2>1, <2>2, <2>3, <2>4 DEF LatchInv, LatchTypeOK, TaskOrNone, Keeps
<1>10. ASSUME CountdownNowait PROVE LatchInv'
  <2>1. count > 0 /\ count' = count - 1
        /\ UNCHANGED <<owner, lockWaiters, condWaiters, running, pc>>
    BY <1>10 DEF CountdownNowait
  <2>2. LatchTypeOK' BY <1>1, <2>1 DEF LatchInv, LatchTypeOK
  <2>3. CASE count # 1
    <3>1. UNCHANGED <<tasks, syncVars>> BY <1>10, <2>3 DEF CountdownNowait, syncVars
    <3>2. SyncInv' /\ Keeps BY <3>1, NothingMoves DEF LatchInv
    <3>3. Apart' /\ Placed' BY <2>1, <2>2, <3>2, LatchKept
    <3>4. OpenAtZero' /\ WokenBySet'
      BY <1>1, <2>1, <2>3, <3>1 DEF LatchInv, OpenAtZero, WokenBySet, syncVars
    <3> QED BY <2>2, <3>2, <3>3, <3>4 DEF LatchInv
  <2>4. CASE count = 1
    <3>1. PICK q \in SetToSeqs(eventWaiters[latchEvent]) : tasks' = tasks \o Wakeups(q)
      BY <1>10, <2>4 DEF CountdownNowait
    <3>2. /\ eventWaiters' = [eventWaiters EXCEPT ![latchEvent] = {}]
          /\ eventSet' = eventSet \cup {latchEvent}
      BY <1>10, <2>4 DEF CountdownNowait
    <3>3. q \in Seq(Task) /\ ToSet(q) = eventWaiters[latchEvent] /\ IsInjective(q)
      BY <1>1, <1>2, SetToSeqsMembers, SeqMonotonic
    <3>4. Wakeups(q) \in Seq(Packet) /\ Names(Wakeups(q)) = q BY <3>3, NamesWakeups
    <3>5. tasks' \in Seq(Packet) BY <1>1, <3>1, <3>4, ConcatProperties DEF SyncTypeOK
    <3>6. Ready' = Ready \cup eventWaiters[latchEvent] /\ IsInjective(Names(tasks))'
      <4>1. ToSet(q) \cap Ready = {} BY <1>2, <3>3 DEF LatchInv, Apart
      <4> QED BY <1>1, <3>1, <3>3, <3>4, <4>1, ReadyConcat DEF SyncTypeOK, LatchInv, Apart
    <3>7. \A l \in Lock : Queuing(l)' = Queuing(l) BY <2>1 DEF Queuing
    <3>8. Apart' BY <1>1, <1>2, <2>1, <3>2, <3>6, <3>7 DEF LatchInv, Apart
    <3>9. \A x \in Task : Nowhere(x)' <=> Nowhere(x)
      BY <1>1, <1>2, <2>1, <3>2, <3>6, <3>7 DEF Nowhere
    <3>10. SyncInv'
      BY <1>1, <1>2, <2>1, <3>2, <3>5
         DEF LatchInv, SyncInv, SyncTypeOK, NoWaiterOnFreeLock, NoWaiterOnSetEvent
    <3>11. Placed' BY <2>1, <2>2, <3>8, <3>9, <3>10, LatchKept DEF Keeps
    <3>12. OpenAtZero' /\ WokenBySet' BY <2>1, <2>4, <3>2 DEF OpenAtZero, WokenBySet
    <3> QED BY <2>2, <3>8, <3>10, <3>11, <3>12 DEF LatchInv
  <2> QED BY <2>3, <2>4
<1>11. ASSUME NEW n \in 0..MaxCount, SetCount(n) PROVE LatchInv'
  <2>1. /\ UNCHANGED <<tasks, syncVars, running, pc>> /\ count' = n /\ n > 0 /\ eventSet = {}
    BY <1>11 DEF SetCount
  <2>2. SyncInv' /\ Keeps BY <2>1, NothingMoves DEF LatchInv
  <2>3. LatchTypeOK' BY <1>1, <2>1 DEF LatchInv, LatchTypeOK
  <2>4. OpenAtZero' /\ WokenBySet'
    BY <1>1, <2>1 DEF LatchInv, OpenAtZero, WokenBySet, syncVars
  <2> QED BY <2>1, <2>2, <2>3, <2>4, LatchKept DEF LatchInv
<1>12. CASE UNCHANGED vars
  <2>1. SyncInv' /\ Keeps BY <1>12, NothingMoves DEF LatchInv, vars
  <2> QED BY <1>12, <2>1 DEF LatchInv, LatchTypeOK, vars, Placed, Keeps, OpenAtZero,
                             WokenBySet, syncVars
<1> QED BY <1>3, <1>4, <1>5, <1>7, <1>8, <1>9, <1>10, <1>11, <1>12 DEF Next, Turn

-----------------------------------------------------------------------------

\* The counter stays between zero and its bound, and the latch and its lock hold tasks only
\* (count_down() and countdown_nowait() never go below zero).
THEOREM LatchTypes == ASSUME ArmAnyTime = FALSE PROVE Spec => []TypeOK
<1>1. LatchInv => TypeOK BY DEF LatchInv, SyncInv, LatchTypeOK, TypeOK
<1>2. LatchInv /\ [Next]_vars => LatchInv' BY NextLatch
<1> QED BY <1>1, <1>2, InitLatch, PTL DEF Spec

\* Whoever leaves wait() leaves it at count zero: only a task that runs returns, the event
\* holds such a task back no longer, so the event is set.
LEMMA PassStep ==
    ASSUME LatchInv, [Next]_vars, NEW t \in Task, pc[t] = "wait", pc'[t] = "idle"
    PROVE  count = 0
<1>1. pc \in [Task -> {"idle", "wait", "acquire", "set", "release"}]
  BY DEF LatchInv, LatchTypeOK
<1>2. running = t
  BY <1>1 DEF Next, vars, Dispatch, WaitCall, CountDownCall, Call, Turn, CountDown,
              AfterSet, Release, Return, Await, CountdownNowait, SetCount
<1>3. t \notin eventWaiters[latchEvent]
  BY <1>2, LatchAssumption DEF LatchInv, Placed, Nowhere
<1> QED BY <1>3 DEF LatchInv, WokenBySet, OpenAtZero

\* "This coroutine will not complete until count_down() has been called the specified
\* number of times" (CountdownLatch.wait), however the calls of count_down(),
\* countdown_nowait() and wait() interleave.
THEOREM NobodyPassesEarly == ASSUME ArmAnyTime = FALSE PROVE Spec => PassesAtZero
<1>1. LatchInv /\ [Next]_vars => LatchInv' BY NextLatch
<1>2. LatchInv /\ [Next]_vars =>
          [\A t \in Task : pc[t] = "wait" /\ pc'[t] = "idle" => count = 0]_vars
  BY PassStep
<1> QED BY <1>1, <1>2, InitLatch, PTL DEF Spec, PassesAtZero

=============================================================================
