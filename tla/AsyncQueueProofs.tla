-------------------------- MODULE AsyncQueueProofs --------------------------
(***************************************************************************)
(* The queues hold what was put into them, each item of an AsyncSetQueue   *)
(* or AsyncMapQueue once, every call takes effect at one moment, and no    *)
(* wake-up is lost, for any number of tasks, items and calls.              *)
(***************************************************************************)
EXTENDS AsyncQueue, SyncPrimitivesProofs

\* An AsyncSetQueue has room for every item, as each one of flowno has: it is built
\* without a maxsize.  With one, its put() may add an item twice, because it looks for the
\* item before it waits for room only.
SetUnbounded ==
    \A v \in Variants :
        v.class = "set" => IsFiniteSet(Item) /\ Cardinality(Item) <= v.max

QueueTypeOK ==
    /\ variant \in Variants
    /\ causes \in [Item -> 0..MaxCauses]
    /\ items \in Seq(Item)
    /\ closed \in BOOLEAN
    /\ running \in TaskOrNone
    /\ call \in [Task -> Operation \cup {Idle}]
    /\ pc \in [Task -> {"idle", "acquire", "wait", "closing", "leave", "release"}]
    /\ reply \in [Task -> Reply]
    /\ interrupted \subseteq Task

\* A task that is in no place is outside of the operations, or runs.
Placed ==
    /\ \A t \in Task : Nowhere(t) <=> (pc[t] = "idle" \/ running = t)
    /\ \A t \in Task : running = t => pc[t] # "idle"

\* A call is decided once it has left its loop, and forgotten when it has returned.
Phases ==
    \A t \in Task : /\ pc[t] = "idle" <=> call[t] = Idle
                    /\ pc[t] \in {"idle", "acquire", "wait"} => reply[t] = Pending

\* A put() of an AsyncSetQueue with room for all never waits: what it saw of the items is
\* still so when it adds its own.
SetOnce ==
    SetUnbounded /\ variant.class = "set" =>
        /\ IsInjective(items)
        /\ \A t \in Task : call[t].op = "put" => pc[t] # "wait"

\* A key of an AsyncMapQueue is in the queue, or one call carries it, or it has no causes.
MapOnce ==
    variant.class = "map" =>
        /\ IsInjective(items)
        /\ \A i \in Item : causes[i] = 0 => i \notin ToSet(items)
        /\ \A t \in Task, i \in Item :
              Carries(t, i) => /\ causes[i] # 0 /\ i \notin ToSet(items)
                               /\ \A u \in Task : Carries(u, i) => u = t

CallsInv ==
    /\ SyncInv /\ QueueTypeOK
    /\ Apart /\ Placed /\ Phases
    /\ SetOnce /\ MapOnce

-----------------------------------------------------------------------------
(* The items.                                                                 *)

\* The values that the operations test are told apart by their fields.
LEMMA Values ==
    /\ \A o \in Operation : o.op # "none" /\ o # Idle
    /\ Pending \in Reply /\ QueueClosed \in Reply /\ QueueClosed # Pending
    /\ \A i \in Item \cup {NoItem} : Ok(i) \in Reply
    /\ \A i : Ok(i) # Pending /\ Ok(i) # QueueClosed
    /\ \A i, j : Ok(i) = Ok(j) => i = j
<1>1. \A o \in Operation : o.op # "none" BY DEF Operation
<1>2. Idle.op = "none" BY DEF Idle
<1>3. Pending.kind = "pending" /\ QueueClosed.kind = "closed" BY DEF Pending, QueueClosed
<1>4. \A i : Ok(i).kind = "ok" /\ Ok(i).item = i BY DEF Ok
<1>5. Pending \in Reply /\ QueueClosed \in Reply BY DEF Reply
<1>6. \A i \in Item \cup {NoItem} : Ok(i) \in Reply BY DEF Reply
<1>7. QueueClosed # Pending BY <1>3
<1>8. \A i : Ok(i) # Pending /\ Ok(i) # QueueClosed BY <1>3, <1>4
<1>9. \A i, j : Ok(i) = Ok(j) => i = j BY <1>4
<1>10. \A o \in Operation : o # Idle BY <1>1, <1>2
<1> QED BY <1>1, <1>5, <1>6, <1>7, <1>8, <1>9, <1>10

\* There is room in an AsyncSetQueue for an item that it does not hold.
LEMMA RoomForAll ==
    ASSUME SetUnbounded, variant \in Variants, variant.class = "set", items \in Seq(Item),
           IsInjective(items), NEW i \in Item, i \notin ToSet(items)
    PROVE  ~Full
<1> DEFINE n == Len(items)
           T == Item \ {i}
<1>1. n \in Nat /\ DOMAIN items = 1..n /\ items \in [1..n -> Item]
  BY LenProperties, SeqDef
<1>2. variant.max \in Nat BY QueueAssumption
<1>3. \A k \in 1..n : items[k] # i BY <1>1, Zenon DEF ToSet
<1>4. /\ IsFiniteSet(T) /\ Cardinality(T) = Cardinality(Item) - 1 /\ Cardinality(Item) \in Nat
  BY FS_RemoveElement, FS_CardinalityType DEF SetUnbounded
<1>5. Cardinality(Item) <= variant.max BY DEF SetUnbounded
<1>6. Full <=> n >= variant.max BY DEF Full
<1> HIDE DEF n
<1>7. items \in [1..n -> T] BY <1>1, <1>3
<1> HIDE DEF T
<1>8. items \in Injection(1..n, T) BY <1>1, <1>7, Zenon DEF IsInjective, Injection
<1>9. Cardinality(1..n) <= Cardinality(T) BY <1>4, <1>8, FS_Injection
<1>10. Cardinality(1..n) = n BY <1>1, FS_Interval
<1>11. n < variant.max BY <1>1, <1>2, <1>4, <1>5, <1>9, <1>10
<1> QED BY <1>1, <1>2, <1>6, <1>11

-----------------------------------------------------------------------------
(* The steps of the operations.  Each lemma is about the calls and the items; *)
(* what happens to the places is known from the handlers.                     *)

\* What the handlers leave for the lemmas about the calls to show.
LEMMA Assembled ==
    ASSUME SyncInv', Apart', Placed', QueueTypeOK', Phases', SetOnce', MapOnce'
    PROVE  CallsInv'
BY DEF CallsInv

\* A task that runs is parked in its next await.
LEMMA AwaitPlaced ==
    ASSUME CallsInv, NEW t \in Task, Parks(t), running \in {t, NoTask}, running' = NoTask,
           NEW place \in {"acquire", "wait", "closing", "leave", "release"},
           pc' = [pc EXCEPT ![t] = place]
    PROVE  Apart' /\ Placed'
BY SyncAssumption DEF CallsInv, QueueTypeOK, Placed, Parks

\* Leaving the places and the program counters alone.
LEMMA PlacedKept ==
    ASSUME CallsInv, Keeps, UNCHANGED <<running, pc>>
    PROVE  Apart' /\ Placed'
BY DEF CallsInv, Placed, Keeps

\* Waiting changes nothing but the place of the task.
LEMMA WaitCalls ==
    ASSUME CallsInv, NEW t \in Task, NEW c \in Cond, running = t, Wait(t, c),
           UNCHANGED mapVars, pc[t] \in {"acquire", "wait"},
           SetUnbounded /\ variant.class = "set" => call[t].op # "put"
    PROVE  CallsInv'
<1>1. /\ ConditionWait(t, c) /\ running' = NoTask /\ pc' = [pc EXCEPT ![t] = "wait"]
      /\ UNCHANGED <<variant, causes, items, closed, call, reply, interrupted>>
  BY DEF Wait, Await, queueVars, mapVars
<1>2. Nowhere(t) BY DEF CallsInv, Placed
<1>3. SyncInv' /\ Parks(t)
  BY <1>1, <1>2, ConditionWaitInv, ConditionWaitParks DEF CallsInv, SyncInv
<1>4. Apart' /\ Placed' BY <1>1, <1>3, AwaitPlaced
<1>5. QueueTypeOK' BY <1>1 DEF CallsInv, QueueTypeOK, TaskOrNone
<1>6. Phases' BY <1>1 DEF CallsInv, QueueTypeOK, Phases
<1>7. SetOnce' BY <1>1 DEF CallsInv, QueueTypeOK, SetOnce
<1>8. MapOnce' BY <1>1 DEF CallsInv, MapOnce, Carries
<1> QED BY <1>3, <1>4, <1>5, <1>6, <1>7, <1>8, Assembled

\* Leaving, with what the call is decided on already or with a decision that takes and
\* puts no item.
LEMMA LeaveCalls ==
    ASSUME CallsInv, NEW t \in Task, NEW r \in Reply, running = t, Leave(t, r),
           UNCHANGED mapVars, pc[t] \in {"acquire", "wait", "leave"},
           r = reply[t] \/ (r # Pending /\ (call[t].op = "get" => r = QueueClosed))
    PROVE  CallsInv'
<1>1. /\ LockRelease(t, queueLock) /\ running' = NoTask /\ pc' = [pc EXCEPT ![t] = "release"]
      /\ reply' = [reply EXCEPT ![t] = r]
      /\ UNCHANGED <<variant, causes, items, closed, call, interrupted>>
  BY DEF Leave, Await, Decide, mapVars
<1>2. Nowhere(t) BY DEF CallsInv, Placed
<1>3. SyncInv' /\ Parks(t)
  BY <1>1, <1>2, LockReleaseInv, LockReleaseParks, QueueAssumption DEF CallsInv, SyncInv
<1>4. Apart' /\ Placed' BY <1>1, <1>3, AwaitPlaced
<1>5. QueueTypeOK' BY <1>1 DEF CallsInv, QueueTypeOK, TaskOrNone
<1>6. Phases' BY <1>1 DEF CallsInv, QueueTypeOK, Phases
<1>7. SetOnce' BY <1>1 DEF CallsInv, QueueTypeOK, SetOnce
<1>8. \A u \in Task, i \in Item : Carries(u, i)' => Carries(u, i)
  <2>1. reply \in [Task -> Reply] BY DEF CallsInv, QueueTypeOK
  <2> QED BY <1>1, <2>1, Values DEF Carries
<1>9. MapOnce' BY <1>1, <1>8 DEF CallsInv, MapOnce
<1> QED BY <1>3, <1>4, <1>5, <1>6, <1>7, <1>9, Assembled

\* put() adds the item that its call carries.
LEMMA PutCalls ==
    ASSUME CallsInv, NEW t \in Task, running = t, call[t].op = "put", PutItem(t),
           UNCHANGED mapVars, pc[t] \in {"acquire", "wait"},
           SetUnbounded /\ variant.class = "set" => call[t].item \notin ToSet(items)
    PROVE  CallsInv'
<1> DEFINE i == call[t].item
<1>1. /\ ConditionNotify(t, notEmpty, FALSE) /\ running' = NoTask
      /\ pc' = [pc EXCEPT ![t] = "leave"]
      /\ reply' = [reply EXCEPT ![t] = Ok(i)] /\ items' = Append(items, i)
      /\ UNCHANGED <<variant, causes, closed, call, interrupted>>
  BY DEF PutItem, Await, Decide, mapVars
<1>2. Nowhere(t) BY DEF CallsInv, Placed
<1>3. notEmpty \in Cond /\ FALSE \in BOOLEAN BY QueueAssumption
<1>4. SyncInv' /\ Parks(t)
  BY <1>1, <1>2, <1>3, ConditionNotifyInv, ConditionNotifyParks DEF CallsInv, SyncInv
<1>5. Apart' /\ Placed' BY <1>1, <1>4, AwaitPlaced
<1>6. i \in Item /\ reply[t] = Pending /\ items \in Seq(Item)
  <2>1. call[t] \in Operation \cup {Idle} BY DEF CallsInv, QueueTypeOK
  <2> QED BY <2>1 DEF CallsInv, QueueTypeOK, Phases, Operation, Idle
<1>7. Carries(t, i) BY <1>6 DEF Carries
<1> HIDE DEF i
<1>8. /\ items' \in Seq(Item) /\ ToSet(items') = ToSet(items) \cup {i}
      /\ IsInjective(items) /\ i \notin ToSet(items) => IsInjective(items')
  BY <1>1, <1>6, AppendProperties, AppendMembers
<1>9. reply \in [Task -> Reply] /\ Ok(i) \in Reply /\ Ok(i) # Pending
  BY <1>6, Values DEF CallsInv, QueueTypeOK
<1>10. QueueTypeOK' BY <1>1, <1>8, <1>9 DEF CallsInv, QueueTypeOK, TaskOrNone
<1>11. Phases' BY <1>1 DEF CallsInv, QueueTypeOK, Phases
<1>12. SetOnce' BY <1>1, <1>8 DEF CallsInv, QueueTypeOK, SetOnce, i
<1>13. ASSUME NEW u \in Task, NEW k \in Item, Carries(u, k)'
       PROVE  u # t /\ Carries(u, k)
  BY <1>1, <1>9, <1>13 DEF Carries
<1>14. MapOnce' BY <1>1, <1>6, <1>7, <1>8, <1>13 DEF CallsInv, MapOnce
<1> QED BY <1>4, <1>5, <1>10, <1>11, <1>12, <1>14, Assembled

\* get() takes the item at the head, which nobody carries, and carries it.
LEMMA GetCalls ==
    ASSUME CallsInv, NEW t \in Task, running = t, call[t].op = "get", GetItem(t),
           items # <<>>, UNCHANGED mapVars, pc[t] \in {"acquire", "wait"}
    PROVE  CallsInv'
<1> DEFINE i == Head(items)
<1>1. /\ ConditionNotify(t, notFull, FALSE) /\ running' = NoTask
      /\ pc' = [pc EXCEPT ![t] = "leave"]
      /\ reply' = [reply EXCEPT ![t] = Ok(i)] /\ items' = Tail(items)
      /\ UNCHANGED <<variant, causes, closed, call, interrupted>>
  BY DEF GetItem, Await, Decide, mapVars
<1>2. Nowhere(t) BY DEF CallsInv, Placed
<1>3. notFull \in Cond /\ FALSE \in BOOLEAN BY QueueAssumption
<1>4. SyncInv' /\ Parks(t)
  BY <1>1, <1>2, <1>3, ConditionNotifyInv, ConditionNotifyParks DEF CallsInv, SyncInv
<1>5. Apart' /\ Placed' BY <1>1, <1>4, AwaitPlaced
<1>6. items \in Seq(Item) BY DEF CallsInv, QueueTypeOK
<1>7. i \in Item /\ Tail(items) \in Seq(Item) BY <1>6, HeadTailProperties
<1>8. /\ i \in ToSet(items) /\ ToSet(items) = ToSet(Tail(items)) \cup {i}
      /\ IsInjective(items) => IsInjective(Tail(items)) /\ i \notin ToSet(Tail(items))
  BY <1>6, TailMembers
<1> HIDE DEF i
<1>9. reply \in [Task -> Reply] /\ Ok(i) \in Reply /\ Ok(i) # Pending
  BY <1>7, Values DEF CallsInv, QueueTypeOK
<1>10. QueueTypeOK' BY <1>1, <1>7, <1>9 DEF CallsInv, QueueTypeOK, TaskOrNone
<1>11. Phases' BY <1>1 DEF CallsInv, QueueTypeOK, Phases
<1>12. SetOnce' BY <1>1, <1>8 DEF CallsInv, QueueTypeOK, SetOnce
<1>13. ASSUME NEW u \in Task, NEW k \in Item, Carries(u, k)'
       PROVE  (u = t /\ k = i) \/ (u # t /\ Carries(u, k))
  BY <1>1, <1>9, <1>13, Values DEF Carries
<1>14. MapOnce' BY <1>1, <1>7, <1>8, <1>13 DEF CallsInv, MapOnce
<1> QED BY <1>4, <1>5, <1>10, <1>11, <1>12, <1>14, Assembled

\* close(): the end of the queue is decided in the first of its two steps.
LEMMA CloseCalls ==
    ASSUME CallsInv, NEW t \in Task, CloseBody(t) \/ CloseRest(t), UNCHANGED mapVars
    PROVE  CallsInv'
<1>1. PICK c \in Cond, place \in {"closing", "leave"} :
          /\ ConditionNotify(t, c, TRUE) /\ running = t /\ running' = NoTask
          /\ pc[t] \in {"acquire", "wait", "closing"} /\ pc' = [pc EXCEPT ![t] = place]
  BY QueueAssumption DEF CloseBody, CloseRest, InBody, Await
<1>2. /\ closed' \in BOOLEAN /\ UNCHANGED <<variant, causes, items, call, interrupted>>
      /\ \/ reply' = reply
         \/ call[t].op = "close" /\ reply' = [reply EXCEPT ![t] = Ok(NoItem)]
  BY DEF CallsInv, QueueTypeOK, CloseBody, CloseRest, InBody, Decide, queueVars, mapVars
<1>3. Nowhere(t) BY <1>1 DEF CallsInv, Placed
<1>4. TRUE \in BOOLEAN OBVIOUS
<1>5. SyncInv' /\ Parks(t)
  BY <1>1, <1>3, <1>4, ConditionNotifyInv, ConditionNotifyParks DEF CallsInv, SyncInv
<1>6. Apart' /\ Placed' BY <1>1, <1>5, AwaitPlaced
<1>7. reply \in [Task -> Reply] /\ Ok(NoItem) \in Reply BY Values DEF CallsInv, QueueTypeOK
<1>8. QueueTypeOK' BY <1>1, <1>2, <1>7 DEF CallsInv, QueueTypeOK, TaskOrNone
<1>9. Phases' BY <1>1, <1>2 DEF CallsInv, QueueTypeOK, Phases
<1>10. SetOnce' BY <1>1, <1>2 DEF CallsInv, QueueTypeOK, SetOnce
<1>11. \A u \in Task, i \in Item : Carries(u, i)' => Carries(u, i)
  BY <1>2, <1>7 DEF Carries
<1>12. MapOnce' BY <1>2, <1>11 DEF CallsInv, MapOnce
<1> QED BY <1>5, <1>6, <1>8, <1>9, <1>10, <1>12, Assembled

\* An operation returns: the causes of the key that AsyncMapQueue.get() carries are its own.
LEMMA ReturnCalls ==
    ASSUME CallsInv, NEW t \in Task, Return(t)
    PROVE  CallsInv'
<1>1. /\ running = t /\ pc[t] = "release" /\ running' = NoTask
      /\ pc' = [pc EXCEPT ![t] = "idle"]
      /\ call' = [call EXCEPT ![t] = Idle] /\ reply' = [reply EXCEPT ![t] = Pending]
      /\ UNCHANGED <<variant, tasks, syncVars, items, closed, interrupted>>
  BY DEF Return, Await, Decide
<1>2. SyncInv' /\ Keeps BY <1>1, NothingMoves DEF CallsInv
<1>3. Apart' /\ Placed'
  BY <1>1, <1>2, SyncAssumption DEF CallsInv, QueueTypeOK, Placed, Keeps
<1>4. call \in [Task -> Operation \cup {Idle}] /\ reply \in [Task -> Reply]
      /\ causes \in [Item -> 0..MaxCauses]
  BY DEF CallsInv, QueueTypeOK
<1>5. causes' \in [Item -> 0..MaxCauses]
  BY <1>4, QueueAssumption DEF Return, Pop
<1>6. QueueTypeOK' BY <1>1, <1>4, <1>5, Values DEF CallsInv, QueueTypeOK, TaskOrNone
<1>7. Phases' BY <1>1, <1>4 DEF CallsInv, QueueTypeOK, Phases
<1>8. SetOnce' BY <1>1, <1>4 DEF CallsInv, QueueTypeOK, SetOnce, Idle
<1>9. \A u \in Task, i \in Item : Carries(u, i)' => u # t /\ Carries(u, i)
  BY <1>1, <1>4 DEF Carries, Idle
<1>10. \A i \in Item : \/ causes'[i] = causes[i]
                       \/ variant.class = "map" /\ causes'[i] = 0 /\ Carries(t, i)
  <2>1. CASE variant.class = "map" /\ call[t].op = "get" /\ reply[t].kind = "ok"
    <3>1. causes' = [causes EXCEPT ![reply[t].item] = 0] BY <2>1 DEF Return, Pop
    <3>2. reply[t] = Ok(reply[t].item)
      <4>1. reply[t] \in Reply BY <1>4
      <4> QED BY <2>1, <4>1 DEF Reply, Ok, Pending, QueueClosed
    <3> QED BY <1>4, <2>1, <3>1, <3>2 DEF Carries
  <2>2. CASE ~(variant.class = "map" /\ call[t].op = "get" /\ reply[t].kind = "ok")
    BY <2>2 DEF Return
  <2> QED BY <2>1, <2>2
<1>11. MapOnce' BY <1>1, <1>9, <1>10 DEF CallsInv, MapOnce
<1> QED BY <1>2, <1>3, <1>6, <1>7, <1>8, <1>11, Assembled

\* The first await of an operation is the lock; a put() of an AsyncMapQueue carries a key
\* from here on, one that had no causes.
LEMMA BeginCalls ==
    ASSUME CallsInv, NEW t \in Task, NEW o \in Operation, Begin(t, o),
           \/ UNCHANGED causes /\ (variant.class = "map" => o.op # "put")
           \/ o.op = "put" /\ causes[o.item] = 0 /\ MapPut(o.item)
    PROVE  CallsInv'
<1>1. /\ LockAcquire(t, queueLock) /\ running = NoTask /\ running' = NoTask
      /\ pc[t] = "idle" /\ pc' = [pc EXCEPT ![t] = "acquire"]
      /\ call' = [call EXCEPT ![t] = o]
      /\ UNCHANGED <<variant, items, closed, reply, interrupted>>
  BY DEF Begin
<1>2. Nowhere(t) BY <1>1 DEF CallsInv, Placed
<1>3. SyncInv' /\ Parks(t)
  BY <1>1, <1>2, LockAcquireInv, LockAcquireParks, QueueAssumption DEF CallsInv, SyncInv
<1>4. Apart' /\ Placed' BY <1>1, <1>3, AwaitPlaced
<1>5. /\ call \in [Task -> Operation \cup {Idle}] /\ reply \in [Task -> Reply]
      /\ causes \in [Item -> 0..MaxCauses] /\ reply[t] = Pending
      /\ pc \in [Task -> {"idle", "acquire", "wait", "closing", "leave", "release"}]
  BY <1>1 DEF CallsInv, QueueTypeOK, Phases
<1>6. o.op = "put" => o.item \in Item BY DEF Operation
<1>7. causes' \in [Item -> 0..MaxCauses]
  BY <1>5, QueueAssumption DEF MapPut
<1>8. QueueTypeOK' BY <1>1, <1>5, <1>7 DEF CallsInv, QueueTypeOK, TaskOrNone
<1>9. Phases' BY <1>1, <1>5, Values DEF CallsInv, Phases
<1>10. SetOnce' BY <1>1, <1>5 DEF CallsInv, SetOnce
<1>11. MapOnce'
  <2>1. SUFFICES ASSUME variant.class = "map" PROVE MapOnce' BY <1>1 DEF MapOnce
  <2>2. CASE o.op # "put"
    <3>1. \A u \in Task, i \in Item : Carries(u, i)' => Carries(u, i)
      <4>1. \A i \in Item : Ok(i) # Pending BY Values
      <4> QED BY <1>1, <1>5, <2>2, <4>1 DEF Carries
    <3>2. causes' = causes BY <2>2
    <3> QED BY <1>1, <3>1, <3>2 DEF CallsInv, MapOnce
  <2>3. CASE o.op = "put"
    <3>1. causes[o.item] = 0 /\ causes' = [causes EXCEPT ![o.item] = 1]
      BY <2>1, <2>3 DEF MapPut
    <3>2. \A u \in Task, i \in Item : Carries(u, i)' => (u = t /\ i = o.item) \/ Carries(u, i)
      BY <1>1, <1>5, <2>3 DEF Carries
    <3>3. o.item \notin ToSet(items) /\ \A u \in Task : ~Carries(u, o.item)
      BY <1>6, <2>1, <2>3, <3>1 DEF CallsInv, MapOnce
    <3>4. \A i \in Item : causes'[i] = IF i = o.item THEN 1 ELSE causes[i] BY <1>5, <3>1
    <3> QED BY <1>1, <1>6, <2>3, <3>2, <3>3, <3>4 DEF CallsInv, MapOnce
  <2> QED BY <2>2, <2>3
<1> QED BY <1>3, <1>4, <1>8, <1>9, <1>10, <1>11, Assembled

\* A cause for a key that has some.
LEMMA KnownCalls ==
    ASSUME CallsInv, NEW t \in Task, NEW i \in Item, MapPutKnown(t, i)
    PROVE  CallsInv'
<1>1. /\ UNCHANGED <<tasks, syncVars, variant, items, closed, running, call, pc, reply,
                     interrupted>>
      /\ causes' = [causes EXCEPT ![i] = @ + 1] /\ causes[i] > 0 /\ causes[i] < MaxCauses
  BY DEF MapPutKnown
<1>2. SyncInv' /\ Keeps BY <1>1, NothingMoves DEF CallsInv
<1>3. Apart' /\ Placed' BY <1>1, <1>2, PlacedKept
<1>4. causes \in [Item -> 0..MaxCauses] BY DEF CallsInv, QueueTypeOK
<1>5. causes' \in [Item -> 0..MaxCauses] BY <1>1, <1>4, QueueAssumption
<1>6. QueueTypeOK' BY <1>1, <1>5 DEF CallsInv, QueueTypeOK
<1>7. Phases' /\ SetOnce' BY <1>1 DEF CallsInv, Phases, SetOnce
<1>8. \A k \in Item : causes'[k] = 0 <=> causes[k] = 0
  <2>1. causes[i] \in 0..MaxCauses BY <1>4
  <2> QED BY <1>1, <1>4, <2>1, QueueAssumption
<1>9. \A u \in Task, k \in Item : Carries(u, k)' <=> Carries(u, k) BY <1>1 DEF Carries
<1>10. MapOnce' BY <1>1, <1>8, <1>9 DEF CallsInv, MapOnce
<1> QED BY <1>2, <1>3, <1>6, <1>7, <1>10, Assembled

\* The loop resumes a task, or throws the cancellation into it.
LEMMA DispatchCalls ==
    ASSUME CallsInv, Dispatch
    PROVE  CallsInv'
<1> DEFINE h == Head(tasks).task
<1>1. /\ SyncInv' /\ Apart' /\ h \in Task /\ h \in Ready
      /\ \A x \in Task : Nowhere(x)' <=> (Nowhere(x) \/ x = h)
  BY PopMoves DEF CallsInv, Dispatch
<1>2. /\ running = NoTask /\ UNCHANGED <<variant, causes, items, closed, reply, interrupted>>
      /\ \/ /\ pc[h] = "acquire" /\ pc' = [pc EXCEPT ![h] = "idle"]
            /\ call' = [call EXCEPT ![h] = Idle] /\ running' = running
         \/ /\ running' = h /\ call' = call
            /\ pc' = pc \/ pc' = [pc EXCEPT ![h] = "leave"]
  <2>1. pc \in [Task -> {"idle", "acquire", "wait", "closing", "leave", "release"}]
    BY DEF CallsInv, QueueTypeOK
  <2>2. [pc EXCEPT ![h] = pc[h]] = pc BY <2>1
  <2> QED BY <2>2 DEF Dispatch, mapVars
<1> HIDE DEF h
<1>3. ~Nowhere(h) BY <1>1 DEF Nowhere
<1>4. pc[h] # "idle" BY <1>1, <1>3 DEF CallsInv, Placed
<1>5. QueueTypeOK' BY <1>1, <1>2 DEF CallsInv, QueueTypeOK, TaskOrNone
<1>6. Placed' BY <1>1, <1>2, <1>3, <1>4, SyncAssumption DEF CallsInv, QueueTypeOK, Placed
<1>7. /\ call \in [Task -> Operation \cup {Idle}]
      /\ pc \in [Task -> {"idle", "acquire", "wait", "closing", "leave", "release"}]
  BY DEF CallsInv, QueueTypeOK
<1>8. Phases' BY <1>1, <1>2, <1>4, <1>7 DEF CallsInv, Phases
<1>9. SetOnce' BY <1>1, <1>2, <1>7 DEF CallsInv, SetOnce, Idle
<1>10. \A u \in Task, i \in Item : Carries(u, i)' => Carries(u, i)
  BY <1>2, <1>7 DEF Carries, Idle
<1>11. MapOnce' BY <1>2, <1>10 DEF CallsInv, MapOnce
<1> QED BY <1>1, <1>5, <1>6, <1>8, <1>9, <1>11, Assembled

\* cancel() moves the task from where it waits to the run queue.
LEMMA CancelCalls ==
    ASSUME CallsInv, NEW t \in Task, Cancel(t)
    PROVE  CallsInv'
<1> DEFINE p == [task |-> t, kind |-> "cancelled", of |-> t]
<1>1. /\ RemoveFromSync(t) /\ tasks' = Append(tasks, p)
      /\ t \in Queuing(queueLock) \/ t \in condWaiters[notEmpty] \/ t \in condWaiters[notFull]
      /\ UNCHANGED <<variant, causes, items, closed, running, call, pc, reply>>
      /\ interrupted' = interrupted \cup {t}
  BY DEF Cancel, Queuing, mapVars
<1>2. p \in Packet /\ p.task = t BY DEF Packet, ExcKind
<1>3. queueLock \in Lock /\ notEmpty \in Cond /\ notFull \in Cond BY QueueAssumption
<1>4. t \notin Ready /\ ~Nowhere(t) BY <1>1, <1>3 DEF CallsInv, Apart, Nowhere
<1> HIDE DEF p
<1>5. /\ SyncInv' /\ Apart' /\ Ready' = Ready \cup {t}
      /\ \A l \in Lock : Queuing(l)' = Queuing(l) \ {t}
      /\ \A e \in Event : eventWaiters'[e] = eventWaiters[e] \ {t}
      /\ \A c \in Cond : condWaiters'[c] = condWaiters[c] \ {t}
  BY <1>1, <1>2, <1>4, RemoveMoves DEF CallsInv
<1>6. Keeps BY <1>4, <1>5 DEF Keeps, Nowhere
<1>7. Placed' BY <1>1, <1>6, PlacedKept
<1>8. QueueTypeOK' BY <1>1 DEF CallsInv, QueueTypeOK
<1>9. Phases' /\ SetOnce' BY <1>1 DEF CallsInv, Phases, SetOnce
<1>10. MapOnce' BY <1>1 DEF CallsInv, MapOnce, Carries
<1> QED BY <1>5, <1>7, <1>8, <1>9, <1>10, Assembled

\* put_nowait() looks for the item and adds it in one step.
LEMMA PutNowaitCalls ==
    ASSUME CallsInv, NEW i \in Item, PutNowait(i)
    PROVE  CallsInv' /\ variant.class = "set"
<1>1. /\ NotifyNowait(notEmpty) /\ items' = Append(items, i) /\ i \notin ToSet(items)
      /\ UNCHANGED <<variant, causes, closed, running, call, pc, reply, interrupted>>
  BY DEF PutNowait, mapVars
<1>2. variant.class = "set" BY QueueAssumption DEF CallsInv, QueueTypeOK, PutNowait, Calls
<1>3. notEmpty \in Cond BY QueueAssumption
<1>4. SyncInv' /\ Keeps BY <1>1, <1>3, NotifyNowaitMoves DEF CallsInv
<1>5. Apart' /\ Placed' BY <1>1, <1>4, PlacedKept
<1>6. items \in Seq(Item) BY DEF CallsInv, QueueTypeOK
<1>7. /\ items' \in Seq(Item)
      /\ IsInjective(items) => IsInjective(items')
  BY <1>1, <1>6, AppendProperties, AppendMembers
<1>8. QueueTypeOK' BY <1>1, <1>7 DEF CallsInv, QueueTypeOK
<1>9. Phases' /\ SetOnce' BY <1>1, <1>7 DEF CallsInv, Phases, SetOnce
<1>10. MapOnce' BY <1>1, <1>2 DEF MapOnce
<1> QED BY <1>2, <1>4, <1>5, <1>8, <1>9, <1>10, Assembled

\* close_nowait()
LEMMA CloseNowaitCalls ==
    ASSUME CallsInv, CloseNowait
    PROVE  CallsInv'
<1>1. /\ NotifyAllNowait(notEmpty, notFull) /\ closed' = TRUE
      /\ UNCHANGED <<variant, causes, items, running, call, pc, reply, interrupted>>
  BY DEF CloseNowait, mapVars
<1>2. /\ notEmpty \in Cond /\ notFull \in Cond \ {notEmpty}
      /\ LockOf[notFull] = LockOf[notEmpty]
  BY QueueAssumption, SyncAssumption
<1>3. SyncInv' /\ Keeps BY <1>1, <1>2, NotifyAllNowaitMoves DEF CallsInv
<1>4. Apart' /\ Placed' BY <1>1, <1>3, PlacedKept
<1>5. QueueTypeOK' BY <1>1 DEF CallsInv, QueueTypeOK
<1>6. Phases' /\ SetOnce' BY <1>1 DEF CallsInv, Phases, SetOnce
<1>7. MapOnce' BY <1>1 DEF CallsInv, MapOnce, Carries
<1> QED BY <1>3, <1>4, <1>5, <1>6, <1>7, Assembled

-----------------------------------------------------------------------------
(* The steps together.                                                        *)

\* What a running task does inside of the block: it waits, leaves, puts or gets an item,
\* or closes the queue.  A put() of an AsyncSetQueue with room for all finds it at once.
LEMMA Bodies ==
    ASSUME CallsInv, NEW t \in Task,
           PutBody(t) \/ GetBody(t) \/ PeekBody(t) \/ CloseBody(t) \/ CloseRest(t) \/ LeaveBlock(t)
    PROVE  /\ running = t
           /\ \/ /\ pc[t] \in {"acquire", "wait"}
                 /\ SetUnbounded /\ variant.class = "set" => call[t].op # "put"
                 /\ \E c \in Cond : Wait(t, c)
              \/ pc[t] = "leave" /\ Leave(t, reply[t])
              \/ /\ pc[t] \in {"acquire", "wait"}
                 /\ \/ /\ call[t].op = "put" /\ variant.class = "set"
                       /\ call[t].item \in ToSet(items) /\ Leave(t, Ok(call[t].item))
                    \/ call[t].op = "put" /\ closed /\ Leave(t, QueueClosed)
                    \/ /\ call[t].op = "peek" /\ items # <<>> /\ Leave(t, Ok(Head(items)))
                    \/ /\ call[t].op \in {"get", "peek"} /\ items = <<>> /\ closed
                       /\ Leave(t, QueueClosed)
              \/ /\ pc[t] \in {"acquire", "wait"} /\ call[t].op = "put" /\ PutItem(t)
                 /\ ~closed /\ ~Full
                 /\ SetUnbounded /\ variant.class = "set" => call[t].item \notin ToSet(items)
              \/ /\ pc[t] \in {"acquire", "wait"} /\ call[t].op = "get" /\ GetItem(t)
                 /\ items # <<>>
              \/ CloseBody(t)
              \/ CloseRest(t)
<1>1. notFull \in Cond /\ notEmpty \in Cond BY QueueAssumption
<1>2. CASE PutBody(t) /\ variant.class = "set"
  <2>1. pc[t] \in {"acquire", "wait"} /\ running = t /\ call[t].op = "put"
    BY <1>2 DEF PutBody, InBody
  <2>2. SetUnbounded => pc[t] = "acquire" BY <1>2, <2>1 DEF CallsInv, SetOnce
  <2>3. call[t].item \in Item
    <3>1. call[t] \in Operation \cup {Idle} BY DEF CallsInv, QueueTypeOK
    <3> QED BY <2>1, <3>1 DEF Operation, Idle
  <2>4. SetUnbounded /\ call[t].item \notin ToSet(items) => ~Full
    BY <1>2, <2>3, RoomForAll DEF CallsInv, QueueTypeOK, SetOnce
  <2>5. \/ call[t].item \in ToSet(items) /\ Leave(t, Ok(call[t].item))
        \/ ~SetUnbounded /\ Wait(t, notFull)
        \/ closed /\ Leave(t, QueueClosed)
        \/ /\ SetUnbounded => call[t].item \notin ToSet(items)
           /\ ~Full /\ ~closed /\ PutItem(t)
    BY <1>2, <2>1, <2>2, <2>4 DEF PutBody, SetPut
  <2> QED BY <1>1, <1>2, <2>1, <2>5
<1>3. CASE PutBody(t) /\ variant.class # "set"
  BY <1>1, <1>3 DEF PutBody, InBody, PlainPut
<1>4. CASE GetBody(t) \/ PeekBody(t)
  BY <1>1, <1>4 DEF GetBody, PeekBody, InBody, WaitForItem
<1>5. CASE CloseBody(t) \/ CloseRest(t) BY <1>5 DEF CloseBody, CloseRest, InBody
<1>6. CASE LeaveBlock(t) BY <1>6 DEF LeaveBlock
<1> QED BY <1>2, <1>3, <1>4, <1>5, <1>6

\* In the beginning there are no calls.
LEMMA InitCalls == Init => CallsInv
<1> SUFFICES ASSUME Init PROVE CallsInv OBVIOUS
<1>1. Apart /\ \A x \in Task : Nowhere(x) BY InitPlaces DEF Init, SyncInit
<1>2. SyncInv
  <2>1. <<>> \in Seq(Packet) /\ <<>> \in Seq(Task) OBVIOUS
  <2> QED BY <2>1, SyncAssumption DEF Init, SyncInit, SyncInv, SyncTypeOK, TaskOrNone,
                                      NoWaiterOnFreeLock, NoWaiterOnSetEvent
<1>3. <<>> \in Seq(Item) /\ IsInjective(<<>>) /\ ToSet(<<>>) = {} BY OneName
<1>4. 0 \in 0..MaxCauses /\ Pending \in Reply BY Values, QueueAssumption
<1>9. QueueTypeOK BY <1>3, <1>4 DEF Init, QueueTypeOK, TaskOrNone
<1>5. Placed BY <1>1, SyncAssumption DEF Init, Placed
<1>6. Phases BY DEF Init, Phases
<1>7. SetOnce BY <1>3 DEF Init, SetOnce, Idle
<1>8. MapOnce BY <1>3 DEF Init, MapOnce, Carries, Idle
<1> QED BY <1>1, <1>2, <1>5, <1>6, <1>7, <1>8, <1>9 DEF CallsInv

\* Every step keeps the invariant.
LEMMA NextCalls ==
    ASSUME CallsInv, [Next]_vars
    PROVE  CallsInv'
<1>1. ASSUME NEW t \in Task, UNCHANGED mapVars,
             \/ PutBody(t) \/ GetBody(t) \/ PeekBody(t)
             \/ CloseBody(t) \/ CloseRest(t) \/ LeaveBlock(t)
      PROVE  CallsInv'
  <2>1. running = t BY <1>1, Bodies
  <2>2. CASE /\ pc[t] \in {"acquire", "wait"}
             /\ SetUnbounded /\ variant.class = "set" => call[t].op # "put"
             /\ \E c \in Cond : Wait(t, c)
    BY <1>1, <2>1, <2>2, WaitCalls
  <2>3. ASSUME NEW r \in Reply, Leave(t, r), pc[t] \in {"acquire", "wait", "leave"},
               r = reply[t] \/ (r # Pending /\ (call[t].op = "get" => r = QueueClosed))
        PROVE  CallsInv'
    BY <1>1, <2>1, <2>3, LeaveCalls
  <2>4. CASE pc[t] = "leave" /\ Leave(t, reply[t])
    <3>1. reply[t] \in Reply BY DEF CallsInv, QueueTypeOK
    <3> QED BY <2>3, <2>4, <3>1
  <2>5. CASE pc[t] \in {"acquire", "wait"} /\ \E i \in Item : Leave(t, Ok(i)) /\ call[t].op # "get"
    <3>1. PICK i \in Item : Leave(t, Ok(i)) BY <2>5
    <3>2. Ok(i) \in Reply /\ Ok(i) # Pending BY Values
    <3> QED BY <2>3, <2>5, <3>1, <3>2
  <2>6. CASE pc[t] \in {"acquire", "wait"} /\ Leave(t, QueueClosed)
    BY <2>3, <2>6, Values
  <2>7. call[t].op = "put" => call[t].item \in Item
    <3>1. call[t] \in Operation \cup {Idle} BY DEF CallsInv, QueueTypeOK
    <3> QED BY <3>1 DEF Operation, Idle
  <2>8. items # <<>> => Head(items) \in Item
    BY HeadTailProperties DEF CallsInv, QueueTypeOK
  <2>9. CASE CloseBody(t) \/ CloseRest(t) BY <1>1, <2>9, CloseCalls
  <2>10. CASE /\ pc[t] \in {"acquire", "wait"} /\ call[t].op = "put" /\ PutItem(t)
              /\ SetUnbounded /\ variant.class = "set" => call[t].item \notin ToSet(items)
    BY <1>1, <2>1, <2>10, PutCalls
  <2>11. CASE pc[t] \in {"acquire", "wait"} /\ call[t].op = "get" /\ GetItem(t) /\ items # <<>>
    BY <1>1, <2>1, <2>11, GetCalls
  <2> QED BY <1>1, <2>2, <2>4, <2>5, <2>6, <2>7, <2>8, <2>9, <2>10, <2>11, Bodies
<1>2. ASSUME NEW t \in Task, Turn(t) PROVE CallsInv'
  BY <1>1, <1>2, ReturnCalls DEF Turn
<1>3. ASSUME NEW t \in Task, NEW o \in Operation, BeginCall(t, o) PROVE CallsInv'
  BY <1>3, BeginCalls DEF BeginCall
<1>4. ASSUME NEW t \in Task, BeginUntilEmpty(t) PROVE CallsInv'
  <2> DEFINE o == [op |-> IF items = <<>> THEN "close" ELSE "get", item |-> NoItem]
  <2>1. o \in Operation /\ o.op # "put" BY DEF Operation
  <2>2. Begin(t, o) /\ UNCHANGED causes BY <1>4 DEF BeginUntilEmpty
  <2> HIDE DEF o
  <2> QED BY <2>1, <2>2, BeginCalls
<1>5. CASE UNCHANGED vars
  <2>1. UNCHANGED <<tasks, syncVars, variant, causes, items, closed, running, call, pc, reply,
                    interrupted>>
    BY <1>5 DEF vars, mapVars
  <2>2. SyncInv' /\ Keeps BY <2>1, NothingMoves DEF CallsInv
  <2>3. Apart' /\ Placed' BY <2>1, <2>2, PlacedKept
  <2>4. QueueTypeOK' /\ Phases' BY <2>1 DEF CallsInv, QueueTypeOK, Phases
  <2>5. SetOnce' /\ MapOnce' BY <2>1 DEF CallsInv, SetOnce, MapOnce, Carries
  <2> QED BY <2>2, <2>3, <2>4, <2>5, Assembled
<1> QED BY <1>2, <1>3, <1>4, <1>5, DispatchCalls, CancelCalls, KnownCalls, PutNowaitCalls,
           CloseNowaitCalls DEF Next

\* The causes of a key stay within their bound, every reply is a value that its operation
\* can return or raise, and the primitives hold tasks only.
THEOREM QueueTypes == Spec => []TypeOK
<1>1. CallsInv => TypeOK BY DEF CallsInv, SyncInv, QueueTypeOK, TypeOK
<1>2. CallsInv /\ [Next]_vars => CallsInv' BY NextCalls
<1> QED BY <1>1, <1>2, InitCalls, PTL DEF Spec

\* AsyncSetQueue "ensures each item appears only once", AsyncMapQueue "maintains unique
\* keys", whichever tasks put, get and cancel what, and whenever.
THEOREM ItemsOnce == ASSUME SetUnbounded PROVE Spec => []EachItemOnce
<1>1. CallsInv => EachItemOnce BY DEF CallsInv, SetOnce, MapOnce, EachItemOnce
<1>2. CallsInv /\ [Next]_vars => CallsInv' BY NextCalls
<1> QED BY <1>1, <1>2, InitCalls, PTL DEF Spec

-----------------------------------------------------------------------------
(* The queue implements BoundedQueue, with its items as the buffer.           *)

\* The values of the two modules are the same.
LEMMA SameValues ==
    /\ Q!Idle = Idle /\ Q!Operation = Operation /\ Q!Pending = Pending
    /\ Q!QueueClosed = QueueClosed /\ \A i : Q!Ok(i) = Ok(i)
BY DEF Q!Idle, Idle, Q!Operation, Operation, Q!Pending, Pending, Q!QueueClosed, QueueClosed,
       Q!Ok, Ok

\* What an item being present means in the two modules.
LEMMA SamePresent ==
    ASSUME NEW i
    PROVE  Q!Present(i) <=> i \in ToSet(items)
BY Zenon DEF Q!Present, ToSet

\* An operation that is begun is a call.
LEMMA BeginIsCall ==
    ASSUME CallsInv, NEW t \in Task, NEW o \in Operation, Begin(t, o)
    PROVE  Q!Call(t)
<1>1. call[t] = Idle BY DEF Begin, CallsInv, Phases
<1> QED BY <1>1, SameValues DEF Begin, Q!Call

\* A decision of a call that is not decided yet is the moment at which it takes effect.
LEMMA DecisionIsEffect ==
    ASSUME CallsInv, NEW t \in Task, pc[t] \in {"acquire", "wait"}, NEW r,
           Q!Effect(t, r), r = QueueClosed \/ (\E i \in Item \cup {NoItem} : r = Ok(i)),
           Decide(t, r), UNCHANGED <<variant, call>>
    PROVE  Q!TakeEffect(t)
<1>1. call[t] # Idle /\ reply[t] = Pending BY DEF CallsInv, Phases
<1>2. PICK i \in Item \cup {NoItem} : r \in {Ok(i), QueueClosed} OBVIOUS
<1>3. reply' = [reply EXCEPT ![t] = r] BY DEF Decide
<1>4. r \in {Q!Ok(i), Q!QueueClosed} /\ call[t] # Q!Idle /\ reply[t] = Q!Pending
  BY <1>1, <1>2, SameValues
<1> QED BY <1>3, <1>4 DEF Q!TakeEffect

\* Every step of the queue is a step of the bounded queue, or changes nothing that it has.
LEMMA StepRefines ==
    ASSUME CallsInv, SetUnbounded, [Next]_vars
    PROVE  [Q!Next]_Q!queueVars
<1> USE DEF Q!queueVars
<1>1. ASSUME NEW t \in Task, UNCHANGED mapVars,
             \/ PutBody(t) \/ GetBody(t) \/ PeekBody(t)
             \/ CloseBody(t) \/ CloseRest(t) \/ LeaveBlock(t)
      PROVE  Q!TakeEffect(t) \/ UNCHANGED Q!queueVars
  <2>1. UNCHANGED variant BY <1>1 DEF mapVars
  <2>2. call[t].op = "put" => call[t].item \in Item
    <3>1. call[t] \in Operation \cup {Idle} BY DEF CallsInv, QueueTypeOK
    <3> QED BY <3>1 DEF Operation, Idle
  <2>3. items # <<>> => Head(items) \in Item
    BY HeadTailProperties DEF CallsInv, QueueTypeOK
  <2>4. CASE \E c \in Cond : Wait(t, c) BY <2>1, <2>4 DEF Wait, queueVars
  <2>5. CASE Leave(t, reply[t])
    <3>1. [reply EXCEPT ![t] = reply[t]] = reply BY DEF CallsInv, QueueTypeOK
    <3> QED BY <2>1, <2>5, <3>1 DEF Leave, Decide
  <2>6. ASSUME NEW r, Leave(t, r), pc[t] \in {"acquire", "wait"},
               UNCHANGED <<items, closed>> => Q!Effect(t, r),
               r = QueueClosed \/ (\E i \in Item \cup {NoItem} : r = Ok(i))
        PROVE  Q!TakeEffect(t)
    <3>1. Decide(t, r) /\ UNCHANGED <<items, closed, call>> BY <2>6 DEF Leave
    <3> QED BY <2>1, <2>6, <3>1, DecisionIsEffect
  <2>7. CASE /\ pc[t] \in {"acquire", "wait"} /\ call[t].op = "put" /\ variant.class = "set"
             /\ call[t].item \in ToSet(items) /\ Leave(t, Ok(call[t].item))
    <3>1. UNCHANGED <<items, closed>> => Q!Effect(t, Ok(call[t].item))
      BY <2>7, SamePresent, SameValues DEF Q!Effect, Q!Unique
    <3> QED BY <2>2, <2>6, <2>7, <3>1
  <2>8. CASE /\ pc[t] \in {"acquire", "wait"} /\ call[t].op = "put" /\ closed
             /\ Leave(t, QueueClosed)
    <3>1. UNCHANGED <<items, closed>> => Q!Effect(t, QueueClosed)
      BY <2>8, SameValues DEF Q!Effect
    <3> QED BY <2>6, <2>8, <3>1
  <2>9. CASE /\ pc[t] \in {"acquire", "wait"} /\ call[t].op = "peek" /\ items # <<>>
             /\ Leave(t, Ok(Head(items)))
    <3>1. UNCHANGED <<items, closed>> => Q!Effect(t, Ok(Head(items)))
      BY <2>9, SameValues DEF Q!Effect
    <3> QED BY <2>3, <2>6, <2>9, <3>1
  <2>10. CASE /\ pc[t] \in {"acquire", "wait"} /\ call[t].op \in {"get", "peek"}
              /\ items = <<>> /\ closed /\ Leave(t, QueueClosed)
    <3>1. UNCHANGED <<items, closed>> => Q!Effect(t, QueueClosed)
      BY <2>10, SameValues DEF Q!Effect
    <3> QED BY <2>6, <2>10, <3>1
  <2>11. CASE /\ pc[t] \in {"acquire", "wait"} /\ call[t].op = "put" /\ PutItem(t)
              /\ ~closed /\ ~Full
              /\ SetUnbounded /\ variant.class = "set" => call[t].item \notin ToSet(items)
    <3>1. /\ Decide(t, Ok(call[t].item)) /\ items' = Append(items, call[t].item)
          /\ UNCHANGED <<call, closed>>
      BY <2>11 DEF PutItem
    <3>2. Len(items) < variant.max
      <4>1. Len(items) \in Nat /\ variant.max \in Nat
        BY QueueAssumption, LenProperties DEF CallsInv, QueueTypeOK
      <4> QED BY <2>11, <4>1 DEF Full
    <3>3. Q!Put(call[t].item) BY <2>11, <3>1, <3>2, SamePresent DEF Q!Put, Q!Unique
    <3>4. Q!Effect(t, Ok(call[t].item)) BY <2>11, <3>3, SameValues DEF Q!Effect
    <3> QED BY <2>1, <2>2, <2>11, <3>1, <3>4, DecisionIsEffect
  <2>12. CASE /\ pc[t] \in {"acquire", "wait"} /\ call[t].op = "get" /\ GetItem(t)
              /\ items # <<>>
    <3>1. Decide(t, Ok(Head(items))) /\ items' = Tail(items) /\ UNCHANGED <<call, closed>>
      BY <2>12 DEF GetItem
    <3>2. Q!Effect(t, Ok(Head(items))) BY <2>12, <3>1, SameValues DEF Q!Effect
    <3> QED BY <2>1, <2>3, <2>12, <3>1, <3>2, DecisionIsEffect
  <2>13. CASE CloseBody(t)
    <3>1. /\ Decide(t, Ok(NoItem)) /\ closed' = TRUE /\ UNCHANGED <<call, items>>
          /\ call[t].op = "close" /\ pc[t] \in {"acquire", "wait"}
      BY <2>13 DEF CloseBody, InBody
    <3>2. Q!Effect(t, Ok(NoItem)) BY <3>1, SameValues DEF Q!Effect
    <3> QED BY <2>1, <3>1, <3>2, DecisionIsEffect
  <2>14. CASE CloseRest(t) BY <2>1, <2>14 DEF CloseRest, queueVars
  <2> QED BY <1>1, <2>4, <2>5, <2>7, <2>8, <2>9, <2>10, <2>11, <2>12, <2>13, <2>14, Bodies
<1>2. ASSUME NEW t \in Task, Return(t) PROVE Q!End(t)
  <2>1. call[t] # Idle BY <1>2 DEF Return, CallsInv, Phases
  <2> QED BY <1>2, <2>1, SameValues DEF Return, Decide, Q!End
<1>3. ASSUME NEW t \in Task, NEW o \in Operation, BeginCall(t, o) PROVE Q!Call(t)
  BY <1>3, BeginIsCall DEF BeginCall
<1>4. ASSUME NEW t \in Task, BeginUntilEmpty(t) PROVE Q!Call(t)
  <2> DEFINE o == [op |-> IF items = <<>> THEN "close" ELSE "get", item |-> NoItem]
  <2>1. o \in Operation BY DEF Operation
  <2>2. Begin(t, o) BY <1>4 DEF BeginUntilEmpty
  <2> HIDE DEF o
  <2> QED BY <2>1, <2>2, BeginIsCall
<1>5. ASSUME Dispatch PROVE UNCHANGED Q!queueVars \/ \E t \in Task : Q!End(t)
  <2> DEFINE h == Head(tasks).task
  <2>1. h \in Task BY <1>5, PopMoves DEF CallsInv, Dispatch
  <2>2. UNCHANGED <<variant, items, closed, reply>> BY <1>5 DEF Dispatch, mapVars
  <2>3. CASE call' = call BY <2>2, <2>3
  <2>4. CASE pc[h] = "acquire" /\ call' = [call EXCEPT ![h] = Idle]
    <3>1. call[h] # Idle /\ reply[h] = Pending BY <2>1, <2>4 DEF CallsInv, Phases
    <3>2. reply' = [reply EXCEPT ![h] = Pending]
      BY <2>2, <3>1 DEF CallsInv, QueueTypeOK
    <3>3. Q!End(h) BY <2>2, <2>4, <3>1, <3>2, SameValues DEF Q!End
    <3> QED BY <2>1, <3>3
  <2> QED BY <1>5, <2>3, <2>4 DEF Dispatch
<1>6. ASSUME NEW i \in Item, PutNowait(i) PROVE Q!Nowait
  <2>1. /\ items' = Append(items, i) /\ i \notin ToSet(items) /\ ~closed
        /\ UNCHANGED <<variant, closed, call, reply>>
    BY <1>6 DEF PutNowait, mapVars
  <2>2. ~Full
    BY <1>6, <2>1, PutNowaitCalls, RoomForAll DEF CallsInv, QueueTypeOK, SetOnce
  <2>3. Len(items) < variant.max
    <3>1. Len(items) \in Nat /\ variant.max \in Nat
      BY QueueAssumption, LenProperties DEF CallsInv, QueueTypeOK
    <3> QED BY <2>2, <3>1 DEF Full
  <2>4. Q!Put(i) BY <2>1, <2>3, SamePresent DEF Q!Put
  <2> QED BY <2>1, <2>4 DEF Q!Nowait
<1>7. ASSUME CloseNowait PROVE Q!Nowait
  BY <1>7 DEF CloseNowait, mapVars, Q!Nowait
<1>8. ASSUME NEW t \in Task, Cancel(t) \/ \E i \in Item : MapPutKnown(t, i)
      PROVE  UNCHANGED Q!queueVars
  BY <1>8 DEF Cancel, MapPutKnown, mapVars
<1>9. CASE UNCHANGED vars BY <1>9 DEF vars, mapVars
<1> QED BY <1>1, <1>2, <1>3, <1>4, <1>5, <1>6, <1>7, <1>8, <1>9 DEF Next, Turn, Q!Next

\* Each call takes effect at one moment between its call and its return, or not at all
\* when it is cancelled, on a FIFO buffer of at most maxsize items: what the conditions,
\* the lock and the two notify_all() of close() do in between cannot be told from outside.
THEOREM QueueImplements == ASSUME SetUnbounded PROVE Spec => ImplementsBoundedQueue
<1>1. Init => Q!Init BY SameValues DEF Init, Q!Init
<1>2. CallsInv /\ [Next]_vars => CallsInv' BY NextCalls
<1>3. CallsInv /\ [Next]_vars => [Q!Next]_Q!queueVars BY StepRefines
<1> QED BY <1>1, <1>2, <1>3, InitCalls, PTL DEF Spec, ImplementsBoundedQueue, Q!Spec

-----------------------------------------------------------------------------
(* Who has the lock of a queue, and that no wake-up is lost: a task sleeps on *)
(* a condition only while enough others are on their way to take the items,   *)
(* or to fill the room, that there are.                                       *)

\* The operations that may wait or notify next: the lock has to be theirs then.
Inside == {"acquire", "wait", "closing"}

\* Which operations wait in which place.
Homes ==
    /\ \A e \in Event : eventWaiters[e] = {}
    /\ \A t \in Task :
          /\ t \in Queuing(queueLock) => pc[t] \in {"acquire", "wait"}
          /\ t \in condWaiters[notEmpty] => pc[t] = "wait" /\ call[t].op \in {"get", "peek"}
          /\ t \in condWaiters[notFull] => pc[t] = "wait" /\ call[t].op = "put"
          /\ call[t].op = "peek" => "peek" \in Calls

\* A wake-up inside of an operation comes with the lock, a cancellation without it.
Letters ==
    \A p \in ToSet(tasks) :
        /\ p.kind \in {"none", "cancelled"}
        /\ p.kind = "none" /\ pc[p.task] \in Inside => owner[queueLock] = p.task
        /\ p.kind = "cancelled" => /\ interrupted # {} /\ pc[p.task] \in {"acquire", "wait"}
                                   /\ owner[queueLock] # p.task

\* Who has the lock runs or will run, and has not left its operation.
OwnerRuns ==
    \A t \in Task :
        /\ running = t /\ pc[t] \in Inside => owner[queueLock] = t
        /\ owner[queueLock] = t => /\ t \in Ready \/ running = t
                                   /\ pc[t] \in Inside \cup {"leave"}

HoldInv == CallsInv /\ Homes /\ Letters /\ OwnerRuns

-----------------------------------------------------------------------------
(* The lock.                                                                  *)

\* What the steps use of the invariant: the one lock and the places.
LEMMA Facts ==
    ASSUME HoldInv
    PROVE  /\ queueLock \in Lock /\ notEmpty \in Cond /\ notFull \in Cond
           /\ \A c \in Cond : LockOf[c] = queueLock
           /\ \A l \in Lock : l = queueLock
           /\ SyncTypeOK /\ Apart /\ NoTask \notin Task /\ owner[queueLock] \in TaskOrNone
           /\ pc \in [Task -> {"idle", "acquire", "wait", "closing", "leave", "release"}]
           /\ call \in [Task -> Operation \cup {Idle}]
           /\ \A p \in ToSet(tasks) : p \in Packet /\ p.task \in Ready
           /\ \A x \in Ready : x \in Task /\ \E p \in ToSet(tasks) : p.task = x
           /\ \A x \in Task : Nowhere(x) <=> (pc[x] = "idle" \/ running = x)
<1>1. /\ queueLock \in Lock /\ notEmpty \in Cond /\ notFull \in Cond
      /\ \A l \in Lock : l = queueLock
  BY QueueAssumption
<1>2. \A c \in Cond : LockOf[c] = queueLock BY <1>1, SyncAssumption
<1>3. SyncTypeOK /\ Apart /\ owner[queueLock] \in TaskOrNone
  BY <1>1 DEF HoldInv, CallsInv, SyncInv, SyncTypeOK
<1>4. /\ \A p \in ToSet(tasks) : p \in Packet /\ p.task \in Ready
      /\ \A x \in Ready : x \in Task /\ \E p \in ToSet(tasks) : p.task = x
  BY <1>3, ReadyPackets DEF SyncTypeOK
<1> QED BY <1>1, <1>2, <1>3, <1>4, SyncAssumption DEF HoldInv, CallsInv, QueueTypeOK, Placed

\* The packets of the wake-ups that a step adds.
LEMMA WakeupFields == \A t : Wakeup(t).task = t /\ Wakeup(t).kind = "none"
BY DEF Wakeup

\* The first await of an operation.
LEMMA BeginHolds ==
    ASSUME HoldInv, NEW t \in Task, NEW o \in Operation, Begin(t, o),
           o.op = "peek" => "peek" \in Calls
    PROVE  Homes' /\ Letters' /\ OwnerRuns'
<1>1. /\ LockAcquire(t, queueLock) /\ running = NoTask /\ running' = NoTask
      /\ pc[t] = "idle" /\ pc' = [pc EXCEPT ![t] = "acquire"]
      /\ call' = [call EXCEPT ![t] = o]
      /\ UNCHANGED <<variant, items, closed, reply, interrupted, eventWaiters, condWaiters>>
  BY DEF Begin, LockAcquire
<1>2. Nowhere(t) BY <1>1, Facts
<1>3. /\ Ready' = IF owner[queueLock] = NoTask THEN Ready \cup {t} ELSE Ready
      /\ Queuing(queueLock)' = IF owner[queueLock] # NoTask THEN Queuing(queueLock) \cup {t}
                                                            ELSE Queuing(queueLock)
  BY <1>1, <1>2, Facts, LockAcquireParks
<1>4. /\ owner'[queueLock] = IF owner[queueLock] = NoTask THEN t ELSE owner[queueLock]
      /\ \A p \in ToSet(tasks') : \/ p \in ToSet(tasks)
                                  \/ owner[queueLock] = NoTask /\ p = Wakeup(t)
  BY <1>1, Facts, RequeuePackets DEF LockAcquire, SyncTypeOK
<1>5. /\ t \notin Ready /\ t \notin Queuing(queueLock)
      /\ t \notin condWaiters[notEmpty] /\ t \notin condWaiters[notFull]
  BY <1>2, Facts DEF Nowhere
<1>6. Homes' BY <1>1, <1>3, <1>5, Facts DEF HoldInv, Homes, Calls
<1>7. Letters' BY <1>1, <1>4, <1>5, Facts, WakeupFields DEF HoldInv, Letters, Inside
<1>8. OwnerRuns' BY <1>1, <1>3, <1>4, <1>5, Facts DEF HoldInv, OwnerRuns, Inside
<1> QED BY <1>6, <1>7, <1>8

\* Waiting on a condition gives the lock away.
LEMMA WaitHolds ==
    ASSUME HoldInv, NEW t \in Task, NEW c \in Cond, running = t, Wait(t, c), variant' = variant,
           c = notEmpty => call[t].op \in {"get", "peek"},
           c = notFull => call[t].op = "put"
    PROVE  Homes' /\ Letters' /\ OwnerRuns'
<1>1. /\ ConditionWait(t, c) /\ running' = NoTask /\ pc' = [pc EXCEPT ![t] = "wait"]
      /\ condWaiters' = [condWaiters EXCEPT ![c] = @ \cup {t}]
      /\ UNCHANGED <<call, interrupted, eventWaiters>>
  BY DEF Wait, Await, queueVars, ConditionWait
<1>2. Nowhere(t) BY Facts
<1>3. /\ FirstOf(queueLock) \subseteq Queuing(queueLock)
      /\ Ready' = Ready \cup FirstOf(queueLock)
      /\ Queuing(queueLock)' = Queuing(queueLock) \ FirstOf(queueLock)
  BY <1>1, <1>2, Facts, ConditionWaitParks
<1>4. /\ owner[queueLock] = t
      /\ owner'[queueLock] \in IF FirstOf(queueLock) = {} THEN {NoTask} ELSE FirstOf(queueLock)
      /\ \A p \in ToSet(tasks') : \/ p \in ToSet(tasks)
                                  \/ \E h \in FirstOf(queueLock) : p = Wakeup(h)
  BY <1>1, Facts, ConditionWaitGrants
<1>5. /\ t \notin Ready /\ t \notin Queuing(queueLock)
      /\ t \notin condWaiters[notEmpty] /\ t \notin condWaiters[notFull]
  BY <1>2, Facts DEF Nowhere
<1>6. /\ \A x, y \in FirstOf(queueLock) : x = y
      /\ Ready \cap Queuing(queueLock) = {} /\ Queuing(queueLock) \subseteq Task
      /\ condWaiters \in [Cond -> SUBSET Task]
  <2>1. Queuing(queueLock) \subseteq Task
    <3>1. lockWaiters[queueLock] \in Seq(Task) BY Facts DEF SyncTypeOK
    <3> QED BY <3>1, QueueMembers DEF Queuing
  <2> QED BY <2>1, Facts DEF FirstOf, Apart, SyncTypeOK
<1>7. Homes' BY <1>1, <1>3, <1>5, <1>6, Facts DEF HoldInv, Homes, Calls
<1>8. Letters'
  BY <1>1, <1>3, <1>4, <1>5, <1>6, Facts, WakeupFields DEF HoldInv, Letters, Homes, Inside
<1>9. OwnerRuns'
  BY <1>1, <1>3, <1>4, <1>5, <1>6, Facts DEF HoldInv, OwnerRuns, Homes, Inside
<1> QED BY <1>7, <1>8, <1>9

\* Leaving the block, by the owner of the lock or by a task whose wait was cancelled.
LEMMA LeaveHolds ==
    ASSUME HoldInv, NEW t \in Task, NEW r, running = t, Leave(t, r), variant' = variant
    PROVE  Homes' /\ Letters' /\ OwnerRuns'
<1>1. /\ LockRelease(t, queueLock) /\ running' = NoTask /\ pc' = [pc EXCEPT ![t] = "release"]
      /\ UNCHANGED <<call, interrupted, eventWaiters, condWaiters>>
  BY DEF Leave, Await, LockRelease
<1>2. Nowhere(t) BY Facts
<1> DEFINE F == IF owner[queueLock] = t THEN FirstOf(queueLock) ELSE {}
<1>3. /\ F \subseteq Queuing(queueLock) /\ Ready' = Ready \cup {t} \cup F
      /\ Queuing(queueLock)' = Queuing(queueLock) \ F
  BY <1>1, <1>2, Facts, LockReleaseParks
<1>4. /\ IF owner[queueLock] = t
           THEN owner'[queueLock] \in IF F = {} THEN {NoTask} ELSE F
           ELSE F = {} /\ owner' = owner
      /\ \A p \in ToSet(tasks') : \/ p \in ToSet(tasks) \/ p = Wakeup(t)
                                  \/ \E h \in F : p = Wakeup(h)
  BY <1>1, Facts, LockReleaseGrants
<1>5. /\ t \notin Ready /\ t \notin Queuing(queueLock)
      /\ t \notin condWaiters[notEmpty] /\ t \notin condWaiters[notFull]
  BY <1>2, Facts DEF Nowhere
<1>6. /\ \A x, y \in F : x = y
      /\ Ready \cap Queuing(queueLock) = {} /\ Queuing(queueLock) \subseteq Task
  <2>1. Queuing(queueLock) \subseteq Task
    <3>1. lockWaiters[queueLock] \in Seq(Task) BY Facts DEF SyncTypeOK
    <3> QED BY <3>1, QueueMembers DEF Queuing
  <2> QED BY <2>1, Facts DEF FirstOf, Apart
<1> HIDE DEF F
<1>7. Homes' BY <1>1, <1>3, <1>5, <1>6, Facts DEF HoldInv, Homes, Calls
<1>8. Letters'
  BY <1>1, <1>3, <1>4, <1>5, <1>6, Facts, WakeupFields DEF HoldInv, Letters, Homes, Inside
<1>9. OwnerRuns'
  BY <1>1, <1>3, <1>4, <1>5, <1>6, Facts DEF HoldInv, OwnerRuns, Homes, Inside
<1> QED BY <1>7, <1>8, <1>9

\* Notifying: the notifier keeps the lock, and those it wakes queue for it.
LEMMA NotifyHolds ==
    ASSUME HoldInv, NEW t \in Task, NEW c \in Cond, NEW all \in BOOLEAN, running = t,
           ConditionNotify(t, c, all), NEW place \in {"closing", "leave"}, Await(t, place),
           UNCHANGED <<variant, call, interrupted>>
    PROVE  Homes' /\ Letters' /\ OwnerRuns'
<1>1. /\ running' = NoTask /\ pc' = [pc EXCEPT ![t] = place] /\ owner[queueLock] = t
      /\ UNCHANGED <<owner, eventWaiters>>
  BY Facts DEF Await, ConditionNotify, OwnsLockOf
<1>2. Nowhere(t) BY Facts
<1>3. PICK W \in SUBSET condWaiters[c] :
        /\ condWaiters' = [condWaiters EXCEPT ![c] = @ \ W]
        /\ Queuing(queueLock)' = Queuing(queueLock) \cup W
  <2>1. \E W \in SUBSET condWaiters[c] :
          /\ condWaiters' = [condWaiters EXCEPT ![c] = @ \ W]
          /\ \A m \in Lock : Queuing(m)' = IF m = LockOf[c] THEN Queuing(m) \cup W
                                                            ELSE Queuing(m)
    BY <1>2, Facts, ConditionNotifyParks
  <2> QED BY <2>1, Facts, Zenon
<1>4. Ready' = Ready \cup {t} BY <1>2, Facts, ConditionNotifyParks
<1>5. \A p \in ToSet(tasks') : p \in ToSet(tasks) \/ p = Wakeup(t)
  BY Facts, RequeuePackets DEF ConditionNotify, SyncTypeOK
<1>6. /\ t \notin Ready /\ t \notin Queuing(queueLock)
      /\ t \notin condWaiters[notEmpty] /\ t \notin condWaiters[notFull]
  BY <1>2, Facts DEF Nowhere
<1>7. condWaiters \in [Cond -> SUBSET Task] /\ c \in {notEmpty, notFull}
  BY Facts, QueueAssumption DEF SyncTypeOK
<1>8. Homes' BY <1>1, <1>3, <1>6, <1>7, Facts DEF HoldInv, Homes, Calls
<1>9. Letters' BY <1>1, <1>5, <1>6, Facts, WakeupFields DEF HoldInv, Letters, Inside
<1>10. OwnerRuns' BY <1>1, <1>4, <1>6, Facts DEF HoldInv, OwnerRuns, Inside
<1> QED BY <1>8, <1>9, <1>10

\* An operation returns without the lock.
LEMMA ReturnHolds ==
    ASSUME HoldInv, NEW t \in Task, Return(t)
    PROVE  Homes' /\ Letters' /\ OwnerRuns'
<1>1. /\ running = t /\ pc[t] = "release" /\ running' = NoTask
      /\ pc' = [pc EXCEPT ![t] = "idle"] /\ call' = [call EXCEPT ![t] = Idle]
      /\ UNCHANGED <<variant, tasks, eventWaiters, owner, lockWaiters, condWaiters, interrupted>>
  BY DEF Return, Await, syncVars
<1>2. Nowhere(t) BY <1>1, Facts
<1>3. Ready' = Ready /\ Queuing(queueLock)' = Queuing(queueLock)
  BY <1>1 DEF Ready, Queuing
<1>4. /\ t \notin Ready /\ t \notin Queuing(queueLock)
      /\ t \notin condWaiters[notEmpty] /\ t \notin condWaiters[notFull]
  BY <1>2, Facts DEF Nowhere
<1>5. Idle.op = "none" BY DEF Idle
<1>6. Homes' BY <1>1, <1>3, <1>4, <1>5, Facts DEF HoldInv, Homes, Calls
<1>7. Letters' BY <1>1, <1>4, Facts DEF HoldInv, Letters, Inside
<1>8. OwnerRuns' BY <1>1, <1>3, <1>4, Facts DEF HoldInv, OwnerRuns, Inside
<1> QED BY <1>6, <1>7, <1>8

\* The loop resumes whom it woke with the lock, and cancels whom it woke without.
LEMMA DispatchHolds ==
    ASSUME HoldInv, Dispatch
    PROVE  Homes' /\ Letters' /\ OwnerRuns'
<1> DEFINE p == Head(tasks)
           h == p.task
<1>1. /\ h \in Task /\ h \in Ready /\ Ready' = Ready \ {h}
      /\ Queuing(queueLock)' = Queuing(queueLock)
      /\ SyncTypeOK'
  BY Facts, PopMoves DEF HoldInv, CallsInv, Dispatch, SyncInv
<1>2. p \in ToSet(tasks) /\ ToSet(tasks') \subseteq ToSet(tasks)
  BY Facts, TailMembers DEF Dispatch, SyncTypeOK
<1>3. \A q \in ToSet(tasks') : q.task # h
  <2>1. \A q \in ToSet(tasks') : q.task \in Ready'
    <3>1. tasks' \in Seq(Packet) BY <1>1 DEF SyncTypeOK
    <3> QED BY <3>1, TailReady
  <2> QED BY <1>1, <2>1
<1>4. /\ running = NoTask /\ UNCHANGED <<variant, eventWaiters, owner, condWaiters, interrupted>>
      /\ IF p.kind = "cancelled" /\ pc[h] = "acquire"
           THEN /\ pc' = [pc EXCEPT ![h] = "idle"] /\ call' = [call EXCEPT ![h] = Idle]
                /\ running' = running
           ELSE /\ running' = h /\ call' = call
                /\ pc' = [pc EXCEPT ![h] = IF p.kind = "cancelled" THEN "leave" ELSE @]
  BY DEF Dispatch, mapVars, syncVars
<1> HIDE DEF h
<1>5. /\ h \notin Queuing(queueLock)
      /\ h \notin condWaiters[notEmpty] /\ h \notin condWaiters[notFull]
  BY <1>1, Facts DEF Apart
<1>6. /\ p.kind \in {"none", "cancelled"}
      /\ p.kind = "none" /\ pc[h] \in Inside => owner[queueLock] = h
      /\ p.kind = "cancelled" => /\ interrupted # {} /\ pc[h] \in {"acquire", "wait"}
                                 /\ owner[queueLock] # h
  BY <1>2 DEF HoldInv, Letters, h
<1> HIDE DEF p
<1>7. Idle.op = "none" BY DEF Idle
<1>8. Homes' BY <1>1, <1>4, <1>5, <1>7, Facts DEF HoldInv, Homes, Calls
<1>9. Letters' BY <1>1, <1>2, <1>3, <1>4, Facts DEF HoldInv, Letters, Inside
<1>10. OwnerRuns' BY <1>1, <1>4, <1>6, Facts DEF HoldInv, OwnerRuns, Inside
<1> QED BY <1>8, <1>9, <1>10

\* A cancelled task did not have the lock and does not get it.
LEMMA CancelHolds ==
    ASSUME HoldInv, NEW t \in Task, Cancel(t)
    PROVE  Homes' /\ Letters' /\ OwnerRuns' /\ interrupted' # {}
<1> DEFINE p == [task |-> t, kind |-> "cancelled", of |-> t]
<1>1. /\ RemoveFromSync(t) /\ tasks' = Append(tasks, p) /\ running = NoTask
      /\ t \in Queuing(queueLock) \/ t \in condWaiters[notEmpty] \/ t \in condWaiters[notFull]
      /\ UNCHANGED <<variant, running, call, pc, owner>>
      /\ interrupted' = interrupted \cup {t}
  BY DEF Cancel, Queuing, mapVars, RemoveFromSync
<1>2. p \in Packet /\ p.task = t /\ p.kind = "cancelled" BY DEF Packet, ExcKind
<1>3. t \notin Ready BY <1>1, Facts DEF Apart
<1> HIDE DEF p
<1>4. /\ Ready' = Ready \cup {t} /\ Queuing(queueLock)' = Queuing(queueLock) \ {t}
      /\ \A e \in Event : eventWaiters'[e] = eventWaiters[e] \ {t}
      /\ \A c \in Cond : condWaiters'[c] = condWaiters[c] \ {t}
  BY <1>1, <1>2, <1>3, Facts, RemoveMoves DEF HoldInv, CallsInv
<1>5. \A q \in ToSet(tasks') : q \in ToSet(tasks) \/ q = p
  BY <1>1, <1>2, Facts, AppendMembers DEF SyncTypeOK
<1>6. pc[t] \in {"acquire", "wait"} /\ owner[queueLock] # t
  BY <1>1, <1>3, SyncAssumption DEF HoldInv, Homes, OwnerRuns
<1>7. Homes' BY <1>1, <1>4, Facts DEF HoldInv, Homes, Calls
<1>8. Letters' BY <1>1, <1>2, <1>5, <1>6, Facts DEF HoldInv, Letters, Inside
<1>9. OwnerRuns' BY <1>1, <1>4, Facts DEF HoldInv, OwnerRuns, Inside
<1> QED BY <1>1, <1>7, <1>8, <1>9

\* The waiters W were passed on, those of H (at most one) with the lock, which was free.
Passed(W, H) ==
    /\ \A x, y \in H : x = y
    /\ H = {} <=> owner[queueLock] # NoTask \/ W = {}
    /\ owner' = owner \/ \E h \in H : owner' = [owner EXCEPT ![queueLock] = h]
    /\ H # {} => owner'[queueLock] \in H
    /\ Ready' = Ready \cup H
    /\ \A p \in ToSet(tasks') : p \in ToSet(tasks) \/ \E h \in H : p = Wakeup(h)
    /\ Queuing(queueLock)' = Queuing(queueLock) \cup (W \ H)

\* The *_nowait methods: a waiter gets the lock when it is free, without anyone's release.
LEMMA NowaitHolds ==
    ASSUME HoldInv, NEW W \in SUBSET Task, NEW H \in SUBSET W,
           \A x \in W : pc[x] = "wait" /\ x \notin Ready,
           \A c \in Cond : condWaiters'[c] \subseteq condWaiters[c],
           Passed(W, H),
           UNCHANGED <<variant, eventWaiters, running, call, pc, interrupted>>
    PROVE  Homes' /\ Letters' /\ OwnerRuns'
<1>1. /\ H = {} => owner' = owner
      /\ H # {} => owner[queueLock] = NoTask
  BY DEF Passed
<1>2. Homes' BY Facts DEF HoldInv, Homes, Calls, Passed
<1>3. \A p \in ToSet(tasks) : p.task \notin H BY Facts
<1>4. Letters' BY <1>1, <1>3, Facts, WakeupFields DEF HoldInv, Letters, Inside, Passed
<1>5. OwnerRuns' BY <1>1, Facts DEF HoldInv, OwnerRuns, Inside, Passed
<1> QED BY <1>2, <1>4, <1>5

-----------------------------------------------------------------------------
(* The steps together.                                                        *)

\* What a running task does inside of the block, as the lock sees it.
LEMMA TurnHolds ==
    ASSUME HoldInv, NEW t \in Task, Turn(t)
    PROVE  Homes' /\ Letters' /\ OwnerRuns'
<1>1. CASE Return(t) BY <1>1, ReturnHolds
<1>2. CASE /\ PutBody(t) \/ GetBody(t) \/ PeekBody(t) \/ CloseBody(t) \/ CloseRest(t)
              \/ LeaveBlock(t)
           /\ UNCHANGED mapVars
  <2>1. variant' = variant /\ running = t /\ FALSE \in BOOLEAN /\ TRUE \in BOOLEAN
    BY <1>2, Bodies DEF HoldInv, mapVars
  <2>2. CASE \E r : Leave(t, r) BY <2>1, <2>2, LeaveHolds
  <2>3. CASE PutItem(t)
    <3>1. /\ ConditionNotify(t, notEmpty, FALSE) /\ Await(t, "leave")
          /\ UNCHANGED <<call, interrupted>>
      BY <2>3 DEF PutItem
    <3> QED BY <2>1, <3>1, Facts, NotifyHolds
  <2>4. CASE GetItem(t)
    <3>1. /\ ConditionNotify(t, notFull, FALSE) /\ Await(t, "leave")
          /\ UNCHANGED <<call, interrupted>>
      BY <2>4 DEF GetItem
    <3> QED BY <2>1, <3>1, Facts, NotifyHolds
  <2>5. CASE CloseBody(t)
    <3>1. /\ ConditionNotify(t, notEmpty, TRUE) /\ Await(t, "closing")
          /\ UNCHANGED <<call, interrupted>>
      BY <2>5 DEF CloseBody
    <3> QED BY <2>1, <3>1, Facts, NotifyHolds
  <2>6. CASE CloseRest(t)
    <3>1. /\ ConditionNotify(t, notFull, TRUE) /\ Await(t, "leave")
          /\ UNCHANGED <<call, interrupted>>
      BY <2>6 DEF CloseRest, queueVars
    <3> QED BY <2>1, <3>1, Facts, NotifyHolds
  <2>7. CASE PutBody(t)
    <3>1. (\E r : Leave(t, r)) \/ PutItem(t) \/ (call[t].op = "put" /\ Wait(t, notFull))
      BY <2>7 DEF PutBody, InBody, SetPut, PlainPut
    <3>2. ASSUME call[t].op = "put", Wait(t, notFull) PROVE Homes' /\ Letters' /\ OwnerRuns'
      BY <2>1, <3>2, Facts, QueueAssumption, WaitHolds
    <3> QED BY <2>2, <2>3, <3>1, <3>2
  <2>8. CASE GetBody(t) \/ PeekBody(t)
    <3>1. \/ \E r : Leave(t, r)
          \/ GetItem(t)
          \/ call[t].op \in {"get", "peek"} /\ Wait(t, notEmpty)
      BY <2>8 DEF GetBody, PeekBody, InBody, WaitForItem
    <3>2. ASSUME call[t].op \in {"get", "peek"}, Wait(t, notEmpty)
          PROVE  Homes' /\ Letters' /\ OwnerRuns'
      BY <2>1, <3>2, Facts, QueueAssumption, WaitHolds
    <3> QED BY <2>2, <2>4, <3>1, <3>2
  <2>9. CASE LeaveBlock(t) BY <2>2, <2>9 DEF LeaveBlock
  <2> QED BY <1>2, <2>5, <2>6, <2>7, <2>8, <2>9
<1> QED BY <1>1, <1>2 DEF Turn

\* notify_nowait() in terms of the waiters that are passed on.
LEMMA NotifyPasses ==
    ASSUME HoldInv, NotifyNowait(notEmpty)
    PROVE  \E W \in SUBSET condWaiters[notEmpty] : \E H \in SUBSET W :
             /\ W = {} <=> condWaiters[notEmpty] = {}
             /\ \A x, y \in W : x = y
             /\ condWaiters' = [condWaiters EXCEPT ![notEmpty] = @ \ W]
             /\ Passed(W, H)
<1> DEFINE l == LockOf[notEmpty]
<1>1. l = queueLock /\ notEmpty \in Cond /\ queueLock \in Lock BY Facts
<1>2. SyncInv /\ Apart BY DEF HoldInv, CallsInv
<1>3. PICK W \in SUBSET condWaiters[notEmpty] : \E H \in SUBSET W :
        /\ W = {} <=> condWaiters[notEmpty] = {}
        /\ \A x, y \in W : x = y
        /\ condWaiters' = [condWaiters EXCEPT ![notEmpty] = @ \ W]
        /\ H = {} <=> owner[l] # NoTask \/ W = {}
        /\ owner' = owner \/ \E h \in H : owner' = [owner EXCEPT ![l] = h]
        /\ H # {} => owner'[l] \in H
        /\ Ready' = Ready \cup H
        /\ \A p \in ToSet(tasks') : p \in ToSet(tasks) \/ \E h \in H : p = Wakeup(h)
        /\ \A m \in Lock : Queuing(m)' =
              IF m = l THEN Queuing(m) \cup (W \ H) ELSE Queuing(m)
  BY <1>1, <1>2, NotifyNowaitMoves, Zenon
<1> HIDE DEF l
<1>4. PICK H \in SUBSET W :
        /\ W = {} <=> condWaiters[notEmpty] = {}
        /\ \A x, y \in W : x = y
        /\ condWaiters' = [condWaiters EXCEPT ![notEmpty] = @ \ W]
        /\ H = {} <=> owner[l] # NoTask \/ W = {}
        /\ owner' = owner \/ \E h \in H : owner' = [owner EXCEPT ![l] = h]
        /\ H # {} => owner'[l] \in H
        /\ Ready' = Ready \cup H
        /\ \A p \in ToSet(tasks') : p \in ToSet(tasks) \/ \E h \in H : p = Wakeup(h)
        /\ Queuing(l)' = Queuing(l) \cup (W \ H)
  BY <1>1, <1>3, Zenon
<1>5. \A x, y \in H : x = y BY <1>4
<1>6. Passed(W, H) BY <1>1, <1>4, <1>5 DEF Passed
<1> QED BY <1>4, <1>6

\* notify_all_nowait() in terms of the waiters that are passed on.
LEMMA NotifyAllPasses ==
    ASSUME HoldInv, NotifyAllNowait(notEmpty, notFull)
    PROVE  LET W == condWaiters[notEmpty] \cup condWaiters[notFull] IN
           /\ condWaiters' = [condWaiters EXCEPT ![notEmpty] = {}, ![notFull] = {}]
           /\ \E H \in SUBSET W : Passed(W, H)
<1> DEFINE l == LockOf[notEmpty]
           W == condWaiters[notEmpty] \cup condWaiters[notFull]
<1>1. /\ l = queueLock /\ LockOf[notFull] = l /\ queueLock \in Lock
      /\ notEmpty \in Cond /\ notFull \in Cond \ {notEmpty}
  BY Facts, QueueAssumption
<1>2. SyncInv /\ Apart BY DEF HoldInv, CallsInv
<1>3. /\ condWaiters' = [condWaiters EXCEPT ![notEmpty] = {}, ![notFull] = {}]
      /\ \E H \in SUBSET W :
          /\ \A x, y \in H : x = y
          /\ H = {} <=> owner[l] # NoTask \/ W = {}
          /\ owner' = owner \/ \E h \in H : owner' = [owner EXCEPT ![l] = h]
          /\ H # {} => owner'[l] \in H
          /\ Ready' = Ready \cup H
          /\ \A p \in ToSet(tasks') : p \in ToSet(tasks) \/ \E h \in H : p = Wakeup(h)
          /\ \A m \in Lock : Queuing(m)' =
                IF m = l THEN Queuing(m) \cup (W \ H) ELSE Queuing(m)
  BY <1>1, <1>2, NotifyAllNowaitMoves, Zenon
<1> HIDE DEF l, W
<1>4. \E H \in SUBSET W : Passed(W, H) BY <1>1, <1>3 DEF Passed
<1> QED BY <1>3, <1>4 DEF W

\* put_nowait() passes one wake-up on, close_nowait() all of them.
LEMMA CommandHolds ==
    ASSUME HoldInv, (\E i \in Item : PutNowait(i)) \/ CloseNowait
    PROVE  Homes' /\ Letters' /\ OwnerRuns'
<1>1. /\ UNCHANGED <<variant, eventWaiters, running, call, pc, interrupted>>
      /\ NotifyNowait(notEmpty) \/ NotifyAllNowait(notEmpty, notFull)
  BY DEF PutNowait, CloseNowait, mapVars, NotifyNowait, NotifyAllNowait
<1>2. /\ SyncInv /\ Apart /\ condWaiters \in [Cond -> SUBSET Task]
      /\ notFull \in Cond \ {notEmpty}
  BY Facts, QueueAssumption DEF HoldInv, CallsInv, SyncTypeOK
<1>3. /\ \A x \in condWaiters[notEmpty] : pc[x] = "wait" /\ x \notin Ready
      /\ \A x \in condWaiters[notFull] : pc[x] = "wait" /\ x \notin Ready
  BY <1>2, Facts DEF HoldInv, Homes, Apart
<1>4. CASE NotifyNowait(notEmpty)
  <2>1. \E W \in SUBSET condWaiters[notEmpty] : \E H \in SUBSET W :
          condWaiters' = [condWaiters EXCEPT ![notEmpty] = @ \ W] /\ Passed(W, H)
    BY <1>2, <1>4, NotifyPasses
  <2>2. PICK W \in SUBSET condWaiters[notEmpty] : \E H \in SUBSET W :
          condWaiters' = [condWaiters EXCEPT ![notEmpty] = @ \ W] /\ Passed(W, H)
    BY <2>1
  <2>3. PICK H \in SUBSET W :
          condWaiters' = [condWaiters EXCEPT ![notEmpty] = @ \ W] /\ Passed(W, H)
    BY <2>2
  <2>4. /\ W \in SUBSET Task /\ \A x \in W : pc[x] = "wait" /\ x \notin Ready
        /\ \A c \in Cond : condWaiters'[c] \subseteq condWaiters[c]
    BY <1>2, <1>3, <2>3, Facts
  <2> QED BY <1>1, <2>3, <2>4, NowaitHolds
<1>5. CASE NotifyAllNowait(notEmpty, notFull)
  <2> DEFINE W == condWaiters[notEmpty] \cup condWaiters[notFull]
  <2>1. PICK H \in SUBSET W :
          /\ condWaiters' = [condWaiters EXCEPT ![notEmpty] = {}, ![notFull] = {}]
          /\ Passed(W, H)
    BY <1>2, <1>5, NotifyAllPasses
  <2>2. /\ W \in SUBSET Task /\ \A x \in W : pc[x] = "wait" /\ x \notin Ready
        /\ \A c \in Cond : condWaiters'[c] \subseteq condWaiters[c]
    BY <1>2, <1>3, <2>1, Facts
  <2> HIDE DEF W
  <2> QED BY <1>1, <2>1, <2>2, NowaitHolds
<1> QED BY <1>1, <1>4, <1>5

\* In the beginning nobody has the lock.
LEMMA InitHold == Init => HoldInv
<1> SUFFICES ASSUME Init PROVE HoldInv OBVIOUS
<1>1. CallsInv BY InitCalls
<1>2. Ready = {} /\ Queuing(queueLock) = {}
  BY InitPlaces, QueueAssumption DEF Init, SyncInit
<1>3. ToSet(tasks) = {} BY OneName DEF Init
<1>4. Homes BY <1>2, QueueAssumption DEF Init, SyncInit, Homes, Idle
<1>5. Letters BY <1>3 DEF Letters
<1>6. OwnerRuns
  <2>1. owner[queueLock] = NoTask BY QueueAssumption DEF Init, SyncInit
  <2> QED BY <2>1, SyncAssumption DEF Init, OwnerRuns
<1> QED BY <1>1, <1>4, <1>5, <1>6 DEF HoldInv

\* Every step keeps the invariant.
LEMMA NextHold ==
    ASSUME HoldInv, [Next]_vars
    PROVE  HoldInv'
<1>1. CallsInv' BY NextCalls DEF HoldInv
<1>2. SUFFICES Homes' /\ Letters' /\ OwnerRuns' BY <1>1 DEF HoldInv
<1>3. ASSUME NEW t \in Task, NEW o \in Operation, BeginCall(t, o)
      PROVE  Homes' /\ Letters' /\ OwnerRuns'
  BY <1>3, BeginHolds DEF BeginCall
<1>4. ASSUME NEW t \in Task, BeginUntilEmpty(t) PROVE Homes' /\ Letters' /\ OwnerRuns'
  <2> DEFINE o == [op |-> IF items = <<>> THEN "close" ELSE "get", item |-> NoItem]
  <2>1. o \in Operation /\ o.op # "peek" BY DEF Operation
  <2>2. Begin(t, o) BY <1>4 DEF BeginUntilEmpty
  <2> HIDE DEF o
  <2> QED BY <2>1, <2>2, BeginHolds
<1>5. CASE \/ UNCHANGED vars
           \/ \E t \in Task, i \in Item : MapPutKnown(t, i)
  <2>1. UNCHANGED <<variant, tasks, eventWaiters, owner, lockWaiters, condWaiters, running,
                    call, pc, interrupted>>
    BY <1>5 DEF vars, mapVars, syncVars, MapPutKnown
  <2>2. Ready' = Ready /\ Queuing(queueLock)' = Queuing(queueLock) BY <2>1 DEF Ready, Queuing
  <2> QED BY <2>1, <2>2 DEF HoldInv, Homes, Letters, OwnerRuns, Calls
<1> QED BY <1>3, <1>4, <1>5, DispatchHolds, TurnHolds, CancelHolds, CommandHolds DEF Next

\* Whoever runs inside of an operation owns the lock of the queue, for any number of tasks
\* and whatever is cancelled: no wait() and no notify() of queues.py fails its assertion.
THEOREM InsideOwnsTheLock == Spec => []OwnsInside
<1>1. HoldInv => OwnsInside BY DEF HoldInv, OwnerRuns, OwnsInside, Inside
<1>2. HoldInv /\ [Next]_vars => HoldInv' BY NextHold
<1> QED BY <1>1, <1>2, InitHold, PTL DEF Spec

-----------------------------------------------------------------------------
(* The map of an AsyncMapQueue.                                               *)

\* Where nobody is cancelled an operation leaves its block decided; and while the queue is
\* open, every key with causes is in the queue or carried.
KeysInv ==
    interrupted = {} =>
        /\ \A t \in Task : pc[t] \in {"closing", "leave", "release"} => reply[t] # Pending
        /\ variant.class = "map" /\ ~closed =>
              \A i \in Item : causes[i] = 0 \/ i \in ToSet(items) \/ \E t \in Task : Carries(t, i)

\* A step of task t that decides no call to be over, and drops no item and no key.
LEMMA KeysKept ==
    ASSUME HoldInv, KeysInv, UNCHANGED <<variant, causes>>, ~closed' => ~closed,
           interrupted \subseteq interrupted',
           interrupted' = {} => \A t \in Task :
               /\ pc'[t] \in {"closing", "leave", "release"} => reply'[t] # Pending
               /\ variant.class = "map" /\ ~closed' =>
                     \A i \in Item : Carries(t, i) => i \in ToSet(items') \/ Carries(t, i)',
           variant.class = "map" /\ ~closed' => \A i \in ToSet(items) :
               i \in ToSet(items') \/ \E t \in Task : Carries(t, i)'
    PROVE  KeysInv'
<1> SUFFICES ASSUME interrupted' = {} PROVE KeysInv' BY DEF KeysInv
<1>1. interrupted = {} OBVIOUS
<1> QED BY <1>1 DEF KeysInv

\* What a running task does in its block.
LEMMA BodyKeys ==
    ASSUME HoldInv, KeysInv, NEW t \in Task, UNCHANGED mapVars,
           \/ PutBody(t) \/ GetBody(t) \/ PeekBody(t)
           \/ CloseBody(t) \/ CloseRest(t) \/ LeaveBlock(t)
    PROVE  KeysInv'
<1>1. /\ CallsInv /\ running = t /\ UNCHANGED <<variant, causes>>
      /\ pc \in [Task -> {"idle", "acquire", "wait", "closing", "leave", "release"}]
      /\ call \in [Task -> Operation \cup {Idle}] /\ reply \in [Task -> Reply]
      /\ items \in Seq(Item)
  BY Bodies DEF HoldInv, CallsInv, QueueTypeOK, mapVars
<1>2. /\ QueueClosed # Pending
      /\ \A i : Ok(i) # Pending /\ Ok(i) # QueueClosed
      /\ \A i, j : Ok(i) = Ok(j) => i = j
  BY Values
<1>3. pc[t] \in {"acquire", "wait"} => reply[t] = Pending BY <1>1 DEF CallsInv, Phases
<1>4. ASSUME NEW c \in Cond, Wait(t, c) PROVE KeysInv'
  <2>1. /\ pc' = [pc EXCEPT ![t] = "wait"] /\ UNCHANGED <<items, closed, call, reply, interrupted>>
    BY <1>4 DEF Wait, Await, queueVars
  <2> QED BY <1>1, <2>1, KeysKept DEF Carries, KeysInv
<1>5. ASSUME pc[t] = "leave", Leave(t, reply[t]) PROVE KeysInv'
  <2>1. /\ pc' = [pc EXCEPT ![t] = "release"] /\ UNCHANGED <<items, closed, call, interrupted>>
        /\ reply' = reply
    BY <1>1, <1>5 DEF Leave, Await, Decide
  <2> QED BY <1>1, <1>5, <2>1, KeysKept DEF Carries, KeysInv
<1>6. ASSUME pc[t] \in {"acquire", "wait"}, NEW r, r # Pending, Leave(t, r),
             call[t].op = "put" => closed \/ variant.class = "set"
      PROVE  KeysInv'
  <2>1. /\ pc' = [pc EXCEPT ![t] = "release"] /\ UNCHANGED <<items, closed, call, interrupted>>
        /\ reply' = [reply EXCEPT ![t] = r]
    BY <1>6 DEF Leave, Await, Decide
  <2>2. ASSUME variant.class = "map", ~closed, NEW u \in Task, NEW i \in Item, Carries(u, i)
        PROVE  Carries(u, i)'
    BY <1>1, <1>2, <1>3, <1>6, <2>1, <2>2 DEF Carries
  <2> QED BY <1>1, <1>6, <2>1, <2>2, KeysKept DEF KeysInv
<1>7. ASSUME pc[t] \in {"acquire", "wait"}, call[t].op = "put", PutItem(t) PROVE KeysInv'
  <2>1. /\ pc' = [pc EXCEPT ![t] = "leave"] /\ UNCHANGED <<closed, call, interrupted>>
        /\ reply' = [reply EXCEPT ![t] = Ok(call[t].item)]
        /\ items' = Append(items, call[t].item)
    BY <1>7 DEF PutItem, Await, Decide
  <2>2. call[t].item \in Item BY <1>1, <1>7 DEF Operation, Idle
  <2>3. ToSet(items') = ToSet(items) \cup {call[t].item} BY <1>1, <2>1, <2>2, AppendMembers
  <2>4. ASSUME NEW u \in Task, NEW i \in Item, Carries(u, i)
        PROVE  i \in ToSet(items') \/ Carries(u, i)'
    BY <1>1, <1>2, <1>7, <2>1, <2>3, <2>4 DEF Carries
  <2> QED BY <1>1, <1>2, <2>1, <2>3, <2>4, KeysKept DEF KeysInv
<1>8. ASSUME pc[t] \in {"acquire", "wait"}, call[t].op = "get", GetItem(t), items # <<>>
      PROVE  KeysInv'
  <2> PICK h : h = Head(items) OBVIOUS
  <2>1. /\ pc' = [pc EXCEPT ![t] = "leave"] /\ UNCHANGED <<closed, call, interrupted>>
        /\ reply' = [reply EXCEPT ![t] = Ok(h)] /\ items' = Tail(items)
    BY <1>8 DEF GetItem, Await, Decide
  <2>2. ToSet(items) = ToSet(items') \cup {h}
    BY <1>1, <1>8, <2>1, TailMembers
  <2>3. Carries(t, h)' BY <1>1, <1>8, <2>1 DEF Carries
  <2>4. ASSUME NEW u \in Task, NEW i \in Item, Carries(u, i)
        PROVE  Carries(u, i)'
    BY <1>1, <1>2, <1>3, <1>8, <2>1, <2>4 DEF Carries
  <2>5. \A i \in ToSet(items) : i \in ToSet(items') \/ \E u \in Task : Carries(u, i)'
    BY <2>2, <2>3
  <2>6. interrupted = {} => \A u \in Task :
            pc'[u] \in {"closing", "leave", "release"} => reply'[u] # Pending
    BY <1>1, <1>2, <2>1 DEF KeysInv
  <2> QED BY <1>1, <2>1, <2>4, <2>5, <2>6, KeysKept
<1>9. ASSUME CloseBody(t) PROVE KeysInv'
  <2>1. /\ closed' = TRUE /\ UNCHANGED <<call, interrupted>>
        /\ pc' = [pc EXCEPT ![t] = "closing"] /\ reply' = [reply EXCEPT ![t] = Ok(NoItem)]
    BY <1>9 DEF CloseBody, Await, Decide
  <2> QED BY <1>1, <1>2, <2>1, KeysKept DEF KeysInv
<1>10. ASSUME CloseRest(t) PROVE KeysInv'
  <2>1. /\ pc' = [pc EXCEPT ![t] = "leave"] /\ UNCHANGED <<items, closed, call, reply, interrupted>>
        /\ pc[t] = "closing"
    BY <1>10 DEF CloseRest, Await, queueVars
  <2> QED BY <1>1, <2>1, KeysKept DEF Carries, KeysInv
<1>11. ASSUME pc[t] \in {"acquire", "wait"},
              \/ /\ call[t].op = "put" /\ variant.class = "set"
                 /\ Leave(t, Ok(call[t].item))
              \/ call[t].op = "put" /\ closed /\ Leave(t, QueueClosed)
              \/ call[t].op = "peek" /\ Leave(t, Ok(Head(items)))
              \/ call[t].op \in {"get", "peek"} /\ Leave(t, QueueClosed)
       PROVE  KeysInv'
  <2>1. PICK r : r # Pending /\ Leave(t, r) BY <1>2, <1>11
  <2>2. call[t].op = "put" => closed \/ variant.class = "set" BY <1>11
  <2> QED BY <1>6, <1>11, <2>1, <2>2
<1>12. \/ \E c \in Cond : Wait(t, c)
       \/ pc[t] = "leave" /\ Leave(t, reply[t])
       \/ /\ pc[t] \in {"acquire", "wait"}
          /\ \/ /\ call[t].op = "put" /\ variant.class = "set"
                /\ Leave(t, Ok(call[t].item))
             \/ call[t].op = "put" /\ closed /\ Leave(t, QueueClosed)
             \/ call[t].op = "peek" /\ Leave(t, Ok(Head(items)))
             \/ call[t].op \in {"get", "peek"} /\ Leave(t, QueueClosed)
       \/ pc[t] \in {"acquire", "wait"} /\ call[t].op = "put" /\ PutItem(t)
       \/ pc[t] \in {"acquire", "wait"} /\ call[t].op = "get" /\ GetItem(t) /\ items # <<>>
       \/ CloseBody(t)
       \/ CloseRest(t)
  BY <1>1, Bodies
<1> QED BY <1>4, <1>5, <1>7, <1>8, <1>9, <1>10, <1>11, <1>12

\* A put() of an AsyncMapQueue enters a key and carries it from here on.
LEMMA BeginKeys ==
    ASSUME HoldInv, KeysInv, NEW t \in Task, NEW o \in Operation, Begin(t, o),
           \/ UNCHANGED causes
           \/ o.op = "put" /\ causes[o.item] = 0 /\ MapPut(o.item)
    PROVE  KeysInv'
<1>1. /\ pc[t] = "idle" /\ pc' = [pc EXCEPT ![t] = "acquire"]
      /\ call' = [call EXCEPT ![t] = o]
      /\ UNCHANGED <<variant, items, closed, reply, interrupted>>
  BY DEF Begin
<1>2. /\ pc \in [Task -> {"idle", "acquire", "wait", "closing", "leave", "release"}]
      /\ call \in [Task -> Operation \cup {Idle}] /\ causes \in [Item -> 0..MaxCauses]
      /\ call[t] = Idle /\ reply[t] = Pending
  BY <1>1 DEF HoldInv, CallsInv, QueueTypeOK, Phases
<1>3. ASSUME NEW u \in Task, NEW i \in Item, Carries(u, i) PROVE Carries(u, i)'
  BY <1>1, <1>2, <1>3 DEF Carries, Idle
<1>4. \A i \in Item : \/ causes'[i] = causes[i]
                      \/ o.op = "put" /\ i = o.item /\ Carries(t, i)'
  BY <1>1, <1>2 DEF MapPut, Carries
<1> QED BY <1>1, <1>2, <1>3, <1>4 DEF KeysInv

\* An operation returns: AsyncMapQueue.get() takes the key out of the map that it carries.
LEMMA ReturnKeys ==
    ASSUME HoldInv, KeysInv, NEW t \in Task, Return(t)
    PROVE  KeysInv'
<1>1. /\ pc[t] = "release" /\ pc' = [pc EXCEPT ![t] = "idle"]
      /\ call' = [call EXCEPT ![t] = Idle] /\ reply' = [reply EXCEPT ![t] = Pending]
      /\ UNCHANGED <<variant, items, closed, interrupted>>
  BY DEF Return, Await, Decide
<1>2. /\ pc \in [Task -> {"idle", "acquire", "wait", "closing", "leave", "release"}]
      /\ call \in [Task -> Operation \cup {Idle}] /\ causes \in [Item -> 0..MaxCauses]
  BY DEF HoldInv, CallsInv, QueueTypeOK
<1> SUFFICES ASSUME interrupted = {} PROVE KeysInv' BY <1>1 DEF KeysInv
<1>3. reply[t] # Pending BY <1>1 DEF KeysInv
<1>4. ASSUME NEW i \in Item, causes'[i] # 0, variant.class = "map", NEW u \in Task, Carries(u, i)
      PROVE  u # t /\ Carries(u, i)'
  <2>1. Ok(i).kind = "ok" /\ Ok(i).item = i BY DEF Ok
  <2>2. u # t BY <1>2, <1>3, <1>4, <2>1 DEF Carries, Return, Pop
  <2> QED BY <1>1, <1>4, <2>2 DEF Carries
<1>5. \A i \in Item : causes'[i] # 0 => causes[i] # 0 BY <1>2 DEF Return, Pop
<1> QED BY <1>1, <1>2, <1>4, <1>5 DEF KeysInv

\* Every step keeps the keys.
LEMMA NextKeys ==
    ASSUME HoldInv, KeysInv, [Next]_vars
    PROVE  KeysInv'
<1>1. ASSUME NEW t \in Task, Turn(t) PROVE KeysInv'
  BY <1>1, BodyKeys, ReturnKeys DEF Turn
<1>2. ASSUME NEW t \in Task, NEW o \in Operation, BeginCall(t, o) PROVE KeysInv'
  BY <1>2, BeginKeys DEF BeginCall
<1>3. ASSUME NEW t \in Task, BeginUntilEmpty(t) PROVE KeysInv'
  <2> DEFINE o == [op |-> IF items = <<>> THEN "close" ELSE "get", item |-> NoItem]
  <2>1. o \in Operation BY DEF Operation
  <2>2. Begin(t, o) /\ UNCHANGED causes BY <1>3 DEF BeginUntilEmpty
  <2> HIDE DEF o
  <2> QED BY <2>1, <2>2, BeginKeys
<1>4. ASSUME NEW t \in Task, Cancel(t) PROVE KeysInv'
  BY <1>4 DEF Cancel, KeysInv
<1>5. ASSUME NEW t \in Task, NEW i \in Item, MapPutKnown(t, i) PROVE KeysInv'
  <2>1. causes \in [Item -> 0..MaxCauses] BY DEF HoldInv, CallsInv, QueueTypeOK
  <2>2. /\ UNCHANGED <<variant, items, closed, call, pc, reply, interrupted>>
        /\ causes[i] > 0 /\ causes' = [causes EXCEPT ![i] = @ + 1]
    BY <1>5 DEF MapPutKnown
  <2>3. \A k \in Item : causes'[k] # 0 => causes[k] # 0 BY <2>1, <2>2
  <2>4. \A u \in Task, k \in Item : Carries(u, k)' <=> Carries(u, k) BY <2>2 DEF Carries
  <2> QED BY <2>2, <2>3, <2>4 DEF KeysInv
<1>6. ASSUME Dispatch PROVE KeysInv'
  <2> DEFINE p == Head(tasks)
  <2>1. p \in ToSet(tasks)
    <3>1. tasks \in Seq(Packet) /\ tasks # <<>>
      BY <1>6, Facts DEF Dispatch, SyncTypeOK
    <3> QED BY <3>1, TailMembers
  <2>2. p.kind = "cancelled" => interrupted # {} BY <2>1 DEF HoldInv, Letters
  <2>3. UNCHANGED <<variant, causes, items, closed, reply, interrupted>>
    BY <1>6 DEF Dispatch, mapVars
  <2>4. interrupted = {} => call' = call /\ pc' = [pc EXCEPT ![p.task] = pc[p.task]]
    BY <1>6, <2>2 DEF Dispatch
  <2>5. interrupted = {} => pc' = pc
    <3>1. [pc EXCEPT ![p.task] = pc[p.task]] = pc BY Facts
    <3> QED BY <2>4, <3>1
  <2> QED BY <2>3, <2>4, <2>5 DEF KeysInv, Carries
<1>7. ASSUME NEW i \in Item, PutNowait(i) PROVE KeysInv'
  <2>1. variant.class = "set" BY <1>7, PutNowaitCalls DEF HoldInv
  <2> QED BY <1>7, <2>1 DEF PutNowait, KeysInv, mapVars
<1>8. CASE CloseNowait \/ UNCHANGED vars
  <2>1. /\ UNCHANGED <<variant, causes, items, call, pc, reply, interrupted>>
        /\ closed' = TRUE \/ closed' = closed
    BY <1>8 DEF CloseNowait, vars, mapVars
  <2> QED BY <2>1 DEF KeysInv, Carries
<1> QED BY <1>1, <1>2, <1>3, <1>4, <1>5, <1>6, <1>7, <1>8 DEF Next

\* AsyncMapQueue: its map and its queue agree, though put() and get() change them at
\* different moments, as long as nobody is cancelled and the queue is open.
THEOREM MapKeepsUp == Spec => []MapAgrees
<1>1. HoldInv /\ KeysInv => MapAgrees
  <2> SUFFICES ASSUME HoldInv, KeysInv, variant.class = "map", ~closed, interrupted = {}
               PROVE  {i \in Item : causes[i] > 0}
                        = ToSet(items) \cup {i \in Item : \E t \in Task : Carries(t, i)}
    BY DEF MapAgrees
  <2>1. /\ \A i \in Item : causes[i] > 0 <=> causes[i] # 0
        /\ items \in Seq(Item)
    <3>1. causes \in [Item -> 0..MaxCauses] BY DEF HoldInv, CallsInv, QueueTypeOK
    <3>2. \A i \in Item : causes[i] \in Nat BY <3>1, QueueAssumption
    <3> QED BY <3>2 DEF HoldInv, CallsInv, QueueTypeOK
  <2>2. ToSet(items) \subseteq Item BY <2>1, QueueMembers
  <2>3. MapOnce BY DEF HoldInv, CallsInv
  <2>4. \A i \in Item : causes[i] # 0 <=> i \in ToSet(items) \/ \E t \in Task : Carries(t, i)
    BY <2>3 DEF MapOnce, KeysInv
  <2> QED BY <2>1, <2>2, <2>4
<1>2. HoldInv /\ KeysInv /\ [Next]_vars => HoldInv' /\ KeysInv' BY NextHold, NextKeys
<1>3. Init => HoldInv /\ KeysInv
  <2>1. Init => KeysInv BY DEF Init, KeysInv
  <2> QED BY <2>1, InitHold
<1> QED BY <1>1, <1>2, <1>3, PTL DEF Spec

-----------------------------------------------------------------------------
(* No wake-up is lost.  One call cannot see it: that a get() sleeps beside an  *)
(* item is right as long as others that were woken have not got there yet.    *)

\* The tasks that go to the queue with operation o, or were woken for it, and do not sleep
\* on c: each of them will look at the items.
Looking(o, c) ==
    {t \in Task : call[t].op = o /\ pc[t] \in {"acquire", "wait"} /\ t \notin condWaiters[c]}

\* Somebody sleeps on c only while enough others look for the n things there are.
Enough(c, n, G) == condWaiters[c] = {} \/ n <= Cardinality(G)

GettersSuffice ==
    "peek" \notin Calls /\ interrupted = {} =>
        Enough(notEmpty, Len(items), Looking("get", notEmpty))

PuttersSuffice ==
    variant.class # "set" /\ interrupted = {} =>
        Enough(notFull, variant.max - Len(items), Looking("put", notFull))

\* Between the two notify_all() of close() putters may sleep, and after it none.
ClosedServes ==
    variant.class # "set" /\ closed =>
        condWaiters[notFull] = {} \/ \E t \in Task : pc[t] = "closing"

Suffices == GettersSuffice /\ PuttersSuffice /\ ClosedServes

WakeInv == HoldInv /\ Suffices

\* The sets that are counted are finite.
LEMMA LookingFinite ==
    /\ \A o, c : IsFiniteSet(Looking(o, c)) /\ Cardinality(Looking(o, c)) \in Nat
    /\ \A o, c : IsFiniteSet(Looking(o, c))' /\ Cardinality(Looking(o, c))' \in Nat
<1>1. \A S \in SUBSET Task : IsFiniteSet(S) /\ Cardinality(S) \in Nat
  BY SyncAssumption, FS_Subset, FS_CardinalityType
<1>2. \A o, c : Looking(o, c) \in SUBSET Task /\ Looking(o, c)' \in SUBSET Task
  BY DEF Looking
<1> QED BY <1>1, <1>2, Zenon

\* What a step may do to the sleepers S, to the number m of things there are and to the
\* set G of those that look for them.
LEMMA EnoughStays ==
    ASSUME NEW S, NEW T, NEW m \in Int, NEW n \in Int, NEW G, NEW H,
           IsFiniteSet(G), IsFiniteSet(H), S = {} \/ m <= Cardinality(G),
           \/ T = {} \/ n <= 0
           \/ /\ S = {} => T = {}
              /\ \/ n <= m /\ G \subseteq H
                 \/ n = m - 1 /\ \E x \in G : G \ {x} \subseteq H
                 \/ n = m + 1 /\ G \subseteq H /\ \E x \in H : x \notin G
    PROVE  T = {} \/ n <= Cardinality(H)
<1>1. Cardinality(G) \in Nat /\ Cardinality(H) \in Nat BY FS_CardinalityType
<1>2. ASSUME S = {} \/ m <= Cardinality(G), n <= m, G \subseteq H
      PROVE  S = {} \/ n <= Cardinality(H)
  <2>1. Cardinality(G) <= Cardinality(H) BY <1>2, FS_Subset
  <2> QED BY <1>1, <1>2, <2>1
<1>3. ASSUME S = {} \/ m <= Cardinality(G), n = m - 1, NEW x \in G, G \ {x} \subseteq H
      PROVE  S = {} \/ n <= Cardinality(H)
  <2>1. Cardinality(G \ {x}) = Cardinality(G) - 1 BY <1>3, FS_RemoveElement
  <2>2. Cardinality(G \ {x}) <= Cardinality(H) BY <1>3, FS_Subset
  <2> QED BY <1>1, <1>3, <2>1, <2>2
<1>4. ASSUME S = {} \/ m <= Cardinality(G), n = m + 1, G \subseteq H, NEW x \in H, x \notin G
      PROVE  S = {} \/ n <= Cardinality(H)
  <2>1. Cardinality(G \cup {x}) = Cardinality(G) + 1 BY <1>4, FS_AddElement
  <2>2. Cardinality(G \cup {x}) <= Cardinality(H)
    <3>1. G \cup {x} \subseteq H BY <1>4
    <3> QED BY <3>1, FS_Subset
  <2> QED BY <1>1, <1>4, <2>1, <2>2
<1>5. CASE T = {} BY <1>5
<1>6. CASE n <= 0 BY <1>1, <1>6
<1> QED BY <1>2, <1>3, <1>4, <1>5, <1>6

\* The task between the two notify_all() of close() has the lock.
LEMMA ClosingOwns ==
    ASSUME HoldInv, NEW t \in Task, pc[t] = "closing"
    PROVE  owner[queueLock] = t
<1>1. CASE running = t BY <1>1 DEF HoldInv, OwnerRuns, Inside
<1>2. CASE running # t
  <2>1. t \in Ready BY <1>2, Facts, QueueAssumption DEF HoldInv, Homes, Nowhere
  <2>2. PICK p \in ToSet(tasks) : p.task = t BY <2>1, Facts
  <2> QED BY <2>2 DEF HoldInv, Letters, Inside
<1> QED BY <1>1, <1>2

\* The numbers that are counted.
LEMMA Numbers ==
    ASSUME HoldInv
    PROVE  /\ items \in Seq(Item) /\ Len(items) \in Nat
           /\ variant.max \in Nat /\ variant.max - Len(items) \in Int
           /\ Full <=> variant.max - Len(items) <= 0
           /\ notEmpty # notFull
<1>1. items \in Seq(Item) /\ variant \in Variants BY DEF HoldInv, CallsInv, QueueTypeOK
<1>2. Len(items) \in Nat BY <1>1, LenProperties
<1>3. variant.max \in Nat BY <1>1, QueueAssumption
<1> QED BY <1>1, <1>2, <1>3, QueueAssumption DEF Full

\* The ways in which a step keeps enough of G on their way to the n things there are.
Stays(c, n, G) ==
    \/ condWaiters'[c] = {} \/ n' <= 0
    \/ /\ condWaiters[c] = {} => condWaiters'[c] = {}
       /\ \/ n' <= n /\ G \subseteq G'
          \/ n' = n - 1 /\ \E x \in G : G \ {x} \subseteq G'
          \/ n' = n + 1 /\ G \subseteq G' /\ \E x \in G' : x \notin G

Continues ==
    /\ variant' = variant /\ interrupted \subseteq interrupted'
    /\ "peek" \notin Calls /\ interrupted' = {} =>
           Stays(notEmpty, Len(items), Looking("get", notEmpty))
    /\ variant.class # "set" /\ interrupted' = {} =>
           Stays(notFull, variant.max - Len(items), Looking("put", notFull))
    /\ ClosedServes'

\* A step that continues keeps the invariant.
LEMMA ContinuesSuffices ==
    ASSUME WakeInv, HoldInv', Continues
    PROVE  Suffices'
<1>1. /\ Len(items) \in Int /\ variant.max - Len(items) \in Int
      /\ Len(items)' \in Int /\ (variant.max - Len(items))' \in Int
  <2>1. Len(items) \in Nat /\ variant.max \in Nat /\ variant.max - Len(items) \in Int
    BY Numbers DEF WakeInv
  <2>2. items' \in Seq(Item) BY DEF HoldInv, CallsInv, QueueTypeOK
  <2>3. Len(items') \in Nat BY <2>2, LenProperties
  <2> QED BY <2>1, <2>3 DEF Continues
<1> DEFINE G == Looking("get", notEmpty)
           P == Looking("put", notFull)
<1>2. IsFiniteSet(G) /\ IsFiniteSet(G') /\ IsFiniteSet(P) /\ IsFiniteSet(P')
  BY LookingFinite, Zenon
<1> HIDE DEF G, P
<1>3. ASSUME "peek" \notin Calls, interrupted' = {}
      PROVE  condWaiters'[notEmpty] = {} \/ Len(items)' <= Cardinality(G')
  <2>1. condWaiters[notEmpty] = {} \/ Len(items) <= Cardinality(G)
    BY <1>3 DEF Continues, WakeInv, Suffices, GettersSuffice, Enough, G
  <2>2. Stays(notEmpty, Len(items), G) BY <1>3 DEF Continues, G
  <2> QED BY <1>1, <1>2, <2>1, <2>2, EnoughStays, Zenon DEF Stays
<1>4. ASSUME variant.class # "set", interrupted' = {}
      PROVE  condWaiters'[notFull] = {} \/ (variant.max - Len(items))' <= Cardinality(P')
  <2> DEFINE n == variant.max - Len(items)
  <2>1. condWaiters[notFull] = {} \/ n <= Cardinality(P)
    BY <1>4 DEF Continues, WakeInv, Suffices, PuttersSuffice, Enough, P
  <2>2. Stays(notFull, n, P) BY <1>4 DEF Continues, P
  <2>3. n \in Int /\ n' \in Int BY <1>1
  <2> HIDE DEF n
  <2>4. condWaiters'[notFull] = {} \/ n' <= Cardinality(P')
    BY <1>2, <2>1, <2>2, <2>3, EnoughStays, Zenon DEF Stays
  <2> QED BY <2>4 DEF n
<1>5. GettersSuffice' BY <1>3 DEF GettersSuffice, Enough, Continues, G, Calls
<1>6. PuttersSuffice' BY <1>4 DEF PuttersSuffice, Enough, Continues, P
<1> QED BY <1>5, <1>6 DEF Suffices, Continues

\* A step that touches neither items nor sleepers, of a task that is not looking or is not
\* looking for this.
LEMMA OthersContinue ==
    ASSUME WakeInv, UNCHANGED <<variant, items, closed, condWaiters>>,
           interrupted \subseteq interrupted',
           \A x \in Task : /\ pc[x] = "closing" => pc'[x] = "closing"
                           /\ pc[x] \in {"acquire", "wait"} /\ interrupted' = {} =>
                                pc'[x] = pc[x] /\ call'[x] = call[x]
    PROVE  Continues
<1>1. /\ Looking("get", notEmpty) \subseteq Looking("get", notEmpty)' \/ interrupted' # {}
      /\ Looking("put", notFull) \subseteq Looking("put", notFull)' \/ interrupted' # {}
  BY DEF Looking
<1>2. Len(items)' <= Len(items) /\ (variant.max - Len(items))' <= variant.max - Len(items)
  BY Numbers DEF WakeInv
<1>3. ClosedServes' BY DEF WakeInv, Suffices, ClosedServes
<1> QED BY <1>1, <1>2, <1>3 DEF Continues, Stays

\* The loop, the first await and the last one, and a call that needs none.
LEMMA LoopContinues ==
    ASSUME WakeInv,
           \/ \E t \in Task : \/ \E o : Begin(t, o)
                              \/ Return(t)
                              \/ LeaveBlock(t) /\ UNCHANGED mapVars
                              \/ \E i \in Item : MapPutKnown(t, i)
           \/ Dispatch
           \/ UNCHANGED vars
    PROVE  Continues
<1>1. ASSUME NEW t \in Task, \E o : Begin(t, o) PROVE Continues
  BY <1>1, Facts, OthersContinue DEF Begin, LockAcquire, WakeInv
<1>2. ASSUME NEW t \in Task, Return(t) PROVE Continues
  BY <1>2, Facts, OthersContinue DEF Return, Await, syncVars, WakeInv
<1>3. ASSUME NEW t \in Task, LeaveBlock(t) /\ UNCHANGED mapVars PROVE Continues
  BY <1>3, Facts, OthersContinue DEF LeaveBlock, Leave, Await, LockRelease, mapVars, WakeInv
<1>4. CASE (\E t \in Task, i \in Item : MapPutKnown(t, i)) \/ UNCHANGED vars
  BY <1>4, OthersContinue DEF MapPutKnown, syncVars, mapVars, vars
<1>5. CASE Dispatch
  <2> DEFINE p == Head(tasks)
  <2>1. p \in ToSet(tasks) BY <1>5, Facts, TailMembers DEF Dispatch, SyncTypeOK, WakeInv
  <2>2. /\ UNCHANGED <<variant, items, closed, condWaiters, interrupted>>
        /\ IF p.kind = "cancelled" /\ pc[p.task] = "acquire"
             THEN pc' = [pc EXCEPT ![p.task] = "idle"]
             ELSE /\ call' = call
                  /\ pc' = [pc EXCEPT ![p.task] = IF p.kind = "cancelled" THEN "leave" ELSE @]
    BY <1>5 DEF Dispatch, mapVars, syncVars
  <2>3. p.kind = "cancelled" => interrupted # {} /\ pc[p.task] \in {"acquire", "wait"}
    BY <2>1 DEF WakeInv, HoldInv, Letters
  <2> HIDE DEF p
  <2> QED BY <2>2, <2>3, Facts, OthersContinue DEF WakeInv
<1> QED BY <1>1, <1>2, <1>3, <1>4, <1>5

\* A cancelled task takes its wake-up with it: from then on nothing is promised.
LEMMA CancelContinues ==
    ASSUME WakeInv, NEW t \in Task, Cancel(t)
    PROVE  Continues
<1>1. UNCHANGED <<variant, closed, pc>> BY DEF Cancel, mapVars
<1>2. interrupted \subseteq interrupted' /\ interrupted' # {} BY DEF Cancel
<1>3. condWaiters[notFull] = {} => condWaiters'[notFull] = {}
  <2> DEFINE p == [task |-> t, kind |-> "cancelled", of |-> t]
  <2>1. p \in Packet /\ p.task = t BY DEF Packet, ExcKind
  <2>2. RemoveFromSync(t) /\ tasks' = Append(tasks, p) BY DEF Cancel
  <2>3. t \notin Ready
    <3>1. \/ t \in Queuing(queueLock) \/ t \in condWaiters[notEmpty]
          \/ t \in condWaiters[notFull]
      BY DEF Cancel, Queuing
    <3> QED BY <3>1, Facts DEF Apart, WakeInv
  <2>4. notFull \in Cond /\ SyncInv /\ Apart BY Facts DEF WakeInv, HoldInv, CallsInv
  <2> HIDE DEF p
  <2>5. condWaiters'[notFull] = condWaiters[notFull] \ {t}
    BY <2>1, <2>2, <2>3, <2>4, RemoveMoves
  <2> QED BY <2>5
<1>4. ClosedServes' BY <1>1, <1>3 DEF WakeInv, Suffices, ClosedServes
<1> QED BY <1>1, <1>2, <1>4 DEF Continues

\* Whoever goes to sleep has found nothing there.
LEMMA WaitContinues ==
    ASSUME WakeInv, NEW t \in Task, NEW c \in Cond, running = t, Wait(t, c), variant' = variant,
           pc[t] \in {"acquire", "wait"},
           \/ c = notEmpty /\ call[t].op \in {"get", "peek"} /\ items = <<>>
           \/ /\ c = notFull /\ call[t].op = "put" /\ Full
              /\ variant.class # "set" => ~closed
    PROVE  Continues
<1>1. /\ UNCHANGED <<items, closed, call, interrupted>>
      /\ pc' = [pc EXCEPT ![t] = "wait"]
      /\ condWaiters' = [condWaiters EXCEPT ![c] = @ \cup {t}]
  BY DEF Wait, Await, queueVars, ConditionWait
<1>2. condWaiters \in [Cond -> SUBSET Task] /\ notEmpty # notFull
  BY Facts, QueueAssumption DEF WakeInv, SyncTypeOK
<1>3. Len(<<>>) = 0 BY EmptySeq
<1>4. Stays(notEmpty, Len(items), Looking("get", notEmpty))
  <2>1. CASE c = notEmpty BY <1>1, <1>2, <1>3, <2>1 DEF Stays
  <2>2. CASE c = notFull
    <3>1. Looking("get", notEmpty) \subseteq Looking("get", notEmpty)'
      BY <1>1, <1>2, <2>2, Facts DEF Looking, WakeInv
    <3> QED BY <1>1, <1>2, <2>2, <3>1, Numbers DEF Stays, WakeInv
  <2> QED BY <2>1, <2>2
<1>5. Stays(notFull, variant.max - Len(items), Looking("put", notFull))
  <2>1. CASE c = notFull BY <1>1, <2>1, Numbers DEF Stays, WakeInv
  <2>2. CASE c = notEmpty
    <3>1. Looking("put", notFull) \subseteq Looking("put", notFull)'
      BY <1>1, <1>2, <2>2, Facts DEF Looking, WakeInv
    <3> QED BY <1>1, <1>2, <2>2, <3>1, Numbers DEF Stays, WakeInv
  <2> QED BY <2>1, <2>2
<1>6. ClosedServes' BY <1>1, <1>2, Facts DEF WakeInv, Suffices, ClosedServes
<1> QED BY <1>1, <1>4, <1>5, <1>6 DEF Continues

\* While a task runs inside of the block, no close() is between its two notify_all().
LEMMA NoneClosing ==
    ASSUME WakeInv, NEW t \in Task, running = t, pc[t] \in {"acquire", "wait"}
    PROVE  /\ owner[queueLock] = t
           /\ \A x \in Task : pc[x] # "closing"
           /\ variant.class # "set" /\ closed => condWaiters[notFull] = {}
<1>1. owner[queueLock] = t BY DEF WakeInv, HoldInv, OwnerRuns, Inside
<1>2. \A x \in Task : pc[x] # "closing" BY <1>1, ClosingOwns DEF WakeInv
<1> QED BY <1>1, <1>2 DEF WakeInv, Suffices, ClosedServes

\* Whoever leaves the queue without a change of the items was not needed: there is nothing
\* to get, or nobody sleeps in put(), because the queue is closed.
LEMMA LeaveContinues ==
    ASSUME WakeInv, NEW t \in Task, NEW r, running = t, Leave(t, r), variant' = variant,
           pc[t] \in {"acquire", "wait"},
           \/ call[t].op = "put" /\ (variant.class = "set" \/ closed)
           \/ call[t].op = "peek"
           \/ call[t].op = "get" /\ items = <<>>
    PROVE  Continues
<1>1. /\ UNCHANGED <<items, closed, call, interrupted, condWaiters>>
      /\ pc' = [pc EXCEPT ![t] = "release"]
  BY DEF Leave, Await, LockRelease
<1>2. variant.class # "set" /\ closed => condWaiters[notFull] = {} BY NoneClosing
<1>3. Len(<<>>) = 0 BY EmptySeq
<1>4. ASSUME "peek" \notin Calls PROVE Stays(notEmpty, Len(items), Looking("get", notEmpty))
  <2>1. call[t].op # "peek" BY <1>4 DEF WakeInv, HoldInv, Homes
  <2>2. CASE items = <<>> BY <1>1, <1>3, <2>2 DEF Stays
  <2>3. CASE call[t].op = "put"
    <3>1. Looking("get", notEmpty) \subseteq Looking("get", notEmpty)'
      BY <1>1, <2>3, Facts DEF Looking, WakeInv
    <3> QED BY <1>1, <3>1, Numbers DEF Stays, WakeInv
  <2> QED BY <2>1, <2>2, <2>3
<1>5. ASSUME variant.class # "set"
      PROVE  Stays(notFull, variant.max - Len(items), Looking("put", notFull))
  <2>1. CASE closed BY <1>1, <1>2, <1>5, <2>1 DEF Stays
  <2>2. CASE call[t].op # "put"
    <3>1. Looking("put", notFull) \subseteq Looking("put", notFull)'
      BY <1>1, <2>2, Facts DEF Looking, WakeInv
    <3> QED BY <1>1, <3>1, Numbers DEF Stays, WakeInv
  <2> QED BY <1>5, <2>1, <2>2
<1>6. ClosedServes' BY <1>1, <1>2 DEF ClosedServes
<1> QED BY <1>1, <1>4, <1>5, <1>6 DEF Continues

\* notify() lets one sleeper look, if there is any.
LEMMA NotifyLooks ==
    ASSUME WakeInv, NEW c \in Cond, NEW o, NEW W \in SUBSET condWaiters[c],
           W = {} <=> condWaiters[c] = {},
           condWaiters' = [condWaiters EXCEPT ![c] = @ \ W],
           \A x \in W : /\ call[x].op = o /\ call'[x].op = o
                        /\ pc[x] \in {"acquire", "wait"} /\ pc'[x] = pc[x]
    PROVE  /\ W \subseteq Looking(o, c)' /\ W \cap Looking(o, c) = {}
           /\ condWaiters[c] # {} => \E x \in Looking(o, c)' : x \notin Looking(o, c)
           /\ condWaiters[c] = {} => condWaiters'[c] = {}
<1>1. condWaiters \in [Cond -> SUBSET Task] BY Facts DEF WakeInv, SyncTypeOK
<1> QED BY <1>1 DEF Looking

\* put() adds one item and wakes one getter; get() takes one and wakes one putter.
LEMMA ItemContinues ==
    ASSUME WakeInv, NEW t \in Task, running = t, UNCHANGED mapVars,
           pc[t] \in {"acquire", "wait"},
           \/ call[t].op = "put" /\ PutItem(t)
           \/ call[t].op = "get" /\ items # <<>> /\ GetItem(t)
    PROVE  Continues
<1> DEFINE c == IF call[t].op = "put" THEN notEmpty ELSE notFull
           n == variant.max - Len(items)
<1>1. /\ c \in Cond /\ ConditionNotify(t, c, FALSE) /\ Nowhere(t)
      /\ UNCHANGED <<variant, closed, call, interrupted>>
      /\ pc' = [pc EXCEPT ![t] = "leave"]
  BY Facts DEF PutItem, GetItem, Await, WakeInv, mapVars
<1>2. IF call[t].op = "put" THEN Len(items)' = Len(items) + 1 /\ n' = n - 1
                            ELSE Len(items)' = Len(items) - 1 /\ n' = n + 1
  <2>1. items \in Seq(Item) /\ Len(items) \in Nat /\ variant.max \in Nat
    BY Numbers DEF WakeInv
  <2>2. CASE call[t].op = "put"
    <3>1. call[t].item \in Item
      <4>1. call[t] \in Operation \cup {Idle} BY Facts DEF WakeInv
      <4> QED BY <2>2, <4>1 DEF Operation, Idle
    <3>2. Len(Append(items, call[t].item)) = Len(items) + 1 BY <2>1, <3>1, AppendProperties
    <3> QED BY <1>1, <2>1, <2>2, <3>2 DEF PutItem
  <2>3. CASE call[t].op = "get" /\ items # <<>>
    <3>1. Len(Tail(items)) = Len(items) - 1 BY <2>1, <2>3, HeadTailProperties
    <3>2. items' = Tail(items) BY <2>3 DEF GetItem
    <3>3. Len(items)' = Len(items) - 1 BY <3>1, <3>2
    <3> QED BY <1>1, <2>1, <2>3, <3>3
  <2> QED BY <2>2, <2>3
<1>3. PICK W \in SUBSET condWaiters[c] :
        /\ W = {} <=> condWaiters[c] = {}
        /\ condWaiters' = [condWaiters EXCEPT ![c] = @ \ W]
  <2>1. SyncTypeOK /\ Apart /\ FALSE \in BOOLEAN BY Facts DEF WakeInv
  <2> HIDE DEF c
  <2>2. \E W \in SUBSET condWaiters[c] :
          /\ IF FALSE THEN W = condWaiters[c] ELSE W = {} <=> condWaiters[c] = {}
          /\ condWaiters' = [condWaiters EXCEPT ![c] = @ \ W]
    BY <1>1, <2>1, ConditionNotifyParks
  <2> QED BY <2>2, Zenon
<1>4. /\ t \notin condWaiters[notEmpty] /\ t \notin condWaiters[notFull]
      /\ condWaiters \in [Cond -> SUBSET Task] /\ notEmpty # notFull
      /\ notEmpty \in Cond /\ notFull \in Cond
  BY <1>1, Facts, QueueAssumption DEF WakeInv, Nowhere, SyncTypeOK
<1>5. Len(items) \in Nat /\ n \in Int BY Numbers DEF WakeInv
<1>6. ASSUME "peek" \notin Calls PROVE Stays(notEmpty, Len(items), Looking("get", notEmpty))
  <2>1. CASE call[t].op = "put"
    <3>1. \A x \in W : /\ call[x].op = "get" /\ call'[x].op = "get"
                       /\ pc[x] \in {"acquire", "wait"} /\ pc'[x] = pc[x]
      BY <1>1, <1>3, <1>4, <1>6, <2>1, Facts DEF WakeInv, HoldInv, Homes
    <3>2. /\ condWaiters[notEmpty] # {} =>
                \E x \in Looking("get", notEmpty)' : x \notin Looking("get", notEmpty)
          /\ condWaiters[notEmpty] = {} => condWaiters'[notEmpty] = {}
      BY <1>3, <1>4, <2>1, <3>1, NotifyLooks
    <3>3. Looking("get", notEmpty) \subseteq Looking("get", notEmpty)'
      BY <1>1, <1>3, <1>4, <2>1, Facts DEF Looking, WakeInv
    <3> QED BY <1>2, <2>1, <3>2, <3>3 DEF Stays
  <2>2. CASE call[t].op = "get"
    <3>1. /\ t \in Looking("get", notEmpty)
          /\ Looking("get", notEmpty) \ {t} \subseteq Looking("get", notEmpty)'
      BY <1>1, <1>3, <1>4, <2>2, Facts DEF Looking, WakeInv
    <3> QED BY <1>2, <1>3, <1>4, <2>2, <3>1 DEF Stays
  <2> QED BY <2>1, <2>2
<1>7. Stays(notFull, n, Looking("put", notFull))
  <2>1. CASE call[t].op = "get"
    <3>1. \A x \in W : /\ call[x].op = "put" /\ call'[x].op = "put"
                       /\ pc[x] \in {"acquire", "wait"} /\ pc'[x] = pc[x]
      BY <1>1, <1>3, <1>4, <2>1, Facts DEF WakeInv, HoldInv, Homes
    <3>2. /\ condWaiters[notFull] # {} =>
                \E x \in Looking("put", notFull)' : x \notin Looking("put", notFull)
          /\ condWaiters[notFull] = {} => condWaiters'[notFull] = {}
      BY <1>3, <1>4, <2>1, <3>1, NotifyLooks
    <3>3. Looking("put", notFull) \subseteq Looking("put", notFull)'
      BY <1>1, <1>3, <1>4, <2>1, Facts DEF Looking, WakeInv
    <3> QED BY <1>2, <2>1, <3>2, <3>3 DEF Stays
  <2>2. CASE call[t].op = "put"
    <3>1. /\ t \in Looking("put", notFull)
          /\ Looking("put", notFull) \ {t} \subseteq Looking("put", notFull)'
      BY <1>1, <1>3, <1>4, <2>2, Facts DEF Looking, WakeInv
    <3> QED BY <1>2, <1>3, <1>4, <2>2, <3>1 DEF Stays
  <2> QED BY <2>1, <2>2
<1>8. ClosedServes'
  <2>1. variant.class # "set" /\ closed => condWaiters[notFull] = {} BY NoneClosing
  <2>2. condWaiters'[notFull] \subseteq condWaiters[notFull] BY <1>3, <1>4
  <2> QED BY <1>1, <2>1, <2>2 DEF ClosedServes
<1> QED BY <1>1, <1>6, <1>7, <1>8 DEF Continues

\* close() wakes all getters and then all putters, and close_nowait() all of both.
LEMMA CloseContinues ==
    ASSUME WakeInv,
           \/ \E t \in Task : (CloseBody(t) \/ CloseRest(t)) /\ UNCHANGED mapVars
           \/ CloseNowait
    PROVE  Continues
<1>1. condWaiters \in [Cond -> SUBSET Task] /\ notEmpty \in Cond /\ notFull \in Cond \ {notEmpty}
      /\ SyncTypeOK /\ Apart /\ TRUE \in BOOLEAN
  BY Facts, QueueAssumption DEF WakeInv, SyncTypeOK
<1>2. ASSUME NEW t \in Task, running = t, NEW c \in Cond, ConditionNotify(t, c, TRUE)
      PROVE  condWaiters' = [condWaiters EXCEPT ![c] = {}]
  <2>1. Nowhere(t) BY <1>2, Facts DEF WakeInv
  <2>2. PICK W \in SUBSET condWaiters[c] :
          /\ W = condWaiters[c]
          /\ condWaiters' = [condWaiters EXCEPT ![c] = @ \ W]
    BY <1>1, <1>2, <2>1, ConditionNotifyParks
  <2> QED BY <1>1, <2>2
<1>3. ASSUME NEW t \in Task, CloseBody(t), UNCHANGED mapVars PROVE Continues
  <2>1. /\ running = t /\ call[t].op = "close" /\ pc[t] \in {"acquire", "wait"}
        /\ UNCHANGED <<variant, items, call, interrupted>> /\ pc' = [pc EXCEPT ![t] = "closing"]
        /\ condWaiters' = [condWaiters EXCEPT ![notEmpty] = {}]
    BY <1>1, <1>2, <1>3 DEF CloseBody, InBody, Await, mapVars
  <2>2. Stays(notEmpty, Len(items), Looking("get", notEmpty)) BY <1>1, <2>1 DEF Stays
  <2>3. Looking("put", notFull) \subseteq Looking("put", notFull)'
    BY <1>1, <2>1, Facts DEF Looking, WakeInv
  <2>4. Stays(notFull, variant.max - Len(items), Looking("put", notFull))
    BY <1>1, <2>1, <2>3, Numbers DEF Stays, WakeInv
  <2>5. ClosedServes' BY <2>1, Facts DEF ClosedServes, WakeInv
  <2> QED BY <2>1, <2>2, <2>4, <2>5 DEF Continues
<1>4. ASSUME NEW t \in Task, CloseRest(t), UNCHANGED mapVars PROVE Continues
  <2>1. /\ running = t /\ pc[t] = "closing"
        /\ UNCHANGED <<variant, items, call, interrupted>> /\ pc' = [pc EXCEPT ![t] = "leave"]
        /\ condWaiters' = [condWaiters EXCEPT ![notFull] = {}]
    BY <1>1, <1>2, <1>4 DEF CloseRest, Await, mapVars, queueVars
  <2>2. Stays(notFull, variant.max - Len(items), Looking("put", notFull))
    BY <1>1, <2>1 DEF Stays
  <2>3. Looking("get", notEmpty) \subseteq Looking("get", notEmpty)'
    BY <1>1, <2>1, Facts DEF Looking, WakeInv
  <2>4. Stays(notEmpty, Len(items), Looking("get", notEmpty))
    BY <1>1, <2>1, <2>3, Numbers DEF Stays, WakeInv
  <2>5. ClosedServes' BY <1>1, <2>1 DEF ClosedServes
  <2> QED BY <2>1, <2>2, <2>4, <2>5 DEF Continues
<1>5. CASE CloseNowait
  <2>1. UNCHANGED <<variant, items, interrupted>>
    BY <1>5 DEF CloseNowait, mapVars
  <2>2. condWaiters'[notEmpty] = {} /\ condWaiters'[notFull] = {}
    BY <1>1, <1>5 DEF CloseNowait, NotifyAllNowait
  <2> QED BY <2>1, <2>2 DEF Continues, Stays, ClosedServes
<1> QED BY <1>3, <1>4, <1>5

\* put_nowait() adds one item and wakes one getter.
LEMMA PutNowaitContinues ==
    ASSUME WakeInv, NEW i \in Item, PutNowait(i)
    PROVE  Continues
<1>1. /\ UNCHANGED <<variant, closed, call, pc, interrupted>>
      /\ items' = Append(items, i) /\ NotifyNowait(notEmpty)
      /\ variant.class = "set"
  BY PutNowaitCalls DEF PutNowait, mapVars, WakeInv, HoldInv
<1>2. items \in Seq(Item) /\ Len(items) \in Nat BY Numbers DEF WakeInv
<1>3. Len(items)' = Len(items) + 1
  <2>1. Len(Append(items, i)) = Len(items) + 1 BY <1>2, AppendProperties
  <2> QED BY <1>1, <2>1
<1>4. PICK W \in SUBSET condWaiters[notEmpty] :
        /\ W = {} <=> condWaiters[notEmpty] = {}
        /\ condWaiters' = [condWaiters EXCEPT ![notEmpty] = @ \ W]
  <2>1. HoldInv BY DEF WakeInv
  <2> QED BY <1>1, <2>1, NotifyPasses
<1>5. condWaiters \in [Cond -> SUBSET Task] /\ notEmpty \in Cond
  BY Facts DEF WakeInv, SyncTypeOK
<1>6. ASSUME "peek" \notin Calls PROVE Stays(notEmpty, Len(items), Looking("get", notEmpty))
  <2>1. \A x \in W : /\ call[x].op = "get" /\ call'[x].op = "get"
                     /\ pc[x] \in {"acquire", "wait"} /\ pc'[x] = pc[x]
    BY <1>1, <1>4, <1>5, <1>6 DEF WakeInv, HoldInv, Homes
  <2>2. /\ condWaiters[notEmpty] # {} =>
              \E x \in Looking("get", notEmpty)' : x \notin Looking("get", notEmpty)
        /\ condWaiters[notEmpty] = {} => condWaiters'[notEmpty] = {}
    BY <1>4, <1>5, <2>1, NotifyLooks
  <2>3. Looking("get", notEmpty) \subseteq Looking("get", notEmpty)'
    BY <1>1, <1>4, <1>5 DEF Looking
  <2> QED BY <1>3, <2>2, <2>3 DEF Stays
<1> QED BY <1>1, <1>6 DEF Continues, ClosedServes

\* Every step of the queue continues.
LEMMA NextWake ==
    ASSUME WakeInv, [Next]_vars
    PROVE  WakeInv'
<1>1. HoldInv' BY NextHold DEF WakeInv
<1>2. SUFFICES Continues BY <1>1, ContinuesSuffices DEF WakeInv
<1>3. ASSUME NEW t \in Task, Turn(t) PROVE Continues
  <2>1. CASE Return(t) BY <2>1, LoopContinues
  <2>2. CASE /\ PutBody(t) \/ GetBody(t) \/ PeekBody(t) \/ CloseBody(t) \/ CloseRest(t)
                \/ LeaveBlock(t)
             /\ UNCHANGED mapVars
    <3>1. variant' = variant /\ running = t /\ notEmpty \in Cond /\ notFull \in Cond
      BY <2>2, Bodies, QueueAssumption DEF mapVars, WakeInv, HoldInv
    <3>2. CASE CloseBody(t) \/ CloseRest(t) BY <2>2, <3>2, CloseContinues
    <3>3. CASE LeaveBlock(t) BY <2>2, <3>3, LoopContinues
    <3>4. CASE PutBody(t)
      <4>1. call[t].op = "put" /\ pc[t] \in {"acquire", "wait"}
        BY <3>4 DEF PutBody, InBody
      <4>2. CASE PutItem(t) BY <2>2, <3>1, <4>1, <4>2, ItemContinues
      <4>3. ASSUME NEW r, Leave(t, r), variant.class = "set" \/ closed PROVE Continues
        BY <3>1, <4>1, <4>3, LeaveContinues
      <4>4. CASE Wait(t, notFull) /\ Full /\ (variant.class # "set" => ~closed)
        BY <3>1, <4>1, <4>4, WaitContinues
      <4>5. \/ PutItem(t)
            \/ (\E r : Leave(t, r)) /\ (variant.class = "set" \/ closed)
            \/ Wait(t, notFull) /\ Full /\ (variant.class # "set" => ~closed)
        BY <3>4 DEF PutBody, SetPut, PlainPut
      <4> QED BY <4>2, <4>3, <4>4, <4>5
    <3>5. CASE GetBody(t) \/ PeekBody(t)
      <4>1. call[t].op \in {"get", "peek"} /\ pc[t] \in {"acquire", "wait"}
        BY <3>5 DEF GetBody, PeekBody, InBody
      <4>2. CASE call[t].op = "get" /\ items # <<>> /\ GetItem(t)
        BY <2>2, <3>1, <4>1, <4>2, ItemContinues
      <4>3. ASSUME NEW r, Leave(t, r), call[t].op = "peek" \/ items = <<>> PROVE Continues
        BY <3>1, <4>1, <4>3, LeaveContinues
      <4>4. CASE Wait(t, notEmpty) /\ items = <<>> BY <3>1, <4>1, <4>4, WaitContinues
      <4>5. \/ call[t].op = "get" /\ items # <<>> /\ GetItem(t)
            \/ (\E r : Leave(t, r)) /\ (call[t].op = "peek" \/ items = <<>>)
            \/ Wait(t, notEmpty) /\ items = <<>>
        BY <3>5 DEF GetBody, PeekBody, InBody, WaitForItem
      <4> QED BY <4>2, <4>3, <4>4, <4>5
    <3> QED BY <2>2, <3>2, <3>3, <3>4, <3>5
  <2> QED BY <1>3, <2>1, <2>2 DEF Turn
<1>4. ASSUME NEW t \in Task, (\E o \in Operation : BeginCall(t, o)) \/ BeginUntilEmpty(t)
      PROVE  Continues
  BY <1>4, LoopContinues DEF BeginCall, BeginUntilEmpty
<1> QED BY <1>3, <1>4, LoopContinues, CancelContinues, CloseContinues,
           PutNowaitContinues DEF Next

\* When all is quiet nobody looks, because whoever queues for the lock queues for an owner.
LEMMA QuietLooks ==
    ASSUME HoldInv, Quiet
    PROVE  /\ Cardinality(Looking("get", notEmpty)) = 0
           /\ Cardinality(Looking("put", notFull)) = 0
<1>1. Ready = {} /\ running = NoTask
  <2>1. ToSet(tasks) = {} BY OneName DEF Quiet
  <2> QED BY <2>1, Facts DEF Quiet
<1>2. owner[queueLock] = NoTask
  BY <1>1, Facts DEF HoldInv, OwnerRuns, TaskOrNone
<1>3. Queuing(queueLock) = {}
  BY <1>2, Facts, OneName DEF HoldInv, CallsInv, SyncInv, NoWaiterOnFreeLock, Queuing
<1>4. ASSUME NEW t \in Task, pc[t] \in {"acquire", "wait"}
      PROVE  t \in condWaiters[notEmpty] \/ t \in condWaiters[notFull]
  BY <1>1, <1>3, <1>4, Facts, QueueAssumption DEF Nowhere, HoldInv, Homes
<1>5. Looking("get", notEmpty) = {} /\ Looking("put", notFull) = {}
  BY <1>4 DEF HoldInv, Homes, Looking
<1> QED BY <1>5, FS_EmptySet

\* In the beginning nobody sleeps.
LEMMA InitWake == Init => WakeInv
<1> SUFFICES ASSUME Init PROVE WakeInv OBVIOUS
<1>1. HoldInv BY InitHold
<1>2. condWaiters[notEmpty] = {} /\ condWaiters[notFull] = {}
  BY QueueAssumption DEF Init, SyncInit
<1> QED BY <1>1, <1>2
        DEF WakeInv, Suffices, GettersSuffice, PuttersSuffice, ClosedServes, Enough

\* When all is quiet nobody sleeps in get() beside an item, for any number of tasks and
\* items, where nobody peeks and nobody is cancelled.
THEOREM GettersServed == Spec => []NoGetterForgotten
<1>1. WakeInv => NoGetterForgotten
  <2> SUFFICES ASSUME WakeInv, "peek" \notin Calls, interrupted = {}, Quiet, items # <<>>
               PROVE  condWaiters[notEmpty] = {}
    BY DEF NoGetterForgotten, NobodyForgotten
  <2>1. items \in Seq(Item) /\ Len(items) \in Nat \ {0}
    <3>1. items \in Seq(Item) BY Numbers DEF WakeInv
    <3> QED BY <3>1, EmptySeq
  <2>2. Cardinality(Looking("get", notEmpty)) = 0 BY QuietLooks DEF WakeInv
  <2>3. condWaiters[notEmpty] = {} \/ Len(items) <= Cardinality(Looking("get", notEmpty))
    BY DEF WakeInv, Suffices, GettersSuffice, Enough
  <2>4. ~(Len(items) <= 0) BY <2>1
  <2> QED BY <2>2, <2>3, <2>4
<1>2. WakeInv /\ [Next]_vars => WakeInv' BY NextWake
<1> QED BY <1>1, <1>2, InitWake, PTL DEF Spec

\* When all is quiet nobody sleeps in put() while there is room.
THEOREM PuttersServed == ASSUME SetUnbounded PROVE Spec => []NoPutterForgotten
<1>1. WakeInv => NoPutterForgotten
  <2> SUFFICES ASSUME WakeInv, Quiet, ~Full, interrupted = {}
               PROVE  condWaiters[notFull] = {}
    BY DEF NoPutterForgotten
  <2>1. CASE variant.class = "set"
    <3>1. \A t \in Task : call[t].op = "put" => pc[t] # "wait"
      BY <2>1 DEF WakeInv, HoldInv, CallsInv, SetOnce
    <3>2. condWaiters[notFull] \subseteq Task BY Facts DEF WakeInv, SyncTypeOK
    <3> QED BY <3>1, <3>2 DEF WakeInv, HoldInv, Homes
  <2>2. CASE variant.class # "set"
    <3> DEFINE n == variant.max - Len(items)
    <3>1. n \in Int /\ ~(n <= 0) BY Numbers DEF WakeInv
    <3>2. Cardinality(Looking("put", notFull)) = 0 BY QuietLooks DEF WakeInv
    <3>3. condWaiters[notFull] = {} \/ n <= Cardinality(Looking("put", notFull))
      BY <2>2 DEF WakeInv, Suffices, PuttersSuffice, Enough
    <3> QED BY <3>1, <3>2, <3>3
  <2> QED BY <2>1, <2>2
<1>2. WakeInv /\ [Next]_vars => WakeInv' BY NextWake
<1> QED BY <1>1, <1>2, InitWake, PTL DEF Spec

=============================================================================
