----------------------- MODULE SyncPrimitivesProofs -----------------------
(***************************************************************************)
(* What every handler of the primitives preserves, whichever task issues   *)
(* it and whatever else happens in the loop, and where the tasks are: in   *)
(* the run queue, among the waiters of the events and of the conditions,   *)
(* in the queues of the locks.  Every handler moves tasks from one place   *)
(* to another and leaves no task in two places.                            *)
(***************************************************************************)
EXTENDS SyncPrimitives, SequenceTheorems, FiniteSetTheorems, WellFoundedInduction, TLAPS

SyncInv == SyncTypeOK /\ NoWaiterOnFreeLock /\ NoWaiterOnSetEvent

-----------------------------------------------------------------------------
(* Sequences of tasks and packets.                                            *)

\* A wake-up is a packet: what Requeue and the other handlers append to the queue.
LEMMA WakeupType == \A t \in Task : Wakeup(t) \in Packet
BY SMT DEF Wakeup, Packet

\* Appending a wake-up keeps the run queue a sequence of packets.
LEMMA AppendWakeup ==
    \A q \in Seq(Packet), t \in Task : Append(q, Wakeup(t)) \in Seq(Packet)
BY WakeupType, AppendProperties

\* tasks.append((task, None, None))
LEMMA RequeueType ==
    ASSUME SyncTypeOK, NEW t \in Task, Requeue(t)
    PROVE  tasks' \in Seq(Packet)
BY AppendWakeup DEF SyncTypeOK, Requeue

\* The wake-ups of a sequence of tasks are a sequence of packets, whatever the order in
\* which the handler of EventSetCommand walks the set of waiters.
LEMMA WakeupsType ==
    ASSUME NEW S \in SUBSET Task, NEW q \in SetToSeqs(S)
    PROVE  q \in Seq(S) /\ Wakeups(q) \in Seq(Packet)
<1>1. IsFiniteSet(S) BY SyncAssumption, FS_Subset
<1>2. Cardinality(S) \in Nat BY <1>1, FS_CardinalityType
<1>3. q \in [1..Cardinality(S) -> S] BY DEF SetToSeqs
<1>4. q \in Seq(S) BY <1>2, <1>3, SeqDef
<1>5. Len(q) \in Nat /\ \A i \in 1..Len(q) : q[i] \in Task
  BY <1>4, LenProperties, ElementOfSeq
<1>6. Wakeups(q) \in [1..Len(q) -> Packet]
  BY <1>5, WakeupType DEF Wakeups
<1> QED BY <1>4, <1>5, <1>6, SeqDef

\* remove(task) on a deque leaves a deque of tasks, and never makes an empty one grow.
LEMMA RemoveFirstType ==
    ASSUME NEW S, NEW q \in Seq(S), NEW e
    PROVE  /\ RemoveFirst(q, e) \in Seq(S)
           /\ q = <<>> => RemoveFirst(q, e) = <<>>
<1>1. CASE ~ \E i \in 1..Len(q) : q[i] = e
  BY <1>1 DEF RemoveFirst
<1>2. CASE \E i \in 1..Len(q) : q[i] = e
  <2> DEFINE n == SelectInSeq(q, LAMBDA v : v = e)
             I == {i \in 1..Len(q) : q[i] = e}
  <2>1. Len(q) \in Nat BY LenProperties
  <2>2. n \in 1..Len(q)
    <3>1. n = IF I # {} THEN Min(I) ELSE 0 BY Zenon DEF SelectInSeq
    <3>2. I \in SUBSET Nat /\ I # {} /\ I \subseteq 1..Len(q) BY <1>2, <2>1
    <3> HIDE DEF I
    <3>3. PICK x \in I : \A y \in I : <<y, x>> \notin OpToRel(<, Nat)
      BY <3>2, NatLessThanWellFounded, WFMin
    <3>4. \A y \in I : ~(y < x) BY <3>2, <3>3 DEF OpToRel
    <3>5. \A y \in I : x <= y BY <3>2, <3>4
    <3>6. Min(I) \in I BY <3>5, Zenon DEF Min
    <3> QED BY <3>1, <3>2, <3>6
  <2> HIDE DEF n
  <2>3. RemoveAt(q, n) \in Seq(S)
    <3>1. SubSeq(q, 1, n - 1) \in Seq(S) BY <2>1, <2>2, SubSeqProperties
    <3>2. SubSeq(q, n + 1, Len(q)) \in Seq(S) BY <2>1, <2>2, SubSeqProperties
    <3> QED BY <3>1, <3>2, ConcatProperties, Zenon DEF RemoveAt
  <2>4. RemoveFirst(q, e) = RemoveAt(q, n) BY <1>2, Zenon DEF RemoveFirst, n
  <2>5. q # <<>> BY <1>2, EmptySeq, SMT
  <2> QED BY <2>3, <2>4, <2>5
<1> QED BY <1>1, <1>2

-----------------------------------------------------------------------------
(* Each handler preserves SyncInv.                                            *)

\* EventWaitCommand registers a waiter only for an event that is not set.
LEMMA EventWaitInv ==
    ASSUME SyncInv, NEW t \in Task, NEW e \in Event, EventWait(t, e)
    PROVE  SyncInv'
<1>1. tasks' \in Seq(Packet)
  BY RequeueType DEF SyncInv, SyncTypeOK, EventWait
<1>2. eventWaiters' \in [Event -> SUBSET Task] BY DEF SyncInv, SyncTypeOK, EventWait
<1>3. NoWaiterOnSetEvent'
  BY DEF SyncInv, SyncTypeOK, EventWait, NoWaiterOnSetEvent
<1> QED BY <1>1, <1>2, <1>3 DEF SyncInv, SyncTypeOK, EventWait, NoWaiterOnFreeLock

\* EventSetCommand sets the event and empties its set of waiters in one step.
LEMMA EventSetInv ==
    ASSUME SyncInv, NEW t \in Task, NEW e \in Event, EventSet(t, e)
    PROVE  SyncInv'
<1>1. tasks' \in Seq(Packet)
  <2>1. PICK q \in SetToSeqs(eventWaiters[e]) :
            tasks' = Append(tasks \o Wakeups(q), Wakeup(t))
    BY DEF EventSet
  <2>2. eventWaiters[e] \in SUBSET Task BY DEF SyncInv, SyncTypeOK
  <2>3. tasks \o Wakeups(q) \in Seq(Packet)
    BY <2>2, WakeupsType, ConcatProperties DEF SyncInv, SyncTypeOK
  <2> QED BY <2>1, <2>3, AppendWakeup
<1>2. eventWaiters' \in [Event -> SUBSET Task] /\ eventSet' \subseteq Event
  BY DEF SyncInv, SyncTypeOK, EventSet
<1>3. NoWaiterOnSetEvent'
  BY DEF SyncInv, SyncTypeOK, EventSet, NoWaiterOnSetEvent
<1> QED BY <1>1, <1>2, <1>3 DEF SyncInv, SyncTypeOK, EventSet, NoWaiterOnFreeLock

\* A task queues for a lock only when the lock has an owner.
LEMMA LockAcquireInv ==
    ASSUME SyncInv, NEW t \in Task, NEW l \in Lock, LockAcquire(t, l)
    PROVE  SyncInv'
<1>1. tasks' \in Seq(Packet)
  BY RequeueType DEF SyncInv, SyncTypeOK, LockAcquire
<1>2. owner' \in [Lock -> TaskOrNone]
  BY DEF SyncInv, SyncTypeOK, LockAcquire, TaskOrNone
<1>3. lockWaiters' \in [Lock -> Seq(Task)]
  <2>1. Append(lockWaiters[l], t) \in Seq(Task)
    BY AppendProperties DEF SyncInv, SyncTypeOK
  <2> QED BY <2>1 DEF SyncInv, SyncTypeOK, LockAcquire
<1>4. NoWaiterOnFreeLock'
  BY SyncAssumption DEF SyncInv, SyncTypeOK, LockAcquire, NoWaiterOnFreeLock
<1> QED BY <1>1, <1>2, <1>3, <1>4
        DEF SyncInv, SyncTypeOK, LockAcquire, NoWaiterOnSetEvent

\* Handing a lock over makes the head of its queue the owner, and frees the lock only
\* when nobody queues for it.
LEMMA HandOverInv ==
    ASSUME SyncInv, NEW l \in Lock, NEW queue \in Seq(Packet), HandOver(l, queue)
    PROVE  /\ tasks' \in Seq(Packet)
           /\ owner' \in [Lock -> TaskOrNone]
           /\ lockWaiters' \in [Lock -> Seq(Task)]
           /\ NoWaiterOnFreeLock'
<1>1. CASE lockWaiters[l] # <<>>
  <2>1. lockWaiters[l] \in Seq(Task) BY DEF SyncInv, SyncTypeOK
  <2>2. Head(lockWaiters[l]) \in Task /\ Tail(lockWaiters[l]) \in Seq(Task)
    BY <1>1, <2>1, HeadTailProperties
  <2>3. Append(tasks, Wakeup(Head(lockWaiters[l]))) \in Seq(Packet)
    BY <2>2, AppendWakeup DEF SyncInv, SyncTypeOK
  <2>4. Append(tasks, Wakeup(Head(lockWaiters[l]))) \o queue \in Seq(Packet)
    BY <2>3, ConcatProperties
  <2>5. tasks' \in Seq(Packet) BY <1>1, <2>4 DEF HandOver
  <2> QED BY ZenonT(60), <1>1, <2>2, <2>5, SyncAssumption
          DEF SyncInv, SyncTypeOK, HandOver, TaskOrNone, NoWaiterOnFreeLock
<1>2. CASE lockWaiters[l] = <<>>
  <2>1. tasks \o queue \in Seq(Packet)
    BY ConcatProperties DEF SyncInv, SyncTypeOK
  <2> QED BY <1>2, <2>1
          DEF SyncInv, SyncTypeOK, HandOver, TaskOrNone, NoWaiterOnFreeLock
<1> QED BY <1>1, <1>2

\* LockReleaseCommand, by the owner or by any other task.
LEMMA LockReleaseInv ==
    ASSUME SyncInv, NEW t \in Task, NEW l \in Lock, LockRelease(t, l)
    PROVE  SyncInv'
<1>1. CASE owner[l] # t
  <2>1. tasks' \in Seq(Packet)
    BY <1>1, RequeueType DEF SyncInv, LockRelease
  <2> QED BY <1>1, <2>1 DEF SyncInv, SyncTypeOK, LockRelease, NoWaiterOnFreeLock,
                            NoWaiterOnSetEvent
<1>2. CASE owner[l] = t
  <2>1. <<Wakeup(t)>> \in Seq(Packet) BY WakeupType
  <2>2. HandOver(l, <<Wakeup(t)>>) BY <1>2 DEF LockRelease
  <2> QED BY <2>1, <2>2, HandOverInv
          DEF SyncInv, SyncTypeOK, LockRelease, NoWaiterOnSetEvent
<1> QED BY <1>1, <1>2

\* ConditionWaitCommand hands the lock over the way a release does.
LEMMA ConditionWaitInv ==
    ASSUME SyncInv, NEW t \in Task, NEW c \in Cond, ConditionWait(t, c)
    PROVE  SyncInv'
<1>1. LockOf[c] \in Lock BY SyncAssumption
<1>2. HandOver(LockOf[c], <<>>) BY DEF ConditionWait
<1>3. condWaiters' \in [Cond -> SUBSET Task]
  BY DEF SyncInv, SyncTypeOK, ConditionWait
<1>4. <<>> \in Seq(Packet) OBVIOUS
<1> QED BY <1>1, <1>2, <1>3, <1>4, HandOverInv
        DEF SyncInv, SyncTypeOK, ConditionWait, NoWaiterOnSetEvent

\* ConditionNotifyCommand queues waiters for a lock that the notifier owns.
LEMMA ConditionNotifyInv ==
    ASSUME SyncInv, NEW t \in Task, NEW c \in Cond, NEW all \in BOOLEAN,
           ConditionNotify(t, c, all)
    PROVE  SyncInv'
<1>1. LockOf[c] \in Lock BY SyncAssumption
<1>2. owner[LockOf[c]] # NoTask
  BY SyncAssumption DEF ConditionNotify, OwnsLockOf
<1>3. PICK W \in SUBSET condWaiters[c] :
          /\ condWaiters' = [condWaiters EXCEPT ![c] = @ \ W]
          /\ \E q \in SetToSeqs(W) :
                lockWaiters' = [lockWaiters EXCEPT ![LockOf[c]] = @ \o q]
  BY DEF ConditionNotify
<1>4. W \in SUBSET Task BY DEF SyncInv, SyncTypeOK
<1>5. PICK q \in SetToSeqs(W) :
          lockWaiters' = [lockWaiters EXCEPT ![LockOf[c]] = @ \o q]
  BY <1>3
<1>6. q \in Seq(Task) BY <1>4, WakeupsType, SeqMonotonic
<1>7. lockWaiters[LockOf[c]] \o q \in Seq(Task)
  BY <1>1, <1>6, ConcatProperties DEF SyncInv, SyncTypeOK
<1>8. lockWaiters' \in [Lock -> Seq(Task)]
  BY <1>5, <1>7 DEF SyncInv, SyncTypeOK
<1>9. tasks' \in Seq(Packet)
  BY RequeueType DEF SyncInv, ConditionNotify
<1>10. NoWaiterOnFreeLock'
  BY <1>1, <1>2, <1>5 DEF SyncInv, SyncTypeOK, ConditionNotify, NoWaiterOnFreeLock
<1>11. condWaiters' \in [Cond -> SUBSET Task] BY <1>3 DEF SyncInv, SyncTypeOK
<1> QED BY <1>8, <1>9, <1>10, <1>11
        DEF SyncInv, SyncTypeOK, ConditionNotify, NoWaiterOnSetEvent

\* A cancellation only takes waiters away.
LEMMA RemoveFromSyncInv ==
    ASSUME SyncInv, NEW t \in Task, RemoveFromSync(t), tasks' \in Seq(Packet)
    PROVE  SyncInv'
<1>1. /\ eventWaiters' \in [Event -> SUBSET Task]
      /\ \A e \in Event : eventWaiters'[e] \subseteq eventWaiters[e]
  <2> DEFINE S == {e \in Event : t \in eventWaiters[e]}
  <2>1. CASE S = {}
    BY <2>1 DEF SyncInv, SyncTypeOK, RemoveFromSync, DropFromOne
  <2>2. CASE S # {}
    <3>1. PICK s \in S : eventWaiters' = [eventWaiters EXCEPT ![s] = @ \ {t}]
      BY <2>2 DEF RemoveFromSync, DropFromOne
    <3> QED BY <3>1 DEF SyncInv, SyncTypeOK
  <2> QED BY <2>1, <2>2
<1>2. condWaiters' \in [Cond -> SUBSET Task]
  BY DEF SyncInv, SyncTypeOK, RemoveFromSync, DropFromOne
<1>3. /\ lockWaiters' \in [Lock -> Seq(Task)]
      /\ \A l \in Lock : lockWaiters[l] = <<>> => lockWaiters'[l] = <<>>
  <2>1. \A l \in Lock : /\ RemoveFirst(lockWaiters[l], t) \in Seq(Task)
                        /\ lockWaiters[l] = <<>> => RemoveFirst(lockWaiters[l], t) = <<>>
    BY RemoveFirstType DEF SyncInv, SyncTypeOK
  <2> DEFINE S == {l \in Lock : t \in ToSet(lockWaiters[l])}
  <2>2. CASE S = {}
    BY <2>2 DEF SyncInv, SyncTypeOK, RemoveFromSync, DropFromOne
  <2>3. CASE S # {}
    <3>1. PICK s \in S :
              lockWaiters' = [lockWaiters EXCEPT ![s] = RemoveFirst(@, t)]
      BY <2>3 DEF RemoveFromSync, DropFromOne
    <3> QED BY <2>1, <3>1 DEF SyncInv, SyncTypeOK
  <2> QED BY <2>2, <2>3
<1> QED BY <1>1, <1>2, <1>3
        DEF SyncInv, SyncTypeOK, RemoveFromSync, NoWaiterOnFreeLock, NoWaiterOnSetEvent

\* A step that appends to or takes from the run queue only.
LEMMA QueueInv ==
    ASSUME SyncInv, tasks' \in Seq(Packet), UNCHANGED syncVars
    PROVE  SyncInv'
BY DEF SyncInv, SyncTypeOK, syncVars, NoWaiterOnFreeLock, NoWaiterOnSetEvent

-----------------------------------------------------------------------------
(* Sequences as sets: what a deque holds after each operation, and that it    *)
(* holds nothing twice.                                                       *)

\* A deque of tasks holds tasks.
LEMMA QueueMembers ==
    ASSUME NEW S, NEW q \in Seq(S)
    PROVE  ToSet(q) \subseteq S
<1>1. DOMAIN q = 1..Len(q) /\ \A i \in 1..Len(q) : q[i] \in S
  BY LenProperties, ElementOfSeq
<1> QED BY <1>1, Zenon DEF ToSet

\* append()
LEMMA AppendMembers ==
    ASSUME NEW S, NEW q \in Seq(S), NEW e \in S
    PROVE  /\ ToSet(Append(q, e)) = ToSet(q) \cup {e}
           /\ IsInjective(q) /\ e \notin ToSet(q) => IsInjective(Append(q, e))
<1> DEFINE r == Append(q, e)
<1>1. /\ Len(r) = Len(q) + 1 /\ Len(q) \in Nat
      /\ DOMAIN q = 1..Len(q) /\ DOMAIN r = 1..Len(q) + 1
      /\ \A i \in 1..Len(q) : r[i] = q[i]
      /\ r[Len(q) + 1] = e
  BY AppendProperties, LenProperties
<1> HIDE DEF r
<1>2. Len(q) + 1 \in 1..Len(q) + 1 /\ \A i \in 1..Len(q) + 1 : i = Len(q) + 1 \/ i \in 1..Len(q)
  BY <1>1
<1>3. 1..Len(q) \subseteq 1..Len(q) + 1 BY <1>1
<1>4. ToSet(r) = ToSet(q) \cup {e} BY <1>1, <1>2, <1>3, Zenon DEF ToSet
<1>5. ASSUME IsInjective(q), e \notin ToSet(q) PROVE IsInjective(r)
  <2>1. \A i \in 1..Len(q) : q[i] # e BY <1>1, <1>5, Zenon DEF ToSet
  <2> QED BY <1>1, <1>2, <1>5, <2>1, Zenon DEF IsInjective
<1> QED BY <1>4, <1>5 DEF r

\* extend()
LEMMA ConcatMembers ==
    ASSUME NEW S, NEW q \in Seq(S), NEW r \in Seq(S)
    PROVE  /\ ToSet(q \o r) = ToSet(q) \cup ToSet(r)
           /\ IsInjective(q) /\ IsInjective(r) /\ ToSet(q) \cap ToSet(r) = {}
                => IsInjective(q \o r)
<1> DEFINE c == q \o r
<1>1. /\ Len(q) \in Nat /\ Len(r) \in Nat
      /\ DOMAIN q = 1..Len(q) /\ DOMAIN r = 1..Len(r) /\ DOMAIN c = 1..Len(q) + Len(r)
      /\ \A i \in 1..Len(q) + Len(r) : c[i] = IF i <= Len(q) THEN q[i] ELSE r[i - Len(q)]
  BY ConcatProperties, LenProperties
<1> HIDE DEF c
<1>2. \A i \in 1..Len(q) : i \in DOMAIN c /\ c[i] = q[i] BY <1>1
<1>3. \A i \in 1..Len(r) : Len(q) + i \in DOMAIN c /\ c[Len(q) + i] = r[i] BY <1>1
<1>4. \A i \in DOMAIN c : \/ i \in 1..Len(q)
                          \/ i - Len(q) \in 1..Len(r) /\ Len(q) + (i - Len(q)) = i
  BY <1>1
<1>5. ToSet(c) = ToSet(q) \cup ToSet(r)
  <2>1. ToSet(q) \subseteq ToSet(c) BY <1>1, <1>2, Zenon DEF ToSet
  <2>2. ToSet(r) \subseteq ToSet(c) BY <1>1, <1>3, ZenonT(60) DEF ToSet
  <2>3. ASSUME NEW i \in DOMAIN c PROVE c[i] \in ToSet(q) \cup ToSet(r)
    <3>1. CASE i \in 1..Len(q) BY <1>1, <1>2, <3>1, Zenon DEF ToSet
    <3>2. CASE i - Len(q) \in 1..Len(r) /\ Len(q) + (i - Len(q)) = i
      <4>1. c[i] = r[i - Len(q)] BY <1>3, <3>2
      <4> QED BY <1>1, <3>2, <4>1, Zenon DEF ToSet
    <3> QED BY <1>4, <3>1, <3>2
  <2>4. ToSet(c) \subseteq ToSet(q) \cup ToSet(r) BY <2>3, Zenon DEF ToSet
  <2> QED BY <2>1, <2>2, <2>4
<1>6. ASSUME IsInjective(q), IsInjective(r), ToSet(q) \cap ToSet(r) = {}
      PROVE IsInjective(c)
  <2>1. \A i \in 1..Len(q), j \in 1..Len(r) : q[i] # r[j] BY <1>1, <1>6, Zenon DEF ToSet
  <2>2. /\ \A i, j \in 1..Len(q) : q[i] = q[j] => i = j
        /\ \A i, j \in 1..Len(r) : r[i] = r[j] => i = j
    BY <1>1, <1>6, Zenon DEF IsInjective
  <2>3. ASSUME NEW i \in DOMAIN c, NEW j \in DOMAIN c, c[i] = c[j] PROVE i = j
    <3>1. CASE i <= Len(q) /\ j <= Len(q) BY <1>1, <2>2, <2>3, <3>1
    <3>2. CASE ~(i <= Len(q)) /\ ~(j <= Len(q))
      <4>1. i - Len(q) \in 1..Len(r) /\ j - Len(q) \in 1..Len(r) BY <1>1, <3>2
      <4>2. r[i - Len(q)] = r[j - Len(q)] BY <1>1, <2>3, <3>2
      <4>3. i - Len(q) = j - Len(q) BY <2>2, <4>1, <4>2
      <4> QED BY <1>1, <4>3
    <3>3. CASE i <= Len(q) /\ ~(j <= Len(q))
      <4>1. i \in 1..Len(q) /\ j - Len(q) \in 1..Len(r) BY <1>1, <3>3
      <4>2. c[i] = q[i] /\ c[j] = r[j - Len(q)] BY <1>1, <3>3
      <4> QED BY <2>1, <2>3, <4>1, <4>2
    <3>4. CASE ~(i <= Len(q)) /\ j <= Len(q)
      <4>1. j \in 1..Len(q) /\ i - Len(q) \in 1..Len(r) BY <1>1, <3>4
      <4>2. c[j] = q[j] /\ c[i] = r[i - Len(q)] BY <1>1, <3>4
      <4> QED BY <2>1, <2>3, <4>1, <4>2
    <3> QED BY <3>1, <3>2, <3>3, <3>4
  <2> QED BY <2>3, Zenon DEF IsInjective
<1> QED BY <1>5, <1>6 DEF c

\* popleft()
LEMMA TailMembers ==
    ASSUME NEW S, NEW q \in Seq(S), q # <<>>
    PROVE  /\ Head(q) \in ToSet(q)
           /\ ToSet(q) = ToSet(Tail(q)) \cup {Head(q)}
           /\ IsInjective(q) => IsInjective(Tail(q)) /\ Head(q) \notin ToSet(Tail(q))
<1> DEFINE r == Tail(q)
           h == Head(q)
<1>1. /\ Len(q) \in Nat \ {0} /\ Len(r) = Len(q) - 1
      /\ DOMAIN q = 1..Len(q) /\ DOMAIN r = 1..Len(q) - 1
      /\ \A i \in 1..Len(q) - 1 : r[i] = q[i + 1]
      /\ h = q[1]
  <2>1. Tail(q) \in Seq(S) /\ Len(q) \in Nat \ {0} BY HeadTailProperties, EmptySeq
  <2> QED BY <2>1, HeadTailProperties, LenProperties
<1> HIDE DEF r, h
<1>2. /\ 1 \in 1..Len(q)
      /\ \A i \in 1..Len(q) - 1 : i + 1 \in 1..Len(q)
      /\ \A i \in 1..Len(q) : i = 1 \/ (i - 1 \in 1..Len(q) - 1 /\ (i - 1) + 1 = i)
  BY <1>1
<1>3. h \in ToSet(q) BY <1>1, <1>2, Zenon DEF ToSet
<1>4. ToSet(r) \subseteq ToSet(q)
  <2>1. ASSUME NEW i \in 1..Len(q) - 1 PROVE r[i] \in ToSet(q)
    <3>1. r[i] = q[i + 1] /\ i + 1 \in DOMAIN q BY <1>1, <1>2
    <3> QED BY <3>1, Zenon DEF ToSet
  <2> QED BY <1>1, <2>1, Zenon DEF ToSet
<1>5. ASSUME NEW i \in 1..Len(q) PROVE q[i] \in ToSet(r) \cup {h}
  <2>1. CASE i = 1 BY <1>1, <2>1
  <2>2. CASE i - 1 \in 1..Len(q) - 1 /\ (i - 1) + 1 = i
    <3>1. r[i - 1] = q[i] BY <1>1, <2>2
    <3> QED BY <1>1, <2>2, <3>1, Zenon DEF ToSet
  <2> QED BY <1>2, <2>1, <2>2
<1>6. ToSet(q) \subseteq ToSet(r) \cup {h} BY <1>1, <1>5, ZenonT(60) DEF ToSet
<1>7. ASSUME IsInjective(q) PROVE IsInjective(r) /\ h \notin ToSet(r)
  <2>1. \A i, j \in 1..Len(q) : q[i] = q[j] => i = j BY <1>1, <1>7, Zenon DEF IsInjective
  <2>2. \A i, j \in 1..Len(q) - 1 : r[i] = r[j] => i = j BY <1>1, <2>1
  <2>3. \A i \in 1..Len(q) - 1 : r[i] # h BY <1>1, <2>1
  <2> QED BY <1>1, <2>2, <2>3, Zenon DEF IsInjective, ToSet
<1> QED BY <1>3, <1>4, <1>6, <1>7 DEF r, h

\* The index that remove() finds.
LEMMA MinIsMember ==
    ASSUME NEW I \in SUBSET Nat, I # {}
    PROVE  Min(I) \in I
<1>1. PICK x \in I : \A y \in I : <<y, x>> \notin OpToRel(<, Nat)
  BY NatLessThanWellFounded, WFMin
<1>2. \A y \in I : ~(y < x) BY <1>1 DEF OpToRel
<1>3. \A y \in I : x <= y
  <2>1. I \subseteq Nat OBVIOUS
  <2> QED BY <1>2, <2>1
<1> QED BY <1>3, Zenon DEF Min

\* remove()
LEMMA RemoveFirstMembers ==
    ASSUME NEW S, NEW q \in Seq(S), NEW e, IsInjective(q)
    PROVE  /\ ToSet(RemoveFirst(q, e)) = ToSet(q) \ {e}
           /\ IsInjective(RemoveFirst(q, e))
<1>0. DOMAIN q = 1..Len(q) /\ Len(q) \in Nat BY LenProperties
<1>1. CASE ~ \E i \in 1..Len(q) : q[i] = e
  BY <1>0, <1>1, Zenon DEF RemoveFirst, ToSet
<1>2. CASE \E i \in 1..Len(q) : q[i] = e
  <2> DEFINE n == SelectInSeq(q, LAMBDA v : v = e)
             I == {i \in 1..Len(q) : q[i] = e}
             a == SubSeq(q, 1, n - 1)
             b == SubSeq(q, n + 1, Len(q))
  <2>2. n \in 1..Len(q) /\ q[n] = e
    <3>1. n = IF I # {} THEN Min(I) ELSE 0 BY Zenon DEF SelectInSeq
    <3>2. I \in SUBSET Nat /\ I # {} BY <1>0, <1>2
    <3>6. Min(I) \in I BY <3>2, MinIsMember
    <3> QED BY <3>1, <3>2, <3>6
  <2>4. RemoveFirst(q, e) = a \o b BY <1>2, Zenon DEF RemoveFirst, RemoveAt
  <2> HIDE DEF n
  <2>5. \A i, j \in 1..Len(q) : q[i] = q[j] => i = j BY <1>0, Zenon DEF IsInjective
  <2>6. /\ a \in Seq(S) /\ Len(a) = n - 1
        /\ \A i \in 1..n - 1 : a[i] = q[i]
    <3>1. \A i \in 1..n - 1 : q[i] \in S BY <1>0, <2>2, ElementOfSeq
    <3> QED BY <1>0, <2>2, <3>1, SubSeqProperties
  <2>7. /\ b \in Seq(S) /\ Len(b) = Len(q) - n
        /\ \A i \in 1..Len(q) - n : b[i] = q[n + i]
    <3>1. \A i \in n + 1..Len(q) : q[i] \in S BY <1>0, <2>2, ElementOfSeq
    <3> DEFINE m == n + 1
    <3>2. m \in Int /\ Len(q) \in Int BY <1>0, <2>2
    <3>3. \A i \in m..Len(q) : q[i] \in S BY <3>1
    <3>4. b = SubSeq(q, m, Len(q)) OBVIOUS
    <3> HIDE DEF m, b
    <3>5. /\ b \in Seq(S)
          /\ Len(b) = IF m <= Len(q) THEN Len(q) - m + 1 ELSE 0
          /\ \A i \in 1..Len(q) - m + 1 : b[i] = q[m + i - 1]
      BY <3>2, <3>3, <3>4, SubSeqProperties
    <3>6. Len(q) - m + 1 = Len(q) - n BY <1>0, <2>2 DEF m
    <3>7. Len(b) = Len(q) - n
      <4>1. CASE m <= Len(q) BY <3>5, <3>6, <4>1
      <4>2. CASE ~(m <= Len(q))
        <5>1. n \in Nat /\ Len(q) \in Nat /\ n <= Len(q) BY <1>0, <2>2
        <5>2. ~(n + 1 <= Len(q)) BY <4>2 DEF m
        <5>3. Len(q) - n = 0 BY <5>1, <5>2
        <5> QED BY <3>5, <4>2, <5>3
      <4> QED BY <4>1, <4>2
    <3>8. ASSUME NEW i \in 1..Len(q) - n PROVE b[i] = q[n + i]
      <4>1. m + i - 1 = n + i BY <1>0, <2>2 DEF m
      <4> QED BY <3>5, <3>6, <4>1
    <3> QED BY <3>5, <3>7, <3>8
  <2>8. DOMAIN a = 1..n - 1 /\ DOMAIN b = 1..Len(q) - n BY <2>6, <2>7, LenProperties
  <2> HIDE DEF a, b
  <2>9. ToSet(a) = {q[i] : i \in 1..n - 1} BY <2>6, <2>8, Zenon DEF ToSet
  <2>10. ToSet(b) = {q[i] : i \in n + 1..Len(q)}
    <3>1. ASSUME NEW i \in n + 1..Len(q) PROVE q[i] \in ToSet(b)
      <4>1. i - n \in DOMAIN b /\ b[i - n] = q[i] BY <1>0, <2>2, <2>7, <2>8
      <4> QED BY <4>1, Zenon DEF ToSet
    <3>2. ASSUME NEW i \in DOMAIN b PROVE b[i] \in {q[j] : j \in n + 1..Len(q)}
      <4>1. n + i \in n + 1..Len(q) /\ b[i] = q[n + i] BY <1>0, <2>2, <2>7, <2>8
      <4> QED BY <4>1, Zenon
    <3> QED BY <3>1, <3>2, Zenon DEF ToSet
  <2>11. IsInjective(a)
    <3>1. \A i, j \in DOMAIN a : a[i] = a[j] => i = j BY <1>0, <2>2, <2>5, <2>6, <2>8
    <3> QED BY <3>1, Zenon DEF IsInjective
  <2>12. IsInjective(b)
    <3>1. ASSUME NEW i \in DOMAIN b, NEW j \in DOMAIN b, b[i] = b[j] PROVE i = j
      <4>1. /\ n + i \in 1..Len(q) /\ n + j \in 1..Len(q)
            /\ b[i] = q[n + i] /\ b[j] = q[n + j]
        BY <1>0, <2>2, <2>7, <2>8
      <4>2. n + i = n + j BY <2>5, <3>1, <4>1
      <4> QED BY <1>0, <2>2, <2>8, <4>2
    <3> QED BY <3>1, Zenon DEF IsInjective
  <2>13. ToSet(a) \cap ToSet(b) = {}
    <3>1. ASSUME NEW i \in 1..n - 1, NEW j \in n + 1..Len(q) PROVE q[i] # q[j]
      BY <1>0, <2>2, <2>5
    <3> QED BY <2>9, <2>10, <3>1, Zenon
  <2>14. ToSet(q) \ {e} = ToSet(a) \cup ToSet(b)
    <3>1. \A i \in 1..Len(q) : \/ i \in 1..n - 1 \/ i \in n + 1..Len(q) \/ q[i] = e
      BY <1>0, <2>2
    <3>2. ASSUME NEW i, i \in 1..n - 1 \/ i \in n + 1..Len(q)
          PROVE i \in 1..Len(q) /\ q[i] # e
      BY <1>0, <2>2, <2>5, <3>2
    <3> QED BY <1>0, <2>9, <2>10, <3>1, <3>2, Zenon DEF ToSet
  <2> QED BY <2>4, <2>6, <2>7, <2>11, <2>12, <2>13, <2>14, ConcatMembers
<1> QED BY <1>1, <1>2

\* The elements of a set, walked in any order.
LEMMA SetToSeqsMembers ==
    ASSUME NEW S \in SUBSET Task, NEW q \in SetToSeqs(S)
    PROVE  q \in Seq(S) /\ ToSet(q) = S /\ IsInjective(q)
<1>1. IsFiniteSet(S) BY SyncAssumption, FS_Subset
<1> DEFINE n == Cardinality(S)
<1>2. n \in Nat BY <1>1, FS_CardinalityType
<1>3. q \in [1..n -> S] /\ \A i, j \in 1..n : i # j => q[i] # q[j] BY DEF SetToSeqs
<1> HIDE DEF n
<1>4. q \in Seq(S) BY <1>2, <1>3, SeqDef
<1>5. DOMAIN q = 1..n BY <1>3
<1>6. IsInjective(q) BY <1>3, <1>5, Zenon DEF IsInjective
<1>7. q \in Injection(1..n, S) BY <1>3, <1>6, Zenon DEF Injection
<1>8. IsFiniteSet(1..n) /\ Cardinality(1..n) = n BY <1>2, FS_Interval
<1>9. q \in Surjection(1..n, S) BY <1>1, <1>7, <1>8, FS_Injection DEF n
<1>10. \A x \in S : \E i \in 1..n : q[i] = x BY <1>9, Zenon DEF Surjection
<1>11. S \subseteq ToSet(q) BY <1>5, <1>10, Zenon DEF ToSet
<1>12. ToSet(q) \subseteq S BY <1>3, <1>5, Zenon DEF ToSet
<1> QED BY <1>4, <1>6, <1>11, <1>12

-----------------------------------------------------------------------------
(* The run queue as a queue of tasks.                                         *)

\* Whom the packets of a queue are for.
Names(q) == [i \in 1..Len(q) |-> q[i].task]

\* The names in a queue of packets are tasks, as many as packets.
LEMMA NamesType ==
    ASSUME NEW q \in Seq(Packet)
    PROVE  Names(q) \in Seq(Task) /\ Len(Names(q)) = Len(q)
<1>1. Len(q) \in Nat /\ \A i \in 1..Len(q) : q[i].task \in Task
  BY LenProperties, ElementOfSeq DEF Packet
<1>2. Names(q) \in [1..Len(q) -> Task] BY <1>1 DEF Names
<1>3. Names(q) \in Seq(Task) BY <1>1, <1>2, SeqDef
<1>4. DOMAIN Names(q) = 1..Len(Names(q)) /\ Len(Names(q)) \in Nat BY <1>3, LenProperties
<1>5. DOMAIN Names(q) = 1..Len(q) BY DEF Names
<1> QED BY <1>1, <1>3, <1>4, <1>5

\* append() of a packet appends its task.
LEMMA NamesAppend ==
    ASSUME NEW q \in Seq(Packet), NEW p \in Packet
    PROVE  Names(Append(q, p)) = Append(Names(q), p.task)
<1> DEFINE r == Append(q, p)
<1>1. p.task \in Task BY DEF Packet
<1>2. Len(q) \in Nat /\ Len(r) = Len(q) + 1 /\ r \in Seq(Packet)
  BY AppendProperties, LenProperties
<1>3. \A i \in 1..Len(r) : r[i] = IF i = Len(q) + 1 THEN p ELSE q[i]
  BY <1>2, AppendProperties
<1>4. /\ Append(Names(q), p.task) \in Seq(Task)
      /\ Len(Append(Names(q), p.task)) = Len(q) + 1
      /\ \A i \in 1..Len(q) : Append(Names(q), p.task)[i] = Names(q)[i]
      /\ Append(Names(q), p.task)[Len(q) + 1] = p.task
  BY <1>1, NamesType, AppendProperties
<1>5. Names(r) \in Seq(Task) /\ Len(Names(r)) = Len(r) BY <1>2, NamesType
<1> HIDE DEF r
<1>6. \A i \in 1..Len(r) : Names(r)[i] = Append(Names(q), p.task)[i]
  BY <1>2, <1>3, <1>4 DEF Names
<1> QED BY <1>2, <1>4, <1>5, <1>6, SeqEqual DEF r

\* extend() by packets extends by their tasks.
LEMMA NamesConcat ==
    ASSUME NEW q \in Seq(Packet), NEW r \in Seq(Packet)
    PROVE  Names(q \o r) = Names(q) \o Names(r)
<1> DEFINE c == q \o r
           d == Names(q) \o Names(r)
<1>1. /\ Len(q) \in Nat /\ Len(r) \in Nat /\ c \in Seq(Packet)
      /\ Len(c) = Len(q) + Len(r)
      /\ \A i \in 1..Len(q) + Len(r) : c[i] = IF i <= Len(q) THEN q[i] ELSE r[i - Len(q)]
  BY ConcatProperties, LenProperties
<1>2. /\ d \in Seq(Task) /\ Len(d) = Len(q) + Len(r)
      /\ \A i \in 1..Len(q) + Len(r) :
            d[i] = IF i <= Len(q) THEN Names(q)[i] ELSE Names(r)[i - Len(q)]
  <2>1. /\ Names(q) \in Seq(Task) /\ Len(Names(q)) = Len(q)
        /\ Names(r) \in Seq(Task) /\ Len(Names(r)) = Len(r)
    BY NamesType
  <2>2. /\ d \in Seq(Task) /\ Len(d) = Len(Names(q)) + Len(Names(r))
        /\ \A i \in 1..Len(Names(q)) + Len(Names(r)) :
              d[i] = IF i <= Len(Names(q)) THEN Names(q)[i] ELSE Names(r)[i - Len(Names(q))]
    BY <2>1, ConcatProperties, Zenon
  <2> HIDE DEF d
  <2> QED BY <2>1, <2>2
<1>3. Names(c) \in Seq(Task) /\ Len(Names(c)) = Len(c) BY <1>1, NamesType
<1> HIDE DEF c, d
<1>4. ASSUME NEW i \in 1..Len(c) PROVE Names(c)[i] = d[i]
  <2>1. Names(c)[i] = c[i].task BY DEF Names
  <2>2. CASE i <= Len(q)
    <3>1. Names(q)[i] = q[i].task BY <1>1, <2>2 DEF Names
    <3> QED BY <1>1, <1>2, <2>1, <2>2, <3>1
  <2>3. CASE ~(i <= Len(q))
    <3>1. i - Len(q) \in 1..Len(r) BY <1>1, <2>3
    <3>2. Names(r)[i - Len(q)] = r[i - Len(q)].task BY <3>1 DEF Names
    <3> QED BY <1>1, <1>2, <2>1, <2>3, <3>2
  <2> QED BY <2>2, <2>3
<1> QED BY <1>1, <1>2, <1>3, <1>4, SeqEqual DEF c, d

\* popleft() of a packet.
LEMMA NamesTail ==
    ASSUME NEW q \in Seq(Packet), q # <<>>
    PROVE  /\ Names(q) # <<>> /\ Names(Tail(q)) = Tail(Names(q))
           /\ Head(Names(q)) = Head(q).task
<1> DEFINE n == Names(q)
           r == Tail(q)
<1>1. /\ Len(q) \in Nat \ {0} /\ r \in Seq(Packet) /\ Len(r) = Len(q) - 1
      /\ \A i \in 1..Len(q) - 1 : r[i] = q[i + 1]
      /\ Head(q) = q[1]
  BY HeadTailProperties, EmptySeq
<1>2. n \in Seq(Task) /\ Len(n) = Len(q) BY NamesType
<1>3. n # <<>> BY <1>1, <1>2, EmptySeq
<1>4. /\ Tail(n) \in Seq(Task) /\ Len(Tail(n)) = Len(q) - 1
      /\ \A i \in 1..Len(q) - 1 : Tail(n)[i] = n[i + 1]
      /\ Head(n) = n[1]
  BY <1>2, <1>3, HeadTailProperties
<1>5. \A i \in 1..Len(q) : n[i] = q[i].task BY DEF Names
<1>6. Names(r) \in Seq(Task) /\ Len(Names(r)) = Len(r) BY <1>1, NamesType
<1>7. \A i \in 1..Len(r) : Names(r)[i] = r[i].task BY DEF Names
<1> HIDE DEF n, r
<1>8. ASSUME NEW i \in 1..Len(r) PROVE Names(r)[i] = Tail(n)[i]
  <2>1. i \in 1..Len(q) - 1 /\ i + 1 \in 1..Len(q) BY <1>1
  <2>2. Names(r)[i] = q[i + 1].task BY <1>1, <1>7, <2>1
  <2>3. Tail(n)[i] = q[i + 1].task BY <1>4, <1>5, <2>1
  <2> QED BY <2>2, <2>3
<1>9. Names(r) = Tail(n) BY <1>1, <1>4, <1>6, <1>8, SeqEqual
<1>10. 1 \in 1..Len(q) BY <1>1
<1>11. Head(n) = Head(q).task BY <1>1, <1>4, <1>5, <1>10
<1> QED BY <1>3, <1>9, <1>11 DEF n, r

\* The wake-ups of a sequence of tasks are for these tasks.
LEMMA NamesWakeups ==
    ASSUME NEW q \in Seq(Task)
    PROVE  Wakeups(q) \in Seq(Packet) /\ Names(Wakeups(q)) = q
<1>1. Len(q) \in Nat /\ \A i \in 1..Len(q) : q[i] \in Task
  BY LenProperties, ElementOfSeq
<1>2. Wakeups(q) \in [1..Len(q) -> Packet] BY <1>1, WakeupType DEF Wakeups
<1>3. Wakeups(q) \in Seq(Packet) BY <1>1, <1>2, SeqDef
<1>4. DOMAIN Wakeups(q) = 1..Len(q) BY DEF Wakeups
<1>5. Len(Wakeups(q)) = Len(q) BY <1>1, <1>3, <1>4, LenProperties
<1>6. \A i \in 1..Len(q) : Names(Wakeups(q))[i] = q[i] BY <1>5 DEF Names, Wakeups, Wakeup
<1>7. Names(Wakeups(q)) \in Seq(Task) /\ Len(Names(Wakeups(q))) = Len(q)
  BY <1>3, <1>5, NamesType
<1> QED BY <1>3, <1>6, <1>7, SeqEqual

-----------------------------------------------------------------------------
(* The places.                                                                *)

Ready == ToSet(Names(tasks))
Queuing(l) == ToSet(lockWaiters[l])

\* No task is in two places, or twice in one.
Apart ==
    /\ IsInjective(Names(tasks))
    /\ \A l \in Lock : /\ IsInjective(lockWaiters[l])
                       /\ Queuing(l) \cap Ready = {}
                       /\ \A m \in Lock \ {l} : Queuing(l) \cap Queuing(m) = {}
    /\ \A e \in Event : /\ eventWaiters[e] \cap Ready = {}
                        /\ \A l \in Lock : eventWaiters[e] \cap Queuing(l) = {}
                        /\ \A f \in Event \ {e} : eventWaiters[e] \cap eventWaiters[f] = {}
    /\ \A c \in Cond : /\ condWaiters[c] \cap Ready = {}
                       /\ \A l \in Lock : condWaiters[c] \cap Queuing(l) = {}
                       /\ \A e \in Event : condWaiters[c] \cap eventWaiters[e] = {}
                       /\ \A d \in Cond \ {c} : condWaiters[c] \cap condWaiters[d] = {}

\* The task is in none of the places.
Nowhere(t) ==
    /\ t \notin Ready
    /\ \A l \in Lock : t \notin Queuing(l)
    /\ \A e \in Event : t \notin eventWaiters[e]
    /\ \A c \in Cond : t \notin condWaiters[c]

\* A step that puts task t, which was nowhere, into one place, and forgets nobody.
Parks(t) == Apart' /\ \A x \in Task : Nowhere(x)' <=> (Nowhere(x) /\ x # t)

\* append() of a packet to the run queue.
LEMMA ReadyAppend ==
    ASSUME tasks \in Seq(Packet), IsInjective(Names(tasks)),
           NEW p \in Packet, p.task \notin Ready, tasks' = Append(tasks, p)
    PROVE  /\ Ready' = Ready \cup {p.task} /\ IsInjective(Names(tasks))'
<1>1. p.task \in Task BY DEF Packet
<1>2. Names(tasks') = Append(Names(tasks), p.task) BY NamesAppend
<1>3. Names(tasks) \in Seq(Task) BY NamesType
<1> QED BY <1>1, <1>2, <1>3, AppendMembers DEF Ready

\* extend() of the run queue by packets for tasks that are not in it.
LEMMA ReadyConcat ==
    ASSUME tasks \in Seq(Packet), IsInjective(Names(tasks)),
           NEW q \in Seq(Packet), IsInjective(Names(q)), ToSet(Names(q)) \cap Ready = {},
           tasks' = tasks \o q
    PROVE  /\ Ready' = Ready \cup ToSet(Names(q)) /\ IsInjective(Names(tasks))'
<1>1. Names(tasks') = Names(tasks) \o Names(q) BY NamesConcat
<1>2. Names(tasks) \in Seq(Task) /\ Names(q) \in Seq(Task) BY NamesType
<1> QED BY <1>1, <1>2, ConcatMembers DEF Ready

\* The loop pops the packet at the head.
LEMMA ReadyPop ==
    ASSUME tasks \in Seq(Packet), IsInjective(Names(tasks)), tasks # <<>>,
           tasks' = Tail(tasks)
    PROVE  /\ Head(tasks).task \in Ready /\ Ready' = Ready \ {Head(tasks).task}
           /\ IsInjective(Names(tasks))'
<1>1. /\ Names(tasks) # <<>> /\ Names(tasks') = Tail(Names(tasks))
      /\ Head(Names(tasks)) = Head(tasks).task
  BY NamesTail
<1>2. Names(tasks) \in Seq(Task) BY NamesType
<1> DEFINE n == Names(tasks)
<1>3. /\ Head(n) \in ToSet(n) /\ ToSet(n) = ToSet(Tail(n)) \cup {Head(n)}
      /\ Head(n) \notin ToSet(Tail(n)) /\ IsInjective(Tail(n))
  BY <1>1, <1>2, TailMembers, Zenon
<1> QED BY <1>1, <1>3, Zenon DEF Ready

\* The running task continues: it is queued.
LEMMA RequeueParks ==
    ASSUME SyncTypeOK, Apart, NEW t \in Task, Nowhere(t), Requeue(t), UNCHANGED syncVars
    PROVE  Parks(t) /\ Ready' = Ready \cup {t}
<1>1. Wakeup(t) \in Packet /\ Wakeup(t).task = t BY WakeupType DEF Wakeup
<1>2. Ready' = Ready \cup {t} /\ IsInjective(Names(tasks))'
  BY <1>1, ReadyAppend DEF SyncTypeOK, Apart, Nowhere, Requeue
<1>3. \A l \in Lock : Queuing(l)' = Queuing(l) BY DEF Queuing, syncVars
<1>4. Apart' BY <1>2, <1>3 DEF Apart, Nowhere, syncVars
<1>5. \A x \in Task : Nowhere(x)' <=> (Nowhere(x) /\ x # t)
  BY <1>2, <1>3 DEF Nowhere, syncVars
<1> QED BY <1>2, <1>4, <1>5 DEF Parks

\* EventWaitCommand
LEMMA EventWaitParks ==
    ASSUME SyncTypeOK, Apart, NEW t \in Task, Nowhere(t), NEW e \in Event, EventWait(t, e)
    PROVE  /\ Parks(t)
           /\ Ready' = IF e \in eventSet THEN Ready \cup {t} ELSE Ready
<1>1. CASE e \in eventSet
  BY <1>1, RequeueParks DEF EventWait, syncVars
<1>2. CASE e \notin eventSet
  <2>1. /\ eventWaiters' = [eventWaiters EXCEPT ![e] = @ \cup {t}]
        /\ UNCHANGED <<tasks, lockWaiters, condWaiters>>
        /\ eventWaiters \in [Event -> SUBSET Task]
    BY <1>2 DEF EventWait, SyncTypeOK
  <2>2. Ready' = Ready /\ (\A l \in Lock : Queuing(l)' = Queuing(l))
        /\ (IsInjective(Names(tasks)))' = IsInjective(Names(tasks))
    BY <2>1 DEF Ready, Queuing
  <2>3. Apart' BY <2>1, <2>2 DEF Apart, Nowhere
  <2>4. \A x \in Task : Nowhere(x)' <=> (Nowhere(x) /\ x # t)
    BY <2>1, <2>2 DEF Nowhere
  <2> QED BY <1>2, <2>2, <2>3, <2>4 DEF Parks
<1> QED BY <1>1, <1>2

\* EventSetCommand
LEMMA EventSetParks ==
    ASSUME SyncTypeOK, Apart, NEW t \in Task, Nowhere(t), NEW e \in Event, EventSet(t, e)
    PROVE  Parks(t) /\ Ready' = Ready \cup eventWaiters[e] \cup {t}
<1>1. PICK q \in SetToSeqs(eventWaiters[e]) :
          tasks' = Append(tasks \o Wakeups(q), Wakeup(t))
  BY DEF EventSet
<1>2. /\ eventWaiters \in [Event -> SUBSET Task]
      /\ eventWaiters' = [eventWaiters EXCEPT ![e] = {}]
      /\ UNCHANGED <<lockWaiters, condWaiters>>
  BY DEF EventSet, SyncTypeOK
<1>3. q \in Seq(Task) /\ ToSet(q) = eventWaiters[e] /\ IsInjective(q)
  BY <1>2, SetToSeqsMembers, SeqMonotonic
<1>4. /\ Wakeups(q) \in Seq(Packet) /\ Names(Wakeups(q)) = q
      /\ Wakeup(t) \in Packet /\ Wakeup(t).task = t
  BY <1>3, NamesWakeups, WakeupType DEF Wakeup
<1>5. Names(tasks) \in Seq(Task) /\ tasks \o Wakeups(q) \in Seq(Packet)
      /\ Names(tasks \o Wakeups(q)) = Names(tasks) \o q
  BY <1>4, NamesType, NamesConcat, ConcatProperties DEF SyncTypeOK
<1>6. Names(tasks') = Append(Names(tasks) \o q, t)
  BY <1>1, <1>4, <1>5, NamesAppend
<1>7. /\ ToSet(Names(tasks) \o q) = Ready \cup eventWaiters[e]
      /\ IsInjective(Names(tasks) \o q) /\ Names(tasks) \o q \in Seq(Task)
  BY <1>3, <1>5, ConcatMembers, ConcatProperties DEF Apart, Ready
<1>8. Ready' = Ready \cup eventWaiters[e] \cup {t} /\ IsInjective(Names(tasks))'
  <2> DEFINE n == Names(tasks) \o q
  <2>1. /\ n \in Seq(Task) /\ IsInjective(n) /\ ToSet(n) = Ready \cup eventWaiters[e]
        /\ Names(tasks') = Append(n, t)
    BY <1>6, <1>7
  <2> HIDE DEF n
  <2>2. t \notin ToSet(n) BY <2>1 DEF Nowhere
  <2>3. ToSet(Append(n, t)) = ToSet(n) \cup {t} /\ IsInjective(Append(n, t))
    BY <2>1, <2>2, AppendMembers
  <2> QED BY <2>1, <2>3, Zenon DEF Ready
<1>9. \A l \in Lock : Queuing(l)' = Queuing(l) BY <1>2 DEF Queuing
<1>10. Apart' BY <1>2, <1>8, <1>9 DEF Apart, Nowhere
<1>11. \A x \in Task : Nowhere(x)' <=> (Nowhere(x) /\ x # t)
  BY <1>2, <1>8, <1>9 DEF Nowhere
<1> QED BY <1>8, <1>10, <1>11 DEF Parks

-----------------------------------------------------------------------------
(* Locks.                                                                     *)

\* The task at the head of the queue of a lock, if there is one.
FirstOf(l) == IF lockWaiters[l] = <<>> THEN {} ELSE {Head(lockWaiters[l])}

\* LockAcquireCommand
LEMMA LockAcquireParks ==
    ASSUME SyncTypeOK, Apart, NEW t \in Task, Nowhere(t), NEW l \in Lock, LockAcquire(t, l)
    PROVE  /\ Parks(t)
           /\ Ready' = IF owner[l] = NoTask THEN Ready \cup {t} ELSE Ready
           /\ \A m \in Lock : Queuing(m)' =
                 IF m = l /\ owner[l] # NoTask THEN Queuing(m) \cup {t} ELSE Queuing(m)
<1>1. lockWaiters \in [Lock -> Seq(Task)] BY DEF SyncTypeOK
<1>2. CASE owner[l] = NoTask
  <2>1. Requeue(t) /\ UNCHANGED <<lockWaiters, eventSet, eventWaiters, condWaiters>>
    BY <1>2 DEF LockAcquire
  <2>2. Ready' = Ready \cup {t} /\ IsInjective(Names(tasks))'
    <3>1. Wakeup(t) \in Packet /\ Wakeup(t).task = t BY WakeupType DEF Wakeup
    <3> QED BY <2>1, <3>1, ReadyAppend DEF SyncTypeOK, Apart, Nowhere, Requeue
  <2>3. \A m \in Lock : Queuing(m)' = Queuing(m) BY <2>1 DEF Queuing
  <2>4. Apart' BY <2>1, <2>2, <2>3 DEF Apart, Nowhere
  <2>5. \A x \in Task : Nowhere(x)' <=> (Nowhere(x) /\ x # t)
    BY <2>1, <2>2, <2>3 DEF Nowhere
  <2> QED BY <1>2, <2>2, <2>3, <2>4, <2>5 DEF Parks
<1>3. CASE owner[l] # NoTask
  <2>1. /\ lockWaiters' = [lockWaiters EXCEPT ![l] = Append(@, t)]
        /\ UNCHANGED <<tasks, eventWaiters, condWaiters>>
    BY <1>3 DEF LockAcquire
  <2>2. Ready' = Ready /\ (IsInjective(Names(tasks))' <=> IsInjective(Names(tasks)))
    BY <2>1 DEF Ready
  <2>3. lockWaiters[l] \in Seq(Task) /\ IsInjective(lockWaiters[l])
        /\ t \notin ToSet(lockWaiters[l])
    BY <1>1 DEF Apart, Nowhere, Queuing
  <2>4. /\ ToSet(Append(lockWaiters[l], t)) = ToSet(lockWaiters[l]) \cup {t}
        /\ IsInjective(Append(lockWaiters[l], t))
    BY <2>3, AppendMembers
  <2>5. \A m \in Lock : lockWaiters'[m] = IF m = l THEN Append(lockWaiters[l], t)
                                                   ELSE lockWaiters[m]
    BY <1>1, <2>1
  <2>6. \A m \in Lock : /\ IsInjective(lockWaiters[m])'
                        /\ Queuing(m)' = IF m = l THEN Queuing(m) \cup {t} ELSE Queuing(m)
    BY <2>4, <2>5, Zenon DEF Queuing, Apart
  <2>7. Apart' BY <2>1, <2>2, <2>6 DEF Apart, Nowhere
  <2>8. \A x \in Task : Nowhere(x)' <=> (Nowhere(x) /\ x # t)
    BY <2>1, <2>2, <2>6 DEF Nowhere
  <2> QED BY <1>3, <2>2, <2>6, <2>7, <2>8 DEF Parks
<1> QED BY <1>2, <1>3

\* Handing a lock over moves the head of its queue, if there is one, to the run queue, and
\* with it the tasks of `queue'.
LEMMA HandOverMoves ==
    ASSUME SyncTypeOK, Apart, NEW l \in Lock, NEW queue \in Seq(Packet),
           HandOver(l, queue), IsInjective(Names(queue)),
           \A t \in ToSet(Names(queue)) : t \notin Ready /\ t \notin Queuing(l)
    PROVE  /\ FirstOf(l) \subseteq Queuing(l)
           /\ Ready' = Ready \cup FirstOf(l) \cup ToSet(Names(queue))
           /\ IsInjective(Names(tasks))'
           /\ \A m \in Lock : /\ IsInjective(lockWaiters[m])'
                              /\ Queuing(m)' = IF m = l THEN Queuing(m) \ FirstOf(l)
                                                        ELSE Queuing(m)
<1>1. /\ lockWaiters \in [Lock -> Seq(Task)] /\ tasks \in Seq(Packet)
      /\ IsInjective(Names(tasks)) /\ \A m \in Lock : IsInjective(lockWaiters[m])
  BY DEF SyncTypeOK, Apart
<1>2. CASE lockWaiters[l] = <<>>
  <2>1. tasks' = tasks \o queue /\ UNCHANGED lockWaiters /\ FirstOf(l) = {}
    BY <1>2 DEF HandOver, FirstOf
  <2>2. ToSet(Names(queue)) \cap Ready = {} OBVIOUS
  <2>3. Ready' = Ready \cup ToSet(Names(queue)) /\ IsInjective(Names(tasks))'
    BY <1>1, <2>1, <2>2, ReadyConcat
  <2> QED BY <1>1, <2>1, <2>3 DEF Queuing
<1>3. CASE lockWaiters[l] # <<>>
  <2> DEFINE h == Head(lockWaiters[l])
             a == Append(tasks, Wakeup(h))
  <2>1. /\ tasks' = a \o queue /\ lockWaiters' = [lockWaiters EXCEPT ![l] = Tail(@)]
        /\ FirstOf(l) = {h}
    BY <1>3 DEF HandOver, FirstOf
  <2>2. lockWaiters[l] \in Seq(Task) /\ IsInjective(lockWaiters[l]) BY <1>1
  <2>3. h \in Task BY <1>3, <2>2, HeadTailProperties
  <2>4. /\ h \in Queuing(l) /\ ToSet(Tail(lockWaiters[l])) = Queuing(l) \ {h}
        /\ IsInjective(Tail(lockWaiters[l]))
    <3>1. /\ h \in ToSet(lockWaiters[l])
          /\ ToSet(lockWaiters[l]) = ToSet(Tail(lockWaiters[l])) \cup {h}
          /\ IsInjective(Tail(lockWaiters[l])) /\ h \notin ToSet(Tail(lockWaiters[l]))
      BY <1>3, <2>2, TailMembers, Zenon
    <3> QED BY <3>1, Zenon DEF Queuing
  <2> HIDE DEF h
  <2>5. /\ a \in Seq(Packet) /\ Names(a) = Append(Names(tasks), h)
        /\ Names(tasks) \in Seq(Task)
    <3>1. Wakeup(h) \in Packet /\ Wakeup(h).task = h BY <2>3, WakeupType DEF Wakeup
    <3> QED BY <1>1, <3>1, AppendProperties, NamesAppend, NamesType
  <2>6. h \notin Ready BY <2>4 DEF Apart
  <2>7. ToSet(Names(a)) = Ready \cup {h} /\ IsInjective(Names(a))
    <3>1. /\ ToSet(Append(Names(tasks), h)) = ToSet(Names(tasks)) \cup {h}
          /\ IsInjective(Append(Names(tasks), h))
      BY <1>1, <2>3, <2>5, <2>6, AppendMembers DEF Ready
    <3> QED BY <2>5, <3>1, Zenon DEF Ready
  <2> HIDE DEF a
  <2>8. /\ Names(a \o queue) = Names(a) \o Names(queue)
        /\ Names(a) \in Seq(Task) /\ Names(queue) \in Seq(Task)
    BY <2>5, NamesConcat, NamesType
  <2>9. ToSet(Names(a)) \cap ToSet(Names(queue)) = {} BY <2>4, <2>7
  <2>10. /\ ToSet(Names(a) \o Names(queue)) = ToSet(Names(a)) \cup ToSet(Names(queue))
         /\ IsInjective(Names(a) \o Names(queue))
    BY <2>7, <2>8, <2>9, ConcatMembers
  <2>11. /\ Ready' = Ready \cup {h} \cup ToSet(Names(queue)) /\ IsInjective(Names(tasks))'
    BY <2>1, <2>7, <2>8, <2>10, Zenon DEF Ready
  <2>12. \A m \in Lock : lockWaiters'[m] = IF m = l THEN Tail(lockWaiters[l])
                                                    ELSE lockWaiters[m]
    BY <1>1, <2>1
  <2>13. \A m \in Lock : /\ IsInjective(lockWaiters[m])'
                         /\ Queuing(m)' = IF m = l THEN Queuing(m) \ {h} ELSE Queuing(m)
    BY <1>1, <2>4, <2>12, Zenon DEF Queuing
  <2> QED BY <2>1, <2>4, <2>11, <2>13
<1> QED BY <1>2, <1>3

\* Tasks of `queue' for HandOver: one wake-up, or none.
LEMMA OneName ==
    /\ <<>> \in Seq(Packet) /\ Names(<<>>) = <<>> /\ IsInjective(<<>>) /\ ToSet(<<>>) = {}
    /\ \A t \in Task : /\ <<Wakeup(t)>> \in Seq(Packet) /\ IsInjective(Names(<<Wakeup(t)>>))
                       /\ ToSet(Names(<<Wakeup(t)>>)) = {t}
<1>1. <<>> \in Seq(Packet) /\ Names(<<>>) = <<>> BY DEF Names
<1>2. IsInjective(<<>>) /\ ToSet(<<>>) = {} BY DEF IsInjective, ToSet
<1>3. ASSUME NEW t \in Task
      PROVE  /\ <<Wakeup(t)>> \in Seq(Packet) /\ IsInjective(Names(<<Wakeup(t)>>))
             /\ ToSet(Names(<<Wakeup(t)>>)) = {t}
  <2>1. <<Wakeup(t)>> \in Seq(Packet) BY WakeupType
  <2>2. Names(<<Wakeup(t)>>) = [i \in 1..1 |-> t] BY DEF Names, Wakeup
  <2>3. \A i \in 1..1 : i = 1 OBVIOUS
  <2>4. 1 \in 1..1 OBVIOUS
  <2> QED BY <2>1, <2>2, <2>3, <2>4, Zenon DEF IsInjective, ToSet
<1> QED BY <1>1, <1>2, <1>3

\* LockReleaseCommand, by the owner or by any other task.
LEMMA LockReleaseParks ==
    ASSUME SyncTypeOK, Apart, NEW t \in Task, Nowhere(t), NEW l \in Lock, LockRelease(t, l)
    PROVE  /\ Parks(t)
           /\ FirstOf(l) \subseteq Queuing(l)
           /\ LET H == IF owner[l] = t THEN FirstOf(l) ELSE {} IN
                /\ Ready' = Ready \cup {t} \cup H
                /\ \A m \in Lock : Queuing(m)' = IF m = l THEN Queuing(m) \ H ELSE Queuing(m)
<1>0. FirstOf(l) \subseteq Queuing(l)
  <2>1. lockWaiters[l] \in Seq(Task) BY DEF SyncTypeOK
  <2> QED BY <2>1, TailMembers DEF FirstOf, Queuing
<1>1. CASE owner[l] # t
  BY <1>0, <1>1, RequeueParks DEF LockRelease, syncVars, Queuing
<1>2. CASE owner[l] = t
  <2>1. HandOver(l, <<Wakeup(t)>>) /\ UNCHANGED <<eventWaiters, condWaiters>>
    BY <1>2 DEF LockRelease
  <2>2. \A x \in ToSet(Names(<<Wakeup(t)>>)) : x \notin Ready /\ x \notin Queuing(l)
    BY OneName DEF Nowhere
  <2>3. /\ Ready' = Ready \cup FirstOf(l) \cup {t} /\ IsInjective(Names(tasks))'
        /\ \A m \in Lock : /\ IsInjective(lockWaiters[m])'
                           /\ Queuing(m)' = IF m = l THEN Queuing(m) \ FirstOf(l)
                                                     ELSE Queuing(m)
    BY <2>1, <2>2, OneName, HandOverMoves
  <2>4. Apart' BY <1>0, <2>1, <2>3 DEF Apart, Nowhere
  <2>5. \A x \in Task : Nowhere(x)' <=> (Nowhere(x) /\ x # t)
    BY <1>0, <2>1, <2>3 DEF Nowhere
  <2> QED BY <1>0, <1>2, <2>3, <2>4, <2>5 DEF Parks
<1> QED BY <1>1, <1>2

-----------------------------------------------------------------------------
(* Conditions.                                                                *)

\* ConditionWaitCommand
LEMMA ConditionWaitParks ==
    ASSUME SyncTypeOK, Apart, NEW t \in Task, Nowhere(t), NEW c \in Cond,
           ConditionWait(t, c)
    PROVE  /\ Parks(t)
           /\ FirstOf(LockOf[c]) \subseteq Queuing(LockOf[c])
           /\ Ready' = Ready \cup FirstOf(LockOf[c])
           /\ \A m \in Lock : Queuing(m)' =
                 IF m = LockOf[c] THEN Queuing(m) \ FirstOf(LockOf[c]) ELSE Queuing(m)
<1> DEFINE l == LockOf[c]
<1>1. /\ l \in Lock /\ HandOver(l, <<>>)
      /\ condWaiters' = [condWaiters EXCEPT ![c] = @ \cup {t}]
      /\ UNCHANGED eventWaiters /\ condWaiters \in [Cond -> SUBSET Task]
  BY SyncAssumption DEF ConditionWait, SyncTypeOK
<1> HIDE DEF l
<1>2. /\ FirstOf(l) \subseteq Queuing(l)
      /\ Ready' = Ready \cup FirstOf(l) /\ IsInjective(Names(tasks))'
      /\ \A m \in Lock : /\ IsInjective(lockWaiters[m])'
                         /\ Queuing(m)' = IF m = l THEN Queuing(m) \ FirstOf(l)
                                                   ELSE Queuing(m)
  BY <1>1, OneName, HandOverMoves
<1>3. Apart' BY <1>1, <1>2 DEF Apart, Nowhere
<1>4. \A x \in Task : Nowhere(x)' <=> (Nowhere(x) /\ x # t) BY <1>1, <1>2 DEF Nowhere
<1> QED BY <1>2, <1>3, <1>4 DEF Parks, l

\* ConditionNotifyCommand: the waiters W leave the condition for the queue of its lock.
LEMMA ConditionNotifyParks ==
    ASSUME SyncTypeOK, Apart, NEW t \in Task, Nowhere(t), NEW c \in Cond,
           NEW all \in BOOLEAN, ConditionNotify(t, c, all)
    PROVE  /\ Parks(t) /\ Ready' = Ready \cup {t}
           /\ \E W \in SUBSET condWaiters[c] :
                /\ IF all THEN W = condWaiters[c]
                          ELSE W = {} <=> condWaiters[c] = {}
                /\ all \/ \A x, y \in W : x = y
                /\ condWaiters' = [condWaiters EXCEPT ![c] = @ \ W]
                /\ \A m \in Lock : Queuing(m)' =
                      IF m = LockOf[c] THEN Queuing(m) \cup W ELSE Queuing(m)
<1>1. /\ LockOf[c] \in Lock /\ condWaiters \in [Cond -> SUBSET Task]
      /\ lockWaiters \in [Lock -> Seq(Task)]
  BY SyncAssumption DEF SyncTypeOK
<1>2. PICK W \in SUBSET condWaiters[c] :
          /\ IF all THEN W = condWaiters[c]
                    ELSE Cardinality(W) = IF condWaiters[c] = {} THEN 0 ELSE 1
          /\ condWaiters' = [condWaiters EXCEPT ![c] = @ \ W]
          /\ \E q \in SetToSeqs(W) :
                lockWaiters' = [lockWaiters EXCEPT ![LockOf[c]] = @ \o q]
  BY DEF ConditionNotify
<1>3. W \in SUBSET Task BY <1>1
<1>4. IsFiniteSet(W) BY <1>3, SyncAssumption, FS_Subset
<1>5. ~all => /\ W = {} <=> condWaiters[c] = {}
              /\ \A x, y \in W : x = y
  <2>1. CASE condWaiters[c] = {} BY <2>1
  <2>2. CASE ~all /\ condWaiters[c] # {}
    <3>1. Cardinality(W) = 1 BY <1>2, <2>2
    <3>2. \E x : W = {x} BY <1>4, <3>1, FS_Singleton
    <3> QED BY <2>2, <3>2
  <2> QED BY <2>1, <2>2
<1>6. PICK q \in SetToSeqs(W) :
          lockWaiters' = [lockWaiters EXCEPT ![LockOf[c]] = @ \o q]
  BY <1>2
<1>7. q \in Seq(Task) /\ ToSet(q) = W /\ IsInjective(q)
  BY <1>3, SetToSeqsMembers, SeqMonotonic
<1>8. /\ ToSet(lockWaiters[LockOf[c]] \o q) = Queuing(LockOf[c]) \cup W
      /\ IsInjective(lockWaiters[LockOf[c]] \o q)
  <2>1. ToSet(lockWaiters[LockOf[c]]) \cap ToSet(q) = {}
    BY <1>1, <1>7 DEF Apart, Queuing
  <2> QED BY <1>1, <1>7, <2>1, ConcatMembers DEF Apart, Queuing
<1>9. \A m \in Lock : lockWaiters'[m] = IF m = LockOf[c] THEN lockWaiters[LockOf[c]] \o q
                                                         ELSE lockWaiters[m]
  BY <1>1, <1>6
<1>10. \A m \in Lock : /\ IsInjective(lockWaiters[m])'
                       /\ Queuing(m)' = IF m = LockOf[c] THEN Queuing(m) \cup W
                                                         ELSE Queuing(m)
  BY <1>8, <1>9, Zenon DEF Queuing, Apart
<1>11. Ready' = Ready \cup {t} /\ IsInjective(Names(tasks))' /\ UNCHANGED eventWaiters
  <2>1. Wakeup(t) \in Packet /\ Wakeup(t).task = t BY WakeupType DEF Wakeup
  <2> QED BY <2>1, ReadyAppend
          DEF ConditionNotify, SyncTypeOK, Apart, Nowhere, Requeue
<1>12. Apart'
  <2>1. \A d \in Cond : condWaiters'[d] = IF d = c THEN condWaiters[c] \ W ELSE condWaiters[d]
    BY <1>1, <1>2
  <2>2. \A l \in Lock : Queuing(l)' \cap Ready' = {} BY <1>10, <1>11 DEF Apart, Nowhere
  <2>3. \A l \in Lock : \A m \in Lock \ {l} : Queuing(l)' \cap Queuing(m)' = {}
    BY <1>10 DEF Apart
  <2>4. \A d \in Cond, l \in Lock : condWaiters'[d] \cap Queuing(l)' = {}
    BY <1>10, <2>1 DEF Apart
  <2>5. \A d \in Cond : \A f \in Cond \ {d} : condWaiters'[d] \cap condWaiters'[f] = {}
    BY <2>1 DEF Apart
  <2>6. \A d \in Cond : /\ condWaiters'[d] \cap Ready' = {}
                        /\ \A e \in Event : condWaiters'[d] \cap eventWaiters[e] = {}
    BY <1>11, <2>1 DEF Apart, Nowhere
  <2>7. \A e \in Event : /\ eventWaiters[e] \cap Ready' = {}
                         /\ \A l \in Lock : eventWaiters[e] \cap Queuing(l)' = {}
    BY <1>10, <1>11 DEF Apart, Nowhere
  <2> QED BY <1>10, <1>11, <2>2, <2>3, <2>4, <2>5, <2>6, <2>7, Zenon DEF Apart
<1>13. \A x \in Task : Nowhere(x)' <=> (Nowhere(x) /\ x # t)
  BY ZenonT(60), <1>1, <1>2, <1>10, <1>11 DEF Nowhere
<1> QED BY <1>2, <1>5, <1>10, <1>11, <1>12, <1>13 DEF Parks

-----------------------------------------------------------------------------
(* notify_nowait() and notify_all_nowait()                                    *)

\* A step that moves tasks between the places, takes none out and puts none in.
Keeps == Apart' /\ \A x \in Task : Nowhere(x)' <=> Nowhere(x)

\* The first of the tasks q, if it gets the lock.
Given(l, q) == IF owner[l] = NoTask /\ q # <<>> THEN {Head(q)} ELSE {}

\* The tasks of q get the lock or queue for it.
LEMMA PassToMoves ==
    ASSUME SyncInv, NEW l \in Lock, NEW q \in Seq(Task), PassTo(l, q),
           IsInjective(Names(tasks)), \A m \in Lock : IsInjective(lockWaiters[m]),
           IsInjective(q), ToSet(q) \cap Ready = {}, ToSet(q) \cap Queuing(l) = {}
    PROVE  /\ tasks' \in Seq(Packet) /\ lockWaiters' \in [Lock -> Seq(Task)]
           /\ owner' \in [Lock -> TaskOrNone] /\ NoWaiterOnFreeLock'
           /\ IsInjective(Names(tasks))'
           /\ Given(l, q) \subseteq ToSet(q) /\ \A x, y \in Given(l, q) : x = y
           /\ Given(l, q) = {} => owner[l] # NoTask \/ ToSet(q) = {}
           /\ owner' = owner \/ \E h \in Given(l, q) : owner' = [owner EXCEPT ![l] = h]
           /\ Given(l, q) # {} => owner[l] = NoTask /\ owner'[l] \in Given(l, q)
           /\ Ready' = Ready \cup Given(l, q)
           /\ \A p \in ToSet(tasks') : p \in ToSet(tasks) \/ \E h \in Given(l, q) : p = Wakeup(h)
           /\ \A m \in Lock : /\ IsInjective(lockWaiters[m])'
                              /\ Queuing(m)' = IF m = l
                                    THEN Queuing(m) \cup (ToSet(q) \ Given(l, q))
                                    ELSE Queuing(m)
<1>1. /\ lockWaiters \in [Lock -> Seq(Task)] /\ tasks \in Seq(Packet)
      /\ owner \in [Lock -> TaskOrNone]
  BY DEF SyncInv, SyncTypeOK
<1>2. ASSUME NEW r \in Seq(Task), IsInjective(r), ToSet(r) \subseteq ToSet(q),
             lockWaiters' = [lockWaiters EXCEPT ![l] = @ \o r]
      PROVE  /\ lockWaiters' \in [Lock -> Seq(Task)]
             /\ \A m \in Lock :
                  /\ IsInjective(lockWaiters[m])'
                  /\ Queuing(m)' = IF m = l THEN Queuing(m) \cup ToSet(r) ELSE Queuing(m)
  <2>1. lockWaiters[l] \in Seq(Task) /\ ToSet(lockWaiters[l]) \cap ToSet(r) = {}
    BY <1>1, <1>2 DEF Queuing
  <2>2. /\ ToSet(lockWaiters[l] \o r) = ToSet(lockWaiters[l]) \cup ToSet(r)
        /\ IsInjective(lockWaiters[l] \o r) /\ lockWaiters[l] \o r \in Seq(Task)
    BY <1>2, <2>1, ConcatMembers, ConcatProperties
  <2>3. \A m \in Lock : lockWaiters'[m] = IF m = l THEN lockWaiters[l] \o r
                                                   ELSE lockWaiters[m]
    BY <1>1, <1>2
  <2>4. lockWaiters' \in [Lock -> Seq(Task)] BY <1>1, <1>2, <2>2
  <2> QED BY <2>2, <2>3, <2>4, Zenon DEF Queuing
<1>3. CASE owner[l] = NoTask /\ q # <<>>
  <2> DEFINE h == Head(q)
  <2>1. /\ owner' = [owner EXCEPT ![l] = h] /\ tasks' = Append(tasks, Wakeup(h))
        /\ lockWaiters' = [lockWaiters EXCEPT ![l] = @ \o Tail(q)]
    BY <1>3 DEF PassTo
  <2>2. h \in Task /\ Tail(q) \in Seq(Task) BY <1>3, HeadTailProperties
  <2>3. /\ h \in ToSet(q) /\ ToSet(q) = ToSet(Tail(q)) \cup {h}
        /\ IsInjective(Tail(q)) /\ h \notin ToSet(Tail(q))
    BY <1>3, TailMembers, Zenon
  <2> HIDE DEF h
  <2>4. /\ lockWaiters' \in [Lock -> Seq(Task)]
        /\ \A m \in Lock : /\ IsInjective(lockWaiters[m])'
                           /\ Queuing(m)' = IF m = l THEN Queuing(m) \cup ToSet(Tail(q))
                                                     ELSE Queuing(m)
    BY <1>2, <2>1, <2>2, <2>3
  <2>5. Wakeup(h) \in Packet /\ Wakeup(h).task = h BY <2>2, WakeupType DEF Wakeup
  <2>6. h \notin Ready BY <2>3
  <2>7. Ready' = Ready \cup {h} /\ IsInjective(Names(tasks))'
    BY <1>1, <2>1, <2>5, <2>6, ReadyAppend
  <2>8. tasks' \in Seq(Packet) BY <1>1, <2>1, <2>2, AppendWakeup
  <2>9. owner' \in [Lock -> TaskOrNone] BY <1>1, <2>1, <2>2 DEF TaskOrNone
  <2>10. NoWaiterOnFreeLock'
    BY <1>1, <2>1, <2>2, SyncAssumption DEF SyncInv, NoWaiterOnFreeLock
  <2>11. ToSet(Tail(q)) = ToSet(q) \ {h} BY <2>3
  <2>12. \A p \in ToSet(tasks') : p \in ToSet(tasks) \/ p = Wakeup(h)
    <3>1. ToSet(tasks') = ToSet(tasks) \cup {Wakeup(h)}
      BY <1>1, <2>1, <2>5, AppendMembers
    <3> QED BY <3>1
  <2>13. Given(l, q) = {h} BY <1>3 DEF Given, h
  <2>14. owner'[l] = h BY <1>1, <2>1
  <2> QED BY <1>3, <2>1, <2>3, <2>4, <2>7, <2>8, <2>9, <2>10, <2>11, <2>12, <2>13, <2>14
<1>4. CASE ~(owner[l] = NoTask /\ q # <<>>)
  <2>1. /\ lockWaiters' = [lockWaiters EXCEPT ![l] = @ \o q] /\ UNCHANGED <<owner, tasks>>
    BY <1>4, Zenon DEF PassTo
  <2>2. /\ lockWaiters' \in [Lock -> Seq(Task)]
        /\ \A m \in Lock : /\ IsInjective(lockWaiters[m])'
                           /\ Queuing(m)' = IF m = l THEN Queuing(m) \cup ToSet(q)
                                                     ELSE Queuing(m)
    BY <1>2, <2>1
  <2>3. Ready' = Ready /\ IsInjective(Names(tasks))' BY <2>1 DEF Ready
  <2>4. q = <<>> => ToSet(q) = {} BY OneName
  <2>5. NoWaiterOnFreeLock'
    <3>1. q = <<>> => lockWaiters[l] \o q = lockWaiters[l] BY <1>1, ConcatEmptySeq
    <3> QED BY <1>1, <1>4, <2>1, <3>1 DEF SyncInv, NoWaiterOnFreeLock
  <2>6. Given(l, q) = {} BY <1>4 DEF Given
  <2>7. owner' \in [Lock -> TaskOrNone] /\ tasks' \in Seq(Packet) BY <1>1, <2>1
  <2>8. \A p \in ToSet(tasks') : p \in ToSet(tasks) BY <2>1
  <2> HIDE DEF Given
  <2> QED BY <1>4, <2>1, <2>2, <2>3, <2>4, <2>5, <2>6, <2>7, <2>8
<1> QED BY <1>3, <1>4

\* notify_nowait(): the waiters W leave the condition, and H of them gets the lock.
LEMMA NotifyNowaitMoves ==
    ASSUME SyncInv, Apart, NEW c \in Cond, NotifyNowait(c)
    PROVE  /\ SyncInv' /\ Keeps
           /\ \E W \in SUBSET condWaiters[c] : \E H \in SUBSET W :
                /\ W = {} <=> condWaiters[c] = {}
                /\ \A x, y \in W : x = y
                /\ condWaiters' = [condWaiters EXCEPT ![c] = @ \ W]
                /\ H = {} <=> owner[LockOf[c]] # NoTask \/ W = {}
                /\ owner' = owner \/ \E h \in H : owner' = [owner EXCEPT ![LockOf[c]] = h]
                /\ H # {} => owner'[LockOf[c]] \in H
                /\ Ready' = Ready \cup H
                /\ \A p \in ToSet(tasks') : p \in ToSet(tasks) \/ \E h \in H : p = Wakeup(h)
                /\ \A m \in Lock : Queuing(m)' =
                      IF m = LockOf[c] THEN Queuing(m) \cup (W \ H) ELSE Queuing(m)
<1> DEFINE l == LockOf[c]
<1>1. /\ l \in Lock /\ condWaiters \in [Cond -> SUBSET Task] /\ UNCHANGED <<eventSet, eventWaiters>>
      /\ IsInjective(Names(tasks)) /\ \A m \in Lock : IsInjective(lockWaiters[m])
  BY SyncAssumption DEF SyncInv, SyncTypeOK, Apart, NotifyNowait
<1>2. PICK W \in SUBSET condWaiters[c] :
          /\ Cardinality(W) = IF condWaiters[c] = {} THEN 0 ELSE 1
          /\ condWaiters' = [condWaiters EXCEPT ![c] = @ \ W]
          /\ \E q \in SetToSeqs(W) : PassTo(l, q)
  BY DEF NotifyNowait
<1>3. W \in SUBSET Task BY <1>1
<1>4. (W = {} <=> condWaiters[c] = {}) /\ \A x, y \in W : x = y
  <2>1. IsFiniteSet(W) BY <1>3, SyncAssumption, FS_Subset
  <2>2. CASE condWaiters[c] = {} BY <2>2
  <2>3. CASE condWaiters[c] # {}
    <3>1. \E x : W = {x} BY <1>2, <2>1, <2>3, FS_Singleton
    <3> QED BY <2>3, <3>1
  <2> QED BY <2>2, <2>3
<1>5. PICK q \in SetToSeqs(W) : PassTo(l, q) BY <1>2
<1>6. q \in Seq(Task) /\ ToSet(q) = W /\ IsInjective(q)
  BY <1>3, SetToSeqsMembers, SeqMonotonic
<1>7. W \cap Ready = {} /\ \A m \in Lock : W \cap Queuing(m) = {} BY DEF Apart
<1> DEFINE H == Given(l, q)
<1>8. /\ tasks' \in Seq(Packet) /\ lockWaiters' \in [Lock -> Seq(Task)]
      /\ owner' \in [Lock -> TaskOrNone] /\ NoWaiterOnFreeLock' /\ IsInjective(Names(tasks))'
      /\ H \subseteq W /\ (H = {} => owner[l] # NoTask \/ W = {})
      /\ owner' = owner \/ \E h \in H : owner' = [owner EXCEPT ![l] = h]
      /\ H # {} => owner[l] = NoTask /\ owner'[l] \in H
      /\ Ready' = Ready \cup H
      /\ \A p \in ToSet(tasks') : p \in ToSet(tasks) \/ \E h \in H : p = Wakeup(h)
      /\ \A m \in Lock : /\ IsInjective(lockWaiters[m])'
                         /\ Queuing(m)' = IF m = l THEN Queuing(m) \cup (W \ H) ELSE Queuing(m)
  <2>1. ToSet(q) \cap Ready = {} /\ ToSet(q) \cap Queuing(l) = {} BY <1>1, <1>6, <1>7
  <2> HIDE DEF l
  <2> QED BY <1>1, <1>5, <1>6, <2>1, PassToMoves, Zenon
<1> HIDE DEF H, l
<1>9. SyncInv' BY <1>1, <1>2, <1>8 DEF SyncInv, SyncTypeOK, NoWaiterOnSetEvent
<1>10. \A d \in Cond : condWaiters'[d] = IF d = c THEN condWaiters[c] \ W ELSE condWaiters[d]
  BY <1>1, <1>2
<1>11. Apart'
  <2>1. \A m \in Lock : Queuing(m)' \cap Ready' = {} BY SMTT(60), <1>7, <1>8 DEF Apart
  <2>2. \A m \in Lock : \A n \in Lock \ {m} : Queuing(m)' \cap Queuing(n)' = {}
    <3>1. \A m \in Lock : \A n \in Lock \ {m} : Queuing(m) \cap Queuing(n) = {} BY DEF Apart
    <3>2. \A m \in Lock : Queuing(m)' \subseteq IF m = l THEN Queuing(m) \cup W ELSE Queuing(m)
      BY <1>8
    <3> QED BY <1>7, <3>1, <3>2
  <2>3. \A d \in Cond : /\ condWaiters'[d] \cap Ready' = {}
                        /\ \A m \in Lock : condWaiters'[d] \cap Queuing(m)' = {}
    <3>1. \A d \in Cond : /\ condWaiters[d] \cap Ready = {}
                          /\ \A m \in Lock : condWaiters[d] \cap Queuing(m) = {}
                          /\ d # c => condWaiters[d] \cap W = {}
      BY DEF Apart
    <3>2. \A d \in Cond : condWaiters'[d] \subseteq condWaiters[d] /\ condWaiters'[d] \cap W = {}
      BY <1>10, <3>1
    <3>3. Ready' \subseteq Ready \cup W /\ \A m \in Lock : Queuing(m)' \subseteq Queuing(m) \cup W
      BY <1>8
    <3> QED BY <3>1, <3>2, <3>3
  <2>4. \A d \in Cond : /\ \A f \in Cond \ {d} : condWaiters'[d] \cap condWaiters'[f] = {}
                        /\ \A e \in Event : condWaiters'[d] \cap eventWaiters'[e] = {}
    BY <1>1, <1>10 DEF Apart
  <2>5. \A e \in Event : /\ eventWaiters'[e] \cap Ready' = {}
                         /\ \A m \in Lock : eventWaiters'[e] \cap Queuing(m)' = {}
    BY <1>1, <1>8 DEF Apart
  <2>6. \A e \in Event : \A f \in Event \ {e} : eventWaiters'[e] \cap eventWaiters'[f] = {}
    BY <1>1 DEF Apart
  <2> QED BY <1>8, <2>1, <2>2, <2>3, <2>4, <2>5, <2>6, Zenon DEF Apart
<1>12. \A x \in Task : Nowhere(x)' <=> Nowhere(x)
  BY <1>1, <1>8, <1>10 DEF Nowhere
<1> QED BY <1>2, <1>4, <1>8, <1>9, <1>11, <1>12 DEF Keeps, l

\* notify_all_nowait() of two conditions of one lock.
LEMMA NotifyAllNowaitMoves ==
    ASSUME SyncInv, Apart, NEW c \in Cond, NEW d \in Cond \ {c}, LockOf[d] = LockOf[c],
           NotifyAllNowait(c, d)
    PROVE  /\ SyncInv' /\ Keeps
           /\ condWaiters' = [condWaiters EXCEPT ![c] = {}, ![d] = {}]
           /\ LET W == condWaiters[c] \cup condWaiters[d] IN
              \E H \in SUBSET W :
                /\ \A x, y \in H : x = y
                /\ H = {} <=> owner[LockOf[c]] # NoTask \/ W = {}
                /\ owner' = owner \/ \E h \in H : owner' = [owner EXCEPT ![LockOf[c]] = h]
                /\ H # {} => owner'[LockOf[c]] \in H
                /\ Ready' = Ready \cup H
                /\ \A p \in ToSet(tasks') : p \in ToSet(tasks) \/ \E h \in H : p = Wakeup(h)
                /\ \A m \in Lock : Queuing(m)' =
                      IF m = LockOf[c] THEN Queuing(m) \cup (W \ H) ELSE Queuing(m)
<1> DEFINE l == LockOf[c]
           W == condWaiters[c] \cup condWaiters[d]
<1>1. /\ l \in Lock /\ condWaiters \in [Cond -> SUBSET Task] /\ UNCHANGED <<eventSet, eventWaiters>>
      /\ IsInjective(Names(tasks)) /\ \A m \in Lock : IsInjective(lockWaiters[m])
  BY SyncAssumption DEF SyncInv, SyncTypeOK, Apart, NotifyAllNowait
<1>2. PICK r \in SetToSeqs(condWaiters[c]), s \in SetToSeqs(condWaiters[d]) : PassTo(l, r \o s)
  BY DEF NotifyAllNowait
<1>3. condWaiters' = [condWaiters EXCEPT ![c] = {}, ![d] = {}] BY DEF NotifyAllNowait
<1>4. condWaiters[c] \in SUBSET Task /\ condWaiters[d] \in SUBSET Task BY <1>1
<1>5. /\ r \in Seq(Task) /\ ToSet(r) = condWaiters[c] /\ IsInjective(r)
      /\ s \in Seq(Task) /\ ToSet(s) = condWaiters[d] /\ IsInjective(s)
  BY <1>4, SetToSeqsMembers, SeqMonotonic
<1>6. condWaiters[c] \cap condWaiters[d] = {} BY DEF Apart
<1> DEFINE q == r \o s
<1>7. q \in Seq(Task) /\ ToSet(q) = W /\ IsInjective(q)
  BY <1>5, <1>6, ConcatMembers, ConcatProperties
<1>8. PassTo(l, q) BY <1>2
<1>9. W \in SUBSET Task /\ W \cap Ready = {} /\ \A m \in Lock : W \cap Queuing(m) = {}
  BY <1>4 DEF Apart
<1>10. \A e \in Event : W \cap eventWaiters[e] = {} BY DEF Apart
<1> DEFINE H == Given(l, q)
<1> HIDE DEF q, W
<1>11. /\ tasks' \in Seq(Packet) /\ lockWaiters' \in [Lock -> Seq(Task)]
       /\ owner' \in [Lock -> TaskOrNone] /\ NoWaiterOnFreeLock' /\ IsInjective(Names(tasks))'
       /\ H \subseteq W /\ (H = {} => owner[l] # NoTask \/ W = {}) /\ \A x, y \in H : x = y
       /\ owner' = owner \/ \E h \in H : owner' = [owner EXCEPT ![l] = h]
       /\ H # {} => owner[l] = NoTask /\ owner'[l] \in H
       /\ Ready' = Ready \cup H
       /\ \A p \in ToSet(tasks') : p \in ToSet(tasks) \/ \E h \in H : p = Wakeup(h)
       /\ \A m \in Lock : /\ IsInjective(lockWaiters[m])'
                          /\ Queuing(m)' = IF m = l THEN Queuing(m) \cup (W \ H) ELSE Queuing(m)
  <2>1. ToSet(q) \cap Ready = {} /\ ToSet(q) \cap Queuing(l) = {} BY <1>1, <1>7, <1>9
  <2>2. IsInjective(q) /\ q \in Seq(Task) BY <1>7
  <2> HIDE DEF l, H
  <2>3. ToSet(q) = W /\ H = Given(l, q) BY <1>7 DEF H
  <2> QED BY <1>1, <1>8, <2>1, <2>2, <2>3, PassToMoves
<1> HIDE DEF H, l
<1>12. SyncInv' BY <1>1, <1>3, <1>11 DEF SyncInv, SyncTypeOK, NoWaiterOnSetEvent
<1>13. \A f \in Cond : condWaiters'[f] = IF f \in {c, d} THEN {} ELSE condWaiters[f]
  BY <1>1, <1>3
<1>14. \A f \in Cond \ {c, d} : W \cap condWaiters[f] = {} BY DEF Apart, W
<1>15. Apart'
  <2>1. \A m \in Lock : Queuing(m)' \cap Ready' = {} BY SMTT(60), <1>9, <1>11 DEF Apart
  <2>2. \A m \in Lock : \A n \in Lock \ {m} : Queuing(m)' \cap Queuing(n)' = {}
    BY SMTT(60), <1>9, <1>11 DEF Apart
  <2>3. \A f \in Cond : /\ condWaiters'[f] \cap Ready' = {}
                        /\ \A m \in Lock : condWaiters'[f] \cap Queuing(m)' = {}
    BY <1>11, <1>13, <1>14 DEF Apart
  <2>4. \A f \in Cond : /\ \A g \in Cond \ {f} : condWaiters'[f] \cap condWaiters'[g] = {}
                        /\ \A e \in Event : condWaiters'[f] \cap eventWaiters'[e] = {}
    BY <1>1, <1>13 DEF Apart
  <2>5. \A e \in Event : /\ eventWaiters'[e] \cap Ready' = {}
                         /\ \A m \in Lock : eventWaiters'[e] \cap Queuing(m)' = {}
    BY ZenonT(60), <1>1, <1>10, <1>11 DEF Apart
  <2>6. \A e \in Event : \A f \in Event \ {e} : eventWaiters'[e] \cap eventWaiters'[f] = {}
    BY <1>1 DEF Apart
  <2> QED BY <1>11, <2>1, <2>2, <2>3, <2>4, <2>5, <2>6, Zenon DEF Apart
<1>16. \A x \in Task : Nowhere(x)' <=> Nowhere(x)
  <2>1. W = condWaiters[c] \cup condWaiters[d] BY DEF W
  <2> QED BY ZenonT(60), <1>1, <1>11, <1>13, <2>1 DEF Nowhere
<1> QED BY <1>3, <1>11, <1>12, <1>15, <1>16 DEF Keeps, l, W

-----------------------------------------------------------------------------
(* The packets that the handlers of the lock and the conditions append.       *)

\* Whom the run queue is for, as packets.
LEMMA ReadyPackets ==
    ASSUME tasks \in Seq(Packet)
    PROVE  /\ \A p \in ToSet(tasks) : p \in Packet /\ p.task \in Ready
           /\ \A t \in Ready : t \in Task /\ \E p \in ToSet(tasks) : p.task = t
<1>1. /\ DOMAIN tasks = 1..Len(tasks) /\ Len(tasks) \in Nat
      /\ \A i \in 1..Len(tasks) : tasks[i] \in Packet
  BY LenProperties, ElementOfSeq
<1>2. DOMAIN Names(tasks) = 1..Len(tasks) BY DEF Names
<1>3. \A i \in 1..Len(tasks) : Names(tasks)[i] = tasks[i].task BY DEF Names
<1>4. \A p \in ToSet(tasks) : \E i \in 1..Len(tasks) : p = tasks[i] BY <1>1, Zenon DEF ToSet
<1>5. \A i \in 1..Len(tasks) : tasks[i] \in ToSet(tasks) BY <1>1, Zenon DEF ToSet
<1>6. \A p \in ToSet(tasks) : p \in Packet /\ p.task \in Ready
  <2>1. \A i \in 1..Len(tasks) : Names(tasks)[i] \in Ready BY <1>2, Zenon DEF ToSet, Ready
  <2> QED BY <1>1, <1>3, <1>4, <2>1
<1>7. \A t \in Ready : \E i \in 1..Len(tasks) : t = tasks[i].task
  BY <1>2, <1>3, Zenon DEF ToSet, Ready
<1>8. \A p \in Packet : p.task \in Task BY DEF Packet
<1> QED BY <1>1, <1>5, <1>6, <1>7, <1>8

\* Whom the run queue will be for.
LEMMA TailReady ==
    ASSUME tasks' \in Seq(Packet)
    PROVE  \A p \in ToSet(tasks') : p.task \in Ready'
<1>1. DOMAIN tasks' = 1..Len(tasks') BY LenProperties
<1>2. DOMAIN Names(tasks') = 1..Len(tasks') BY DEF Names
<1>3. \A i \in 1..Len(tasks') : Names(tasks')[i] = tasks'[i].task BY DEF Names
<1>4. \A p \in ToSet(tasks') : \E i \in 1..Len(tasks') : p = tasks'[i]
  BY <1>1, Zenon DEF ToSet
<1>5. \A i \in 1..Len(tasks') : Names(tasks')[i] \in Ready'
  BY <1>2, Zenon DEF ToSet, Ready
<1> QED BY <1>3, <1>4, <1>5

\* tasks.append((t, None, None))
LEMMA RequeuePackets ==
    ASSUME tasks \in Seq(Packet), NEW t \in Task, Requeue(t)
    PROVE  \A p \in ToSet(tasks') : p \in ToSet(tasks) \/ p = Wakeup(t)
<1>1. Wakeup(t) \in Packet BY WakeupType
<1> QED BY <1>1, AppendMembers DEF Requeue

\* Who gets the lock, and the packet that tells him.
LEMMA HandOverGrants ==
    ASSUME SyncTypeOK, NEW l \in Lock, NEW queue \in Seq(Packet), HandOver(l, queue)
    PROVE  /\ owner'[l] \in IF FirstOf(l) = {} THEN {NoTask} ELSE FirstOf(l)
           /\ \A p \in ToSet(tasks') : \/ p \in ToSet(tasks) \/ p \in ToSet(queue)
                                       \/ \E h \in FirstOf(l) : p = Wakeup(h)
<1>1. tasks \in Seq(Packet) /\ owner \in [Lock -> TaskOrNone] BY DEF SyncTypeOK
<1>2. CASE lockWaiters[l] = <<>>
  <2>1. ToSet(tasks') = ToSet(tasks) \cup ToSet(queue)
    BY ZenonT(60), <1>1, <1>2, ConcatMembers DEF HandOver
  <2> QED BY <1>1, <1>2, <2>1 DEF HandOver, FirstOf
<1>3. CASE lockWaiters[l] # <<>>
  <2> DEFINE h == Head(lockWaiters[l])
             q == Append(tasks, Wakeup(h))
  <2>1. h \in Task BY <1>3, HeadTailProperties DEF SyncTypeOK
  <2>2. Wakeup(h) \in Packet BY <2>1, WakeupType
  <2>3. owner' = [owner EXCEPT ![l] = h] /\ tasks' = q \o queue BY <1>3 DEF HandOver
  <2>4. FirstOf(l) = {h} BY <1>3 DEF FirstOf
  <2> HIDE DEF h
  <2>5. q \in Seq(Packet) /\ ToSet(q) = ToSet(tasks) \cup {Wakeup(h)}
    BY <1>1, <2>2, AppendMembers, AppendProperties
  <2> HIDE DEF q
  <2>6. ToSet(tasks') = ToSet(q) \cup ToSet(queue) BY <2>3, <2>5, ConcatMembers
  <2> QED BY <1>1, <2>3, <2>4, <2>5, <2>6
<1> QED BY <1>2, <1>3

\* LockReleaseCommand
LEMMA LockReleaseGrants ==
    ASSUME SyncTypeOK, NEW t \in Task, NEW l \in Lock, LockRelease(t, l)
    PROVE  /\ IF owner[l] = t THEN owner'[l] \in IF FirstOf(l) = {} THEN {NoTask} ELSE FirstOf(l)
                              ELSE owner' = owner
           /\ \A p \in ToSet(tasks') : \/ p \in ToSet(tasks) \/ p = Wakeup(t)
                                       \/ owner[l] = t /\ \E h \in FirstOf(l) : p = Wakeup(h)
<1>1. CASE owner[l] # t
  BY <1>1, RequeuePackets DEF LockRelease, SyncTypeOK
<1>2. CASE owner[l] = t
  <2>1. <<Wakeup(t)>> \in Seq(Packet) /\ HandOver(l, <<Wakeup(t)>>)
    BY <1>2, OneName DEF LockRelease
  <2>2. ToSet(<<Wakeup(t)>>) = {Wakeup(t)}
    <3>1. DOMAIN <<Wakeup(t)>> = {1} /\ <<Wakeup(t)>>[1] = Wakeup(t) OBVIOUS
    <3> QED BY <3>1, Zenon DEF ToSet
  <2> QED BY <1>2, <2>1, <2>2, HandOverGrants
<1> QED BY <1>1, <1>2

\* ConditionWaitCommand
LEMMA ConditionWaitGrants ==
    ASSUME SyncTypeOK, NEW t \in Task, NEW c \in Cond, ConditionWait(t, c)
    PROVE  LET l == LockOf[c] IN
           /\ owner[l] = t
           /\ owner'[l] \in IF FirstOf(l) = {} THEN {NoTask} ELSE FirstOf(l)
           /\ \A p \in ToSet(tasks') : p \in ToSet(tasks) \/ \E h \in FirstOf(l) : p = Wakeup(h)
<1>1. LockOf[c] \in Lock BY SyncAssumption
<1>2. <<>> \in Seq(Packet) /\ ToSet(<<>>) = {} BY OneName
<1>3. HandOver(LockOf[c], <<>>) /\ owner[LockOf[c]] = t BY DEF ConditionWait, OwnsLockOf
<1> QED BY <1>1, <1>2, <1>3, HandOverGrants

-----------------------------------------------------------------------------
(* Cancellation.                                                              *)

\* The cancelled task leaves every place, and gets a packet.
LEMMA RemoveMoves ==
    ASSUME SyncInv, Apart, NEW p \in Packet, RemoveFromSync(p.task), p.task \notin Ready,
           tasks' = Append(tasks, p)
    PROVE  /\ SyncInv' /\ Apart' /\ Ready' = Ready \cup {p.task}
           /\ \A l \in Lock : Queuing(l)' = Queuing(l) \ {p.task}
           /\ \A e \in Event : eventWaiters'[e] = eventWaiters[e] \ {p.task}
           /\ \A c \in Cond : condWaiters'[c] = condWaiters[c] \ {p.task}
<1> DEFINE t == p.task
<1>1. /\ eventWaiters \in [Event -> SUBSET Task] /\ lockWaiters \in [Lock -> Seq(Task)]
      /\ condWaiters \in [Cond -> SUBSET Task] /\ tasks \in Seq(Packet)
      /\ IsInjective(Names(tasks)) /\ \A l \in Lock : IsInjective(lockWaiters[l])
      /\ t \in Task
  BY DEF SyncInv, SyncTypeOK, Apart, Packet
<1>2. tasks' \in Seq(Packet) /\ Ready' = Ready \cup {t} /\ IsInjective(Names(tasks))'
  BY <1>1, AppendProperties, ReadyAppend
<1> HIDE DEF t
<1>3. RemoveFromSync(t) BY DEF t
<1>4. SyncInv' BY <1>1, <1>2, <1>3, RemoveFromSyncInv
<1>5. \A e \in Event : eventWaiters'[e] = eventWaiters[e] \ {t}
  <2> DEFINE S == {e \in Event : t \in eventWaiters[e]}
  <2>1. CASE S = {}
    <3>1. eventWaiters' = eventWaiters BY <1>3, <2>1 DEF RemoveFromSync, DropFromOne
    <3> QED BY <2>1, <3>1
  <2>2. CASE S # {}
    <3>1. PICK s \in S : eventWaiters' = [eventWaiters EXCEPT ![s] = @ \ {t}]
      BY <1>3, <2>2 DEF RemoveFromSync, DropFromOne
    <3>2. \A e \in Event \ {s} : t \notin eventWaiters[e] BY DEF Apart
    <3> QED BY <1>1, <3>1, <3>2
  <2> QED BY <2>1, <2>2
<1>6. \A c \in Cond : condWaiters'[c] = condWaiters[c] \ {t}
  <2> DEFINE S == {c \in Cond : t \in condWaiters[c]}
  <2>1. CASE S = {}
    <3>1. condWaiters' = condWaiters BY <1>3, <2>1 DEF RemoveFromSync, DropFromOne
    <3> QED BY <2>1, <3>1
  <2>2. CASE S # {}
    <3>1. PICK s \in S : condWaiters' = [condWaiters EXCEPT ![s] = @ \ {t}]
      BY <1>3, <2>2 DEF RemoveFromSync, DropFromOne
    <3>2. \A c \in Cond \ {s} : t \notin condWaiters[c] BY DEF Apart
    <3> QED BY <1>1, <3>1, <3>2
  <2> QED BY <2>1, <2>2
<1>7. \A l \in Lock : Queuing(l)' = Queuing(l) \ {t} /\ IsInjective(lockWaiters[l])'
  <2> DEFINE S == {l \in Lock : t \in ToSet(lockWaiters[l])}
  <2>1. CASE S = {}
    <3>1. lockWaiters' = lockWaiters BY <1>3, <2>1 DEF RemoveFromSync, DropFromOne
    <3> QED BY <1>1, <2>1, <3>1 DEF Queuing
  <2>2. CASE S # {}
    <3>1. PICK s \in S : lockWaiters' = [lockWaiters EXCEPT ![s] = RemoveFirst(@, t)]
      BY <1>3, <2>2 DEF RemoveFromSync, DropFromOne
    <3>2. \A l \in Lock \ {s} : t \notin Queuing(l) BY DEF Apart, Queuing
    <3>3. \A l \in Lock : lockWaiters'[l] = IF l = s THEN RemoveFirst(lockWaiters[l], t)
                                                     ELSE lockWaiters[l]
      BY <1>1, <3>1
    <3>4. /\ ToSet(RemoveFirst(lockWaiters[s], t)) = ToSet(lockWaiters[s]) \ {t}
          /\ IsInjective(RemoveFirst(lockWaiters[s], t))
      BY <1>1, RemoveFirstMembers
    <3>5. \A l \in Lock : /\ Queuing(l)' = IF l = s THEN Queuing(l) \ {t} ELSE Queuing(l)
                          /\ IsInjective(lockWaiters[l])'
      BY <1>1, <3>3, <3>4, Zenon DEF Queuing
    <3> QED BY <3>2, <3>5
  <2> QED BY <2>1, <2>2
<1>8. Apart' BY <1>2, <1>5, <1>6, <1>7 DEF Apart
<1> QED BY <1>2, <1>4, <1>5, <1>6, <1>7, <1>8 DEF t

-----------------------------------------------------------------------------
(* Steps that change the run queue only, or nothing.                          *)

\* The loop pops the packet at the head: its task is nowhere then.
LEMMA PopMoves ==
    ASSUME SyncInv, Apart, tasks # <<>>, tasks' = Tail(tasks), UNCHANGED syncVars
    PROVE  /\ SyncInv' /\ Apart'
           /\ Head(tasks) \in Packet /\ Head(tasks).task \in Task /\ Head(tasks).task \in Ready
           /\ Ready' = Ready \ {Head(tasks).task}
           /\ \A l \in Lock : Queuing(l)' = Queuing(l)
           /\ \A x \in Task : Nowhere(x)' <=> (Nowhere(x) \/ x = Head(tasks).task)
<1>1. tasks \in Seq(Packet) /\ IsInjective(Names(tasks)) BY DEF SyncInv, SyncTypeOK, Apart
<1>2. Head(tasks) \in Packet /\ Tail(tasks) \in Seq(Packet) BY <1>1, HeadTailProperties
<1>3. Head(tasks).task \in Task BY <1>2 DEF Packet
<1>4. SyncInv' BY <1>2, QueueInv
<1>5. /\ Head(tasks).task \in Ready /\ Ready' = Ready \ {Head(tasks).task}
      /\ IsInjective(Names(tasks))'
  BY <1>1, ReadyPop
<1>6. \A l \in Lock : Queuing(l)' = Queuing(l) BY DEF Queuing, syncVars
<1>7. Apart' BY <1>5, <1>6 DEF Apart, syncVars
<1>8. \A x \in Task : Nowhere(x)' <=> (Nowhere(x) \/ x = Head(tasks).task)
  BY <1>5, <1>6 DEF Nowhere, Apart, syncVars
<1> QED BY <1>2, <1>3, <1>4, <1>5, <1>6, <1>7, <1>8

\* Nothing moves.
LEMMA NothingMoves ==
    ASSUME SyncInv, Apart, UNCHANGED <<tasks, syncVars>>
    PROVE  /\ SyncInv' /\ Keeps /\ Ready' = Ready
           /\ \A l \in Lock : Queuing(l)' = Queuing(l)
<1>1. SyncInv' BY QueueInv DEF SyncInv, SyncTypeOK
<1>2. Ready' = Ready /\ \A l \in Lock : Queuing(l)' = Queuing(l)
  BY DEF Ready, Queuing, syncVars
<1>3. Apart' BY <1>2 DEF Apart, syncVars
<1>4. \A x \in Task : Nowhere(x)' <=> Nowhere(x) BY <1>2 DEF Nowhere, syncVars
<1> QED BY <1>1, <1>2, <1>3, <1>4 DEF Keeps

\* In the beginning nobody is anywhere.
LEMMA InitPlaces ==
    ASSUME tasks = <<>>, eventWaiters = [e \in Event |-> {}],
           lockWaiters = [l \in Lock |-> <<>>], condWaiters = [c \in Cond |-> {}]
    PROVE  /\ Apart /\ Ready = {} /\ \A l \in Lock : Queuing(l) = {}
           /\ \A x \in Task : Nowhere(x)
<1>1. Ready = {} /\ IsInjective(Names(tasks)) BY OneName DEF Ready
<1>2. \A l \in Lock : Queuing(l) = {} /\ IsInjective(lockWaiters[l]) BY OneName DEF Queuing
<1> QED BY <1>1, <1>2 DEF Apart, Nowhere

=============================================================================
