-------------------------- MODULE EventLoopProofs ---------------------------
(***************************************************************************)
(* What EventLoop keeps for any number of tasks, sockets and primitives.   *)
(* First with any mix of commands and cancellations of any task at any     *)
(* moment.  Then where the tasks are, and who has the locks, when only     *)
(* tasks that sleep or wait for a socket, an event, a lock or a condition  *)
(* are cancelled: every suspended task is in exactly one place from which  *)
(* the loop will resume it.  Last, that the loop implements Futures when   *)
(* exit() is not called either: Return and Raise settle a task, join() and *)
(* cancel() ask for its outcome, resuming a task takes its answer, and     *)
(* every other step of the loop is invisible.                              *)
(***************************************************************************)
EXTENDS EventLoopFutures, SyncPrimitivesProofs

\* The typing of the variables that are not the primitives'.
LoopTypeOK ==
    /\ loop \in {"running", "exiting", "stopped", "raised"}
    /\ running \in TaskOrNone
    /\ at \in [Task -> Place]
    /\ inside \in [Task -> Lock \cup {NoLock}]
    /\ lockless \subseteq Task
    /\ caught \in [Task -> SUBSET Exc]
    /\ sleeping \in [Task -> Nat]
    /\ network \in [Socket -> TaskOrNone]
    /\ watching \in [Task -> Seq(Task)]
    /\ cancelWaiters \in [Task -> SUBSET Task]
    /\ pending \subseteq Task
    /\ finished \subseteq Task
    /\ exceptions \in [Task -> Exc \cup {NoExc}]
    /\ cancelled \subseteq Task

TypeInv == SyncInv /\ LoopTypeOK

-----------------------------------------------------------------------------
(* Packets that the loop itself makes.                                        *)

\* The answer to a watcher, with the outcome or, to a canceller, without.
LEMMA AnswersType ==
    ASSUME LoopTypeOK, NEW t \in Task,
           NEW o \in [kind : {"result"} \cup ExcKind, of : Task]
    PROVE  Answers(t, o) \in Seq(Packet)
<1>1. watching[t] \in Seq(Task) BY DEF LoopTypeOK
<1>2. \A w \in Task : Answer(t, w, o) \in Packet
  <2> TAKE w \in Task
  <2>1. [task |-> w, kind |-> o.kind, of |-> o.of] \in Packet
    BY DEF Packet
  <2> QED BY <2>1, WakeupType DEF Answer
<1>3. Len(watching[t]) \in Nat /\ \A i \in 1..Len(watching[t]) : watching[t][i] \in Task
  BY <1>1, LenProperties, ElementOfSeq
<1>4. Answers(t, o) \in [1..Len(watching[t]) -> Packet]
  BY <1>2, <1>3 DEF Answers
<1> QED BY <1>3, <1>4, SeqDef

\* A task that joins or cancels a task that is over gets a packet with its outcome.
LEMMA OutcomePacketType ==
    ASSUME LoopTypeOK, NEW t \in Task, NEW x \in Task, Done(x)
    PROVE  OutcomePacket(t, x) \in Packet
<1>1. CASE x \in finished
  BY <1>1 DEF OutcomePacket, Packet
<1>2. CASE x \notin finished
  <2>1. exceptions[x] \in Exc BY <1>2 DEF Done, LoopTypeOK
  <2> QED BY <1>2, <2>1 DEF OutcomePacket, Packet, Exc
<1> QED BY <1>1, <1>2

\* The injected exception.
LEMMA InjectedType == \A x \in Task : Injected(x) \in Packet
BY DEF Injected, Packet, TaskOrNone, ExcKind

-----------------------------------------------------------------------------
(* The parts of actions that several actions share.                           *)

\* A coroutine ends: what Close leaves is well typed.
LEMMA CloseType ==
    ASSUME TypeInv, NEW t \in Task, NEW queue \in Seq(Packet),
           NEW o \in [kind : {"result"} \cup ExcKind, of : Task],
           Close(t, queue, o)
    PROVE  /\ SyncInv'
           /\ at' \in [Task -> Place] /\ running' \in TaskOrNone
           /\ watching' \in [Task -> Seq(Task)]
           /\ cancelWaiters' \in [Task -> SUBSET Task] /\ pending' \subseteq Task
           /\ loop' \in {"running", "exiting", "stopped", "raised"}
           /\ UNCHANGED <<inside, lockless, caught, parkVars>>
<1>1. queue \o Answers(t, o) \in Seq(Packet)
  BY AnswersType, ConcatProperties DEF TypeInv
<1>2. tasks' \in Seq(Packet) BY <1>1 DEF Close
<1>3. SyncInv' BY <1>2, QueueInv DEF TypeInv, Close
<1>4. watching' \in [Task -> Seq(Task)]
  <2>1. <<>> \in Seq(Task) OBVIOUS
  <2> QED BY <2>1 DEF TypeInv, LoopTypeOK, Close, Forget
<1> QED BY <1>3, <1>4 DEF TypeInv, LoopTypeOK, Close, Forget, TaskOrNone, Place

\* The coroutine raised.
LEMMA FailType ==
    ASSUME TypeInv, NEW t \in Task, NEW queue \in Seq(Packet), NEW e \in Exc,
           Fail(t, queue, e)
    PROVE  TypeInv'
<1>1. e \in [kind : {"result"} \cup ExcKind, of : Task] BY DEF Exc
<1>2. Close(t, queue, e) BY DEF Fail
<1>3. /\ exceptions' \in [Task -> Exc \cup {NoExc}]
      /\ cancelled' \subseteq Task /\ finished' \subseteq Task
  BY DEF TypeInv, LoopTypeOK, Fail
<1> QED BY <1>1, <1>2, <1>3, CloseType DEF TypeInv, LoopTypeOK, parkVars

\* A cancellation takes the task out of what it waits for and queues the exception.
LEMMA CancelType ==
    ASSUME TypeInv, NEW x \in Task, Cancel(x)
    PROVE  /\ SyncInv'
           /\ pending' \subseteq Task /\ sleeping' \in [Task -> Nat]
           /\ network' \in [Socket -> TaskOrNone]
<1>1. tasks' \in Seq(Packet)
  BY InjectedType, AppendProperties DEF Cancel, TypeInv, SyncInv, SyncTypeOK
<1>2. SyncInv' BY <1>1, RemoveFromSyncInv DEF Cancel, TypeInv
<1>3. network' \in [Socket -> TaskOrNone]
  <2> DEFINE S == {s \in Socket : network[s] = x}
  <2>1. CASE S = {}
    BY <2>1 DEF Cancel, DropFromOne, TypeInv, LoopTypeOK
  <2>2. CASE S # {}
    <3>1. PICK s \in S : network' = [network EXCEPT ![s] = NoTask]
      BY <2>2 DEF Cancel, DropFromOne
    <3> QED BY <3>1 DEF TypeInv, LoopTypeOK, TaskOrNone
  <2> QED BY <2>1, <2>2
<1> QED BY <1>2, <1>3 DEF Cancel, TypeInv, LoopTypeOK

\* A canceller is added to both tables.
LEMMA WatchType ==
    ASSUME TypeInv, NEW t \in Task, NEW x \in Task, Watch(t, x)
    PROVE  watching' \in [Task -> Seq(Task)] /\ cancelWaiters' \in [Task -> SUBSET Task]
<1>1. Append(watching[x], t) \in Seq(Task) BY AppendProperties DEF TypeInv, LoopTypeOK
<1> QED BY <1>1 DEF Watch, TypeInv, LoopTypeOK

\* A yield.
LEMMA YieldType ==
    ASSUME TypeInv, NEW t \in Task, NEW place \in Place, Yield(t, place)
    PROVE  /\ at' \in [Task -> Place] /\ running' \in TaskOrNone
           /\ UNCHANGED <<lockless, caught>>
BY DEF Yield, TypeInv, LoopTypeOK, TaskOrNone

-----------------------------------------------------------------------------
(* The typing of the whole loop.                                              *)

\* Taking the packet at the head leaves a queue of packets.
LEMMA HeadAndTail ==
    ASSUME TypeInv, tasks # <<>>
    PROVE  Head(tasks) \in Packet /\ Tail(tasks) \in Seq(Packet)
BY HeadTailProperties DEF TypeInv, SyncInv, SyncTypeOK

\* The exception of a packet, as the loop stores it.
LEMMA PacketExc ==
    ASSUME NEW p \in Packet, p.kind \in ExcKind
    PROVE  [kind |-> p.kind, of |-> p.of] \in Exc
BY DEF Packet, Exc, ExcKind

\* The loop body: what is ready is queued, and the head of the queue is run.
LEMMA LoopBodyType ==
    ASSUME TypeInv,
           \/ Dispatch \/ Stop
           \/ \E t \in Task : SleeperDue(t)
           \/ \E s \in Socket : SocketReady(s)
    PROVE  TypeInv'
<1>1. ASSUME NEW s \in Socket, SocketReady(s) PROVE TypeInv'
  <2>1. network[s] \in Task BY <1>1 DEF SocketReady, TypeInv, LoopTypeOK, TaskOrNone
  <2>2. tasks' \in Seq(Packet)
    BY <1>1, <2>1, AppendWakeup DEF SocketReady, TypeInv, SyncInv, SyncTypeOK
  <2>3. SyncInv' BY <1>1, <2>2, QueueInv DEF SocketReady, TypeInv
  <2> QED BY <1>1, <2>3 DEF SocketReady, TypeInv, LoopTypeOK, TaskOrNone, progVars,
                            joinVars, outcomeVars
<1>2. ASSUME NEW t \in Task, SleeperDue(t) PROVE TypeInv'
  <2>1. tasks' \in Seq(Packet)
    BY <1>2, AppendWakeup DEF SleeperDue, TypeInv, SyncInv, SyncTypeOK
  <2>2. SyncInv' BY <1>2, <2>1, QueueInv DEF SleeperDue, TypeInv
  <2>3. sleeping' \in [Task -> Nat] BY <1>2 DEF SleeperDue, TypeInv, LoopTypeOK
  <2> QED BY <1>2, <2>2, <2>3 DEF SleeperDue, TypeInv, LoopTypeOK, progVars, joinVars,
                                  outcomeVars
<1>3. ASSUME Stop PROVE TypeInv'
  <2>1. SyncInv' BY <1>3, QueueInv DEF Stop, TypeInv, SyncInv, SyncTypeOK
  <2> QED BY <1>3, <2>1 DEF Stop, TypeInv, LoopTypeOK, progVars, parkVars, joinVars,
                            outcomeVars
<1>4. ASSUME Dispatch PROVE TypeInv'
  <2> DEFINE p == Head(tasks)
  <2>1. p \in Packet /\ Tail(tasks) \in Seq(Packet) /\ p.task \in Task
    BY <1>4, HeadAndTail DEF Dispatch, Packet
  <2> HIDE DEF p
  <2>2. ASSUME Resume(p) PROVE TypeInv'
    <3>1. SyncInv' BY <2>1, <2>2, QueueInv DEF Resume, TypeInv
    <3>2. /\ at' \in [Task -> Place] /\ inside' \in [Task -> Lock \cup {NoLock}]
          /\ lockless' \subseteq Task
      BY <2>1, <2>2 DEF Resume, TypeInv, LoopTypeOK, Place
    <3>3. caught' \in [Task -> SUBSET Exc]
      BY <2>1, <2>2, PacketExc DEF Resume, TypeInv, LoopTypeOK
    <3>4. running' \in TaskOrNone BY <2>1, <2>2 DEF Resume, TaskOrNone
    <3> QED BY <2>2, <3>1, <3>2, <3>3, <3>4
            DEF Resume, TypeInv, LoopTypeOK, parkVars, joinVars, outcomeVars
  <2>3. ASSUME FailUnstarted(p) PROVE TypeInv'
    <3>1. [kind |-> p.kind, of |-> p.of] \in Exc
      BY <2>1, <2>3, PacketExc DEF FailUnstarted
    <3> QED BY <2>1, <2>3, <3>1, FailType DEF FailUnstarted
  <2>4. ASSUME FailClosed(p) PROVE TypeInv'
    <3>1. [kind |-> "error", of |-> p.task] \in Exc BY <2>1 DEF Exc, ExcKind
    <3> QED BY <2>1, <2>4, <3>1, FailType DEF FailClosed
  <2> QED BY <1>4, <2>2, <2>3, <2>4 DEF Dispatch, p
<1> QED BY <1>1, <1>2, <1>3, <1>4

\* A coroutine that returns or raises, in its own turn.
LEMMA EndType ==
    ASSUME TypeInv, NEW t \in Task, Return(t) \/ Raise(t)
    PROVE  TypeInv'
<1>1. tasks \in Seq(Packet) BY DEF TypeInv, SyncInv, SyncTypeOK
<1>2. ASSUME Return(t) PROVE TypeInv'
  <2>1. [kind |-> "result", of |-> t] \in [kind : {"result"} \cup ExcKind, of : Task]
    OBVIOUS
  <2>2. Finish(t, tasks) BY <1>2 DEF Return
  <2>3. Close(t, tasks, [kind |-> "result", of |-> t]) BY <2>2 DEF Finish
  <2>4. finished' \subseteq Task BY <2>2 DEF Finish, TypeInv, LoopTypeOK
  <2> QED BY <1>1, <2>1, <2>2, <2>3, <2>4, CloseType
          DEF Finish, TypeInv, LoopTypeOK, parkVars
<1>3. ASSUME Raise(t) PROVE TypeInv'
  <2>1. [kind |-> "error", of |-> t] \in Exc /\ caught[t] \subseteq Exc
    BY DEF Exc, ExcKind, TypeInv, LoopTypeOK
  <2>2. PICK e \in Exc : Fail(t, tasks, e) BY <1>3, <2>1 DEF Raise
  <2> QED BY <1>1, <2>2, FailType
<1> QED BY <1>2, <1>3

\* spawn() and create_task(): the new task is queued before its parent.
LEMMA StartType ==
    ASSUME TypeInv, NEW x \in Task,
           CreateTask(x) \/ \E t \in Task : SpawnCommand(t, x)
    PROVE  TypeInv'
<1>1. tasks \in Seq(Packet) BY DEF TypeInv, SyncInv, SyncTypeOK
<1>2. ASSUME CreateTask(x) PROVE TypeInv'
  <2>1. tasks' \in Seq(Packet) BY <1>1, <1>2, AppendWakeup DEF CreateTask
  <2>2. SyncInv' BY <1>2, <2>1, QueueInv DEF CreateTask, TypeInv
  <2> QED BY <1>2, <2>2 DEF CreateTask, TypeInv, LoopTypeOK, Place, parkVars, joinVars,
                            outcomeVars
<1>3. ASSUME NEW t \in Task, SpawnCommand(t, x) PROVE TypeInv'
  <2>1. [task |-> t, kind |-> "handle", of |-> x] \in Packet BY DEF Packet
  <2>2. <<Wakeup(x), [task |-> t, kind |-> "handle", of |-> x]>> \in Seq(Packet)
    BY <2>1, WakeupType
  <2>3. tasks' \in Seq(Packet) BY <1>1, <1>3, <2>2, ConcatProperties DEF SpawnCommand
  <2>4. SyncInv' BY <1>3, <2>3, QueueInv DEF SpawnCommand, TypeInv
  <2> QED BY <1>3, <2>4 DEF SpawnCommand, TypeInv, LoopTypeOK, Place, TaskOrNone,
                            parkVars, joinVars, outcomeVars
<1> QED BY <1>2, <1>3

\* The commands of task handles.
LEMMA HandleType ==
    ASSUME TypeInv, NEW t \in Task, NEW x \in Task,
           JoinCommand(t, x) \/ CancelNoAwait(t, x) \/ AwaitCancel(t, x)
    PROVE  TypeInv'
<1>1. tasks \in Seq(Packet) /\ "yield" \in Place
  BY DEF TypeInv, SyncInv, SyncTypeOK, Place
<1>2. Done(x) => Append(tasks, OutcomePacket(t, x)) \in Seq(Packet)
  BY <1>1, OutcomePacketType, AppendProperties DEF TypeInv
<1>3. ASSUME JoinCommand(t, x) PROVE TypeInv'
  <2>1. Append(watching[x], t) \in Seq(Task)
    BY AppendProperties DEF TypeInv, LoopTypeOK
  <2>2. watching' \in [Task -> Seq(Task)] /\ tasks' \in Seq(Packet)
    BY <1>1, <1>2, <1>3, <2>1 DEF JoinCommand, TypeInv, LoopTypeOK
  <2>3. SyncInv' BY <1>3, <2>2, QueueInv DEF JoinCommand, TypeInv
  <2>4. at' \in [Task -> Place] /\ running' \in TaskOrNone /\ UNCHANGED <<lockless, caught>>
    BY <1>1, <1>3, YieldType DEF JoinCommand
  <2> QED BY <1>3, <2>2, <2>3, <2>4
          DEF JoinCommand, TypeInv, LoopTypeOK, parkVars, outcomeVars
<1>4. ASSUME CancelNoAwait(t, x) PROVE TypeInv'
  <2>1. Cancel(x) BY <1>4 DEF CancelNoAwait
  <2> QED BY <1>4, <2>1, CancelType
          DEF CancelNoAwait, TypeInv, LoopTypeOK, progVars, outcomeVars
<1>5. ASSUME AwaitCancel(t, x) PROVE TypeInv'
  <2>1. at' \in [Task -> Place] /\ running' \in TaskOrNone /\ UNCHANGED <<lockless, caught>>
    BY <1>1, <1>5, YieldType DEF AwaitCancel
  <2>2. /\ SyncInv'
        /\ watching' \in [Task -> Seq(Task)] /\ cancelWaiters' \in [Task -> SUBSET Task]
        /\ pending' \subseteq Task /\ sleeping' \in [Task -> Nat]
        /\ network' \in [Socket -> TaskOrNone]
    <3>1. CASE /\ Done(x)
               /\ tasks' = Append(tasks, OutcomePacket(t, x))
               /\ UNCHANGED <<syncVars, parkVars, joinVars>>
      <4>1. SyncInv' BY <1>2, <3>1, QueueInv DEF TypeInv
      <4> QED BY <3>1, <4>1 DEF TypeInv, LoopTypeOK, parkVars, joinVars
    <3>2. CASE /\ ~Done(x) /\ x \in pending
               /\ Watch(t, x)
               /\ UNCHANGED <<tasks, syncVars, parkVars, pending>>
      <4>1. SyncInv' BY <1>1, <3>2, QueueInv DEF TypeInv
      <4> QED BY <3>2, <4>1, WatchType DEF TypeInv, LoopTypeOK, parkVars
    <3>3. CASE Cancel(x) /\ Watch(t, x)
      BY <3>3, CancelType, WatchType
    <3> QED BY <1>5, <3>1, <3>2, <3>3 DEF AwaitCancel
  <2> QED BY <1>5, <2>1, <2>2 DEF AwaitCancel, TypeInv, LoopTypeOK, outcomeVars
<1> QED BY <1>3, <1>4, <1>5

\* sleep(), the socket operations and exit().
LEMMA ParkType ==
    ASSUME TypeInv, NEW t \in Task,
           SleepCommand(t) \/ ExitCommand(t) \/ \E s \in Socket : SocketCommand(t, s)
    PROVE  TypeInv'
<1>1. tasks \in Seq(Packet) /\ "yield" \in Place
  BY DEF TypeInv, SyncInv, SyncTypeOK, Place
<1>2. ASSUME SleepCommand(t) PROVE TypeInv'
  <2>1. tasks' \in Seq(Packet) BY <1>1, <1>2, AppendWakeup DEF SleepCommand, Requeue
  <2>2. SyncInv' BY <1>2, <2>1, QueueInv DEF SleepCommand, TypeInv
  <2>3. at' \in [Task -> Place] /\ running' \in TaskOrNone /\ UNCHANGED <<lockless, caught>>
    BY <1>1, <1>2, YieldType DEF SleepCommand
  <2>4. sleeping' \in [Task -> Nat] /\ loop' \in {"running", "exiting", "stopped", "raised"}
    <3>1. sleeping \in [Task -> Nat] /\ sleeping[t] + 1 \in Nat
      BY DEF TypeInv, LoopTypeOK
    <3> QED BY <1>2, <3>1 DEF SleepCommand, TypeInv, LoopTypeOK
  <2> QED BY <1>2, <2>2, <2>3, <2>4
          DEF SleepCommand, TypeInv, LoopTypeOK, joinVars, outcomeVars
<1>3. ASSUME ExitCommand(t) PROVE TypeInv'
  <2>1. SyncInv' BY <1>1, <1>3, QueueInv DEF ExitCommand, TypeInv
  <2>2. at' \in [Task -> Place] /\ running' \in TaskOrNone /\ UNCHANGED <<lockless, caught>>
    BY <1>1, <1>3, YieldType DEF ExitCommand
  <2> QED BY <1>3, <2>1, <2>2 DEF ExitCommand, TypeInv, LoopTypeOK, parkVars, joinVars
<1>4. ASSUME NEW s \in Socket, SocketCommand(t, s) PROVE TypeInv'
  <2>1. SyncInv' BY <1>1, <1>4, QueueInv DEF SocketCommand, TypeInv
  <2>2. at' \in [Task -> Place] /\ running' \in TaskOrNone /\ UNCHANGED <<lockless, caught>>
    BY <1>1, <1>4, YieldType DEF SocketCommand
  <2>3. /\ network' \in [Socket -> TaskOrNone]
        /\ loop' \in {"running", "exiting", "stopped", "raised"}
    BY <1>4 DEF SocketCommand, TypeInv, LoopTypeOK, TaskOrNone
  <2> QED BY <1>4, <2>1, <2>2, <2>3
          DEF SocketCommand, TypeInv, LoopTypeOK, joinVars, outcomeVars
<1> QED BY <1>2, <1>3, <1>4

\* The commands of the primitives.
LEMMA SyncCommandType ==
    ASSUME TypeInv, NEW t \in Task,
           \/ \E e \in Event : EventWaitCommand(t, e) \/ EventSetCommand(t, e)
           \/ \E l \in Lock : LockAcquireCommand(t, l) \/ LockReleaseCommand(t, l)
           \/ \E c \in Cond : ConditionWaitCommand(t, c) \/ ConditionNotifyCommand(t, c)
    PROVE  TypeInv'
<1>1. tasks \in Seq(Packet) /\ {"yield", "acquire", "wait", "release"} \subseteq Place
  BY DEF TypeInv, SyncInv, SyncTypeOK, Place
<1>2. ASSUME NEW e \in Event, EventWaitCommand(t, e) \/ EventSetCommand(t, e)
      PROVE TypeInv'
  <2>1. SyncInv'
    BY <1>2, EventWaitInv, EventSetInv DEF EventWaitCommand, EventSetCommand, TypeInv
  <2>2. at' \in [Task -> Place] /\ running' \in TaskOrNone /\ UNCHANGED <<lockless, caught>>
    BY <1>1, <1>2, YieldType DEF EventWaitCommand, EventSetCommand
  <2> QED BY <1>2, <2>1, <2>2
          DEF EventWaitCommand, EventSetCommand, NotSync, TypeInv, LoopTypeOK, parkVars,
              joinVars, outcomeVars
<1>3. ASSUME NEW l \in Lock, LockAcquireCommand(t, l) PROVE TypeInv'
  <2>1. SyncInv' BY <1>3, LockAcquireInv DEF LockAcquireCommand, TypeInv
  <2>2. at' \in [Task -> Place] /\ running' \in TaskOrNone /\ UNCHANGED <<lockless, caught>>
    BY <1>1, <1>3, YieldType DEF LockAcquireCommand
  <2>3. inside' \in [Task -> Lock \cup {NoLock}]
    BY <1>3 DEF LockAcquireCommand, TypeInv, LoopTypeOK
  <2> QED BY <1>3, <2>1, <2>2, <2>3
          DEF LockAcquireCommand, NotSync, TypeInv, LoopTypeOK, parkVars, joinVars,
              outcomeVars
<1>4. ASSUME NEW l \in Lock, LockReleaseCommand(t, l) PROVE TypeInv'
  <2>1. SyncInv' BY <1>4, LockReleaseInv DEF LockReleaseCommand, TypeInv
  <2>2. at' \in [Task -> Place] /\ running' \in TaskOrNone /\ UNCHANGED <<lockless, caught>>
    BY <1>1, <1>4, YieldType DEF LockReleaseCommand
  <2> QED BY <1>4, <2>1, <2>2
          DEF LockReleaseCommand, NotSync, TypeInv, LoopTypeOK, parkVars, joinVars,
              outcomeVars
<1>5. ASSUME NEW c \in Cond, ConditionWaitCommand(t, c) PROVE TypeInv'
  <2>1. SyncInv'
    <3>1. CASE ConditionWait(t, c) BY <3>1, ConditionWaitInv DEF TypeInv
    <3>2. CASE UNCHANGED <<tasks, syncVars>> BY <1>1, <3>2, QueueInv DEF TypeInv
    <3> QED BY <1>5, <3>1, <3>2 DEF ConditionWaitCommand, AssertOwner
  <2>2. at' \in [Task -> Place] /\ running' \in TaskOrNone /\ UNCHANGED <<lockless, caught>>
    BY <1>1, <1>5, YieldType DEF ConditionWaitCommand
  <2>3. loop' \in {"running", "exiting", "stopped", "raised"}
    BY <1>5 DEF ConditionWaitCommand, AssertOwner, TypeInv, LoopTypeOK
  <2> QED BY <1>5, <2>1, <2>2, <2>3
          DEF ConditionWaitCommand, NotSync, TypeInv, LoopTypeOK, parkVars, joinVars,
              outcomeVars
<1>6. ASSUME NEW c \in Cond, ConditionNotifyCommand(t, c) PROVE TypeInv'
  <2>1. PICK all \in BOOLEAN : AssertOwner(t, c, ConditionNotify(t, c, all))
    BY <1>6 DEF ConditionNotifyCommand
  <2>2. SyncInv'
    <3>1. CASE ConditionNotify(t, c, all) BY <3>1, ConditionNotifyInv DEF TypeInv
    <3>2. CASE UNCHANGED <<tasks, syncVars>> BY <1>1, <3>2, QueueInv DEF TypeInv
    <3> QED BY <2>1, <3>1, <3>2 DEF AssertOwner
  <2>3. at' \in [Task -> Place] /\ running' \in TaskOrNone /\ UNCHANGED <<lockless, caught>>
    BY <1>1, <1>6, YieldType DEF ConditionNotifyCommand
  <2>4. loop' \in {"running", "exiting", "stopped", "raised"}
    BY <2>1 DEF AssertOwner, TypeInv, LoopTypeOK
  <2> QED BY <1>6, <2>2, <2>3, <2>4
          DEF ConditionNotifyCommand, NotSync, TypeInv, LoopTypeOK, parkVars, joinVars,
              outcomeVars
<1> QED BY <1>2, <1>3, <1>4, <1>5, <1>6

\* The loop starts well typed.
LEMMA InitType == Init => TypeInv
<1>1. Wakeup(Root) \in Packet BY LoopAssumption, WakeupType
<1>2. Init => SyncTypeOK
  BY <1>1 DEF Init, SyncInit, SyncTypeOK, TaskOrNone
<1>3. Init => NoWaiterOnFreeLock /\ NoWaiterOnSetEvent
  BY DEF Init, SyncInit, NoWaiterOnFreeLock, NoWaiterOnSetEvent
<1>4. Init => LoopTypeOK
  BY DEF Init, LoopTypeOK, TaskOrNone, Place
<1> QED BY <1>2, <1>3, <1>4 DEF TypeInv, SyncInv

\* Every step keeps the typing.
LEMMA NextType == TypeInv /\ [Next]_vars => TypeInv'
<1> SUFFICES ASSUME TypeInv, [Next]_vars PROVE TypeInv' OBVIOUS
<1>1. CASE Next
  <2>1. CASE \/ Dispatch \/ Stop
             \/ \E t \in Task : SleeperDue(t)
             \/ \E s \in Socket : SocketReady(s)
    BY <2>1, LoopBodyType
  <2>2. ASSUME NEW t \in Task, Turn(t) PROVE TypeInv'
    <3>1. CASE Return(t) \/ Raise(t) BY <3>1, EndType
    <3>2. CASE \E x \in Task : SpawnCommand(t, x) BY <3>2, StartType
    <3>3. CASE \E x \in Task : JoinCommand(t, x) \/ CancelNoAwait(t, x) \/ AwaitCancel(t, x)
      BY <3>3, HandleType
    <3>4. CASE SleepCommand(t) \/ ExitCommand(t) \/ \E s \in Socket : SocketCommand(t, s)
      BY <3>4, ParkType
    <3>5. CASE \/ \E e \in Event : EventWaitCommand(t, e) \/ EventSetCommand(t, e)
               \/ \E l \in Lock : LockAcquireCommand(t, l) \/ LockReleaseCommand(t, l)
               \/ \E c \in Cond : ConditionWaitCommand(t, c) \/ ConditionNotifyCommand(t, c)
      BY <3>5, SyncCommandType
    <3> QED BY <2>2, <3>1, <3>2, <3>3, <3>4, <3>5 DEF Turn
  <2>3. CASE \E x \in Task : CreateTask(x) BY <2>3, StartType
  <2> QED BY <1>1, <2>1, <2>2, <2>3 DEF Next, LoopStep
<1>2. CASE UNCHANGED vars
  <2>1. SyncInv'
    BY <1>2, QueueInv DEF vars, TypeInv, SyncInv, SyncTypeOK
  <2> QED BY <1>2, <2>1 DEF vars, TypeInv, LoopTypeOK, progVars, parkVars, joinVars,
                            outcomeVars
<1> QED BY <1>1, <1>2

\* Every handler keeps every variable of the loop well typed: the run queue holds
\* packets of tasks only, the selector's map and the wait queues hold tasks only.
THEOREM TypeCorrect == Spec => []TypeOK
<1>1. TypeInv => TypeOK BY DEF TypeInv, SyncInv, LoopTypeOK, TypeOK
<1> QED BY <1>1, InitType, NextType, PTL DEF Spec

\* Nobody ever queues for a free lock (EventLoop._handle_command, the lock and condition
\* commands, and _remove_task_from_wait_states), whoever is cancelled and when.
THEOREM FreeLockHasNoQueue == Spec => []NoWaiterOnFreeLock
<1>1. TypeInv => NoWaiterOnFreeLock BY DEF TypeInv, SyncInv
<1> QED BY <1>1, InitType, NextType, PTL DEF Spec

\* Nobody ever waits for an event that is set (EventWaitCommand, EventSetCommand).
THEOREM SetEventHasNoWaiter == Spec => []NoWaiterOnSetEvent
<1>1. TypeInv => NoWaiterOnSetEvent BY DEF TypeInv, SyncInv
<1> QED BY <1>1, InitType, NextType, PTL DEF Spec

-----------------------------------------------------------------------------
(* The order in which a lock changes hands.                                   *)

\* The next owner, in a step that changes the owner of a lock somebody queues for, is
\* the head of its queue: the lock was not free, so only HandOver can have changed it.
LEMMA FifoStep ==
    ASSUME TypeInv, [Next]_vars, NEW l \in Lock, owner[l] # owner'[l],
           lockWaiters[l] # <<>>
    PROVE  owner'[l] = Head(lockWaiters[l])
<1> DEFINE Goal == owner'[l] = Head(lockWaiters[l])
<1>1. owner[l] # NoTask BY DEF TypeInv, SyncInv, NoWaiterOnFreeLock
<1>2. owner \in [Lock -> TaskOrNone] BY DEF TypeInv, SyncInv, SyncTypeOK
<1>3. ASSUME NEW m \in Lock, NEW queue, HandOver(m, queue) PROVE Goal
  BY <1>2, <1>3 DEF HandOver
<1>4. ASSUME NEW t \in Task, NEW m \in Lock, LockAcquireCommand(t, m) PROVE Goal
  BY <1>1, <1>2, <1>4 DEF LockAcquireCommand, LockAcquire
<1>5. ASSUME NEW t \in Task, NEW m \in Lock, LockReleaseCommand(t, m) PROVE Goal
  BY <1>3, <1>5 DEF LockReleaseCommand, LockRelease
<1>6. ASSUME NEW t \in Task, NEW c \in Cond, ConditionWaitCommand(t, c) PROVE Goal
  <2>1. LockOf[c] \in Lock BY SyncAssumption
  <2> QED BY <1>3, <1>6, <2>1
          DEF ConditionWaitCommand, AssertOwner, ConditionWait, syncVars
<1>7. UNCHANGED owner => Goal OBVIOUS
<1>8. ASSUME NEW t \in Task, NEW c \in Cond, ConditionNotifyCommand(t, c)
      PROVE UNCHANGED owner
  BY <1>8 DEF ConditionNotifyCommand, AssertOwner, ConditionNotify, syncVars
<1>9. ASSUME NEW t \in Task, NEW e \in Event,
             EventWaitCommand(t, e) \/ EventSetCommand(t, e)
      PROVE UNCHANGED owner
  BY <1>9 DEF EventWaitCommand, EventSetCommand, EventWait, EventSet
<1>10. ASSUME NEW t \in Task, NEW x \in Task,
              \/ SpawnCommand(t, x) \/ CreateTask(x) \/ JoinCommand(t, x)
              \/ CancelNoAwait(t, x) \/ AwaitCancel(t, x)
       PROVE UNCHANGED owner
  BY <1>10 DEF SpawnCommand, CreateTask, JoinCommand, CancelNoAwait, AwaitCancel, Cancel,
               RemoveFromSync, syncVars
<1>11. ASSUME NEW t \in Task,
              \/ Return(t) \/ Raise(t) \/ SleepCommand(t) \/ ExitCommand(t)
              \/ SleeperDue(t) \/ \E s \in Socket : SocketCommand(t, s)
       PROVE UNCHANGED owner
  BY <1>11 DEF Return, Raise, Finish, Fail, Close, SleepCommand, ExitCommand, SleeperDue,
               SocketCommand, syncVars
<1>12. ASSUME Dispatch \/ Stop \/ \E s \in Socket : SocketReady(s)
       PROVE UNCHANGED owner
  BY <1>12 DEF Dispatch, Resume, FailUnstarted, FailClosed, Fail, Close, Stop,
               SocketReady, syncVars
<1>13. UNCHANGED vars => UNCHANGED owner BY DEF vars, syncVars
<1> QED BY <1>4, <1>5, <1>6, <1>7, <1>8, <1>9, <1>10, <1>11, <1>12, <1>13
        DEF Next, LoopStep, Turn

\* Locks are handed over in FIFO order (LockReleaseCommand and ConditionWaitCommand take
\* the head of lock_waiters, LockAcquireCommand never overtakes the queue).
THEOREM LocksAreFifo == Spec => FifoHandOver
<1>1. TypeInv /\ [Next]_vars =>
          [\A l \in Lock :
             owner[l] # owner'[l] /\ lockWaiters[l] # <<>> => owner'[l] = Head(lockWaiters[l])]_vars
  BY FifoStep
<1> QED BY <1>1, InitType, NextType, PTL DEF Spec, FifoHandOver

-----------------------------------------------------------------------------
(* The join and cancel bookkeeping.                                           *)

\* The loop never closes a coroutine without recording its outcome; this is what makes
\* NothingLeftBehind inductive, because the commands that add to the bookkeeping ask for
\* the outcome, not for the coroutine.
ClosedIsDone == \A x \in Task : at[x] = "closed" => Done(x)

JoinInv == TypeInv /\ ClosedIsDone /\ NothingLeftBehind /\ CancellersWatch

\* A step that ends no coroutine and leaves the bookkeeping alone.
LEMMA QuietStep ==
    ASSUME JoinInv, TypeInv', UNCHANGED <<joinVars, outcomeVars>>,
           \A x \in Task : at'[x] = "closed" => at[x] = "closed"
    PROVE  JoinInv'
BY DEF JoinInv, ClosedIsDone, NothingLeftBehind, CancellersWatch, Done, joinVars,
       outcomeVars

\* When a coroutine ends its outcome is recorded and its bookkeeping is gone.
LEMMA CloseJoin ==
    ASSUME JoinInv, TypeInv', NEW t \in Task, NEW queue, NEW o, Close(t, queue, o),
           finished \subseteq finished',
           \A x \in Task \ {t} : exceptions'[x] = exceptions[x],
           Done(t)'
    PROVE  JoinInv'
<1>1. /\ at' = [at EXCEPT ![t] = "closed"] /\ at \in [Task -> Place]
      /\ watching' = [watching EXCEPT ![t] = <<>>] /\ watching \in [Task -> Seq(Task)]
      /\ cancelWaiters' = [cancelWaiters EXCEPT ![t] = {}]
      /\ cancelWaiters \in [Task -> SUBSET Task]
      /\ pending' = pending \ {t}
  BY DEF Close, Forget, JoinInv, TypeInv, LoopTypeOK
<1>2. ClosedIsDone' BY <1>1 DEF JoinInv, ClosedIsDone, Done
<1>3. NothingLeftBehind' BY <1>1 DEF JoinInv, NothingLeftBehind
<1>4. CancellersWatch' BY <1>1 DEF JoinInv, CancellersWatch
<1> QED BY <1>2, <1>3, <1>4 DEF JoinInv

\* A coroutine that raised has its outcome in `exceptions'.
LEMMA FailJoin ==
    ASSUME JoinInv, TypeInv', NEW t \in Task, NEW queue, NEW e \in Exc, Fail(t, queue, e)
    PROVE  JoinInv'
<1>1. e # NoExc BY DEF Exc, NoExc, ExcKind
<1>2. exceptions' = [exceptions EXCEPT ![t] = e] /\ exceptions \in [Task -> Exc \cup {NoExc}]
  BY DEF Fail, JoinInv, TypeInv, LoopTypeOK
<1>3. Done(t)' BY <1>1, <1>2 DEF Done
<1> QED BY <1>2, <1>3, CloseJoin DEF Fail

\* await handle.cancel() of a task that is not over: nothing is left behind for a closed
\* task, because a closed task is over.
LEMMA WatchJoin ==
    ASSUME JoinInv, TypeInv', NEW t \in Task, NEW x \in Task, ~Done(x), Watch(t, x),
           pending' \subseteq pending \cup {x}, UNCHANGED outcomeVars,
           \A y \in Task : at'[y] = "closed" => at[y] = "closed"
    PROVE  JoinInv'
<1>1. /\ watching' = [watching EXCEPT ![x] = Append(@, t)]
      /\ cancelWaiters' = [cancelWaiters EXCEPT ![x] = @ \cup {t}]
      /\ watching \in [Task -> Seq(Task)] /\ cancelWaiters \in [Task -> SUBSET Task]
  BY DEF Watch, JoinInv, TypeInv, LoopTypeOK
<1>2. at[x] # "closed" BY DEF JoinInv, ClosedIsDone
<1>3. ToSet(Append(watching[x], t)) = ToSet(watching[x]) \cup {t}
  BY <1>1, AppendMembers
<1>4. CancellersWatch' BY <1>1, <1>3 DEF JoinInv, CancellersWatch
<1>5. NothingLeftBehind' BY <1>1, <1>2 DEF JoinInv, NothingLeftBehind
<1> QED BY <1>4, <1>5 DEF JoinInv, ClosedIsDone, Done, outcomeVars

\* join() and cancel() add to the bookkeeping of tasks that are not over.
LEMMA HandleJoin ==
    ASSUME JoinInv, TypeInv', NEW t \in Task, NEW x \in Task,
           JoinCommand(t, x) \/ CancelNoAwait(t, x) \/ AwaitCancel(t, x)
    PROVE  JoinInv'
<1>1. at \in [Task -> Place] /\ watching \in [Task -> Seq(Task)]
  BY DEF JoinInv, TypeInv, LoopTypeOK
<1>2. ~Done(x) => at[x] # "closed" BY DEF JoinInv, ClosedIsDone
<1>3. ASSUME JoinCommand(t, x) PROVE JoinInv'
  <2>1. \A y \in Task : at'[y] = "closed" => at[y] = "closed"
    BY <1>1, <1>3 DEF JoinCommand, Yield
  <2>2. CASE Done(x) BY <1>3, <2>1, <2>2, QuietStep DEF JoinCommand, joinVars
  <2>3. CASE ~Done(x)
    <3>1. watching' = [watching EXCEPT ![x] = Append(@, t)]
          /\ UNCHANGED <<cancelWaiters, pending, outcomeVars>>
      BY <1>3, <2>3 DEF JoinCommand
    <3>2. ToSet(Append(watching[x], t)) = ToSet(watching[x]) \cup {t}
      BY <1>1, AppendMembers
    <3>3. CancellersWatch' BY <1>1, <3>1, <3>2 DEF JoinInv, CancellersWatch
    <3>4. NothingLeftBehind'
      BY <1>1, <1>2, <2>1, <2>3, <3>1 DEF JoinInv, NothingLeftBehind
    <3> QED BY <2>1, <3>1, <3>3, <3>4 DEF JoinInv, ClosedIsDone, Done, outcomeVars
  <2> QED BY <2>2, <2>3
<1>4. ASSUME CancelNoAwait(t, x) PROVE JoinInv'
  <2>1. /\ ~Done(x) /\ pending' = pending \cup {x}
        /\ UNCHANGED <<at, watching, cancelWaiters, outcomeVars>>
    BY <1>4 DEF CancelNoAwait, Cancel, progVars
  <2> QED BY <1>2, <2>1 DEF JoinInv, ClosedIsDone, NothingLeftBehind, CancellersWatch,
                            Done, outcomeVars
<1>5. ASSUME AwaitCancel(t, x) PROVE JoinInv'
  <2>1. \A y \in Task : at'[y] = "closed" => at[y] = "closed"
    BY <1>1, <1>5 DEF AwaitCancel, Yield
  <2>2. UNCHANGED outcomeVars BY <1>5 DEF AwaitCancel
  <2>3. CASE UNCHANGED joinVars BY <2>1, <2>2, <2>3, QuietStep
  <2>4. CASE ~Done(x) /\ Watch(t, x) /\ pending' \subseteq pending \cup {x}
    BY <2>1, <2>2, <2>4, WatchJoin
  <2> QED BY <1>5, <2>3, <2>4 DEF AwaitCancel, Cancel
<1> QED BY <1>3, <1>4, <1>5

\* Every step keeps JoinInv.
LEMMA NextJoin == JoinInv /\ [Next]_vars => JoinInv'
<1> SUFFICES ASSUME JoinInv, [Next]_vars PROVE JoinInv' OBVIOUS
<1>1. TypeInv' BY NextType DEF JoinInv
<1>2. at \in [Task -> Place] /\ tasks \in Seq(Packet)
  BY DEF JoinInv, TypeInv, LoopTypeOK, SyncInv, SyncTypeOK
<1>3. ASSUME NEW t \in Task, Return(t) \/ Raise(t) PROVE JoinInv'
  <2>1. CASE Return(t)
    <3>1. t \in finished' /\ finished \subseteq finished' /\ UNCHANGED exceptions
      BY <2>1 DEF Return, Finish
    <3> QED BY <1>1, <2>1, <3>1, CloseJoin DEF Return, Finish, Done
  <2>2. CASE Raise(t)
    <3>1. [kind |-> "error", of |-> t] \in Exc /\ caught[t] \subseteq Exc
      BY DEF Exc, ExcKind, JoinInv, TypeInv, LoopTypeOK
    <3>2. PICK e \in Exc : Fail(t, tasks, e) BY <2>2, <3>1 DEF Raise
    <3> QED BY <1>1, <3>2, FailJoin
  <2> QED BY <1>3, <2>1, <2>2
<1>4. ASSUME Dispatch PROVE JoinInv'
  <2> DEFINE p == Head(tasks)
  <2>1. p \in Packet /\ p.task \in Task
    BY <1>4, HeadAndTail DEF Dispatch, Packet, JoinInv
  <2> HIDE DEF p
  <2>2. ASSUME Resume(p) PROVE JoinInv'
    <3>1. \A x \in Task : at'[x] = "closed" => at[x] = "closed"
      BY <1>2, <2>1, <2>2 DEF Resume
    <3> QED BY <1>1, <2>2, <3>1, QuietStep DEF Resume
  <2>3. ASSUME FailUnstarted(p) PROVE JoinInv'
    <3>1. [kind |-> p.kind, of |-> p.of] \in Exc
      BY <2>1, <2>3, PacketExc DEF FailUnstarted
    <3> QED BY <1>1, <2>1, <2>3, <3>1, FailJoin DEF FailUnstarted
  <2>4. ASSUME FailClosed(p) PROVE JoinInv'
    <3>1. [kind |-> "error", of |-> p.task] \in Exc BY <2>1 DEF Exc, ExcKind
    <3> QED BY <1>1, <2>1, <2>4, <3>1, FailJoin DEF FailClosed
  <2> QED BY <1>4, <2>2, <2>3, <2>4 DEF Dispatch, p
<1>5. ASSUME NEW t \in Task, NEW x \in Task,
             JoinCommand(t, x) \/ CancelNoAwait(t, x) \/ AwaitCancel(t, x)
      PROVE JoinInv'
  BY <1>1, <1>5, HandleJoin
<1>6. ASSUME NEW t \in Task, ExitCommand(t) PROVE JoinInv'
  <2>1. \A x \in Task : at'[x] = "closed" => at[x] = "closed"
    BY <1>2, <1>6 DEF ExitCommand, Yield
  <2>2. finished \subseteq finished' /\ UNCHANGED <<exceptions, joinVars>>
    BY <1>6 DEF ExitCommand
  <2> QED BY <1>1, <2>1, <2>2 DEF JoinInv, ClosedIsDone, NothingLeftBehind,
                                  CancellersWatch, Done, joinVars
<1>7. ASSUME NEW t \in Task, NEW x \in Task, SpawnCommand(t, x) \/ CreateTask(x)
      PROVE JoinInv'
  <2>1. \A y \in Task : at'[y] = "closed" => at[y] = "closed"
    BY <1>2, <1>7 DEF SpawnCommand, CreateTask
  <2> QED BY <1>1, <1>7, <2>1, QuietStep DEF SpawnCommand, CreateTask
<1>8. ASSUME NEW t \in Task, SleepCommand(t) \/ \E s \in Socket : SocketCommand(t, s)
      PROVE JoinInv'
  <2>1. \A y \in Task : at'[y] = "closed" => at[y] = "closed"
    BY <1>2, <1>8 DEF SleepCommand, SocketCommand, Yield
  <2> QED BY <1>1, <1>8, <2>1, QuietStep DEF SleepCommand, SocketCommand
<1>9. ASSUME NEW t \in Task,
             \/ \E e \in Event : EventWaitCommand(t, e) \/ EventSetCommand(t, e)
             \/ \E l \in Lock : LockAcquireCommand(t, l) \/ LockReleaseCommand(t, l)
             \/ \E c \in Cond : ConditionWaitCommand(t, c) \/ ConditionNotifyCommand(t, c)
      PROVE JoinInv'
  <2>1. \A y \in Task : at'[y] = "closed" => at[y] = "closed"
    BY <1>2, <1>9 DEF EventWaitCommand, EventSetCommand, LockAcquireCommand,
                      LockReleaseCommand, ConditionWaitCommand, ConditionNotifyCommand, Yield
  <2>2. UNCHANGED <<joinVars, outcomeVars>>
    BY <1>9 DEF EventWaitCommand, EventSetCommand, LockAcquireCommand,
                LockReleaseCommand, ConditionWaitCommand, ConditionNotifyCommand, NotSync
  <2> QED BY <1>1, <2>1, <2>2, QuietStep
<1>10. ASSUME \/ Stop \/ \E t \in Task : SleeperDue(t)
              \/ \E s \in Socket : SocketReady(s)
       PROVE JoinInv'
  <2>1. UNCHANGED <<at, joinVars, outcomeVars>>
    BY <1>10 DEF Stop, SleeperDue, SocketReady, progVars
  <2> QED BY <1>1, <2>1, QuietStep
<1>11. CASE UNCHANGED vars
  BY <1>1, <1>11, QuietStep DEF vars, progVars
<1> QED BY <1>3, <1>4, <1>5, <1>6, <1>7, <1>8, <1>9, <1>10, <1>11
        DEF Next, LoopStep, Turn

\* The loop starts with no bookkeeping.
LEMMA InitJoin == Init => JoinInv
<1>1. Init => ClosedIsDone BY DEF Init, ClosedIsDone
<1>2. Init => NothingLeftBehind BY DEF Init, NothingLeftBehind
<1>3. Init => CancellersWatch BY DEF Init, CancellersWatch
<1> QED BY <1>1, <1>2, <1>3, InitType DEF JoinInv

\* Once a task is over nobody waits for it any more, however it ended and whoever joined
\* or cancelled it (the two except branches of _run_event_loop_core and
\* _clear_cancellation_tracking).
THEOREM JoinersAreAnswered == Spec => []NothingLeftBehind
<1>1. JoinInv => NothingLeftBehind BY DEF JoinInv
<1> QED BY <1>1, InitJoin, NextJoin, PTL DEF Spec

\* Whoever is registered in cancel_waiters is registered in watching_task too, so that the
\* loop that walks watching_task reaches every task suspended in cancel().
THEOREM CancellersAreWatchers == Spec => []CancellersWatch
<1>1. JoinInv => CancellersWatch BY DEF JoinInv
<1> QED BY <1>1, InitJoin, NextJoin, PTL DEF Spec

-----------------------------------------------------------------------------
(* Places and owners, when only parked tasks are cancelled.                   *)

\* Who waits for the end of x, in join() or in cancel().
Joining(x) == ToSet(watching[x])

\* The task waits for something that is not a primitive.
Waits(t) ==
    \/ sleeping[t] > 0
    \/ \E s \in Socket : network[s] = t
    \/ \E x \in Task : t \in Joining(x)

\* No task waits for two of these, or twice for one.
WaitsApart ==
    /\ \A t \in Task : /\ sleeping[t] \in {0, 1}
                       /\ sleeping[t] = 1 => /\ \A s \in Socket : network[s] # t
                                             /\ \A x \in Task : t \notin Joining(x)
    /\ \A s \in Socket : /\ \A r \in Socket \ {s} : network[s] \in Task => network[r] # network[s]
                         /\ \A x \in Task : network[s] \notin Joining(x)
    /\ \A x \in Task : /\ IsInjective(watching[x])
                       /\ \A y \in Task \ {x} : Joining(x) \cap Joining(y) = {}

\* Exactly the tasks that are suspended are somewhere.
Placed ==
    \A t \in Task :
        /\ Waits(t) => Nowhere(t)
        /\ Nowhere(t) /\ ~Waits(t) <=> at[t] \in {"absent", "closed"} \/ running = t

\* The await in which a task is suspended tells where it can be, and its lock.
Homes ==
    \A t \in Task :
        /\ at[t] = "run" <=> running = t
        /\ \A l \in Lock : t \in Queuing(l) => at[t] \in {"acquire", "wait"} /\ inside[t] = l
        /\ \A c \in Cond : t \in condWaiters[c] => at[t] = "wait" /\ inside[t] = LockOf[c]
        /\ \A e \in Event : t \in eventWaiters[e] => at[t] = "yield"
        /\ Waits(t) => at[t] = "yield"
        /\ at[t] \in {"absent", "start", "closed"} => inside[t] = NoLock
        /\ at[t] = "wait" => inside[t] # NoLock
        /\ t \in lockless => inside[t] # NoLock /\ at[t] \in {"run", "yield", "release"}

\* A wake-up out of acquire() or Condition.wait() comes with the lock, a cancellation
\* without it; outcomes and handles are for tasks that asked for them.
Letters ==
    \A p \in ToSet(tasks) :
        /\ at[p.task] \in {"acquire", "wait"} => p.kind \in {"none", "cancelled"}
        /\ at[p.task] \notin {"acquire", "wait", "yield"} => p.kind = "none"
        /\ at[p.task] \in {"acquire", "wait"} =>
              \A l \in Lock : IF p.kind = "none" THEN inside[p.task] = l => owner[l] = p.task
                                                 ELSE owner[l] # p.task

\* Who is in the body of a block has its lock, but for those who lost it in wait(), and who
\* has a lock is in its block, or is about to be resumed there.
Owners ==
    \A t \in Task, l \in Lock :
        /\ InSection(t, l) => (owner[l] = t <=> t \notin lockless)
        /\ owner[l] = t => /\ inside[t] = l /\ at[t] \in {"run", "yield", "acquire", "wait"}
                           /\ at[t] \in {"acquire", "wait"} => t \in Ready

Live == Apart /\ WaitsApart /\ Placed /\ Homes /\ Letters /\ Owners

LoopInv ==
    /\ TypeInv
    /\ loop = "running" => Live
    /\ InsideOwns /\ OwnerWillRelease

-----------------------------------------------------------------------------
(* What the steps use of the invariant.                                       *)

\* The types, and that the packets are those of the tasks in the run queue.
LEMMA LiveTypes ==
    ASSUME TypeInv
    PROVE  /\ SyncInv /\ SyncTypeOK /\ tasks \in Seq(Packet)
           /\ NoTask \notin Task /\ NoLock \notin Lock
           /\ at \in [Task -> Place] /\ inside \in [Task -> Lock \cup {NoLock}]
           /\ owner \in [Lock -> TaskOrNone] /\ running \in TaskOrNone
           /\ sleeping \in [Task -> Nat] /\ network \in [Socket -> TaskOrNone]
           /\ watching \in [Task -> Seq(Task)]
           /\ eventWaiters \in [Event -> SUBSET Task] /\ condWaiters \in [Cond -> SUBSET Task]
           /\ \A p \in ToSet(tasks) : p \in Packet /\ p.task \in Ready /\ p.task \in Task
           /\ \A t \in Ready : t \in Task /\ \E p \in ToSet(tasks) : p.task = t
           /\ \A l \in Lock : Queuing(l) \subseteq Task
           /\ \A x \in Task : Joining(x) \subseteq Task
           /\ \A c \in Cond : LockOf[c] \in Lock
<1>1. /\ SyncInv /\ SyncTypeOK /\ tasks \in Seq(Packet) /\ LoopTypeOK
      /\ lockWaiters \in [Lock -> Seq(Task)]
  BY DEF TypeInv, SyncInv, SyncTypeOK
<1>2. /\ \A p \in ToSet(tasks) : p \in Packet /\ p.task \in Ready
      /\ \A t \in Ready : t \in Task /\ \E p \in ToSet(tasks) : p.task = t
  BY <1>1, ReadyPackets
<1>3. \A l \in Lock : Queuing(l) \subseteq Task BY <1>1, QueueMembers DEF Queuing
<1>4. \A x \in Task : Joining(x) \subseteq Task
  BY <1>1, QueueMembers DEF Joining, LoopTypeOK
<1>5. \A c \in Cond : LockOf[c] \in Lock BY SyncAssumption
<1> QED BY <1>1, <1>2, <1>3, <1>4, <1>5, SyncAssumption, LoopAssumption
        DEF LoopTypeOK, SyncTypeOK

\* The running task is in no place.
LEMMA RunnerIsNowhere ==
    ASSUME TypeInv, Live, NEW t \in Task, running = t
    PROVE  /\ Nowhere(t) /\ ~Waits(t) /\ at[t] = "run"
           /\ t \notin Ready /\ (\A l \in Lock : t \notin Queuing(l))
           /\ (\A e \in Event : t \notin eventWaiters[e])
           /\ (\A c \in Cond : t \notin condWaiters[c])
           /\ sleeping[t] = 0 /\ (\A s \in Socket : network[s] # t)
           /\ (\A x \in Task : t \notin Joining(x))
           /\ \A p \in ToSet(tasks) : p.task # t
<1>1. Nowhere(t) /\ ~Waits(t) /\ at[t] = "run" BY DEF Live, Placed, Homes
<1>2. sleeping[t] \in {0, 1} BY DEF Live, WaitsApart
<1> QED BY <1>1, <1>2, LiveTypes DEF Nowhere, Waits

\* A packet for a task that was nowhere.
LEMMA PacketParks ==
    ASSUME SyncTypeOK, Apart, NEW p \in Packet, Nowhere(p.task), tasks' = Append(tasks, p),
           UNCHANGED syncVars
    PROVE  /\ Apart' /\ \A x \in Task : Nowhere(x)' <=> (Nowhere(x) /\ x # p.task)
           /\ Ready' = Ready \cup {p.task}
           /\ \A q \in ToSet(tasks') : q \in ToSet(tasks) \/ q = p
           /\ \A l \in Lock : Queuing(l)' = Queuing(l)
<1>1. Ready' = Ready \cup {p.task} /\ IsInjective(Names(tasks))'
  BY ReadyAppend DEF SyncTypeOK, Apart, Nowhere
<1>2. \A l \in Lock : Queuing(l)' = Queuing(l) BY DEF Queuing, syncVars
<1>3. Apart' BY <1>1, <1>2 DEF Apart, Nowhere, syncVars
<1>4. \A x \in Task : Nowhere(x)' <=> (Nowhere(x) /\ x # p.task)
  BY <1>1, <1>2 DEF Nowhere, syncVars
<1>5. \A q \in ToSet(tasks') : q \in ToSet(tasks) \/ q = p
  BY AppendMembers DEF SyncTypeOK
<1> QED BY <1>1, <1>2, <1>3, <1>4, <1>5

\* Packets for tasks that were nowhere.
LEMMA PacketsPark ==
    ASSUME SyncTypeOK, Apart, NEW q \in Seq(Packet), IsInjective(Names(q)),
           \A x \in ToSet(Names(q)) : Nowhere(x), tasks' = tasks \o q, UNCHANGED syncVars
    PROVE  /\ Apart' /\ \A x \in Task : Nowhere(x)' <=> (Nowhere(x) /\ x \notin ToSet(Names(q)))
           /\ Ready' = Ready \cup ToSet(Names(q))
           /\ \A p \in ToSet(tasks') : p \in ToSet(tasks) \/ p \in ToSet(q)
           /\ \A l \in Lock : Queuing(l)' = Queuing(l)
<1>0. ToSet(Names(q)) \cap Ready = {} BY DEF Nowhere
<1>1. Ready' = Ready \cup ToSet(Names(q)) /\ IsInjective(Names(tasks))'
  BY <1>0, ReadyConcat DEF SyncTypeOK, Apart
<1>2. \A l \in Lock : Queuing(l)' = Queuing(l) BY DEF Queuing, syncVars
<1>3. Apart' BY <1>1, <1>2 DEF Apart, Nowhere, syncVars
<1>4. \A x \in Task : Nowhere(x)' <=> (Nowhere(x) /\ x \notin ToSet(Names(q)))
  BY <1>1, <1>2 DEF Nowhere, syncVars
<1>5. \A p \in ToSet(tasks') : p \in ToSet(tasks) \/ p \in ToSet(q)
  BY ConcatMembers DEF SyncTypeOK
<1> QED BY <1>1, <1>2, <1>3, <1>4, <1>5

\* Joiners are where they were when watching_task is not touched.
LEMMA SameWaits ==
    ASSUME UNCHANGED <<sleeping, network, watching>>
    PROVE  /\ WaitsApart <=> WaitsApart'
           /\ \A x \in Task : Waits(x)' <=> Waits(x)
           /\ \A x \in Task : Joining(x)' = Joining(x)
BY DEF WaitsApart, Waits, Joining

-----------------------------------------------------------------------------
(* The turns that end in a packet, or in a wait.                              *)

\* The packet with which a task is answered at once: it continues.
LEMMA AnswerHolds ==
    ASSUME TypeInv, Live, NEW t \in Task, running = t, NEW p \in Packet, p.task = t,
           tasks' = Append(tasks, p), at' = [at EXCEPT ![t] = "yield"], running' = NoTask,
           at[t] = "run",
           UNCHANGED <<syncVars, inside, lockless, sleeping, network, watching>>
    PROVE  Live'
<1>1. /\ Apart' /\ (\A x \in Task : Nowhere(x)' <=> (Nowhere(x) /\ x # t))
      /\ Ready' = Ready \cup {t}
      /\ \A q \in ToSet(tasks') : q \in ToSet(tasks) \/ q = p
      /\ \A l \in Lock : Queuing(l)' = Queuing(l)
  BY PacketParks, RunnerIsNowhere, LiveTypes DEF Live
<1>2. WaitsApart' /\ \A x \in Task : Waits(x)' <=> Waits(x) BY SameWaits DEF Live
<1>3. Placed' BY <1>1, <1>2, RunnerIsNowhere, LiveTypes DEF Live, Placed
<1>4. Homes' BY <1>1, <1>2, RunnerIsNowhere, LiveTypes DEF Live, Homes, syncVars
<1>5. Letters' BY <1>1, RunnerIsNowhere, LiveTypes DEF Live, Letters, syncVars
<1>6. Owners' BY <1>1, RunnerIsNowhere, LiveTypes DEF Live, Owners, InSection, syncVars
<1> QED BY <1>1, <1>2, <1>3, <1>4, <1>5, <1>6 DEF Live

\* A task sleeps, waits for a socket or for the end of a task.
LEMMA WaitHolds ==
    ASSUME TypeInv, Live, NEW t \in Task, running = t, at[t] = "run",
           at' = [at EXCEPT ![t] = "yield"], running' = NoTask,
           UNCHANGED <<tasks, syncVars, inside, lockless>>,
           WaitsApart', \A x \in Task : Waits(x)' <=> (Waits(x) \/ x = t)
    PROVE  Live'
<1>1. /\ Apart' /\ (\A x \in Task : Nowhere(x)' <=> Nowhere(x))
      /\ Ready' = Ready /\ \A l \in Lock : Queuing(l)' = Queuing(l)
  BY NothingMoves, LiveTypes DEF Live, Keeps
<1>2. Placed' BY <1>1, RunnerIsNowhere, LiveTypes DEF Live, Placed
<1>3. Homes' BY <1>1, RunnerIsNowhere, LiveTypes DEF Live, Homes, syncVars
<1>4. Letters' BY <1>1, RunnerIsNowhere, LiveTypes DEF Live, Letters, syncVars
<1>5. Owners' BY <1>1, RunnerIsNowhere, LiveTypes DEF Live, Owners, InSection, syncVars
<1> QED BY <1>1, <1>2, <1>3, <1>4, <1>5 DEF Live

\* A waiter is due: it gets a packet.
LEMMA WakeHolds ==
    ASSUME TypeInv, Live, NEW t \in Task, Waits(t), tasks' = Append(tasks, Wakeup(t)),
           UNCHANGED <<syncVars, running, at, inside, lockless>>,
           WaitsApart', \A x \in Task : Waits(x)' <=> (Waits(x) /\ x # t)
    PROVE  Live'
<1>1. Nowhere(t) /\ at[t] = "yield" /\ running # t BY DEF Live, Placed, Homes
<1>2. Wakeup(t) \in Packet /\ Wakeup(t).task = t /\ Wakeup(t).kind = "none"
  BY WakeupType DEF Wakeup
<1>3. /\ Apart' /\ (\A x \in Task : Nowhere(x)' <=> (Nowhere(x) /\ x # t))
      /\ Ready' = Ready \cup {t}
      /\ \A q \in ToSet(tasks') : q \in ToSet(tasks) \/ q = Wakeup(t)
      /\ \A l \in Lock : Queuing(l)' = Queuing(l)
  BY <1>1, <1>2, PacketParks, LiveTypes DEF Live
<1>4. Placed' BY <1>1, <1>3, LiveTypes DEF Live, Placed
<1>5. Homes' BY <1>1, <1>3, LiveTypes DEF Live, Homes, syncVars
<1>6. Letters' BY <1>1, <1>2, <1>3, LiveTypes DEF Live, Letters, syncVars
<1>7. Owners' BY <1>1, <1>3, LiveTypes DEF Live, Owners, InSection, syncVars
<1> QED BY <1>3, <1>4, <1>5, <1>6, <1>7 DEF Live

\* A new entry of the heap, and one that is taken off it.
LEMMA SleepMoves ==
    ASSUME TypeInv, Live, NEW t \in Task, UNCHANGED <<network, watching>>
    PROVE  /\ running = t /\ sleeping' = [sleeping EXCEPT ![t] = @ + 1] =>
                WaitsApart' /\ \A x \in Task : Waits(x)' <=> (Waits(x) \/ x = t)
           /\ sleeping[t] > 0 /\ sleeping' = [sleeping EXCEPT ![t] = @ - 1] =>
                WaitsApart' /\ \A x \in Task : Waits(x)' <=> (Waits(x) /\ x # t)
<1>1. \A x \in Task : Joining(x)' = Joining(x) BY DEF Joining
<1>2. \A x \in Task : sleeping[x] \in {0, 1} BY DEF Live, WaitsApart
<1>3. ASSUME running = t, sleeping' = [sleeping EXCEPT ![t] = @ + 1]
      PROVE  WaitsApart' /\ \A x \in Task : Waits(x)' <=> (Waits(x) \/ x = t)
  <2>1. sleeping'[t] = 1 /\ \A x \in Task \ {t} : sleeping'[x] = sleeping[x]
    BY <1>3, RunnerIsNowhere, LiveTypes
  <2>2. WaitsApart' BY <1>1, <1>3, <2>1, RunnerIsNowhere DEF Live, WaitsApart
  <2>3. \A x \in Task : Waits(x)' <=> (Waits(x) \/ x = t)
    BY <1>1, <2>1 DEF Waits
  <2> QED BY <2>2, <2>3
<1>4. ASSUME sleeping[t] > 0, sleeping' = [sleeping EXCEPT ![t] = @ - 1]
      PROVE  WaitsApart' /\ \A x \in Task : Waits(x)' <=> (Waits(x) /\ x # t)
  <2>1. sleeping[t] = 1 /\ sleeping'[t] = 0 /\ \A x \in Task \ {t} : sleeping'[x] = sleeping[x]
    BY <1>2, <1>4, LiveTypes
  <2>2. WaitsApart' BY <1>1, <2>1 DEF Live, WaitsApart
  <2>3. \A x \in Task : Waits(x)' <=> (Waits(x) /\ x # t)
    BY <1>1, <2>1 DEF Waits, Live, WaitsApart
  <2> QED BY <2>2, <2>3
<1> QED BY <1>3, <1>4

\* A socket is registered, and one that is ready is forgotten.
LEMMA SocketMoves ==
    ASSUME TypeInv, Live, NEW t \in Task, NEW s \in Socket, UNCHANGED <<sleeping, watching>>
    PROVE  /\ running = t /\ network[s] = NoTask /\ network' = [network EXCEPT ![s] = t] =>
                WaitsApart' /\ \A x \in Task : Waits(x)' <=> (Waits(x) \/ x = t)
           /\ network[s] = t /\ network' = [network EXCEPT ![s] = NoTask] =>
                WaitsApart' /\ \A x \in Task : Waits(x)' <=> (Waits(x) /\ x # t)
<1>1. \A x \in Task : Joining(x)' = Joining(x) BY DEF Joining
<1>3. ASSUME running = t, network[s] = NoTask, network' = [network EXCEPT ![s] = t]
      PROVE  WaitsApart' /\ \A x \in Task : Waits(x)' <=> (Waits(x) \/ x = t)
  <2>1. network'[s] = t /\ \A r \in Socket \ {s} : network'[r] = network[r]
    BY <1>3, LiveTypes
  <2>2. WaitsApart' BY <1>1, <2>1, <1>3, RunnerIsNowhere DEF Live, WaitsApart
  <2>3. \A x \in Task : Waits(x)' <=> (Waits(x) \/ x = t)
    BY <1>1, <1>3, <2>1, LiveTypes DEF Waits
  <2> QED BY <2>2, <2>3
<1>4. ASSUME network[s] = t, network' = [network EXCEPT ![s] = NoTask]
      PROVE  WaitsApart' /\ \A x \in Task : Waits(x)' <=> (Waits(x) /\ x # t)
  <2>1. network'[s] = NoTask /\ \A r \in Socket \ {s} : network'[r] = network[r]
    BY <1>4, LiveTypes
  <2>2. WaitsApart'
    <3>1. \A r \in Socket : network'[r] = network[r] \/ network'[r] = NoTask
      BY <2>1
    <3>2. \A r \in Socket : network'[r] \in Task => r # s /\ network'[r] = network[r]
      BY <2>1, LiveTypes
    <3>3. \A x \in Task : \A r \in Socket : network'[r] # x \/ network[r] = x
      BY <3>1, LiveTypes
    <3>4. \A r \in Socket : \A q \in Socket \ {r} :
             network'[r] \in Task => network'[q] # network'[r]
      BY <3>1, <3>2, LiveTypes DEF Live, WaitsApart
    <3>6. \A x \in Task : NoTask \notin Joining(x) BY LiveTypes
    <3>7. \A r \in Socket, x \in Task : network[r] \notin Joining(x)
      BY DEF Live, WaitsApart
    <3>5. \A r \in Socket, x \in Task : network'[r] \notin Joining(x)'
      BY <1>1, <3>1, <3>6, <3>7
    <3> QED BY <1>1, <3>3, <3>4, <3>5 DEF Live, WaitsApart
  <2>4. /\ ~(sleeping[t] > 0) /\ (\A x \in Task : t \notin Joining(x))
        /\ \A r \in Socket \ {s} : network[r] # t
    BY <1>4 DEF Live, WaitsApart
  <2>3. \A x \in Task : Waits(x)' <=> (Waits(x) /\ x # t)
    BY <1>1, <1>4, <2>1, <2>4, LiveTypes DEF Waits
  <2> QED BY <2>2, <2>3
<1> QED BY <1>3, <1>4

\* A task registers for the end of another one.
LEMMA WatchMoves ==
    ASSUME TypeInv, Live, NEW t \in Task, NEW x \in Task, running = t,
           watching' = [watching EXCEPT ![x] = Append(@, t)]
    PROVE  /\ \A y \in Task : /\ IsInjective(watching[y])'
                              /\ Joining(y)' = IF y = x THEN Joining(y) \cup {t} ELSE Joining(y)
           /\ UNCHANGED <<sleeping, network>> =>
                WaitsApart' /\ \A y \in Task : Waits(y)' <=> (Waits(y) \/ y = t)
<1>1. watching[x] \in Seq(Task) /\ IsInjective(watching[x]) /\ t \notin ToSet(watching[x])
  BY RunnerIsNowhere, LiveTypes DEF Live, WaitsApart, Joining
<1>2. /\ ToSet(Append(watching[x], t)) = ToSet(watching[x]) \cup {t}
      /\ IsInjective(Append(watching[x], t))
  BY <1>1, AppendMembers
<1>3. \A y \in Task : watching'[y] = IF y = x THEN Append(watching[x], t) ELSE watching[y]
  BY LiveTypes
<1>4. \A y \in Task : /\ IsInjective(watching[y])'
                      /\ Joining(y)' = IF y = x THEN Joining(y) \cup {t} ELSE Joining(y)
  <2>1. \A y \in Task : IsInjective(watching[y]) BY DEF Live, WaitsApart
  <2>2. /\ ToSet(watching'[x]) = ToSet(watching[x]) \cup {t} /\ IsInjective(watching'[x])
        /\ \A y \in Task \ {x} : watching'[y] = watching[y]
    BY <1>2, <1>3
  <2>3. ASSUME NEW y \in Task
        PROVE  /\ IsInjective(watching[y])'
               /\ Joining(y)' = IF y = x THEN Joining(y) \cup {t} ELSE Joining(y)
    <3>1. CASE y = x BY <2>2, <3>1, Zenon DEF Joining
    <3>2. CASE y # x
      <4>1. watching'[y] = watching[y] BY <2>2, <3>2
      <4>2. Joining(y)' = Joining(y) BY <4>1, Zenon DEF Joining
      <4>3. IsInjective(watching[y])' BY <2>1, <4>1, Zenon
      <4> QED BY <3>2, <4>2, <4>3
    <3> QED BY <3>1, <3>2
  <2> QED BY <2>3
<1>5. ASSUME UNCHANGED <<sleeping, network>>
      PROVE  WaitsApart' /\ \A y \in Task : Waits(y)' <=> (Waits(y) \/ y = t)
  <2>1. WaitsApart' BY <1>4, <1>5, RunnerIsNowhere DEF Live, WaitsApart
  <2>2. \A y \in Task : Waits(y)' <=> (Waits(y) \/ y = t) BY <1>4, <1>5 DEF Waits
  <2> QED BY <2>1, <2>2
<1> QED BY <1>4, <1>5

-----------------------------------------------------------------------------
(* The commands of the primitives.                                            *)

\* The running task is parked by a primitive.
LEMMA ParkedPlaces ==
    ASSUME TypeInv, Live, NEW t \in Task, running = t, Parks(t),
           NEW place, place \notin {"absent", "closed"},
           at' = [at EXCEPT ![t] = place], running' = NoTask,
           UNCHANGED <<sleeping, network, watching>>
    PROVE  Apart' /\ WaitsApart' /\ Placed' /\ \A x \in Task : Waits(x)' <=> Waits(x)
<1>1. Apart' /\ \A x \in Task : Nowhere(x)' <=> (Nowhere(x) /\ x # t) BY DEF Parks
<1>2. WaitsApart' /\ \A x \in Task : Waits(x)' <=> Waits(x) BY SameWaits DEF Live
<1>3. Placed' BY <1>1, <1>2, RunnerIsNowhere, LiveTypes DEF Live, Placed
<1> QED BY <1>1, <1>2, <1>3

\* What the commands of the primitives leave alone.
LEMMA CommandFrame ==
    ASSUME NotSync
    PROVE  UNCHANGED <<sleeping, network, watching, finished, exceptions>>
BY DEF NotSync, parkVars, joinVars, outcomeVars

\* Event.wait() and Event.set()
LEMMA EventHolds ==
    ASSUME TypeInv, Live, NEW t \in Task, NEW e \in Event,
           EventWaitCommand(t, e) \/ EventSetCommand(t, e)
    PROVE  Live'
<1>1. /\ running = t /\ at[t] = "run" /\ at' = [at EXCEPT ![t] = "yield"]
      /\ running' = NoTask
      /\ UNCHANGED <<inside, lockless, sleeping, network, watching, owner, lockWaiters, condWaiters>>
  BY CommandFrame
     DEF EventWaitCommand, EventSetCommand, Yield, Running, EventWait, EventSet
<1>2. /\ Parks(t) /\ Ready \subseteq Ready'
      /\ \A p \in ToSet(tasks') :
            p \in ToSet(tasks) \/ (p.kind = "none" /\ p.task \in eventWaiters[e] \cup {t})
      /\ \A f \in Event : \A x \in eventWaiters'[f] : x \in eventWaiters[f] \/ x = t
  <2>1. CASE EventWaitCommand(t, e)
    <3>4. Wakeup(t).kind = "none" /\ Wakeup(t).task = t BY DEF Wakeup
    <3>1. EventWait(t, e) BY <2>1 DEF EventWaitCommand
    <3>2. Parks(t) /\ Ready \subseteq Ready'
      BY ZenonT(60), <1>1, <3>1, EventWaitParks, RunnerIsNowhere, LiveTypes DEF Live
    <3>3. \A p \in ToSet(tasks') : p \in ToSet(tasks) \/ p = Wakeup(t)
      BY <3>1, RequeuePackets, LiveTypes DEF EventWait
    <3>5. \A f \in Event : \A x \in eventWaiters'[f] : x \in eventWaiters[f] \/ x = t
      <4>1. \/ eventWaiters' = eventWaiters
            \/ eventWaiters' = [eventWaiters EXCEPT ![e] = @ \cup {t}]
        BY <3>1 DEF EventWait
      <4>2. eventWaiters \in [Event -> SUBSET Task] BY LiveTypes
      <4> QED BY <4>1, <4>2
    <3> QED BY <3>2, <3>3, <3>4, <3>5
  <2>2. CASE EventSetCommand(t, e)
    <3>1. EventSet(t, e) BY <2>2 DEF EventSetCommand
    <3>2. Parks(t) /\ Ready \subseteq Ready'
      BY <1>1, <3>1, EventSetParks, RunnerIsNowhere, LiveTypes DEF Live
    <3>3. PICK q \in SetToSeqs(eventWaiters[e]) :
              tasks' = Append(tasks \o Wakeups(q), Wakeup(t))
      BY <3>1 DEF EventSet
    <3>4. eventWaiters[e] \in SUBSET Task BY LiveTypes
    <3>5. q \in Seq(Task) /\ ToSet(q) = eventWaiters[e]
      BY <3>4, SetToSeqsMembers, SeqMonotonic
    <3>6. \A p \in ToSet(Wakeups(q)) : p.kind = "none" /\ p.task \in eventWaiters[e]
      <4>1. DOMAIN q = 1..Len(q) /\ DOMAIN Wakeups(q) = 1..Len(q)
        BY <3>5, LenProperties DEF Wakeups
      <4>2. \A i \in 1..Len(q) : Wakeups(q)[i].kind = "none" /\ Wakeups(q)[i].task = q[i]
        BY DEF Wakeups, Wakeup
      <4>3. \A i \in 1..Len(q) : q[i] \in eventWaiters[e] BY <3>5, <4>1, Zenon DEF ToSet
      <4> QED BY <4>1, <4>2, <4>3 DEF ToSet
    <3>7. Wakeups(q) \in Seq(Packet) /\ Wakeup(t) \in Packet
      BY <3>5, NamesWakeups, WakeupType
    <3> DEFINE a == tasks \o Wakeups(q)
    <3>8. a \in Seq(Packet) /\ ToSet(a) = ToSet(tasks) \cup ToSet(Wakeups(q))
      BY <3>7, LiveTypes, ConcatMembers, ConcatProperties
    <3>9. tasks' = Append(a, Wakeup(t)) BY <3>3
    <3> HIDE DEF a
    <3>10. ToSet(tasks') = ToSet(a) \cup {Wakeup(t)} BY <3>7, <3>8, <3>9, AppendMembers
    <3>11. \A p \in ToSet(tasks') : p \in ToSet(tasks) \/ p \in ToSet(Wakeups(q))
                                    \/ p = Wakeup(t)
      BY <3>8, <3>10
    <3>12. \A f \in Event : \A x \in eventWaiters'[f] : x \in eventWaiters[f]
      BY <3>1, LiveTypes DEF EventSet
    <3>13. Wakeup(t).kind = "none" /\ Wakeup(t).task = t BY DEF Wakeup
    <3> QED BY <3>2, <3>6, <3>11, <3>12, <3>13
  <2> QED BY <2>1, <2>2
<1>3. Apart' /\ WaitsApart' /\ Placed' /\ \A x \in Task : Waits(x)' <=> Waits(x)
  BY <1>1, <1>2, ParkedPlaces
<1>4. \A l \in Lock : Queuing(l)' = Queuing(l) BY <1>1 DEF Queuing
<1>5. \A x \in eventWaiters[e] : x \in Task /\ at[x] = "yield" /\ x # t
  BY <1>1, LiveTypes DEF Live, Homes
<1>6. Homes' BY <1>1, <1>2, <1>3, <1>4, RunnerIsNowhere, LiveTypes DEF Live, Homes
<1>7. Letters' BY <1>1, <1>2, <1>5, RunnerIsNowhere, LiveTypes DEF Live, Letters
<1>8. Owners' BY <1>1, <1>2, RunnerIsNowhere, LiveTypes DEF Live, Owners, InSection
<1> QED BY <1>3, <1>6, <1>7, <1>8 DEF Live

\* LockAcquireCommand: the task gets the lock and a packet, or queues.
LEMMA LockAcquireHolds ==
    ASSUME TypeInv, Live, NEW t \in Task, NEW l \in Lock, LockAcquireCommand(t, l)
    PROVE  Live'
<1>1. /\ running = t /\ at[t] = "run" /\ at' = [at EXCEPT ![t] = "acquire"]
      /\ running' = NoTask /\ inside[t] = NoLock /\ inside' = [inside EXCEPT ![t] = l]
      /\ LockAcquire(t, l)
      /\ UNCHANGED <<lockless, sleeping, network, watching, eventWaiters, condWaiters>>
  BY CommandFrame DEF LockAcquireCommand, Yield, Running, LockAcquire
<1>2. /\ Parks(t)
      /\ Ready' = IF owner[l] = NoTask THEN Ready \cup {t} ELSE Ready
      /\ \A m \in Lock : Queuing(m)' =
            IF m = l /\ owner[l] # NoTask THEN Queuing(m) \cup {t} ELSE Queuing(m)
  BY <1>1, LockAcquireParks, RunnerIsNowhere, LiveTypes DEF Live
<1>3. Apart' /\ WaitsApart' /\ Placed' /\ \A x \in Task : Waits(x)' <=> Waits(x)
  BY <1>1, <1>2, ParkedPlaces
<1>4. /\ \A m \in Lock : owner'[m] = IF m = l /\ owner[l] = NoTask THEN t ELSE owner[m]
      /\ \A p \in ToSet(tasks') : \/ p \in ToSet(tasks)
                                  \/ owner[l] = NoTask /\ p = Wakeup(t)
  BY <1>1, RequeuePackets, LiveTypes DEF LockAcquire
<1>5. Wakeup(t).task = t /\ Wakeup(t).kind = "none" BY DEF Wakeup
<1>9. t \notin lockless BY <1>1 DEF Live, Homes
<1>10. /\ \A x \in Task : at'[x] = IF x = t THEN "acquire" ELSE at[x]
       /\ \A x \in Task : inside'[x] = IF x = t THEN l ELSE inside[x]
       /\ l # NoLock /\ NoTask \notin Task
  BY <1>1, LiveTypes
<1>6. Homes' BY <1>1, <1>2, <1>3, <1>9, <1>10, RunnerIsNowhere DEF Live, Homes
<1>7. Letters' BY <1>1, <1>4, <1>5, RunnerIsNowhere, LiveTypes DEF Live, Letters
<1>8. Owners' BY <1>1, <1>2, <1>4, <1>9, RunnerIsNowhere, LiveTypes DEF Live, Owners, InSection
<1> QED BY <1>3, <1>6, <1>7, <1>8 DEF Live

\* LockReleaseCommand: the head of the queue gets the lock and a packet.
LEMMA LockReleaseHolds ==
    ASSUME TypeInv, Live, NEW t \in Task, NEW l \in Lock, LockReleaseCommand(t, l)
    PROVE  Live'
<1>1. /\ running = t /\ at[t] = "run" /\ at' = [at EXCEPT ![t] = "release"]
      /\ running' = NoTask /\ inside[t] = l /\ LockRelease(t, l)
      /\ UNCHANGED <<inside, lockless, sleeping, network, watching, eventWaiters, condWaiters>>
  BY CommandFrame DEF LockReleaseCommand, Yield, Running, LockRelease
<1> DEFINE H == IF owner[l] = t THEN FirstOf(l) ELSE {}
<1>2. /\ Parks(t) /\ H \subseteq Queuing(l)
      /\ Ready' = Ready \cup {t} \cup H
      /\ \A m \in Lock : Queuing(m)' = IF m = l THEN Queuing(m) \ H ELSE Queuing(m)
  BY <1>1, LockReleaseParks, RunnerIsNowhere, LiveTypes DEF Live
<1>3. Apart' /\ WaitsApart' /\ Placed' /\ \A x \in Task : Waits(x)' <=> Waits(x)
  BY <1>1, <1>2, ParkedPlaces
<1>4. /\ IF owner[l] = t THEN owner'[l] \in IF H = {} THEN {NoTask} ELSE H
                         ELSE owner'[l] = owner[l] /\ H = {}
      /\ \A m \in Lock \ {l} : owner'[m] = owner[m]
      /\ \A p \in ToSet(tasks') : \/ p \in ToSet(tasks) \/ p = Wakeup(t)
                                  \/ \E h \in H : p = Wakeup(h)
  <2>1. /\ IF owner[l] = t
             THEN owner'[l] \in IF FirstOf(l) = {} THEN {NoTask} ELSE FirstOf(l)
             ELSE owner' = owner
        /\ \A p \in ToSet(tasks') : \/ p \in ToSet(tasks) \/ p = Wakeup(t)
                                    \/ owner[l] = t /\ \E h \in FirstOf(l) : p = Wakeup(h)
    BY <1>1, LockReleaseGrants, LiveTypes
  <2>2. \A m \in Lock \ {l} : owner'[m] = owner[m]
    BY <1>1, LiveTypes DEF LockRelease, HandOver
  <2> QED BY <2>1, <2>2
<1>5. \A x, y \in H : x = y BY DEF FirstOf
<1> HIDE DEF H
<1>6. \A x : Wakeup(x).task = x /\ Wakeup(x).kind = "none" BY DEF Wakeup
<1>7. \A h \in H : h \in Task /\ at[h] \in {"acquire", "wait"} /\ inside[h] = l /\ h # t
                   /\ h \notin Ready
  BY <1>1, <1>2, RunnerIsNowhere, LiveTypes DEF Live, Homes, Apart
<1>11. /\ ~Waits(t) /\ (\A m \in Lock : t \notin Queuing(m))
       /\ (\A e \in Event : t \notin eventWaiters[e])
       /\ (\A c \in Cond : t \notin condWaiters[c])
       /\ \A p \in ToSet(tasks) : p.task # t /\ p.task \in Task
       /\ \A x \in Task : at'[x] = IF x = t THEN "release" ELSE at[x]
       /\ NoTask \notin Task
  BY <1>1, RunnerIsNowhere, LiveTypes
<1>12. \A m \in Lock : Queuing(m)' \subseteq Queuing(m) BY <1>2
<1>8. Homes' BY <1>1, <1>3, <1>11, <1>12 DEF Live, Homes
<1>9. Letters'
  <2>1. \A p \in ToSet(tasks), m \in Lock : owner[m] = p.task => owner'[m] = p.task
    BY <1>4, <1>11
  <2>2. \A p \in ToSet(tasks), m \in Lock : owner'[m] = p.task => owner[m] = p.task
    BY <1>4, <1>7, <1>11, LiveTypes
  <2>3. \A p \in ToSet(tasks') :
           \/ p \in ToSet(tasks)
           \/ p.task = t /\ p.kind = "none"
           \/ p.task \in H /\ p.kind = "none" /\ owner'[l] = p.task
    BY <1>4, <1>5, <1>6
  <2> QED BY <1>1, <1>7, <1>11, <2>1, <2>2, <2>3 DEF Live, Letters
<1>10. Owners'
  BY <1>1, <1>2, <1>4, <1>5, <1>7, RunnerIsNowhere, LiveTypes DEF Live, Owners, InSection
<1> QED BY <1>3, <1>8, <1>9, <1>10 DEF Live

\* The assertions of wait() and notify() hold, so that the loop does not raise, but for a
\* task that has lost the lock of its block.
LEMMA CallerOwns ==
    ASSUME Live, NEW t \in Task, NEW c \in Cond, at[t] = "run", inside[t] = LockOf[c]
    PROVE  OwnsLockOf(t, c) <=> t \notin lockless
<1>1. LockOf[c] \in Lock BY SyncAssumption
<1> QED BY <1>1 DEF Live, Owners, InSection, OwnsLockOf

\* ConditionWaitCommand: the task is parked, and the lock goes to the head of its queue.
LEMMA ConditionWaitHolds ==
    ASSUME TypeInv, Live, NEW t \in Task \ lockless, NEW c \in Cond,
           ConditionWaitCommand(t, c)
    PROVE  Live' /\ loop' = loop
<1> DEFINE l == LockOf[c]
           H == FirstOf(l)
<1>1. /\ running = t /\ at' = [at EXCEPT ![t] = "wait"] /\ l \in Lock
      /\ running' = NoTask /\ inside[t] = l /\ ConditionWait(t, c) /\ loop' = loop
      /\ UNCHANGED <<inside, lockless, sleeping, network, watching, eventWaiters>>
  BY CommandFrame, CallerOwns, LiveTypes
     DEF ConditionWaitCommand, Yield, Running, AssertOwner, ConditionWait
<1>2. /\ Parks(t) /\ H \subseteq Queuing(l) /\ Ready' = Ready \cup H
      /\ \A m \in Lock : Queuing(m)' = IF m = l THEN Queuing(m) \ H ELSE Queuing(m)
  BY <1>1, ConditionWaitParks, RunnerIsNowhere, LiveTypes DEF Live
<1>3. Apart' /\ WaitsApart' /\ Placed' /\ \A x \in Task : Waits(x)' <=> Waits(x)
  BY <1>1, <1>2, ParkedPlaces
<1>4. /\ owner[l] = t /\ owner'[l] \in IF H = {} THEN {NoTask} ELSE H
      /\ \A p \in ToSet(tasks') : p \in ToSet(tasks) \/ \E h \in H : p = Wakeup(h)
  BY <1>1, ConditionWaitGrants, LiveTypes
<1>5. \A m \in Lock \ {l} : owner'[m] = owner[m]
  BY <1>1, LiveTypes DEF ConditionWait, HandOver
<1>6. \A d \in Cond : condWaiters'[d] = IF d = c THEN condWaiters[d] \cup {t} ELSE condWaiters[d]
  BY <1>1, LiveTypes DEF ConditionWait
<1>7. \A x, y \in H : x = y BY DEF FirstOf
<1> HIDE DEF H
<1>8. \A x : Wakeup(x).task = x /\ Wakeup(x).kind = "none" BY DEF Wakeup
<1>9. \A h \in H : h \in Task /\ at[h] \in {"acquire", "wait"} /\ inside[h] = l /\ h # t
                   /\ h \notin Ready
  BY <1>1, <1>2, RunnerIsNowhere, LiveTypes DEF Live, Homes, Apart
<1>10. /\ ~Waits(t) /\ (\A m \in Lock : t \notin Queuing(m))
       /\ (\A e \in Event : t \notin eventWaiters[e])
       /\ (\A d \in Cond : t \notin condWaiters[d])
       /\ \A p \in ToSet(tasks) : p.task # t /\ p.task \in Task
       /\ \A x \in Task : at'[x] = IF x = t THEN "wait" ELSE at[x]
       /\ NoTask \notin Task
  BY <1>1, RunnerIsNowhere, LiveTypes
<1>11. \A m \in Lock : Queuing(m)' \subseteq Queuing(m) BY <1>2
<1> HIDE DEF l
<1>12. Homes'
  <2>1. \A d \in Cond : t \in condWaiters'[d] => inside'[t] = LockOf[d]
    BY <1>1, <1>6, <1>10 DEF l
  <2>2. \A d \in Cond : \A x \in Task \ {t} : x \in condWaiters'[d] => x \in condWaiters[d]
    BY <1>6
  <2>3. /\ \A x \in Task \ {t} : at'[x] = at[x] /\ running # x /\ running' # x
        /\ at'[t] = "wait" /\ inside' = inside /\ lockless' = lockless
        /\ UNCHANGED eventWaiters
    BY <1>1, <1>10
  <2>4. t \notin lockless OBVIOUS
  <2>5. \A x \in Task : \A m \in Lock : x \in Queuing(m)' => x \in Queuing(m)
    BY <1>11
  <2>6. \A x \in Task : x = t \/ x \in Task \ {t} OBVIOUS
  <2>7. running' # t /\ inside[t] # NoLock BY <1>1, <1>10, LiveTypes
  <2>8. \A m \in Lock : t \notin Queuing(m)' BY <1>10, <2>5
  <2>9. ASSUME NEW x \in Task \ {t}
        PROVE  /\ at'[x] = "run" <=> running' = x
               /\ \A m \in Lock : x \in Queuing(m)' =>
                     at'[x] \in {"acquire", "wait"} /\ inside'[x] = m
               /\ \A d \in Cond : x \in condWaiters'[d] => at'[x] = "wait" /\ inside'[x] = LockOf[d]
               /\ \A e \in Event : x \in eventWaiters'[e] => at'[x] = "yield"
               /\ Waits(x)' => at'[x] = "yield"
               /\ at'[x] \in {"absent", "start", "closed"} => inside'[x] = NoLock
               /\ at'[x] = "wait" => inside'[x] # NoLock
               /\ x \in lockless' => inside'[x] # NoLock /\ at'[x] \in {"run", "yield", "release"}
    BY <1>3, <2>2, <2>3, <2>5, <2>9 DEF Live, Homes
  <2> QED BY <1>3, <1>10, <2>1, <2>3, <2>4, <2>6, <2>7, <2>8, <2>9 DEF Homes
<1>13. Letters'
  <2>1. \A p \in ToSet(tasks), m \in Lock : owner[m] = p.task => owner'[m] = p.task
    BY <1>4, <1>5, <1>10
  <2>2. \A p \in ToSet(tasks), m \in Lock : owner'[m] = p.task => owner[m] = p.task
    BY <1>4, <1>5, <1>9, <1>10, LiveTypes
  <2>3. \A p \in ToSet(tasks') :
           \/ p \in ToSet(tasks)
           \/ p.task \in H /\ p.kind = "none" /\ owner'[l] = p.task
    BY <1>4, <1>7, <1>8
  <2> QED BY <1>1, <1>9, <1>10, <2>1, <2>2, <2>3 DEF Live, Letters
<1>14. Owners'
  BY <1>1, <1>2, <1>4, <1>5, <1>7, <1>9, <1>10, LiveTypes DEF Live, Owners, InSection
<1> QED BY <1>1, <1>3, <1>12, <1>13, <1>14 DEF Live

\* ConditionNotifyCommand: waiters move from the condition to the queue of its lock.
LEMMA ConditionNotifyHolds ==
    ASSUME TypeInv, Live, NEW t \in Task \ lockless, NEW c \in Cond,
           ConditionNotifyCommand(t, c)
    PROVE  Live' /\ loop' = loop
<1> DEFINE l == LockOf[c]
<1>1. PICK all \in BOOLEAN :
        /\ running = t /\ at[t] = "run" /\ at' = [at EXCEPT ![t] = "yield"] /\ l \in Lock
        /\ running' = NoTask /\ inside[t] = l /\ ConditionNotify(t, c, all) /\ loop' = loop
        /\ UNCHANGED <<inside, lockless, sleeping, network, watching, eventWaiters, owner>>
  BY CommandFrame, CallerOwns, LiveTypes
     DEF ConditionNotifyCommand, Yield, Running, AssertOwner, ConditionNotify
<1>2. Parks(t) /\ Ready' = Ready \cup {t}
  BY <1>1, ConditionNotifyParks, RunnerIsNowhere, LiveTypes DEF Live
<1>3. PICK W \in SUBSET condWaiters[c] :
        /\ condWaiters' = [condWaiters EXCEPT ![c] = @ \ W]
        /\ \A m \in Lock : Queuing(m)' = IF m = l THEN Queuing(m) \cup W ELSE Queuing(m)
  <2>0. Nowhere(t) /\ SyncTypeOK /\ Apart BY <1>1, RunnerIsNowhere, LiveTypes DEF Live
  <2>1. \E W \in SUBSET condWaiters[c] :
                /\ condWaiters' = [condWaiters EXCEPT ![c] = @ \ W]
                /\ \A m \in Lock : Queuing(m)' =
                      IF m = LockOf[c] THEN Queuing(m) \cup W ELSE Queuing(m)
    BY <1>1, <2>0, ConditionNotifyParks
  <2> QED BY <2>1
<1>4. Apart' /\ WaitsApart' /\ Placed' /\ \A x \in Task : Waits(x)' <=> Waits(x)
  BY <1>1, <1>2, ParkedPlaces
<1>5. \A p \in ToSet(tasks') : p \in ToSet(tasks) \/ p = Wakeup(t)
  BY <1>1, RequeuePackets, LiveTypes DEF ConditionNotify
<1>6. Wakeup(t).task = t /\ Wakeup(t).kind = "none" BY DEF Wakeup
<1>7. /\ ~Waits(t) /\ (\A m \in Lock : t \notin Queuing(m))
      /\ (\A e \in Event : t \notin eventWaiters[e])
      /\ (\A d \in Cond : t \notin condWaiters[d])
      /\ \A p \in ToSet(tasks) : p.task # t /\ p.task \in Task
      /\ \A x \in Task : at'[x] = IF x = t THEN "yield" ELSE at[x]
      /\ NoTask \notin Task
  BY <1>1, RunnerIsNowhere, LiveTypes
<1>8. /\ \A d \in Cond : condWaiters'[d] \subseteq condWaiters[d]
      /\ \A m \in Lock : \A x \in Queuing(m)' : x \in Queuing(m) \/ (m = l /\ x \in condWaiters[c])
  <2>1. \A d \in Cond : condWaiters'[d] = IF d = c THEN condWaiters[d] \ W ELSE condWaiters[d]
    BY <1>3, LiveTypes
  <2> QED BY <1>3, <2>1
<1> HIDE DEF l
<1>9. Homes' BY <1>1, <1>4, <1>7, <1>8 DEF Live, Homes, l
<1>10. Letters' BY <1>1, <1>5, <1>6, <1>7 DEF Live, Letters
<1>11. Owners' BY <1>1, <1>2, <1>7, RunnerIsNowhere DEF Live, Owners, InSection
<1> QED BY <1>1, <1>4, <1>9, <1>10, <1>11 DEF Live

\* For a task that has lost the lock of its block the assertion fails: the loop raises.
LEMMA LocklessRaises ==
    ASSUME Live, NEW t \in lockless, t \in Task, NEW c \in Cond,
           ConditionWaitCommand(t, c) \/ ConditionNotifyCommand(t, c)
    PROVE  /\ at[t] = "run" /\ \E place \in {"yield", "wait"} : at' = [at EXCEPT ![t] = place]
           /\ UNCHANGED <<inside, lockless, owner>> /\ loop' # "running"
<1>1. ~OwnsLockOf(t, c)
  BY CallerOwns DEF ConditionWaitCommand, ConditionNotifyCommand, Yield
<1> QED BY <1>1 DEF ConditionWaitCommand, ConditionNotifyCommand, AssertOwner, Yield, syncVars

-----------------------------------------------------------------------------
(* The loop resumes a task.                                                   *)

\* Only a resumed coroutine pops the run queue: no exception is thrown into a coroutine
\* that has not started or that has ended.
LEMMA DispatchResumes ==
    ASSUME TypeInv, Live, Dispatch
    PROVE  /\ Resume(Head(tasks)) /\ Head(tasks) \in ToSet(tasks)
           /\ Head(tasks) \in Packet /\ Head(tasks).task \in Task /\ Head(tasks).task \in Ready
<1> DEFINE p == Head(tasks)
<1>1. p \in ToSet(tasks) BY TailMembers, LiveTypes DEF Dispatch
<1>2. p \in Packet /\ p.task \in Task /\ p.task \in Ready BY <1>1, LiveTypes
<1>3. Resume(p) \/ FailUnstarted(p) \/ FailClosed(p) BY DEF Dispatch
<1> HIDE DEF p
<1>4. ~Nowhere(p.task) BY <1>2 DEF Nowhere
<1>5. at[p.task] # "closed" BY <1>2, <1>4 DEF Live, Placed
<1>6. p.kind \in ExcKind => at[p.task] # "start" BY <1>1 DEF Live, Letters, ExcKind
<1> QED BY <1>1, <1>2, <1>3, <1>5, <1>6 DEF FailUnstarted, FailClosed, p

\* The task whose packet is taken runs; it has the lock of the block it comes back into.
LEMMA DispatchHolds ==
    ASSUME TypeInv, Live, Dispatch
    PROVE  Live' /\ loop' = loop
<1>0. PICK p \in Packet : p = Head(tasks) BY DispatchResumes
<1> DEFINE h == p.task
           thrown == p.kind \in ExcKind
<1>1. /\ p \in ToSet(tasks) /\ p \in Packet /\ h \in Task /\ h \in Ready /\ Resume(p)
      /\ tasks # <<>> /\ running = NoTask
  BY <1>0, DispatchResumes DEF Dispatch, Idle
<1>2. /\ running' = h /\ tasks' = Tail(tasks)
      /\ at' = [at EXCEPT ![h] = "run"]
      /\ inside' = [inside EXCEPT ![h] =
                       IF at[h] = "release" \/ (thrown /\ at[h] = "acquire")
                         THEN NoLock ELSE @]
      /\ lockless' = IF at[h] = "release" \/ (thrown /\ at[h] = "acquire") THEN lockless \ {h}
                     ELSE IF thrown /\ at[h] = "wait" THEN lockless \cup {h}
                     ELSE lockless
      /\ loop' = loop /\ UNCHANGED <<syncVars, owner, eventWaiters, condWaiters>>
      /\ UNCHANGED <<sleeping, network, watching>>
  BY <1>1 DEF Resume, parkVars, joinVars, syncVars
<1>3. /\ Apart' /\ Ready' = Ready \ {h}
      /\ \A l \in Lock : Queuing(l)' = Queuing(l)
      /\ \A x \in Task : Nowhere(x)' <=> (Nowhere(x) \/ x = h)
  BY <1>0, <1>1, <1>2, PopMoves, LiveTypes DEF Live
<1>4. WaitsApart' /\ \A x \in Task : Waits(x)' <=> Waits(x)
  BY <1>2, SameWaits DEF Live
<1>5. /\ \A q \in ToSet(tasks') : q \in ToSet(tasks) /\ q.task # h /\ q.task \in Task
  <2>1. tasks' \in Seq(Packet) BY <1>1, <1>2, HeadAndTail
  <2>2. \A q \in ToSet(tasks') : q.task \in Ready' BY <2>1, TailReady
  <2>3. ToSet(tasks') \subseteq ToSet(tasks) BY <1>1, <1>2, TailMembers, LiveTypes
  <2> QED BY <1>3, <2>2, <2>3, LiveTypes
<1> HIDE DEF h
<1>6. /\ ~Nowhere(h) /\ ~Waits(h) /\ (\A l \in Lock : h \notin Queuing(l))
      /\ (\A e \in Event : h \notin eventWaiters[e])
      /\ (\A c \in Cond : h \notin condWaiters[c])
      /\ at[h] \notin {"absent", "closed", "run"}
  BY <1>1, LiveTypes DEF Live, Placed, Homes, Nowhere, Apart
<1>7. Placed' BY <1>1, <1>2, <1>3, <1>4, <1>6, LiveTypes DEF Live, Placed
<1>8. /\ at[h] \in {"acquire", "wait"} => p.kind \in {"none", "cancelled"}
      /\ at[h] \notin {"acquire", "wait", "yield"} => p.kind = "none"
      /\ at[h] \in {"acquire", "wait"} =>
            \A l \in Lock : IF p.kind = "none" THEN inside[h] = l => owner[l] = h
                                               ELSE owner[l] # h
  BY <1>1 DEF Live, Letters, h
<1> DEFINE exc == p.kind \in {"error", "cancelled"}
<1>9. thrown <=> exc BY DEF ExcKind
<1>10. /\ \A x \in Task \ {h} : at'[x] = at[x] /\ inside'[x] = inside[x]
       /\ at'[h] = "run"
       /\ inside'[h] = IF at[h] = "release" \/ (exc /\ at[h] = "acquire")
                         THEN NoLock ELSE inside[h]
       /\ \A x \in Task \ {h} : x \in lockless' <=> x \in lockless
       /\ h \in lockless' <=>
            \/ exc /\ at[h] = "wait"
            \/ h \in lockless /\ at[h] # "release" /\ ~(exc /\ at[h] = "acquire")
       /\ h # NoTask
  BY <1>1, <1>2, <1>9, LiveTypes
<1>14. h \in lockless => inside[h] # NoLock /\ at[h] \in {"yield", "release"}
  BY <1>1, <1>6 DEF Live, Homes
<1>11. Homes'
  <2>1. h \in lockless' => inside'[h] # NoLock
    BY <1>1, <1>10, <1>14 DEF Live, Homes
  <2> QED BY <1>1, <1>2, <1>3, <1>4, <1>6, <1>10, <2>1, LiveTypes DEF Live, Homes
<1>12. Letters' BY <1>2, <1>5, <1>10 DEF Live, Letters
<1>13. Owners'
  <2>1. ASSUME NEW l \in Lock, InSection(h, l)' PROVE owner'[l] = h <=> h \notin lockless'
    <3>1. at'[h] = "run" /\ inside'[h] = l /\ inside[h] = l
      BY <1>10, <2>1, LiveTypes DEF InSection
    <3>2. at[h] # "release" BY <1>10, <3>1, LiveTypes
    <3>3. CASE at[h] = "acquire"
      <4>1. ~exc BY <1>10, <3>1, <3>3, LiveTypes
      <4>2. p.kind = "none" BY <1>8, <3>3, <4>1
      <4> QED BY <1>2, <1>8, <1>10, <1>14, <3>1, <3>3, <4>1, <4>2
    <3>5. CASE at[h] = "wait"
      <4>1. h \in lockless' <=> exc BY <1>10, <1>14, <3>5
      <4>2. p.kind = "none" <=> ~exc BY <1>8, <3>5
      <4> QED BY <1>2, <1>8, <3>1, <3>5, <4>1, <4>2
    <3>4. CASE at[h] \notin {"acquire", "wait"}
      <4>1. h \in lockless' <=> h \in lockless BY <1>10, <3>2, <3>4
      <4> QED BY <1>1, <1>2, <1>6, <3>1, <3>2, <3>4, <4>1 DEF Live, Owners, InSection
    <3> QED BY <3>3, <3>4, <3>5
  <2>2. ASSUME NEW l \in Lock, owner[l] = h
        PROVE  inside'[h] = l /\ at'[h] = "run"
    <3>1. inside[h] = l /\ at[h] \in {"yield", "acquire", "wait"}
      BY <1>1, <1>6, <2>2 DEF Live, Owners
    <3>2. at[h] \in {"acquire", "wait"} => ~exc BY <1>8, <2>2
    <3> QED BY <1>10, <3>1, <3>2
  <2>3. ASSUME NEW x \in Task \ {h}, NEW l \in Lock
        PROVE  /\ InSection(x, l)' => (owner'[l] = x <=> x \notin lockless')
               /\ owner'[l] = x => /\ inside'[x] = l
                                   /\ at'[x] \in {"run", "yield", "acquire", "wait"}
                                   /\ at'[x] \in {"acquire", "wait"} => x \in Ready'
    BY <1>2, <1>3, <1>10, <2>3 DEF Live, Owners, InSection
  <2>4. \A x \in Task : x = h \/ x \in Task \ {h} OBVIOUS
  <2> QED BY <1>2, <2>1, <2>2, <2>3, <2>4 DEF Owners
<1> QED BY <1>2, <1>3, <1>4, <1>7, <1>11, <1>12, <1>13 DEF Live

-----------------------------------------------------------------------------
(* A task ends, or starts.                                                    *)

\* The answers are for the watchers, in their order.
LEMMA AnswersNames ==
    ASSUME TypeInv, NEW t \in Task, NEW o \in [kind : {"result"} \cup ExcKind, of : Task]
    PROVE  Answers(t, o) \in Seq(Packet) /\ Names(Answers(t, o)) = watching[t]
<1> DEFINE q == Answers(t, o)
           w == watching[t]
<1>1. q \in Seq(Packet) BY AnswersType DEF TypeInv
<1>2. w \in Seq(Task) /\ Len(w) \in Nat BY LiveTypes, LenProperties
<1>3. DOMAIN q = 1..Len(w) BY DEF Answers
<1>4. Len(q) = Len(w) BY <1>1, <1>2, <1>3, LenProperties
<1>5. \A i \in 1..Len(w) : q[i].task = w[i]
  <2>1. \A x : Answer(t, x, o).task = x BY DEF Answer, Wakeup
  <2>2. \A i \in 1..Len(w) : q[i] = Answer(t, w[i], o) BY DEF Answers
  <2> HIDE DEF q, w
  <2> QED BY <2>1, <2>2
<1>6. Names(q) \in Seq(Task) /\ Len(Names(q)) = Len(w) BY <1>1, <1>4, NamesType
<1>7. \A i \in 1..Len(q) : Names(q)[i] = q[i].task BY DEF Names
<1> HIDE DEF q, w
<1>8. Names(q) = w BY <1>2, <1>4, <1>5, <1>6, <1>7, SeqEqual
<1> QED BY <1>1, <1>8 DEF q, w

\* The coroutine of a task that is in no block ends: its watchers are woken.
LEMMA CloseHolds ==
    ASSUME TypeInv, Live, NEW t \in Task, running = t, inside[t] = NoLock,
           NEW o \in [kind : {"result"} \cup ExcKind, of : Task], Close(t, tasks, o)
    PROVE  Live'
<1> DEFINE q == Answers(t, o)
<1>1. /\ at' = [at EXCEPT ![t] = "closed"] /\ running' = NoTask /\ tasks' = tasks \o q
      /\ watching' = [watching EXCEPT ![t] = <<>>]
      /\ UNCHANGED <<syncVars, inside, lockless, sleeping, network, owner, eventWaiters, condWaiters>>
  BY DEF Close, Forget, parkVars, syncVars
<1>2. q \in Seq(Packet) /\ Names(q) = watching[t] BY AnswersNames
<1> HIDE DEF q
<1>3. /\ IsInjective(Names(q)) /\ ToSet(Names(q)) = Joining(t)
      /\ \A x \in Joining(t) : x \in Task /\ Waits(x) /\ Nowhere(x) /\ at[x] = "yield"
  <2>1. IsInjective(watching[t]) BY DEF Live, WaitsApart
  <2>2. IsInjective(Names(q)) /\ ToSet(Names(q)) = Joining(t) BY <1>2, <2>1, Zenon DEF Joining
  <2>3. \A x \in Joining(t) : x \in Task /\ Waits(x) BY LiveTypes DEF Waits
  <2>4. \A x \in Joining(t) : Nowhere(x) /\ at[x] = "yield" BY <2>3 DEF Live, Placed, Homes
  <2> QED BY <2>2, <2>3, <2>4
<1>4. /\ Apart' /\ (\A x \in Task : Nowhere(x)' <=> (Nowhere(x) /\ x \notin Joining(t)))
      /\ Ready' = Ready \cup Joining(t)
      /\ \A p \in ToSet(tasks') : p \in ToSet(tasks) \/ p \in ToSet(q)
      /\ \A l \in Lock : Queuing(l)' = Queuing(l)
  <2>1. \A x \in ToSet(Names(q)) : Nowhere(x) BY <1>3
  <2>2. /\ Apart' /\ (\A x \in Task : Nowhere(x)' <=> (Nowhere(x) /\ x \notin ToSet(Names(q))))
        /\ Ready' = Ready \cup ToSet(Names(q))
        /\ \A p \in ToSet(tasks') : p \in ToSet(tasks) \/ p \in ToSet(q)
        /\ \A l \in Lock : Queuing(l)' = Queuing(l)
    BY <1>1, <1>2, <1>3, <2>1, PacketsPark, LiveTypes DEF Live
  <2> QED BY <1>3, <2>2
<1>5. \A p \in ToSet(q) : p.task \in Joining(t)
  <2>1. DOMAIN q = 1..Len(q) /\ DOMAIN Names(q) = 1..Len(q) BY <1>2, LenProperties DEF Names
  <2>2. \A i \in 1..Len(q) : Names(q)[i] = q[i].task BY DEF Names
  <2>3. \A i \in 1..Len(q) : Names(q)[i] \in Joining(t) BY <1>3, <2>1, Zenon DEF ToSet
  <2> QED BY <2>1, <2>2, <2>3 DEF ToSet
<1>6. /\ \A x \in Task : Joining(x)' = IF x = t THEN {} ELSE Joining(x)
      /\ \A x \in Task : IsInjective(watching[x])'
  <2>1. watching'[t] = <<>> /\ \A x \in Task \ {t} : watching'[x] = watching[x]
    BY <1>1, LiveTypes
  <2>2. ToSet(<<>>) = {} /\ IsInjective(<<>>) BY OneName
  <2>3. Joining(t)' = {} /\ IsInjective(watching'[t]) BY <2>1, <2>2, Zenon DEF Joining
  <2>4. ASSUME NEW x \in Task \ {t}
        PROVE  Joining(x)' = Joining(x) /\ IsInjective(watching'[x])
    <3>1. watching'[x] = watching[x] /\ IsInjective(watching[x])
      BY <2>1 DEF Live, WaitsApart
    <3> QED BY <3>1, Zenon DEF Joining
  <2> QED BY <2>3, <2>4
<1>7. WaitsApart'
  <2>1. \A x, y \in Task : y \in Joining(x)' => y \in Joining(x) BY <1>6
  <2>2. \A x \in Task : \A s \in Socket : network[s] \notin Joining(x)' BY <1>6 DEF Live, WaitsApart
  <2>3. \A x \in Task : \A y \in Task \ {x} : Joining(x)' \cap Joining(y)' = {}
    BY <1>6 DEF Live, WaitsApart
  <2>4. UNCHANGED <<sleeping, network>> BY <1>1
  <2> QED BY <1>6, <2>1, <2>2, <2>3, <2>4 DEF Live, WaitsApart
<1>8. \A x \in Task : Waits(x)' <=> (Waits(x) /\ x \notin Joining(t))
  <2>1. \A x \in Joining(t) : /\ ~(sleeping[x] > 0) /\ \A s \in Socket : network[s] # x
                              /\ \A y \in Task \ {t} : x \notin Joining(y)
    BY <1>3 DEF Live, WaitsApart
  <2> QED BY <1>1, <1>6, <2>1 DEF Waits
<1>9. /\ ~Waits(t) /\ (\A l \in Lock : t \notin Queuing(l)) /\ at[t] = "run"
      /\ (\A e \in Event : t \notin eventWaiters[e])
      /\ (\A c \in Cond : t \notin condWaiters[c])
      /\ \A p \in ToSet(tasks) : p.task # t /\ p.task \in Task
      /\ \A x \in Task : at'[x] = IF x = t THEN "closed" ELSE at[x]
      /\ NoTask \notin Task
  BY <1>1, RunnerIsNowhere, LiveTypes
<1>10. Placed' BY <1>1, <1>3, <1>4, <1>8, <1>9, RunnerIsNowhere DEF Live, Placed
<1>11. Homes' BY <1>1, <1>4, <1>8, <1>9 DEF Live, Homes
<1>12. Letters' BY <1>1, <1>3, <1>4, <1>5, <1>9 DEF Live, Letters
<1>13. \A l \in Lock : owner[l] # t /\ ~InSection(t, l)
  BY LiveTypes DEF Live, Owners, InSection
<1>14. Owners' BY <1>1, <1>4, <1>9, <1>13 DEF Live, Owners, InSection
<1> QED BY <1>4, <1>7, <1>10, <1>11, <1>12, <1>14 DEF Live

\* A task that does not exist yet is in no place and in no block.
LEMMA NewcomerIsNowhere ==
    ASSUME TypeInv, Live, NEW x \in Task, at[x] = "absent"
    PROVE  /\ Nowhere(x) /\ ~Waits(x) /\ running # x /\ inside[x] = NoLock /\ x \notin Ready
           /\ (\A l \in Lock : x \notin Queuing(l)) /\ (\A e \in Event : x \notin eventWaiters[e])
           /\ (\A c \in Cond : x \notin condWaiters[c])
           /\ (\A l \in Lock : owner[l] # x) /\ \A p \in ToSet(tasks) : p.task # x
<1>1. Nowhere(x) /\ ~Waits(x) /\ running # x /\ inside[x] = NoLock
  BY DEF Live, Placed, Homes
<1>2. \A l \in Lock : owner[l] # x BY DEF Live, Owners
<1> QED BY <1>1, <1>2, LiveTypes DEF Nowhere

\* create_task(), from another thread or in a turn.
LEMMA CreateHolds ==
    ASSUME TypeInv, Live, NEW x \in Task, CreateTask(x)
    PROVE  Live'
<1>1. /\ at[x] = "absent" /\ at' = [at EXCEPT ![x] = "start"]
      /\ tasks' = Append(tasks, Wakeup(x))
      /\ UNCHANGED <<syncVars, running, inside, lockless, sleeping, network, watching, owner>>
      /\ UNCHANGED <<eventWaiters, condWaiters>>
  BY DEF CreateTask, parkVars, joinVars, syncVars
<1>2. Wakeup(x) \in Packet /\ Wakeup(x).task = x /\ Wakeup(x).kind = "none"
  BY WakeupType DEF Wakeup
<1>3. /\ Apart' /\ (\A y \in Task : Nowhere(y)' <=> (Nowhere(y) /\ y # x))
      /\ Ready' = Ready \cup {x}
      /\ \A q \in ToSet(tasks') : q \in ToSet(tasks) \/ q = Wakeup(x)
      /\ \A l \in Lock : Queuing(l)' = Queuing(l)
  BY <1>1, <1>2, NewcomerIsNowhere, PacketParks, LiveTypes DEF Live
<1>4. WaitsApart' /\ \A y \in Task : Waits(y)' <=> Waits(y) BY <1>1, SameWaits DEF Live
<1>5. \A y \in Task : at'[y] = IF y = x THEN "start" ELSE at[y] BY <1>1, LiveTypes
<1>6. Placed' BY <1>1, <1>3, <1>4, <1>5, NewcomerIsNowhere DEF Live, Placed
<1>7. Homes' BY <1>1, <1>3, <1>4, <1>5, NewcomerIsNowhere DEF Live, Homes
<1>8. Letters' BY <1>1, <1>2, <1>3, <1>5, NewcomerIsNowhere, LiveTypes DEF Live, Letters
<1>9. Owners' BY <1>1, <1>3, <1>5, NewcomerIsNowhere, LiveTypes DEF Live, Owners, InSection
<1> QED BY <1>3, <1>4, <1>6, <1>7, <1>8, <1>9 DEF Live

\* SpawnCommand queues the new task and, behind it, its parent.
LEMMA SpawnHolds ==
    ASSUME TypeInv, Live, NEW t \in Task, NEW x \in Task, SpawnCommand(t, x)
    PROVE  Live'
<1> DEFINE p == [task |-> t, kind |-> "handle", of |-> x]
           q == <<Wakeup(x), p>>
<1>1. /\ running = t /\ at[t] = "run" /\ at[x] = "absent" /\ running' = NoTask
      /\ at' = [at EXCEPT ![t] = "yield", ![x] = "start"] /\ tasks' = tasks \o q
      /\ UNCHANGED <<syncVars, inside, lockless, sleeping, network, watching, owner>>
      /\ UNCHANGED <<eventWaiters, condWaiters>>
  BY DEF SpawnCommand, Running, parkVars, joinVars, syncVars
<1>2. x # t BY <1>1
<1>3. /\ Wakeup(x) \in Packet /\ Wakeup(x).task = x /\ Wakeup(x).kind = "none"
      /\ p \in Packet /\ p.task = t
  BY WakeupType DEF Wakeup, Packet
<1> HIDE DEF p
<1>4. /\ q \in Seq(Packet) /\ Len(q) = 2 /\ q[1] = Wakeup(x) /\ q[2] = p
      /\ DOMAIN q = 1..2
  BY <1>3
<1>5. /\ IsInjective(Names(q)) /\ ToSet(Names(q)) = {t, x}
      /\ \A r \in ToSet(q) : r = Wakeup(x) \/ r = p
  <2> HIDE DEF q
  <2>1. /\ DOMAIN Names(q) = 1..2 /\ Names(q)[1] = x /\ Names(q)[2] = t
        /\ \A i \in 1..2 : i = 1 \/ i = 2
    BY <1>3, <1>4 DEF Names
  <2> HIDE DEF Names
  <2>2. IsInjective(Names(q)) BY <1>2, <2>1 DEF IsInjective
  <2>3. 1 \in 1..2 /\ 2 \in 1..2 OBVIOUS
  <2>4. ToSet(Names(q)) = {t, x} BY <2>1, <2>3 DEF ToSet
  <2>5. \A r \in ToSet(q) : r = Wakeup(x) \/ r = p BY <1>4, <2>1 DEF ToSet
  <2> QED BY <2>2, <2>4, <2>5
<1> HIDE DEF q
<1>6. Nowhere(t) /\ Nowhere(x) BY <1>1, RunnerIsNowhere, NewcomerIsNowhere
<1>16. /\ ~Waits(x) /\ running # x /\ inside[x] = NoLock
       /\ (\A l \in Lock : x \notin Queuing(l)) /\ (\A e \in Event : x \notin eventWaiters[e])
       /\ (\A c \in Cond : x \notin condWaiters[c])
       /\ (\A l \in Lock : owner[l] # x) /\ \A r \in ToSet(tasks) : r.task # x
  BY <1>1, NewcomerIsNowhere
<1>7. /\ Apart' /\ (\A y \in Task : Nowhere(y)' <=> (Nowhere(y) /\ y \notin {t, x}))
      /\ Ready' = Ready \cup {t, x}
      /\ \A r \in ToSet(tasks') : r \in ToSet(tasks) \/ r = Wakeup(x) \/ r = p
      /\ \A l \in Lock : Queuing(l)' = Queuing(l)
  <2>1. \A y \in ToSet(Names(q)) : Nowhere(y) BY <1>5, <1>6
  <2>2. /\ Apart' /\ (\A y \in Task : Nowhere(y)' <=> (Nowhere(y) /\ y \notin ToSet(Names(q))))
        /\ Ready' = Ready \cup ToSet(Names(q))
        /\ \A r \in ToSet(tasks') : r \in ToSet(tasks) \/ r \in ToSet(q)
        /\ \A l \in Lock : Queuing(l)' = Queuing(l)
    BY <1>1, <1>4, <1>5, <2>1, PacketsPark, LiveTypes DEF Live
  <2> QED BY <1>5, <2>2
<1>8. WaitsApart' /\ \A y \in Task : Waits(y)' <=> Waits(y) BY <1>1, SameWaits DEF Live
<1>9. \A y \in Task : at'[y] = IF y = t THEN "yield" ELSE IF y = x THEN "start" ELSE at[y]
  BY <1>1, <1>2, LiveTypes
<1>10. /\ ~Waits(t) /\ (\A l \in Lock : t \notin Queuing(l))
       /\ (\A e \in Event : t \notin eventWaiters[e])
       /\ (\A c \in Cond : t \notin condWaiters[c])
       /\ \A r \in ToSet(tasks) : r.task # t /\ r.task \in Task
       /\ NoTask \notin Task
  BY <1>1, RunnerIsNowhere, LiveTypes
<1>15. running = t /\ running' = NoTask /\ UNCHANGED <<inside, lockless, owner, eventWaiters, condWaiters>>
  BY <1>1
<1>11. Placed'
  <2>1. ASSUME NEW y \in Task
        PROVE  /\ Waits(y)' => Nowhere(y)'
               /\ Nowhere(y)' /\ ~Waits(y)' <=> at'[y] \in {"absent", "closed"} \/ running' = y
    <3>1. CASE y \in {t, x} BY <1>16, <1>7, <1>8, <1>9, <1>10, <1>15, <2>1, <3>1
    <3>2. CASE y \notin {t, x}
      <4>1. at'[y] = at[y] BY <1>9, <3>2
      <4> QED BY <1>7, <1>8, <1>10, <1>15, <2>1, <3>2, <4>1 DEF Live, Placed
    <3> QED BY <3>1, <3>2
  <2> QED BY <2>1 DEF Placed
<1>12. Homes'
  <2>1. ASSUME NEW y \in Task
        PROVE  /\ at'[y] = "run" <=> running' = y
               /\ \A l \in Lock : y \in Queuing(l)' => at'[y] \in {"acquire", "wait"} /\ inside'[y] = l
               /\ \A c \in Cond : y \in condWaiters'[c] => at'[y] = "wait" /\ inside'[y] = LockOf[c]
               /\ \A e \in Event : y \in eventWaiters'[e] => at'[y] = "yield"
               /\ Waits(y)' => at'[y] = "yield"
               /\ at'[y] \in {"absent", "start", "closed"} => inside'[y] = NoLock
               /\ at'[y] = "wait" => inside'[y] # NoLock
               /\ y \in lockless' => inside'[y] # NoLock /\ at'[y] \in {"run", "yield", "release"}
    <3>4. /\ t \in lockless => inside[t] # NoLock
          /\ x \notin lockless
      BY <1>16 DEF Live, Homes
    <3>1. CASE y = t BY <1>7, <1>8, <1>9, <1>10, <1>15, <2>1, <3>1, <3>4
    <3>2. CASE y = x BY <1>2, <1>16, <1>7, <1>8, <1>9, <1>10, <1>15, <2>1, <3>2, <3>4
    <3>3. CASE y \notin {t, x}
      <4>1. at'[y] = at[y] /\ (running = t => running # y) BY <1>9, <3>3
      <4> QED BY <1>7, <1>8, <1>10, <1>15, <2>1, <3>3, <4>1 DEF Live, Homes
    <3> QED BY <3>1, <3>2, <3>3
  <2> QED BY <2>1 DEF Homes
<1>13. Letters'
  <2>1. \A r \in ToSet(tasks) : at'[r.task] = at[r.task] BY <1>16, <1>9, <1>10
  <2>2. at'[t] = "yield" /\ at'[x] = "start" BY <1>2, <1>9
  <2> QED BY <1>3, <1>7, <1>15, <2>1, <2>2 DEF Live, Letters
<1>14. Owners' BY <1>1, <1>2, <1>16, <1>7, <1>9, LiveTypes DEF Live, Owners, InSection
<1> QED BY <1>7, <1>8, <1>11, <1>12, <1>13, <1>14 DEF Live

-----------------------------------------------------------------------------
(* Cancellation.                                                              *)

\* The task that is cancelled is suspended in one place, has no lock that it is about
\* to be resumed with, and leaves that place for the run queue.
LEMMA CancelMoves ==
    ASSUME TypeInv, Live, CancelParkedOnly, NEW t \in Task, NEW x \in Task,
           MayCancel(t, x), Cancel(x)
    PROVE  /\ x # t /\ x # running /\ at[x] \in {"yield", "acquire", "wait"} /\ x \notin Ready
           /\ \A y \in Task : x \notin Joining(y)
           /\ \A l \in Lock : owner[l] = x => at[x] = "yield"
           /\ Apart' /\ Ready' = Ready \cup {x} /\ owner' = owner
           /\ \A l \in Lock : Queuing(l)' = Queuing(l) \ {x}
           /\ \A e \in Event : eventWaiters'[e] = eventWaiters[e] \ {x}
           /\ \A c \in Cond : condWaiters'[c] = condWaiters[c] \ {x}
           /\ \A y \in Task : sleeping'[y] = IF y = x THEN 0 ELSE sleeping[y]
           /\ \A s \in Socket : network'[s] = IF network[s] = x THEN NoTask ELSE network[s]
           /\ \A p \in ToSet(tasks') : p \in ToSet(tasks) \/ (p.task = x /\ p.kind = "cancelled")
<1>1. Parked(x) /\ x # t BY DEF MayCancel, Cancel
<1>2. \/ sleeping[x] = 1
      \/ \E s \in Socket : network[s] = x
      \/ \E e \in Event : x \in eventWaiters[e]
      \/ \E l \in Lock : x \in Queuing(l)
      \/ \E c \in Cond : x \in condWaiters[c]
  BY <1>1 DEF Parked, Queuing, Live, WaitsApart
<1>3. at[x] \in {"yield", "acquire", "wait"} /\ x # running
  BY <1>2 DEF Live, Homes, Waits
<1>4. x \notin Ready BY <1>2 DEF Live, Placed, Nowhere, Apart, Waits
<1>5. \A y \in Task : x \notin Joining(y)
  BY <1>2 DEF Live, WaitsApart, Placed, Nowhere, Waits
<1>6. \A l \in Lock : owner[l] = x => at[x] = "yield" BY <1>3, <1>4 DEF Live, Owners
<1> DEFINE p == Injected(x)
<1>7. p \in Packet /\ p.task = x /\ p.kind = "cancelled"
  BY DEF Injected, Packet, ExcKind
<1>8. RemoveFromSync(x) /\ tasks' = Append(tasks, p) /\ sleeping' = [sleeping EXCEPT ![x] = 0]
      /\ network' \in DropFromOne(network, {s \in Socket : network[s] = x}, LAMBDA o : NoTask)
  BY DEF Cancel
<1>9. /\ \A q \in ToSet(tasks') : q \in ToSet(tasks) \/ q = p
  BY <1>7, <1>8, AppendMembers, LiveTypes
<1>10. \A s \in Socket : network'[s] = IF network[s] = x THEN NoTask ELSE network[s]
  <2> DEFINE S == {s \in Socket : network[s] = x}
  <2>1. CASE S = {}
    <3>1. network' = network BY <1>8, <2>1 DEF DropFromOne
    <3> QED BY <2>1, <3>1
  <2>2. CASE S # {}
    <3>1. PICK s \in S : network' = [network EXCEPT ![s] = NoTask]
      BY <1>8, <2>2 DEF DropFromOne
    <3>2. \A r \in Socket \ {s} : network[r] # x BY <3>1 DEF Live, WaitsApart
    <3> QED BY <3>1, <3>2, LiveTypes
  <2> QED BY <2>1, <2>2
<1> HIDE DEF p
<1>11. /\ Apart' /\ Ready' = Ready \cup {x}
       /\ \A l \in Lock : Queuing(l)' = Queuing(l) \ {x}
       /\ \A e \in Event : eventWaiters'[e] = eventWaiters[e] \ {x}
       /\ \A c \in Cond : condWaiters'[c] = condWaiters[c] \ {x}
  BY <1>4, <1>7, <1>8, RemoveMoves, LiveTypes DEF Live
<1>12. owner' = owner BY <1>8 DEF RemoveFromSync
<1> QED BY <1>1, <1>3, <1>4, <1>5, <1>6, <1>7, <1>8, <1>9, <1>10, <1>11, <1>12, LiveTypes

\* EventLoop.cancel(), in the middle of a turn, or at its end by a task that waits for
\* the end of the one it cancels.
LEMMA CancelHolds ==
    ASSUME TypeInv, Live, CancelParkedOnly, NEW t \in Task, NEW x \in Task,
           running = t, at[t] = "run", MayCancel(t, x), Cancel(x),
           UNCHANGED <<inside, lockless>>,
           NEW awaits \in BOOLEAN,
           IF awaits
             THEN /\ at' = [at EXCEPT ![t] = "yield"] /\ running' = NoTask
                  /\ watching' = [watching EXCEPT ![x] = Append(@, t)]
             ELSE UNCHANGED <<at, running, watching>>
    PROVE  Live'
<1>1. /\ x # t /\ at[x] \in {"yield", "acquire", "wait"} /\ x \notin Ready
      /\ \A y \in Task : x \notin Joining(y)
      /\ \A l \in Lock : owner[l] = x => at[x] = "yield"
      /\ Apart' /\ Ready' = Ready \cup {x} /\ owner' = owner
      /\ \A l \in Lock : Queuing(l)' = Queuing(l) \ {x}
      /\ \A e \in Event : eventWaiters'[e] = eventWaiters[e] \ {x}
      /\ \A c \in Cond : condWaiters'[c] = condWaiters[c] \ {x}
      /\ \A y \in Task : sleeping'[y] = IF y = x THEN 0 ELSE sleeping[y]
      /\ \A s \in Socket : network'[s] = IF network[s] = x THEN NoTask ELSE network[s]
      /\ \A p \in ToSet(tasks') : p \in ToSet(tasks) \/ (p.task = x /\ p.kind = "cancelled")
  BY CancelMoves
<1>2. /\ Nowhere(t) /\ ~Waits(t) /\ (\A l \in Lock : t \notin Queuing(l))
      /\ (\A e \in Event : t \notin eventWaiters[e])
      /\ (\A c \in Cond : t \notin condWaiters[c])
      /\ sleeping[t] = 0 /\ (\A s \in Socket : network[s] # t)
      /\ (\A y \in Task : t \notin Joining(y))
      /\ \A p \in ToSet(tasks) : p.task # t /\ p.task \in Task /\ p.task \in Ready
      /\ NoTask \notin Task
  BY RunnerIsNowhere, LiveTypes
<1>3. /\ \A y \in Task : at'[y] = IF awaits /\ y = t THEN "yield" ELSE at[y]
      /\ running' = IF awaits THEN NoTask ELSE t
  BY LiveTypes
<1>4. \A y \in Task : /\ IsInjective(watching[y])'
                      /\ Joining(y)' = IF awaits /\ y = x THEN Joining(y) \cup {t} ELSE Joining(y)
  <2>1. CASE awaits BY <2>1, WatchMoves
  <2>2. CASE ~awaits
    <3>1. watching' = watching BY <2>2
    <3>2. \A y \in Task : IsInjective(watching[y]) BY DEF Live, WaitsApart
    <3> QED BY <2>2, <3>1, <3>2 DEF Joining
  <2> QED BY <2>1, <2>2
<1>5. \A y \in Task : Waits(y)' <=> (Waits(y) /\ y # x) \/ (awaits /\ y = t)
  BY <1>1, <1>2, <1>4 DEF Waits
<1>6. \A y \in Task : Nowhere(y)' <=> Nowhere(y) /\ y # x
  BY <1>1 DEF Nowhere
<1>7. WaitsApart'
  <2>1. ASSUME NEW y \in Task
        PROVE  /\ sleeping'[y] \in {0, 1}
               /\ sleeping'[y] = 1 => /\ \A s \in Socket : network'[s] # y
                                      /\ \A z \in Task : y \notin Joining(z)'
    BY <1>1, <1>2, <1>4, <2>1 DEF Live, WaitsApart
  <2>2. ASSUME NEW s \in Socket
        PROVE  /\ \A r \in Socket \ {s} : network'[s] \in Task => network'[r] # network'[s]
               /\ \A z \in Task : network'[s] \notin Joining(z)'
    <3>1. \A z \in Task : NoTask \notin Joining(z) BY LiveTypes
    <3> QED BY <1>1, <1>2, <1>4, <2>2, <3>1 DEF Live, WaitsApart
  <2>3. \A y \in Task : \A z \in Task \ {y} : Joining(y)' \cap Joining(z)' = {}
    BY <1>2, <1>4 DEF Live, WaitsApart
  <2> QED BY <1>4, <2>1, <2>2, <2>3 DEF WaitsApart
<1>8. Placed'
  <2>1. ASSUME NEW y \in Task
        PROVE  /\ Waits(y)' => Nowhere(y)'
               /\ Nowhere(y)' /\ ~Waits(y)' <=> at'[y] \in {"absent", "closed"} \/ running' = y
    BY <1>1, <1>2, <1>3, <1>5, <1>6, <2>1 DEF Live, Placed
  <2> QED BY <2>1 DEF Placed
<1>9. Homes' BY <1>1, <1>2, <1>3, <1>5 DEF Live, Homes
<1>10. Letters'
  <2>1. \A p \in ToSet(tasks) : at'[p.task] = at[p.task] BY <1>2, <1>3
  <2>2. at'[x] = at[x] BY <1>1, <1>3
  <2> QED BY <1>1, <2>1, <2>2 DEF Live, Letters
<1>11. Owners' BY <1>1, <1>2, <1>3 DEF Live, Owners, InSection
<1> QED BY <1>1, <1>7, <1>8, <1>9, <1>10, <1>11 DEF Live

-----------------------------------------------------------------------------
(* The commands of task handles, the clock and the sockets.                   *)

\* A join is answered at once, or the task watches.
LEMMA JoinHolds ==
    ASSUME TypeInv, Live, NEW t \in Task, NEW x \in Task, JoinCommand(t, x)
    PROVE  Live'
<1>1. /\ running = t /\ at[t] = "run" /\ at' = [at EXCEPT ![t] = "yield"] /\ running' = NoTask
      /\ UNCHANGED <<syncVars, inside, lockless, sleeping, network>>
  BY DEF JoinCommand, Yield, Running, parkVars
<1>2. CASE Done(x)
  <2>1. OutcomePacket(t, x) \in Packet /\ OutcomePacket(t, x).task = t
    BY <1>2, OutcomePacketType DEF TypeInv, OutcomePacket
  <2>2. tasks' = Append(tasks, OutcomePacket(t, x)) /\ UNCHANGED watching
    BY <1>2 DEF JoinCommand
  <2> QED BY <1>1, <2>1, <2>2, AnswerHolds
<1>3. CASE ~Done(x)
  <2>1. watching' = [watching EXCEPT ![x] = Append(@, t)] /\ UNCHANGED tasks
    BY <1>3 DEF JoinCommand
  <2>2. WaitsApart' /\ \A y \in Task : Waits(y)' <=> (Waits(y) \/ y = t)
    BY <1>1, <2>1, WatchMoves
  <2> QED BY <1>1, <2>1, <2>2, WaitHolds
<1> QED BY <1>2, <1>3

\* cancel(), with and without await.
LEMMA CancelCommandHolds ==
    ASSUME TypeInv, Live, CancelParkedOnly, NEW t \in Task, NEW x \in Task,
           CancelNoAwait(t, x) \/ AwaitCancel(t, x)
    PROVE  Live'
<1>1. CASE CancelNoAwait(t, x)
  <2>1. /\ running = t /\ at[t] = "run" /\ MayCancel(t, x) /\ Cancel(x)
        /\ UNCHANGED <<inside, lockless, at, running, watching>>
    BY <1>1 DEF CancelNoAwait, Running, progVars
  <2> DEFINE awaits == FALSE
  <2>2. awaits \in BOOLEAN OBVIOUS
  <2>3. IF awaits
          THEN /\ at' = [at EXCEPT ![t] = "yield"] /\ running' = NoTask
               /\ watching' = [watching EXCEPT ![x] = Append(@, t)]
          ELSE UNCHANGED <<at, running, watching>>
    BY <2>1
  <2> HIDE DEF awaits
  <2> QED BY <2>1, <2>2, <2>3, CancelHolds
<1>2. CASE AwaitCancel(t, x)
  <2>1. /\ running = t /\ at[t] = "run" /\ MayCancel(t, x) /\ UNCHANGED <<inside, lockless>>
        /\ at' = [at EXCEPT ![t] = "yield"] /\ running' = NoTask
    BY <1>2 DEF AwaitCancel, Yield, Running
  <2>2. CASE Done(x) /\ tasks' = Append(tasks, OutcomePacket(t, x))
             /\ UNCHANGED <<syncVars, parkVars, joinVars>>
    <3>1. OutcomePacket(t, x) \in Packet /\ OutcomePacket(t, x).task = t
      BY <2>2, OutcomePacketType DEF TypeInv, OutcomePacket
    <3> QED BY <2>1, <2>2, <3>1, AnswerHolds DEF parkVars, joinVars
  <2>3. CASE ~Done(x) /\ x \in pending /\ Watch(t, x)
             /\ UNCHANGED <<tasks, syncVars, parkVars, pending>>
    <3>1. /\ watching' = [watching EXCEPT ![x] = Append(@, t)]
          /\ UNCHANGED <<tasks, syncVars, sleeping, network>>
      BY <2>3 DEF Watch, parkVars
    <3>2. WaitsApart' /\ \A y \in Task : Waits(y)' <=> (Waits(y) \/ y = t)
      BY <2>1, <3>1, WatchMoves
    <3> QED BY <2>1, <3>1, <3>2, WaitHolds
  <2>4. CASE Cancel(x) /\ Watch(t, x)
    <3> DEFINE awaits == TRUE
    <3>1. awaits \in BOOLEAN OBVIOUS
    <3>2. IF awaits
            THEN /\ at' = [at EXCEPT ![t] = "yield"] /\ running' = NoTask
                 /\ watching' = [watching EXCEPT ![x] = Append(@, t)]
            ELSE UNCHANGED <<at, running, watching>>
      BY <2>1, <2>4 DEF Watch
    <3> HIDE DEF awaits
    <3> QED BY <2>1, <2>4, <3>1, <3>2, CancelHolds
  <2> QED BY <1>2, <2>2, <2>3, <2>4 DEF AwaitCancel
<1> QED BY <1>1, <1>2

\* sleep() and the socket operations, unless their handler raises.
LEMMA ParkHolds ==
    ASSUME TypeInv, Live, NEW t \in Task,
           SleepCommand(t) \/ \E s \in Socket : SocketCommand(t, s), loop' = "running"
    PROVE  Live'
<1>1. CASE SleepCommand(t)
  <2>1. /\ running = t /\ at[t] = "run" /\ at' = [at EXCEPT ![t] = "yield"] /\ running' = NoTask
        /\ UNCHANGED <<syncVars, inside, lockless, network, watching>>
    BY <1>1 DEF SleepCommand, Yield, Running, joinVars
  <2>2. CASE Requeue(t) /\ UNCHANGED sleeping
    <3>1. Wakeup(t) \in Packet /\ Wakeup(t).task = t BY WakeupType DEF Wakeup
    <3> QED BY <2>1, <2>2, <3>1, AnswerHolds DEF Requeue
  <2>3. CASE sleeping' = [sleeping EXCEPT ![t] = @ + 1] /\ UNCHANGED tasks
    <3>1. WaitsApart' /\ \A y \in Task : Waits(y)' <=> (Waits(y) \/ y = t)
      BY <2>1, <2>3, SleepMoves
    <3> QED BY <2>1, <2>3, <3>1, WaitHolds
  <2> QED BY <1>1, <2>2, <2>3 DEF SleepCommand
<1>2. ASSUME NEW s \in Socket, SocketCommand(t, s) PROVE Live'
  <2>1. /\ running = t /\ at[t] = "run" /\ at' = [at EXCEPT ![t] = "yield"] /\ running' = NoTask
        /\ UNCHANGED <<tasks, syncVars, inside, lockless, sleeping, watching>>
    BY <1>2 DEF SocketCommand, Yield, Running, joinVars
  <2>2. network[s] = NoTask /\ network' = [network EXCEPT ![s] = t]
    BY <1>2 DEF SocketCommand
  <2>3. WaitsApart' /\ \A y \in Task : Waits(y)' <=> (Waits(y) \/ y = t)
    BY <2>1, <2>2, SocketMoves
  <2> QED BY <2>1, <2>3, WaitHolds
<1> QED BY <1>1, <1>2

\* The end of a sleep, and a socket that is ready.
LEMMA DueHolds ==
    ASSUME TypeInv, Live,
           (\E t \in Task : SleeperDue(t)) \/ \E s \in Socket : SocketReady(s)
    PROVE  Live'
<1>1. ASSUME NEW t \in Task, SleeperDue(t) PROVE Live'
  <2>1. /\ sleeping[t] > 0 /\ sleeping' = [sleeping EXCEPT ![t] = @ - 1]
        /\ tasks' = Append(tasks, Wakeup(t))
        /\ UNCHANGED <<syncVars, running, at, inside, lockless, network, watching>>
    BY <1>1 DEF SleeperDue, progVars, joinVars
  <2>2. WaitsApart' /\ \A x \in Task : Waits(x)' <=> (Waits(x) /\ x # t)
    BY <2>1, SleepMoves
  <2>3. Waits(t) BY <2>1 DEF Waits
  <2> QED BY <2>1, <2>2, <2>3, WakeHolds
<1>2. ASSUME NEW s \in Socket, SocketReady(s) PROVE Live'
  <2>1. PICK t \in Task : t = network[s] BY <1>2, LiveTypes DEF SocketReady, TaskOrNone
  <2>2. /\ network[s] = t /\ network' = [network EXCEPT ![s] = NoTask]
        /\ tasks' = Append(tasks, Wakeup(t))
        /\ UNCHANGED <<syncVars, running, at, inside, lockless, sleeping, watching>>
    BY <1>2, <2>1 DEF SocketReady, progVars, joinVars
  <2>3. WaitsApart' /\ \A x \in Task : Waits(x)' <=> (Waits(x) /\ x # t)
    BY <2>2, SocketMoves
  <2>4. Waits(t) BY <2>2 DEF Waits
  <2> QED BY <2>2, <2>3, <2>4, WakeHolds
<1> QED BY <1>1, <1>2

\* A coroutine returns or raises.
LEMMA EndHolds ==
    ASSUME TypeInv, Live, NEW t \in Task, Return(t) \/ Raise(t)
    PROVE  Live'
<1>1. running = t /\ inside[t] = NoLock BY DEF Return, Raise, Running
<1>2. CASE Return(t)
  <2>1. Close(t, tasks, [kind |-> "result", of |-> t]) BY <1>2 DEF Return, Finish
  <2>2. [kind |-> "result", of |-> t] \in [kind : {"result"} \cup ExcKind, of : Task] OBVIOUS
  <2> QED BY <1>1, <2>1, <2>2, CloseHolds
<1>3. CASE Raise(t)
  <2>1. [kind |-> "error", of |-> t] \in Exc BY DEF Exc, ExcKind
  <2>2. caught[t] \subseteq Exc BY DEF TypeInv, LoopTypeOK
  <2>3. PICK e \in Exc : Fail(t, tasks, e) BY <1>3, <2>1, <2>2 DEF Raise
  <2>4. e \in [kind : {"result"} \cup ExcKind, of : Task] BY DEF Exc
  <2> QED BY <1>1, <2>3, <2>4, CloseHolds DEF Fail
<1> QED BY <1>2, <1>3

-----------------------------------------------------------------------------
(* The whole loop.                                                            *)

\* What is said of the locks while the loop runs is what the properties ask for.
LEMMA LiveOwns == TypeInv /\ Live => InsideOwns /\ OwnerWillRelease
<1> SUFFICES ASSUME TypeInv, Live PROVE InsideOwns /\ OwnerWillRelease OBVIOUS
<1>1. InsideOwns BY DEF Live, Owners, InsideOwns
<1>2. \A l \in Lock : owner[l] # NoTask => owner[l] \in Task BY LiveTypes DEF TaskOrNone
<1>3. OwnerWillRelease BY <1>2 DEF Live, Owners, OwnerWillRelease
<1> QED BY <1>1, <1>3

\* The same of the next state.
LEMMA LiveOwnsNext == TypeInv' /\ Live' => InsideOwns' /\ OwnerWillRelease'
BY LiveOwns, PTL

\* A command that ends the loop leaves the locks as they are.
LEMMA LeaveOwns ==
    ASSUME TypeInv, Live, NEW t \in Task, at[t] = "run",
           NEW place \in {"yield", "wait"}, at' = [at EXCEPT ![t] = place],
           UNCHANGED <<inside, lockless, owner>>
    PROVE  InsideOwns' /\ OwnerWillRelease'
<1>1. \A x \in Task : at'[x] = IF x = t THEN place ELSE at[x] BY LiveTypes
<1>2. InsideOwns /\ OwnerWillRelease BY LiveOwns
<1>3. InsideOwns' BY <1>1, <1>2 DEF InsideOwns, InSection
<1>4. \A l \in Lock : owner[l] # NoTask => owner[l] \in Task BY LiveTypes DEF TaskOrNone
<1>5. OwnerWillRelease' BY <1>1, <1>2, <1>4 DEF OwnerWillRelease
<1> QED BY <1>3, <1>5

\* Every step keeps LoopInv.
LEMMA NextLoop == CancelParkedOnly /\ LoopInv /\ [Next]_vars => LoopInv'
<1> SUFFICES ASSUME CancelParkedOnly, LoopInv, [Next]_vars PROVE LoopInv' OBVIOUS
<1>1. TypeInv' BY NextType DEF LoopInv
<1>2. Live' => LoopInv' BY <1>1, LiveOwnsNext DEF LoopInv
<1>3. TypeInv /\ (loop = "running" => Live) BY DEF LoopInv
<1> DEFINE Leaves(t) == /\ at[t] = "run"
                        /\ \E place \in {"yield", "wait"} : at' = [at EXCEPT ![t] = place]
                        /\ UNCHANGED <<inside, lockless, owner>> /\ loop' # "running"
<1>4. ASSUME NEW t \in Task, loop = "running", Leaves(t) PROVE LoopInv'
  BY <1>1, <1>3, <1>4, LeaveOwns DEF LoopInv
<1>5. CASE Dispatch
  <2>1. loop = "running" BY <1>5 DEF Dispatch, Idle
  <2> QED BY <1>2, <1>3, <1>5, <2>1, DispatchHolds
<1>6. CASE Stop
  <2>1. loop' = "stopped" /\ UNCHANGED <<at, inside, lockless, owner>> BY <1>6 DEF Stop, progVars, syncVars
  <2> QED BY <1>1, <2>1 DEF LoopInv, InsideOwns, OwnerWillRelease, InSection
<1>7. CASE (\E t \in Task : SleeperDue(t)) \/ \E s \in Socket : SocketReady(s)
  <2>1. loop = "running" BY <1>7 DEF SleeperDue, SocketReady, Idle
  <2> QED BY <1>2, <1>3, <1>7, <2>1, DueHolds
<1>8. ASSUME NEW x \in Task, CreateTask(x) PROVE LoopInv'
  <2>1. loop = "running" BY <1>8 DEF CreateTask
  <2> QED BY <1>2, <1>3, <1>8, <2>1, CreateHolds
<1>9. ASSUME NEW t \in Task, Return(t) \/ Raise(t) PROVE LoopInv'
  <2>1. loop = "running" BY <1>9 DEF Return, Raise, Running
  <2> QED BY <1>2, <1>3, <1>9, <2>1, EndHolds
<1>10. ASSUME NEW t \in Task, NEW x \in Task, SpawnCommand(t, x) PROVE LoopInv'
  <2>1. loop = "running" BY <1>10 DEF SpawnCommand, Running
  <2> QED BY <1>2, <1>3, <1>10, <2>1, SpawnHolds
<1>11. ASSUME NEW t \in Task, NEW x \in Task, JoinCommand(t, x) PROVE LoopInv'
  <2>1. loop = "running" BY <1>11 DEF JoinCommand, Yield, Running
  <2> QED BY <1>2, <1>3, <1>11, <2>1, JoinHolds
<1>12. ASSUME NEW t \in Task, NEW x \in Task, CancelNoAwait(t, x) \/ AwaitCancel(t, x)
       PROVE  LoopInv'
  <2>1. loop = "running" BY <1>12 DEF CancelNoAwait, AwaitCancel, Yield, Running
  <2> QED BY <1>2, <1>3, <1>12, <2>1, CancelCommandHolds
<1>13. ASSUME NEW t \in Task, SleepCommand(t) PROVE LoopInv'
  <2>1. /\ loop = "running" /\ (loop' = "running" \/ loop' = "raised")
        /\ at[t] = "run" /\ at' = [at EXCEPT ![t] = "yield"] /\ UNCHANGED <<inside, lockless, owner>>
    BY <1>13 DEF SleepCommand, Yield, Running, syncVars
  <2> QED BY <1>2, <1>3, <1>4, <1>13, <2>1, ParkHolds
<1>14. ASSUME NEW t \in Task, NEW s \in Socket, SocketCommand(t, s) PROVE LoopInv'
  <2>1. /\ loop = "running" /\ (loop' = "running" \/ loop' = "raised")
        /\ at[t] = "run" /\ at' = [at EXCEPT ![t] = "yield"] /\ UNCHANGED <<inside, lockless, owner>>
    BY <1>14 DEF SocketCommand, Yield, Running, syncVars
  <2> QED BY <1>2, <1>3, <1>4, <1>14, <2>1, ParkHolds
<1>15. ASSUME NEW t \in Task, ExitCommand(t) PROVE LoopInv'
  <2>1. /\ loop = "running" /\ loop' # "running"
        /\ at[t] = "run" /\ at' = [at EXCEPT ![t] = "yield"] /\ UNCHANGED <<inside, lockless, owner>>
    BY <1>15 DEF ExitCommand, Yield, Running, syncVars
  <2> QED BY <1>4, <2>1
<1>16. ASSUME NEW t \in Task, NEW e \in Event, EventWaitCommand(t, e) \/ EventSetCommand(t, e)
       PROVE  LoopInv'
  <2>1. loop = "running" BY <1>16 DEF EventWaitCommand, EventSetCommand, Yield, Running
  <2> QED BY <1>2, <1>3, <1>16, <2>1, EventHolds
<1>17. ASSUME NEW t \in Task, NEW l \in Lock, LockAcquireCommand(t, l) \/ LockReleaseCommand(t, l)
       PROVE  LoopInv'
  <2>1. loop = "running" BY <1>17 DEF LockAcquireCommand, LockReleaseCommand, Yield, Running
  <2> QED BY <1>2, <1>3, <1>17, <2>1, LockAcquireHolds, LockReleaseHolds
<1>18. ASSUME NEW t \in Task, NEW c \in Cond,
              ConditionWaitCommand(t, c) \/ ConditionNotifyCommand(t, c)
       PROVE  LoopInv'
  <2>1. loop = "running" BY <1>18 DEF ConditionWaitCommand, ConditionNotifyCommand, Yield, Running
  <2>2. CASE t \in lockless BY <1>3, <1>4, <1>18, <2>1, <2>2, LocklessRaises
  <2>3. CASE t \notin lockless
    BY <1>2, <1>3, <1>18, <2>1, <2>3, ConditionWaitHolds, ConditionNotifyHolds
  <2> QED BY <2>2, <2>3
<1>19. ASSUME NEW t \in Task, Turn(t) PROVE LoopInv'
  BY <1>9, <1>10, <1>11, <1>12, <1>13, <1>14, <1>15, <1>16, <1>17, <1>18, <1>19 DEF Turn
<1>20. CASE UNCHANGED vars
  <2>1. (loop = "running" => Live) => (loop = "running" => Live)'
    BY SMTT(60), <1>20 DEF vars, syncVars, progVars, parkVars, joinVars, Live, Apart, WaitsApart, Placed,
       Homes, Letters, Owners, Nowhere, Waits, Joining, Ready, Queuing, InSection
  <2>2. InsideOwns' /\ OwnerWillRelease'
    BY <1>20 DEF LoopInv, vars, syncVars, progVars, InsideOwns, OwnerWillRelease, InSection
  <2> QED BY <1>1, <1>3, <2>1, <2>2 DEF LoopInv
<1> QED BY <1>5, <1>6, <1>7, <1>8, <1>19, <1>20 DEF Next, LoopStep

\* In the beginning the root is queued and everybody else is nowhere.
LEMMA InitLoop == Init => LoopInv
<1> SUFFICES ASSUME Init PROVE LoopInv OBVIOUS
<1>1. TypeInv BY InitType
<1>2. Root \in Task /\ NoTask \notin Task BY LoopAssumption, SyncAssumption
<1>3. Ready = {Root} /\ IsInjective(Names(tasks))
  BY <1>2, OneName DEF Init, Ready
<1>4. \A l \in Lock : Queuing(l) = {} /\ IsInjective(lockWaiters[l]) /\ owner[l] = NoTask
  BY OneName DEF Init, SyncInit, Queuing
<1>5. (\A e \in Event : eventWaiters[e] = {}) /\ \A c \in Cond : condWaiters[c] = {}
  BY DEF Init, SyncInit
<1>6. Apart BY <1>3, <1>4, <1>5 DEF Apart
<1>7. \A x \in Task : /\ Joining(x) = {} /\ IsInjective(watching[x])
                      /\ sleeping[x] = 0 /\ inside[x] = NoLock /\ x \notin lockless
                      /\ at[x] = IF x = Root THEN "start" ELSE "absent"
  BY OneName DEF Init, Joining
<1>8. running = NoTask /\ \A s \in Socket : network[s] = NoTask BY DEF Init
<1>9. WaitsApart BY <1>2, <1>7, <1>8 DEF WaitsApart
<1>10. \A x \in Task : ~Waits(x) /\ (Nowhere(x) <=> x # Root)
  BY <1>2, <1>3, <1>4, <1>5, <1>7, <1>8 DEF Waits, Nowhere
<1>11. Placed BY <1>2, <1>7, <1>8, <1>10 DEF Placed
<1>12. Homes BY <1>2, <1>4, <1>5, <1>7, <1>8, <1>10 DEF Homes
<1>13. \A p \in ToSet(tasks) : p.task = Root /\ p.kind = "none"
  <2>1. tasks = <<Wakeup(Root)>> BY DEF Init
  <2>2. DOMAIN tasks = 1..1 /\ tasks[1] = Wakeup(Root) /\ \A i \in 1..1 : i = 1 BY <2>1
  <2>3. Wakeup(Root).task = Root /\ Wakeup(Root).kind = "none" BY DEF Wakeup
  <2> QED BY <2>2, <2>3, Zenon DEF ToSet
<1>14. Letters BY <1>2, <1>7, <1>13 DEF Letters
<1>15. Owners BY <1>2, <1>4, <1>7, LoopAssumption DEF Owners, InSection
<1>16. Live BY <1>6, <1>9, <1>11, <1>12, <1>14, <1>15 DEF Live
<1> QED BY <1>1, <1>16, LiveOwns DEF LoopInv

-----------------------------------------------------------------------------
(* The places, counted.                                                       *)

\* The size of a set that has one member at most.
LEMMA AtMostOne ==
    ASSUME NEW S, \A x, y \in S : x = y
    PROVE  Cardinality(S) = IF S = {} THEN 0 ELSE 1
<1>1. CASE S = {} BY <1>1, FS_EmptySet
<1>2. CASE S # {}
  <2>1. PICK x \in S : TRUE BY <1>2
  <2>2. S = {x} BY <2>1
  <2> QED BY <1>2, <2>2, FS_Singleton
<1> QED BY <1>1, <1>2

\* A task that is in one deque of the table at most, once, has one entry or none.
LEMMA EntriesCount ==
    ASSUME NEW f, NEW t, \A k \in DOMAIN f : IsInjective(f[k]),
           \A k, m \in DOMAIN f : t \in ToSet(f[k]) /\ t \in ToSet(f[m]) => k = m
    PROVE  Cardinality(Entries(f, t)) = IF \E k \in DOMAIN f : t \in ToSet(f[k]) THEN 1 ELSE 0
<1>1. \A e : e \in Entries(f, t) <=>
         \E k \in DOMAIN f : \E i \in DOMAIN f[k] : f[k][i] = t /\ e = <<k, i>>
  BY DEF Entries
<1>2. \A k \in DOMAIN f : t \in ToSet(f[k]) <=> \E i \in DOMAIN f[k] : f[k][i] = t
  BY Zenon DEF ToSet
<1>3. \A k \in DOMAIN f : \A i, j \in DOMAIN f[k] : f[k][i] = f[k][j] => i = j
  BY Zenon DEF IsInjective
<1>4. ASSUME NEW d \in Entries(f, t), NEW e \in Entries(f, t) PROVE d = e
  <2>1. PICK k \in DOMAIN f : \E i \in DOMAIN f[k] : f[k][i] = t /\ d = <<k, i>> BY <1>1
  <2>2. PICK i \in DOMAIN f[k] : f[k][i] = t /\ d = <<k, i>> BY <2>1
  <2>3. PICK m \in DOMAIN f : \E j \in DOMAIN f[m] : f[m][j] = t /\ e = <<m, j>> BY <1>1
  <2>4. PICK j \in DOMAIN f[m] : f[m][j] = t /\ e = <<m, j>> BY <2>3
  <2>5. k = m BY <1>2, <2>2, <2>4
  <2>6. i = j BY <1>3, <2>2, <2>4, <2>5
  <2> QED BY <2>2, <2>4, <2>5, <2>6
<1>5. Entries(f, t) = {} <=> ~ \E k \in DOMAIN f : t \in ToSet(f[k])
  BY ZenonT(60), <1>1, <1>2
<1> QED BY <1>4, <1>5, AtMostOne

\* The count of OnePlace.
LEMMA PlacesCount ==
    ASSUME TypeInv, Live, NEW t \in Task
    PROVE  Positions(t) = IF at[t] \in {"absent", "closed"} \/ running = t THEN 0 ELSE 1
<1> DEFINE ready == \E i \in DOMAIN tasks : tasks[i].task = t
           sleeps == sleeping[t] = 1
           socket == \E s \in Socket : network[s] = t
           event == \E e \in Event : t \in eventWaiters[e]
           queues == \E l \in Lock : t \in Queuing(l)
           cond == \E c \in Cond : t \in condWaiters[c]
           joins == \E x \in Task : t \in Joining(x)
           One(b) == IF b THEN 1 ELSE 0
<1>1. Cardinality({i \in DOMAIN tasks : tasks[i].task = t}) = One(ready) /\ (ready <=> t \in Ready)
  <2>1. tasks \in Seq(Packet) /\ IsInjective(Names(tasks)) BY LiveTypes DEF Live, Apart
  <2>2. DOMAIN tasks = 1..Len(tasks) BY <2>1, LenProperties
  <2>3. /\ DOMAIN Names(tasks) = DOMAIN tasks
        /\ \A i \in DOMAIN tasks : Names(tasks)[i] = tasks[i].task
    BY <2>2 DEF Names
  <2>4. \A i, j \in DOMAIN tasks : tasks[i].task = tasks[j].task => i = j
    <3>1. \A i, j \in DOMAIN Names(tasks) : Names(tasks)[i] = Names(tasks)[j] => i = j
      BY <2>1, Zenon DEF IsInjective
    <3> QED BY <2>3, <3>1
  <2>5. t \in Ready <=> \E i \in DOMAIN tasks : t = tasks[i].task
    <3>1. t \in Ready <=> \E i \in DOMAIN Names(tasks) : Names(tasks)[i] = t
      BY Zenon DEF Ready, ToSet
    <3> QED BY <2>3, <3>1
  <2> DEFINE S == {i \in DOMAIN tasks : tasks[i].task = t}
  <2>6. \A i, j \in S : i = j BY <2>4
  <2>7. S = {} <=> ~ready OBVIOUS
  <2> HIDE DEF S
  <2>8. Cardinality(S) = One(ready) BY <2>6, <2>7, AtMostOne
  <2> QED BY <2>5, <2>8 DEF S
<1>2. sleeping[t] = One(sleeps) BY DEF Live, WaitsApart
<1>3. Cardinality({s \in Socket : network[s] = t}) = One(socket)
  <2> DEFINE S == {s \in Socket : network[s] = t}
  <2>1. \A r, s \in S : r = s BY DEF Live, WaitsApart
  <2>2. S = {} <=> ~socket OBVIOUS
  <2> HIDE DEF S
  <2>3. Cardinality(S) = One(socket) BY <2>1, <2>2, AtMostOne
  <2> QED BY <2>3 DEF S
<1>4. Cardinality({e \in Event : t \in eventWaiters[e]}) = One(event)
  <2> DEFINE S == {e \in Event : t \in eventWaiters[e]}
  <2>1. \A e, f \in S : e = f BY DEF Live, Apart
  <2>2. S = {} <=> ~event OBVIOUS
  <2> HIDE DEF S
  <2>3. Cardinality(S) = One(event) BY <2>1, <2>2, AtMostOne
  <2> QED BY <2>3 DEF S
<1>5. Cardinality({c \in Cond : t \in condWaiters[c]}) = One(cond)
  <2> DEFINE S == {c \in Cond : t \in condWaiters[c]}
  <2>1. \A c, d \in S : c = d BY DEF Live, Apart
  <2>2. S = {} <=> ~cond OBVIOUS
  <2> HIDE DEF S
  <2>3. Cardinality(S) = One(cond) BY <2>1, <2>2, AtMostOne
  <2> QED BY <2>3 DEF S
<1>6. Cardinality(Entries(lockWaiters, t)) = One(queues)
  <2>1. DOMAIN lockWaiters = Lock BY LiveTypes DEF SyncTypeOK
  <2>2. \A l \in Lock : IsInjective(lockWaiters[l]) BY DEF Live, Apart
  <2>3. \A l, m \in Lock : t \in ToSet(lockWaiters[l]) /\ t \in ToSet(lockWaiters[m]) => l = m
    BY DEF Live, Apart, Queuing
  <2>4. Cardinality(Entries(lockWaiters, t)) =
           IF \E l \in DOMAIN lockWaiters : t \in ToSet(lockWaiters[l]) THEN 1 ELSE 0
    BY <2>1, <2>2, <2>3, EntriesCount
  <2> QED BY <2>1, <2>4 DEF Queuing
<1>7. Cardinality(Entries(watching, t)) = One(joins)
  <2>1. DOMAIN watching = Task BY LiveTypes
  <2>2. \A x \in Task : IsInjective(watching[x]) BY DEF Live, WaitsApart
  <2>3. \A x, y \in Task : t \in ToSet(watching[x]) /\ t \in ToSet(watching[y]) => x = y
    BY DEF Live, WaitsApart, Joining
  <2>4. Cardinality(Entries(watching, t)) =
           IF \E x \in DOMAIN watching : t \in ToSet(watching[x]) THEN 1 ELSE 0
    BY <2>1, <2>2, <2>3, EntriesCount
  <2> QED BY <2>1, <2>4 DEF Joining
<1>8. Positions(t) = One(ready) + One(sleeps) + One(socket) + One(event) + One(queues)
                     + One(cond) + One(joins)
  BY <1>1, <1>2, <1>3, <1>4, <1>5, <1>6, <1>7 DEF Positions
<1>9. Waits(t) <=> sleeps \/ socket \/ joins BY DEF Waits, Live, WaitsApart
<1>10. ~Nowhere(t) <=> ready \/ event \/ queues \/ cond BY <1>1 DEF Nowhere
<1>11. /\ sleeps => ~socket /\ ~joins
       /\ socket => ~joins
  BY DEF Live, WaitsApart
<1>12. /\ ready => ~event /\ ~queues /\ ~cond
       /\ event => ~queues /\ ~cond
       /\ queues => ~cond
  BY <1>1 DEF Live, Apart
<1>13. /\ Waits(t) => Nowhere(t)
       /\ Nowhere(t) /\ ~Waits(t) <=> at[t] \in {"absent", "closed"} \/ running = t
  BY DEF Live, Placed
<1> HIDE DEF ready, sleeps, socket, event, queues, cond, joins
<1> QED BY <1>8, <1>9, <1>10, <1>11, <1>12, <1>13

-----------------------------------------------------------------------------
(* The theorems.                                                              *)

\* LoopInv holds in every reachable state, for any number of tasks, sockets and
\* primitives, when programs cancel only tasks that sleep or wait for a socket, an event,
\* a lock or a condition.
LEMMA LoopIsLive ==
    ASSUME CancelParkedOnly
    PROVE  Spec => []LoopInv
<1>1. LoopInv /\ [Next]_vars => LoopInv' BY NextLoop
<1> QED BY <1>1, InitLoop, PTL DEF Spec

\* No handler of _handle_command forgets a task or parks it twice, and neither waking nor
\* cancelling (_remove_task_from_wait_states) leaves it in two places.
THEOREM EveryTaskHasOnePlace ==
    ASSUME CancelParkedOnly
    PROVE  Spec => []OnePlace
<1>1. LoopInv => OnePlace BY PlacesCount DEF LoopInv, OnePlace
<1> QED BY <1>1, LoopIsLive, PTL

\* Whoever is in the body of an `async with' block owns its lock, however the lock was
\* handed to it, and the assertions of ConditionWaitCommand and ConditionNotifyCommand
\* hold for it, exactly when no exception cut its Condition.wait() short in that block.
THEOREM SectionsAreOwned ==
    ASSUME CancelParkedOnly
    PROVE  Spec => []InsideOwns
<1>1. LoopInv => InsideOwns BY DEF LoopInv
<1> QED BY <1>1, LoopIsLive, PTL

\* Blocks of one lock exclude each other (Lock.__aenter__ and __aexit__), but for tasks
\* that go on in their block after a cancelled Condition.wait(): no other path through
\* acquire, release, wait, notify and cancel() puts a second task into a block.
THEOREM BlocksExclude ==
    ASSUME CancelParkedOnly
    PROVE  Spec => []OwnersExclude
<1>1. LoopInv => OwnersExclude BY DEF LoopInv, InsideOwns, OwnersExclude
<1> QED BY <1>1, LoopIsLive, PTL

\* The lock is never left with a task that is over or that is not in the block any more:
\* cancelling a task that queues for a lock, or that waits on a condition, does not lose it.
THEOREM OwnersWillRelease ==
    ASSUME CancelParkedOnly
    PROVE  Spec => []OwnerWillRelease
<1>1. LoopInv => OwnerWillRelease BY DEF LoopInv
<1> QED BY <1>1, LoopIsLive, PTL

-----------------------------------------------------------------------------
(* The loop implements Futures.                                               *)

\* A cancellation in the hands of a task is its own, or that of a task that is over: an
\* answer that says `cancelled' is never taken for the cancellation of who asked.
Known(t, e) == e.kind = "cancelled" => e.of = t \/ at[e.of] = "closed"

OutcomeInv ==
    /\ \A x \in Task : Done(x) => at[x] = "closed"
    /\ \A x \in Task : x \notin Joining(x)
    /\ \A t \in Task : \A e \in caught[t] : Known(t, e)
    /\ \A x \in Task : Known(x, exceptions[x])
    /\ \A p \in ToSet(tasks) : Known(p.task, p)

-----------------------------------------------------------------------------
(* The steps that Futures does not see.                                       *)

\* The run queue gets packets that answer nobody.
AddsQuiet ==
    /\ ToSet(tasks) \subseteq ToSet(tasks')
    /\ \A p \in ToSet(tasks') : p \in ToSet(tasks) \/ ~IsAnswer(p)

\* A task has an outcome when it is over.
LEMMA OutcomeTypes ==
    ASSUME TypeInv
    PROVE  /\ finished \subseteq Task /\ exceptions \in [Task -> Exc \cup {NoExc}]
           /\ caught \in [Task -> SUBSET Exc] /\ cancelWaiters \in [Task -> SUBSET Task]
           /\ \A x \in Task : /\ OutcomeOf(x) = NoExc <=> ~Done(x)
                              /\ Done(x) => OutcomeOf(x) \in [kind : {"result"} \cup ExcKind, of : Task]
                              /\ exceptions[x].kind = "cancelled" => exceptions[x] \in Exc
           /\ \A p \in ToSet(tasks) : IsAnswer(p) => p.of \in Task
           /\ \A p \in ToSet(tasks) : p.kind = "cancelled" => p.of \in Task
<1>1. /\ finished \subseteq Task /\ exceptions \in [Task -> Exc \cup {NoExc}]
      /\ caught \in [Task -> SUBSET Exc] /\ cancelWaiters \in [Task -> SUBSET Task]
  BY DEF TypeInv, LoopTypeOK
<1>2. NoExc.kind = "none" /\ \A e \in Exc : e.kind # "none" /\ e.kind # "result"
  BY DEF NoExc, Exc, ExcKind
<1>3. \A x \in Task : exceptions[x] \in Exc \/ exceptions[x] = NoExc BY <1>1
<1>4. \A x \in Task : OutcomeOf(x) = NoExc <=> ~Done(x)
  <2>1. \A x : [kind |-> "result", of |-> x].kind = "result" OBVIOUS
  <2> QED BY <1>2, <2>1 DEF OutcomeOf, Done
<1>5. \A x \in Task : Done(x) => OutcomeOf(x) \in [kind : {"result"} \cup ExcKind, of : Task]
  BY <1>3 DEF OutcomeOf, Done, Exc
<1>6. \A x \in Task : exceptions[x].kind = "cancelled" => exceptions[x] \in Exc
  BY <1>2, <1>3
<1>7. \A p \in ToSet(tasks) : p.kind # "none" => p.of \in Task BY LiveTypes DEF Packet
<1>8. \A p \in ToSet(tasks) : IsAnswer(p) => p.of \in Task BY <1>7 DEF IsAnswer, ExcKind
<1> QED BY <1>1, <1>4, <1>5, <1>6, <1>7, <1>8

\* The mailbox is the set of the packets that are answers.
LEMMA QuietMail ==
    ASSUME AddsQuiet
    PROVE  MailInQueue' = MailInQueue
<1>1. \A p : IsAnswer(p) => (p \in ToSet(tasks') <=> p \in ToSet(tasks)) BY DEF AddsQuiet
<1>2. {q \in ToSet(tasks') : IsAnswer(q)} = {q \in ToSet(tasks) : IsAnswer(q)} BY <1>1
<1> QED BY <1>2 DEF MailInQueue

\* What the invariant says of exceptions stays true while nobody comes back to life.
LEMMA KnownStays ==
    ASSUME TypeInv, OutcomeInv, \A x \in Task : at[x] = "closed" => at'[x] = "closed"
    PROVE  /\ \A t \in Task : \A e \in caught[t] :
                 e.kind = "cancelled" => e.of = t \/ at'[e.of] = "closed"
           /\ \A x \in Task : exceptions[x].kind = "cancelled" =>
                 exceptions[x].of = x \/ at'[exceptions[x].of] = "closed"
           /\ \A p \in ToSet(tasks) :
                 p.kind = "cancelled" => p.of = p.task \/ at'[p.of] = "closed"
<1>1. \A e \in Exc : e.of \in Task BY DEF Exc
<1> QED BY <1>1, OutcomeTypes DEF OutcomeInv, Known

\* A step that answers nobody and ends no task.
LEMMA Invisible ==
    ASSUME TypeInv, OutcomeInv, AddsQuiet, UNCHANGED <<caught, outcomeVars, watching>>,
           \A x \in Task : at[x] = "closed" => at'[x] = "closed"
    PROVE  OutcomeInv' /\ UNCHANGED F!futureVars
<1>1. MailInQueue' = MailInQueue BY QuietMail
<1>2. UNCHANGED <<caught, finished, exceptions, watching>> BY DEF outcomeVars
<1>3. UNCHANGED F!futureVars BY <1>1, <1>2 DEF F!futureVars, OutcomeOf
<1>4. \A p \in ToSet(tasks') : Known(p.task, p)'
  <2>1. \A p : ~IsAnswer(p) /\ p.kind = "cancelled" => p.of = p.task BY DEF IsAnswer, ExcKind
  <2> QED BY <2>1, KnownStays DEF AddsQuiet, Known
<1>5. \A x \in Task : x \notin Joining(x)' BY <1>2 DEF OutcomeInv, Joining
<1>6. \A x \in Task : Done(x)' => at'[x] = "closed" BY <1>2 DEF OutcomeInv, Done
<1>7. /\ \A t \in Task : \A e \in caught'[t] : Known(t, e)'
      /\ \A x \in Task : Known(x, exceptions[x])'
  BY <1>2, KnownStays DEF Known
<1> QED BY <1>3, <1>4, <1>5, <1>6, <1>7 DEF OutcomeInv

\* A packet that carries no outcome is appended, or none.
LEMMA AppendQuiet ==
    ASSUME TypeInv, \/ UNCHANGED tasks
                    \/ \E p \in Packet : p.kind \in {"none", "handle"} /\ tasks' = Append(tasks, p)
                    \/ \E t \in Task : Requeue(t)
                    \/ \E x \in Task : tasks' = Append(tasks, Injected(x))
    PROVE  AddsQuiet
<1>1. \A p : p.kind \in {"none", "handle"} => ~IsAnswer(p) BY DEF IsAnswer, ExcKind
<1>2. ASSUME NEW p \in Packet, ~IsAnswer(p), tasks' = Append(tasks, p) PROVE AddsQuiet
  <2>1. ToSet(tasks') = ToSet(tasks) \cup {p} BY <1>2, AppendMembers, LiveTypes
  <2> QED BY <1>2, <2>1 DEF AddsQuiet
<1>3. \A t \in Task : Wakeup(t) \in Packet /\ Wakeup(t).kind = "none"
  BY WakeupType DEF Wakeup
<1>4. \A x \in Task : Injected(x) \in Packet /\ ~IsAnswer(Injected(x))
  BY InjectedType DEF Injected, IsAnswer
<1>5. CASE UNCHANGED tasks BY <1>5 DEF AddsQuiet
<1> QED BY <1>1, <1>2, <1>3, <1>4, <1>5 DEF Requeue
\* The handlers of the primitives wake tasks with nothing.
LEMMA PrimitivesAddQuiet ==
    ASSUME TypeInv, NEW t \in Task,
           \/ \E e \in Event : EventWait(t, e) \/ EventSet(t, e)
           \/ \E l \in Lock : LockAcquire(t, l) \/ LockRelease(t, l)
           \/ \E c \in Cond : ConditionWait(t, c) \/ \E all \in BOOLEAN : ConditionNotify(t, c, all)
    PROVE  AddsQuiet
<1>1. \A x : ~IsAnswer(Wakeup(x)) BY DEF IsAnswer, Wakeup, ExcKind
<1>2. ASSUME Requeue(t) \/ UNCHANGED tasks PROVE AddsQuiet BY <1>2, AppendQuiet
<1>3. ASSUME NEW l \in Lock, NEW queue \in Seq(Packet), HandOver(l, queue),
             \A p \in ToSet(queue) : ~IsAnswer(p)
      PROVE  AddsQuiet
  <2>1. CASE lockWaiters[l] = <<>>
    <3>1. tasks' = tasks \o queue BY <1>3, <2>1 DEF HandOver
    <3>2. ToSet(tasks') = ToSet(tasks) \cup ToSet(queue)
      BY <3>1, ConcatMembers, LiveTypes
    <3> QED BY <1>3, <3>2 DEF AddsQuiet
  <2>2. CASE lockWaiters[l] # <<>>
    <3> DEFINE w == Wakeup(Head(lockWaiters[l]))
               q == Append(tasks, w)
    <3>1. Head(lockWaiters[l]) \in Task BY <2>2, HeadTailProperties, LiveTypes DEF SyncTypeOK
    <3>2. w \in Packet /\ ~IsAnswer(w) BY <1>1, <3>1, WakeupType
    <3>3. tasks' = q \o queue BY <2>2, <1>3 DEF HandOver
    <3> HIDE DEF w
    <3>4. q \in Seq(Packet) /\ ToSet(q) = ToSet(tasks) \cup {w}
      BY <3>2, AppendMembers, AppendProperties, LiveTypes
    <3> HIDE DEF q
    <3>5. ToSet(tasks') = ToSet(q) \cup ToSet(queue) BY <1>3, <3>3, <3>4, ConcatMembers
    <3> QED BY <1>3, <3>2, <3>4, <3>5 DEF AddsQuiet
  <2> QED BY <2>1, <2>2
<1>4. ASSUME NEW e \in Event, EventWait(t, e) \/ EventSet(t, e) PROVE AddsQuiet
  <2>1. CASE EventWait(t, e) BY <1>2, <2>1 DEF EventWait
  <2>2. CASE EventSet(t, e)
    <3>1. PICK q \in SetToSeqs(eventWaiters[e]) :
              tasks' = Append(tasks \o Wakeups(q), Wakeup(t))
      BY <2>2 DEF EventSet
    <3>2. eventWaiters[e] \in SUBSET Task BY LiveTypes
    <3>3. q \in Seq(Task) BY <3>2, SetToSeqsMembers, SeqMonotonic
    <3>4. Wakeups(q) \in Seq(Packet) /\ Wakeup(t) \in Packet
      BY <3>3, NamesWakeups, WakeupType
    <3>5. \A p \in ToSet(Wakeups(q)) : ~IsAnswer(p)
      <4>1. DOMAIN Wakeups(q) = 1..Len(q) BY DEF Wakeups
      <4>2. \A i \in 1..Len(q) : Wakeups(q)[i] = Wakeup(q[i]) BY DEF Wakeups
      <4> QED BY <1>1, <4>1, <4>2 DEF ToSet
    <3> DEFINE a == tasks \o Wakeups(q)
    <3>6. a \in Seq(Packet) /\ ToSet(a) = ToSet(tasks) \cup ToSet(Wakeups(q))
      BY <3>4, LiveTypes, ConcatMembers, ConcatProperties
    <3>7. tasks' = Append(a, Wakeup(t)) BY <3>1
    <3> HIDE DEF a
    <3>8. ToSet(tasks') = ToSet(a) \cup {Wakeup(t)} BY <3>4, <3>6, <3>7, AppendMembers
    <3> QED BY <1>1, <3>5, <3>6, <3>8 DEF AddsQuiet
  <2> QED BY <1>4, <2>1, <2>2
<1>5. ASSUME NEW l \in Lock, LockAcquire(t, l) \/ LockRelease(t, l) PROVE AddsQuiet
  <2>1. CASE LockAcquire(t, l) BY <1>2, <2>1 DEF LockAcquire
  <2>2. CASE LockRelease(t, l)
    <3>1. <<Wakeup(t)>> \in Seq(Packet) BY OneName
    <3>2. \A p \in ToSet(<<Wakeup(t)>>) : p = Wakeup(t)
      <4>1. DOMAIN <<Wakeup(t)>> = 1..1 /\ <<Wakeup(t)>>[1] = Wakeup(t) /\ \A i \in 1..1 : i = 1
        OBVIOUS
      <4> QED BY <4>1, Zenon DEF ToSet
    <3>3. Requeue(t) \/ HandOver(l, <<Wakeup(t)>>) BY <2>2 DEF LockRelease
    <3> QED BY <1>1, <1>2, <1>3, <3>1, <3>2, <3>3
  <2> QED BY <1>5, <2>1, <2>2
<1>6. ASSUME NEW c \in Cond, NEW all \in BOOLEAN, ConditionWait(t, c) \/ ConditionNotify(t, c, all)
      PROVE  AddsQuiet
  <2>1. <<>> \in Seq(Packet) /\ ToSet(<<>>) = {} BY OneName
  <2>2. Requeue(t) \/ HandOver(LockOf[c], <<>>) BY <1>6 DEF ConditionWait, ConditionNotify
  <2> QED BY <1>2, <1>3, <2>1, <2>2, LiveTypes
<1>7. TRUE \in BOOLEAN OBVIOUS
<1> QED BY <1>4, <1>5, <1>6, <1>7

-----------------------------------------------------------------------------
(* A task takes its answer.                                                   *)

\* The packet at the head of the run queue leaves it: no other packet is for its task.
LEMMA ResumeTakes ==
    ASSUME TypeInv, Live, OutcomeInv, Dispatch
    PROVE  OutcomeInv' /\ [F!Next]_F!futureVars
<1>0. PICK p \in Packet : p = Head(tasks) BY DispatchResumes
<1> DEFINE t == p.task
           m == [to |-> t, what |-> [kind |-> p.kind, of |-> p.of]]
<1>1. /\ p \in ToSet(tasks) /\ t \in Task /\ Resume(p) /\ tasks # <<>>
  BY <1>0, DispatchResumes DEF Dispatch
<1>2. /\ tasks' = Tail(tasks) /\ at[t] # "closed"
      /\ at' = [at EXCEPT ![t] = "run"]
      /\ caught' = [caught EXCEPT ![t] =
                     IF p.kind \in ExcKind THEN @ \cup {[kind |-> p.kind, of |-> p.of]} ELSE @]
      /\ UNCHANGED <<syncVars, finished, exceptions, watching>>
  BY <1>1 DEF Resume, outcomeVars, joinVars
<1>3. /\ ToSet(tasks) = ToSet(tasks') \cup {p}
      /\ \A q \in ToSet(tasks') : q.task # t
  <2>1. tasks' \in Seq(Packet) BY <1>1, <1>2, HeadAndTail
  <2>2. \A q \in ToSet(tasks') : q.task \in Ready' BY <2>1, TailReady
  <2>3. Ready' = Ready \ {t} BY <1>0, <1>1, <1>2, PopMoves, LiveTypes DEF Live
  <2>4. ToSet(tasks) = ToSet(tasks') \cup {p} BY <1>0, <1>1, <1>2, TailMembers, LiveTypes
  <2> QED BY <2>2, <2>3, <2>4
<1>4. MailInQueue' = MailInQueue \ {m} /\ (IsAnswer(p) => m \in MailInQueue)
  <2>1. \A q \in ToSet(tasks') : [to |-> q.task, what |-> [kind |-> q.kind, of |-> q.of]] # m
    <3>1. m.to = t OBVIOUS
    <3> QED BY <1>3, <3>1
  <2> QED BY <1>3, <2>1 DEF MailInQueue
<1>5. ~IsAnswer(p) => MailInQueue' = MailInQueue
  <2>1. ~IsAnswer(p) => {q \in ToSet(tasks') : IsAnswer(q)} = {q \in ToSet(tasks) : IsAnswer(q)}
    BY <1>3
  <2> QED BY <2>1 DEF MailInQueue
<1>6. UNCHANGED <<[x \in Task |-> OutcomeOf(x)], [x \in Task |-> ToSet(watching[x])]>>
  BY <1>2 DEF OutcomeOf
<1>7. [F!Next]_F!futureVars
  <2>1. CASE IsAnswer(p)
    <3>1. F!Take(m) BY <1>4, <1>6 DEF F!Take
    <3> QED BY <1>4, <2>1, <3>1 DEF F!Next
  <2>2. CASE ~IsAnswer(p) BY <1>5, <1>6, <2>2 DEF F!futureVars
  <2> QED BY <2>1, <2>2
<1>8. \A x \in Task : at[x] = "closed" => at'[x] = "closed" BY <1>1, <1>2, LiveTypes
<1>9. /\ \A x \in Task : exceptions[x].kind = "cancelled" =>
            exceptions[x].of = x \/ at'[exceptions[x].of] = "closed"
      /\ \A q \in ToSet(tasks) : q.kind = "cancelled" => q.of = q.task \/ at'[q.of] = "closed"
      /\ \A x \in Task : \A e \in caught[x] :
            e.kind = "cancelled" => e.of = x \/ at'[e.of] = "closed"
  BY <1>8, KnownStays
<1>10. \A x \in Task : \A e \in caught'[x] : Known(x, e)'
  <2> DEFINE n == [kind |-> p.kind, of |-> p.of]
  <2>1. \A x \in Task : \A e \in caught'[x] : e \in caught[x] \/ (x = t /\ e = n)
    BY <1>1, <1>2, OutcomeTypes
  <2>2. n.kind = "cancelled" => n.of = t \/ at'[n.of] = "closed" BY <1>1, <1>9
  <2> QED BY <1>9, <2>1, <2>2 DEF Known
<1>11. /\ \A x \in Task : Known(x, exceptions[x])'
       /\ \A q \in ToSet(tasks') : Known(q.task, q)'
  BY <1>2, <1>3, <1>9 DEF Known
<1>12. \A x \in Task : (Done(x)' => at'[x] = "closed") /\ x \notin Joining(x)'
  BY <1>2, <1>8 DEF OutcomeInv, Done, Joining
<1> QED BY <1>7, <1>10, <1>11, <1>12 DEF OutcomeInv

-----------------------------------------------------------------------------
(* A task is settled.                                                         *)

\* The running task is not over, and nobody who watches it has the outcome o as its own
\* cancellation.
LEMMA WatchersAlive ==
    ASSUME TypeInv, Live, OutcomeInv, NEW t \in Task, running = t
    PROVE  /\ ~Done(t) /\ at[t] # "closed"
           /\ \A w \in Joining(t) : w \in Task /\ w # t /\ at[w] = "yield"
<1>1. at[t] # "closed" BY RunnerIsNowhere
<1>2. ~Done(t) BY <1>1 DEF OutcomeInv
<1>3. \A w \in Joining(t) : w \in Task /\ Waits(w) BY LiveTypes DEF Waits
<1>4. \A w \in Joining(t) : w \in Task /\ w # t /\ at[w] = "yield"
  BY <1>3 DEF Live, Homes, OutcomeInv
<1> QED BY <1>1, <1>2, <1>4

\* The tasks that are told that their cancellation took effect.
ToldCancelled(t, o) == {w \in Joining(t) : o.kind = "cancelled" /\ w \in cancelWaiters[t]}

\* The watchers are answered with the outcome, but those who cancelled the task, if it
\* let the cancellation through, with nothing.
LEMMA AnswersMail ==
    ASSUME TypeInv, NEW t \in Task, NEW o \in [kind : {"result"} \cup ExcKind, of : Task],
           tasks' = tasks \o Answers(t, o),
           o.kind = "cancelled" => o.of \notin Joining(t)
    PROVE  /\ MailInQueue' = MailInQueue \cup F!Answered(Joining(t) \ ToldCancelled(t, o), o)
           /\ \A p \in ToSet(tasks') : p \in ToSet(tasks) \/ p.kind = "none"
                                       \/ (p.kind = o.kind /\ p.of = o.of)
<1> DEFINE q == Answers(t, o)
           mail(p) == [to |-> p.task, what |-> [kind |-> p.kind, of |-> p.of]]
           C == ToldCancelled(t, o)
<1>1. q \in Seq(Packet) BY AnswersType DEF TypeInv
<1>2. ToSet(tasks') = ToSet(tasks) \cup ToSet(q) BY <1>1, ConcatMembers, LiveTypes
<1>3. \A p : p \in ToSet(q) <=> \E w \in Joining(t) : p = Answer(t, w, o)
  <2>1. watching[t] \in Seq(Task) BY LiveTypes
  <2>2. DOMAIN watching[t] = 1..Len(watching[t]) BY <2>1, LenProperties
  <2>3. /\ DOMAIN q = 1..Len(watching[t])
        /\ \A i \in 1..Len(watching[t]) : q[i] = Answer(t, watching[t][i], o)
    BY DEF Answers
  <2> HIDE DEF q
  <2>4. \A p : p \in ToSet(q) <=> \E i \in 1..Len(watching[t]) : p = Answer(t, watching[t][i], o)
    BY <2>3 DEF ToSet
  <2>5. \A w : w \in Joining(t) <=> \E i \in 1..Len(watching[t]) : w = watching[t][i]
    BY <2>2 DEF Joining, ToSet
  <2> QED BY <2>4, <2>5
<1>4. \A w \in Joining(t) :
         IF w \in C THEN Answer(t, w, o) = Wakeup(w)
                    ELSE Answer(t, w, o) = [task |-> w, kind |-> o.kind, of |-> o.of]
  BY DEF Answer, ToldCancelled
<1>5. o = [kind |-> o.kind, of |-> o.of] OBVIOUS
<1>6. \A w \in Joining(t) \ C :
         IsAnswer(Answer(t, w, o)) /\ mail(Answer(t, w, o)) = [to |-> w, what |-> o]
  <2> TAKE w \in Joining(t) \ C
  <2>1. Answer(t, w, o) = [task |-> w, kind |-> o.kind, of |-> o.of] BY <1>4
  <2>2. ~(o.kind = "cancelled" /\ o.of = w) BY DEF ToldCancelled
  <2>3. o.kind \in {"result"} \cup ExcKind OBVIOUS
  <2> QED BY <1>5, <2>1, <2>2, <2>3 DEF IsAnswer
<1>7. C \subseteq Joining(t) BY DEF ToldCancelled
<1> HIDE DEF C
<1>8. \A w \in C : ~IsAnswer(Answer(t, w, o))
  BY <1>4, <1>7 DEF IsAnswer, Wakeup, ExcKind
<1> HIDE DEF q, mail
<1>9. MailInQueue' = MailInQueue \cup F!Answered(Joining(t) \ C, o)
  <2>1. \A n : n \in MailInQueue <=> \E p \in ToSet(tasks) : IsAnswer(p) /\ n = mail(p)
    BY DEF MailInQueue, mail
  <2>2. \A n : n \in MailInQueue' <=> \E p \in ToSet(tasks') : IsAnswer(p) /\ n = mail(p)
    BY DEF MailInQueue, mail
  <2>3. \A n : n \in F!Answered(Joining(t) \ C, o) <=>
           \E w \in Joining(t) \ C : n = [to |-> w, what |-> o]
    BY DEF F!Answered
  <2>4. \A n : (\E p \in ToSet(q) : IsAnswer(p) /\ n = mail(p)) <=>
               \E w \in Joining(t) \ C : n = [to |-> w, what |-> o]
    BY <1>3, <1>6, <1>7, <1>8
  <2>5. ASSUME NEW n
        PROVE  n \in MailInQueue' <=> n \in MailInQueue \cup F!Answered(Joining(t) \ C, o)
    <3>1. (\E p \in ToSet(tasks') : IsAnswer(p) /\ n = mail(p)) <=>
             \/ \E p \in ToSet(tasks) : IsAnswer(p) /\ n = mail(p)
             \/ \E p \in ToSet(q) : IsAnswer(p) /\ n = mail(p)
      BY <1>2
    <3>2. n \in MailInQueue' <=>
             n \in MailInQueue \/ \E p \in ToSet(q) : IsAnswer(p) /\ n = mail(p)
      BY <2>1, <2>2, <3>1
    <3> QED BY <2>3, <2>4, <3>2
  <2> QED BY <2>5
<1>10. \A p \in ToSet(q) : p.kind = "none" \/ (p.kind = o.kind /\ p.of = o.of)
  BY <1>3, <1>4 DEF Wakeup
<1> QED BY <1>2, <1>9, <1>10 DEF C

\* The end of a coroutine with outcome o.
LEMMA CloseSettles ==
    ASSUME TypeInv, Live, OutcomeInv, NEW t \in Task, running = t,
           NEW o \in [kind : {"result"} \cup ExcKind, of : Task],
           Known(t, o), Close(t, tasks, o),
           OutcomeOf(t)' = o, \A x \in Task \ {t} : OutcomeOf(x)' = OutcomeOf(x),
           \A x \in Task : Done(x)' => x = t \/ Done(x),
           \A x \in Task : exceptions'[x] = exceptions[x] \/ (x = t /\ exceptions'[x] = o)
    PROVE  OutcomeInv' /\ F!Next
<1> DEFINE C == ToldCancelled(t, o)
<1>1. /\ at' = [at EXCEPT ![t] = "closed"] /\ tasks' = tasks \o Answers(t, o)
      /\ watching' = [watching EXCEPT ![t] = <<>>] /\ caught' = caught
  BY DEF Close, Forget
<1>2. /\ ~Done(t) /\ \A w \in Joining(t) : w \in Task /\ w # t /\ at[w] = "yield"
  BY WatchersAlive
<1>3. o.kind = "cancelled" => o.of \notin Joining(t) BY <1>2 DEF Known
<1>4. /\ MailInQueue' = MailInQueue \cup F!Answered(Joining(t) \ C, o)
      /\ \A p \in ToSet(tasks') : p \in ToSet(tasks) \/ p.kind = "none"
                                  \/ (p.kind = o.kind /\ p.of = o.of)
  <2>1. tasks' = tasks \o Answers(t, o) BY <1>1
  <2> QED BY <1>3, <2>1, AnswersMail
<1>5. \A x \in Task : Joining(x)' = IF x = t THEN {} ELSE Joining(x)
  <2>1. watching'[t] = <<>> /\ \A x \in Task \ {t} : watching'[x] = watching[x]
    BY <1>1, LiveTypes
  <2>2. Joining(t)' = {} BY <2>1, OneName, Zenon DEF Joining
  <2>3. \A x \in Task \ {t} : Joining(x)' = Joining(x) BY <2>1, Zenon DEF Joining
  <2> QED BY <2>2, <2>3
<1>6. \A x \in Task : at[x] = "closed" => at'[x] = "closed" BY <1>1, LiveTypes
<1>7. o.kind = "cancelled" => at'[o.of] = "closed"
  BY <1>1, <1>6, LiveTypes DEF Known
<1>8. OutcomeInv'
  <2>1. /\ \A x \in Task : exceptions[x].kind = "cancelled" =>
              exceptions[x].of = x \/ at'[exceptions[x].of] = "closed"
        /\ \A q \in ToSet(tasks) : q.kind = "cancelled" => q.of = q.task \/ at'[q.of] = "closed"
        /\ \A x \in Task : \A e \in caught[x] :
              e.kind = "cancelled" => e.of = x \/ at'[e.of] = "closed"
    BY <1>6, KnownStays
  <2>2. \A x \in Task : \A e \in caught'[x] : Known(x, e)' BY <1>1, <2>1 DEF Known
  <2>3. \A x \in Task : Known(x, exceptions[x])' BY <1>7, <2>1 DEF Known
  <2>4. \A p \in ToSet(tasks') : Known(p.task, p)' BY <1>4, <1>7, <2>1 DEF Known
  <2>5. \A x \in Task : Done(x)' => at'[x] = "closed"
    BY <1>1, <1>6, LiveTypes DEF OutcomeInv
  <2>6. \A x \in Task : x \notin Joining(x)' BY <1>5 DEF OutcomeInv
  <2> QED BY <2>2, <2>3, <2>4, <2>5, <2>6 DEF OutcomeInv
<1>9. OutcomeOf(t) = NoExc BY <1>2, OutcomeTypes
<1>10. o \notin [kind : {"cancelled"}, of : Task] => C = {} BY DEF ToldCancelled
<1> DEFINE outcome == [x \in Task |-> OutcomeOf(x)]
           waiters == [x \in Task |-> ToSet(watching[x])]
<1>11. outcome' = [outcome EXCEPT ![t] = o] OBVIOUS
<1>12. waiters' = [waiters EXCEPT ![t] = {}]
  <2>1. \A x \in Task : ToSet(watching'[x]) = IF x = t THEN {} ELSE ToSet(watching[x])
    BY <1>5 DEF Joining
  <2> QED BY <2>1
<1>13. waiters[t] = Joining(t) BY DEF Joining
<1>14. C \in SUBSET Joining(t) BY DEF ToldCancelled
<1> HIDE DEF C
<1>15. F!Settle(t, o, C)
  BY <1>4, <1>9, <1>10, <1>11, <1>12, <1>13 DEF F!Settle
<1>16. F!Next BY <1>13, <1>14, <1>15 DEF F!Next
<1> QED BY <1>8, <1>16

\* return and raise
LEMMA EndSettles ==
    ASSUME TypeInv, Live, OutcomeInv, NEW t \in Task, Return(t) \/ Raise(t)
    PROVE  OutcomeInv' /\ F!Next
<1>1. running = t BY DEF Return, Raise, Running
<1>2. ~Done(t) BY <1>1, WatchersAlive
<1>3. CASE Return(t)
  <2> DEFINE o == [kind |-> "result", of |-> t]
  <2>1. Close(t, tasks, o) /\ finished' = finished \cup {t} /\ exceptions' = exceptions
    BY <1>3 DEF Return, Finish
  <2>2. o \in [kind : {"result"} \cup ExcKind, of : Task] /\ Known(t, o) BY DEF Known
  <2>3. OutcomeOf(t)' = o /\ \A x \in Task \ {t} : OutcomeOf(x)' = OutcomeOf(x)
    BY <2>1 DEF OutcomeOf
  <2>4. \A x \in Task : Done(x)' => x = t \/ Done(x) BY <2>1 DEF Done
  <2> HIDE DEF o
  <2> QED BY <1>1, <2>1, <2>2, <2>3, <2>4, CloseSettles
<1>4. CASE Raise(t)
  <2>1. [kind |-> "error", of |-> t] \in Exc /\ Known(t, [kind |-> "error", of |-> t])
    BY DEF Exc, ExcKind, Known
  <2>2. \A e \in caught[t] : e \in Exc /\ Known(t, e) BY OutcomeTypes DEF OutcomeInv
  <2>3. PICK e \in Exc : Known(t, e) /\ Fail(t, tasks, e) BY <1>4, <2>1, <2>2 DEF Raise
  <2>4. e \in [kind : {"result"} \cup ExcKind, of : Task] BY DEF Exc
  <2>5. /\ Close(t, tasks, e) /\ finished' = finished
        /\ exceptions' = [exceptions EXCEPT ![t] = e]
    BY <2>3 DEF Fail
  <2>6. \A x \in Task : exceptions'[x] = IF x = t THEN e ELSE exceptions[x]
    BY <2>5, OutcomeTypes
  <2>7. OutcomeOf(t)' = e /\ \A x \in Task \ {t} : OutcomeOf(x)' = OutcomeOf(x)
    BY <1>2, <2>5, <2>6 DEF OutcomeOf, Done
  <2>8. \A x \in Task : Done(x)' => x = t \/ Done(x) BY <2>5, <2>6 DEF Done
  <2> QED BY <1>1, <2>3, <2>4, <2>5, <2>6, <2>7, <2>8, CloseSettles
<1> QED BY <1>3, <1>4

-----------------------------------------------------------------------------
(* A task asks for the outcome of another one.                                *)

\* A join or a cancel of a task that is over is answered with its outcome.
LEMMA AskOver ==
    ASSUME TypeInv, OutcomeInv, NEW t \in Task, NEW x \in Task, x # t, Done(x), at[t] = "run",
           tasks' = Append(tasks, OutcomePacket(t, x)), at' = [at EXCEPT ![t] = "yield"],
           UNCHANGED <<caught, outcomeVars, watching>>
    PROVE  OutcomeInv' /\ F!Next
<1> DEFINE p == OutcomePacket(t, x)
           o == OutcomeOf(x)
<1>1. p \in Packet BY OutcomePacketType DEF TypeInv
<1>2. ToSet(tasks') = ToSet(tasks) \cup {p} BY <1>1, AppendMembers, LiveTypes
<1>3. o # NoExc /\ o \in [kind : {"result"} \cup ExcKind, of : Task] BY OutcomeTypes
<1>4. p.task = t /\ p.kind = o.kind /\ p.of = o.of BY DEF OutcomePacket, OutcomeOf
<1>5. UNCHANGED <<finished, exceptions>> BY DEF outcomeVars
<1>6. o.kind = "cancelled" => at[o.of] = "closed" /\ o.of # t
  <2>1. o.kind = "cancelled" => o = exceptions[x] BY DEF OutcomeOf
  <2>2. at[x] = "closed" BY DEF OutcomeInv
  <2> QED BY <2>1, <2>2 DEF OutcomeInv, Known
<1>7. \A y \in Task : at[y] = "closed" => at'[y] = "closed" BY LiveTypes
<1> HIDE DEF p, o
<1>8. OutcomeInv'
  <2>1. /\ \A y \in Task : exceptions[y].kind = "cancelled" =>
              exceptions[y].of = y \/ at'[exceptions[y].of] = "closed"
        /\ \A q \in ToSet(tasks) : q.kind = "cancelled" => q.of = q.task \/ at'[q.of] = "closed"
        /\ \A y \in Task : \A e \in caught[y] :
              e.kind = "cancelled" => e.of = y \/ at'[e.of] = "closed"
    BY <1>7, KnownStays
  <2>2. p.kind = "cancelled" => at'[p.of] = "closed" BY <1>3, <1>4, <1>6, <1>7
  <2>3. \A q \in ToSet(tasks') : Known(q.task, q)' BY <1>2, <2>1, <2>2 DEF Known
  <2>4. /\ \A y \in Task : Known(y, exceptions[y])'
        /\ \A y \in Task : \A e \in caught'[y] : Known(y, e)'
    BY <1>5, <2>1 DEF Known
  <2>5. \A y \in Task : (Done(y)' => at'[y] = "closed") /\ y \notin Joining(y)'
    BY <1>5, <1>7 DEF OutcomeInv, Done, Joining
  <2> QED BY <2>3, <2>4, <2>5 DEF OutcomeInv
<1>9. MailInQueue' = MailInQueue \cup F!Answered({t}, o)
  <2>1. IsAnswer(p) BY <1>3, <1>4, <1>6 DEF IsAnswer
  <2>2. o = [kind |-> p.kind, of |-> p.of] BY <1>3, <1>4
  <2>3. {q \in ToSet(tasks') : IsAnswer(q)} = {q \in ToSet(tasks) : IsAnswer(q)} \cup {p}
    BY <1>2, <2>1
  <2>4. F!Answered({t}, o) = {[to |-> p.task, what |-> [kind |-> p.kind, of |-> p.of]]}
    BY <1>4, <2>2 DEF F!Answered
  <2> QED BY <2>3, <2>4 DEF MailInQueue
<1>10. UNCHANGED <<[y \in Task |-> OutcomeOf(y)], [y \in Task |-> ToSet(watching[y])]>>
  BY <1>5 DEF OutcomeOf
<1>11. F!Ask(t, x) BY <1>3, <1>9, <1>10 DEF F!Ask, o
<1> QED BY <1>8, <1>11 DEF F!Next

\* A task that watches a task that is not over.
LEMMA AskEarly ==
    ASSUME TypeInv, Live, OutcomeInv, NEW t \in Task, NEW x \in Task, x # t, ~Done(x),
           running = t, at[t] = "run", at' = [at EXCEPT ![t] = "yield"],
           watching' = [watching EXCEPT ![x] = Append(@, t)], AddsQuiet,
           UNCHANGED <<caught, outcomeVars>>
    PROVE  OutcomeInv' /\ F!Next
<1>1. \A y \in Task : Joining(y)' = IF y = x THEN Joining(y) \cup {t} ELSE Joining(y)
  BY WatchMoves
<1>2. UNCHANGED <<finished, exceptions>> BY DEF outcomeVars
<1>3. \A y \in Task : at[y] = "closed" => at'[y] = "closed" BY LiveTypes
<1>4. OutcomeInv'
  <2>1. /\ \A y \in Task : exceptions[y].kind = "cancelled" =>
              exceptions[y].of = y \/ at'[exceptions[y].of] = "closed"
        /\ \A q \in ToSet(tasks) : q.kind = "cancelled" => q.of = q.task \/ at'[q.of] = "closed"
        /\ \A y \in Task : \A e \in caught[y] :
              e.kind = "cancelled" => e.of = y \/ at'[e.of] = "closed"
    BY <1>3, KnownStays
  <2>2. \A q : ~IsAnswer(q) /\ q.kind = "cancelled" => q.of = q.task BY DEF IsAnswer, ExcKind
  <2>3. \A q \in ToSet(tasks') : Known(q.task, q)' BY <2>1, <2>2 DEF AddsQuiet, Known
  <2>4. /\ \A y \in Task : Known(y, exceptions[y])'
        /\ \A y \in Task : \A e \in caught'[y] : Known(y, e)'
    BY <1>2, <2>1 DEF Known
  <2>5. \A y \in Task : (Done(y)' => at'[y] = "closed") /\ y \notin Joining(y)'
    BY <1>1, <1>2, <1>3 DEF OutcomeInv, Done
  <2> QED BY <2>3, <2>4, <2>5 DEF OutcomeInv
<1>5. MailInQueue' = MailInQueue BY QuietMail
<1>6. OutcomeOf(x) = NoExc BY OutcomeTypes
<1> DEFINE waiters == [y \in Task |-> ToSet(watching[y])]
<1>7. waiters' = [waiters EXCEPT ![x] = @ \cup {t}]
  <2>1. \A y \in Task : ToSet(watching'[y]) =
           IF y = x THEN ToSet(watching[y]) \cup {t} ELSE ToSet(watching[y])
    BY <1>1 DEF Joining
  <2> QED BY <2>1
<1>8. UNCHANGED [y \in Task |-> OutcomeOf(y)] BY <1>2 DEF OutcomeOf
<1>9. F!Ask(t, x) BY <1>5, <1>6, <1>7, <1>8 DEF F!Ask
<1> QED BY <1>4, <1>9 DEF F!Next

\* join() and cancel()
LEMMA HandleAsks ==
    ASSUME TypeInv, Live, OutcomeInv, NEW t \in Task, NEW x \in Task,
           JoinCommand(t, x) \/ CancelNoAwait(t, x) \/ AwaitCancel(t, x)
    PROVE  OutcomeInv' /\ [F!Next]_F!futureVars
<1>1. CASE JoinCommand(t, x)
  <2>1. /\ running = t /\ at[t] = "run" /\ x # t /\ at' = [at EXCEPT ![t] = "yield"]
        /\ UNCHANGED <<caught, outcomeVars>>
    BY <1>1 DEF JoinCommand, Yield, Running
  <2>2. CASE Done(x)
    <3>1. tasks' = Append(tasks, OutcomePacket(t, x)) /\ UNCHANGED watching
      BY <1>1, <2>2 DEF JoinCommand
    <3> QED BY <2>1, <2>2, <3>1, AskOver
  <2>3. CASE ~Done(x)
    <3>1. watching' = [watching EXCEPT ![x] = Append(@, t)] /\ UNCHANGED tasks
      BY <1>1, <2>3 DEF JoinCommand
    <3>2. AddsQuiet BY <3>1, AppendQuiet
    <3> QED BY <2>1, <2>3, <3>1, <3>2, AskEarly
  <2> QED BY <2>2, <2>3
<1>2. CASE CancelNoAwait(t, x)
  <2>1. tasks' = Append(tasks, Injected(x)) /\ UNCHANGED <<at, caught, outcomeVars, watching>>
    BY <1>2 DEF CancelNoAwait, Cancel, progVars
  <2>2. AddsQuiet BY <2>1, AppendQuiet
  <2> QED BY <2>1, <2>2, Invisible
<1>3. CASE AwaitCancel(t, x)
  <2>1. /\ running = t /\ at[t] = "run" /\ x # t /\ at' = [at EXCEPT ![t] = "yield"]
        /\ UNCHANGED <<caught, outcomeVars>>
    BY <1>3 DEF AwaitCancel, MayCancel, Yield, Running
  <2>2. CASE Done(x) /\ tasks' = Append(tasks, OutcomePacket(t, x)) /\ UNCHANGED joinVars
    BY <2>1, <2>2, AskOver DEF joinVars
  <2>3. CASE ~Done(x) /\ Watch(t, x) /\ UNCHANGED tasks
    <3>1. watching' = [watching EXCEPT ![x] = Append(@, t)] BY <2>3 DEF Watch
    <3>2. AddsQuiet BY <2>3, AppendQuiet
    <3> QED BY <2>1, <2>3, <3>1, <3>2, AskEarly
  <2>4. CASE Cancel(x) /\ Watch(t, x)
    <3>1. /\ watching' = [watching EXCEPT ![x] = Append(@, t)] /\ ~Done(x)
          /\ tasks' = Append(tasks, Injected(x))
      BY <2>4 DEF Watch, Cancel
    <3>2. AddsQuiet BY <3>1, AppendQuiet
    <3> QED BY <2>1, <3>1, <3>2, AskEarly
  <2> QED BY <1>3, <2>2, <2>3, <2>4 DEF AwaitCancel
<1> QED BY <1>1, <1>2, <1>3

-----------------------------------------------------------------------------
(* The refinement.                                                            *)

\* In the beginning nobody is over and nobody has asked.
LEMMA InitFutures == Init => OutcomeInv /\ F!Init
<1> SUFFICES ASSUME Init PROVE OutcomeInv /\ F!Init OBVIOUS
<1>1. Root \in Task BY LoopAssumption
<1>2. \A p \in ToSet(tasks) : p.kind = "none"
  <2>1. tasks = <<Wakeup(Root)>> BY DEF Init
  <2>2. DOMAIN tasks = 1..1 /\ tasks[1] = Wakeup(Root) /\ \A i \in 1..1 : i = 1 BY <2>1
  <2>3. Wakeup(Root).kind = "none" BY DEF Wakeup
  <2> QED BY <2>2, <2>3, Zenon DEF ToSet
<1>3. \A x \in Task : watching[x] = <<>> /\ caught[x] = {} /\ exceptions[x] = NoExc BY DEF Init
<1>4. \A x \in Task : Joining(x) = {} BY <1>3, OneName DEF Joining
<1>5. NoExc.kind = "none" BY DEF NoExc
<1>6. OutcomeInv BY <1>2, <1>3, <1>4, <1>5 DEF OutcomeInv, Known, Done, Init
<1>7. MailInQueue = {} BY <1>2 DEF MailInQueue, IsAnswer, ExcKind
<1>8. \A x \in Task : OutcomeOf(x) = NoExc BY <1>3 DEF OutcomeOf, Init
<1>9. F!Init BY <1>4, <1>7, <1>8 DEF F!Init, Joining
<1> QED BY <1>6, <1>9

\* Every step of the loop is a step of Futures, or none.
LEMMA NextFutures ==
    ASSUME CancelParkedOnly, "exit" \notin Ops, LoopInv, OutcomeInv, [Next]_vars
    PROVE  OutcomeInv' /\ [F!Next]_F!futureVars
<1>1. TypeInv /\ (loop = "running" => Live) BY DEF LoopInv
<1>2. CASE Dispatch
  <2>1. loop = "running" BY <1>2 DEF Dispatch, Idle
  <2> QED BY <1>1, <1>2, <2>1, ResumeTakes
<1>3. CASE Stop \/ UNCHANGED vars
  <2>1. UNCHANGED <<tasks, at, caught, watching, outcomeVars>>
    BY <1>3 DEF Stop, vars, progVars, joinVars
  <2>2. AddsQuiet BY <1>1, <2>1, AppendQuiet
  <2> QED BY <1>1, <2>1, <2>2, Invisible
<1>4. CASE (\E t \in Task : SleeperDue(t)) \/ \E s \in Socket : SocketReady(s)
  <2>1. UNCHANGED <<at, caught, watching, outcomeVars>>
    BY <1>4 DEF SleeperDue, SocketReady, progVars, joinVars
  <2>2. \E t \in Task : Requeue(t)
    <3>1. \A s \in Socket : network[s] # NoTask => network[s] \in Task
      BY <1>1, LiveTypes DEF TaskOrNone
    <3> QED BY <1>4, <3>1 DEF SleeperDue, SocketReady, Requeue
  <2>3. AddsQuiet BY <1>1, <2>2, AppendQuiet
  <2> QED BY <1>1, <2>1, <2>3, Invisible
<1>5. ASSUME NEW x \in Task, CreateTask(x) PROVE OutcomeInv' /\ [F!Next]_F!futureVars
  <2>1. /\ at[x] = "absent" /\ at' = [at EXCEPT ![x] = "start"] /\ Requeue(x)
        /\ UNCHANGED <<caught, watching, outcomeVars>>
    BY <1>5 DEF CreateTask, Requeue, joinVars
  <2>2. \A y \in Task : at[y] = "closed" => at'[y] = "closed" BY <1>1, <2>1, LiveTypes
  <2>3. AddsQuiet BY <1>1, <2>1, AppendQuiet
  <2> QED BY <1>1, <2>1, <2>2, <2>3, Invisible
<1>6. ASSUME NEW t \in Task, Turn(t) PROVE OutcomeInv' /\ [F!Next]_F!futureVars
  <2>1. loop = "running" /\ running = t /\ Live
    BY <1>1, <1>6 DEF Turn, Return, Raise, SpawnCommand, JoinCommand, CancelNoAwait, AwaitCancel,
       SleepCommand, ExitCommand, SocketCommand, EventWaitCommand, EventSetCommand,
       LockAcquireCommand, LockReleaseCommand, ConditionWaitCommand, ConditionNotifyCommand,
       Yield, Running
  <2>2. CASE Return(t) \/ Raise(t) BY <1>1, <2>1, <2>2, EndSettles
  <2>3. ASSUME NEW x \in Task, JoinCommand(t, x) \/ CancelNoAwait(t, x) \/ AwaitCancel(t, x)
        PROVE  OutcomeInv' /\ [F!Next]_F!futureVars
    BY <1>1, <2>1, <2>3, HandleAsks
  <2>4. ASSUME NEW x \in Task, SpawnCommand(t, x)
        PROVE  OutcomeInv' /\ [F!Next]_F!futureVars
    <3> DEFINE p == [task |-> t, kind |-> "handle", of |-> x]
    <3>1. /\ at[t] = "run" /\ at[x] = "absent" /\ at' = [at EXCEPT ![t] = "yield", ![x] = "start"]
          /\ tasks' = tasks \o <<Wakeup(x), p>> /\ UNCHANGED <<caught, watching, outcomeVars>>
      BY <2>4 DEF SpawnCommand, joinVars
    <3>2. \A y \in Task : at[y] = "closed" => at'[y] = "closed" BY <1>1, <3>1, LiveTypes
    <3>3. Wakeup(x) \in Packet /\ p \in Packet BY WakeupType DEF Packet
    <3>4. ~IsAnswer(Wakeup(x)) /\ ~IsAnswer(p) BY DEF IsAnswer, Wakeup, ExcKind
    <3> HIDE DEF p
    <3>5. <<Wakeup(x), p>> \in Seq(Packet) BY <3>3
    <3>6. \A r \in ToSet(<<Wakeup(x), p>>) : r = Wakeup(x) \/ r = p
      <4>1. /\ DOMAIN <<Wakeup(x), p>> = 1..2 /\ \A i \in 1..2 : i = 1 \/ i = 2
            /\ <<Wakeup(x), p>>[1] = Wakeup(x) /\ <<Wakeup(x), p>>[2] = p
        OBVIOUS
      <4> QED BY <4>1, Zenon DEF ToSet
    <3>7. ToSet(tasks') = ToSet(tasks) \cup ToSet(<<Wakeup(x), p>>)
      BY ZenonT(60), <1>1, <3>1, <3>5, ConcatMembers, LiveTypes
    <3>8. AddsQuiet BY <3>4, <3>6, <3>7 DEF AddsQuiet
    <3> QED BY <1>1, <3>1, <3>2, <3>8, Invisible
  <2>5. CASE SleepCommand(t) \/ \E s \in Socket : SocketCommand(t, s)
    <3>1. /\ Requeue(t) \/ UNCHANGED tasks
          /\ at' = [at EXCEPT ![t] = "yield"] /\ at[t] = "run"
          /\ UNCHANGED <<caught, watching, outcomeVars>>
      BY <2>5 DEF SleepCommand, SocketCommand, Yield, joinVars
    <3>2. \A y \in Task : at[y] = "closed" => at'[y] = "closed" BY <1>1, <3>1, LiveTypes
    <3>3. AddsQuiet BY <1>1, <3>1, AppendQuiet
    <3> QED BY <1>1, <3>1, <3>2, <3>3, Invisible
  <2>6. CASE \/ \E e \in Event : EventWaitCommand(t, e) \/ EventSetCommand(t, e)
             \/ \E l \in Lock : LockAcquireCommand(t, l) \/ LockReleaseCommand(t, l)
             \/ \E c \in Cond : ConditionWaitCommand(t, c) \/ ConditionNotifyCommand(t, c)
    <3>1. /\ \E place \in {"yield", "acquire", "release", "wait"} : at' = [at EXCEPT ![t] = place]
          /\ at[t] = "run" /\ UNCHANGED <<caught, watching, outcomeVars>>
      BY <2>6 DEF EventWaitCommand, EventSetCommand, LockAcquireCommand, LockReleaseCommand,
         ConditionWaitCommand, ConditionNotifyCommand, Yield, NotSync, joinVars
    <3>2. \A y \in Task : at[y] = "closed" => at'[y] = "closed" BY <1>1, <3>1, LiveTypes
    <3>3. \/ \E e \in Event : EventWait(t, e) \/ EventSet(t, e)
          \/ \E l \in Lock : LockAcquire(t, l) \/ LockRelease(t, l)
          \/ \E c \in Cond : ConditionWait(t, c) \/ \E all \in BOOLEAN : ConditionNotify(t, c, all)
          \/ UNCHANGED tasks
      BY <2>6 DEF EventWaitCommand, EventSetCommand, LockAcquireCommand, LockReleaseCommand,
         ConditionWaitCommand, ConditionNotifyCommand, AssertOwner
    <3>4. AddsQuiet BY <1>1, <3>3, PrimitivesAddQuiet, AppendQuiet
    <3> QED BY <1>1, <3>1, <3>2, <3>4, Invisible
  <2>7. ~ExitCommand(t) BY DEF ExitCommand
  <2> QED BY <1>6, <2>2, <2>3, <2>4, <2>5, <2>6, <2>7 DEF Turn
<1> QED BY <1>2, <1>3, <1>4, <1>5, <1>6 DEF Next, LoopStep

\* TaskHandle.join() and cancel() behave like a future, whatever the programs do with the
\* primitives: a task is settled once, whoever asked is answered at that moment and with
\* that outcome, whoever asks later at once (watching_task, finished, exceptions).
THEOREM LoopImplementsFutures ==
    ASSUME CancelParkedOnly, "exit" \notin Ops
    PROVE  Spec => ImplementsFutures
<1>1. LoopInv /\ [Next]_vars => LoopInv' BY NextLoop
<1>2. LoopInv /\ OutcomeInv /\ [Next]_vars => OutcomeInv' /\ [F!Next]_F!futureVars
  BY NextFutures
<1> QED BY <1>1, <1>2, InitLoop, InitFutures, PTL DEF Spec, ImplementsFutures, F!Spec


=============================================================================
