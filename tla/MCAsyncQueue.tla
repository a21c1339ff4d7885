---------------------------- MODULE MCAsyncQueue ----------------------------
(* Instances of AsyncQueue for TLC.                                          *)
EXTENDS AsyncQueue

CONSTANTS t1, t2, t3, a, b

QueueLocks == {queueLock}
QueueConds == {notEmpty, notFull}
QueueLockOf == [x \in QueueConds |-> queueLock]

\* A queue with a limit; the set as the flow uses it, without a limit, called by handlers
\* and with cancelled tasks; the map; and the queue that is read with until_empty().
Plain == [class |-> "plain", max |-> 2, callers |-> Task,
          calls |-> {"put", "get", "close", "close_nowait"}]
SetQueue == [class |-> "set", max |-> 3, callers |-> {t1, t2},
             calls |-> {"put", "get", "peek", "put_nowait", "close", "close_nowait", "cancel"}]
MapQueue == [class |-> "map", max |-> 2, callers |-> Task, calls |-> {"put", "get"}]
Drained == [class |-> "plain", max |-> 1, callers |-> Task, calls |-> {"put", "until_empty"}]

AllVariants == {Plain, SetQueue, MapQueue, Drained}

\* peek() beside get() and put().
Peeked == {[class |-> "plain", max |-> 1, callers |-> Task, calls |-> {"put", "get", "peek"}]}

\* A map whose put() is cancelled.
CancelledMap == {[class |-> "map", max |-> 2, callers |-> Task,
                  calls |-> {"put", "get", "cancel"}]}

=============================================================================
