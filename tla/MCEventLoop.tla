---------------------------- MODULE MCEventLoop ----------------------------
(* Instances of EventLoop for TLC: one lock with one condition on it.       *)
EXTENDS EventLoopFutures

CONSTANTS t1, t2, t3, e, s, lock, cond

OneLock == {lock}
OneCond == {cond}
LockOfCond == [c \in OneCond |-> lock]

=============================================================================
