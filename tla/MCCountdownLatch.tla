-------------------------- MODULE MCCountdownLatch --------------------------
(* Instances of CountdownLatch for TLC.                                      *)
EXTENDS CountdownLatch

CONSTANTS t1, t2, t3

LatchLocks == {latchLock}
LatchEvents == {latchEvent}
NoLockOf == [c \in {} |-> latchLock]

=============================================================================
