------------------------------- MODULE MCFlow -------------------------------
(* What the instances of Flow for TLC share, and a flow of eight nodes.      *)
EXTENDS Flow

FlowLocks == {queueLock}
FlowConds == {notEmpty, notFull}
FlowLockOf == [c \in FlowConds |-> queueLock]
FlowTasks == Node \cup {Main}

In(n, s) == [node |-> n, source |-> s, default |-> FALSE, stream |-> FALSE, early |-> FALSE]
InDefault(n, s) == [In(n, s) EXCEPT !.default = TRUE]
StreamIn(n, s) == [In(n, s) EXCEPT !.stream = TRUE]
Early(port) == [port EXCEPT !.early = TRUE]
Default(port) == [port EXCEPT !.default = TRUE]

\* A flow without a cycle in which one node needs another along two paths, and more nodes
\* between: user needs far through near, then s1 to s4, then far again through side and near.
TwoPaths ==
    {<<In("user", "near"), In("user", "s1"), In("user", "s2"), In("user", "s3"),
       In("user", "s4"), In("user", "side"), In("side", "near"), In("near", "far")>>}

Listed == {<<"user", "far", "near", "side", "s1", "s2", "s3", "s4">>}

=============================================================================
