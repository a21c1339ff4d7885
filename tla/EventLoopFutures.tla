-------------------------- MODULE EventLoopFutures --------------------------
(* EventLoop implements Futures: the outcome of a task is its entry in         *)
(* `finished' or `exceptions', its waiters are its watchers, and the answers   *)
(* on their way are the packets of the run queue that carry an outcome.        *)
EXTENDS EventLoop

OutcomeOf(x) == IF x \in finished THEN [kind |-> "result", of |-> x] ELSE exceptions[x]

\* A packet that carries an outcome; TaskCancelled thrown into the cancelled task
\* itself is not an answer.
IsAnswer(p) ==
    p.kind \in {"result"} \cup ExcKind /\ ~(p.kind = "cancelled" /\ p.of = p.task)

MailInQueue ==
    {[to |-> p.task, what |-> [kind |-> p.kind, of |-> p.of]] :
        p \in {q \in ToSet(tasks) : IsAnswer(q)}}

F == INSTANCE Futures WITH
        Outcome <- [kind : {"result"} \cup ExcKind, of : Task],
        NoOutcome <- NoExc,
        Cancelled <- [kind : {"cancelled"}, of : Task],
        outcome <- [x \in Task |-> OutcomeOf(x)],
        waiters <- [x \in Task |-> ToSet(watching[x])],
        mail <- MailInQueue

\* TaskHandle.join() and cancel() behave like a future: settled once, every joiner
\* answered with exactly that outcome, no answer lost, none invented.
ImplementsFutures == F!Spec

=============================================================================
