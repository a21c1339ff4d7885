------------------------------ MODULE Futures ------------------------------
(***************************************************************************)
(* What the event loop promises about the outcome of a task, and nothing   *)
(* else: a task is settled at most once; whoever asked for its outcome     *)
(* before that is answered at that very moment, whoever asks later is      *)
(* answered at once, and every answer is the outcome.  Only an asker that  *)
(* has itself cancelled the task may be released without it.               *)
(***************************************************************************)
CONSTANTS Task, Outcome, NoOutcome,
          Cancelled     \* the outcomes of tasks that let a cancellation through

VARIABLES outcome,      \* [Task -> Outcome \cup {NoOutcome}]
          waiters,      \* [Task -> SUBSET Task]: who has asked and is not answered
          mail          \* the answers on their way: who gets what

futureVars == <<outcome, waiters, mail>>

Answered(W, o) == {[to |-> w, what |-> o] : w \in W}

Init ==
    /\ outcome = [x \in Task |-> NoOutcome]
    /\ waiters = [x \in Task |-> {}]
    /\ mail = {}

Settle(x, o, Cancellers) ==
    /\ outcome[x] = NoOutcome
    /\ o \notin Cancelled => Cancellers = {}
    /\ outcome' = [outcome EXCEPT ![x] = o]
    /\ waiters' = [waiters EXCEPT ![x] = {}]
    /\ mail' = mail \cup Answered(waiters[x] \ Cancellers, o)

Ask(w, x) ==
    /\ IF outcome[x] = NoOutcome
         THEN waiters' = [waiters EXCEPT ![x] = @ \cup {w}] /\ UNCHANGED mail
         ELSE mail' = mail \cup Answered({w}, outcome[x]) /\ UNCHANGED waiters
    /\ UNCHANGED outcome

Take(m) ==
    /\ mail' = mail \ {m}
    /\ UNCHANGED <<outcome, waiters>>

Next ==
    \/ \E x \in Task, o \in Outcome : \E C \in SUBSET waiters[x] : Settle(x, o, C)
    \/ \E w, x \in Task : Ask(w, x)
    \/ \E m \in mail : Take(m)

Spec == Init /\ [][Next]_futureVars

=============================================================================
