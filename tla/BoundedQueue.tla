---------------------------- MODULE BoundedQueue ----------------------------
(***************************************************************************)
(* What an asynchronous queue promises: each call takes effect at one      *)
(* moment between its call and its return, or not at all when it is        *)
(* cancelled; the items are a FIFO buffer of at most variant.max.          *)
(***************************************************************************)
EXTENDS Naturals, Sequences

CONSTANTS Task, Item, NoItem, Variants

VARIABLES variant,      \* of the class "set" an item in the buffer is not put again
          buffer, shut,
          call,         \* [Task -> the operation it called, or Idle]
          reply         \* [Task -> what the call took effect with, or Pending]

queueVars == <<variant, buffer, shut, call, reply>>

Idle == [op |-> "none", item |-> NoItem]
Operation == [op : {"get", "peek", "close"}, item : {NoItem}] \cup [op : {"put"}, item : Item]

Pending == [kind |-> "pending", item |-> NoItem]
Ok(i) == [kind |-> "ok", item |-> i]
QueueClosed == [kind |-> "closed", item |-> NoItem]

Unique == variant.class = "set"

Init ==
    /\ variant \in Variants
    /\ buffer = <<>> /\ shut = FALSE
    /\ call = [t \in Task |-> Idle]
    /\ reply = [t \in Task |-> Pending]

Call(t) ==
    /\ call[t] = Idle
    /\ \E o \in Operation : call' = [call EXCEPT ![t] = o]
    /\ UNCHANGED <<variant, buffer, shut, reply>>

Present(i) == \E k \in DOMAIN buffer : buffer[k] = i

Put(i) ==
    /\ ~shut /\ Len(buffer) < variant.max
    /\ Unique => ~Present(i)
    /\ buffer' = Append(buffer, i)
    /\ UNCHANGED shut

\* Call t takes effect, with reply r.
Effect(t, r) ==
    LET o == call[t].op  i == call[t].item IN
    \/ o = "put" /\ Put(i) /\ r = Ok(i)
    \/ o = "put" /\ Unique /\ Present(i) /\ r = Ok(i) /\ UNCHANGED <<buffer, shut>>
    \/ o = "put" /\ shut /\ r = QueueClosed /\ UNCHANGED <<buffer, shut>>
    \/ o = "get" /\ buffer # <<>> /\ r = Ok(Head(buffer))
                 /\ buffer' = Tail(buffer) /\ UNCHANGED shut
    \/ o = "peek" /\ buffer # <<>> /\ r = Ok(Head(buffer)) /\ UNCHANGED <<buffer, shut>>
    \/ o \in {"get", "peek"} /\ buffer = <<>> /\ shut /\ r = QueueClosed
                             /\ UNCHANGED <<buffer, shut>>
    \/ o = "close" /\ r = Ok(NoItem) /\ shut' = TRUE /\ UNCHANGED buffer

TakeEffect(t) ==
    /\ call[t] # Idle /\ reply[t] = Pending
    /\ \E i \in Item \cup {NoItem} : \E r \in {Ok(i), QueueClosed} :
          Effect(t, r) /\ reply' = [reply EXCEPT ![t] = r]
    /\ UNCHANGED <<variant, call>>

\* The call returns with its reply; without one it was cancelled.
End(t) ==
    /\ call[t] # Idle
    /\ call' = [call EXCEPT ![t] = Idle]
    /\ reply' = [reply EXCEPT ![t] = Pending]
    /\ UNCHANGED <<variant, buffer, shut>>

\* put_nowait() and close_nowait() take effect at once.
Nowait ==
    /\ (\E i \in Item : Put(i)) \/ (shut' = TRUE /\ UNCHANGED buffer)
    /\ UNCHANGED <<variant, call, reply>>

Next == (\E t \in Task : Call(t) \/ TakeEffect(t) \/ End(t)) \/ Nowait

Spec == Init /\ [][Next]_queueVars

=============================================================================
