------------------------------ MODULE Sockets ------------------------------
(***************************************************************************)
(* One connection as SocketHandle and TLSSocketHandle (selectors.py) show  *)
(* it to the tasks of the event loop.  The network delivers the bytes in   *)
(* order and in pieces of any length; a byte is a `unit' of the instance.  *)
(***************************************************************************)
EXTENDS SequencesExt

CONSTANTS BufSize      \* what one recv() asks for: 1024 in the code

ASSUME SocketAssumption == BufSize \in Nat \ {0}

VARIABLES
    arriving,   \* what was sent to each end and was not received yet
    decrypted,  \* what the TLS object of each end has decrypted and not yet returned
    hungUp      \* the ends that have closed the connection

socketVars == <<arriving, decrypted, hungUp>>

End == {"client", "server"}
Peer(e) == CHOOSE f \in End : f # e

SocketInit ==
    /\ arriving = [e \in End |-> <<>>]
    /\ decrypted = [e \in End |-> <<>>]
    /\ hungUp = {}

Upto(s, n) == SubSeq(s, 1, IF n < Len(s) THEN n ELSE Len(s))
Beyond(s, n) == SubSeq(s, n + 1, Len(s))

\* The selector looks at the socket, not at what the TLS object has in store.
Readable(e) == arriving[e] # <<>> \/ Peer(e) \in hungUp

\* The outcomes of the recv(n) of a readable socket: what it returns, nothing at the end of
\* the stream; how much it takes from the socket, a whole record with TLS; and what it keeps.
Receivable(e, n, tls) ==
    CASE ~Readable(e) -> {}
      [] Readable(e) /\ decrypted[e] # <<>> ->
            {[got |-> Upto(decrypted[e], n), taken |-> 0, kept |-> Beyond(decrypted[e], n)]}
      [] Readable(e) /\ decrypted[e] = <<>> /\ arriving[e] = <<>> ->
            {[got |-> <<>>, taken |-> 0, kept |-> <<>>]}
      [] OTHER ->
            {[got |-> Upto(Upto(arriving[e], k), n), taken |-> k,
              kept |-> Beyond(Upto(arriving[e], k), n)] :
                k \in {j \in 1..Len(arriving[e]) : tls \/ j <= n}}

\* SocketHandle.recv, with one of these outcomes.
Recv(e, r) ==
    /\ arriving' = [arriving EXCEPT ![e] = Beyond(@, r.taken)]
    /\ decrypted' = [decrypted EXCEPT ![e] = r.kept]
    /\ UNCHANGED hungUp

\* SocketHandle.send: what the socket takes of it goes to the peer.
Send(e, units) ==
    /\ arriving' = [arriving EXCEPT ![Peer(e)] = @ \o units]
    /\ UNCHANGED <<decrypted, hungUp>>

\* The interpreter or the other program closes the socket.
HangUp(e) ==
    /\ e \notin hungUp
    /\ hungUp' = hungUp \cup {e}
    /\ UNCHANGED <<arriving, decrypted>>

=============================================================================
