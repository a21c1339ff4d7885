------------------------------- MODULE MCHttp -------------------------------
(* Instances of Http for TLC.                                                *)
EXTENDS Http

Call(call, ok, framing, chunks) ==
    [call |-> call, ok |-> ok, framing |-> framing, events |-> FALSE, tls |-> FALSE,
     chunks |-> chunks, post |-> <<>>, hangup |-> "anytime"]

\* flowno's own server, which never closes the connection, and a request with a body.
Own == [Call("request", TRUE, "length", << <<"a", "b", "c">> >>) EXCEPT
          !.hangup = "never", !.post = <<"p", "p">>]
\* Bodies with a length, or up to the end of the connection.
Sized == {[Call("request", TRUE, "length", << <<"a", "b", "c">> >>) EXCEPT !.tls = b] :
             b \in BOOLEAN}
Unsized == Call("request", TRUE, "close", << <<"a", "b", "c">> >>)
Refusal == Call("stream", FALSE, "length", << <<"a", "b", "c">> >>)
\* Streams: one chunk is a line break, one is longer than what a recv() asks for.
Stream == {[Call("stream", b, "chunked", << <<"cr", "lf">>, <<"a", "b", "c">> >>) EXCEPT
             !.tls = c] : b, c \in BOOLEAN}
Unasked == Call("request", TRUE, "chunked", << <<"a">> >>)
\* Events that are cut in the middle, two messages of which one comes in two events, a
\* comment, and the end mark.
Events(chunks) == [Call("stream", TRUE, "chunked", chunks) EXCEPT !.events = TRUE]
EventStream == {Events(<< <<"1a", "1b">>, <<"sep", "2a", "sep">>, <<"2b", "sep", "[DONE]">>,
                          <<"sep">> >>),
                Events(<< <<"ping", "sep", "1a">>, <<"1b", "2a", "2b">>, <<"sep">> >>)}

AllExchanges == {Own, Unsized, Refusal, Unasked} \cup Sized \cup Stream \cup EventStream

\* A stream from a server that closes when it has sent everything.
OneStream == {[Call("stream", TRUE, "chunked", << <<"a">>, <<"b">> >>) EXCEPT
                !.hangup = "after"]}
\* Events from a server that keeps the connection open.
OpenStream == {[Events(<< <<"1a", "1b", "sep">>, <<"[DONE]", "sep">> >>) EXCEPT
                 !.hangup = "never"]}

=============================================================================
