-------------------------------- MODULE Http --------------------------------
(***************************************************************************)
(* One call of flowno's HttpClient (http_client.py) to a server: flowno's  *)
(* own HttpServer (http_server.py), or any other one that answers          *)
(* correctly, and then may close the connection at any moment.             *)
(*                                                                         *)
(* A unit stands for the bytes that the code never looks into: "head" for  *)
(* the status line and the headers, "end" for the empty line after them, a *)
(* size in hexadecimal, CR and LF, and pieces of the body.  A JSON message *)
(* is a pair of pieces and is named by the first of them.                  *)
(***************************************************************************)
EXTENDS Sockets

CONSTANTS Exchanges    \* the calls and the answers: see Exchange

VARIABLES
    exchange,    \* the call and the answer of this behaviour
    serverAt,    \* where the task of HttpServer stands
    requested,   \* HttpServer._receive_headers: data
    unsent,      \* SocketHandle.sendAll: data
    clientAt,    \* the await or yield in which the client stands
    data,        \* what it has received and not used: data, body or head
    chunkSize,   \* _stream_read: chunk_size
    delivered,   \* the chunks it has yielded
    sse          \* StreamingContext

serverVars == <<serverAt, requested, unsent>>
clientVars == <<clientAt, data, chunkSize, delivered, sse>>
vars == <<socketVars, exchange, serverVars, clientVars>>

\* call: request(), or stream_request(); framing: what tells the length of the body;
\* chunks: the body; hangup: when the server closes.
Exchange ==
    [call : {"request", "stream"}, ok : BOOLEAN, framing : {"length", "close", "chunked"},
     events : BOOLEAN, tls : BOOLEAN, chunks : Seq(Seq(STRING)), post : Seq(STRING),
     hangup : {"never", "after", "anytime"}]

\* Chunks have at most three units, as long as Size goes.
ASSUME ExchangeAssumption ==
    \A x \in Exchanges :
        /\ x \in Exchange
        /\ x.framing = "chunked" => \A j \in DOMAIN x.chunks : Len(x.chunks[j]) \in 0..3

Size == [u \in {"0", "1", "2", "3"} |->
            CASE u = "0" -> 0 [] u = "1" -> 1 [] u = "2" -> 2 [] u = "3" -> 3]
SizeLine(n) == (CHOOSE u \in DOMAIN Size : Size[u] = n)

CRLF == <<"cr", "lf">>
Chunk(c) == <<SizeLine(Len(c))>> \o CRLF \o c \o CRLF
Chunks(cs) == FlattenSeq([j \in DOMAIN cs |-> Chunk(cs[j])])

Body == FlattenSeq(exchange.chunks)

\* The chunks with the empty one that ends them.
Sent == Append(exchange.chunks, <<>>)

Answer ==
    <<"head", "end">> \o IF exchange.framing = "chunked" THEN Chunks(Sent) ELSE Body

Request == <<"head", "end">> \o exchange.post

NoEvents == [buffer |-> <<>>, json |-> <<>>, done |-> FALSE, stopped |-> FALSE, out |-> <<>>]

TypeOK ==
    /\ serverAt \in {"accept", "headers", "respond", "over"}
    /\ clientAt \in {"start", "headers", "length", "rest", "chunk", "size", "body", "yield",
                     "terminator", "done", "raised"}
    /\ chunkSize \in 0..3

Init ==
    /\ SocketInit
    /\ exchange \in Exchanges
    /\ serverAt = "accept" /\ requested = <<>> /\ unsent = <<>>
    /\ clientAt = "start" /\ data = <<>> /\ chunkSize = 0
    /\ delivered = <<>>
    /\ sse = NoEvents

-----------------------------------------------------------------------------
(* The server.                                                                *)

\* HttpServer.serve: accept() and spawn().
Accept ==
    /\ serverAt = "accept" /\ clientAt # "start"
    /\ serverAt' = "headers"
    /\ UNCHANGED <<socketVars, exchange, requested, unsent, clientVars>>

\* HttpServer._receive_headers, one recv() of it.
ServerReceives ==
    /\ serverAt = "headers" /\ "server" \notin hungUp
    /\ \E r \in Receivable("server", BufSize, FALSE) :
          /\ Recv("server", r)
          /\ requested' = requested \o r.got
          /\ IF r.got = <<>> \/ Contains(requested', "end")
               THEN serverAt' = "respond" /\ unsent' = Answer
               ELSE UNCHANGED <<serverAt, unsent>>
    /\ UNCHANGED <<exchange, clientVars>>

\* One send() of SocketHandle.sendAll; handle_client() then fails to close the socket.
ServerSends ==
    /\ serverAt = "respond" /\ "server" \notin hungUp
    /\ \E k \in 1..Len(unsent) :
          /\ Send("server", Upto(unsent, k))
          /\ unsent' = Beyond(unsent, k)
    /\ serverAt' = IF unsent' = <<>> THEN "over" ELSE serverAt
    /\ UNCHANGED <<exchange, requested, clientVars>>

\* Another server ends, or breaks off.
ServerHangsUp ==
    /\ serverAt # "accept"
    /\ exchange.hangup = "anytime" \/ (exchange.hangup = "after" /\ serverAt = "over")
    /\ HangUp("server")
    /\ UNCHANGED <<exchange, serverVars, clientVars>>

-----------------------------------------------------------------------------
(* The client: request(), stream_request(), _receive_headers().               *)

Goto(place, units) == clientAt' = place /\ data' = units

Raise == Goto("raised", data)

ReadsChunks == UNCHANGED <<chunkSize, delivered, sse>>

\* connect() and send() block until the whole request is with the system.
SendRequest ==
    /\ clientAt = "start"
    /\ Send("client", Request)
    /\ Goto("headers", <<>>)
    /\ ReadsChunks /\ UNCHANGED <<exchange, serverVars>>

\* mutant: forgets what came with the headers
BodyAfresh(head, units) ==
    LET known == Contains(head, "head")
        framing == IF known THEN exchange.framing ELSE "close"
        streams == exchange.call = "stream" /\ known /\ (exchange.ok \/ framing = "chunked")
    IN
    CASE streams -> Goto("chunk", units)
      [] ~streams /\ framing = "chunked" -> Raise
      [] ~streams /\ framing = "length" -> Goto("length", <<>>)
      [] ~streams /\ framing = "close" -> Goto("rest", <<>>)

\* What to do with the body: `head' are the headers as far as they were received.
ReceiveBody(head, units) ==
    LET known == Contains(head, "head")
        framing == IF known THEN exchange.framing ELSE "close"
        streams == exchange.call = "stream" /\ known /\ (exchange.ok \/ framing = "chunked")
    IN
    CASE streams -> Goto("chunk", units)
      [] ~streams /\ framing = "chunked" -> Raise
      [] ~streams /\ framing = "length" ->
            Goto(IF Len(units) < Len(Body) THEN "length" ELSE "done", units)
      [] ~streams /\ framing = "close" -> Goto("rest", units)

\* _receive_headers, one recv() of it; at the empty line or the end of the stream it goes on
\* with what it has.
ReceiveHeaders ==
    /\ clientAt = "headers"
    /\ \E r \in Receivable("client", BufSize, exchange.tls) :
          LET all == data \o r.got
              i == SelectInSeq(all, LAMBDA u : u = "end")
          IN
          /\ Recv("client", r)
          /\ IF i = 0 /\ r.got # <<>>
               THEN Goto("headers", all)
               ELSE IF i = 0 THEN ReceiveBody(all, <<>>)
                             ELSE ReceiveBody(Upto(all, i), Beyond(all, i))
    /\ ReadsChunks /\ UNCHANGED <<exchange, serverVars>>

\* mutant: waits for the length only
RemainderToLength ==
    /\ clientAt \in {"length", "rest"}
    /\ \E r \in Receivable("client", BufSize, exchange.tls) :
          LET all == data \o r.got
              enough == clientAt = "length" /\ Len(all) >= Len(Body)
          IN  Recv("client", r) /\ Goto(IF enough THEN "done" ELSE clientAt, all)
    /\ ReadsChunks /\ UNCHANGED <<exchange, serverVars>>

\* _receive_remainder of a body with a length, or up to the end of the stream.
ReceiveRemainder ==
    /\ clientAt \in {"length", "rest"}
    /\ \E r \in Receivable("client", BufSize, exchange.tls) :
          LET all == data \o r.got
              enough == r.got = <<>> \/ (clientAt = "length" /\ Len(all) >= Len(Body))
          IN  Recv("client", r) /\ Goto(IF enough THEN "done" ELSE clientAt, all)
    /\ ReadsChunks /\ UNCHANGED <<exchange, serverVars>>

-----------------------------------------------------------------------------
(* _stream_read() and _split_chunks_to_message_json().                        *)

\* One event: a comment, the end mark, or a piece of JSON, of which every message that is
\* complete is yielded.
Event(c, event) ==
    LET json == c.json \o event
        n == Len(json) \div 2
    IN  CASE event = <<>> \/ event = <<"ping">> -> c
          [] event = <<"[DONE]">> -> [c EXCEPT !.done = TRUE, !.stopped = TRUE]
          [] OTHER -> [c EXCEPT !.json = Beyond(json, 2 * n),
                                !.out = @ \o [i \in 1..n |-> json[2 * i - 1]]]

\* mutant: begins with each chunk anew
SplitAfresh(c, chunk) ==
    FoldLeft(LAMBDA d, u : IF d.stopped \/ u # "sep"
                             THEN [d EXCEPT !.buffer = Append(@, u)]
                             ELSE Event([d EXCEPT !.buffer = <<>>], d.buffer),
             [c EXCEPT !.buffer = <<>>, !.stopped = FALSE], chunk)

\* The events that end in this chunk; the end mark leaves the rest for the next chunk.
Split(c, chunk) ==
    FoldLeft(LAMBDA d, u : IF d.stopped \/ u # "sep"
                             THEN [d EXCEPT !.buffer = Append(@, u)]
                             ELSE Event([d EXCEPT !.buffer = <<>>], d.buffer),
             [c EXCEPT !.buffer = <<>>, !.stopped = FALSE], c.buffer \o chunk)

\* mutant: drops what was received with the chunk
YieldAll(size, units) ==
    /\ Goto("yield", <<>>)
    /\ delivered' = Append(delivered, Upto(units, size))
    /\ sse' = IF exchange.events /\ exchange.ok THEN Split(sse, Upto(units, size)) ELSE sse

Yield(size, units) ==
    /\ Goto("yield", Beyond(units, size))
    /\ delivered' = Append(delivered, Upto(units, size))
    /\ sse' = IF exchange.events /\ exchange.ok THEN Split(sse, Upto(units, size)) ELSE sse

\* mutant: does not wait for the rest of a chunk
TakeChunkShort(size, units) == chunkSize' = size /\ Yield(size, units)

\* A chunk that is complete is yielded, any other is received to its end.
TakeChunk(size, units) ==
    /\ chunkSize' = size
    /\ IF size > Len(units)
         THEN Goto("body", units) /\ UNCHANGED <<delivered, sse>>
         ELSE Yield(size, units)

CrlfAt(units) ==
    SelectInSeq([i \in 1..(Len(units) - 1) |-> SubSeq(units, i, i + 1)], LAMBDA s : s = CRLF)

\* The head holds at least one byte: the size of a chunk, its CRLF and what follows.
TakeSize(units) ==
    LET i == CrlfAt(units)
        line == Upto(units, i - 1)
    IN
    CASE i = 0 -> Goto("size", units) /\ ReadsChunks
      [] i = 1 -> Goto("done", units) /\ ReadsChunks
      [] i > 1 /\ ~(i = 2 /\ line[1] \in DOMAIN Size) -> Raise /\ ReadsChunks
      [] OTHER -> TakeChunk(Size[line[1]], Beyond(units, i + 1))

\* The terminator of a chunk.
TakeTerminator(units) ==
    IF Upto(units, 2) = CRLF THEN Goto("chunk", Beyond(units, 2)) ELSE Goto("terminator", units)

\* One recv() of _stream_read, and what it does up to the next one.
StreamRead ==
    /\ clientAt \in {"chunk", "size", "body", "terminator"}
    /\ \E r \in Receivable("client",
                            IF clientAt = "body" THEN chunkSize - Len(data) ELSE BufSize,
                            exchange.tls) :
          LET all == data \o r.got IN
          /\ Recv("client", r)
          /\ CASE r.got = <<>> /\ clientAt = "chunk" -> Goto("done", data) /\ ReadsChunks
               [] r.got = <<>> /\ clientAt # "chunk" -> Raise /\ ReadsChunks
               [] r.got # <<>> /\ clientAt \in {"chunk", "size"} -> TakeSize(all)
               [] r.got # <<>> /\ clientAt = "body" -> TakeChunk(chunkSize, all)
               [] OTHER -> TakeTerminator(all) /\ ReadsChunks
    /\ UNCHANGED <<exchange, serverVars>>

\* The reader of the stream asks for more.
Resumed ==
    /\ clientAt = "yield"
    /\ TakeTerminator(data)
    /\ ReadsChunks
    /\ UNCHANGED <<socketVars, exchange, serverVars>>

-----------------------------------------------------------------------------

Server == Accept \/ ServerReceives \/ ServerSends
Client == SendRequest \/ ReceiveHeaders \/ ReceiveRemainder \/ StreamRead \/ Resumed

Next == Server \/ ServerHangsUp \/ Client

Spec == Init /\ [][Next]_vars

\* The event loop resumes a task whose socket is ready.  Nothing makes a server hang up.
FairSpec == Spec /\ WF_vars(Server) /\ WF_vars(Client)

-----------------------------------------------------------------------------
(* Properties.                                                                *)

Ended == clientAt \in {"done", "raised"}

\* The calls that return the body as a whole.
ReadsBody == exchange.framing # "chunked" /\ (exchange.call = "request" \/ ~exchange.ok)

\* A body that request() returns, or stream_request() returns with an error, is what the
\* server sent, and the whole of it unless the server broke off: however the bytes came,
\* and whatever of the body came with the headers.
BodyIsWhatWasSent ==
    clientAt = "done" /\ ReadsBody =>
        /\ IsPrefix(data, Body)
        /\ "server" \notin hungUp => data = Body
        /\ unsent = <<>> /\ serverAt = "over" => data = Body

Streaming == clientAt \in {"chunk", "size", "body", "yield", "terminator"}

\* What the reader of a stream has used up of the body.
Taken ==
    LET cut == Chunks(delivered) IN
    CASE clientAt \in {"yield", "terminator"} -> Upto(cut, Len(cut) - 2)
      [] clientAt = "body" -> cut \o <<SizeLine(chunkSize)>> \o CRLF
      [] OTHER -> cut

\* While the client reads a stream whose headers were sent, what it has yielded, what it
\* holds and what is still to come make up the answer: no byte is skipped, read twice or
\* given to another chunk.
NothingSkipped ==
    Streaming /\ Len(Answer) - Len(unsent) > 1 =>
        <<"head", "end">> \o Taken \o data \o decrypted["client"] \o arriving["client"]
           \o unsent = Answer

\* Whatever a stream yields, up to its end or its exception, are the chunks that the server
\* sent, each whole and in their order: however they were cut into pieces on the way.
ChunksAsSent == exchange.framing = "chunked" => IsPrefix(delivered, Sent)

\* The messages do not depend on how the events were cut into chunks: the reader of the
\* stream has got every message whose last event has ended, up to the end mark, once and in
\* the order in which they were sent.
MessagesAsSent ==
    exchange.events => sse.out = Split(NoEvents, FlattenSeq(delivered)).out

\* "we need to start reading chunks from initial body then continuing to read from socket":
\* a stream that ends without an exception, from a server that has sent everything, has
\* yielded every chunk.
EveryChunk ==
    clientAt = "done" /\ exchange.framing = "chunked" /\ serverAt = "over" =>
        IsPrefix(exchange.chunks, delivered)

\* Every call ends, with a result or an exception, once the server has closed the
\* connection, and one with a length as soon as the server has answered.
CallEnds ==
    ("server" \in hungUp \/ (exchange.framing = "length" /\ serverAt = "over")) ~> Ended

\* "until I receive a message that is just '[DONE]' or chunk size 0": the stream ends with
\* either, also on a connection that stays open.
DoneEnds ==
    (sse.done \/ (delivered # <<>> /\ Last(delivered) = <<>>)) ~> Ended

=============================================================================
