----------------------------- MODULE HttpProofs -----------------------------
(***************************************************************************)
(* Proofs about Http, for every exchange and every size of a recv(): a     *)
(* body that is returned is what the server sent, a stream reads every     *)
(* byte of the answer once, and the messages of a stream of events do not  *)
(* depend on how it was cut.                                               *)
(***************************************************************************)
EXTENDS Http, SequenceProofs

-----------------------------------------------------------------------------
(* The inductive invariant.                                                   *)

Unit == STRING \cup {SizeLine(n) : n \in Nat} \cup {"head", "end", "cr", "lf"}

\* What the client has still to receive.
Coming == decrypted["client"] \o (arriving["client"] \o unsent)

Answered == serverAt \in {"respond", "over"}

\* The server has gone and nothing of it is on the way.
Silent == "server" \in hungUp /\ arriving["client"] = <<>> /\ decrypted["client"] = <<>>

\* The server has gone before its headers ended.
Broken ==
    /\ Silent /\ data = <<>> /\ serverAt # "over"
    /\ Answered => Len(Answer) <= Len(unsent) + 1

HttpTypes ==
    /\ TypeOK
    /\ exchange \in Exchanges
    /\ DOMAIN arriving = End /\ DOMAIN decrypted = End
    /\ arriving["client"] \in Seq(Unit) /\ decrypted["client"] \in Seq(Unit)
    /\ unsent \in Seq(Unit) /\ data \in Seq(Unit)
    /\ delivered \in Seq(Seq(Unit))

\* Nothing comes before the server answers, and everything is sent when it has answered.
InOrder ==
    /\ clientAt = "start" => serverAt = "accept"
    /\ clientAt \in {"start", "headers"} => delivered = <<>>
    /\ serverAt = "over" => unsent = <<>>
    /\ ~Answered => /\ unsent = <<>> /\ arriving["client"] = <<>>
                    /\ decrypted["client"] = <<>> /\ data = <<>>
                    /\ clientAt \in {"start", "headers"} \/ "server" \in hungUp
                    /\ ~Streaming

\* The headers, as far as they were received, begin the answer.
HeadFirst == Answered /\ clientAt = "headers" => data \o Coming = Answer

\* A body is received from its first byte on, and is over at its end or when nothing comes.
BodyNext ==
    /\ clientAt \in {"length", "rest"} => Broken \/ (Answered /\ data \o Coming = Body)
    /\ clientAt = "done" /\ ReadsBody =>
          Broken \/ (Answered /\ data \o Coming = Body /\ (data = Body \/ Silent))

Whole == (<<"head", "end">> \o Taken) \o (data \o Coming) = Answer

\* A stream goes on where it has stopped.
StreamNext ==
    Streaming =>
        /\ Answered /\ ~ReadsBody
        /\ Whole \/ (Broken /\ clientAt = "chunk")
        /\ clientAt = "body" => Len(data) < chunkSize
        /\ clientAt \in {"yield", "terminator"} => delivered # <<>>

HttpInv == HttpTypes /\ InOrder /\ HeadFirst /\ BodyNext /\ StreamNext

-----------------------------------------------------------------------------
(* Parts of a sequence.                                                       *)

\* A sequence is its first n elements and the others.
LEMMA Parts ==
    ASSUME NEW X, NEW s \in Seq(X), NEW n \in Nat
    PROVE  /\ Upto(s, n) \in Seq(X) /\ Beyond(s, n) \in Seq(X)
           /\ Upto(s, n) \o Beyond(s, n) = s
           /\ Len(Upto(s, n)) = IF n < Len(s) THEN n ELSE Len(s)
           /\ n <= Len(s) => Len(Upto(s, n)) = n
           /\ \A i \in 1..Len(Upto(s, n)) : Upto(s, n)[i] = s[i]
<1> DEFINE m == IF n < Len(s) THEN n ELSE Len(s)
<1>1. Len(s) \in Nat /\ m \in 0..Len(s) /\ m \in Nat BY LenProperties
<1>2. \A i \in 1..Len(s) : s[i] \in X BY ElementOfSeq
<1>3. /\ Upto(s, n) \in Seq(X) /\ Len(Upto(s, n)) = m
      /\ \A i \in 1..m : Upto(s, n)[i] = s[i]
  <2>1. \A i \in 1..m : s[i] \in X BY <1>1, <1>2
  <2>2. Upto(s, n) = SubSeq(s, 1, m) BY DEF Upto
  <2> HIDE DEF m
  <2>3. 1 \in Int /\ m \in Int BY <1>1
  <2>4. /\ SubSeq(s, 1, m) \in Seq(X)
        /\ Len(SubSeq(s, 1, m)) = IF 1 <= m THEN m - 1 + 1 ELSE 0
        /\ \A i \in 1..(m - 1 + 1) : SubSeq(s, 1, m)[i] = s[1 + i - 1]
    BY <2>1, <2>3, SubSeqProperties
  <2> QED BY <1>1, <2>2, <2>4
<1>4. Beyond(s, n) \in Seq(X)
  <2>1. \A i \in (n + 1)..Len(s) : s[i] \in X BY <1>1, <1>2
  <2>2. n + 1 \in Int /\ Len(s) \in Int BY <1>1
  <2> QED BY <2>1, <2>2, SubSeqProperties DEF Beyond
<1>5. Upto(s, n) \o Beyond(s, n) = s
  <2>1. CASE n < Len(s)
    <3>1. Upto(s, n) = SubSeq(s, 1, n) /\ Beyond(s, n) = SubSeq(s, n + 1, Len(s))
      BY <2>1 DEF Upto, Beyond
    <3>2. 1 \in 1..Len(s) + 1 /\ n \in 1 - 1..Len(s) /\ Len(s) \in n..Len(s)
      BY <1>1, <2>1
    <3>3. SubSeq(s, 1, n) \o SubSeq(s, n + 1, Len(s)) = SubSeq(s, 1, Len(s))
      BY <3>2, ConcatAdjacentSubSeq
    <3> QED BY <3>1, <3>3, SubSeqFull
  <2>2. CASE ~(n < Len(s))
    <3>1. Upto(s, n) = s BY <2>2, SubSeqFull DEF Upto
    <3>2. Beyond(s, n) = <<>>
      <4>1. n + 1 \in Int /\ Len(s) \in Int /\ Len(s) < n + 1 BY <1>1, <2>2
      <4> QED BY <4>1, SubSeqEmpty DEF Beyond
    <3> QED BY <3>1, <3>2, ConcatEmptySeq
  <2> QED BY <2>1, <2>2
<1> HIDE DEF m
<1>6. Len(Upto(s, n)) = IF n < Len(s) THEN n ELSE Len(s) BY <1>3 DEF m
<1>7. n <= Len(s) => m = n BY <1>1 DEF m
<1> QED BY <1>3, <1>4, <1>5, <1>6, <1>7

\* The first part of a concatenation is known by its length, and then so is the other.
LEMMA SameParts ==
    ASSUME NEW X, NEW s \in Seq(X), NEW t \in Seq(X), NEW u \in Seq(X), NEW v \in Seq(X),
           s \o t = u \o v, Len(s) = Len(u)
    PROVE  s = u /\ t = v
<1>1. Len(s) \in Nat /\ Len(t) \in Nat /\ Len(v) \in Nat BY LenProperties
<1>2. ASSUME NEW i \in 1..Len(s) PROVE s[i] = u[i]
  <2>1. i \in 1..Len(s) + Len(t) /\ i \in 1..Len(u) + Len(v) /\ i <= Len(s) BY <1>1
  <2>2. (s \o t)[i] = s[i] BY <2>1, ConcatProperties
  <2>3. (u \o v)[i] = u[i] BY <2>1, ConcatProperties
  <2> QED BY <2>2, <2>3
<1>3. s = u BY <1>2, SeqEqual
<1>4. t = v
  <2>1. Len(s) + Len(t) = Len(s) + Len(v) BY <1>3, ConcatProperties
  <2>2. Len(t) = Len(v) BY <1>1, <2>1
  <2>3. ASSUME NEW i \in 1..Len(t) PROVE t[i] = v[i]
    <3>1. /\ Len(s) + i \in 1..Len(s) + Len(t) /\ Len(s) + i \in 1..Len(u) + Len(v)
          /\ ~(Len(s) + i <= Len(s)) /\ Len(s) + i - Len(s) = i
      BY <1>1, <2>2
    <3> DEFINE j == Len(s) + i
    <3>2. j - Len(s) = i /\ j - Len(u) = i BY <3>1
    <3> HIDE DEF j
    <3>3. (s \o t)[j] = t[j - Len(s)] BY <3>1, ConcatProperties DEF j
    <3>4. (u \o v)[j] = v[j - Len(u)] BY <3>1, ConcatProperties DEF j
    <3> QED BY <3>2, <3>3, <3>4
  <2> QED BY <2>2, <2>3, SeqEqual
<1> QED BY <1>3, <1>4

\* A concatenation begins with its first part.
LEMMA ConcatFirst ==
    ASSUME NEW X, NEW s \in Seq(X), NEW t \in Seq(X)
    PROVE  \A i \in 1..Len(s) : (s \o t)[i] = s[i]
<1>1. Len(s) \in Nat /\ Len(t) \in Nat BY LenProperties
<1>2. \A i \in 1..Len(s) : i \in 1..Len(s) + Len(t) /\ i <= Len(s) BY <1>1
<1> QED BY <1>2, ConcatProperties

\* What comes before the last elements.
LEMMA PartsOfConcat ==
    ASSUME NEW X, NEW s \in Seq(X), NEW t \in Seq(X)
    PROVE  Upto(s \o t, Len(s)) = s /\ Beyond(s \o t, Len(s)) = t
<1>1. Len(s) \in Nat /\ Len(t) \in Nat BY LenProperties
<1>2. s \o t \in Seq(X) /\ Len(s \o t) = Len(s) + Len(t) BY ConcatProperties
<1> DEFINE u == Upto(s \o t, Len(s))
           v == Beyond(s \o t, Len(s))
<1>3. /\ u \in Seq(X) /\ v \in Seq(X) /\ u \o v = s \o t
      /\ Len(u) = IF Len(s) < Len(s \o t) THEN Len(s) ELSE Len(s \o t)
  BY <1>1, <1>2, Parts
<1>4. Len(u) = Len(s) BY <1>1, <1>2, <1>3
<1> HIDE DEF u, v
<1>5. u = s /\ v = t BY <1>3, <1>4, SameParts, Zenon
<1> QED BY <1>5 DEF u, v

\* Nothing is what is left of a sequence that is used up.
LEMMA NothingBeyond ==
    ASSUME NEW X, NEW s \in Seq(X)
    PROVE  Beyond(s, 0) = s /\ (s = <<>> => \A n \in Nat : Upto(s, n) = <<>> /\ Beyond(s, n) = <<>>)
<1>1. Beyond(s, 0) = s BY SubSeqFull DEF Beyond
<1>2. ASSUME s = <<>>, NEW n \in Nat PROVE Upto(s, n) = <<>> /\ Beyond(s, n) = <<>>
  <2>1. Upto(s, n) \in Seq(X) /\ Beyond(s, n) \in Seq(X) /\ Upto(s, n) \o Beyond(s, n) = s
    BY Parts
  <2> QED BY <1>2, <2>1, ConcatEqualIffEmpty
<1> QED BY <1>1, <1>2

\* A part of a sequence that the rest makes up to it is a prefix of it.
LEMMA PrefixOfConcat ==
    ASSUME NEW X, NEW s \in Seq(X), NEW t \in Seq(X)
    PROVE  IsPrefix(s, s \o t)
<1>1. Len(s) \in Nat /\ Len(t) \in Nat BY LenProperties
<1>2. Len(s \o t) = Len(s) + Len(t) BY ConcatProperties
<1>3. Len(s) <= Len(s \o t) BY <1>1, <1>2
<1>4. SubSeq(s, 1, Len(s)) = s BY SubSeqFull
<1>5. SubSeq(s \o t, 1, Len(s)) = Upto(s \o t, Len(s)) BY <1>1, <1>2 DEF Upto
<1> QED BY <1>3, <1>4, <1>5, PartsOfConcat DEF IsPrefix

-----------------------------------------------------------------------------
(* The answer.                                                                *)

\* The units that the code looks into.
LEMMA Marks ==
    /\ <<"head", "end">> \in Seq(Unit) /\ Len(<<"head", "end">>) = 2
    /\ CRLF \in Seq(Unit) /\ Len(CRLF) = 2
    /\ \A n \in Nat : SizeLine(n) \in Unit /\ <<SizeLine(n)>> \in Seq(Unit)
<1>1. "head" \in Unit /\ "end" \in Unit /\ "cr" \in Unit /\ "lf" \in Unit
  BY Zenon DEF Unit
<1>2. \A n \in Nat : SizeLine(n) \in Unit BY Zenon DEF Unit
<1> HIDE DEF Unit
<1>3. \A n \in Nat : <<SizeLine(n)>> \in Seq(Unit) BY <1>2
<1> QED BY <1>1, <1>2, <1>3 DEF CRLF

\* The size of a chunk is read as it was written.
LEMMA SizeIsRead ==
    ASSUME NEW u \in DOMAIN Size
    PROVE  Size[u] \in 0..3 /\ SizeLine(Size[u]) = u
<1>1. DOMAIN Size = {"0", "1", "2", "3"} BY DEF Size
<1>2. Size["0"] = 0 /\ Size["1"] = 1 /\ Size["2"] = 2 /\ Size["3"] = 3 BY DEF Size
<1>3. \A v \in DOMAIN Size : Size[v] = Size[u] => v = u BY <1>1, <1>2
<1>4. SizeLine(Size[u]) = u
  <2>1. \E v \in DOMAIN Size : Size[v] = Size[u] OBVIOUS
  <2> QED BY <2>1, <1>3, Zenon DEF SizeLine
<1> QED BY <1>1, <1>2, <1>4

\* A chunk on the wire is its size, its units and a line break.
LEMMA ChunkType ==
    ASSUME NEW c \in Seq(Unit)
    PROVE  /\ <<SizeLine(Len(c))>> \o CRLF \o c \in Seq(Unit)
           /\ Chunk(c) \in Seq(Unit)
<1>1. Len(c) \in Nat BY LenProperties
<1>2. <<SizeLine(Len(c))>> \in Seq(Unit) /\ CRLF \in Seq(Unit) BY <1>1, Marks
<1>3. <<SizeLine(Len(c))>> \o CRLF \in Seq(Unit) BY <1>2, ConcatProperties
<1>4. <<SizeLine(Len(c))>> \o CRLF \o c \in Seq(Unit) BY <1>3, ConcatProperties
<1>5. Chunk(c) \in Seq(Unit) BY <1>2, <1>4, ConcatProperties DEF Chunk
<1> QED BY <1>4, <1>5

LEMMA ChunksType ==
    ASSUME NEW cs \in Seq(Seq(Unit))
    PROVE  [j \in DOMAIN cs |-> Chunk(cs[j])] \in Seq(Seq(Unit)) /\ Chunks(cs) \in Seq(Unit)
<1> DEFINE n == Len(cs)
<1>1. n \in Nat /\ DOMAIN cs = 1..n /\ \A j \in 1..n : cs[j] \in Seq(Unit)
  BY LenProperties, ElementOfSeq
<1> HIDE DEF n
<1>2. \A j \in 1..n : Chunk(cs[j]) \in Seq(Unit) BY <1>1, ChunkType
<1>3. [j \in DOMAIN cs |-> Chunk(cs[j])] \in Seq(Seq(Unit))
  <2>1. [j \in 1..n |-> Chunk(cs[j])] \in [1..n -> Seq(Unit)] BY <1>2
  <2> QED BY <1>1, <2>1, SeqDef
<1> QED BY <1>3, FlattenType DEF Chunks

\* One more chunk comes at the end.
LEMMA ChunksAppend ==
    ASSUME NEW cs \in Seq(Seq(Unit)), NEW c \in Seq(Unit)
    PROVE  /\ Append(cs, c) \in Seq(Seq(Unit))
           /\ Chunks(Append(cs, c)) = Chunks(cs) \o Chunk(c)
<1> DEFINE n == Len(cs)
           more == Append(cs, c)
           e == [j \in DOMAIN cs |-> Chunk(cs[j])]
           f == [j \in DOMAIN more |-> Chunk(more[j])]
<1>1. /\ n \in Nat /\ DOMAIN cs = 1..n
      /\ more \in Seq(Seq(Unit)) /\ Len(more) = n + 1 /\ DOMAIN more = 1..(n + 1)
      /\ \A j \in 1..n : more[j] = cs[j]
      /\ more[n + 1] = c
  <2>1. /\ more \in Seq(Seq(Unit)) /\ Len(more) = n + 1 /\ \A j \in 1..n : more[j] = cs[j]
        /\ more[n + 1] = c
    BY AppendProperties
  <2> QED BY <2>1, LenProperties
<1>2. e \in Seq(Seq(Unit)) /\ f \in Seq(Seq(Unit)) BY <1>1, ChunksType
<1>3. Chunk(c) \in Seq(Unit) BY ChunkType
<1>4. f = Append(e, Chunk(c))
  <2>1. DOMAIN e = 1..n /\ DOMAIN f = 1..(n + 1) BY <1>1
  <2>2. Len(e) = n /\ Len(f) = n + 1 BY <1>1, <1>2, <2>1, LenProperties
  <2>3. \A j \in 1..n : f[j] = e[j] BY <1>1
  <2>4. f[n + 1] = Chunk(c) BY <1>1
  <2> DEFINE g == Append(e, Chunk(c))
  <2> HIDE DEF e, f, more, n
  <2>5. /\ g \in Seq(Seq(Unit)) /\ Len(g) = n + 1 /\ \A j \in 1..n : g[j] = e[j]
        /\ g[n + 1] = Chunk(c)
    BY <1>2, <1>3, <2>2, AppendProperties
  <2> HIDE DEF g
  <2>6. \A j \in 1..(n + 1) : f[j] = g[j]
    <3>1. \A j \in 1..(n + 1) : j \in 1..n \/ j = n + 1 BY <1>1
    <3> QED BY <2>3, <2>4, <2>5, <3>1
  <2>7. f = g BY <1>2, <2>2, <2>5, <2>6, SeqEqual
  <2> QED BY <2>7 DEF g
<1>5. Chunks(more) = FlattenSeq(f) /\ Chunks(cs) = FlattenSeq(e) BY DEF Chunks
<1> HIDE DEF e, f
<1>6. Chunks(more) = Chunks(cs) \o Chunk(c) BY <1>2, <1>3, <1>4, <1>5, FlattenAppend
<1> QED BY <1>1, <1>6

\* Before its last line break.
LEMMA BeforeLastBreak ==
    ASSUME NEW cs \in Seq(Seq(Unit)), NEW c \in Seq(Unit)
    PROVE  LET cut == Chunks(Append(cs, c)) IN
           /\ Upto(cut, Len(cut) - 2) = Chunks(cs) \o (<<SizeLine(Len(c))>> \o CRLF \o c)
           /\ cut = Upto(cut, Len(cut) - 2) \o CRLF
<1> DEFINE cut == Chunks(Append(cs, c))
           h == <<SizeLine(Len(c))>> \o CRLF \o c
           s == Chunks(cs) \o h
<1>1. cut = Chunks(cs) \o (h \o CRLF) BY ChunksAppend DEF Chunk
<1>2. h \in Seq(Unit) /\ Chunks(cs) \in Seq(Unit) /\ CRLF \in Seq(Unit) /\ Len(CRLF) = 2
  BY ChunkType, ChunksType, Marks
<1> HIDE DEF cut, h
<1>3. cut = s \o CRLF
  <2> DEFINE a == Chunks(cs)
  <2>0. a \in Seq(Unit) /\ h \in Seq(Unit) /\ CRLF \in Seq(Unit) BY <1>2
  <2> HIDE DEF a
  <2>1. (a \o h) \o CRLF = a \o (h \o CRLF)
    <3>1. Associates(a, h, CRLF) BY <2>0, Associative
    <3> QED BY <3>1 DEF Associates
  <2> QED BY <1>1, <2>1 DEF a
<1>4. s \in Seq(Unit) BY <1>2, ConcatProperties
<1> HIDE DEF s
<1>5. Len(s) \in Nat /\ Len(cut) = Len(s) + 2
  <2>1. Len(s \o CRLF) = Len(s) + Len(CRLF) BY <1>2, <1>4, ConcatProperties, Zenon
  <2>2. Len(s) \in Nat BY <1>4, LenProperties
  <2> QED BY <1>2, <1>3, <2>1, <2>2
<1>6. Len(cut) - 2 = Len(s) BY <1>5
<1>7. Upto(cut, Len(cut) - 2) = s BY <1>2, <1>3, <1>4, <1>6, PartsOfConcat
<1> QED BY <1>3, <1>7 DEF s, cut, h

\* What the server sends, for any exchange.
LEMMA AnswerType ==
    ASSUME exchange \in Exchanges
    PROVE  /\ exchange.chunks \in Seq(Seq(Unit)) /\ exchange.tls \in BOOLEAN
           /\ exchange.framing \in {"length", "close", "chunked"}
           /\ Body \in Seq(Unit) /\ Answer \in Seq(Unit)
           /\ exchange.framing # "chunked" => Answer = <<"head", "end">> \o Body
           /\ \E rest \in Seq(Unit) : Answer = <<"head", "end">> \o rest
<1>1. exchange \in Exchange BY ExchangeAssumption
<1>2. exchange.chunks \in Seq(Seq(STRING)) /\ exchange.tls \in BOOLEAN
      /\ exchange.framing \in {"length", "close", "chunked"}
  BY <1>1 DEF Exchange
<1>3. exchange.chunks \in Seq(Seq(Unit))
  <2>1. STRING \subseteq Unit BY Zenon DEF Unit
  <2> HIDE DEF Unit
  <2>2. Seq(STRING) \subseteq Seq(Unit) BY <2>1, SeqMonotonic
  <2> QED BY <1>2, <2>2, SeqMonotonic
<1>4. Body \in Seq(Unit) BY <1>3, FlattenType DEF Body
<1>5. Chunks(Sent) \in Seq(Unit)
  <2>1. <<>> \in Seq(Unit) BY EmptySeq
  <2>2. Sent \in Seq(Seq(Unit)) BY <1>3, <2>1, ChunksAppend DEF Sent
  <2> QED BY <2>2, ChunksType
<1>6. CASE exchange.framing = "chunked"
  <2>1. Answer = <<"head", "end">> \o Chunks(Sent) BY <1>6 DEF Answer
  <2>2. Answer \in Seq(Unit) BY <1>5, <2>1, Marks, ConcatProperties
  <2> QED BY <1>2, <1>3, <1>4, <1>5, <1>6, <2>1, <2>2
<1>7. CASE exchange.framing # "chunked"
  <2>1. Answer = <<"head", "end">> \o Body BY <1>7 DEF Answer
  <2>2. Answer \in Seq(Unit) BY <1>4, <2>1, Marks, ConcatProperties
  <2> QED BY <1>2, <1>3, <1>4, <1>7, <2>1, <2>2
<1> QED BY <1>6, <1>7

-----------------------------------------------------------------------------
(* What the code looks for.                                                   *)

\* The first position of a unit that passes a test, if there is one up to n.
LEMMA FirstOf ==
    ASSUME NEW n \in Nat, NEW I \in SUBSET (1..n), I # {}
    PROVE  Min(I) \in I /\ \A y \in I : Min(I) <= y
<1>1. I \in SUBSET Nat OBVIOUS
<1> QED BY <1>1, MinIsLeast

\* The headers end at the second unit of the answer.
LEMMA HeadersEnd ==
    ASSUME NEW all \in Seq(Unit), NEW coming \in Seq(Unit), NEW rest \in Seq(Unit)
    PROVE  all \o coming = <<"head", "end">> \o rest =>
           LET i == SelectInSeq(all, LAMBDA u : u = "end") IN
           /\ i = 0 => Len(all) < 2
           /\ i # 0 => /\ i = 2 /\ Contains(Upto(all, i), "head")
                       /\ Beyond(all, i) \in Seq(Unit) /\ Beyond(all, i) \o coming = rest
<1>0. HAVE all \o coming = <<"head", "end">> \o rest
<1> DEFINE I == {i \in 1..Len(all) : all[i] = "end"}
           he == <<"head", "end">>
           first == SelectInSeq(all, LAMBDA u : u = "end")
<1>1. Len(all) \in Nat /\ Len(coming) \in Nat /\ Len(rest) \in Nat BY LenProperties
<1>2. he \in Seq(Unit) /\ Len(he) = 2 /\ he[1] = "head" /\ he[2] = "end" BY Marks
<1>3. first = IF I # {} THEN Min(I) ELSE 0 BY DEF SelectInSeq
<1> HIDE DEF he, first
<1>4. \A i \in 1..Len(all) : (all \o coming)[i] = all[i]
  BY ConcatFirst
<1>5. (he \o rest)[1] = "head" /\ (he \o rest)[2] = "end"
  <2>1. 1 \in 1..Len(he) /\ 2 \in 1..Len(he) BY <1>2
  <2>2. \A i \in 1..Len(he) : (he \o rest)[i] = he[i] BY <1>2, ConcatFirst
  <2> QED BY <1>2, <2>1, <2>2
<1>6. all \o coming = he \o rest BY <1>0 DEF he
<1>7. \A i \in 1..Len(all) : i = 1 => all[i] = "head" BY <1>4, <1>5, <1>6
<1>8. \A i \in 1..Len(all) : i = 2 => all[i] = "end" BY <1>4, <1>5, <1>6
<1>9. I # {} => first \in I /\ \A y \in I : first <= y
  <2>1. I \in SUBSET (1..Len(all)) OBVIOUS
  <2> HIDE DEF I
  <2> QED BY <1>1, <1>3, <2>1, FirstOf
<1>10. CASE I = {}
  <2>1. first = 0 BY <1>3, <1>10
  <2>2. Len(all) < 2
    <3>1. CASE Len(all) >= 2
      <4>1. 2 \in 1..Len(all) BY <1>1, <3>1
      <4>2. 2 \in I BY <1>8, <4>1
      <4> QED BY <1>10, <4>2
    <3> QED BY <1>1, <3>1
  <2> QED BY <2>1, <2>2 DEF first
<1>11. CASE I # {}
  <2>1. first \in 1..Len(all) /\ all[first] = "end" BY <1>9, <1>11
  <2>2. first # 1 BY <1>7, <2>1
  <2>3. first \in Nat /\ 2 <= first /\ 2 \in 1..Len(all) BY <1>1, <2>1, <2>2
  <2>4. 2 \in I BY <1>8, <2>3
  <2>5. first <= 2 BY <1>9, <1>11, <2>4
  <2>6. first = 2 BY <2>3, <2>5
  <2> DEFINE u == Upto(all, 2)
             v == Beyond(all, 2)
  <2>7. /\ u \in Seq(Unit) /\ v \in Seq(Unit) /\ u \o v = all
        /\ 2 <= Len(all) => Len(u) = 2
        /\ \A i \in 1..Len(u) : u[i] = all[i]
    <3> DEFINE k == 2
    <3>1. k \in Nat OBVIOUS
    <3> HIDE DEF k
    <3>2. /\ Upto(all, k) \in Seq(Unit) /\ Beyond(all, k) \in Seq(Unit)
          /\ Upto(all, k) \o Beyond(all, k) = all
          /\ k <= Len(all) => Len(Upto(all, k)) = k
          /\ \A i \in 1..Len(Upto(all, k)) : Upto(all, k)[i] = all[i]
      BY <3>1, Parts
    <3> QED BY <3>2 DEF k
  <2>8. Len(u) = 2 /\ 1 \in 1..Len(all)
    <3> HIDE DEF u
    <3>1. 2 <= Len(all) BY <2>3
    <3>2. 1 \in 1..Len(all) BY <1>1, <3>1
    <3> QED BY <2>7, <3>1, <3>2
  <2>9. Contains(u, "head")
    <3> HIDE DEF u
    <3>1. 1 \in 1..Len(u) BY <2>8
    <3>2. u[1] = "head" BY <1>7, <2>7, <2>8, <3>1
    <3> QED BY <3>1, <3>2 DEF Contains
  <2> HIDE DEF u, v
  <2>12. v \o coming = rest
    <3>1. Len(u) = Len(he) BY <1>2, <2>8
    <3>2. u \in Seq(Unit) /\ v \in Seq(Unit) /\ he \in Seq(Unit) BY <1>2, <2>7
    <3>3. (u \o v) \o coming = he \o rest BY <1>6, <2>7
    <3>4. (u \o v) \o coming = u \o (v \o coming)
      <4>1. u \in Seq(Unit) /\ v \in Seq(Unit) BY <3>2
      <4>2. Associates(u, v, coming) BY <4>1, Associative
      <4> QED BY <4>2 DEF Associates
    <3>5. v \o coming \in Seq(Unit) BY <3>2, ConcatProperties
    <3>6. u \o (v \o coming) = he \o rest BY <3>3, <3>4
    <3> QED BY <3>1, <3>2, <3>5, <3>6, SameParts
  <2>13. first # 0 BY <2>6
  <2> QED BY <2>6, <2>7, <2>9, <2>12, <2>13 DEF first, u, v
<1> QED BY <1>10, <1>11

\* A size is followed by its line break.
LEMMA SizeLineEnds ==
    ASSUME NEW all \in Seq(Unit), all # <<>>, CrlfAt(all) = 2
    PROVE  /\ Upto(all, 1)[1] = all[1]
           /\ Beyond(all, 3) \in Seq(Unit)
           /\ all = <<all[1]>> \o CRLF \o Beyond(all, 3)
           /\ all[1] \in Unit
<1> DEFINE n == Len(all) - 1
           f == [i \in 1..n |-> SubSeq(all, i, i + 1)]
           I == {i \in 1..Len(f) : f[i] = CRLF}
<1>1. Len(all) \in Nat /\ \A i \in 1..Len(all) : all[i] \in Unit BY LenProperties, ElementOfSeq
<1>2. n \in Nat /\ Len(f) = n BY <1>1, EmptySeq
<1>3. CrlfAt(all) = IF I # {} THEN Min(I) ELSE 0 BY DEF CrlfAt, SelectInSeq
<1>4. I # {} /\ Min(I) = 2
  <2> HIDE DEF I
  <2> QED BY <1>3
<1>5. 2 \in I
  <2>1. I \in SUBSET (1..n) BY <1>2
  <2> HIDE DEF I, n
  <2> QED BY <1>2, <1>4, <2>1, FirstOf
<1>6. 2 \in 1..n /\ SubSeq(all, 2, 3) = CRLF BY <1>2, <1>5
<1>7. 3 <= Len(all) BY <1>1, <1>6
<1> HIDE DEF n, f, I
<1>8. \A i \in 2..3 : all[i] \in Unit BY <1>1, <1>7
<1>9. all[2] = "cr" /\ all[3] = "lf"
  <2>1. \A i \in 1..(3 - 2 + 1) : SubSeq(all, 2, 3)[i] = all[2 + i - 1]
    BY <1>8, SubSeqProperties
  <2>2. CRLF[1] = all[2] /\ CRLF[2] = all[3] BY <1>6, <2>1
  <2> QED BY <2>2 DEF CRLF
<1>10. /\ Upto(all, 3) \in Seq(Unit) /\ Beyond(all, 3) \in Seq(Unit)
       /\ Upto(all, 3) \o Beyond(all, 3) = all
       /\ Len(Upto(all, 3)) = 3
       /\ \A i \in 1..3 : Upto(all, 3)[i] = all[i]
  <2> DEFINE k == 3
  <2>1. k \in Nat OBVIOUS
  <2> HIDE DEF k
  <2>2. /\ Upto(all, k) \in Seq(Unit) /\ Beyond(all, k) \in Seq(Unit)
        /\ Upto(all, k) \o Beyond(all, k) = all
        /\ k <= Len(all) => Len(Upto(all, k)) = k
        /\ \A i \in 1..Len(Upto(all, k)) : Upto(all, k)[i] = all[i]
    BY <2>1, Parts
  <2>3. Len(Upto(all, 3)) = 3 BY <1>7, <2>2 DEF k
  <2> QED BY <2>2, <2>3 DEF k
<1>11. Upto(all, 3) = <<all[1]>> \o CRLF
  <2> DEFINE s == Upto(all, 3)
             t == <<all[1], "cr", "lf">>
  <2>1. all[1] \in Unit BY <1>1, <1>7
  <2>2. t \in Seq(Unit) /\ Len(t) = 3
    <3>1. "cr" \in Unit /\ "lf" \in Unit BY Zenon DEF Unit
    <3> QED BY <2>1, <3>1
  <2>3. \A i \in 1..3 : s[i] = t[i]
    <3>1. s[1] = t[1] /\ s[2] = t[2] /\ s[3] = t[3] BY <1>9, <1>10
    <3> HIDE DEF s, t
    <3> QED BY <3>1
  <2>4. s \in Seq(Unit) /\ Len(s) = 3 BY <1>10
  <2> HIDE DEF s, t
  <2>5. s = t BY <2>2, <2>3, <2>4, SeqEqual
  <2>6. t = <<all[1]>> \o CRLF BY DEF t, CRLF
  <2> QED BY <2>5, <2>6 DEF s
<1>12. Upto(all, 1)[1] = all[1]
  <2> DEFINE k == 1
             s == Upto(all, k)
  <2>1. k \in Nat /\ k <= Len(all) BY <1>1, <1>7
  <2> HIDE DEF k
  <2>2. /\ k <= Len(all) => Len(s) = k
        /\ \A i \in 1..Len(s) : s[i] = all[i]
    BY <2>1, Parts
  <2> HIDE DEF s
  <2>3. 1 \in 1..Len(s)
    <3>1. Len(s) = k BY <2>1, <2>2
    <3>2. k = 1 BY DEF k
    <3> QED BY <3>1, <3>2
  <2>4. s[1] = all[1] BY <2>2, <2>3
  <2> QED BY <2>4 DEF s, k
<1>13. all[1] \in Unit BY <1>1, <1>7
<1> QED BY <1>10, <1>11, <1>12, <1>13

-----------------------------------------------------------------------------
(* What one recv() and one send() do.                                         *)

\* Whatever a recv() returns and leaves is what was there, in the same order; it returns
\* nothing only at the end of the stream.
LEMMA Received ==
    ASSUME NEW e \in End, NEW n \in Nat \ {0}, NEW tls \in BOOLEAN,
           NEW r \in Receivable(e, n, tls),
           arriving[e] \in Seq(Unit), decrypted[e] \in Seq(Unit)
    PROVE  /\ r.got \in Seq(Unit) /\ r.kept \in Seq(Unit)
           /\ Beyond(arriving[e], r.taken) \in Seq(Unit)
           /\ r.got \o (r.kept \o Beyond(arriving[e], r.taken)) = decrypted[e] \o arriving[e]
           /\ r.got = <<>> => /\ Peer(e) \in hungUp
                              /\ arriving[e] = <<>> /\ decrypted[e] = <<>>
<1> DEFINE a == arriving[e]
           d == decrypted[e]
<1>1. a \in Seq(Unit) /\ d \in Seq(Unit) OBVIOUS
<1>2. Readable(e) BY DEF Receivable
<1>3. CASE d # <<>>
  <2>1. r.got = Upto(d, n) /\ r.taken = 0 /\ r.kept = Beyond(d, n)
    <3>1. Receivable(e, n, tls) =
             {[got |-> Upto(d, n), taken |-> 0, kept |-> Beyond(d, n)]}
      BY <1>2, <1>3 DEF Receivable
    <3> QED BY <3>1
  <2> HIDE DEF a, d
  <2> DEFINE p == Upto(d, n)
             q == Beyond(d, n)
  <2>2. /\ p \in Seq(Unit) /\ q \in Seq(Unit) /\ p \o q = d
        /\ Len(p) = IF n < Len(d) THEN n ELSE Len(d)
    BY <1>1, Parts
  <2>3. Len(d) \in Nat \ {0} BY <1>1, <1>3, EmptySeq
  <2>4. Beyond(a, 0) = a BY <1>1, NothingBeyond
  <2>5. p # <<>>
    <3>1. Len(p) # 0
      <4> HIDE DEF p, q
      <4>1. Len(p) = n \/ Len(p) = Len(d) BY <2>2
      <4> QED BY <2>3, <4>1
    <3> HIDE DEF p
    <3> QED BY <3>1, EmptySeq
  <2>6. p \o (q \o a) = d \o a
    <3>1. p \in Seq(Unit) /\ q \in Seq(Unit) /\ a \in Seq(Unit) BY <1>1, <2>2
    <3> HIDE DEF p, q
    <3>2. Associates(p, q, a) BY <3>1, Associative
    <3> QED BY <2>2, <3>2 DEF Associates
  <2> QED BY <1>1, <2>1, <2>2, <2>4, <2>5, <2>6 DEF a, d
<1>4. CASE d = <<>> /\ a = <<>>
  <2>1. r.got = <<>> /\ r.taken = 0 /\ r.kept = <<>>
    <3>1. Receivable(e, n, tls) = {[got |-> <<>>, taken |-> 0, kept |-> <<>>]}
      BY <1>2, <1>4 DEF Receivable
    <3> QED BY <3>1
  <2>2. Peer(e) \in hungUp BY <1>2, <1>4 DEF Readable
  <2>3. Beyond(a, 0) = a BY <1>1, NothingBeyond
  <2>4. <<>> \o (<<>> \o a) = <<>> \o a BY <1>1, ConcatEmptySeq
  <2> QED BY <1>1, <1>4, <2>1, <2>2, <2>3, <2>4, EmptySeq
<1>5. CASE d = <<>> /\ a # <<>>
  <2>1. PICK k \in 1..Len(a) :
           r = [got |-> Upto(Upto(a, k), n), taken |-> k, kept |-> Beyond(Upto(a, k), n)]
    <3>1. Receivable(e, n, tls) =
             {[got |-> Upto(Upto(a, k), n), taken |-> k, kept |-> Beyond(Upto(a, k), n)] :
                k \in {j \in 1..Len(a) : tls \/ j <= n}}
      BY <1>2, <1>5 DEF Receivable
    <3> QED BY <3>1
  <2>2. r.got = Upto(Upto(a, k), n) /\ r.taken = k /\ r.kept = Beyond(Upto(a, k), n)
    BY <2>1
  <2> HIDE DEF a, d
  <2> DEFINE s == Upto(a, k)
             b == Beyond(a, k)
             p == Upto(s, n)
             q == Beyond(s, n)
  <2>3. Len(a) \in Nat /\ k \in Nat /\ k <= Len(a) /\ k # 0 BY <1>1, LenProperties
  <2>4. /\ s \in Seq(Unit) /\ b \in Seq(Unit) /\ s \o b = a
        /\ k <= Len(a) => Len(s) = k
    BY <1>1, <2>3, Parts
  <2> HIDE DEF s, b
  <2>5. /\ p \in Seq(Unit) /\ q \in Seq(Unit) /\ p \o q = s
        /\ Len(p) = IF n < Len(s) THEN n ELSE Len(s)
    BY <2>4, Parts
  <2> HIDE DEF p, q
  <2>6. p # <<>>
    <3>1. Len(p) = n \/ Len(p) = k BY <2>3, <2>4, <2>5
    <3> QED BY <2>3, <3>1, EmptySeq
  <2>7. p \o (q \o b) = d \o a
    <3>0. p \in Seq(Unit) /\ q \in Seq(Unit) /\ b \in Seq(Unit) BY <2>4, <2>5
    <3>1. Associates(p, q, b) BY <3>0, Associative
    <3>2. d \o a = a BY <1>1, <1>5, ConcatEmptySeq
    <3> QED BY <2>4, <2>5, <3>1, <3>2 DEF Associates
  <2> QED BY <2>2, <2>4, <2>5, <2>6, <2>7 DEF a, d, s, b, p, q
<1> QED BY <1>3, <1>4, <1>5

\* Each end has the other one as its peer.
LEMMA Peers == Peer("client") = "server" /\ Peer("server") = "client"
<1>1. \E f \in End : f # "client" BY DEF End
<1>2. \E f \in End : f # "server" BY DEF End
<1>3. Peer("client") \in End /\ Peer("client") # "client" BY <1>1, Zenon DEF Peer
<1>4. Peer("server") \in End /\ Peer("server") # "server" BY <1>2, Zenon DEF Peer
<1> QED BY <1>3, <1>4 DEF End

\* What the client receives it takes from what is coming.
LEMMA ClientReceives ==
    ASSUME HttpTypes, NEW n \in Nat \ {0}, NEW r \in Receivable("client", n, exchange.tls),
           Recv("client", r), unsent' = unsent
    PROVE  /\ DOMAIN arriving' = End /\ DOMAIN decrypted' = End
           /\ arriving'["client"] \in Seq(Unit) /\ decrypted'["client"] \in Seq(Unit)
           /\ r.got \in Seq(Unit) /\ Coming' \in Seq(Unit) /\ hungUp' = hungUp
           /\ data \o r.got \in Seq(Unit)
           /\ (data \o r.got) \o Coming' = data \o Coming
           /\ r.got = <<>> => Silent /\ Silent' /\ data \o r.got = data
           /\ arriving["client"] = <<>> /\ decrypted["client"] = <<>> => r.got = <<>>
<1> DEFINE a == arriving["client"]
           d == decrypted["client"]
           b == Beyond(a, r.taken)
           k == r.kept
<1>1. /\ a \in Seq(Unit) /\ d \in Seq(Unit) /\ unsent \in Seq(Unit) /\ data \in Seq(Unit)
      /\ exchange \in Exchanges
      /\ DOMAIN arriving = End /\ DOMAIN decrypted = End
  BY DEF HttpTypes
<1>2. "client" \in End /\ exchange.tls \in BOOLEAN BY <1>1, AnswerType DEF End
<1>3. /\ r.got \in Seq(Unit) /\ k \in Seq(Unit) /\ b \in Seq(Unit)
      /\ r.got \o (k \o b) = d \o a
      /\ r.got = <<>> => "server" \in hungUp /\ a = <<>> /\ d = <<>>
  BY <1>1, <1>2, Received, Peers
<1>4. /\ arriving'["client"] = b /\ decrypted'["client"] = k /\ hungUp' = hungUp
      /\ DOMAIN arriving' = End /\ DOMAIN decrypted' = End
  BY <1>1, <1>2 DEF Recv
<1>5. Coming' = k \o (b \o unsent) /\ Coming = d \o (a \o unsent) BY <1>4 DEF Coming
<1>6. (Silent' <=> "server" \in hungUp /\ b = <<>> /\ k = <<>>)
      /\ (Silent <=> "server" \in hungUp /\ a = <<>> /\ d = <<>>)
  BY <1>4 DEF Silent
<1> HIDE DEF a, d, b, k
<1> DEFINE g == r.got
           c == Coming'
           w == Coming
<1>7. c \in Seq(Unit) /\ w \in Seq(Unit) /\ g \o c = w
  <2> HIDE DEF g
  <2>0. /\ g \in Seq(Unit) /\ k \in Seq(Unit) /\ b \in Seq(Unit) /\ unsent \in Seq(Unit)
        /\ d \in Seq(Unit) /\ a \in Seq(Unit)
    BY <1>1, <1>3 DEF g
  <2> DEFINE kb == k \o b
  <2>4. kb \in Seq(Unit) /\ kb \o unsent = k \o (b \o unsent)
    <3>1. Associates(k, b, unsent) BY <2>0, Associative
    <3> QED BY <2>0, <3>1, ConcatProperties DEF Associates
  <2> HIDE DEF kb
  <2>5. g \o (kb \o unsent) = (g \o kb) \o unsent
    <3>1. g \in Seq(Unit) /\ kb \in Seq(Unit) /\ unsent \in Seq(Unit) BY <2>0, <2>4
    <3>2. Associates(g, kb, unsent) BY <3>1, Associative
    <3> QED BY <3>2 DEF Associates
  <2>6. d \o (a \o unsent) = (d \o a) \o unsent
    <3>1. Associates(d, a, unsent) BY <2>0, Associative
    <3> QED BY <3>1 DEF Associates
  <2>7. g \o kb = d \o a BY <1>3 DEF g, kb
  <2>1. g \o (k \o (b \o unsent)) = d \o (a \o unsent) BY <2>4, <2>5, <2>6, <2>7
  <2>2. b \o unsent \in Seq(Unit) /\ a \o unsent \in Seq(Unit)
    BY <1>1, <1>3, ConcatProperties
  <2>3. k \o (b \o unsent) \in Seq(Unit) /\ d \o (a \o unsent) \in Seq(Unit)
    BY <1>1, <1>3, <2>2, ConcatProperties
  <2> QED BY <1>5, <2>1, <2>3
<1>8. g \in Seq(Unit) /\ data \in Seq(Unit) BY <1>1, <1>3
<1>9. (data \o g) \o c = data \o w
  <2> HIDE DEF g, c, w
  <2>1. g \in Seq(Unit) /\ data \in Seq(Unit) /\ c \in Seq(Unit) BY <1>7, <1>8
  <2>2. Associates(data, g, c) BY <2>1, Associative
  <2> QED BY <1>7, <2>2 DEF Associates
<1>10. data \o g \in Seq(Unit) BY <1>8, ConcatProperties
<1>11. a = <<>> /\ d = <<>> => g = <<>> /\ b = <<>> /\ k = <<>>
  <2>1. HAVE a = <<>> /\ d = <<>>
  <2>2. d \o a = <<>> BY <1>1, <2>1, ConcatEmptySeq
  <2>3. g \o (k \o b) = <<>> BY <1>3, <2>2
  <2>4. k \o b \in Seq(Unit) BY <1>3, ConcatProperties
  <2>5. g = <<>> /\ k \o b = <<>> BY <1>8, <2>3, <2>4, ConcatEqualIffEmpty
  <2> QED BY <1>3, <2>5, ConcatEqualIffEmpty
<1>12. g = <<>> => Silent /\ Silent' /\ data \o g = data
  <2>1. HAVE g = <<>>
  <2>2. "server" \in hungUp /\ a = <<>> /\ d = <<>> BY <1>3, <2>1
  <2>3. data \o <<>> = data BY <1>8, ConcatEmptySeq
  <2> QED BY <1>6, <1>11, <2>1, <2>2, <2>3
<1>13. arriving["client"] = <<>> /\ decrypted["client"] = <<>> => g = <<>>
  BY <1>11 DEF a, d
<1>14. /\ DOMAIN arriving' = End /\ DOMAIN decrypted' = End /\ hungUp' = hungUp
       /\ arriving'["client"] \in Seq(Unit) /\ decrypted'["client"] \in Seq(Unit)
       /\ r.got \in Seq(Unit)
  BY <1>3, <1>4
<1> QED BY <1>7, <1>9, <1>10, <1>12, <1>13, <1>14

-----------------------------------------------------------------------------
(* The invariant is inductive: the server.                                    *)

\* What the server was asked and what it answers do not change.
LEMMA SameAnswer ==
    exchange' = exchange => /\ Body' = Body /\ Answer' = Answer /\ (ReadsBody' <=> ReadsBody)
                            /\ Request' = Request
BY Zenon DEF Body, Answer, Sent, ReadsBody, Request

\* No chunk takes no room.
LEMMA NoChunks == Chunks(<<>>) = <<>>
<1> DEFINE e == [j \in DOMAIN <<>> |-> Chunk(<<>>[j])]
<1>1. <<>> \in Seq(Seq(Unit)) /\ DOMAIN <<>> = {}
  <2>1. <<>> \in Seq(Seq(Unit)) BY EmptySeq
  <2>2. \A s \in Seq(Seq(Unit)) : DOMAIN s = 1..Len(s) BY LenProperties
  <2>3. DOMAIN <<>> = 1..0 BY <2>1, <2>2, EmptySeq
  <2> QED BY <2>1, <2>3
<1>2. e \in Seq(Seq(Unit)) BY <1>1, ChunksType
<1>3. DOMAIN e = {} BY <1>1
<1> HIDE DEF e
<1>4. Len(e) \in Nat /\ DOMAIN e = 1..Len(e) BY <1>2, LenProperties
<1>5. Len(e) = 0
  <2>1. Len(e) > 0 => 1 \in 1..Len(e) BY <1>4
  <2> QED BY <1>3, <1>4, <2>1
<1>6. PICK h \in [0..Len(e) -> Seq(Unit)] : h[0] = <<>> /\ FlattenSeq(e) = h[Len(e)]
  BY <1>2, FlattenSteps
<1>7. FlattenSeq(e) = <<>> BY <1>5, <1>6
<1> QED BY <1>7 DEF Chunks, e

LEMMA HttpInit == Init => HttpInv
<1> SUFFICES ASSUME Init PROVE HttpInv OBVIOUS
<1>1. arriving["client"] = <<>> /\ decrypted["client"] = <<>> /\ DOMAIN arriving = End
      /\ DOMAIN decrypted = End
  BY DEF Init, SocketInit, End
<1>2. HttpTypes
  <2>1. <<>> \in Seq(Unit) /\ <<>> \in Seq(Seq(Unit)) BY EmptySeq
  <2> QED BY <1>1, <2>1 DEF HttpTypes, Init, TypeOK
<1>3. InOrder BY <1>1 DEF InOrder, Init, Answered, Streaming
<1> QED BY <1>2, <1>3 DEF HttpInv, HeadFirst, BodyNext, StreamNext, Init, Streaming, Answered

\* What the server takes from the client is not what it sends.
LEMMA AtServer ==
    ASSUME HttpTypes, NEW r, Recv("server", r)
    PROVE  /\ arriving'["client"] = arriving["client"] /\ decrypted'["client"] = decrypted["client"]
           /\ DOMAIN arriving' = End /\ DOMAIN decrypted' = End /\ hungUp' = hungUp
BY DEF HttpTypes, Recv, End

LEMMA AcceptStep == HttpInv /\ Accept => HttpInv'
<1> SUFFICES ASSUME HttpInv, Accept PROVE HttpInv' OBVIOUS
<1>1. /\ serverAt = "accept" /\ serverAt' = "headers" /\ clientAt # "start"
      /\ UNCHANGED <<arriving, decrypted, hungUp, exchange, requested, unsent, clientAt, data,
                     chunkSize, delivered, sse>>
  BY DEF Accept, socketVars, clientVars
<1>2. /\ Body' = Body /\ Answer' = Answer /\ (ReadsBody' <=> ReadsBody)
      /\ Coming' = Coming /\ (Silent' <=> Silent) /\ (Streaming' <=> Streaming)
  BY <1>1, SameAnswer DEF Coming, Silent, Streaming
<1>3. ~Answered /\ ~Answered' BY <1>1 DEF Answered
<1>4. HttpTypes' BY <1>1 DEF HttpInv, HttpTypes, TypeOK
<1>5. InOrder' BY <1>1, <1>2, <1>3 DEF HttpInv, InOrder
<1>6. HeadFirst' BY <1>3 DEF HeadFirst
<1>7. Broken => Broken' BY <1>1, <1>2, <1>3 DEF Broken
<1>8. BodyNext' BY <1>1, <1>2, <1>3, <1>7 DEF HttpInv, BodyNext
<1>9. StreamNext' BY <1>2, <1>3 DEF HttpInv, StreamNext
<1> QED BY <1>4, <1>5, <1>6, <1>8, <1>9 DEF HttpInv

LEMMA ServerReceivesStep == HttpInv /\ ServerReceives => HttpInv'
<1> SUFFICES ASSUME HttpInv, ServerReceives PROVE HttpInv' OBVIOUS
<1>1. /\ serverAt = "headers" /\ "server" \notin hungUp
      /\ UNCHANGED <<exchange, clientAt, data, chunkSize, delivered, sse>>
  BY DEF ServerReceives, clientVars
<1>2. PICK r : /\ Recv("server", r)
               /\ \/ serverAt' = "respond" /\ unsent' = Answer
                  \/ UNCHANGED <<serverAt, unsent>>
  BY DEF ServerReceives
<1>3. HttpTypes /\ InOrder BY DEF HttpInv
<1>4. /\ arriving'["client"] = arriving["client"] /\ decrypted'["client"] = decrypted["client"]
      /\ DOMAIN arriving' = End /\ DOMAIN decrypted' = End /\ hungUp' = hungUp
  BY <1>2, <1>3, AtServer
<1>5. /\ unsent = <<>> /\ arriving["client"] = <<>> /\ decrypted["client"] = <<>>
      /\ data = <<>> /\ clientAt = "headers" /\ ~Streaming /\ ~Answered
  BY <1>1, <1>3 DEF InOrder, Answered
<1>6. /\ Body' = Body /\ Answer' = Answer /\ (ReadsBody' <=> ReadsBody)
      /\ (Streaming' <=> Streaming)
  BY <1>1, SameAnswer DEF Streaming
<1>7. Answer \in Seq(Unit) BY <1>3, AnswerType DEF HttpTypes
<1>8. serverAt' \in {"respond", "headers"} /\ unsent' \in Seq(Unit)
      /\ (serverAt' = "headers" => unsent' = <<>>)
      /\ (Answered' => unsent' = Answer)
  BY <1>1, <1>2, <1>5, <1>7, EmptySeq DEF Answered
<1>9. HttpTypes' BY <1>1, <1>3, <1>4, <1>8 DEF HttpTypes, TypeOK
<1>10. InOrder'
  BY <1>1, <1>3, <1>4, <1>5, <1>6, <1>8 DEF InOrder, Answered
<1>11. HeadFirst'
  <2>1. <<>> \o (<<>> \o (<<>> \o Answer)) = Answer BY <1>7, ConcatEmptySeq
  <2> QED BY <1>1, <1>4, <1>5, <1>6, <1>8, <2>1 DEF HeadFirst, Coming
<1>12. BodyNext' BY <1>1, <1>5 DEF BodyNext
<1>13. StreamNext' BY <1>5, <1>6 DEF StreamNext
<1> QED BY <1>9, <1>10, <1>11, <1>12, <1>13 DEF HttpInv

LEMMA ServerSendsStep == HttpInv /\ ServerSends => HttpInv'
<1> SUFFICES ASSUME HttpInv, ServerSends PROVE HttpInv' OBVIOUS
<1>1. /\ serverAt = "respond" /\ "server" \notin hungUp
      /\ serverAt' = IF unsent' = <<>> THEN "over" ELSE serverAt
      /\ UNCHANGED <<exchange, requested, clientAt, data, chunkSize, delivered, sse>>
  BY DEF ServerSends, clientVars
<1>2. PICK k \in 1..Len(unsent) : Send("server", Upto(unsent, k)) /\ unsent' = Beyond(unsent, k)
  BY DEF ServerSends
<1>3. HttpTypes /\ InOrder BY DEF HttpInv
<1> DEFINE a == arriving["client"]
           d == decrypted["client"]
           p == Upto(unsent, k)
           q == Beyond(unsent, k)
<1>4. /\ DOMAIN arriving = End /\ DOMAIN decrypted = End /\ a \in Seq(Unit)
      /\ d \in Seq(Unit) /\ unsent \in Seq(Unit) /\ "client" \in End
  BY <1>3 DEF HttpTypes, End
<1>5. p \in Seq(Unit) /\ q \in Seq(Unit) /\ p \o q = unsent
  <2>1. k \in Nat OBVIOUS
  <2> QED BY <1>4, <2>1, Parts
<1>6. /\ arriving'["client"] = a \o p /\ DOMAIN arriving' = End /\ unsent' = q
      /\ UNCHANGED <<decrypted, hungUp>>
  BY <1>2, <1>4, Peers DEF Send
<1> HIDE DEF a, d, p, q
<1>7. Coming' = Coming
  <2>1. Coming = d \o (a \o unsent) /\ Coming' = d \o ((a \o p) \o q)
    BY <1>6 DEF Coming, a, d
  <2>2. (a \o p) \o q = a \o (p \o q)
    <3>1. a \in Seq(Unit) /\ p \in Seq(Unit) /\ q \in Seq(Unit) BY <1>4, <1>5
    <3>2. Associates(a, p, q) BY <3>1, Associative
    <3> QED BY <3>2 DEF Associates
  <2> QED BY <1>5, <2>1, <2>2
<1>8. /\ Body' = Body /\ Answer' = Answer /\ (ReadsBody' <=> ReadsBody)
      /\ (Streaming' <=> Streaming)
  BY <1>1, SameAnswer DEF Streaming
<1>9. Answered /\ Answered' /\ ~Silent /\ ~Silent' BY <1>1, <1>6 DEF Answered, Silent
<1>10. HttpTypes'
  <2>1. a \o p \in Seq(Unit) BY <1>4, <1>5, ConcatProperties
  <2> QED BY <1>1, <1>3, <1>5, <1>6, <2>1 DEF HttpTypes, TypeOK
<1>11. InOrder' BY <1>1, <1>3, <1>9 DEF InOrder
<1>12. HeadFirst' BY <1>1, <1>7, <1>8, <1>9 DEF HttpInv, HeadFirst
<1>13. ~Broken /\ ~Broken' BY <1>9 DEF Broken
<1>14. BodyNext' BY <1>1, <1>7, <1>8, <1>9, <1>13 DEF HttpInv, BodyNext
<1>15. StreamNext'
  <2>1. Taken' = Taken BY <1>1 DEF Taken
  <2>2. Whole => Whole' BY <1>1, <1>7, <1>8, <2>1 DEF Whole
  <2> QED BY <1>1, <1>8, <1>9, <1>13, <2>2 DEF HttpInv, StreamNext
<1> QED BY <1>10, <1>11, <1>12, <1>14, <1>15 DEF HttpInv

LEMMA HangUpStep == HttpInv /\ ServerHangsUp => HttpInv'
<1> SUFFICES ASSUME HttpInv, ServerHangsUp PROVE HttpInv' OBVIOUS
<1>1. /\ hungUp' = hungUp \cup {"server"}
      /\ UNCHANGED <<arriving, decrypted, exchange, serverAt, requested, unsent, clientAt,
                     data, chunkSize, delivered, sse>>
  BY DEF ServerHangsUp, HangUp, clientVars, serverVars
<1>2. /\ Body' = Body /\ Answer' = Answer /\ (ReadsBody' <=> ReadsBody)
      /\ Coming' = Coming /\ (Streaming' <=> Streaming) /\ (Answered' <=> Answered)
      /\ Taken' = Taken
  BY <1>1, SameAnswer DEF Coming, Streaming, Answered, Taken
<1>3. (Silent => Silent') /\ (Whole => Whole') BY <1>1, <1>2 DEF Silent, Whole
<1>4. Broken => Broken' BY <1>1, <1>2, <1>3 DEF Broken
<1>5. HttpTypes' BY <1>1 DEF HttpInv, HttpTypes, TypeOK
<1>6. InOrder' BY <1>1, <1>2 DEF HttpInv, InOrder
<1>7. HeadFirst' BY <1>1, <1>2 DEF HttpInv, HeadFirst
<1>8. BodyNext' BY <1>1, <1>2, <1>3, <1>4 DEF HttpInv, BodyNext
<1>9. StreamNext' BY <1>1, <1>2, <1>3, <1>4 DEF HttpInv, StreamNext
<1> QED BY <1>5, <1>6, <1>7, <1>8, <1>9 DEF HttpInv

-----------------------------------------------------------------------------
(* The invariant is inductive: the client.                                    *)

LEMMA SendRequestStep == HttpInv /\ SendRequest => HttpInv'
<1> SUFFICES ASSUME HttpInv, SendRequest PROVE HttpInv' OBVIOUS
<1>1. /\ clientAt = "start" /\ clientAt' = "headers" /\ data' = <<>>
      /\ UNCHANGED <<decrypted, hungUp, exchange, serverAt, requested, unsent, chunkSize,
                     delivered, sse>>
      /\ Send("client", Request)
  BY DEF SendRequest, Goto, ReadsChunks, serverVars, Send
<1>2. HttpTypes /\ InOrder BY DEF HttpInv
<1>3. /\ arriving'["client"] = arriving["client"] /\ DOMAIN arriving' = End
      /\ decrypted' = decrypted
  BY <1>1, <1>2, Peers DEF Send, HttpTypes, End
<1>4. serverAt = "accept" /\ ~Answered /\ ~Answered' /\ ~Streaming'
  BY <1>1, <1>2 DEF InOrder, Answered, Streaming
<1>5. HttpTypes' BY <1>1, <1>2, <1>3, EmptySeq DEF HttpTypes, TypeOK
<1>6. InOrder' BY <1>1, <1>2, <1>3, <1>4 DEF InOrder
<1>7. HeadFirst' BY <1>4 DEF HeadFirst
<1>8. BodyNext' BY <1>1 DEF BodyNext
<1>9. StreamNext' BY <1>4 DEF StreamNext
<1> QED BY <1>5, <1>6, <1>7, <1>8, <1>9 DEF HttpInv

\* A sequence that is as long as the whole is the whole.
LEMMA LongEnough ==
    ASSUME NEW X, NEW s \in Seq(X), NEW t \in Seq(X), Len(s) >= Len(s \o t)
    PROVE  s = s \o t
<1>1. Len(s) \in Nat /\ Len(t) \in Nat /\ Len(s \o t) = Len(s) + Len(t)
  BY LenProperties, ConcatProperties
<1>2. Len(t) = 0 BY <1>1
<1>3. t = <<>> BY <1>2, EmptySeq
<1> QED BY <1>3, ConcatEmptySeq

\* The body is received from what follows the headers on.
LEMMA BodyBegins ==
    ASSUME HttpTypes, Answered, Answered', exchange' = exchange,
           delivered = <<>>, NEW head, Contains(head, "head"), NEW units \in Seq(Unit),
           <<"head", "end">> \o (units \o Coming') = Answer, Coming' \in Seq(Unit),
           units \o Coming' \in Seq(Unit), ReceiveBody(head, units), ReadsChunks
    PROVE  BodyNext' /\ StreamNext' /\ clientAt' # "start" /\ clientAt' # "headers"
<1> DEFINE c == Coming'
           he == <<"head", "end">>
<1>1. /\ Body' = Body /\ Answer' = Answer /\ (ReadsBody' <=> ReadsBody) BY SameAnswer
<1>2. /\ exchange.framing \in {"length", "close", "chunked"} /\ Body \in Seq(Unit)
      /\ exchange.framing # "chunked" => Answer = he \o Body
      /\ he \in Seq(Unit)
  BY AnswerType, Marks DEF HttpTypes
<1>3. exchange.framing # "chunked" => units \o c = Body
  <2>1. HAVE exchange.framing # "chunked"
  <2>2. he \o (units \o c) = he \o Body BY <1>2, <2>1
  <2> HIDE DEF he, c
  <2>3. units \o c \in Seq(Unit) BY DEF c
  <2> QED BY <1>2, <2>2, <2>3, SameParts
<1>4. CASE exchange.call = "stream" /\ (exchange.ok \/ exchange.framing = "chunked")
  <2>1. clientAt' = "chunk" /\ data' = units BY <1>4 DEF ReceiveBody, Goto
  <2>2. ~ReadsBody' BY <1>1, <1>4 DEF ReadsBody
  <2>3. Taken' = <<>>
    <3>1. delivered' = <<>> BY DEF ReadsChunks
    <3>2. Taken' = Chunks(delivered') BY <2>1 DEF Taken
    <3> QED BY <3>1, <3>2, NoChunks
  <2>4. Whole'
    <3>1. he \o <<>> = he BY <1>2, ConcatEmptySeq
    <3> QED BY <1>1, <2>1, <2>3, <3>1 DEF Whole
  <2>5. StreamNext' BY <2>1, <2>2, <2>4 DEF StreamNext
  <2>6. BodyNext' BY <2>1 DEF BodyNext
  <2> QED BY <2>1, <2>5, <2>6
<1>5. CASE ~(exchange.call = "stream" /\ (exchange.ok \/ exchange.framing = "chunked"))
  <2>1. CASE exchange.framing = "chunked"
    <3>1. clientAt' = "raised" BY <1>5, <2>1 DEF ReceiveBody, Raise, Goto
    <3> QED BY <3>1 DEF BodyNext, StreamNext, Streaming
  <2>2. CASE exchange.framing = "close"
    <3>1. clientAt' = "rest" /\ data' = units BY <1>5, <2>2 DEF ReceiveBody, Goto
    <3>2. data' \o Coming' = Body' BY <1>1, <1>3, <2>2, <3>1
    <3> QED BY <3>1, <3>2 DEF BodyNext, StreamNext, Streaming
  <2>3. CASE exchange.framing = "length"
    <3>1. /\ clientAt' = IF Len(units) < Len(Body) THEN "length" ELSE "done"
          /\ data' = units
      BY <1>5, <2>3 DEF ReceiveBody, Goto
    <3>2. data' \o Coming' = Body' BY <1>1, <1>3, <2>3, <3>1
    <3>3. clientAt' = "done" => data' = Body'
      <4>1. HAVE clientAt' = "done"
      <4>2. ~(Len(units) < Len(Body)) BY <3>1, <4>1
      <4>3. Len(units) \in Nat /\ Len(Body) \in Nat BY <1>2, LenProperties
      <4>4. Len(units) >= Len(Body) BY <4>2, <4>3
      <4>5. units \o c = Body BY <1>3, <2>3
      <4> HIDE DEF c
      <4>6. c \in Seq(Unit) BY DEF c
      <4>7. units = Body BY <4>4, <4>5, <4>6, LongEnough
      <4> QED BY <1>1, <3>1, <4>7
    <3> QED BY <3>1, <3>2, <3>3 DEF BodyNext, StreamNext, Streaming
  <2> QED BY <1>2, <2>1, <2>2, <2>3
<1> QED BY <1>4, <1>5

\* Where ReceiveBody goes, whatever it knows.
LEMMA BodyPlaces ==
    ASSUME NEW head, NEW units \in Seq(Unit), ReceiveBody(head, units), HttpTypes
    PROVE  /\ clientAt' \in {"chunk", "length", "rest", "done", "raised"}
           /\ clientAt' \in {"chunk", "length", "done"} => Contains(head, "head")
           /\ clientAt' = "raised" => data' = data
           /\ clientAt' # "raised" => data' = units
           /\ clientAt' = "chunk" => ~ReadsBody
<1> DEFINE known == Contains(head, "head")
           framing == IF known THEN exchange.framing ELSE "close"
           streams == exchange.call = "stream" /\ known /\ (exchange.ok \/ framing = "chunked")
<1>0. exchange.framing \in {"length", "close", "chunked"} BY AnswerType DEF HttpTypes
<1>1. framing \in {"length", "close", "chunked"} BY <1>0
<1>2. /\ streams => Goto("chunk", units)
      /\ ~streams /\ framing = "chunked" => Raise
      /\ ~streams /\ framing = "length" =>
            Goto(IF Len(units) < Len(Body) THEN "length" ELSE "done", units)
      /\ ~streams /\ framing = "close" => Goto("rest", units)
  BY DEF ReceiveBody
<1>3. CASE streams
  <2>1. clientAt' = "chunk" /\ data' = units BY <1>2, <1>3 DEF Goto
  <2> QED BY <1>3, <2>1 DEF ReadsBody
<1>4. CASE ~streams /\ framing = "chunked"
  <2>1. clientAt' = "raised" /\ data' = data BY <1>2, <1>4 DEF Raise, Goto
  <2> QED BY <2>1
<1>5. CASE ~streams /\ framing = "length"
  <2>1. clientAt' \in {"length", "done"} /\ data' = units BY <1>2, <1>5 DEF Goto
  <2> QED BY <1>5, <2>1
<1>6. CASE ~streams /\ framing = "close"
  <2>1. clientAt' = "rest" /\ data' = units BY <1>2, <1>6 DEF Goto
  <2> QED BY <2>1
<1> QED BY <1>1, <1>3, <1>4, <1>5, <1>6

LEMMA ReceiveHeadersStep == HttpInv /\ ReceiveHeaders => HttpInv'
<1> SUFFICES ASSUME HttpInv, ReceiveHeaders PROVE HttpInv' OBVIOUS
<1>1. HttpTypes /\ InOrder /\ HeadFirst BY DEF HttpInv
<1>2. /\ clientAt = "headers" /\ ReadsChunks
      /\ exchange' = exchange /\ serverAt' = serverAt /\ unsent' = unsent
  BY DEF ReceiveHeaders, serverVars
<1> DEFINE End2(all) == SelectInSeq(all, LAMBDA u : u = "end")
<1>3. PICK r \in Receivable("client", BufSize, exchange.tls) :
         /\ Recv("client", r)
         /\ IF End2(data \o r.got) = 0 /\ r.got # <<>>
              THEN Goto("headers", data \o r.got)
              ELSE IF End2(data \o r.got) = 0
                     THEN ReceiveBody(data \o r.got, <<>>)
                     ELSE ReceiveBody(Upto(data \o r.got, End2(data \o r.got)),
                                      Beyond(data \o r.got, End2(data \o r.got)))
  BY <1>2 DEF ReceiveHeaders
<1> DEFINE all == data \o r.got
           i == End2(all)
           c == Coming'
<1>4. BufSize \in Nat \ {0} BY SocketAssumption
<1>5. /\ DOMAIN arriving' = End /\ DOMAIN decrypted' = End
      /\ arriving'["client"] \in Seq(Unit) /\ decrypted'["client"] \in Seq(Unit)
      /\ r.got \in Seq(Unit) /\ c \in Seq(Unit) /\ hungUp' = hungUp
      /\ all \in Seq(Unit) /\ all \o c = data \o Coming
      /\ r.got = <<>> => Silent /\ Silent' /\ all = data
      /\ arriving["client"] = <<>> /\ decrypted["client"] = <<>> => r.got = <<>>
  BY <1>1, <1>2, <1>3, <1>4, ClientReceives
<1>6. /\ Body' = Body /\ Answer' = Answer /\ (ReadsBody' <=> ReadsBody)
      /\ (Answered' <=> Answered) /\ delivered = <<>> /\ delivered' = <<>>
  BY <1>1, <1>2, SameAnswer DEF InOrder, ReadsChunks, Answered
<1>7. PICK rest \in Seq(Unit) : Answer = <<"head", "end">> \o rest
  BY <1>1, AnswerType DEF HttpTypes
<1>8. Answered => /\ all \o c = Answer
                  /\ i = 0 => Len(all) < 2
                  /\ i # 0 => /\ i = 2 /\ Contains(Upto(all, i), "head")
                              /\ Beyond(all, i) \in Seq(Unit) /\ Beyond(all, i) \o c = rest
  <2>1. HAVE Answered
  <2>2. all \o c = Answer BY <1>1, <1>2, <1>5, <2>1 DEF HeadFirst
  <2>3. all \o c = <<"head", "end">> \o rest BY <1>7, <2>2
  <2> HIDE DEF all, c
  <2>4. c \in Seq(Unit) /\ all \in Seq(Unit) BY <1>5
  <2>5. /\ i = 0 => Len(all) < 2
        /\ i # 0 => /\ i = 2 /\ Contains(Upto(all, i), "head")
                    /\ Beyond(all, i) \in Seq(Unit) /\ Beyond(all, i) \o c = rest
    BY <2>3, <2>4, HeadersEnd DEF SelectInSeq
  <2> QED BY <2>2, <2>5
<1>9. ~Answered => all = <<>> /\ i = 0 /\ r.got = <<>>
  <2>1. HAVE ~Answered
  <2>2. data = <<>> /\ r.got = <<>> BY <1>1, <1>5, <2>1 DEF InOrder
  <2>3. all = <<>> BY <1>5, <2>2
  <2> HIDE DEF all
  <2>4. {j \in 1..Len(all) : all[j] = "end"} = {} BY <2>3, EmptySeq
  <2>5. i = 0 BY <2>4 DEF SelectInSeq
  <2> QED BY <2>2, <2>3, <2>5
<1>10. TypeOK BY <1>1 DEF HttpTypes
<1> HIDE DEF End2
<1>11. /\ IF i = 0 /\ r.got # <<>>
            THEN Goto("headers", all)
            ELSE IF i = 0 THEN ReceiveBody(all, <<>>) ELSE ReceiveBody(Upto(all, i), Beyond(all, i))
  BY <1>3
<1> HIDE DEF i, all, c
<1>12. ASSUME clientAt' \in {"headers", "length", "rest", "chunk", "done", "raised"},
              data' \in Seq(Unit)
       PROVE  HttpTypes'
  <2>1. /\ serverAt' \in {"accept", "headers", "respond", "over"} /\ chunkSize' \in 0..3
        /\ exchange' \in Exchanges /\ unsent' \in Seq(Unit) /\ delivered' \in Seq(Seq(Unit))
    BY <1>1, <1>2 DEF HttpTypes, TypeOK, ReadsChunks
  <2> QED BY <1>5, <1>12, <2>1 DEF HttpTypes, TypeOK
<1>13. CASE i = 0 /\ r.got # <<>>
  <2>1. clientAt' = "headers" /\ data' = all BY <1>11, <1>13 DEF Goto
  <2>2. Answered /\ Answered' BY <1>6, <1>9, <1>13
  <2>3. HttpTypes' BY <1>5, <1>12, <2>1
  <2>4. InOrder' BY <1>1, <1>2, <1>6, <2>1, <2>2 DEF InOrder
  <2>5. HeadFirst' BY <1>6, <1>8, <2>1, <2>2 DEF HeadFirst, c
  <2> QED BY <2>1, <2>3, <2>4, <2>5 DEF HttpInv, BodyNext, StreamNext, Streaming
<1>14. CASE i = 0 /\ r.got = <<>>
  <2>1. ReceiveBody(all, <<>>) BY <1>11, <1>14
  <2>2. Silent /\ Silent' /\ all = data BY <1>5, <1>14
  <2>3. <<>> \in Seq(Unit) BY EmptySeq
  <2>4. /\ clientAt' \in {"chunk", "length", "rest", "done", "raised"}
        /\ clientAt' \in {"chunk", "length", "done"} => Contains(all, "head")
        /\ clientAt' = "raised" => data' = data
        /\ clientAt' # "raised" => data' = <<>>
        /\ clientAt' = "chunk" => ~ReadsBody
    BY <1>1, <2>1, <2>3, BodyPlaces
  <2>5. clientAt' = "chunk" => Answered
    <3>1. ~Answered => Len(all) = 0 BY <1>9, EmptySeq
    <3>2. Contains(all, "head") => Len(all) # 0 BY DEF Contains
    <3> QED BY <2>4, <3>1, <3>2
  <2>6. Answered => serverAt # "over" /\ Len(Answer) <= Len(unsent) + 1
    <3>1. HAVE Answered
    <3>2. all \o c = Answer /\ Len(all) < 2 BY <1>8, <1>14, <3>1
    <3>3. c = unsent
      <4>1. unsent \in Seq(Unit) BY <1>1 DEF HttpTypes
      <4>2. c = <<>> \o (<<>> \o unsent) BY <1>2, <2>2 DEF c, Coming, Silent
      <4> QED BY <4>1, <4>2, ConcatEmptySeq
    <3>4. Len(Answer) = Len(all) + Len(unsent)
      <4>1. Len(all \o c) = Len(all) + Len(c) BY <1>5, ConcatProperties
      <4> QED BY <3>2, <3>3, <4>1
    <3>5. Len(Answer) >= 2
      <4>1. Len(<<"head", "end">> \o rest) = 2 + Len(rest) /\ Len(rest) \in Nat
        BY Marks, ConcatProperties, LenProperties
      <4> QED BY <1>7, <4>1
    <3>6. Len(all) \in Nat /\ Len(unsent) \in Nat BY <1>1, <1>5, LenProperties DEF HttpTypes
    <3>7. Len(unsent) # 0 /\ Len(Answer) <= Len(unsent) + 1 BY <3>2, <3>4, <3>5, <3>6
    <3>8. serverAt # "over" BY <1>1, <3>7, EmptySeq DEF InOrder
    <3> QED BY <3>7, <3>8
  <2>7. clientAt' # "raised" => Broken'
    <3>1. serverAt # "over" BY <2>6 DEF Answered
    <3> QED BY <1>2, <1>6, <2>2, <2>4, <2>6, <3>1 DEF Broken
  <2>8. HttpTypes'
    <3>1. data \in Seq(Unit) BY <1>1 DEF HttpTypes
    <3> QED BY <1>12, <2>3, <2>4, <3>1
  <2>9. InOrder'
    <3>1. Streaming' => Answered' BY <1>6, <2>4, <2>5 DEF Streaming
    <3>2. "server" \in hungUp' BY <2>2 DEF Silent
    <3>3. arriving'["client"] = <<>> /\ decrypted'["client"] = <<>> BY <2>2 DEF Silent
    <3>4. ~Answered => data' = <<>> /\ unsent = <<>> BY <1>1, <2>4 DEF InOrder
    <3> QED BY <1>1, <1>2, <1>6, <2>4, <3>1, <3>2, <3>3, <3>4 DEF InOrder
  <2>10. HeadFirst' BY <2>4 DEF HeadFirst
  <2>11. BodyNext' BY <2>4, <2>7 DEF BodyNext
  <2>12. StreamNext' BY <1>6, <2>4, <2>5, <2>7 DEF StreamNext, Streaming
  <2> QED BY <2>8, <2>9, <2>10, <2>11, <2>12 DEF HttpInv
<1>15. CASE i # 0
  <2>1. ReceiveBody(Upto(all, i), Beyond(all, i)) BY <1>11, <1>15
  <2>2. Answered /\ Answered' BY <1>6, <1>9, <1>15
  <2> DEFINE units == Beyond(all, i)
             head == Upto(all, i)
  <2>3. units \in Seq(Unit) /\ units \o c = rest /\ Contains(head, "head")
    BY <1>8, <1>15, <2>2
  <2> HIDE DEF units, head
  <2>4. ReceiveBody(head, units) BY <2>1 DEF units, head
  <2>5. <<"head", "end">> \o (units \o c) = Answer /\ units \o c \in Seq(Unit) /\ c \in Seq(Unit)
    BY <1>5, <1>7, <2>3
  <2>6. BodyNext' /\ StreamNext' /\ clientAt' # "start" /\ clientAt' # "headers"
    BY <1>1, <1>2, <1>6, <2>2, <2>3, <2>4, <2>5, BodyBegins DEF c
  <2>7. /\ clientAt' \in {"chunk", "length", "rest", "done", "raised"}
        /\ data' \in {data, units}
    BY <1>1, <2>3, <2>4, BodyPlaces
  <2>8. HttpTypes'
    <3>1. data' \in Seq(Unit) BY <1>1, <2>3, <2>7 DEF HttpTypes
    <3> QED BY <1>12, <2>7, <3>1
  <2>9. InOrder' BY <1>1, <1>2, <1>6, <2>2, <2>6 DEF InOrder
  <2>10. HeadFirst' BY <2>6 DEF HeadFirst
  <2> QED BY <2>6, <2>8, <2>9, <2>10 DEF HttpInv
<1> QED BY <1>13, <1>14, <1>15

LEMMA ReceiveRemainderStep == HttpInv /\ ReceiveRemainder => HttpInv'
<1> SUFFICES ASSUME HttpInv, ReceiveRemainder PROVE HttpInv' OBVIOUS
<1>1. HttpTypes /\ InOrder /\ BodyNext BY DEF HttpInv
<1>2. /\ clientAt \in {"length", "rest"} /\ ReadsChunks
      /\ exchange' = exchange /\ serverAt' = serverAt /\ unsent' = unsent
  BY DEF ReceiveRemainder, serverVars
<1>3. PICK r \in Receivable("client", BufSize, exchange.tls) :
         LET enough == r.got = <<>> \/ (clientAt = "length" /\ Len(data \o r.got) >= Len(Body))
         IN  Recv("client", r) /\ Goto(IF enough THEN "done" ELSE clientAt, data \o r.got)
  BY DEF ReceiveRemainder
<1> DEFINE all == data \o r.got
           c == Coming'
           enough == r.got = <<>> \/ (clientAt = "length" /\ Len(all) >= Len(Body))
<1>4. BufSize \in Nat \ {0} BY SocketAssumption
<1>5. /\ DOMAIN arriving' = End /\ DOMAIN decrypted' = End
      /\ arriving'["client"] \in Seq(Unit) /\ decrypted'["client"] \in Seq(Unit)
      /\ r.got \in Seq(Unit) /\ c \in Seq(Unit) /\ hungUp' = hungUp
      /\ all \in Seq(Unit) /\ all \o c = data \o Coming
      /\ r.got = <<>> => Silent /\ Silent' /\ all = data
      /\ arriving["client"] = <<>> /\ decrypted["client"] = <<>> => r.got = <<>>
  BY <1>1, <1>2, <1>3, <1>4, ClientReceives
<1>6. /\ Body' = Body /\ Answer' = Answer /\ (ReadsBody' <=> ReadsBody)
      /\ (Answered' <=> Answered) /\ Body \in Seq(Unit)
  BY <1>1, <1>2, SameAnswer, AnswerType DEF Answered, HttpTypes
<1>7. clientAt' = (IF enough THEN "done" ELSE clientAt) /\ data' = all BY <1>3 DEF Goto
<1> HIDE DEF all, c
<1>8. HttpTypes'
  <2>1. /\ serverAt' \in {"accept", "headers", "respond", "over"} /\ chunkSize' \in 0..3
        /\ exchange' \in Exchanges /\ unsent' \in Seq(Unit) /\ delivered' \in Seq(Seq(Unit))
    BY <1>1, <1>2 DEF HttpTypes, TypeOK, ReadsChunks
  <2>2. clientAt' \in {"length", "rest", "done"} BY <1>2, <1>7
  <2> QED BY <1>5, <1>7, <2>1, <2>2 DEF HttpTypes, TypeOK
<1>9. clientAt' \in {"length", "rest", "done"} BY <1>2, <1>7
<1>10. CASE Broken
  <2>1. Silent /\ data = <<>> /\ serverAt # "over" /\ (Answered => Len(Answer) <= Len(unsent) + 1)
    BY <1>10 DEF Broken
  <2>2. r.got = <<>> BY <1>5, <2>1 DEF Silent
  <2>3. Silent' /\ data' = <<>> BY <1>5, <1>7, <2>1, <2>2
  <2>4. Broken' BY <1>2, <1>6, <2>1, <2>3 DEF Broken
  <2>5. InOrder'
    <3>1. /\ arriving'["client"] = <<>> /\ decrypted'["client"] = <<>>
          /\ "server" \in hungUp'
      BY <2>3 DEF Silent
    <3> QED BY <1>1, <1>2, <1>6, <1>9, <2>3, <3>1 DEF InOrder, Streaming
  <2> QED BY <1>8, <1>9, <2>4, <2>5 DEF HttpInv, HeadFirst, BodyNext, StreamNext, Streaming
<1>11. CASE ~Broken
  <2>1. Answered /\ data \o Coming = Body BY <1>1, <1>2, <1>11 DEF BodyNext
  <2>2. all \o c = Body BY <1>5, <2>1
  <2>3. data' \o Coming' = Body' BY <1>6, <1>7, <2>2 DEF c
  <2>4. clientAt' = "done" => data' = Body' \/ Silent'
    <3>1. HAVE clientAt' = "done"
    <3>2. CASE r.got = <<>> BY <1>5, <3>2
    <3>3. CASE Len(all) >= Len(Body)
      <4>1. all = Body BY <1>5, <2>2, <3>3, LongEnough
      <4> QED BY <1>6, <1>7, <4>1
    <3> QED BY <1>2, <1>7, <3>1, <3>2, <3>3
  <2>5. InOrder' BY <1>1, <1>2, <1>6, <1>9, <2>1 DEF InOrder
  <2> QED BY <1>6, <1>8, <1>9, <2>1, <2>3, <2>4, <2>5
       DEF HttpInv, HeadFirst, BodyNext, StreamNext, Streaming
<1> QED BY <1>10, <1>11

-----------------------------------------------------------------------------
(* The reader of a stream.                                                    *)

\* The size of a chunk is not lost, whether the chunk is complete or not.
LEMMA TakeChunkKeeps ==
    ASSUME HttpTypes, exchange' = exchange, NEW size \in 0..3, NEW units \in Seq(Unit),
           NEW c \in Seq(Unit), c = Coming', TakeChunk(size, units)
    PROVE  /\ clientAt' \in {"body", "yield"} /\ chunkSize' = size
           /\ data' \in Seq(Unit) /\ delivered' \in Seq(Seq(Unit))
           /\ clientAt' = "body" => Len(data') < chunkSize'
           /\ clientAt' = "yield" => delivered' # <<>>
           /\ (<<"head", "end">> \o (Chunks(delivered) \o <<SizeLine(size)>> \o CRLF))
                 \o (units \o c) = Answer => Whole'
<1> DEFINE he == <<"head", "end">>
           cut == Chunks(delivered)
           z == <<SizeLine(size)>>
<1>1. /\ cut \in Seq(Unit) /\ he \in Seq(Unit) /\ z \in Seq(Unit) /\ CRLF \in Seq(Unit)
      /\ delivered \in Seq(Seq(Unit)) /\ Len(units) \in Nat
  <2>1. delivered \in Seq(Seq(Unit)) BY DEF HttpTypes
  <2>2. cut \in Seq(Unit) BY <2>1, ChunksType
  <2>3. size \in Nat /\ Len(units) \in Nat BY LenProperties
  <2> HIDE DEF cut
  <2> QED BY <2>1, <2>2, <2>3, Marks
<1>2. Answer' = Answer /\ chunkSize' = size BY SameAnswer DEF TakeChunk
<1>3. CASE size > Len(units)
  <2>1. clientAt' = "body" /\ data' = units /\ delivered' = delivered
    BY <1>3 DEF TakeChunk, Goto
  <2>2. Taken' = cut \o z \o CRLF BY <1>2, <2>1 DEF Taken
  <2>3. Len(data') < chunkSize' BY <1>1, <1>2, <1>3, <2>1
  <2> QED BY <1>1, <1>2, <2>1, <2>2, <2>3 DEF Whole
<1>4. CASE ~(size > Len(units))
  <2> DEFINE p == Upto(units, size)
             q == Beyond(units, size)
             m == z \o CRLF
             h == he \o (cut \o m)
  <2>1. clientAt' = "yield" /\ data' = q /\ delivered' = Append(delivered, p)
    BY <1>4 DEF TakeChunk, Yield, Goto
  <2>2. p \in Seq(Unit) /\ q \in Seq(Unit) /\ p \o q = units /\ Len(p) = size
    <3>1. size \in Nat /\ size <= Len(units) BY <1>1, <1>4
    <3> QED BY <3>1, Parts
  <2> HIDE DEF p, q
  <2>3. delivered' \in Seq(Seq(Unit)) /\ delivered' # <<>>
    <3>1. delivered \in Seq(Seq(Unit)) /\ p \in Seq(Unit) BY <1>1, <2>2
    <3>2. Append(delivered, p) \in Seq(Seq(Unit)) /\ Append(delivered, p) # <<>>
      BY <3>1, AppendProperties
    <3> QED BY <2>1, <3>2
  <2>4. Taken' = cut \o (m \o p)
    <3>1. Taken' = Upto(Chunks(delivered'), Len(Chunks(delivered')) - 2) BY <2>1 DEF Taken
    <3> QED BY <1>1, <2>1, <2>2, <3>1, BeforeLastBreak
  <2>5. m \in Seq(Unit) /\ cut \o z \o CRLF = cut \o m
    <3> HIDE DEF z, cut
    <3>1. cut \in Seq(Unit) /\ z \in Seq(Unit) /\ CRLF \in Seq(Unit) BY <1>1
    <3>2. Associates(cut, z, CRLF) BY <3>1, Associative
    <3>3. m \in Seq(Unit) BY <3>1, ConcatProperties
    <3> QED BY <3>2, <3>3 DEF Associates
  <2> HIDE DEF m, z, cut, he
  <2>6. h \in Seq(Unit)
    <3>1. cut \o m \in Seq(Unit) BY <1>1, <2>5, ConcatProperties
    <3> QED BY <1>1, <3>1, ConcatProperties
  <2>7. he \o (cut \o (m \o p)) = h \o p
    <3>1. cut \in Seq(Unit) /\ m \in Seq(Unit) /\ p \in Seq(Unit) BY <1>1, <2>2, <2>5
    <3>2. cut \o (m \o p) = (cut \o m) \o p
      <4>1. Associates(cut, m, p) BY <3>1, Associative
      <4> QED BY <4>1 DEF Associates
    <3> DEFINE cm == cut \o m
    <3>3. cm \in Seq(Unit) BY <3>1, ConcatProperties
    <3> HIDE DEF cm
    <3>4. he \o (cm \o p) = (he \o cm) \o p
      <4>1. he \in Seq(Unit) /\ cm \in Seq(Unit) /\ p \in Seq(Unit) BY <1>1, <2>2, <3>3
      <4>2. Associates(he, cm, p) BY <4>1, Associative
      <4> QED BY <4>2 DEF Associates
    <3> QED BY <3>2, <3>4 DEF cm
  <2>8. (h \o p) \o (q \o c) = h \o (units \o c)
    <3> HIDE DEF h
    <3>1. h \in Seq(Unit) /\ p \in Seq(Unit) /\ q \in Seq(Unit) /\ c \in Seq(Unit)
      BY <2>2, <2>6
    <3> DEFINE qc == q \o c
    <3>2. qc \in Seq(Unit) BY <3>1, ConcatProperties
    <3>3. (p \o q) \o c = p \o qc
      <4>1. Associates(p, q, c) BY <3>1, Associative
      <4> QED BY <4>1 DEF Associates
    <3> HIDE DEF qc
    <3>4. (h \o p) \o qc = h \o (p \o qc)
      <4>1. h \in Seq(Unit) /\ p \in Seq(Unit) /\ qc \in Seq(Unit) BY <3>1, <3>2
      <4>2. Associates(h, p, qc) BY <4>1, Associative
      <4> QED BY <4>2 DEF Associates
    <3> QED BY <2>2, <3>3, <3>4 DEF qc
  <2>9. (he \o (cut \o z \o CRLF)) \o (units \o c) = Answer => Whole'
    <3>1. HAVE (he \o (cut \o z \o CRLF)) \o (units \o c) = Answer
    <3>2. (he \o Taken') \o (data' \o Coming') = h \o (units \o c)
      BY <2>1, <2>4, <2>7, <2>8
    <3> QED BY <1>2, <2>5, <3>1, <3>2 DEF Whole, he
  <2> QED BY <1>2, <2>1, <2>2, <2>3, <2>9 DEF he, cut, z
<1> QED BY <1>3, <1>4

\* The line break after a chunk is taken away as a whole.
LEMMA TakeTerminatorKeeps ==
    ASSUME HttpTypes, exchange' = exchange, delivered' = delivered, delivered # <<>>,
           NEW units \in Seq(Unit), NEW c \in Seq(Unit), c = Coming', TakeTerminator(units)
    PROVE  /\ clientAt' \in {"chunk", "terminator"} /\ data' \in Seq(Unit)
           /\ LET cut == Chunks(delivered) IN
              (<<"head", "end">> \o Upto(cut, Len(cut) - 2)) \o (units \o c) = Answer => Whole'
<1> DEFINE he == <<"head", "end">>
           cut == Chunks(delivered)
           t == Upto(cut, Len(cut) - 2)
<1>1. PICK s \in Seq(Seq(Unit)), e \in Seq(Unit) : delivered = Append(s, e)
  BY SequenceEmptyOrAppend DEF HttpTypes
<1>2. cut = t \o CRLF /\ t \in Seq(Unit)
  <2>1. cut = t \o CRLF /\ t = Chunks(s) \o (<<SizeLine(Len(e))>> \o CRLF \o e)
    BY <1>1, BeforeLastBreak
  <2> DEFINE w == <<SizeLine(Len(e))>> \o CRLF \o e
  <2>2. Chunks(s) \in Seq(Unit) /\ w \in Seq(Unit) BY ChunksType, ChunkType
  <2> HIDE DEF w
  <2>3. Chunks(s) \o w \in Seq(Unit) BY <2>2, ConcatProperties
  <2> QED BY <2>1, <2>3 DEF w
<1>3. he \in Seq(Unit) /\ CRLF \in Seq(Unit) /\ Answer' = Answer BY Marks, SameAnswer
<1>4. CASE Upto(units, 2) = CRLF
  <2> DEFINE q == Beyond(units, 2)
  <2>1. clientAt' = "chunk" /\ data' = q BY <1>4 DEF TakeTerminator, Goto
  <2>2. q \in Seq(Unit) /\ CRLF \o q = units BY <1>4, Parts
  <2>3. Taken' = cut BY <2>1 DEF Taken
  <2> HIDE DEF q, cut, t, he
  <2>4. (he \o cut) \o (q \o c) = (he \o t) \o (units \o c)
    <3>1. /\ he \in Seq(Unit) /\ t \in Seq(Unit) /\ q \in Seq(Unit) /\ c \in Seq(Unit)
          /\ CRLF \in Seq(Unit)
      BY <1>2, <1>3, <2>2
    <3> DEFINE h == he \o t
               qc == q \o c
               r == CRLF
    <3>2. h \in Seq(Unit) /\ qc \in Seq(Unit) /\ r \in Seq(Unit) BY <3>1, ConcatProperties
    <3>3. he \o (t \o r) = h \o r
      <4> HIDE DEF r
      <4>1. he \in Seq(Unit) /\ t \in Seq(Unit) /\ r \in Seq(Unit) BY <3>1 DEF r
      <4>2. Associates(he, t, r) BY <4>1, Associative
      <4> QED BY <4>2 DEF Associates
    <3>4. (r \o q) \o c = r \o qc
      <4> HIDE DEF r
      <4>1. r \in Seq(Unit) /\ q \in Seq(Unit) /\ c \in Seq(Unit) BY <3>1 DEF r
      <4>2. Associates(r, q, c) BY <4>1, Associative
      <4> QED BY <4>2 DEF Associates
    <3> HIDE DEF h, qc, r
    <3>5. (h \o r) \o qc = h \o (r \o qc)
      <4>1. h \in Seq(Unit) /\ r \in Seq(Unit) /\ qc \in Seq(Unit) BY <3>2 DEF h, qc, r
      <4>2. Associates(h, r, qc) BY <4>1, Associative
      <4> QED BY <4>2 DEF Associates
    <3>6. cut = t \o r /\ r \o q = units BY <1>2, <2>2 DEF r
    <3> QED BY <3>3, <3>4, <3>5, <3>6 DEF h, qc
  <2> QED BY <1>3, <2>1, <2>2, <2>3, <2>4 DEF Whole, he, t, cut
<1>5. CASE Upto(units, 2) # CRLF
  <2>1. clientAt' = "terminator" /\ data' = units BY <1>5 DEF TakeTerminator, Goto
  <2>2. Taken' = t BY <2>1 DEF Taken
  <2> QED BY <1>3, <2>1, <2>2 DEF Whole
<1> QED BY <1>4, <1>5

\* The first line break is found at its place, or 0 is returned.
LEMMA CrlfPlace ==
    ASSUME NEW units \in Seq(Unit), units # <<>>
    PROVE  CrlfAt(units) = 0 \/ CrlfAt(units) = 1 \/ CrlfAt(units) > 1
<1> DEFINE i == CrlfAt(units)
<1>1. i \in Nat
  <2> DEFINE f == [j \in 1..(Len(units) - 1) |-> SubSeq(units, j, j + 1)]
             I == {j \in 1..Len(f) : f[j] = CRLF}
  <2>1. Len(units) \in Nat \ {0} BY EmptySeq
  <2>2. Len(units) - 1 \in Nat BY <2>1
  <2>3. Len(f) = Len(units) - 1 BY <2>2
  <2>4. i = IF I # {} THEN Min(I) ELSE 0 BY DEF CrlfAt, SelectInSeq
  <2>5. I \in SUBSET (1..Len(f)) /\ Len(f) \in Nat BY <2>2, <2>3
  <2> DEFINE m == Len(f)
  <2> HIDE DEF I, i, f, m
  <2>6. I # {} => Min(I) \in 1..m
    <3>1. HAVE I # {}
    <3>2. I \in SUBSET (1..m) /\ m \in Nat BY <2>5 DEF m
    <3>3. Min(I) \in I BY <3>1, <3>2, FirstOf
    <3> QED BY <3>2, <3>3
  <2>7. I # {} => i = Min(I) BY <2>4
  <2>8. I = {} => i = 0 BY <2>4
  <2> QED BY <2>6, <2>7, <2>8
<1>2. i = 0 \/ i = 1 \/ i > 1
  <2> HIDE DEF i
  <2> QED BY <1>1
<1> QED BY <1>2

\* Nor is the beginning of a size, nor the body behind it.
LEMMA TakeSizeKeeps ==
    ASSUME HttpTypes, exchange' = exchange, NEW units \in Seq(Unit), units # <<>>,
           NEW c \in Seq(Unit), c = Coming', TakeSize(units)
    PROVE  /\ clientAt' \in {"size", "body", "yield", "done", "raised"} /\ chunkSize' \in 0..3
           /\ data' \in Seq(Unit) /\ delivered' \in Seq(Seq(Unit))
           /\ clientAt' = "body" => Len(data') < chunkSize'
           /\ clientAt' = "yield" => delivered' # <<>>
           /\ (<<"head", "end">> \o Chunks(delivered)) \o (units \o c) = Answer
                 /\ Streaming' => Whole'
<1> DEFINE he == <<"head", "end">>
           cut == Chunks(delivered)
           i == CrlfAt(units)
           line == Upto(units, i - 1)
<1>1. data \in Seq(Unit) /\ delivered \in Seq(Seq(Unit)) /\ chunkSize \in 0..3
  BY DEF HttpTypes, TypeOK
<1>2. Answer' = Answer BY SameAnswer
<1>3. CASE i = 0
  <2>1. clientAt' = "size" /\ data' = units /\ delivered' = delivered /\ chunkSize' = chunkSize
    BY <1>3 DEF TakeSize, Goto, ReadsChunks
  <2>2. Taken' = cut BY <2>1 DEF Taken
  <2> QED BY <1>1, <1>2, <2>1, <2>2 DEF Whole
<1>4. CASE i = 1
  <2>1. clientAt' = "done" /\ data' = units /\ delivered' = delivered /\ chunkSize' = chunkSize
    BY <1>4 DEF TakeSize, Goto, ReadsChunks
  <2> QED BY <1>1, <2>1 DEF Streaming
<1>5. CASE i > 1 /\ ~(i = 2 /\ line[1] \in DOMAIN Size)
  <2>1. i # 0 /\ i # 1 BY <1>5
  <2>2. clientAt' = "raised" /\ data' = data /\ delivered' = delivered
        /\ chunkSize' = chunkSize
    BY <1>5, <2>1 DEF TakeSize, Raise, Goto, ReadsChunks
  <2> QED BY <1>1, <2>2 DEF Streaming
<1>6. CASE i = 2 /\ line[1] \in DOMAIN Size
  <2> DEFINE size == Size[units[1]]
             q == Beyond(units, 3)
             z == <<units[1]>>
  <2>1. /\ line[1] = units[1] /\ q \in Seq(Unit) /\ units = z \o CRLF \o q
        /\ units[1] \in Unit
    BY <1>6, SizeLineEnds
  <2>2. size \in 0..3 /\ SizeLine(size) = units[1] BY <1>6, <2>1, SizeIsRead
  <2>3. TakeChunk(size, q) BY <1>6, <2>1 DEF TakeSize
  <2> HIDE DEF size, q
  <2>4. /\ clientAt' \in {"body", "yield"} /\ chunkSize' = size
        /\ data' \in Seq(Unit) /\ delivered' \in Seq(Seq(Unit))
        /\ clientAt' = "body" => Len(data') < chunkSize'
        /\ clientAt' = "yield" => delivered' # <<>>
        /\ (he \o (cut \o z \o CRLF)) \o (q \o c) = Answer => Whole'
    BY <2>1, <2>2, <2>3, TakeChunkKeeps
  <2>5. (he \o cut) \o (units \o c) = (he \o (cut \o z \o CRLF)) \o (q \o c)
    <3> DEFINE r == CRLF
               h == he \o cut
               zr == z \o r
               qc == q \o c
    <3>1. /\ he \in Seq(Unit) /\ cut \in Seq(Unit) /\ z \in Seq(Unit) /\ r \in Seq(Unit)
          /\ q \in Seq(Unit) /\ c \in Seq(Unit)
      <4>1. cut \in Seq(Unit) BY <1>1, ChunksType
      <4>2. z \in Seq(Unit)
        <5>1. <<units[1]>> \in Seq(Unit) BY <2>1
        <5> QED BY <5>1
      <4> HIDE DEF cut, z
      <4> QED BY <2>1, <4>1, <4>2, Marks
    <3> HIDE DEF r, z, he, cut
    <3>2. h \in Seq(Unit) /\ zr \in Seq(Unit) /\ qc \in Seq(Unit) BY <3>1, ConcatProperties
    <3>3. cut \o z \o r = cut \o zr
      <4>1. cut \in Seq(Unit) /\ z \in Seq(Unit) /\ r \in Seq(Unit) BY <3>1
      <4>2. Associates(cut, z, r) BY <4>1, Associative
      <4> QED BY <4>2 DEF Associates
    <3> HIDE DEF zr, qc
    <3>4. he \o (cut \o zr) = h \o zr
      <4>1. he \in Seq(Unit) /\ cut \in Seq(Unit) /\ zr \in Seq(Unit) BY <3>1, <3>2
      <4>2. Associates(he, cut, zr) BY <4>1, Associative
      <4> QED BY <4>2 DEF Associates
    <3> HIDE DEF h
    <3>5. (h \o zr) \o qc = h \o (zr \o qc)
      <4>1. h \in Seq(Unit) /\ zr \in Seq(Unit) /\ qc \in Seq(Unit) BY <3>2
      <4>2. Associates(h, zr, qc) BY <4>1, Associative
      <4> QED BY <4>2 DEF Associates
    <3>6. zr \o (q \o c) = (zr \o q) \o c
      <4>1. zr \in Seq(Unit) /\ q \in Seq(Unit) /\ c \in Seq(Unit) BY <3>1, <3>2
      <4>2. Associates(zr, q, c) BY <4>1, Associative
      <4> QED BY <4>2 DEF Associates
    <3>7. units = zr \o q BY <2>1 DEF zr, r
    <3> QED BY <3>3, <3>4, <3>5, <3>6, <3>7 DEF h, qc, r
  <2> QED BY <2>2, <2>4, <2>5
<1>8. i = 0 \/ i = 1 \/ i > 1 BY CrlfPlace
<1> QED BY <1>3, <1>4, <1>5, <1>6, <1>8

LEMMA StreamReadStep == HttpInv /\ StreamRead => HttpInv'
<1> SUFFICES ASSUME HttpInv, StreamRead PROVE HttpInv' OBVIOUS
<1>1. HttpTypes /\ InOrder /\ StreamNext BY DEF HttpInv
<1>2. /\ clientAt \in {"chunk", "size", "body", "terminator"}
      /\ exchange' = exchange /\ serverAt' = serverAt /\ unsent' = unsent
  BY DEF StreamRead, serverVars
<1> DEFINE n == IF clientAt = "body" THEN chunkSize - Len(data) ELSE BufSize
<1>3. PICK r \in Receivable("client", n, exchange.tls) :
         /\ Recv("client", r)
         /\ CASE r.got = <<>> /\ clientAt = "chunk" -> Goto("done", data) /\ ReadsChunks
              [] r.got = <<>> /\ clientAt # "chunk" -> Raise /\ ReadsChunks
              [] r.got # <<>> /\ clientAt \in {"chunk", "size"} -> TakeSize(data \o r.got)
              [] r.got # <<>> /\ clientAt = "body" -> TakeChunk(chunkSize, data \o r.got)
              [] OTHER -> TakeTerminator(data \o r.got) /\ ReadsChunks
  BY DEF StreamRead
<1> DEFINE all == data \o r.got
           c == Coming'
<1>4. n \in Nat \ {0}
  <2>1. CASE clientAt = "body"
    <3>1. Len(data) < chunkSize BY <1>1, <2>1 DEF StreamNext, Streaming
    <3>2. Len(data) \in Nat /\ chunkSize \in 0..3 BY <1>1, LenProperties DEF HttpTypes, TypeOK
    <3> QED BY <2>1, <3>1, <3>2
  <2> QED BY <2>1, SocketAssumption
<1> HIDE DEF n
<1>5. /\ DOMAIN arriving' = End /\ DOMAIN decrypted' = End
      /\ arriving'["client"] \in Seq(Unit) /\ decrypted'["client"] \in Seq(Unit)
      /\ r.got \in Seq(Unit) /\ c \in Seq(Unit) /\ hungUp' = hungUp
      /\ all \in Seq(Unit) /\ all \o c = data \o Coming
      /\ r.got = <<>> => Silent /\ Silent' /\ all = data
      /\ arriving["client"] = <<>> /\ decrypted["client"] = <<>> => r.got = <<>>
  BY <1>1, <1>2, <1>3, <1>4, ClientReceives
<1>6. /\ Answer' = Answer /\ (ReadsBody' <=> ReadsBody) /\ ~ReadsBody
      /\ Answered /\ Answered'
  BY <1>1, <1>2, SameAnswer DEF Answered, StreamNext, Streaming
<1>7. data \in Seq(Unit) /\ delivered \in Seq(Seq(Unit)) /\ chunkSize \in 0..3
  BY <1>1 DEF HttpTypes, TypeOK
<1>8. r.got # <<>> => all # <<>> BY <1>5, <1>7, ConcatEqualIffEmpty
<1>9. r.got # <<>> => (<<"head", "end">> \o Taken) \o (all \o c) = Answer
  <2>1. HAVE r.got # <<>>
  <2>2. ~Broken BY <1>5, <2>1 DEF Broken, Silent
  <2>3. Whole BY <1>1, <1>2, <2>2 DEF StreamNext, Streaming
  <2> QED BY <1>5, <2>3 DEF Whole
<1>10. CASE r.got = <<>>
  <2>1. clientAt' \in {"done", "raised"} /\ data' = data /\ ReadsChunks
    BY <1>3, <1>10 DEF Goto, Raise
  <2>2. HttpTypes' BY <1>1, <1>2, <1>5, <2>1 DEF HttpTypes, TypeOK, ReadsChunks
  <2>3. InOrder' BY <1>1, <1>2, <1>6, <2>1 DEF InOrder
  <2> QED BY <1>6, <2>1, <2>2, <2>3 DEF HttpInv, HeadFirst, BodyNext, StreamNext, Streaming
<1> HIDE DEF all, c
<1>11. ASSUME clientAt' \in {"chunk", "size", "body", "yield", "terminator", "done", "raised"},
              chunkSize' \in 0..3, data' \in Seq(Unit), delivered' \in Seq(Seq(Unit)),
              clientAt' = "body" => Len(data') < chunkSize',
              clientAt' \in {"yield", "terminator"} => delivered' # <<>>,
              Streaming' => Whole'
       PROVE  HttpInv'
  <2>1. HttpTypes' BY <1>1, <1>2, <1>5, <1>11 DEF HttpTypes, TypeOK
  <2>2. InOrder' BY <1>1, <1>2, <1>6, <1>11 DEF InOrder
  <2>3. HeadFirst' /\ BodyNext' BY <1>6, <1>11 DEF HeadFirst, BodyNext
  <2>4. StreamNext' BY <1>6, <1>11 DEF StreamNext
  <2> QED BY <2>1, <2>2, <2>3, <2>4 DEF HttpInv
<1>12. CASE r.got # <<>> /\ clientAt \in {"chunk", "size"}
  <2>1. TakeSize(all) BY <1>3, <1>12 DEF all
  <2>2. Taken = Chunks(delivered) BY <1>12 DEF Taken
  <2>3. /\ clientAt' \in {"size", "body", "yield", "done", "raised"} /\ chunkSize' \in 0..3
        /\ data' \in Seq(Unit) /\ delivered' \in Seq(Seq(Unit))
        /\ clientAt' = "body" => Len(data') < chunkSize'
        /\ clientAt' = "yield" => delivered' # <<>>
        /\ (<<"head", "end">> \o Chunks(delivered)) \o (all \o c) = Answer
              /\ Streaming' => Whole'
    BY <1>1, <1>2, <1>5, <1>8, <1>12, <2>1, TakeSizeKeeps DEF c
  <2> QED BY <1>9, <1>11, <1>12, <2>2, <2>3
<1>13. CASE r.got # <<>> /\ clientAt = "body"
  <2>1. TakeChunk(chunkSize, all) BY <1>3, <1>13 DEF all
  <2>2. Taken = Chunks(delivered) \o <<SizeLine(chunkSize)>> \o CRLF BY <1>13 DEF Taken
  <2>3. /\ clientAt' \in {"body", "yield"} /\ chunkSize' = chunkSize
        /\ data' \in Seq(Unit) /\ delivered' \in Seq(Seq(Unit))
        /\ clientAt' = "body" => Len(data') < chunkSize'
        /\ clientAt' = "yield" => delivered' # <<>>
        /\ (<<"head", "end">> \o (Chunks(delivered) \o <<SizeLine(chunkSize)>> \o CRLF))
              \o (all \o c) = Answer => Whole'
    BY <1>1, <1>2, <1>5, <1>7, <2>1, TakeChunkKeeps DEF c
  <2> QED BY <1>7, <1>9, <1>11, <1>13, <2>2, <2>3
<1>14. CASE r.got # <<>> /\ clientAt = "terminator"
  <2>1. TakeTerminator(all) /\ ReadsChunks BY <1>3, <1>14 DEF all
  <2>2. delivered' = delivered /\ chunkSize' = chunkSize BY <2>1 DEF ReadsChunks
  <2>3. delivered # <<>> BY <1>1, <1>14 DEF StreamNext, Streaming
  <2> DEFINE cut == Chunks(delivered)
  <2>4. Taken = Upto(cut, Len(cut) - 2) BY <1>14 DEF Taken
  <2>5. /\ clientAt' \in {"chunk", "terminator"} /\ data' \in Seq(Unit)
        /\ (<<"head", "end">> \o Upto(cut, Len(cut) - 2)) \o (all \o c) = Answer => Whole'
    BY <1>1, <1>2, <1>5, <2>1, <2>2, <2>3, TakeTerminatorKeeps DEF c
  <2> QED BY <1>7, <1>9, <1>11, <1>14, <2>2, <2>3, <2>4, <2>5
<1> QED BY <1>2, <1>10, <1>12, <1>13, <1>14

LEMMA ResumedStep == HttpInv /\ Resumed => HttpInv'
<1> SUFFICES ASSUME HttpInv, Resumed PROVE HttpInv' OBVIOUS
<1>1. HttpTypes /\ InOrder /\ StreamNext BY DEF HttpInv
<1>2. /\ clientAt = "yield" /\ TakeTerminator(data)
      /\ UNCHANGED <<arriving, decrypted, hungUp, exchange, serverAt, requested, unsent,
                     chunkSize, delivered, sse>>
  BY DEF Resumed, ReadsChunks, socketVars, serverVars
<1>3. Answer' = Answer /\ (ReadsBody' <=> ReadsBody) /\ Coming' = Coming
  BY <1>2, SameAnswer DEF Coming
<1>4. Answered /\ Answered' /\ ~ReadsBody /\ Whole /\ delivered # <<>>
  BY <1>1, <1>2 DEF StreamNext, Streaming, Answered
<1>5. data \in Seq(Unit) /\ Coming \in Seq(Unit)
  <2> DEFINE d == decrypted["client"]
             a == arriving["client"]
  <2>1. d \in Seq(Unit) /\ a \in Seq(Unit) /\ unsent \in Seq(Unit) /\ data \in Seq(Unit)
    BY <1>1 DEF HttpTypes
  <2> HIDE DEF d, a
  <2>2. a \o unsent \in Seq(Unit) BY <2>1, ConcatProperties
  <2>3. d \o (a \o unsent) \in Seq(Unit) BY <2>1, <2>2, ConcatProperties
  <2> QED BY <2>1, <2>3 DEF Coming, d, a
<1> DEFINE cut == Chunks(delivered)
<1>6. Taken = Upto(cut, Len(cut) - 2) BY <1>2 DEF Taken
<1>7. /\ clientAt' \in {"chunk", "terminator"} /\ data' \in Seq(Unit)
      /\ (<<"head", "end">> \o Upto(cut, Len(cut) - 2)) \o (data \o Coming) = Answer => Whole'
  BY <1>1, <1>2, <1>3, <1>4, <1>5, TakeTerminatorKeeps
<1>8. Whole' BY <1>4, <1>6, <1>7 DEF Whole
<1>9. HttpTypes' BY <1>1, <1>2, <1>7 DEF HttpTypes, TypeOK
<1>10. InOrder' BY <1>1, <1>2, <1>4, <1>7 DEF InOrder
<1>11. StreamNext' BY <1>2, <1>3, <1>4, <1>7, <1>8 DEF StreamNext
<1> QED BY <1>7, <1>9, <1>10, <1>11 DEF HttpInv, HeadFirst, BodyNext

LEMMA HttpStutters == HttpInv /\ UNCHANGED vars => HttpInv'
<1> SUFFICES ASSUME HttpInv, UNCHANGED vars PROVE HttpInv' OBVIOUS
<1>1. UNCHANGED <<arriving, decrypted, hungUp, exchange, serverAt, requested, unsent, clientAt,
                  data, chunkSize, delivered, sse>>
  BY DEF vars, socketVars, serverVars, clientVars
<1>2. Body' = Body /\ Answer' = Answer /\ (ReadsBody' <=> ReadsBody) BY <1>1, SameAnswer
<1>3. /\ Coming' = Coming /\ (Silent' <=> Silent) /\ (Answered' <=> Answered)
      /\ (Streaming' <=> Streaming) /\ Taken' = Taken
  BY <1>1 DEF Coming, Silent, Answered, Streaming, Taken
<1>4. (Broken' <=> Broken) /\ (Whole' <=> Whole) BY <1>1, <1>2, <1>3 DEF Broken, Whole
<1>5. HttpTypes' BY <1>1 DEF HttpInv, HttpTypes, TypeOK
<1>6. InOrder' BY <1>1, <1>3 DEF HttpInv, InOrder
<1>7. HeadFirst' BY <1>1, <1>2, <1>3 DEF HttpInv, HeadFirst
<1>8. BodyNext' BY <1>1, <1>2, <1>3, <1>4 DEF HttpInv, BodyNext
<1>9. StreamNext' BY <1>1, <1>2, <1>3, <1>4 DEF HttpInv, StreamNext
<1> QED BY <1>5, <1>6, <1>7, <1>8, <1>9 DEF HttpInv

LEMMA HttpInvHolds == Spec => []HttpInv
<1>1. HttpInv /\ [Next]_vars => HttpInv'
  BY AcceptStep, ServerReceivesStep, ServerSendsStep, HangUpStep, SendRequestStep,
     ReceiveHeadersStep, ReceiveRemainderStep, StreamReadStep, ResumedStep, HttpStutters
     DEF Next, Server, Client
<1> QED BY <1>1, HttpInit, PTL DEF Spec

-----------------------------------------------------------------------------
(* The theorems.                                                              *)

\* Every variable of the client and of the server keeps its type.
THEOREM HttpTypeCorrect == Spec => []TypeOK
<1>1. HttpInv => TypeOK BY DEF HttpInv, HttpTypes
<1> QED BY <1>1, HttpInvHolds, PTL

\* A body that is returned is what the server sent, however it was cut into pieces, and the
\* whole of it unless the server broke off: http_client.py, _receive_remainder().
THEOREM BodiesArrive == Spec => []BodyIsWhatWasSent
<1>1. HttpInv => BodyIsWhatWasSent
  <2> SUFFICES ASSUME HttpInv, clientAt = "done", ReadsBody
               PROVE  /\ IsPrefix(data, Body)
                      /\ "server" \notin hungUp => data = Body
                      /\ unsent = <<>> /\ serverAt = "over" => data = Body
    BY DEF BodyIsWhatWasSent
  <2>1. /\ data \in Seq(Unit) /\ decrypted["client"] \in Seq(Unit)
        /\ arriving["client"] \in Seq(Unit) /\ unsent \in Seq(Unit)
        /\ Body \in Seq(Unit)
    BY AnswerType DEF HttpInv, HttpTypes
  <2>2. Broken \/ (data \o Coming = Body /\ (data = Body \/ Silent)) BY DEF HttpInv, BodyNext
  <2>3. Coming \in Seq(Unit)
    <3> DEFINE d == decrypted["client"]
               a == arriving["client"]
    <3>1. d \in Seq(Unit) /\ a \in Seq(Unit) /\ unsent \in Seq(Unit) BY <2>1
    <3> HIDE DEF d, a
    <3>2. a \o unsent \in Seq(Unit) BY <3>1, ConcatProperties
    <3>3. d \o (a \o unsent) \in Seq(Unit) BY <3>1, <3>2, ConcatProperties
    <3> QED BY <3>3 DEF Coming, d, a
  <2>4. CASE Broken
    <3>1. data = <<>> /\ "server" \in hungUp /\ serverAt # "over" BY <2>4 DEF Broken, Silent
    <3>2. IsPrefix(<<>>, <<>> \o Body) BY <2>1, PrefixOfConcat, EmptySeq
    <3>3. <<>> \o Body = Body BY <2>1, ConcatEmptySeq
    <3> QED BY <3>1, <3>2, <3>3
  <2>5. CASE data \o Coming = Body /\ (data = Body \/ Silent)
    <3>1. IsPrefix(data, data \o Coming) BY <2>1, <2>3, PrefixOfConcat
    <3>2. Silent => "server" \in hungUp BY DEF Silent
    <3>3. Silent /\ unsent = <<>> => data = Body
      <4>1. HAVE Silent /\ unsent = <<>>
      <4>2. Coming = <<>> \o (<<>> \o <<>>) BY <4>1 DEF Coming, Silent
      <4>3. Coming = <<>> BY <4>2, ConcatEmptySeq, EmptySeq
      <4>4. data \o <<>> = data BY <2>1, ConcatEmptySeq
      <4> QED BY <2>5, <4>3, <4>4
    <3> QED BY <2>5, <3>1, <3>2, <3>3
  <2> QED BY <2>2, <2>4, <2>5
<1> QED BY <1>1, HttpInvHolds, PTL

\* What a stream has yielded, what it holds and what is still to come make up the answer at
\* every await and yield of _stream_read(), for any chunks, any size of a recv() and any cuts.
THEOREM StreamsSkipNothing == Spec => []NothingSkipped
<1>1. HttpInv => NothingSkipped
  <2> SUFFICES ASSUME HttpInv, Streaming, Len(Answer) - Len(unsent) > 1
               PROVE  <<"head", "end">> \o Taken \o data \o decrypted["client"]
                         \o arriving["client"] \o unsent = Answer
    BY DEF NothingSkipped
  <2> DEFINE he == <<"head", "end">>
             d == decrypted["client"]
             a == arriving["client"]
             h == he \o Taken
  <2>1. /\ data \in Seq(Unit) /\ d \in Seq(Unit) /\ a \in Seq(Unit) /\ unsent \in Seq(Unit)
        /\ delivered \in Seq(Seq(Unit)) /\ Answer \in Seq(Unit) /\ chunkSize \in 0..3
    BY AnswerType DEF HttpInv, HttpTypes, TypeOK
  <2>2. Answered /\ (Whole \/ Broken) BY DEF HttpInv, StreamNext
  <2>3. ~Broken
    <3>1. Len(Answer) \in Nat /\ Len(unsent) \in Nat BY <2>1, LenProperties
    <3>2. ~(Len(Answer) <= Len(unsent) + 1) BY <3>1
    <3> QED BY <2>2, <3>2 DEF Broken
  <2>4. h \o (data \o (d \o (a \o unsent))) = Answer BY <2>2, <2>3 DEF Whole, Coming
  <2>5. h \in Seq(Unit)
    <3> DEFINE cut == Chunks(delivered)
    <3>1. cut \in Seq(Unit) /\ Len(cut) \in Nat BY <2>1, ChunksType, LenProperties
    <3>2. CASE clientAt \in {"yield", "terminator"}
      <4>1. delivered # <<>> BY <3>2 DEF HttpInv, StreamNext
      <4>2. PICK s \in Seq(Seq(Unit)), e \in Seq(Unit) : delivered = Append(s, e)
        BY <2>1, <4>1, SequenceEmptyOrAppend
      <4> DEFINE w == <<SizeLine(Len(e))>> \o CRLF \o e
      <4>3. Upto(cut, Len(cut) - 2) = Chunks(s) \o w BY <4>2, BeforeLastBreak
      <4>4. Chunks(s) \in Seq(Unit) /\ w \in Seq(Unit) BY ChunksType, ChunkType
      <4> HIDE DEF w
      <4>5. Chunks(s) \o w \in Seq(Unit) BY <4>4, ConcatProperties
      <4>6. Taken \in Seq(Unit) BY <3>2, <4>3, <4>5 DEF Taken
      <4> QED BY <4>6, Marks, ConcatProperties
    <3>3. CASE clientAt = "body"
      <4> DEFINE z == <<SizeLine(chunkSize)>>
                 cz == cut \o z
      <4>1. z \in Seq(Unit) /\ CRLF \in Seq(Unit) BY <2>1, Marks
      <4> HIDE DEF cut, z
      <4>2. cz \in Seq(Unit) BY <3>1, <4>1, ConcatProperties
      <4> HIDE DEF cz
      <4>3. cz \o CRLF \in Seq(Unit) BY <4>1, <4>2, ConcatProperties
      <4>4. Taken \in Seq(Unit) BY <3>3, <4>3 DEF Taken, cz, cut, z
      <4> QED BY <4>4, Marks, ConcatProperties
    <3>4. CASE clientAt \notin {"yield", "terminator", "body"}
      <4>1. Taken \in Seq(Unit) BY <3>1, <3>4 DEF Taken
      <4> QED BY <4>1, Marks, ConcatProperties
    <3> QED BY <3>2, <3>3, <3>4
  <2> HIDE DEF h, d, a
  <2>6. h \o data \o d \o a \o unsent = h \o (data \o (d \o (a \o unsent)))
    <3>1. h \in Seq(Unit) /\ data \in Seq(Unit) /\ d \in Seq(Unit) BY <2>1, <2>5
    <3> DEFINE hd == h \o data
               hdd == hd \o d
               au == a \o unsent
               dau == d \o au
    <3>2. hd \in Seq(Unit) /\ au \in Seq(Unit) BY <2>1, <2>5, ConcatProperties
    <3> HIDE DEF hd, au
    <3>3. hdd \in Seq(Unit) /\ dau \in Seq(Unit) BY <2>1, <3>2, ConcatProperties
    <3> HIDE DEF hdd, dau
    <3>4. hdd \o a \o unsent = hdd \o au
      <4>1. hdd \in Seq(Unit) /\ a \in Seq(Unit) /\ unsent \in Seq(Unit) BY <2>1, <3>3
      <4>2. Associates(hdd, a, unsent) BY <4>1, Associative
      <4> QED BY <4>2 DEF Associates, au
    <3>5. hd \o d \o au = hd \o dau
      <4>1. hd \in Seq(Unit) /\ d \in Seq(Unit) /\ au \in Seq(Unit) BY <2>1, <3>2
      <4>2. Associates(hd, d, au) BY <4>1, Associative
      <4> QED BY <4>2 DEF Associates, dau
    <3>6. h \o data \o dau = h \o (data \o dau)
      <4>1. h \in Seq(Unit) /\ data \in Seq(Unit) /\ dau \in Seq(Unit) BY <2>1, <2>5, <3>3
      <4>2. Associates(h, data, dau) BY <4>1, Associative
      <4> QED BY <4>2 DEF Associates
    <3> QED BY <3>4, <3>5, <3>6 DEF hd, hdd, au, dau
  <2> QED BY <2>4, <2>6 DEF h, d, a
<1> QED BY <1>1, HttpInvHolds, PTL

-----------------------------------------------------------------------------
(* The chunks are those that were sent: there is one way only to read them.   *)

\* What the wire shows of a chunk before its last line break.
Begin(c) == (<<SizeLine(Len(c))>> \o CRLF) \o c

LEMMA BeginType ==
    ASSUME NEW c \in Seq(Unit)
    PROVE  /\ Begin(c) \in Seq(Unit) /\ Len(Begin(c)) >= 3 /\ Len(Begin(c)) \in Nat
           /\ Chunk(c) = Begin(c) \o CRLF /\ Chunk(c) \in Seq(Unit)
<1> DEFINE z == <<SizeLine(Len(c))>>
           h == z \o CRLF
<1>1. Len(c) \in Nat BY LenProperties
<1>2. z \in Seq(Unit) /\ CRLF \in Seq(Unit) /\ Len(CRLF) = 2 /\ Len(z) = 1 BY <1>1, Marks
<1>3. h \in Seq(Unit) /\ Len(h) = 3
  <2> HIDE DEF z
  <2>1. h \in Seq(Unit) /\ Len(h) = Len(z) + Len(CRLF) BY <1>2, ConcatProperties
  <2> QED BY <1>2, <2>1
<1> HIDE DEF h
<1>4. h \o c \in Seq(Unit) /\ Len(h \o c) = Len(h) + Len(c) BY <1>3, ConcatProperties
<1>5. Begin(c) = h \o c BY DEF Begin, h
<1>6. Chunk(c) = Begin(c) \o CRLF BY DEF Chunk, Begin
<1>7. Begin(c) \in Seq(Unit) /\ Chunk(c) \in Seq(Unit) BY <1>4, <1>5, ChunkType
<1>8. Len(Begin(c)) = 3 + Len(c) BY <1>3, <1>4, <1>5
<1> HIDE DEF z
<1> QED BY <1>1, <1>6, <1>7, <1>8

\* The size on the wire tells the length, and so the chunk.
LEMMA SameChunk ==
    ASSUME NEW c \in Seq(Unit), NEW b \in Seq(Unit), NEW v \in Seq(Unit), NEW w \in Seq(Unit),
           Len(c) \in 0..3, Len(b) \in 0..3
    PROVE  Begin(c) \o v = Begin(b) \o w => c = b
<1>0. HAVE Begin(c) \o v = Begin(b) \o w
<1> DEFINE y == <<SizeLine(Len(c))>>
           z == <<SizeLine(Len(b))>>
           g == y \o CRLF
           h == z \o CRLF
<1>1. y \in Seq(Unit) /\ z \in Seq(Unit) /\ CRLF \in Seq(Unit) /\ Len(CRLF) = 2
      /\ Len(y) = 1 /\ Len(z) = 1
  <2>1. Len(c) \in Nat /\ Len(b) \in Nat BY LenProperties
  <2> QED BY <2>1, Marks
<1> HIDE DEF y, z
<1>2. g \in Seq(Unit) /\ h \in Seq(Unit) /\ Len(g) = 3 /\ Len(h) = 3
  <2>1. g \in Seq(Unit) /\ Len(g) = Len(y) + Len(CRLF) BY <1>1, ConcatProperties
  <2>2. h \in Seq(Unit) /\ Len(h) = Len(z) + Len(CRLF) BY <1>1, ConcatProperties
  <2> QED BY <1>1, <2>1, <2>2
<1>3. (g \o c) \o v = (h \o b) \o w BY <1>0 DEF Begin, y, z
<1> HIDE DEF g, h
<1>4. (g \o c) \o v = g \o (c \o v)
  <2>1. g \in Seq(Unit) BY <1>2
  <2>2. Associates(g, c, v) BY <2>1, Associative
  <2> QED BY <2>2 DEF Associates
<1>5. (h \o b) \o w = h \o (b \o w)
  <2>1. h \in Seq(Unit) BY <1>2
  <2>2. Associates(h, b, w) BY <2>1, Associative
  <2> QED BY <2>2 DEF Associates
<1>6. c \o v \in Seq(Unit) /\ b \o w \in Seq(Unit) BY ConcatProperties
<1>7. g = h /\ c \o v = b \o w
  <2> DEFINE cv == c \o v
             bw == b \o w
  <2>1. g \o cv = h \o bw BY <1>3, <1>4, <1>5
  <2>2. cv \in Seq(Unit) /\ bw \in Seq(Unit) BY <1>6
  <2> HIDE DEF cv, bw
  <2>3. g = h /\ cv = bw BY <1>2, <2>1, <2>2, SameParts
  <2> QED BY <2>3 DEF cv, bw
<1>8. SizeLine(Len(c)) = SizeLine(Len(b))
  <2>1. y = z
    <3>1. Len(y) = Len(z) /\ y \o CRLF = z \o CRLF BY <1>1, <1>7 DEF g, h
    <3> QED BY <1>1, <3>1, SameParts
  <2> QED BY <2>1 DEF y, z
<1>9. \A n \in 0..3 : Size[SizeLine(n)] = n
  <2>1. DOMAIN Size = {"0", "1", "2", "3"} BY DEF Size
  <2>2. Size["0"] = 0 /\ Size["1"] = 1 /\ Size["2"] = 2 /\ Size["3"] = 3 BY DEF Size
  <2>3. \A n \in 0..3 : \E u \in DOMAIN Size : Size[u] = n BY <2>1, <2>2
  <2> QED BY <2>3, Zenon DEF SizeLine
<1>10. Len(c) = Len(b) BY <1>8, <1>9
<1> QED BY <1>7, <1>10, SameParts

\* The chunks one after the other: h[k] is what the first k take.
LEMMA ChunkSteps ==
    ASSUME NEW cs \in Seq(Seq(Unit))
    PROVE  \E h \in [0..Len(cs) -> Seq(Unit)] :
              /\ h[0] = <<>>
              /\ \A k \in 1..Len(cs) : h[k] = h[k - 1] \o Chunk(cs[k])
              /\ Chunks(cs) = h[Len(cs)]
<1> DEFINE e == [j \in DOMAIN cs |-> Chunk(cs[j])]
<1>1. e \in Seq(Seq(Unit)) BY ChunksType
<1>2. DOMAIN cs = 1..Len(cs) /\ Len(cs) \in Nat BY LenProperties
<1>3. Len(e) = Len(cs) BY <1>1, <1>2
<1>4. \A k \in 1..Len(cs) : e[k] = Chunk(cs[k]) BY <1>2
<1> HIDE DEF e
<1>5. PICK h \in [0..Len(e) -> Seq(Unit)] :
         /\ h[0] = <<>>
         /\ \A k \in 1..Len(e) : h[k] = h[k - 1] \o e[k]
         /\ FlattenSeq(e) = h[Len(e)]
  BY <1>1, FlattenSteps
<1>6. h \in [0..Len(cs) -> Seq(Unit)] BY <1>3
<1>7. \A k \in 1..Len(cs) : h[k] = h[k - 1] \o Chunk(cs[k]) BY <1>3, <1>4, <1>5
<1>8. h[0] = <<>> /\ Chunks(cs) = h[Len(cs)] BY <1>3, <1>5 DEF Chunks, e
<1> QED BY <1>6, <1>7, <1>8

\* Each chunk begins where those before it have ended.
LEMMA ChunkPlaces ==
    ASSUME NEW n \in Nat, NEW cs \in [1..n -> Seq(Unit)], NEW h \in [0..n -> Seq(Unit)],
           NEW k \in 1..n
    PROVE  (\A j \in 1..n : h[j] = h[j - 1] \o Chunk(cs[j]))
              => \E v \in Seq(Unit) : h[n] = h[k - 1] \o (Begin(cs[k]) \o v)
<1>0. HAVE \A j \in 1..n : h[j] = h[j - 1] \o Chunk(cs[j])
<1> DEFINE e == [j \in 1..n |-> Chunk(cs[j])]
<1>1. e \in [1..n -> Seq(Unit)] /\ \A j \in 1..n : h[j] = h[j - 1] \o e[j]
  <2>1. \A j \in 1..n : cs[j] \in Seq(Unit) OBVIOUS
  <2>2. \A j \in 1..n : Chunk(cs[j]) \in Seq(Unit) BY <2>1, BeginType
  <2> QED BY <1>0, <2>2
<1> HIDE DEF e
<1>2. k \in 0..n /\ n \in k..n /\ k - 1 \in 0..n OBVIOUS
<1>3. Extends(h[n], h[k], Unit)
  <2>1. Concatenates(h, e, n) BY <1>1 DEF Concatenates
  <2>2. \A m \in k..n : Extends(h[m], h[k], Unit) BY <1>1, <1>2, <2>1, StepsArePrefixes
  <2> QED BY <1>2, <2>2
<1>4. PICK w \in Seq(Unit) : h[n] = h[k] \o w BY <1>3 DEF Extends
<1> DEFINE a == h[k - 1]
           b == Begin(cs[k])
           r == CRLF
<1>5. a \in Seq(Unit) /\ b \in Seq(Unit) /\ r \in Seq(Unit) BY <1>2, BeginType, Marks
<1>6. h[k] = a \o (b \o r) BY <1>0, BeginType
<1> HIDE DEF a, b, r
<1> DEFINE br == b \o r
           rw == r \o w
<1>7. br \in Seq(Unit) /\ rw \in Seq(Unit) BY <1>5, ConcatProperties
<1>8. br \o w = b \o rw
  <2>1. Associates(b, r, w) BY <1>5, Associative
  <2> QED BY <2>1 DEF Associates
<1> HIDE DEF br, rw
<1>9. (a \o br) \o w = a \o (br \o w)
  <2>1. a \in Seq(Unit) /\ br \in Seq(Unit) BY <1>5, <1>7
  <2>2. Associates(a, br, w) BY <2>1, Associative
  <2> QED BY <2>2 DEF Associates
<1>10. h[n] = a \o (b \o rw) BY <1>4, <1>6, <1>8, <1>9 DEF br
<1> QED BY <1>7, <1>10 DEF a, b

\* The parts of what the wire shows, to the right.
Regroups(a, b, v, c, y) ==
    ((a \o (b \o v)) \o c) \o y = a \o (b \o (v \o (c \o y)))

LEMMA AllRegrouped ==
    ASSUME NEW a \in Seq(Unit), NEW b \in Seq(Unit), NEW v \in Seq(Unit),
           NEW c \in Seq(Unit), NEW y \in Seq(Unit)
    PROVE  Regroups(a, b, v, c, y)
<1> DEFINE bv == b \o v
           cy == c \o y
           abv == a \o bv
<1>1. bv \in Seq(Unit) /\ cy \in Seq(Unit) BY ConcatProperties
<1>2. bv \o cy = b \o (v \o cy)
  <2> HIDE DEF cy
  <2>1. b \in Seq(Unit) /\ v \in Seq(Unit) /\ cy \in Seq(Unit) BY <1>1
  <2>2. Associates(b, v, cy) BY <2>1, Associative
  <2> QED BY <2>2 DEF Associates
<1> HIDE DEF bv, cy
<1>3. abv \in Seq(Unit) BY <1>1, ConcatProperties
<1>4. abv \o cy = a \o (bv \o cy)
  <2>1. a \in Seq(Unit) /\ bv \in Seq(Unit) /\ cy \in Seq(Unit) BY <1>1
  <2>2. Associates(a, bv, cy) BY <2>1, Associative
  <2> QED BY <2>2 DEF Associates
<1> HIDE DEF abv
<1>5. (abv \o c) \o y = abv \o (c \o y)
  <2>1. abv \in Seq(Unit) /\ c \in Seq(Unit) /\ y \in Seq(Unit) BY <1>3
  <2>2. Associates(abv, c, y) BY <2>1, Associative
  <2> QED BY <2>2 DEF Associates
<1>6. ((a \o (b \o v)) \o c) \o y = a \o (b \o (v \o (c \o y)))
  BY <1>2, <1>4, <1>5 DEF abv, bv, cy
<1> QED BY <1>6 DEF Regroups

\* A read has three units at most, the longest size there is.
Short(cs) == \A j \in 1..Len(cs) : Len(cs[j]) \in 0..3

\* Two readings of one answer agree: d, whose last line break is still to come, and s.
LEMMA Decoded ==
    ASSUME NEW d \in Seq(Seq(Unit)), NEW s \in Seq(Seq(Unit)), NEW y \in Seq(Unit)
    PROVE  d # <<>> /\ Short(d) /\ Short(s) /\ Upto(Chunks(d), Len(Chunks(d)) - 2) \o y = Chunks(s)
              => IsPrefix(d, s)
<1> DEFINE n == Len(d)
           l == Len(s)
           cut == Chunks(d)
           u == Upto(cut, Len(cut) - 2)
           all == Chunks(s)
<1>a. SUFFICES ASSUME d # <<>>, Short(d), Short(s), u \o y = all
               PROVE  IsPrefix(d, s)
  OBVIOUS
<1>0. u \o y = all BY <1>a
<1>1. /\ n \in Nat /\ n # 0 /\ l \in Nat
      /\ d \in [1..n -> Seq(Unit)] /\ s \in [1..l -> Seq(Unit)]
      /\ \A j \in 1..n : d[j] \in Seq(Unit) /\ Len(d[j]) \in 0..3
      /\ \A j \in 1..l : s[j] \in Seq(Unit) /\ Len(s[j]) \in 0..3
  <2>1. n \in Nat /\ l \in Nat /\ d \in [1..n -> Seq(Unit)] /\ s \in [1..l -> Seq(Unit)]
    BY LenProperties
  <2>2. n # 0 BY <1>a, EmptySeq
  <2> QED BY <1>a, <2>1, <2>2 DEF Short
<1>2. PICK h \in [0..n -> Seq(Unit)] :
         /\ h[0] = <<>>
         /\ \A k \in 1..n : h[k] = h[k - 1] \o Chunk(d[k])
         /\ cut = h[n]
  BY ChunkSteps
<1>3. PICK g \in [0..l -> Seq(Unit)] :
         /\ g[0] = <<>>
         /\ \A k \in 1..l : g[k] = g[k - 1] \o Chunk(s[k])
         /\ all = g[l]
  BY ChunkSteps
<1> HIDE DEF n, l, cut, all, u
<1>4. u = h[n - 1] \o Begin(d[n]) /\ u \in Seq(Unit)
  <2> DEFINE a == h[n - 1]
             b == Begin(d[n])
             r == CRLF
             x == a \o b
  <2>1. n \in 1..n /\ n - 1 \in 0..n BY <1>1
  <2>2. a \in Seq(Unit) /\ b \in Seq(Unit) /\ r \in Seq(Unit) /\ Len(r) = 2
    BY <1>1, <2>1, BeginType, Marks
  <2>3. cut = a \o (b \o r)
    <3>1. Chunk(d[n]) = b \o r BY <1>1, <2>1, BeginType
    <3> QED BY <1>2, <2>1, <3>1
  <2> HIDE DEF a, b, r
  <2>4. a \o (b \o r) = (a \o b) \o r
    <3>1. a \in Seq(Unit) /\ b \in Seq(Unit) /\ r \in Seq(Unit) BY <2>2
    <3>2. Associates(a, b, r) BY <3>1, Associative
    <3> QED BY <3>2 DEF Associates
  <2>5. x \in Seq(Unit) BY <2>2, ConcatProperties
  <2>6. cut = x \o r BY <2>3, <2>4
  <2> HIDE DEF x
  <2>7. Len(cut) = Len(x) + 2 /\ Len(x) \in Nat
    <3>1. Len(x \o r) = Len(x) + Len(r) BY <2>2, <2>5, ConcatProperties
    <3>2. Len(x) \in Nat BY <2>5, LenProperties
    <3> QED BY <2>2, <2>6, <3>1, <3>2
  <2>8. Len(cut) - 2 = Len(x) BY <2>7
  <2>9. Upto(x \o r, Len(x)) = x BY <2>2, <2>5, PartsOfConcat
  <2>10. u = x BY <2>6, <2>8, <2>9 DEF u
  <2> QED BY <2>5, <2>10 DEF x, a, b
<1>5. ASSUME NEW k \in 1..n
      PROVE  \E v \in Seq(Unit) : all = h[k - 1] \o (Begin(d[k]) \o v)
  <2> DEFINE a == h[k - 1]
             b == Begin(d[k])
  <2>1. a \in Seq(Unit) /\ b \in Seq(Unit)
    <3>1. k - 1 \in 0..n BY <1>1
    <3> QED BY <1>1, <3>1, BeginType
  <2>2. CASE k = n
    <3>1. u = a \o b BY <1>4, <2>2
    <3> HIDE DEF a, b
    <3>2. (a \o b) \o y = a \o (b \o y)
      <4>1. a \in Seq(Unit) /\ b \in Seq(Unit) /\ y \in Seq(Unit) BY <2>1
      <4>2. Associates(a, b, y) BY <4>1, Associative
      <4> QED BY <4>2 DEF Associates
    <3> QED BY <1>0, <3>1, <3>2 DEF a, b
  <2>3. CASE k # n
    <3>1. n - 1 \in Nat /\ k \in 1..(n - 1) BY <1>1, <2>3
    <3> DEFINE m == n - 1
               e == [j \in 1..m |-> d[j]]
               f == [j \in 0..m |-> h[j]]
    <3>2. \A j \in 1..m : j \in 1..n /\ j \in 0..m /\ j - 1 \in 0..m /\ j - 1 \in 0..n
      BY <1>1, <3>1
    <3>3. \A j \in 0..m : j \in 0..n BY <1>1, <3>1
    <3>4. e \in [1..m -> Seq(Unit)] /\ f \in [0..m -> Seq(Unit)] BY <1>1, <3>2, <3>3
    <3>5. \A j \in 1..m : f[j] = f[j - 1] \o Chunk(e[j])
      <4>1. \A j \in 1..m : f[j] = h[j] /\ f[j - 1] = h[j - 1] /\ e[j] = d[j] BY <3>2
      <4> QED BY <1>2, <3>2, <4>1
    <3>6. f[k - 1] = a /\ Begin(e[k]) = b /\ f[m] = h[n - 1]
      <4>1. k - 1 \in 0..m /\ m \in 0..m BY <3>1, <3>2
      <4> QED BY <3>1, <4>1
    <3> HIDE DEF e, f
    <3>7. \E v \in Seq(Unit) : f[m] = f[k - 1] \o (Begin(e[k]) \o v)
      BY <3>1, <3>4, <3>5, ChunkPlaces
    <3> HIDE DEF m, a, b
    <3>8. PICK v \in Seq(Unit) : h[n - 1] = a \o (b \o v) BY <3>6, <3>7
    <3> DEFINE c == Begin(d[n])
               z == v \o (c \o y)
    <3>9. c \in Seq(Unit) BY <1>1, BeginType
    <3>10. all = ((a \o (b \o v)) \o c) \o y
      <4>1. u = (a \o (b \o v)) \o c BY <1>4, <3>8
      <4> HIDE DEF c
      <4> QED BY <1>0, <4>1
    <3> HIDE DEF c
    <3>11. c \o y \in Seq(Unit) BY <3>9, ConcatProperties
    <3>12. z \in Seq(Unit) BY <3>11, ConcatProperties
    <3>13. ((a \o (b \o v)) \o c) \o y = a \o (b \o (v \o (c \o y)))
      <4>1. a \in Seq(Unit) /\ b \in Seq(Unit) /\ v \in Seq(Unit) BY <2>1, <3>8
      <4>2. c \in Seq(Unit) /\ y \in Seq(Unit) BY <3>9
      <4>3. Regroups(a, b, v, c, y) BY <4>1, <4>2, AllRegrouped, Zenon
      <4> QED BY <4>3 DEF Regroups
    <3>14. all = a \o (b \o z) BY <3>10, <3>13
    <3> QED BY <3>12, <3>14 DEF a, b
  <2> QED BY <2>2, <2>3
<1>6. ASSUME NEW k \in 1..l
      PROVE  \E v \in Seq(Unit) : all = g[k - 1] \o (Begin(s[k]) \o v)
  <2>1. \E v \in Seq(Unit) : g[l] = g[k - 1] \o (Begin(s[k]) \o v)
    BY <1>1, <1>3, ChunkPlaces
  <2> QED BY <1>3, <2>1
<1> DEFINE Same(k) == k <= l /\ h[k] = g[k] /\ \A j \in 1..k : d[j] = s[j]
           S == {k \in 0..n : Same(k)}
<1>7. ASSUME NEW k \in 1..n, Same(k - 1) PROVE Same(k)
  <2>1. k - 1 \in 0..n /\ k - 1 <= l /\ h[k - 1] = g[k - 1] /\ \A j \in 1..(k - 1) : d[j] = s[j]
    BY <1>1, <1>7
  <2> DEFINE a == h[k - 1]
             b == Begin(d[k])
  <2>2. PICK v \in Seq(Unit) : all = a \o (b \o v) BY <1>5
  <2>3. a \in Seq(Unit) /\ b \in Seq(Unit) /\ Len(b) >= 3 /\ Len(b) \in Nat
    BY <1>1, <2>1, BeginType
  <2> HIDE DEF a, b
  <2>4. b \o v \in Seq(Unit) BY <2>3, ConcatProperties
  <2>5. CASE k - 1 = l
    <3>1. all = a BY <1>3, <2>1, <2>5 DEF a
    <3> DEFINE bv == b \o v
    <3>2. bv \in Seq(Unit) /\ a \o bv = a BY <2>2, <2>4, <3>1
    <3> HIDE DEF bv
    <3>3. bv = <<>> BY <2>3, <3>2, ConcatEqualIffEmpty
    <3>4. b = <<>> BY <2>3, <3>3, ConcatEqualIffEmpty DEF bv
    <3> QED BY <2>3, <3>4, EmptySeq
  <2>6. CASE k - 1 # l
    <3>1. k \in 1..l /\ k <= l BY <1>1, <2>1, <2>6
    <3> DEFINE c == Begin(s[k])
    <3>2. PICK w \in Seq(Unit) : all = a \o (c \o w) BY <1>6, <2>1, <3>1 DEF a
    <3>3. c \in Seq(Unit) BY <1>1, <3>1, BeginType
    <3> HIDE DEF c
    <3>4. b \o v = c \o w
      <4> DEFINE bv == b \o v
                 cw == c \o w
      <4>1. bv \in Seq(Unit) /\ cw \in Seq(Unit) BY <2>4, <3>3, ConcatProperties
      <4>2. a \o bv = a \o cw BY <2>2, <3>2
      <4> HIDE DEF bv, cw
      <4>3. bv = cw BY <2>3, <4>1, <4>2, SameParts
      <4> QED BY <4>3 DEF bv, cw
    <3>5. d[k] = s[k]
      <4>1. /\ d[k] \in Seq(Unit) /\ s[k] \in Seq(Unit)
            /\ Len(d[k]) \in 0..3 /\ Len(s[k]) \in 0..3
        BY <1>1, <3>1
      <4>2. Begin(d[k]) \o v = Begin(s[k]) \o w BY <3>4 DEF b, c
      <4> QED BY <4>1, <4>2, SameChunk
    <3>6. h[k] = h[k - 1] \o Chunk(d[k]) /\ g[k] = g[k - 1] \o Chunk(s[k])
      BY <1>2, <1>3, <3>1
    <3>7. h[k] = g[k] BY <2>1, <3>5, <3>6
    <3>8. \A j \in 1..k : j = k \/ j \in 1..(k - 1) OBVIOUS
    <3> QED BY <2>1, <3>1, <3>5, <3>7, <3>8
  <2> QED BY <2>5, <2>6
<1>8. 0 \in S
  <2>1. 0 \in 0..n /\ 0 <= l /\ 1..0 = {} BY <1>1
  <2> QED BY <1>2, <1>3, <2>1
<1>9. \A k \in 1..n : k - 1 \in S => k \in S
  <2> HIDE DEF Same
  <2>1. \A k \in 1..n : k \in 0..n BY <1>1
  <2> QED BY <1>7, <2>1
<1> HIDE DEF S
<1>10. \A k \in 0..n : k \in S BY <1>1, <1>8, <1>9, UptoInduction
<1>11. n \in S BY <1>1, <1>10
<1>12. n <= l /\ \A j \in 1..n : d[j] = s[j] BY <1>11 DEF S
<1>13. SubSeq(d, 1, n) = d BY SubSeqFull DEF n
<1>14. SubSeq(s, 1, n) = d
  <2> DEFINE p == SubSeq(s, 1, n)
  <2>1. \A i \in 1..n : s[i] \in Seq(Unit) BY <1>1, <1>12
  <2>2. p \in Seq(Seq(Unit)) /\ Len(p) = n /\ \A i \in 1..n : p[i] = s[i]
    <3>1. 1 \in Int /\ n \in Int /\ 1 <= n BY <1>1
    <3>2. /\ p \in Seq(Seq(Unit))
          /\ Len(p) = IF 1 <= n THEN n - 1 + 1 ELSE 0
          /\ \A i \in 1..(n - 1 + 1) : p[i] = s[1 + i - 1]
      BY <2>1, <3>1, SubSeqProperties
    <3> HIDE DEF p
    <3>3. n - 1 + 1 = n /\ \A i \in 1..n : 1 + i - 1 = i BY <1>1
    <3> QED BY <3>1, <3>2, <3>3
  <2> HIDE DEF p
  <2>3. \A i \in 1..Len(p) : p[i] = d[i] BY <1>12, <2>2
  <2>4. p = d BY <2>2, <2>3, SeqEqual DEF n
  <2> QED BY <2>4 DEF p
<1>15. Len(d) <= Len(s) /\ SubSeq(d, 1, Len(d)) = SubSeq(s, 1, Len(d))
  BY <1>12, <1>13, <1>14 DEF n, l
<1> QED BY <1>15 DEF IsPrefix

\* What is yielded is one more read of three units at most.
LEMMA TakeChunkYields ==
    ASSUME HttpTypes, NEW size \in 0..3, NEW units \in Seq(Unit), TakeChunk(size, units)
    PROVE  /\ delivered' = delivered \/ clientAt' = "yield"
           /\ Short(delivered) => Short(delivered')
<1>1. CASE size > Len(units)
  <2>1. delivered' = delivered BY <1>1 DEF TakeChunk
  <2> QED BY <2>1 DEF Short
<1>2. CASE ~(size > Len(units))
  <2> DEFINE p == Upto(units, size)
  <2>1. clientAt' = "yield" /\ delivered' = Append(delivered, p) BY <1>2 DEF TakeChunk, Yield, Goto
  <2>2. p \in Seq(Unit) /\ Len(p) = size
    <3>1. Len(units) \in Nat BY LenProperties
    <3>2. size \in Nat /\ size <= Len(units) BY <1>2, <3>1
    <3> QED BY <3>2, Parts
  <2> HIDE DEF p
  <2>3. delivered \in Seq(Seq(Unit)) /\ Len(delivered) \in Nat BY LenProperties DEF HttpTypes
  <2> DEFINE d == delivered
             e == Append(d, p)
  <2>4. Len(e) = Len(d) + 1 /\ e[Len(d) + 1] = p /\ \A j \in 1..Len(d) : e[j] = d[j]
    BY <2>2, <2>3, AppendProperties
  <2>5. Short(d) => Short(e)
    <3> HIDE DEF e
    <3>1. \A j \in 1..Len(e) : j = Len(d) + 1 \/ j \in 1..Len(d) BY <2>3, <2>4
    <3> QED BY <2>2, <2>4, <3>1 DEF Short
  <2> QED BY <2>1, <2>5
<1> QED BY <1>1, <1>2

\* A step leaves what was yielded, or takes a chunk.
LEMMA StepTakes ==
    HttpInv /\ [Next]_vars =>
        \/ delivered' = delivered /\ sse' = sse
        \/ \E size \in 0..3 : \E units \in Seq(Unit) : TakeChunk(size, units)
<1> DEFINE G == \/ delivered' = delivered /\ sse' = sse
                \/ \E size \in 0..3 : \E units \in Seq(Unit) : TakeChunk(size, units)
<1> SUFFICES ASSUME HttpInv, [Next]_vars PROVE G OBVIOUS
<1>1. HttpTypes BY DEF HttpInv
<1>2. ASSUME delivered' = delivered /\ sse' = sse PROVE G BY <1>2
<1>3. CASE Server \/ ServerHangsUp \/ UNCHANGED vars
  BY <1>2, <1>3 DEF Server, Accept, ServerReceives, ServerSends, ServerHangsUp, vars, clientVars
<1>4. CASE SendRequest \/ ReceiveHeaders \/ ReceiveRemainder \/ Resumed
  BY <1>2, <1>4 DEF SendRequest, ReceiveHeaders, ReceiveRemainder, Resumed, ReadsChunks
<1>5. CASE StreamRead
  <2> DEFINE n == IF clientAt = "body" THEN chunkSize - Len(data) ELSE BufSize
  <2>1. PICK r \in Receivable("client", n, exchange.tls) :
           /\ Recv("client", r)
           /\ CASE r.got = <<>> /\ clientAt = "chunk" -> Goto("done", data) /\ ReadsChunks
                [] r.got = <<>> /\ clientAt # "chunk" -> Raise /\ ReadsChunks
                [] r.got # <<>> /\ clientAt \in {"chunk", "size"} -> TakeSize(data \o r.got)
                [] r.got # <<>> /\ clientAt = "body" -> TakeChunk(chunkSize, data \o r.got)
                [] OTHER -> TakeTerminator(data \o r.got) /\ ReadsChunks
    BY <1>5 DEF StreamRead
  <2> DEFINE all == data \o r.got
  <2>2. n \in Nat \ {0}
    <3>1. CASE clientAt = "body"
      <4>1. Len(data) < chunkSize BY <3>1 DEF HttpInv, StreamNext, Streaming
      <4>2. Len(data) \in Nat /\ chunkSize \in 0..3
        BY <1>1, LenProperties DEF HttpTypes, TypeOK
      <4> QED BY <3>1, <4>1, <4>2
    <3> QED BY <3>1, SocketAssumption
  <2> HIDE DEF n
  <2>3. r.got \in Seq(Unit) /\ all \in Seq(Unit)
    BY <1>1, <1>5, <2>1, <2>2, ClientReceives DEF StreamRead, serverVars
  <2>4. data \in Seq(Unit) /\ chunkSize \in 0..3 BY <1>1 DEF HttpTypes, TypeOK
  <2>5. CASE ReadsChunks BY <1>2, <2>5 DEF ReadsChunks
  <2>6. CASE TakeChunk(chunkSize, all)
    <3> HIDE DEF all
    <3> QED BY <2>3, <2>4, <2>6
  <2>7. CASE r.got # <<>> /\ TakeSize(all) /\ ~ReadsChunks
    <3>1. all # <<>> BY <2>3, <2>4, <2>7, ConcatEqualIffEmpty
    <3> HIDE DEF all
    <3> DEFINE i == CrlfAt(all)
               line == Upto(all, i - 1)
    <3>2. i = 2 /\ line[1] \in DOMAIN Size /\ TakeChunk(Size[line[1]], Beyond(all, i + 1))
      <4>1. TakeSize(all) /\ ~ReadsChunks BY <2>7
      <4>2. /\ ~(i = 0) /\ ~(i = 1) /\ ~(i > 1 /\ ~(i = 2 /\ line[1] \in DOMAIN Size))
            /\ TakeChunk(Size[line[1]], Beyond(all, i + 1))
        <5> HIDE DEF i, line
        <5>1. TakeSize(all) =>
                 CASE i = 0 -> Goto("size", all) /\ ReadsChunks
                   [] i = 1 -> Goto("done", all) /\ ReadsChunks
                   [] i > 1 /\ ~(i = 2 /\ line[1] \in DOMAIN Size) -> Raise /\ ReadsChunks
                   [] OTHER -> TakeChunk(Size[line[1]], Beyond(all, i + 1))
          BY DEF TakeSize, i, line
        <5> QED BY <4>1, <5>1
      <4>3. i = 0 \/ i = 1 \/ i > 1 BY <2>3, <3>1, CrlfPlace DEF i
      <4> QED BY <4>2, <4>3
    <3>3. line[1] = all[1] /\ Beyond(all, 3) \in Seq(Unit)
      <4>1. CrlfAt(all) = 2 /\ i + 1 = 3 /\ i - 1 = 1 BY <3>2
      <4>2. Upto(all, 1)[1] = all[1] /\ Beyond(all, 3) \in Seq(Unit)
        BY <2>3, <3>1, <4>1, SizeLineEnds
      <4> QED BY <4>1, <4>2
    <3>4. Size[line[1]] \in 0..3 BY <3>2, <3>3, SizeIsRead
    <3>5. i + 1 = 3 BY <3>2
    <3> HIDE DEF i, line
    <3> QED BY <3>2, <3>3, <3>4, <3>5
  <2> QED BY <1>5, <2>1, <2>5, <2>6, <2>7 DEF all, StreamRead
<1> QED BY <1>3, <1>4, <1>5 DEF Next, Client

\* Only a step that ends at a yield delivers, and what it delivers is short enough for a
\* size.
LEMMA StepYields ==
    HttpInv /\ [Next]_vars =>
        /\ delivered' = delivered \/ clientAt' = "yield"
        /\ Short(delivered) => Short(delivered')
<1> SUFFICES ASSUME HttpInv, [Next]_vars
             PROVE  /\ delivered' = delivered \/ clientAt' = "yield"
                    /\ Short(delivered) => Short(delivered')
  OBVIOUS
<1>1. HttpTypes BY DEF HttpInv
<1>2. CASE delivered' = delivered BY <1>2 DEF Short
<1>3. CASE \E size \in 0..3 : \E units \in Seq(Unit) : TakeChunk(size, units)
  BY <1>1, <1>3, TakeChunkYields
<1> QED BY <1>2, <1>3, StepTakes

\* At a yield all that was taken begins the body, and so the chunks are those of the body.
LEMMA YieldedAsSent ==
    HttpInv /\ Short(delivered) /\ clientAt = "yield" /\ exchange.framing = "chunked"
       => IsPrefix(delivered, Sent)
<1> SUFFICES ASSUME HttpInv, Short(delivered), clientAt = "yield", exchange.framing = "chunked"
             PROVE  IsPrefix(delivered, Sent)
  OBVIOUS
<1> DEFINE he == <<"head", "end">>
           t == Taken
           x == data \o Coming
<1>1. Whole /\ delivered # <<>> /\ t = Upto(Chunks(delivered), Len(Chunks(delivered)) - 2)
  BY DEF HttpInv, StreamNext, Streaming, Taken
<1>2. delivered \in Seq(Seq(Unit)) /\ data \in Seq(Unit) BY DEF HttpInv, HttpTypes
<1>3. t \in Seq(Unit)
  <2>1. PICK s \in Seq(Seq(Unit)), e \in Seq(Unit) : delivered = Append(s, e)
    BY <1>1, <1>2, SequenceEmptyOrAppend
  <2> DEFINE w == <<SizeLine(Len(e))>> \o CRLF \o e
  <2>2. t = Chunks(s) \o w BY <1>1, <2>1, BeforeLastBreak
  <2>3. Chunks(s) \in Seq(Unit) /\ w \in Seq(Unit) BY ChunksType, ChunkType
  <2> HIDE DEF w, t
  <2> QED BY <2>2, <2>3, ConcatProperties
<1>4. x \in Seq(Unit)
  <2> DEFINE d == decrypted["client"]
             a == arriving["client"]
             c == Coming
  <2>1. d \in Seq(Unit) /\ a \in Seq(Unit) /\ unsent \in Seq(Unit) BY DEF HttpInv, HttpTypes
  <2>2. c = d \o (a \o unsent) BY DEF Coming
  <2> HIDE DEF d, a, c
  <2>3. a \o unsent \in Seq(Unit) BY <2>1, ConcatProperties
  <2>4. c \in Seq(Unit) BY <2>1, <2>2, <2>3, ConcatProperties
  <2>5. data \o c \in Seq(Unit) BY <1>2, <2>4, ConcatProperties
  <2> QED BY <2>5 DEF c
<1>5. Sent \in Seq(Seq(Unit)) /\ Short(Sent)
  <2> DEFINE m == exchange.chunks
  <2>1. m \in Seq(Seq(Unit)) /\ \A j \in DOMAIN m : Len(m[j]) \in 0..3
    BY AnswerType, ExchangeAssumption DEF HttpInv, HttpTypes
  <2>2. <<>> \in Seq(Unit) /\ Len(<<>>) = 0 BY EmptySeq
  <2>3. DOMAIN m = 1..Len(m) /\ Len(m) \in Nat BY <2>1, LenProperties
  <2> DEFINE s == Append(m, <<>>)
  <2>4. s \in Seq(Seq(Unit)) BY <2>1, <2>2, AppendProperties
  <2>5. Len(s) = Len(m) + 1 /\ s[Len(m) + 1] = <<>> /\ \A j \in 1..Len(m) : s[j] = m[j]
    BY <2>1, <2>2, AppendProperties
  <2>6. Short(s)
    <3> HIDE DEF s, m
    <3>1. \A j \in 1..Len(s) : j = Len(m) + 1 \/ j \in 1..Len(m) BY <2>3, <2>5
    <3> QED BY <2>1, <2>2, <2>3, <2>5, <3>1 DEF Short
  <2> QED BY <2>4, <2>6 DEF Sent
<1>6. Answer = he \o Chunks(Sent) BY DEF Answer
<1>7. (he \o t) \o x = he \o Chunks(Sent) BY <1>1, <1>6 DEF Whole
<1> DEFINE all == Chunks(Sent)
<1>8. he \in Seq(Unit) /\ all \in Seq(Unit) BY <1>5, Marks, ChunksType
<1> HIDE DEF he, t, x, all
<1>9. he \o (t \o x) = he \o all
  <2>1. (he \o t) \o x = he \o (t \o x)
    <3>1. he \in Seq(Unit) /\ t \in Seq(Unit) /\ x \in Seq(Unit) BY <1>3, <1>4, <1>8
    <3>2. Associates(he, t, x) BY <3>1, Associative
    <3> QED BY <3>2 DEF Associates
  <2> QED BY <1>7, <2>1 DEF all
<1>10. t \o x = all
  <2> DEFINE tx == t \o x
  <2>1. tx \in Seq(Unit) /\ he \o tx = he \o all BY <1>3, <1>4, <1>9, ConcatProperties
  <2> HIDE DEF tx
  <2>2. tx = all BY <1>8, <2>1, SameParts
  <2> QED BY <2>2 DEF tx
<1>11. Upto(Chunks(delivered), Len(Chunks(delivered)) - 2) \o x = Chunks(Sent)
  BY <1>1, <1>10 DEF all
<1> QED BY <1>1, <1>2, <1>4, <1>5, <1>11, Decoded

\* The chunks that a stream yields are those that the server has sent, each whole and in
\* their order, up to the end or the exception of the stream: http_client.py, _stream_read().
THEOREM StreamsYieldWhatWasSent == Spec => []ChunksAsSent
<1> DEFINE P == exchange.framing = "chunked" => IsPrefix(delivered, Sent)
           Q == clientAt = "yield" => P
           S == Short(delivered)
<1>1. Init => S /\ P
  <2> SUFFICES ASSUME Init PROVE S /\ P OBVIOUS
  <2>1. delivered = <<>> /\ HttpTypes BY HttpInit DEF Init, HttpInv
  <2>2. Len(<<>>) = 0 /\ 1..0 = {} BY EmptySeq
  <2>3. S BY <2>1, <2>2 DEF Short
  <2>4. exchange.chunks \in Seq(Seq(Unit)) BY <2>1, AnswerType DEF HttpTypes
  <2>5. Len(Sent) \in Nat
    <3>1. <<>> \in Seq(Unit) BY EmptySeq
    <3>2. Sent \in Seq(Seq(Unit)) BY <2>4, <3>1, AppendProperties DEF Sent
    <3> QED BY <3>2, LenProperties
  <2>6. SubSeq(<<>>, 1, 0) = SubSeq(Sent, 1, 0) BY SubSeqEmpty
  <2>7. IsPrefix(<<>>, Sent) BY <2>2, <2>5, <2>6 DEF IsPrefix
  <2> QED BY <2>1, <2>3, <2>7
<1>2. HttpInv /\ S /\ [Next]_vars => S' BY StepYields
<1>3. HttpInv /\ S => Q BY YieldedAsSent
<1>4. HttpInv /\ P /\ Q' /\ [Next]_vars => P'
  <2> SUFFICES ASSUME HttpInv, P, Q', [Next]_vars PROVE P' OBVIOUS
  <2>1. exchange' = exchange
    BY DEF Next, Server, Client, Accept, ServerReceives, ServerSends, ServerHangsUp, SendRequest,
           ReceiveHeaders, ReceiveRemainder, StreamRead, Resumed, vars
  <2>2. Sent' = Sent BY <2>1 DEF Sent
  <2>3. delivered' = delivered \/ clientAt' = "yield" BY StepYields
  <2> QED BY <2>1, <2>2, <2>3
<1>5. P => ChunksAsSent BY DEF ChunksAsSent
<1> HIDE DEF P, Q, S
<1> QED BY <1>1, <1>2, <1>3, <1>4, <1>5, HttpInvHolds, PTL DEF Spec

-----------------------------------------------------------------------------
(* The events of a stream, unit by unit.                                      *)

\* What one unit does to the context of a stream.
Takes(d, u) ==
    IF d.stopped \/ u # "sep"
      THEN [d EXCEPT !.buffer = Append(@, u)]
      ELSE Event([d EXCEPT !.buffer = <<>>], d.buffer)

\* The context after the units of s.
Ran(base, s) ==
    FoldLeft(LAMBDA d, u : IF d.stopped \/ u # "sep"
                             THEN [d EXCEPT !.buffer = Append(@, u)]
                             ELSE Event([d EXCEPT !.buffer = <<>>], d.buffer), base, s)

\* A context with what was received and has not ended yet, and not stopped.
Anew(c) == [c EXCEPT !.buffer = <<>>, !.stopped = FALSE]

\* it folds every subset of the positions of s, from the least one on.
Consumes(it, base, s) ==
    it = [S \in SUBSET DOMAIN s |->
            IF S = {} THEN base ELSE Takes(it[S \ {Max(S)}], s[Max(S)])]

\* h[k] is the context after the first k units.
Contexts(h, base, s) ==
    /\ h[0] = base
    /\ \A k \in 1..Len(s) : h[k] = Takes(h[k - 1], s[k])

\* A context has five parts.
Of(buffer, json, done, stopped, out) ==
    [buffer |-> buffer, json |-> json, done |-> done, stopped |-> stopped, out |-> out]

Context(d) ==
    /\ d = Of(d.buffer, d.json, d.done, d.stopped, d.out)
    /\ d.buffer \in Seq(Unit)
    /\ d.stopped \in BOOLEAN

Plain(s) == \A i \in 1..Len(s) : s[i] # "sep"

\* The end mark of an event stream is at i.
MarkAt(s, i) == s[i] = "[DONE]" /\ s[i + 1] = "sep"

\* No event ends after the end mark.
Ends(s) ==
    \A i \in 1..(Len(s) - 1) : MarkAt(s, i) => \A j \in (i + 2)..Len(s) : s[j] # "sep"

\* A fold over a sequence is what its definition says: such a function exists.
LEMMA ConsumesExists ==
    ASSUME NEW base, NEW s, NEW n \in Nat, DOMAIN s = 1..n
    PROVE  \E it : Consumes(it, base, s)
<1> DEFINE Is(it, m) ==
             it = [S \in SUBSET (1..m) |->
                     IF S = {} THEN base ELSE Takes(it[S \ {Max(S)}], s[Max(S)])]
           M == {m \in 0..n : \E it : Is(it, m)}
<1>1. 0 \in M
  <2> DEFINE it == [S \in SUBSET (1..0) |-> base]
  <2>1. \A S \in SUBSET (1..0) : S = {} OBVIOUS
  <2>2. Is(it, 0) BY <2>1, Zenon
  <2> HIDE DEF Is, it
  <2> QED BY <2>2
<1>2. ASSUME NEW m \in 1..n, m - 1 \in M PROVE m \in M
  <2>1. PICK it : Is(it, m - 1) BY <1>2
  <2> DEFINE jt == [S \in SUBSET (1..m) |->
                      IF m \in S THEN Takes(it[S \ {m}], s[m]) ELSE it[S]]
  <2>2. ASSUME NEW S \in SUBSET (1..m)
        PROVE  jt[S] = IF S = {} THEN base ELSE Takes(jt[S \ {Max(S)}], s[Max(S)])
    <3>0. /\ m \in Nat /\ S \in SUBSET (0..m)
          /\ \A i \in 1..m : i # m => i \in 1..(m - 1)
          /\ \A i \in 1..(m - 1) : i \in 1..m
      OBVIOUS
    <3> DEFINE g == Max(S)
               T == S \ {g}
    <3>1. S # {} => g \in S /\ \A y \in S : g >= y BY <3>0, MaxIsGreatest
    <3> HIDE DEF g
    <3>2. CASE m \in S
      <4>1. g \in 1..m /\ g >= m BY <3>1, <3>2
      <4>0. g = m BY <3>0, <4>1
      <4>2. T \in SUBSET (1..m) /\ m \notin T BY <4>0
      <4>3. jt[T] = it[T] BY <4>2
      <4>4. jt[S] = Takes(it[T], s[m]) BY <3>2, <4>0
      <4> QED BY <3>2, <4>0, <4>3, <4>4 DEF g
    <3>3. CASE m \notin S
      <4>1. S \in SUBSET (1..(m - 1)) BY <3>0, <3>3
      <4>2. jt[S] = it[S] BY <3>3
      <4>3. T \in SUBSET (1..m) /\ m \notin T BY <3>3
      <4>4. jt[T] = it[T] BY <4>3
      <4>5. it[S] = IF S = {} THEN base ELSE Takes(it[T], s[g])
        BY <2>1, <4>1 DEF g
      <4> QED BY <4>2, <4>4, <4>5 DEF g
    <3> QED BY <3>2, <3>3
  <2>3. Is(jt, m)
    <3>1. jt = [S \in SUBSET (1..m) |-> jt[S]] OBVIOUS
    <3> HIDE DEF jt
    <3> QED BY <2>2, <3>1
  <2> HIDE DEF Is, jt
  <2> QED BY <2>3
<1> HIDE DEF M
<1>3. n \in M
  <2>1. \A m \in 0..n : m \in M BY <1>1, <1>2, UptoInduction
  <2> QED BY <2>1
<1> QED BY <1>3 DEF M, Consumes

\* It starts with the base and takes one unit after the other.
LEMMA RanRuns ==
    ASSUME NEW base, NEW s \in Seq(Unit)
    PROVE  \E h : Contexts(h, base, s) /\ h[Len(s)] = Ran(base, s)
<1> DEFINE n == Len(s)
           b0 == base
           Op(d, u) == IF d.stopped \/ u # "sep"
                         THEN [d EXCEPT !.buffer = Append(@, u)]
                         ELSE Event([d EXCEPT !.buffer = <<>>], d.buffer)
           Is(f) == f = [S \in SUBSET DOMAIN s |->
                           IF S = {} THEN b0 ELSE Op(f[S \ {Max(S)}], s[Max(S)])]
           it == CHOOSE f : Is(f)
           h == [k \in 0..n |-> it[1..k]]
<1>0. n \in Nat /\ DOMAIN s = 1..n BY LenProperties
<1>1. Ran(base, s) = it[DOMAIN s] BY Zenon DEF Ran, FoldLeft, MapThenFoldSet
<1>2. Consumes(it, b0, s)
  <2>1. \A d, u : Takes(d, u) = Op(d, u) BY DEF Takes
  <2>2. \A f : Is(f) <=> Consumes(f, b0, s)
    <3> HIDE DEF Op
    <3> QED BY <2>1, Zenon DEF Consumes
  <2>3. \E f : Consumes(f, b0, s)
    <3> HIDE DEF b0, n
    <3> QED BY <1>0, ConsumesExists
  <2>4. Is(it)
    <3> HIDE DEF Is
    <3> QED BY <2>2, <2>3, Zenon
  <2> HIDE DEF Is, it
  <2> QED BY <2>2, <2>4, Zenon
<1> HIDE DEF n, it, Is, Op, b0
<1>3. \A k \in 0..n : 1..k \in SUBSET DOMAIN s BY <1>0
<1>4. h[0] = base
  <2>1. 0 \in 0..n /\ 1..0 = {} BY <1>0
  <2> QED BY <1>2, <1>3, <2>1 DEF Consumes, b0
<1>5. ASSUME NEW k \in 1..n PROVE h[k] = Takes(h[k - 1], s[k])
  <2>0. /\ k \in 0..n /\ k - 1 \in 0..n /\ k \in Nat /\ k \in 1..k
        /\ \A y \in 1..k : y <= k /\ y \in 0..k
    BY <1>0
  <2>1. 1..k \in SUBSET (0..k) /\ 1..k # {} BY <2>0
  <2> DEFINE g == Max(1..k)
  <2>2. g \in 1..k /\ \A y \in 1..k : g >= y BY <2>0, <2>1, MaxIsGreatest
  <2>3. g = k
    <3> HIDE DEF g
    <3> QED BY <2>0, <2>2
  <2>4. (1..k) \ {k} = 1..(k - 1) BY <2>0
  <2>5. it[1..k] = Takes(it[(1..k) \ {g}], s[g]) BY <1>2, <1>3, <2>0, <2>1 DEF Consumes
  <2> HIDE DEF g
  <2> QED BY <2>0, <2>3, <2>4, <2>5
<1>6. h[n] = it[DOMAIN s]
  <2>1. n \in 0..n BY <1>0
  <2> QED BY <1>0, <2>1
<1> HIDE DEF h
<1>7. Contexts(h, base, s) /\ h[Len(s)] = Ran(base, s) BY <1>1, <1>4, <1>5, <1>6 DEF Contexts, n
<1> QED BY <1>7

SameUpto(s, t, n) == \A k \in 1..n : s[k] = t[k]

\* The units determine the contexts.
LEMMA ContextsAgree ==
    ASSUME NEW base, NEW s \in Seq(Unit), NEW t \in Seq(Unit), NEW n \in Nat,
           n <= Len(s), n <= Len(t), SameUpto(s, t, n),
           NEW h, NEW g, Contexts(h, base, s), Contexts(g, base, t)
    PROVE  h[n] = g[n]
<1> DEFINE S == {k \in 0..n : h[k] = g[k]}
<1>1. Len(s) \in Nat /\ Len(t) \in Nat BY LenProperties
<1>2. 0 \in S BY DEF Contexts
<1>3. ASSUME NEW k \in 1..n, k - 1 \in S PROVE k \in S
  <2>1. k \in 1..Len(s) /\ k \in 1..Len(t) /\ k \in 0..n BY <1>1
  <2> QED BY <1>3, <2>1 DEF Contexts, SameUpto
<1> HIDE DEF S
<1>4. \A k \in 0..n : k \in S BY <1>2, <1>3, UptoInduction
<1> QED BY <1>4 DEF S

\* What is received in two parts is as what is received at once.
LEMMA RanConcat ==
    ASSUME NEW base, NEW s \in Seq(Unit), NEW t \in Seq(Unit)
    PROVE  Ran(base, s \o t) = Ran(Ran(base, s), t)
<1> DEFINE n == Len(s)
           m == Len(t)
           u == s \o t
<1>1. /\ n \in Nat /\ m \in Nat /\ u \in Seq(Unit) /\ Len(u) = n + m
      /\ \A k \in 1..n : u[k] = s[k]
      /\ \A k \in 1..m : u[n + k] = t[k]
  <2>1. n \in Nat /\ m \in Nat /\ u \in Seq(Unit) /\ Len(u) = n + m
    BY LenProperties, ConcatProperties
  <2>2. \A k \in 1..n : u[k] = s[k] BY ConcatFirst
  <2>3. ASSUME NEW k \in 1..m PROVE u[n + k] = t[k]
    <3> DEFINE j == n + k
    <3>1. j \in 1..n + m /\ ~(j <= n) /\ j - n = k BY <2>1
    <3> HIDE DEF j
    <3>2. u[j] = t[j - n] BY <3>1, ConcatProperties
    <3> QED BY <3>1, <3>2 DEF j
  <2> QED BY <2>1, <2>2, <2>3
<1> HIDE DEF u
<1>2. PICK h : Contexts(h, base, u) /\ h[Len(u)] = Ran(base, u) BY <1>1, RanRuns
<1>3. PICK g : Contexts(g, base, s) /\ g[n] = Ran(base, s) BY RanRuns
<1>4. h[n] = g[n]
  <2>1. n \in Nat /\ n <= Len(s) /\ n <= Len(u) BY <1>1
  <2>2. SameUpto(u, s, n) BY <1>1 DEF SameUpto
  <2>3. u \in Seq(Unit) BY <1>1
  <2>4. Contexts(h, base, u) /\ Contexts(g, base, s) BY <1>2, <1>3
  <2> HIDE DEF n
  <2> QED BY <2>1, <2>2, <2>3, <2>4, ContextsAgree
<1>5. PICK f : Contexts(f, g[n], t) /\ f[m] = Ran(g[n], t) BY RanRuns
<1> DEFINE e == [k \in 0..m |-> h[n + k]]
<1>6. Contexts(e, g[n], t)
  <2>1. e[0] = g[n] BY <1>1, <1>4
  <2>2. ASSUME NEW k \in 1..m PROVE e[k] = Takes(e[k - 1], t[k])
    <3>1. /\ k \in 0..m /\ k - 1 \in 0..m /\ n + k \in 1..Len(u)
          /\ n + k - 1 = n + (k - 1)
      BY <1>1
    <3>2. h[n + k] = Takes(h[n + k - 1], u[n + k]) BY <1>2, <3>1 DEF Contexts
    <3> QED BY <1>1, <3>1, <3>2
  <2> HIDE DEF e
  <2> QED BY <2>1, <2>2 DEF Contexts
<1>7. e[m] = f[m]
  <2> HIDE DEF e
  <2>1. m <= m /\ SameUpto(t, t, m) BY <1>1 DEF SameUpto
  <2> DEFINE b == g[n]
  <2>2. Contexts(e, b, t) /\ Contexts(f, b, t) BY <1>5, <1>6
  <2> HIDE DEF b
  <2> QED BY <1>1, <2>1, <2>2, ContextsAgree
<1>8. e[m] = h[n + m] BY <1>1
<1> QED BY <1>1, <1>2, <1>3, <1>5, <1>7, <1>8 DEF u

\* A record with the five parts is a context.
LEMMA ContextOf ==
    ASSUME NEW buffer \in Seq(Unit), NEW json, NEW done, NEW stopped \in BOOLEAN, NEW out
    PROVE  LET d == Of(buffer, json, done, stopped, out) IN
           Context(d) /\ d.buffer = buffer /\ d.stopped = stopped /\ d.out = out
<1> QED BY DEF Context, Of

\* One with nothing to end.
LEMMA EmptyContext ==
    ASSUME NEW json, NEW done, NEW stopped \in BOOLEAN, NEW out
    PROVE  LET d == Of(<<>>, json, done, stopped, out) IN
           Context(d) /\ d.buffer = <<>> /\ d.stopped = stopped
<1> DEFINE e == <<>>
<1>1. e \in Seq(Unit) BY EmptySeq
<1> HIDE DEF e
<1>2. LET d == Of(e, json, done, stopped, out) IN
      Context(d) /\ d.buffer = e /\ d.stopped = stopped
  BY <1>1, ContextOf
<1> QED BY <1>2 DEF e

\* FALSE as a value, for the provers.
No == FALSE

\* Beginning anew.
LEMMA AnewOf ==
    ASSUME NEW buffer, NEW json, NEW done, NEW stopped, NEW out
    PROVE  Anew(Of(buffer, json, done, stopped, out)) = Of(<<>>, json, done, No, out)
<1> DEFINE d == Of(buffer, json, done, stopped, out)
           e == <<>>
           f == [d EXCEPT !.buffer = e]
<1>1. f = Of(e, json, done, stopped, out) BY DEF Of
<1>2. [f EXCEPT !.stopped = No] = Of(e, json, done, No, out)
  <2> HIDE DEF e, f
  <2> QED BY <1>1 DEF Of
<1>3. Anew(d) = [f EXCEPT !.stopped = No] BY DEF Anew, No
<1> QED BY <1>2, <1>3

\* The beginning of a stream.
LEMMA Beginning ==
    /\ Context(NoEvents) /\ NoEvents.buffer = <<>> /\ ~NoEvents.stopped
    /\ Anew(NoEvents) = NoEvents
<1> DEFINE J == <<>>
           d == Of(<<>>, J, No, No, J)
<1>1. NoEvents = d BY DEF NoEvents, Of, No
<1>2. No \in BOOLEAN /\ ~No BY DEF No
<1>3. Context(d) /\ d.buffer = <<>> /\ d.stopped = No
  <2> HIDE DEF J
  <2> QED BY <1>2, EmptyContext
<1>4. Anew(d) = d
  <2> HIDE DEF J
  <2> QED BY AnewOf
<1> HIDE DEF d
<1> QED BY <1>1, <1>2, <1>3, <1>4

\* What one unit does to a context.
LEMMA TakesStep ==
    ASSUME NEW d, NEW u \in Unit, Context(d)
    PROVE  /\ Context(Takes(d, u))
           /\ d.stopped \/ u # "sep" => Takes(d, u) = [d EXCEPT !.buffer = Append(d.buffer, u)]
           /\ ~d.stopped /\ u = "sep" =>
                 /\ Takes(d, u).buffer = <<>>
                 /\ Takes(d, u).stopped => d.buffer = <<"[DONE]">>
<1>1. d = Of(d.buffer, d.json, d.done, d.stopped, d.out) BY DEF Context
<1>2. d.buffer \in Seq(Unit) /\ d.stopped \in BOOLEAN BY DEF Context
<1> DEFINE J == d.json
           D == d.done
           P == d.stopped
           O == d.out
           N == Append(d.buffer, u)
<1>5. <<>> \in Seq(Unit) /\ N \in Seq(Unit) BY <1>2, EmptySeq, AppendProperties
<1>6. /\ Context(Of(N, J, D, P, O)) /\ Context(Of(<<>>, J, D, P, O))
      /\ Of(<<>>, J, D, P, O).buffer = <<>> /\ Of(<<>>, J, D, P, O).stopped = P
  <2>1. P \in BOOLEAN BY <1>2
  <2> HIDE DEF J, D, P, O, N
  <2>2. Context(Of(N, J, D, P, O)) BY <1>5, <2>1, ContextOf
  <2> QED BY <2>1, <2>2, EmptyContext
<1>3. CASE d.stopped \/ u # "sep"
  <2>1. Takes(d, u) = [d EXCEPT !.buffer = Append(d.buffer, u)] BY <1>3 DEF Takes
  <2>2. [d EXCEPT !.buffer = Append(d.buffer, u)]
          = Of(Append(d.buffer, u), d.json, d.done, d.stopped, d.out)
    BY <1>1 DEF Of
  <2>4. Context(Takes(d, u)) BY <1>6, <2>1, <2>2, Zenon
  <2> QED BY <1>3, <2>1, <2>4
<1>4. CASE ~d.stopped /\ u = "sep"
  <2> DEFINE c == [d EXCEPT !.buffer = <<>>]
             v == d.buffer
             json == c.json \o v
             n == Len(json) \div 2
             x == Beyond(json, 2 * n)
             y == c.out \o [i \in 1..n |-> json[2 * i - 1]]
  <2>1. Takes(d, u) = Event(c, v) BY <1>4 DEF Takes
  <2>2. c = Of(<<>>, d.json, d.done, d.stopped, d.out) BY <1>1 DEF Of
  <2>4. CASE v = <<>> \/ v = <<"ping">>
    <3>1. Event(c, v) = c BY <2>4 DEF Event
    <3> HIDE DEF c, v
    <3>2. Takes(d, u) = Of(<<>>, d.json, d.done, d.stopped, d.out) BY <2>1, <2>2, <3>1
    <3>3. Context(Takes(d, u)) /\ Takes(d, u).buffer = <<>> /\ Takes(d, u).stopped = d.stopped
      BY <1>6, <3>2, Zenon
    <3> QED BY <1>4, <3>3
  <2>5. CASE v = <<"[DONE]">>
    <3>0. v # <<>> /\ v # <<"ping">> BY <2>5
    <3>1. Event(c, v) = [c EXCEPT !.done = TRUE, !.stopped = TRUE] BY <2>5, <3>0 DEF Event
    <3>2. Event(c, v) = Of(<<>>, d.json, TRUE, TRUE, d.out) BY <2>2, <3>1 DEF Of
    <3>3. Takes(d, u) = Of(<<>>, d.json, TRUE, TRUE, d.out) BY <2>1, <3>2
    <3>5. Context(Of(<<>>, J, TRUE, TRUE, O)) /\ Of(<<>>, J, TRUE, TRUE, O).buffer = <<>>
      <4> HIDE DEF J, O
      <4> QED BY EmptyContext
    <3>4. Context(Takes(d, u)) /\ Takes(d, u).buffer = <<>> BY <3>3, <3>5, Zenon
    <3> QED BY <1>4, <2>5, <3>4
  <2>6. CASE v # <<>> /\ v # <<"ping">> /\ v # <<"[DONE]">>
    <3> HIDE DEF c, v
    <3>1. Event(c, v) = [c EXCEPT !.json = x, !.out = y] BY <2>6 DEF Event
    <3> HIDE DEF x, y
    <3>2. Takes(d, u) = Of(<<>>, x, d.done, d.stopped, y) BY <2>1, <2>2, <3>1 DEF Of
    <3>3. Context(Takes(d, u)) /\ Takes(d, u).buffer = <<>> /\ Takes(d, u).stopped = d.stopped
      <4>1. Context(Of(<<>>, x, D, P, y)) /\ Of(<<>>, x, D, P, y).buffer = <<>>
            /\ Of(<<>>, x, D, P, y).stopped = P
        <5>1. P \in BOOLEAN BY <1>2
        <5> HIDE DEF D, P
        <5> HIDE DEF x, y
        <5> QED BY <5>1, EmptyContext
      <4> QED BY <3>2, <4>1, Zenon
    <3> QED BY <1>4, <3>3
  <2> QED BY <2>4, <2>5, <2>6
<1> QED BY <1>2, <1>3, <1>4

\* Units that end no event are kept, and so is everything behind the end mark.
LEMMA RanKeeps ==
    ASSUME NEW b, NEW s \in Seq(Unit), Context(b), b.stopped \/ Plain(s)
    PROVE  Ran(b, s) = [b EXCEPT !.buffer = b.buffer \o s]
<1> DEFINE n == Len(s)
           With(q) == [b EXCEPT !.buffer = q]
           part(k) == b.buffer \o SubSeq(s, 1, k)
           S(h) == {k \in 0..n : h[k] = With(part(k))}
<1>1. n \in Nat /\ b.buffer \in Seq(Unit) /\ b.stopped \in BOOLEAN BY LenProperties DEF Context
<1>2. PICK h : Contexts(h, b, s) /\ h[n] = Ran(b, s) BY RanRuns
<1>3. 0 \in S(h)
  <2>1. SubSeq(s, 1, 0) = <<>> BY SubSeqEmpty
  <2>2. part(0) = b.buffer BY <1>1, <2>1, ConcatEmptySeq
  <2>3. With(b.buffer) = b BY DEF Context, Of
  <2> HIDE DEF part, With
  <2> QED BY <1>1, <1>2, <2>2, <2>3 DEF Contexts
<1>4. ASSUME NEW k \in 1..n, k - 1 \in S(h) PROVE k \in S(h)
  <2> DEFINE q == part(k - 1)
             u == s[k]
  <2>1. u \in Unit BY ElementOfSeq
  <2>2. SubSeq(s, 1, k) = Append(SubSeq(s, 1, k - 1), u) /\ SubSeq(s, 1, k - 1) \in Seq(Unit)
    <3>1. 1 \in 1..Len(s) /\ k \in 1..Len(s) BY <1>1
    <3>2. SubSeq(s, 1, k) = Append(SubSeq(s, 1, k - 1), u) BY <3>1, SubSeqRecursiveSecond
    <3>3. k - 1 \in Int /\ 1 \in Int /\ \A i \in 1..(k - 1) : i \in 1..Len(s) BY <1>1
    <3>4. \A i \in 1..(k - 1) : s[i] \in Unit BY <3>3, ElementOfSeq
    <3>5. SubSeq(s, 1, k - 1) \in Seq(Unit) BY <3>3, <3>4, SubSeqProperties
    <3> QED BY <3>2, <3>5
  <2>3. q \in Seq(Unit) /\ part(k) = Append(q, u)
    <3> DEFINE w == SubSeq(s, 1, k - 1)
               a == b.buffer
    <3>1. a \in Seq(Unit) /\ w \in Seq(Unit) /\ <<u>> \in Seq(Unit) BY <1>1, <2>1, <2>2
    <3>2. part(k) = a \o Append(w, u) /\ q = a \o w BY <2>2
    <3> HIDE DEF u, w, a, q, part
    <3>3. q \in Seq(Unit) BY <3>1, <3>2, ConcatProperties
    <3>4. Append(w, u) = w \o <<u>> /\ Append(q, u) = q \o <<u>>
      BY <2>1, <3>1, <3>3, AppendIsConcat
    <3>5. Associates(a, w, <<u>>) BY <3>1, Associative
    <3> QED BY <3>2, <3>3, <3>4, <3>5 DEF Associates
  <2>4. h[k - 1] = With(q) BY <1>4
  <2>5. Context(With(q)) /\ With(q).stopped = b.stopped /\ With(q).buffer = q
    <3> HIDE DEF q
    <3>1. With(q) = Of(q, b.json, b.done, b.stopped, b.out) BY DEF Context, Of
    <3> HIDE DEF With
    <3> QED BY <1>1, <2>3, <3>1, ContextOf
  <2>6. h[k] = Takes(h[k - 1], u) BY <1>2 DEF Contexts
  <2>7. b.stopped \/ u # "sep" BY DEF Plain
  <2> HIDE DEF u, q, part
  <2>8. h[k] = [With(q) EXCEPT !.buffer = Append(q, u)]
    <3> HIDE DEF With
    <3> QED BY <2>1, <2>4, <2>5, <2>6, <2>7, TakesStep
  <2>9. [With(q) EXCEPT !.buffer = Append(q, u)] = With(Append(q, u)) BY DEF Context, Of
  <2>10. k \in 0..n BY <1>1
  <2> HIDE DEF With, n
  <2> QED BY <2>3, <2>8, <2>9, <2>10
<1> HIDE DEF S
<1>5. \A k \in 0..n : k \in S(h) BY <1>1, <1>3, <1>4, UptoInduction
<1>6. h[n] = With(part(n))
  <2> HIDE DEF With, part
  <2>1. n \in 0..n BY <1>1
  <2> QED BY <1>5, <2>1 DEF S
<1>7. SubSeq(s, 1, n) = s BY SubSeqFull
<1> QED BY <1>2, <1>6, <1>7

\* From the beginning of a stream, what is kept ends no event, and the context is stopped
\* when the end mark was among the units.
Marked(d, s, k) ==
    /\ Context(d) /\ Plain(d.buffer)
    /\ d.stopped => \E i \in 1..(k - 1) : MarkAt(s, i)
    /\ ~d.stopped /\ d.buffer # <<>> => k # 0 /\ d.buffer[Len(d.buffer)] = s[k]

\* After any units that end with the mark, a run from the beginning is as Marked says.
LEMMA RanMarks ==
    ASSUME NEW s \in Seq(Unit), Ends(s)
    PROVE  Marked(Ran(NoEvents, s), s, Len(s))
<1> DEFINE n == Len(s)
           S(h) == {k \in 0..n : Marked(h[k], s, k)}
<1>1. n \in Nat BY LenProperties
<1>2. PICK h : Contexts(h, NoEvents, s) /\ h[n] = Ran(NoEvents, s) BY RanRuns
<1>3. 0 \in S(h)
  <2>2. Context(NoEvents) /\ NoEvents.buffer = <<>> /\ ~NoEvents.stopped BY Beginning
  <2>3. Plain(<<>>) BY EmptySeq DEF Plain
  <2>4. h[0] = NoEvents BY <1>2 DEF Contexts
  <2>5. Marked(h[0], s, 0) BY <2>2, <2>3, <2>4 DEF Marked
  <2> QED BY <1>1, <2>5
<1>4. ASSUME NEW k \in 1..n, k - 1 \in S(h) PROVE k \in S(h)
  <2> DEFINE d == h[k - 1]
             u == s[k]
             e == h[k]
  <2>1. u \in Unit /\ k \in Nat /\ k # 0 BY ElementOfSeq
  <2>2. Marked(d, s, k - 1) BY <1>4
  <2>3. e = Takes(d, u) BY <1>2 DEF Contexts
  <2> HIDE DEF d, u, e, S
  <2>4. Context(d) /\ d.buffer \in Seq(Unit) /\ Plain(d.buffer) BY <2>2 DEF Marked, Context
  <2>5. /\ Context(e)
        /\ d.stopped \/ u # "sep" => e = [d EXCEPT !.buffer = Append(d.buffer, u)]
        /\ ~d.stopped /\ u = "sep" =>
              e.buffer = <<>> /\ (e.stopped => d.buffer = <<"[DONE]">>)
    BY <2>1, <2>3, <2>4, TakesStep
  <2>6. CASE d.stopped \/ u # "sep"
    <3> DEFINE b == d.buffer
               c == Append(b, u)
    <3>1. d.stopped => \E i \in 1..(k - 1 - 1) : MarkAt(s, i) BY <2>2 DEF Marked
    <3>2. u # "sep"
      <4>1. CASE d.stopped
        <5>1. PICK i \in 1..(k - 1 - 1) : MarkAt(s, i) BY <3>1, <4>1
        <5>2. i \in 1..(n - 1) /\ k \in (i + 2)..n BY <1>1
        <5> QED BY <5>1, <5>2 DEF Ends, u
      <4> QED BY <2>6, <4>1
    <3>3. c \in Seq(Unit) /\ Len(b) \in Nat /\ Len(c) = Len(b) + 1 /\ c[Len(b) + 1] = u
          /\ \A j \in 1..Len(b) : c[j] = b[j]
      BY <2>1, <2>4, LenProperties, AppendProperties
    <3>4. e.buffer = c /\ e.stopped = d.stopped
      <4>1. e = [d EXCEPT !.buffer = c] BY <2>5, <2>6
      <4> HIDE DEF c
      <4>2. d = Of(d.buffer, d.json, d.done, d.stopped, d.out) BY <2>4 DEF Context
      <4>3. e = Of(c, d.json, d.done, d.stopped, d.out) BY <4>1, <4>2 DEF Of
      <4> QED BY <4>3 DEF Of
    <3> HIDE DEF b, c
    <3>5. Plain(c)
      <4>1. Plain(b) BY <2>4 DEF b
      <4>2. \A j \in 1..Len(c) : j \in 1..Len(b) \/ j = Len(b) + 1 BY <3>3
      <4> QED BY <3>2, <3>3, <4>1, <4>2 DEF Plain
    <3>6. d.stopped => \E i \in 1..(k - 1) : MarkAt(s, i)
      <4>1. \A i \in 1..(k - 1 - 1) : i \in 1..(k - 1) BY <2>1
      <4> QED BY <3>1, <4>1
    <3>7. c[Len(c)] = s[k] BY <3>3 DEF u
    <3> QED BY <2>1, <2>5, <3>4, <3>5, <3>6, <3>7 DEF Marked, S, e
  <2>7. CASE ~d.stopped /\ u = "sep"
    <3>1. e.buffer = <<>> /\ Plain(<<>>) BY <2>5, <2>7, EmptySeq DEF Plain
    <3>2. ASSUME e.stopped PROVE \E i \in 1..(k - 1) : MarkAt(s, i)
      <4>1. d.buffer = <<"[DONE]">> BY <2>5, <2>7, <3>2
      <4>2. d.buffer # <<>> /\ Len(d.buffer) = 1 /\ d.buffer[1] = "[DONE]" BY <4>1
      <4>3. k - 1 # 0 /\ d.buffer[Len(d.buffer)] = s[k - 1] BY <2>2, <2>7, <4>2 DEF Marked
      <4>4. s[k - 1] = "[DONE]" BY <4>2, <4>3
      <4>5. k - 1 \in 1..(k - 1) /\ (k - 1) + 1 = k BY <2>1, <4>3
      <4>6. MarkAt(s, k - 1) BY <2>7, <4>4, <4>5 DEF MarkAt, u
      <4> QED BY <4>5, <4>6
    <3> QED BY <2>1, <2>5, <3>1, <3>2 DEF Marked, S, e
  <2> QED BY <2>4, <2>6, <2>7 DEF Context
<1> HIDE DEF S
<1>5. \A k \in 0..n : k \in S(h) BY <1>1, <1>3, <1>4, UptoInduction
<1>6. n \in 0..n BY <1>1
<1> QED BY <1>2, <1>5, <1>6 DEF S

-----------------------------------------------------------------------------
(* Chunk by chunk, or at once.                                                *)

\* The context has told what the units s tell at once, and is the same unless the end mark
\* was among them.
Told(c, s) ==
    LET w == Split(NoEvents, s) IN
    /\ Context(c) /\ Plain(c.buffer)
    /\ c.out = w.out
    /\ ~w.stopped => c = w

\* Split is a run from the context anew.
LEMMA SplitRuns ==
    ASSUME NEW c, NEW s
    PROVE  Split(c, s) = Ran(Anew(c), c.buffer \o s)
<1> QED BY Zenon DEF Split, Ran, Anew

\* The whole stream at once begins with nothing.
LEMMA AtOnce ==
    ASSUME NEW s \in Seq(Unit)
    PROVE  Split(NoEvents, s) = Ran(NoEvents, s)
<1>1. Anew(NoEvents) = NoEvents /\ NoEvents.buffer = <<>> BY Beginning
<1>2. <<>> \o s = s BY ConcatEmptySeq
<1> QED BY <1>1, <1>2, SplitRuns

\* What ends with the mark has no other one before.
LEMMA EndsBefore ==
    ASSUME NEW s \in Seq(Unit), NEW t \in Seq(Unit), Ends(s \o t)
    PROVE  Ends(s)
<1> DEFINE all == s \o t
<1>1. Len(s) \in Nat /\ Len(t) \in Nat /\ Len(all) = Len(s) + Len(t)
      /\ \A i \in 1..Len(s) : all[i] = s[i]
  BY LenProperties, ConcatProperties, ConcatFirst
<1>2. Ends(all) OBVIOUS
<1> HIDE DEF all
<1> SUFFICES ASSUME NEW i \in 1..(Len(s) - 1), MarkAt(s, i), NEW j \in (i + 2)..Len(s)
             PROVE  s[j] # "sep"
  BY DEF Ends
<1>3. /\ i \in 1..Len(s) /\ i + 1 \in 1..Len(s) /\ j \in 1..Len(s)
      /\ i \in 1..(Len(all) - 1) /\ j \in (i + 2)..Len(all)
  BY <1>1
<1>4. MarkAt(all, i) BY <1>1, <1>3 DEF MarkAt
<1>5. all[j] # "sep" BY <1>2, <1>3, <1>4 DEF Ends
<1> QED BY <1>1, <1>3, <1>5

\* One more chunk tells what it would tell with all before it.
LEMMA ToldNext ==
    ASSUME NEW c, NEW s \in Seq(Unit), NEW chunk \in Seq(Unit), Told(c, s), Ends(s \o chunk)
    PROVE  Told(Split(c, chunk), s \o chunk)
<1> DEFINE all == s \o chunk
           w == Ran(NoEvents, s)
           v == Ran(NoEvents, all)
           b == c.buffer
           a == Anew(c)
           e == Split(c, chunk)
<1>1. all \in Seq(Unit) /\ Split(NoEvents, s) = w /\ Split(NoEvents, all) = v
  <2>1. all \in Seq(Unit) BY ConcatProperties
  <2> HIDE DEF all
  <2> QED BY <2>1, AtOnce
<1>2. Context(c) /\ b \in Seq(Unit) /\ Plain(b) /\ c.out = w.out /\ (~w.stopped => c = w)
  BY <1>1 DEF Told, Context
<1>3. v = Ran(w, chunk) BY RanConcat
<1>4. Context(a) /\ a.out = c.out /\ a.buffer = <<>>
  <2> DEFINE J == c.json
             D == c.done
             O == c.out
  <2>1. c = Of(b, J, D, c.stopped, O) BY <1>2 DEF Context
  <2>2. a = Of(<<>>, J, D, No, O)
    <3> DEFINE P == c.stopped
    <3>1. c = Of(b, J, D, P, O) BY <2>1
    <3> HIDE DEF J, D, P, O, b
    <3> QED BY <3>1, AnewOf
  <2> HIDE DEF J, D, O, a
  <2>3. Context(Of(<<>>, J, D, No, O)) /\ Of(<<>>, J, D, No, O).buffer = <<>>
    <3>1. No \in BOOLEAN BY DEF No
    <3> QED BY <3>1, EmptyContext
  <2>4. Of(<<>>, J, D, No, O).out = O BY DEF Of
  <2>5. Context(a) /\ a.buffer = <<>> /\ a.out = O BY <2>2, <2>3, <2>4
  <2> QED BY <2>5 DEF O
<1>5. Marked(v, all, Len(all)) BY <1>1, RanMarks
<1>6. e = Ran(a, b \o chunk) BY SplitRuns
<1> HIDE DEF e, a
<1>7. CASE ~w.stopped
  <2>1. c = w BY <1>2, <1>7
  <2>2. Ran(a, b) = c
    <3>1. Ran(a, b) = [a EXCEPT !.buffer = a.buffer \o b] BY <1>2, <1>4, RanKeeps
    <3>2. a.buffer \o b = b BY <1>2, <1>4, ConcatEmptySeq
    <3>3. Ran(a, b) = [a EXCEPT !.buffer = b] BY <3>1, <3>2
    <3>4. c.stopped = No BY <1>2, <1>7, <2>1 DEF Context, No
    <3>5. c = Of(b, c.json, c.done, No, c.out) BY <1>2, <3>4 DEF Context
    <3> DEFINE J == c.json
               D == c.done
               O == c.out
    <3>6. c = Of(b, J, D, No, O) BY <3>5
    <3> HIDE DEF J, D, O, b
    <3>7. a = Of(<<>>, J, D, No, O) BY <3>6, AnewOf DEF a
    <3>8. Ran(a, b) = Of(b, J, D, No, O) BY <3>3, <3>7 DEF Of
    <3> QED BY <3>6, <3>8
  <2>3. e = Ran(Ran(a, b), chunk) BY <1>2, <1>6, RanConcat
  <2>4. e = v BY <1>3, <2>1, <2>2, <2>3
  <2>5. Context(v) /\ Plain(v.buffer) BY <1>5 DEF Marked
  <2>6. Told(e, all)
    <3> HIDE DEF all, v, w
    <3> QED BY <1>1, <2>4, <2>5 DEF Told
  <2> QED BY <2>6 DEF e, all
<1>8. CASE w.stopped
  <2>1. Ends(s) /\ Context(w)
    <3>1. Ends(s) BY EndsBefore
    <3>2. Marked(w, s, Len(s)) BY <3>1, RanMarks
    <3> QED BY <3>1, <3>2 DEF Marked
  <2>2. PICK i \in 1..(Len(s) - 1) : MarkAt(s, i)
    <3>1. Marked(w, s, Len(s)) BY <2>1, RanMarks
    <3> QED BY <1>8, <3>1 DEF Marked
  <2>3. Plain(chunk)
    <3>1. Len(s) \in Nat /\ Len(chunk) \in Nat /\ Len(all) = Len(s) + Len(chunk)
      BY LenProperties, ConcatProperties
    <3>2. \A k \in 1..Len(s) : all[k] = s[k] BY ConcatFirst
    <3> SUFFICES ASSUME NEW k \in 1..Len(chunk) PROVE chunk[k] # "sep" BY DEF Plain
    <3> DEFINE j == Len(s) + k
    <3>3. /\ j \in 1..Len(s) + Len(chunk) /\ ~(j <= Len(s)) /\ j - Len(s) = k
          /\ i \in 1..Len(s) /\ i + 1 \in 1..Len(s)
          /\ i \in 1..(Len(all) - 1) /\ j \in (i + 2)..Len(all)
      BY <3>1
    <3> HIDE DEF j
    <3>4. all[j] = chunk[j - Len(s)] BY <3>3, ConcatProperties
    <3> HIDE DEF all
    <3>5. MarkAt(all, i) BY <2>2, <3>2, <3>3 DEF MarkAt
    <3>6. all[j] # "sep" BY <3>3, <3>5 DEF Ends, all
    <3> QED BY <3>3, <3>4, <3>6
  <2>4. v = [w EXCEPT !.buffer = w.buffer \o chunk] BY <1>3, <1>8, <2>1, RanKeeps
  <2>5. v.stopped /\ v.out = w.out BY <1>8, <2>1, <2>4 DEF Context, Of
  <2> DEFINE rest == b \o chunk
  <2>6. rest \in Seq(Unit) /\ Plain(rest)
    <3>1. /\ rest \in Seq(Unit) /\ Len(b) \in Nat /\ Len(chunk) \in Nat
          /\ Len(rest) = Len(b) + Len(chunk)
          /\ \A k \in 1..Len(b) + Len(chunk) :
                rest[k] = IF k <= Len(b) THEN b[k] ELSE chunk[k - Len(b)]
      BY <1>2, LenProperties, ConcatProperties
    <3> HIDE DEF rest, b
    <3>2. ASSUME NEW k \in 1..Len(rest) PROVE rest[k] # "sep"
      <4>1. k <= Len(b) => k \in 1..Len(b) BY <3>1
      <4>2. ~(k <= Len(b)) => k - Len(b) \in 1..Len(chunk) BY <3>1
      <4> QED BY <1>2, <2>3, <3>1, <4>1, <4>2 DEF Plain
    <3> QED BY <3>1, <3>2 DEF Plain
  <2> HIDE DEF rest
  <2>7. e = [a EXCEPT !.buffer = rest]
    <3>1. e = [a EXCEPT !.buffer = a.buffer \o rest] BY <1>4, <1>6, <2>6, RanKeeps DEF rest
    <3>2. a.buffer \o rest = rest BY <1>4, <2>6, ConcatEmptySeq
    <3> QED BY <3>1, <3>2
  <2>8. Context(e) /\ e.buffer = rest /\ e.out = c.out
    <3> DEFINE J == a.json
               D == a.done
               P == a.stopped
               O == a.out
    <3>1. a = Of(a.buffer, J, D, P, O) /\ P \in BOOLEAN BY <1>4 DEF Context
    <3>2. e = Of(rest, J, D, P, O) BY <2>7, <3>1 DEF Of
    <3> HIDE DEF J, D, P, O
    <3>3. Context(Of(rest, J, D, P, O)) /\ Of(rest, J, D, P, O).buffer = rest
          /\ Of(rest, J, D, P, O).out = O
      BY <2>6, <3>1, ContextOf
    <3>4. Context(e) /\ e.buffer = rest /\ e.out = O BY <3>2, <3>3
    <3> QED BY <1>4, <3>4 DEF O
  <2>9. Told(e, all)
    <3> HIDE DEF all, v, w
    <3> QED BY <1>1, <1>2, <2>5, <2>6, <2>8 DEF Told
  <2> QED BY <2>9 DEF e, all
<1>9. w.stopped \/ ~w.stopped OBVIOUS
<1> QED BY <1>7, <1>8, <1>9

-----------------------------------------------------------------------------
(* The messages of a stream.                                                  *)

\* Events are asked for of servers that answer in chunks, and the mark is their last event.
EventsEnd ==
    \A x \in Exchanges :
        x.events => x.ok /\ x.framing = "chunked" /\ Ends(FlattenSeq(x.chunks))

\* Sequences that begin a list of sequences are the beginning of what they make up.
LEMMA PrefixFlattened ==
    ASSUME NEW X, NEW d \in Seq(Seq(X)), NEW e \in Seq(Seq(X)), IsPrefix(d, e)
    PROVE  \E q \in Seq(X) : FlattenSeq(e) = FlattenSeq(d) \o q
<1> DEFINE m == Len(d)
           n == Len(e)
<1>1. m \in Nat /\ n \in Nat /\ m <= n /\ \A k \in 1..m : d[k] = e[k]
  <2>1. m \in Nat /\ n \in Nat BY LenProperties
  <2>2. m <= n /\ SubSeq(d, 1, m) = SubSeq(e, 1, m) BY DEF IsPrefix
  <2>3. SubSeq(d, 1, m) = d BY SubSeqFull
  <2>4. \A k \in 1..m : SubSeq(e, 1, m)[k] = e[k]
    <3>1. \A i \in 1..m : e[i] \in Seq(X)
      <4>1. \A i \in 1..m : i \in 1..n BY <2>1, <2>2
      <4> QED BY <4>1, ElementOfSeq
    <3>2. 1 \in Int /\ m \in Int BY <2>1
    <3> HIDE DEF m
    <3>3. \A i \in 1..(m - 1 + 1) : SubSeq(e, 1, m)[i] = e[1 + i - 1]
      BY <3>1, <3>2, SubSeqProperties
    <3> QED BY <2>1, <3>3
  <2> QED BY <2>1, <2>2, <2>3, <2>4
<1>2. PICK g \in [0..m -> Seq(X)] :
         /\ g[0] = <<>>
         /\ \A k \in 1..m : g[k] = g[k - 1] \o d[k]
         /\ FlattenSeq(d) = g[m]
  BY FlattenSteps
<1>3. PICK h \in [0..n -> Seq(X)] :
         /\ h[0] = <<>>
         /\ \A k \in 1..n : h[k] = h[k - 1] \o e[k]
         /\ FlattenSeq(e) = h[n]
  BY FlattenSteps
<1>4. h[m] = g[m]
  <2> DEFINE S == {k \in 0..m : h[k] = g[k]}
  <2> HIDE DEF m, n
  <2>1. 0 \in S BY <1>1, <1>2, <1>3
  <2>2. ASSUME NEW k \in 1..m, k - 1 \in S PROVE k \in S
    <3>1. k \in 1..n /\ k \in 0..m BY <1>1
    <3> QED BY <1>1, <1>2, <1>3, <2>2, <3>1
  <2> HIDE DEF S
  <2>3. \A k \in 0..m : k \in S BY <1>1, <2>1, <2>2, UptoInduction
  <2>4. m \in 0..m BY <1>1
  <2> QED BY <2>3, <2>4 DEF S
<1>5. Extends(h[n], h[m], X)
  <2> DEFINE f == [k \in 1..n |-> e[k]]
  <2>1. f \in [1..n -> Seq(X)] BY ElementOfSeq
  <2>2. \A k \in 1..n : f[k] = e[k] OBVIOUS
  <2> HIDE DEF f, n, m
  <2>3. Concatenates(h, f, n) BY <1>3, <2>2 DEF Concatenates
  <2>4. m \in 0..n /\ n \in m..n BY <1>1
  <2> QED BY <1>1, <1>3, <2>1, <2>3, <2>4, StepsArePrefixes
<1> QED BY <1>2, <1>3, <1>4, <1>5 DEF Extends

\* What a step does to the chunks, and to the messages they tell.
Tells ==
    \/ delivered' = delivered /\ sse' = sse
    \/ \E p \in Seq(Unit) :
          /\ delivered' = Append(delivered, p)
          /\ exchange.events /\ exchange.ok => sse' = Split(sse, p)

\* A chunk that is complete is yielded and split.
LEMMA TakeChunkTells ==
    ASSUME NEW size \in 0..3, NEW units \in Seq(Unit), TakeChunk(size, units)
    PROVE  Tells
<1>1. CASE size > Len(units) BY <1>1 DEF TakeChunk, Tells
<1>2. CASE ~(size > Len(units))
  <2> DEFINE p == Upto(units, size)
  <2>1. /\ delivered' = Append(delivered, p)
        /\ sse' = IF exchange.events /\ exchange.ok THEN Split(sse, p) ELSE sse
    BY <1>2 DEF TakeChunk, Yield
  <2>2. p \in Seq(Unit)
    <3>1. size \in Nat OBVIOUS
    <3> QED BY <3>1, Parts
  <2> HIDE DEF p
  <2> QED BY <2>1, <2>2 DEF Tells
<1> QED BY <1>1, <1>2

\* Every step yields one chunk and splits it, or none.
LEMMA StepTells == HttpInv /\ [Next]_vars => Tells
<1> SUFFICES ASSUME HttpInv, [Next]_vars PROVE Tells OBVIOUS
<1>1. CASE delivered' = delivered /\ sse' = sse BY <1>1 DEF Tells
<1>2. CASE \E size \in 0..3 : \E units \in Seq(Unit) : TakeChunk(size, units)
  BY <1>2, TakeChunkTells
<1> QED BY <1>1, <1>2, StepTakes

\* What the reader of the events was told is what the events tell at once.
EventsTold == exchange.events => Told(sse, FlattenSeq(delivered))

\* Before the first chunk nothing is told.
LEMMA ToldInit == Init => EventsTold
<1> SUFFICES ASSUME Init PROVE Told(sse, FlattenSeq(delivered)) BY DEF EventsTold
<1>1. sse = NoEvents /\ delivered = <<>> BY DEF Init
<1>2. FlattenSeq(<<>>) = <<>> BY DEF FlattenSeq
<1>3. Split(NoEvents, <<>>) = NoEvents
  <2> DEFINE e == <<>>
             part == NoEvents.buffer \o e
  <2>1. e \in Seq(Unit) /\ Len(e) = 0 BY EmptySeq
  <2>2. Context(NoEvents) /\ NoEvents.buffer = e /\ Plain(e) BY <2>1, Beginning DEF Plain
  <2> HIDE DEF e
  <2>3. Ran(NoEvents, e) = [NoEvents EXCEPT !.buffer = part] BY <2>1, <2>2, RanKeeps
  <2>4. part = e BY <2>1, <2>2 DEF e
  <2>5. [NoEvents EXCEPT !.buffer = e] = NoEvents BY DEF NoEvents, e
  <2>6. Split(NoEvents, e) = NoEvents
    <3> HIDE DEF part
    <3> QED BY <2>1, <2>3, <2>4, <2>5, AtOnce
  <2> QED BY <2>6 DEF e
<1>4. Context(NoEvents) /\ Plain(NoEvents.buffer) BY Beginning, EmptySeq DEF Plain
<1>5. Told(NoEvents, <<>>) BY <1>3, <1>4 DEF Told
<1> QED BY <1>1, <1>2, <1>5, Zenon

\* Every step keeps what was told as it would be told at once.
LEMMA ToldStep ==
    ASSUME EventsEnd, HttpInv, ChunksAsSent', EventsTold, [Next]_vars
    PROVE  EventsTold'
<1>1. exchange' = exchange
  BY DEF Next, Server, Client, Accept, ServerReceives, ServerSends, ServerHangsUp, SendRequest,
         ReceiveHeaders, ReceiveRemainder, StreamRead, Resumed, vars
<1> SUFFICES ASSUME exchange.events PROVE Told(sse, FlattenSeq(delivered))'
  BY <1>1 DEF EventsTold
<1>2. Told(sse, FlattenSeq(delivered)) BY DEF EventsTold
<1>3. Tells BY StepTells
<1>4. CASE delivered' = delivered /\ sse' = sse BY <1>2, <1>4
<1>5. CASE ~(delivered' = delivered /\ sse' = sse)
  <2> DEFINE d == delivered
             m == exchange.chunks
  <2>1. exchange \in Exchanges /\ d \in Seq(Seq(Unit)) BY DEF HttpInv, HttpTypes
  <2>2. exchange.ok /\ exchange.framing = "chunked" /\ Ends(FlattenSeq(m)) /\ m \in Seq(Seq(Unit))
    BY <2>1, AnswerType DEF EventsEnd
  <2>3. PICK p \in Seq(Unit) : delivered' = Append(d, p) /\ sse' = Split(sse, p)
    BY <1>3, <1>5, <2>2 DEF Tells
  <2>4. IsPrefix(delivered', Sent) BY <1>1, <2>2 DEF ChunksAsSent, Sent
  <2> DEFINE e == Append(d, p)
             last == <<>>
  <2>5. e \in Seq(Seq(Unit)) /\ last \in Seq(Unit) BY <2>1, AppendProperties, EmptySeq
  <2>6. FlattenSeq(d) \in Seq(Unit) /\ FlattenSeq(m) \in Seq(Unit) /\ FlattenSeq(e) \in Seq(Unit)
        /\ FlattenSeq(e) = FlattenSeq(d) \o p
    <3> HIDE DEF d, m, last
    <3> QED BY <2>1, <2>2, <2>5, FlattenType, FlattenAppend
  <2>7. Sent \in Seq(Seq(Unit)) /\ FlattenSeq(Sent) = FlattenSeq(m)
    <3>1. Sent = Append(m, last) BY DEF Sent
    <3> HIDE DEF m, last
    <3>2. Sent \in Seq(Seq(Unit)) /\ FlattenSeq(Sent) = FlattenSeq(m) \o last
      BY <2>2, <2>5, <3>1, AppendProperties, FlattenAppend
    <3>3. FlattenSeq(m) \o last = FlattenSeq(m) BY <2>6, ConcatEmptySeq DEF last
    <3> QED BY <3>2, <3>3
  <2>8. Ends(FlattenSeq(e))
    <3>1. IsPrefix(e, Sent) BY <2>3, <2>4
    <3> HIDE DEF e
    <3>2. PICK q \in Seq(Unit) : FlattenSeq(Sent) = FlattenSeq(e) \o q
      BY <2>5, <2>7, <3>1, PrefixFlattened
    <3>3. Ends(FlattenSeq(e) \o q) BY <2>2, <2>7, <3>2
    <3> QED BY <2>6, <3>3, EndsBefore
  <2>9. Told(Split(sse, p), FlattenSeq(e))
    <3> DEFINE s == FlattenSeq(d)
    <3>1. s \in Seq(Unit) /\ Told(sse, s) /\ Ends(s \o p) BY <1>2, <2>6, <2>8
    <3> HIDE DEF s, e
    <3>2. Told(Split(sse, p), s \o p) BY <3>1, ToldNext
    <3> QED BY <2>6, <3>2 DEF s
  <2> QED BY <2>3, <2>9
<1> QED BY <1>4, <1>5

\* The reader of a stream of events gets the messages that the events tell when they are
\* read at once, however they were cut into chunks and the chunks into pieces, when the end
\* mark is the last event: http_client.py, _split_chunks_to_message_json().
THEOREM MessagesArrive ==
    ASSUME EventsEnd
    PROVE  Spec => []MessagesAsSent
<1>1. HttpInv /\ ChunksAsSent' /\ EventsTold /\ [Next]_vars => EventsTold' BY ToldStep
<1>2. EventsTold => MessagesAsSent BY DEF EventsTold, MessagesAsSent, Told
<1> QED BY <1>1, <1>2, ToldInit, HttpInvHolds, StreamsYieldWhatWasSent, PTL DEF Spec

=============================================================================
