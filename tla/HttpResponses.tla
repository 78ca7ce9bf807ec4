---------------------------- MODULE HttpResponses -------------------------
(***************************************************************************)
(* A connection of wrk reading responses: socket_readable (wrk.c:426) over *)
(* the operators of HttpParser, with a server that sends one of Streams    *)
(* over each socket, a network that cuts it into reads anywhere, and, if   *)
(* Breaks, sockets that end before their stream does.                      *)
(*                                                                         *)
(* What a stream promises is not computed by the parser: a stream is built *)
(* from descriptions of responses, and the descriptions say what response()*)
(* of the script should get, and when.                                     *)
(***************************************************************************)
EXTENDS HttpParser

CONSTANTS
    Streams,        \* what a server may send over the first socket
    LaterStreams,   \* and over the others
    RecvSizes,      \* bounds: how many symbols a read returns at most
    MaxSockets,     \* bound: sockets of the connection, one after another
    Breaks,         \* TRUE: a socket may end at any place of the stream
    Wants           \* whether the script has a response(): a set of Booleans

---------------------------------------------------------------------------
(* Descriptions of responses, and the symbols they are sent as.  A body is *)
(* a sequence of pieces, one for each chunk; `framing` is how its end is   *)
(* told: by a "length", by "chunked" coding, by "eof", or "none".          *)

Decimal == <<"1", "2", "3", "4", "5", "6">>
Line(symbols)    == symbols \o <<"CR", "LF">>
FieldLine(f)     == Line(f[1] \o <<":", "SP">> \o f[2])
FlatMap(Op(_), s) == FoldLeft(LAMBDA acc, e : acc \o Op(e), <<>>, s)

Body(r) == FlattenSeq(r.body)
Fields(r) ==
    r.fields \o
    CASE r.framing = "length" /\ Body(r) = <<>> -> << <<CONTENT_LENGTH, <<"0">>>> >>
      [] r.framing = "length" /\ Body(r) # <<>> ->
           << <<CONTENT_LENGTH, <<Decimal[Len(Body(r))]>>>> >>
      [] r.framing = "chunked" -> << <<TRANSFER_ENCODING, CHUNKED>> >>
      [] OTHER -> <<>>
Chunk(b) == Line(<<Decimal[Len(b)]>>) \o Line(b)

HeaderOf(r) == Line(<<"H", "TTP", "/", "1", ".", r.minor, "SP">> \o r.status
                \o <<"SP", "x">>)
           \o FlatMap(FieldLine, Fields(r)) \o Line(<<>>)
Trailer(r) == FlatMap(FieldLine, r.trailers) \o Line(<<>>)
Encode(r) ==
    HeaderOf(r) \o IF r.framing # "chunked" THEN Body(r)
               ELSE FlatMap(Chunk, r.body) \o Line(<<"0">>) \o Trailer(r)

(* What the descriptions promise.                                          *)
Status(r) == 100 * unhex[r.status[1]] + 10 * unhex[r.status[2]] + unhex[r.status[3]]
Unfold(value) == SelectSeq(value, LAMBDA ch : ch \notin {"CR", "LF"})
Options(fields) ==   \* those of its Connection header: words between commas
    UNION {{w \in {CLOSE, KEEP_ALIVE, UPGRADE} : \E i \in DOMAIN f[2] :
                /\ IsPrefix(w, SubSeq(f[2], i, Len(f[2])))
                /\ i = 1 \/ f[2][i - 1] \in {",", "SP"}
                /\ i + 1 = Len(f[2]) \/ f[2][i + 2] \in {",", "SP"}} :
           f \in {g \in Range(fields) : g[1] = CONNECTION}}
Lasting(r) ==
    /\ r.framing # "eof"
    /\ IF r.minor = "1" THEN CLOSE \notin Options(r.fields \o r.trailers)
       ELSE KEEP_ALIVE \in Options(r.fields \o r.trailers)
Told(r, want) ==
    LET fields == Fields(r) \o r.trailers
        called == want /\ fields # <<>>
    IN  [status |-> Status(r), called |-> called,
         headers |-> IF ~called THEN <<>>
                     ELSE [i \in DOMAIN fields |-> <<fields[i][1], Unfold(fields[i][2])>>],
         body |-> IF called THEN Body(r) ELSE <<>>]

(* A stream: whole responses, then a tail that is none.                    *)
Symbols(s) == FlatMap(Encode, s.responses) \o s.tail
EndOf(s, i) == Len(FlatMap(Encode, SubSeq(s.responses, 1, i)))
(* How many responses have ended in the first n symbols; one that does not *)
(* last is the last one, and one that the end of the stream ends is not    *)
(* over before.                                                            *)
Ended(s, n) ==
    LET over(i) == /\ EndOf(s, i) <= n /\ s.responses[i].framing # "eof"
                   /\ \A j \in 1 .. i - 1 : Lasting(s.responses[j])
    IN  Cardinality({i \in DOMAIN s.responses : over(i)})
Whole(s) == s.tail = <<>> /\ \A i \in 1 .. Len(s.responses) - 1 : Lasting(s.responses[i])
HeaderSizes(s) == {Len(HeaderOf(s.responses[i])) : i \in DOMAIN s.responses}
                  \cup {Len(Trailer(s.responses[i])) : i \in DOMAIN s.responses}

---------------------------------------------------------------------------
VARIABLES
    c,          \* the connection struct with its parser
    stream,     \* what the server sends over this socket
    at,         \* how much of it has been read
    sock,       \* "up", or "lost": reconnect_socket was called
    refused,    \* history: this socket was given up as a read error
    ended,      \* history: this socket was at its end of file
    clean,      \* history: it began with empty buffers
    sockets     \* how many there were

vars == <<c, stream, at, sock, refused, ended, clean, sockets>>

TypeOK ==
    /\ stream \in Streams \cup LaterStreams /\ at \in 0 .. Len(Symbols(stream))
    /\ sock \in {"up", "lost"} /\ sockets \in 1 .. MaxSockets
    /\ refused \in BOOLEAN /\ ended \in BOOLEAN /\ clean \in BOOLEAN
    /\ c.content_length \in 0 .. ULLONG_MAX
    /\ c.nread \in 0 .. HTTP_MAX_HEADER_SIZE + Len(Symbols(stream))
    /\ c.status_code \in 0 .. 9999
    /\ c.flags \subseteq Range(FlagOf) \cup {"F_UPGRADE", "F_TRAILING", "F_CONTENTLENGTH"}
    /\ c.part \in {"FIELD", "VALUE"}
    /\ DOMAIN c = DOMAIN NewConnection(TRUE)

Init ==
    /\ \E want \in Wants : c = NewConnection(want)
    /\ stream \in Streams
    /\ at = 0 /\ sock = "up" /\ sockets = 1
    /\ refused = FALSE /\ ended = FALSE /\ clean = TRUE

Stored(x) == [f \in DOMAIN c |-> x[f]]

(* socket_readable with n > 0: the parser must take all that was read.     *)
Read ==
    /\ sock = "up" /\ at < Len(Symbols(stream))
    /\ \E n \in {Min({k, Len(Symbols(stream)) - at}) : k \in RecvSizes} :
         LET x == http_parser_execute(c, SubSeq(Symbols(stream), at + 1, at + n))
         IN  /\ c' = Stored(x)
             /\ at' = at + n
             /\ refused' = (x.ret # n)
             /\ sock' = IF x.closed \/ x.ret # n THEN "lost" ELSE "up"
    /\ UNCHANGED <<stream, ended, clean, sockets>>

(* socket_readable with n = 0.  http_body_is_final never holds then, so    *)
(* the socket is given up, also after a response that ends here.           *)
ReadEof ==
    /\ sock = "up" /\ (Breaks \/ at = Len(Symbols(stream)))
    /\ c' = Stored(http_parser_execute(c, <<>>))
    /\ ended' = TRUE /\ sock' = "lost"
    /\ UNCHANGED <<stream, at, refused, clean, sockets>>

(* reconnect_socket and socket_connected: the parser is new, the buffers   *)
(* stay as they are.                                                       *)
Reconnect ==
    /\ sock = "lost" /\ sockets < MaxSockets
    /\ c' = [http_parser_init(c, "HTTP_RESPONSE") EXCEPT !.closed = FALSE, !.responses = <<>>]
    /\ stream' \in LaterStreams
    /\ at' = 0 /\ sock' = "up" /\ sockets' = sockets + 1
    /\ refused' = FALSE /\ ended' = FALSE
    /\ clean' = (c.headers = <<>> /\ c.body = <<>> /\ c.part = "FIELD")

Next == Read \/ ReadEof \/ Reconnect

Spec == Init /\ [][Next]_vars

---------------------------------------------------------------------------
Overflown  == c.http_errno = "HEADER_OVERFLOW"
Promised(n) == [i \in 1 .. n |-> Told(stream.responses[i], c.want)]
HasHeaders == \A i \in DOMAIN stream.responses : Told(stream.responses[i], TRUE).called

(* What a new connection delivers does not depend on how the network cut   *)
(* it into reads: the parser, the buffers and the responses are what one   *)
(* read of everything so far would have left; at an error, the responses   *)
(* and the error.  nread differs: it counts a symbol twice where a read    *)
(* ends inside a header, and so the limit depends on it: see HeadersFit.   *)
CutIndependent ==
    LET whole == http_parser_execute(NewConnection(c.want), SubSeq(Symbols(stream), 1, at))
        fixed == IF refused THEN {"responses", "http_errno", "state"}
                 ELSE DOMAIN c \ {"nread"}
    IN  sockets = 1 /\ ~ended /\ at > 0 /\ ~Overflown => \A f \in fixed : c[f] = whole[f]

Statuses(responses) == [i \in DOMAIN responses |-> responses[i].status]

(* response_complete is called for the responses that have ended and for   *)
(* no other, in order, and response() gets the headers and the body that   *)
(* were sent (wrk/SCRIPTING: "called with the HTTP response status,        *)
(* headers, and body").  The data is claimed where every response has a    *)
(* header and the socket began with empty buffers.                         *)
(* Nor does the end of the stream deliver anything but the response that   *)
(* it ends, with the body that came before it.                             *)
DeliveredInTurn ==
    LET promised == Promised(Ended(stream, at)) IN
    ~ended /\ ~Overflown
      => /\ Statuses(c.responses) = Statuses(promised)
         /\ clean /\ (HasHeaders \/ ~c.want) => c.responses = promised

DeliveredAtEof ==
    LET n     == Ended(stream, at)
        r     == stream.responses[n + 1]
        start == EndOf(stream, n) + Len(HeaderOf(r))
        open  == /\ n < Len(stream.responses) /\ r.framing = "eof" /\ start <= at
                 /\ \A j \in 1 .. n : Lasting(stream.responses[j])
        body  == SubSeq(Symbols(stream), start + 1, at)
        told  == Told(r, c.want)
    IN  clean /\ ended /\ ~Overflown /\ (HasHeaders \/ ~c.want)
          => c.responses = Promised(n) \o
               IF ~open THEN <<>>
               ELSE <<[told EXCEPT !.body = IF told.called THEN body ELSE <<>>]>>

DeliveredAsSent == DeliveredInTurn /\ DeliveredAtEof

(* A socket is given up as a read error only for what is no response, or   *)
(* comes after the last one, and always for the former.                    *)
RefusesWhatIsBad ==
    /\ refused /\ ~Overflown => ~Whole(stream)
    /\ at = Len(Symbols(stream)) /\ stream.tail # <<>> /\ ~ended => sock = "lost"

(* The limit on headers, however they are cut: none that is longer gets    *)
(* through, and none of at most half the limit is refused.                 *)
HeadersFit ==
    /\ Overflown => \E n \in HeaderSizes(stream) : 2 * n > HTTP_MAX_HEADER_SIZE
    /\ clean => \A i \in 1 .. Len(c.responses) :
         Len(HeaderOf(stream.responses[i])) <= HTTP_MAX_HEADER_SIZE

RefusesOnlyBad == RefusesWhatIsBad /\ HeadersFit

(* The assertions of http_parser.c hold, and its counters, flags and status*)
(* stay in their ranges.                                                   *)
AssertsHold == ~c.failed /\ TypeOK
===========================================================================
