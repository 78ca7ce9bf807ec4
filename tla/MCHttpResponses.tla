-------------------------- MODULE MCHttpResponses -------------------------
(* Streams for HttpResponses: each shape of a response alone, each one     *)
(* before a plain one, and the ways in which a stream can be none; and     *)
(* texts for HttpRequests, along the same lines.                           *)
EXTENDS HttpRequests

X == <<"x">>
Field(name, value) == <<name, value>>
General == Field(X, <<"x", ",", "x">>)

Plain ==
    [minor |-> "1", status |-> <<"2", "0", "0">>, fields |-> <<General>>,
     framing |-> "length", body |-> <<<<"H", "CR">>>>, trailers |-> <<>>]

With(fields)  == [Plain EXCEPT !.fields = fields]
Connection(v) == With(<<Field(CONNECTION, v)>>)
Chunked ==
    [Plain EXCEPT !.framing = "chunked", !.body = <<<<"H", "CR", "LF">>, <<"0">>>>]

Shapes ==
    {Plain, Chunked,
     [Chunked EXCEPT !.body = <<>>, !.trailers = <<Field(X, X), Field(CONNECTION, X)>>],
     [Plain EXCEPT !.body = <<>>],
     [Plain EXCEPT !.framing = "none", !.body = <<>>, !.status = <<"3", "0", "4">>],
     [Plain EXCEPT !.framing = "eof"],
     [Connection(CLOSE) EXCEPT !.status = <<"5", "0", "0">>],
     Connection(X \o <<",", "SP">> \o CLOSE \o <<"SP", ",">> \o KEEP_ALIVE),
     [Connection(KEEP_ALIVE) EXCEPT !.minor = "0"],
     [Connection(UPGRADE \o <<",">> \o KEEP_ALIVE) EXCEPT !.minor = "0"],
     [Plain EXCEPT !.minor = "0"],
     Connection(<<"clo", "x", ",">> \o UPGRADE),
     With(<<>>), [With(<<>>) EXCEPT !.framing = "eof"],
     With(<<Field(PROXY_CONNECTION, KEEP_ALIVE), Field(UPGRADE, X)>>),
     With(<<Field(<<"con", "x">>, <<"x", "CR", "LF", "SP", "x">>)>>),
     With(<<Field(<<"con", "nection", "x">>, CLOSE), Field(<<"up">>, <<>>), General>>)}

(* The end of HTTP on a socket; what would follow it depends on the cuts.  *)
Switching ==
    [With(<<Field(CONNECTION, UPGRADE), Field(UPGRADE, X)>>) EXCEPT
       !.status = <<"1", "0", "1">>, !.framing = "none", !.body = <<>>]

Sent(responses)      == [responses |-> responses, tail |-> <<>>]
Bad(responses, tail) == [responses |-> responses, tail |-> tail]

(* What may follow a response on the same socket.                          *)
Followers == {Plain, [Chunked EXCEPT !.trailers = <<Field(X, X)>>],
          [With(<<>>) EXCEPT !.framing = "eof"]}

StatusLine(code) == Line(<<"H", "TTP", "/", "1", ".", "1", "SP">> \o code \o <<"SP", "x">>)
Ok200  == StatusLine(<<"2", "0", "0">>)
Length(digits) == FieldLine(Field(CONTENT_LENGTH, digits))
Coding == FieldLine(Field(TRANSFER_ENCODING, CHUNKED))
Blank  == Line(<<>>)

(* No response, each for a reason of its own, with what follows it; the    *)
(* lengths are ULLONG_MAX + 3.                                             *)
Tails ==
    {<<"x">>, <<"H", "x">>, <<"H", "TTP", "x">>, <<"H", "TTP", "/", "x">>,
     <<"H", "TTP", "/", "1", "x">>, <<"H", "TTP", "/", "1", ".", "x">>,
     <<"H", "TTP", "/", "1", ".", "1", "x">>, StatusLine(<<"x">>),
     StatusLine(<<"2", "x">>), StatusLine(<<"2", "0", "0", "0">>),
     Ok200 \o <<":">>, Ok200 \o FieldLine(Field(<<"x", "SP">>, X)),
     Ok200 \o FieldLine(Field(X, <<"x", "DEL">>)),
     Ok200 \o <<"x", ":", "x", "CR", "x">>,
     Ok200 \o <<"x", ":", "CR", "x">>,
     Ok200 \o <<"x", ":", "x", "LF", "CR", "x">>,
     Ok200 \o Length(<<"x">>), Ok200 \o Length(<<"1", "x">>),
     Ok200 \o Length(<<"1">>) \o Length(<<"1">>),
     Ok200 \o Length(<<"6", "6">>) \o Blank \o <<"x", "x">>,
     Ok200 \o Length(<<"1">>) \o Coding \o Blank,
     Ok200 \o Coding \o Blank \o <<"x">>,
     Ok200 \o Coding \o Blank \o <<"1", "x">>,
     Ok200 \o Coding \o Blank \o Line(<<"4", "2">>) \o Line(<<"x", "x">>) \o Line(<<"0">>),
     Ok200 \o Coding \o Blank \o Line(<<"1", ";", "x">>) \o <<"x", "x">>,
     Ok200 \o Coding \o Blank \o Line(<<"1", "SP">>) \o <<"x", "CR", "x">>,
     Ok200 \o Coding \o Blank \o <<"1", "CR", "x">>}

(* Around the limit on headers.                                            *)
Long(n) == With(<<Field(X, [i \in 1 .. n |-> "x"]), General>>)

AllStreams ==
    {Sent(<<r>>) : r \in Shapes \cup {Switching}} \cup {Sent(<<r, s>>) : r \in Shapes, s \in Followers}
    \cup {Bad(<<>>, t) : t \in Tails}
    \cup {Bad(<<Chunked>>, <<"CR", "LF", "x">>)}
    \cup {Sent(<<Long(n)>>) : n \in {6, 30, 90}}
TwoStreams == {Sent(<<Plain, Plain>>), Sent(<<Chunked>>)}

---------------------------------------------------------------------------
(* Texts of a script, and their parts.                                     *)
Get == [blank |-> <<>>, method |-> LettersOf("GET"), url |-> <<"/">>, version |-> "v1_1",
        fields |-> <<>>, framing |-> "none", body |-> <<>>, trailers |-> <<>>]

Asking(fields) == [Get EXCEPT !.fields = fields]
Put  == [Get EXCEPT !.method = LettersOf("PUT"), !.framing = "length", !.body = <<<<"G", "CR">>>>]
Post == [Put EXCEPT !.method = LettersOf("POST"), !.framing = "chunked",
                    !.trailers = <<Field(X, X), Field(CONNECTION, CLOSE)>>]
Upgrading == Asking(<<Field(CONNECTION, UPGRADE), Field(UPGRADE, X)>>)

GoodUrls ==
    {<<"*">>, <<"/", "?", "#", "?">>, <<"/", "x", "?", "?", "x", "#", "#", "x">>,
     <<"x", "x", ":", "/", "/", "x", "@", "x", ":", "1", "/", "x">>,
     <<"x", ":", "/", "/", "[", ":", "]", "?", "/", "@">>}

RequestShapes ==
    {Get, Put, Post, Upgrading, Asking(<<Field(UPGRADE, X)>>),
     [Upgrading EXCEPT !.framing = "length", !.body = <<<<"x">>>>],
     [Upgrading EXCEPT !.framing = "chunked", !.body = <<<<"x">>>>],
     [Put EXCEPT !.body = <<>>], [Get EXCEPT !.blank = Line(Line(<<>>))],
     Asking(<<Field(CONNECTION, CLOSE), General>>),
     Asking(<<Field(CONNECTION, X \o <<",">> \o CLOSE)>>),
     [Get EXCEPT !.version = "v1_0"], [Get EXCEPT !.version = "v0_9"],
     [Asking(<<Field(CONNECTION, KEEP_ALIVE)>>) EXCEPT !.version = "v1_0"],
     [Asking(<<Field(CONNECTION, KEEP_ALIVE)>>) EXCEPT !.version = "v0_9"],
     [Get EXCEPT !.method = LettersOf("CONNECT"), !.url = <<"x", ":", "1">>],
     [Put EXCEPT !.method = LettersOf("CONNECT"), !.url = <<"x", ":", "1">>],
     Asking(<<Field(X, [i \in 1 .. 90 |-> "x"])>>)}
    \cup {[Get EXCEPT !.url = u] : u \in GoodUrls}

TextOf(requests, tail) == [requests |-> requests, tail |-> tail, missing |-> 0]

(* Words that are near a method: a letter of another one in its place, one *)
(* letter more, one less, or the end of another one.                       *)
Words == {LettersOf(m) : m \in Methods}
From(w, n)   == SubSeq(w, n, Len(w))
NearMethods  ==
    UNION {{SubSeq(w, 1, n - 1) \o From(v, n) : n \in 2 .. Len(w) + 1} \cup
           {SubSeq(w, 1, n - 1) \o <<v[n]>> \o From(w, n + 1) : n \in 1 .. Min({Len(w), Len(v)})}
               : w \in Words, v \in Words}
    \cup {SubSeq(w, 1, Len(w) - 1) : w \in Words}
    \cup {w \o <<"E">> : w \in Words}

RequestLine(symbols) == Line(<<"G", "E", "T", "SP">> \o symbols)
Http11 == Versions["v1_1"]
BadTails ==
    {<<"x">>, <<"E">>, <<"SP">>, <<"G", "x">>, <<"G", "NUL">>, RequestLine(<<"CR">>),
     RequestLine(<<":">>), RequestLine(<<"x", "/">>), RequestLine(<<"x", ":", "x">>),
     RequestLine(<<"x", ":", "/", "SP">>), RequestLine(<<"x", ":", "/", "/", "@", "@">>),
     RequestLine(<<"/", "DEL">>), RequestLine(<<"/", "SP", "x">>),
     RequestLine(<<"/", "SP", "H", "x">>), RequestLine(<<"/", "SP", "H", "TTP", "x">>),
     RequestLine(<<"/", "SP", "H", "TTP", "/", "x">>),
     RequestLine(<<"/", "SP", "H", "TTP", "/", "1", "x">>),
     RequestLine(<<"/", "SP", "H", "TTP", "/", "1", ".", "x">>),
     RequestLine(<<"/">> \o Http11 \o <<"x">>), RequestLine(<<"/">> \o Http11 \o <<"CR">>),
     RequestLine(<<"/">> \o Http11) \o Length(<<"1">>) \o Coding \o Blank,
     RequestLine(<<"/">> \o Http11) \o Coding \o Blank \o <<"x">>,
     <<"C", "O", "N", "N", "E", "C", "T", "SP", "#">>}

CutTexts  == {[TextOf(rs, <<>>) EXCEPT !.missing = n] : n \in 0 .. 30,
                rs \in {<<Put>>, <<Post>>, <<Upgrading>>, <<Put, Get>>}}
Followed  == {TextOf(<<r, s>>, t) : r \in RequestShapes, s \in {Get, Upgrading}, t \in {<<>>, Blank}}
Alone     == {TextOf(<<r>>, t) : r \in RequestShapes, t \in {<<>>, Blank, <<"x">>}}
WithTails == {TextOf(rs, t) : rs \in {<<>>, <<Get>>}, t \in BadTails \cup {Blank}}
ByMethod  == {TextOf(<<[Get EXCEPT !.method = m]>>, <<>>) : m \in Words \cup NearMethods}
AllTexts  == CutTexts \cup Followed \cup Alone \cup WithTails \cup ByMethod
                \cup {TextOf(<<Get, Get, Get>>, <<>>)}
PlainText == TextOf(<<Get>>, <<>>)

(* Bound: a text is verified in a run with one stream, and the connection  *)
(* reads in runs with one text.                                            *)
MCInit == RunInit /\ (text # PlainText => stream = Sent(<<Plain>>) /\ c.want)
MCNext == script_verify_request \/ (text = PlainText /\ Run)
MCSpec == MCInit /\ [][MCNext]_<<vars, verifyVars>>
===========================================================================
