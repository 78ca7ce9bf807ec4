----------------------------- MODULE HttpParser ---------------------------
(***************************************************************************)
(* http_parser_execute (wrk/src/http_parser.c:631), with the callbacks that*)
(* wrk hangs on it: on responses those of wrk.c:298-360, on requests the   *)
(* one of script.c:262.  Operators on one record: a connection struct, its *)
(* parser and its two buffers.                                             *)
(*                                                                         *)
(* A buffer is a sequence of symbols.  A symbol is one byte, except in the *)
(* words that the parser compares letter by letter: each of them is two    *)
(* symbols, so that a read can still end inside a word.  Letters are in    *)
(* lower case, white space is SP, and 1-based p is the parser's cursor.    *)
(* The methods of requests are compared letter by letter, in upper case.   *)
(* Left out: the callbacks that wrk never sets (those of beginnings, of    *)
(* the URL, of the status and of chunks), and parsers of both types.       *)
(***************************************************************************)
EXTENDS Integers, Sequences, SequencesExt, FiniteSetsExt, Functions, TLC

CONSTANTS
    HTTP_MAX_HEADER_SIZE,   \* scaled, in symbols
    ULLONG_MAX              \* scaled: the largest uint64_t

ASSUME HttpParserAssumption ==
    /\ HTTP_MAX_HEADER_SIZE \in Nat \ {0}
    /\ ULLONG_MAX \in Nat /\ ULLONG_MAX >= 31

---------------------------------------------------------------------------
(* Symbols and words.                                                      *)

unhex == ("0" :> 0) @@ ("1" :> 1) @@ ("2" :> 2) @@ ("3" :> 3) @@ ("4" :> 4)
         @@ ("5" :> 5) @@ ("6" :> 6) @@ ("a" :> 10)
HexDigits == DOMAIN unhex
Digits    == HexDigits \ {"a"}
Separators  == {"CR", "LF", "SP", ":", ";", ",", "/", "DEL", "NUL"}
IsToken(ch) == ch \notin Separators
IsHeaderChar(ch) == ch \notin {"DEL", "NUL"}

CONTENT_LENGTH    == <<"con", "tent-length">>
CONNECTION        == <<"con", "nection">>
PROXY_CONNECTION  == <<"proxy-", "connection">>
TRANSFER_ENCODING == <<"transfer-", "encoding">>
UPGRADE           == <<"up", "grade">>
CHUNKED           == <<"chun", "ked">>
KEEP_ALIVE        == <<"keep", "-alive">>
CLOSE             == <<"clo", "se">>

(* The header_state that each matched word leads to.                       *)
FieldWords == (CONNECTION :> "h_connection")
              @@ (PROXY_CONNECTION :> "h_connection")
              @@ (CONTENT_LENGTH :> "h_content_length")
              @@ (TRANSFER_ENCODING :> "h_transfer_encoding")
              @@ (UPGRADE :> "h_upgrade")
ConnectionWords == (KEEP_ALIVE :> "h_connection_keep_alive")
                   @@ (CLOSE :> "h_connection_close")
                   @@ (UPGRADE :> "h_connection_upgrade")
CodingWords == CHUNKED :> "h_transfer_encoding_chunked"

FlagOf == [h_connection_keep_alive     |-> "F_CONNECTION_KEEP_ALIVE",
           h_connection_close          |-> "F_CONNECTION_CLOSE",
           h_connection_upgrade        |-> "F_CONNECTION_UPGRADE",
           h_transfer_encoding_chunked |-> "F_CHUNKED"]

---------------------------------------------------------------------------
(* The record: the parser, the connection, the locals of one call, and     *)
(* `responses`, what response_complete handed on (a history).              *)

Running == -1

http_parser_init(x, t) ==
    [x EXCEPT !.type = t,
              !.state = IF t = "HTTP_REQUEST" THEN "s_start_req" ELSE "s_start_res",
              !.method = "DELETE", !.index = 0, !.header_state = "h_general",
              !.matched = <<>>, !.flags = {}, !.nread = 0,
              !.content_length = 0, !.http_major = 0, !.http_minor = 0,
              !.status_code = 0, !.http_errno = "OK", !.upgrade = FALSE]

(* A zeroed connection of a run whose script has (or not) a response().    *)
NewConnection(want) ==
    http_parser_init(
      [type |-> "", method |-> "", index |-> 0, state |-> "", header_state |-> "", matched |-> <<>>, flags |-> {},
       nread |-> 0, content_length |-> 0, http_major |-> 0, http_minor |-> 0,
       status_code |-> 0, http_errno |-> "OK", upgrade |-> FALSE,
       want |-> want, part |-> "FIELD", headers |-> <<>>, body |-> <<>>,
       allocated |-> FALSE, responses |-> <<>>, closed |-> FALSE,
       failed |-> FALSE, count |-> 0], "HTTP_RESPONSE")

Locals == [p |-> 1, header_field_mark |-> 0, header_value_mark |-> 0,
           url_mark |-> 0, body_mark |-> 0, ret |-> Running, again |-> FALSE]

UpdateState(x, s) == [x EXCEPT !.state = s]
Reexecute(x, s)   == [x EXCEPT !.state = s, !.again = TRUE]
Return(x, n)      == [x EXCEPT !.ret = n]
Error(x, e)       == [x EXCEPT !.http_errno = e, !.ret = x.p - 1]
Asserted(x, holds)  == [x EXCEPT !.failed = @ \/ ~holds]
Expect(x, ch, S, next, e) ==
    IF ch \in S THEN UpdateState(x, next) ELSE Error(x, e)
StrictCheck(x, ch, want, next) == Expect(x, ch, {want}, next, "STRICT")

(* A bug to catch: nothing limits the size.                                *)
CountHeaderSizeUnlimited(x, n) == [x EXCEPT !.nread = @ + n]

CountHeaderSize(x, n) ==
    LET y == [x EXCEPT !.nread = @ + n]
    IN  IF y.nread > HTTP_MAX_HEADER_SIZE THEN Error(y, "HEADER_OVERFLOW") ELSE y

---------------------------------------------------------------------------
(* The callbacks of wrk.c.                                                 *)

(* The data callbacks get the symbols from the mark up to `end`, if there  *)
(* is a mark; without a response() in the script they are not set.         *)
header_field(x, data, end) ==
    LET y == [x EXCEPT !.header_field_mark = 0] IN
    IF x.header_field_mark = 0 \/ ~x.want THEN y
    ELSE [y EXCEPT !.headers = @ \o (IF x.part = "VALUE" THEN <<"NUL">> ELSE <<>>)
                                 \o SubSeq(data, x.header_field_mark, end - 1),
                   !.part = "FIELD", !.allocated = TRUE]

header_value(x, data, end) ==
    LET y == [x EXCEPT !.header_value_mark = 0] IN
    IF x.header_value_mark = 0 \/ ~x.want THEN y
    ELSE [y EXCEPT !.headers = @ \o (IF x.part = "FIELD" THEN <<"NUL">> ELSE <<>>)
                                 \o SubSeq(data, x.header_value_mark, end - 1),
                   !.part = "VALUE"]

response_body(x, data, end) ==
    LET y == [x EXCEPT !.body_mark = 0] IN
    IF x.body_mark = 0 \/ ~x.want THEN y
    ELSE [y EXCEPT !.body = @ \o SubSeq(data, x.body_mark, end - 1)]

(* The loop of script_response over the buffer: NUL-terminated names and   *)
(* values in turn.  A value that would start past the cursor is whatever   *)
(* an earlier response left there.                                         *)
RECURSIVE Pairs(_)
Pairs(buffer) ==
    LET End(s) == SelectInSeq(s, LAMBDA ch : ch = "NUL")
        i      == End(buffer)
        rest   == SubSeq(buffer, i + 1, Len(buffer))
        j      == End(rest)
        name   == SubSeq(buffer, 1, i - 1)
    IN  IF buffer = <<>> THEN <<>>
        ELSE IF j = 0 THEN << <<name, <<"stale">>>> >>
        ELSE << <<name, SubSeq(rest, 1, j - 1)>> >>
                 \o Pairs(SubSeq(rest, j + 1, Len(rest)))

http_message_needs_eof(x) ==
    /\ x.type # "HTTP_REQUEST"
    /\ x.status_code \div 100 # 1 /\ x.status_code \notin {204, 304}
    /\ "F_CHUNKED" \notin x.flags
    /\ x.content_length = ULLONG_MAX

http_should_keep_alive(x) ==
    /\ IF x.http_major > 0 /\ x.http_minor > 0
       THEN "F_CONNECTION_CLOSE" \notin x.flags
       ELSE "F_CONNECTION_KEEP_ALIVE" \in x.flags
    /\ ~http_message_needs_eof(x)

(* response_complete: to the script if a header was ever buffered, then a  *)
(* fresh parser, or reconnect_socket, which leaves the parser as it is.    *)
response_complete(x) ==
    LET y == IF x.allocated
             THEN [x EXCEPT
                     !.responses = Append(@,
                        [status |-> x.status_code, called |-> TRUE,
                         headers |-> Pairs(Append(x.headers, "NUL")),
                         body |-> x.body]),
                     !.headers = <<>>, !.body = <<>>, !.part = "FIELD"]
             ELSE [x EXCEPT
                     !.responses = Append(@,
                        [status |-> x.status_code, called |-> FALSE,
                         headers |-> <<>>, body |-> <<>>])]
    IN  IF http_should_keep_alive(x) THEN http_parser_init(y, "HTTP_RESPONSE")
        ELSE [y EXCEPT !.closed = TRUE]

(* The callback of script_verify_request.                                  *)
verify_request(x) == [x EXCEPT !.count = @ + 1]

start_state(x) == IF x.type = "HTTP_REQUEST" THEN "s_start_req" ELSE "s_start_res"
NEW_MESSAGE(x) == IF http_should_keep_alive(x) THEN start_state(x) ELSE "s_dead"
MessageComplete(x) ==
    LET y == UpdateState(x, NEW_MESSAGE(x)) IN
    IF x.type = "HTTP_REQUEST" THEN verify_request(y) ELSE response_complete(y)

---------------------------------------------------------------------------
(* The states of the parser: what each does with the symbol ch at p.       *)

StartRes(x, ch) ==
    LET y == [x EXCEPT !.flags = {}, !.content_length = ULLONG_MAX]
    IN  IF ch \in {"CR", "LF"} THEN y
        ELSE Expect(y, ch, {"H"}, "s_res_H", "INVALID_CONSTANT")

VersionDigit(x, ch, f, next) ==
    IF ch \in Digits THEN [x EXCEPT ![f] = unhex[ch], !.state = next]
    ELSE Error(x, "INVALID_VERSION")

Version(x, ch) ==
    CASE x.state = "s_res_H" -> StrictCheck(x, ch, "TTP", "s_res_HTTP")
      [] x.state = "s_res_HTTP" -> StrictCheck(x, ch, "/", "s_res_http_major")
      [] x.state = "s_res_http_major" -> VersionDigit(x, ch, "http_major", "s_res_http_dot")
      [] x.state = "s_res_http_dot" ->
           Expect(x, ch, {"."}, "s_res_http_minor", "INVALID_VERSION")
      [] x.state = "s_res_http_minor" -> VersionDigit(x, ch, "http_minor", "s_res_http_end")
      [] OTHER ->
           Expect(x, ch, {"SP"}, "s_res_first_status_code", "INVALID_VERSION")

FirstStatusCode(x, ch) ==
    IF ch \in Digits
    THEN [x EXCEPT !.status_code = unhex[ch], !.state = "s_res_status_code"]
    ELSE IF ch = "SP" THEN x ELSE Error(x, "INVALID_STATUS")

StatusCode(x, ch) ==
    IF ch \in Digits
    THEN LET y == [x EXCEPT !.status_code = 10 * @ + unhex[ch]]
         IN  IF y.status_code > 999 THEN Error(y, "INVALID_STATUS") ELSE y
    ELSE CASE ch = "SP" -> UpdateState(x, "s_res_status_start")
           [] ch \in {"CR", "LF"} -> Reexecute(x, "s_res_status_start")
           [] OTHER -> Error(x, "INVALID_STATUS")

StatusText(x, ch) ==
    CASE x.state = "s_res_status_start" ->
           IF ch \in {"CR", "LF"} THEN Reexecute(x, "s_res_status")
           ELSE UpdateState(x, "s_res_status")
      [] x.state = "s_res_status" ->
           IF ch = "CR" THEN UpdateState(x, "s_res_line_almost_done")
           ELSE IF ch = "LF" THEN UpdateState(x, "s_header_field_start") ELSE x
      [] OTHER -> StrictCheck(x, ch, "LF", "s_header_field_start")

---------------------------------------------------------------------------
(* The first line of a request.                                            *)

(* The method is found letter by letter: a first guess by the first letter,*)
(* corrected where the letters of two methods part.                        *)
LettersOf(word) == [i \in 1 .. Len(word) |-> SubSeq(word, i, i)]
FirstGuess ==
    [A |-> "ACL", B |-> "BIND", C |-> "CONNECT", D |-> "DELETE", G |-> "GET",
     H |-> "HEAD", L |-> "LOCK", M |-> "MKCOL", N |-> "NOTIFY", O |-> "OPTIONS",
     P |-> "POST", R |-> "REPORT", S |-> "SUBSCRIBE", T |-> "TRACE", U |-> "UNLOCK"]
Corrections ==
    (<<"POST", 1, "U">> :> "PUT") @@ (<<"POST", 1, "A">> :> "PATCH")
    @@ (<<"POST", 1, "R">> :> "PROPFIND") @@ (<<"PUT", 2, "R">> :> "PURGE")
    @@ (<<"CONNECT", 1, "H">> :> "CHECKOUT") @@ (<<"CONNECT", 2, "P">> :> "COPY")
    @@ (<<"MKCOL", 1, "O">> :> "MOVE") @@ (<<"MKCOL", 1, "E">> :> "MERGE")
    @@ (<<"MKCOL", 1, "-">> :> "M-SEARCH") @@ (<<"MKCOL", 2, "A">> :> "MKACTIVITY")
    @@ (<<"MKCOL", 3, "A">> :> "MKCALENDAR") @@ (<<"SUBSCRIBE", 1, "E">> :> "SEARCH")
    @@ (<<"REPORT", 2, "B">> :> "REBIND") @@ (<<"PROPFIND", 4, "P">> :> "PROPPATCH")
    @@ (<<"LOCK", 1, "I">> :> "LINK") @@ (<<"UNLOCK", 2, "S">> :> "UNSUBSCRIBE")
    @@ (<<"UNLOCK", 2, "B">> :> "UNBIND") @@ (<<"UNLOCK", 3, "I">> :> "UNLINK")

StartReq(x, ch) ==
    LET y == [x EXCEPT !.flags = {}, !.content_length = ULLONG_MAX] IN
    CASE ch \in {"CR", "LF"} -> x
      [] ch \in DOMAIN FirstGuess ->
           [y EXCEPT !.method = FirstGuess[ch], !.index = 1, !.state = "s_req_method"]
      [] OTHER -> Error(y, "INVALID_METHOD")

ReqMethod(x, ch) ==
    LET y    == [x EXCEPT !.index = @ + 1]
        word == LettersOf(x.method)
        part == <<x.method, x.index, ch>>
    IN  CASE ch = "SP" /\ x.index = Len(word) -> UpdateState(y, "s_req_spaces_before_url")
          [] x.index < Len(word) /\ ch = word[x.index + 1] -> y
          [] part \in DOMAIN Corrections -> [y EXCEPT !.method = Corrections[part]]
          [] OTHER -> Error(x, "INVALID_METHOD")

Url == INSTANCE UrlParser WITH Words <- {}, Letters <- {"x"}, Numbers <- Digits,
                               Secure <- {}, PortOf <- unhex

(* One more symbol of the URL, from the state s.                           *)
UrlSymbol(x, s, ch) ==
    LET no   == ch \in {"SP", "CR", "LF", "DEL", "NUL"}
        next == Url!parse_url_char(s, IF no THEN " " ELSE ch)
    IN  IF next = "s_dead" THEN Error(x, "INVALID_URL") ELSE UpdateState(x, next)

SpacesBeforeUrl(x, ch) ==
    LET s == IF x.method = "CONNECT" THEN "s_req_server_start" ELSE x.state
    IN  IF ch = "SP" THEN x
        ELSE UrlSymbol([x EXCEPT !.url_mark = IF @ = 0 THEN x.p ELSE @], s, ch)

InUrlStart == {"s_req_schema", "s_req_schema_slash", "s_req_schema_slash_slash",
               "s_req_server_start"}
InUrl      == {"s_req_server", "s_req_server_with_at", "s_req_path",
               "s_req_query_string_start", "s_req_query_string",
               "s_req_fragment_start", "s_req_fragment"}

(* The URL ends at a space or, in HTTP/0.9, at the end of the line.        *)
UrlOrEnd(x, ch) ==
    LET y == [x EXCEPT !.url_mark = 0]
        z == [y EXCEPT !.http_major = 0, !.http_minor = 9]
    IN  CASE ch = "SP" -> UpdateState(y, "s_req_http_start")
          [] ch = "CR" -> UpdateState(z, "s_req_line_almost_done")
          [] ch = "LF" -> UpdateState(z, "s_header_field_start")
          [] OTHER -> UrlSymbol(x, x.state, ch)

InReqVersion == {"s_req_http_start", "s_req_http_H", "s_req_http_HTTP", "s_req_http_major",
                 "s_req_http_dot", "s_req_http_minor", "s_req_http_end",
                 "s_req_line_almost_done"}

ReqVersion(x, ch) ==
    CASE x.state = "s_req_http_start" ->
           IF ch = "SP" THEN x ELSE Expect(x, ch, {"H"}, "s_req_http_H", "INVALID_CONSTANT")
      [] x.state = "s_req_http_H" -> StrictCheck(x, ch, "TTP", "s_req_http_HTTP")
      [] x.state = "s_req_http_HTTP" -> StrictCheck(x, ch, "/", "s_req_http_major")
      [] x.state = "s_req_http_major" -> VersionDigit(x, ch, "http_major", "s_req_http_dot")
      [] x.state = "s_req_http_dot" ->
           Expect(x, ch, {"."}, "s_req_http_minor", "INVALID_VERSION")
      [] x.state = "s_req_http_minor" -> VersionDigit(x, ch, "http_minor", "s_req_http_end")
      [] x.state = "s_req_http_end" ->
           IF ch = "CR" THEN UpdateState(x, "s_req_line_almost_done")
           ELSE Expect(x, ch, {"LF"}, "s_header_field_start", "INVALID_VERSION")
      [] OTHER -> Expect(x, ch, {"LF"}, "s_header_field_start", "LF_EXPECTED")

---------------------------------------------------------------------------
(* Headers and bodies.                                                     *)

(* The header_states that match a word: one symbol more of it.  `words`    *)
(* are the words that are looked for, `other` the state without a match.   *)
Match(x, ch, matching, words, other) ==
    LET m == Append(x.matched, ch) IN
    IF m \in DOMAIN words THEN [x EXCEPT !.header_state = words[m], !.matched = m]
    ELSE IF \E w \in DOMAIN words : IsPrefix(m, w)
    THEN [x EXCEPT !.header_state = matching, !.matched = m]
    ELSE [x EXCEPT !.header_state = other]

NameSymbol(x, ch) ==
    IF x.header_state = "h_matching_field"
    THEN Match(x, ch, "h_matching_field", FieldWords, "h_general")
    ELSE [x EXCEPT !.header_state = "h_general"]

HeaderFieldStart(x, ch) ==
    CASE ch = "CR" -> UpdateState(x, "s_headers_almost_done")
      [] ch = "LF" -> Reexecute(x, "s_headers_almost_done")
      [] ch \notin {"CR", "LF"} /\ ~IsToken(ch) -> Error(x, "INVALID_HEADER_TOKEN")
      [] OTHER ->
           Match([x EXCEPT !.header_field_mark = IF @ = 0 THEN x.p ELSE @,
                           !.matched = <<>>, !.state = "s_header_field"],
                 ch, "h_matching_field", FieldWords, "h_general")

(* The first place from p on where a name, or a value, ends.               *)
FirstIn(at, data) == IF at = {} THEN Len(data) + 1 ELSE Min(at)
NameEnd(data, p)  == FirstIn({i \in p .. Len(data) : ~IsToken(data[i])}, data)
ValueEnd(data, p) == FirstIn({i \in p .. Len(data) : data[i] \in {"CR", "LF"}}, data)

HeaderField(x, data) ==
    LET end  == NameEnd(data, x.p)
        read == FoldLeft(NameSymbol, x, SubSeq(data, x.p, end - 1))
        y    == CountHeaderSize([read EXCEPT !.p = end], end - x.p)
    IN  CASE y.ret # Running -> y
          [] y.ret = Running /\ end > Len(data) -> [y EXCEPT !.p = end - 1]
          [] y.ret = Running /\ end <= Len(data) ->
               IF data[end] = ":"
               THEN header_field(UpdateState(y, "s_header_value_discard_ws"), data, end)
               ELSE Error(y, "INVALID_HEADER_TOKEN")

(* A bug to catch: the length wraps around.                                *)
AddDigitWraps(x, base, d) ==
    [x EXCEPT !.content_length = (base * @ + d) % (ULLONG_MAX + 1)]

(* One more digit of a length; the test is against a conservative limit.   *)
AddDigit(x, base, d) ==
    IF (ULLONG_MAX - base) \div base < x.content_length
    THEN Error(x, "INVALID_CONTENT_LENGTH")
    ELSE [x EXCEPT !.content_length = (base * @ + d) % (ULLONG_MAX + 1)]

HeaderValueStart(x, ch) ==
    LET y == [x EXCEPT !.header_value_mark = IF @ = 0 THEN x.p ELSE @,
                       !.state = "s_header_value", !.matched = <<>>]
    IN  CASE x.header_state = "h_upgrade" ->
               [y EXCEPT !.flags = @ \cup {"F_UPGRADE"}, !.header_state = "h_general"]
          [] x.header_state = "h_transfer_encoding" ->
               Match(y, ch, "h_matching_chunked", CodingWords, "h_general")
          [] x.header_state = "h_content_length" ->
               IF ch \notin Digits THEN Error(y, "INVALID_CONTENT_LENGTH")
               ELSE IF "F_CONTENTLENGTH" \in x.flags
               THEN Error(y, "UNEXPECTED_CONTENT_LENGTH")
               ELSE [y EXCEPT !.flags = @ \cup {"F_CONTENTLENGTH"},
                              !.content_length = unhex[ch]]
          [] x.header_state = "h_connection" ->
               Match(y, ch, "h_matching_connection", ConnectionWords, "h_token")
          [] x.header_state = "h_token_start" -> y
          [] OTHER -> [y EXCEPT !.header_state = "h_general"]

DiscardWs(x, ch) ==
    CASE ch = "SP" -> x
      [] ch = "CR" -> UpdateState(x, "s_header_value_discard_ws_almost_done")
      [] ch = "LF" -> UpdateState(x, "s_header_value_discard_lws")
      [] OTHER -> HeaderValueStart(x, ch)

(* A symbol of a value that is looked at, in a header_state of its own.    *)
ValueSymbol(x, ch) ==
    CASE x.header_state = "h_content_length" ->
           IF ch = "SP" THEN x
           ELSE IF ch \notin Digits THEN Error(x, "INVALID_CONTENT_LENGTH")
           ELSE AddDigit(x, 10, unhex[ch])
      [] x.header_state = "h_matching_chunked" ->
           Match(x, ch, "h_matching_chunked", CodingWords, "h_general")
      [] x.header_state = "h_token_start" ->
           IF IsToken(ch)
           THEN Match(x, ch, "h_matching_connection", ConnectionWords, "h_token")
           ELSE IF ch = "SP" THEN x ELSE [x EXCEPT !.header_state = "h_general"]
      [] x.header_state = "h_matching_connection" ->
           Match(x, ch, "h_matching_connection", ConnectionWords, "h_token")
      [] x.header_state = "h_token" ->
           IF ch = "," THEN [x EXCEPT !.header_state = "h_token_start", !.matched = <<>>]
           ELSE x
      [] x.header_state = "h_transfer_encoding_chunked" ->
           IF ch = "SP" THEN x ELSE [x EXCEPT !.header_state = "h_general"]
      [] OTHER -> \* the three h_connection_* states: a whole word was read
           IF ch = "," THEN [x EXCEPT !.flags = @ \cup {FlagOf[x.header_state]},
                                      !.header_state = "h_token_start", !.matched = <<>>]
           ELSE IF ch = "SP" THEN x ELSE [x EXCEPT !.header_state = "h_token"]

(* The inner loop of s_header_value up to the end of the line or the data. *)
(* In h_general it skips ahead after one look at the character.            *)
RECURSIVE ValueLoop(_, _, _)
ValueLoop(x, data, end) ==
    IF x.p = end \/ x.ret # Running THEN x
    ELSE IF ~IsHeaderChar(data[x.p]) THEN Error(x, "INVALID_HEADER_TOKEN")
    ELSE IF x.header_state = "h_general" THEN [x EXCEPT !.p = end]
    ELSE ValueLoop([ValueSymbol(x, data[x.p]) EXCEPT !.p = @ + 1], data, end)

HeaderValue(x, data) ==
    LET end     == ValueEnd(data, x.p)
        y       == ValueLoop(x, data, end)
        done    == UpdateState(y, "s_header_almost_done")
        Count(z) == CountHeaderSize(z, end - x.p)
    IN  IF y.ret # Running THEN y
        ELSE IF end > Len(data) THEN [Count(y) EXCEPT !.p = end - 1]
        ELSE IF data[end] = "CR" THEN Count(header_value(done, data, end))
        ELSE IF Count(done).ret # Running THEN Count(done)
        ELSE [header_value(Count(done), data, end) EXCEPT !.again = TRUE]

(* The end of a header sets the flag that its value stands for.            *)
EndOfHeader(x) ==
    IF x.header_state \in DOMAIN FlagOf
    THEN [x EXCEPT !.flags = @ \cup {FlagOf[x.header_state]}] ELSE x

HeaderValueLws(x, ch) ==
    IF ch = "SP" THEN Reexecute(x, "s_header_value_start")
    ELSE Reexecute(EndOfHeader(x), "s_header_field_start")

DiscardLws(x, ch, data) ==
    IF ch = "SP" THEN UpdateState(x, "s_header_value_discard_ws")
    ELSE LET y == [EndOfHeader(x) EXCEPT !.header_value_mark = x.p]
         IN  Reexecute(header_value(y, data, x.p), "s_header_field_start")

HeadersAlmostDone(x, ch) ==
    IF ch # "LF" THEN Error(x, "STRICT")
    ELSE IF "F_TRAILING" \in x.flags THEN Reexecute(x, "s_message_done")
    ELSE IF {"F_CHUNKED", "F_CONTENTLENGTH"} \subseteq x.flags
    THEN Error(x, "UNEXPECTED_CONTENT_LENGTH")
    ELSE Reexecute([x EXCEPT !.upgrade =
                        IF {"F_UPGRADE", "F_CONNECTION_UPGRADE"} \subseteq x.flags
                        THEN x.type = "HTTP_REQUEST" \/ x.status_code = 101
                        ELSE x.method = "CONNECT"], "s_headers_done")

HeadersDone(x0) ==
    LET x       == [x0 EXCEPT !.nread = 0]
        n       == x.content_length
        hasBody == "F_CHUNKED" \in x.flags \/ n \notin {0, ULLONG_MAX}
        leaves  == x.upgrade /\ (x.method = "CONNECT" \/ ~hasBody)
    IN  CASE leaves -> Return(MessageComplete(x), x.p)
          [] ~leaves /\ "F_CHUNKED" \in x.flags -> UpdateState(x, "s_chunk_size_start")
          [] ~leaves /\ "F_CHUNKED" \notin x.flags ->
               IF n \notin {0, ULLONG_MAX} THEN UpdateState(x, "s_body_identity")
               ELSE IF n = ULLONG_MAX /\ http_message_needs_eof(x)
               THEN UpdateState(x, "s_body_identity_eof")
               ELSE MessageComplete(x)

MarkBody(x) == [x EXCEPT !.body_mark = IF @ = 0 THEN x.p ELSE @]

(* A piece of a body of known length: to its end or that of the data.      *)
TakeBody(x, data) ==
    LET to_read == Min({x.content_length, Len(data) + 1 - x.p})
    IN  [Asserted(MarkBody(x), x.content_length \notin {0, ULLONG_MAX})
           EXCEPT !.content_length = @ - to_read, !.p = @ + to_read - 1]

BodyIdentity(x, data) ==
    LET y == TakeBody(x, data)
    IN  IF y.content_length > 0 THEN y
        ELSE Reexecute(response_body(y, data, y.p + 1), "s_message_done")

MessageDone(x) ==
    LET y == MessageComplete(x) IN IF y.upgrade THEN Return(y, x.p) ELSE y

ChunkSize(x, ch) ==
    CASE x.state = "s_chunk_size_start" ->
           LET y == Asserted(x, x.nread = 1 /\ "F_CHUNKED" \in x.flags) IN
           IF ch \notin HexDigits THEN Error(y, "INVALID_CHUNK_SIZE")
           ELSE [y EXCEPT !.content_length = unhex[ch], !.state = "s_chunk_size"]
      [] x.state = "s_chunk_size" ->
           LET y == Asserted(x, "F_CHUNKED" \in x.flags) IN
           CASE ch = "CR" -> UpdateState(y, "s_chunk_size_almost_done")
             [] ch \in HexDigits -> AddDigit(y, 16, unhex[ch])
             [] ch \in {";", "SP"} -> UpdateState(y, "s_chunk_parameters")
             [] OTHER -> Error(y, "INVALID_CHUNK_SIZE")
      [] OTHER -> \* s_chunk_parameters
           LET y == Asserted(x, "F_CHUNKED" \in x.flags) IN
           IF ch = "CR" THEN UpdateState(y, "s_chunk_size_almost_done") ELSE y

ChunkSizeAlmostDone(x, ch) ==
    LET y == Asserted(x, "F_CHUNKED" \in x.flags)
    IN  IF ch # "LF" THEN Error(y, "STRICT")
        ELSE IF y.content_length = 0
        THEN [y EXCEPT !.nread = 0, !.flags = @ \cup {"F_TRAILING"},
                       !.state = "s_header_field_start"]
        ELSE [y EXCEPT !.nread = 0, !.state = "s_chunk_data"]

ChunkData(x, data) ==
    LET y == TakeBody(Asserted(x, "F_CHUNKED" \in x.flags), data)
    IN  IF y.content_length = 0 THEN UpdateState(y, "s_chunk_data_almost_done") ELSE y

ChunkDataAlmostDone(x, ch, data) ==
    LET y == Asserted(x, x.content_length = 0 /\ "F_CHUNKED" \in x.flags)
    IN  IF ch # "CR" THEN Error(y, "STRICT")
        ELSE response_body(UpdateState(y, "s_chunk_data_done"), data, x.p)

ChunkDataDone(x, ch) ==
    LET y == Asserted(x, "F_CHUNKED" \in x.flags)
    IN  IF ch # "LF" THEN Error(y, "STRICT")
        ELSE [y EXCEPT !.nread = 0, !.state = "s_chunk_size_start"]

---------------------------------------------------------------------------
(* The loop over the data.                                                 *)

InVersion == {"s_res_H", "s_res_HTTP", "s_res_http_major", "s_res_http_dot",
              "s_res_http_minor", "s_res_http_end"}
InStatusText == {"s_res_status_start", "s_res_status", "s_res_line_almost_done"}
InChunkSize  == {"s_chunk_size_start", "s_chunk_size", "s_chunk_parameters"}
BodyStates   == {"s_chunk_data", "s_chunk_data_almost_done", "s_chunk_data_done",
                 "s_body_identity", "s_body_identity_eof", "s_message_done"}
(* A bug to catch: the states of the chunk size come after s_headers_done  *)
(* in the enumeration, whose order PARSING_HEADER relies on.               *)
ParsingHeaderMoved(state) == state \notin BodyStates \cup InChunkSize

ParsingHeader(state) == state \notin BodyStates

Dispatch(x, data) ==
    LET ch == data[x.p]
        s  == x.state
    IN  CASE s = "s_dead" ->
               IF ch \in {"CR", "LF"} THEN x ELSE Error(x, "CLOSED_CONNECTION")
          [] s = "s_start_req" -> StartReq(x, ch)
          [] s = "s_req_method" -> ReqMethod(x, ch)
          [] s = "s_req_spaces_before_url" -> SpacesBeforeUrl(x, ch)
          [] s \in InUrlStart -> UrlSymbol(x, s, ch)
          [] s \in InUrl -> UrlOrEnd(x, ch)
          [] s \in InReqVersion -> ReqVersion(x, ch)
          [] s = "s_start_res" -> StartRes(x, ch)
          [] s \in InVersion -> Version(x, ch)
          [] s = "s_res_first_status_code" -> FirstStatusCode(x, ch)
          [] s = "s_res_status_code" -> StatusCode(x, ch)
          [] s \in InStatusText -> StatusText(x, ch)
          [] s = "s_header_field_start" -> HeaderFieldStart(x, ch)
          [] s = "s_header_field" -> HeaderField(x, data)
          [] s = "s_header_value_discard_ws" -> DiscardWs(x, ch)
          [] s = "s_header_value_start" -> HeaderValueStart(x, ch)
          [] s = "s_header_value" -> HeaderValue(x, data)
          [] s = "s_header_almost_done" ->
               Expect(x, ch, {"LF"}, "s_header_value_lws", "LF_EXPECTED")
          [] s = "s_header_value_lws" -> HeaderValueLws(x, ch)
          [] s = "s_header_value_discard_ws_almost_done" ->
               StrictCheck(x, ch, "LF", "s_header_value_discard_lws")
          [] s = "s_header_value_discard_lws" -> DiscardLws(x, ch, data)
          [] s = "s_headers_almost_done" -> HeadersAlmostDone(x, ch)
          [] s = "s_headers_done" -> HeadersDone(x)
          [] s = "s_body_identity" -> BodyIdentity(x, data)
          [] s = "s_body_identity_eof" -> [MarkBody(x) EXCEPT !.p = Len(data)]
          [] s = "s_message_done" -> MessageDone(x)
          [] s \in InChunkSize -> ChunkSize(x, ch)
          [] s = "s_chunk_size_almost_done" -> ChunkSizeAlmostDone(x, ch)
          [] s = "s_chunk_data" -> ChunkData(x, data)
          [] s = "s_chunk_data_almost_done" -> ChunkDataAlmostDone(x, ch, data)
          [] OTHER -> ChunkDataDone(x, ch)

(* The callbacks for the marks that are left when the data ends.  wrk sets *)
(* no callback for the status; its mark is set exactly in s_res_status.    *)
LeftoverMarks(x, data) ==
    LET marks == Quantify({"header_field_mark", "header_value_mark", "url_mark", "body_mark"},
                          LAMBDA m : x[m] > 0)
                 + (IF x.state = "s_res_status" THEN 1 ELSE 0)
        end   == Len(data) + 1
        y     == header_value(header_field(Asserted(x, marks <= 1), data, end), data, end)
    IN  Return(response_body(y, data, end), Len(data))

RECURSIVE Loop(_, _)
Loop(x, data) ==
    LET counted == IF ParsingHeader(x.state) THEN CountHeaderSize(x, 1) ELSE x
        y       == IF x.again THEN [x EXCEPT !.again = FALSE] ELSE counted
        z       == Dispatch(y, data)
    IN  IF x.ret # Running THEN x
        ELSE IF x.p > Len(data) THEN LeftoverMarks(x, data)
        ELSE IF y.ret # Running THEN y
        ELSE Loop(IF z.again THEN z ELSE [z EXCEPT !.p = @ + 1], data)

(* A bug to catch: the end of the stream completes any body.               *)
ExecuteEofAnyBody(c) ==
    IF c.state \in BodyStates THEN Return(response_complete(c @@ Locals), 0)
    ELSE Return(c @@ Locals, 0)

(* http_parser_execute: of len = 0, and of data.                           *)
ExecuteEof(c) ==
    CASE c.state = "s_body_identity_eof" -> Return(response_complete(c @@ Locals), 0)
      [] c.state \in {"s_dead", "s_start_req", "s_start_res"} -> Return(c @@ Locals, 0)
      [] OTHER -> [c @@ Locals EXCEPT !.http_errno = "INVALID_EOF_STATE", !.ret = 1]

(* A bug to catch: a value that was cut is not picked up again.            *)
StartUnmarked(c) == c @@ Locals

Start(c) ==
    [c @@ Locals EXCEPT
       !.header_field_mark = IF c.state = "s_header_field" THEN 1 ELSE 0,
       !.header_value_mark = IF c.state = "s_header_value" THEN 1 ELSE 0,
       !.url_mark = IF c.state \in InUrlStart \cup InUrl THEN 1 ELSE 0]

http_parser_execute(c, data) ==
    IF c.http_errno # "OK" THEN Return(c @@ Locals, 0)
    ELSE IF data = <<>> THEN ExecuteEof(c)
    ELSE Loop(Start(c), data)
===========================================================================
