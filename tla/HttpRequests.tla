--------------------------- MODULE HttpRequests ---------------------------
(***************************************************************************)
(* The run of HttpResponses from its beginning: main verifies the text     *)
(* that request() of the script returns, and takes the number of requests  *)
(* in it for the depth of the pipeline (script_verify_request, wrk.c:113); *)
(* only then do connections read responses.                                *)
(*                                                                         *)
(* As with responses, a text is built from descriptions of requests, which *)
(* say what a server would find in it.                                     *)
(***************************************************************************)
EXTENDS HttpResponses

CONSTANT Texts      \* what request() may return

---------------------------------------------------------------------------
(* A request is described by the empty lines before it, its method, letter *)
(* by letter, its url and version, and its fields and body as those of a   *)
(* response are; a text by requests, by a tail that belongs to none, and   *)
(* by how many symbols are missing at its end.                             *)
Versions == [v1_1 |-> <<"SP", "H", "TTP", "/", "1", ".", "1">>,
             v1_0 |-> <<"SP", "H", "TTP", "/", "1", ".", "0">>, v0_9 |-> <<>>]

RequestHeader(r) ==
    r.blank \o Line(r.method \o <<"SP">> \o r.url \o Versions[r.version])
        \o FlatMap(FieldLine, Fields(r)) \o Line(<<>>)
RequestBody(r) ==
    IF r.framing # "chunked" THEN Body(r)
    ELSE FlatMap(Chunk, r.body) \o Line(<<"0">>) \o Trailer(r)
EncodeRequest(r) == RequestHeader(r) \o RequestBody(r)

Composed(t) == FlatMap(EncodeRequest, t.requests) \o t.tail
TextLen(t)  == Len(Composed(t)) - t.missing
Text(t)     == SubSeq(Composed(t), 1, TextLen(t))

(* HTTP_METHOD_MAP: the methods there are.                                 *)
Methods ==
    {"DELETE", "GET", "HEAD", "POST", "PUT", "CONNECT", "OPTIONS", "TRACE", "COPY",
     "LOCK", "MKCOL", "MOVE", "PROPFIND", "PROPPATCH", "SEARCH", "UNLOCK", "BIND",
     "REBIND", "UNBIND", "ACL", "REPORT", "MKACTIVITY", "CHECKOUT", "MERGE",
     "M-SEARCH", "NOTIFY", "SUBSCRIBE", "UNSUBSCRIBE", "PATCH", "PURGE", "MKCALENDAR",
     "LINK", "UNLINK"}

(* What may come after a request: nothing, when it asks for another        *)
(* protocol; empty lines, when it closes the connection; or another one.   *)
Leaves(r) ==
    \/ r.method = LettersOf("CONNECT")
    \/ /\ UPGRADE \in Options(r.fields)
       /\ \E f \in Range(r.fields) : f[1] = UPGRADE /\ f[2] # <<>>
KeepsAlive(r) ==
    LET options == Options(r.fields \o r.trailers)
    IN  IF r.version = "v1_1" THEN CLOSE \notin options ELSE KEEP_ALIVE \in options
MayFollow(r, rest) ==
    CASE Leaves(r) -> rest = <<>>
      [] ~Leaves(r) /\ ~KeepsAlive(r) -> Range(rest) \subseteq {"CR", "LF"}
      [] OTHER -> TRUE

StartOfRequest(t, i) == Len(FlatMap(EncodeRequest, SubSeq(t.requests, 1, i - 1)))
EndOfRequest(t, i) ==
    LET r == t.requests[i]
    IN  StartOfRequest(t, i)
            + Len(IF r.method = LettersOf("CONNECT") THEN RequestHeader(r) ELSE EncodeRequest(r))
WholeRequests(t) == {i \in DOMAIN t.requests : EndOfRequest(t, i) <= TextLen(t)}

(* The text holds requests, and perhaps the beginning of one.              *)
WellFormed(t) ==
    /\ \A i \in DOMAIN t.requests :
         StartOfRequest(t, i) < TextLen(t) =>
           /\ t.requests[i].method \in {LettersOf(m) : m \in Methods}
           /\ Min({Len(RequestHeader(t.requests[i])), TextLen(t) - StartOfRequest(t, i)})
                <= HTTP_MAX_HEADER_SIZE
    /\ \A i \in WholeRequests(t) :
         MayFollow(t.requests[i], SubSeq(Composed(t), EndOfRequest(t, i) + 1, TextLen(t)))
    /\ Range(t.tail) \subseteq {"CR", "LF"} \/ t.missing > 0

---------------------------------------------------------------------------
VARIABLES
    text,       \* what request() returned to script_verify_request
    stage,      \* of main: "verify", "run", or "exit"
    depth       \* cfg.pipeline

verifyVars == <<text, stage, depth>>

RunInit ==
    /\ Init
    /\ text \in Texts /\ stage = "verify" /\ depth = 0

NewVerifier == http_parser_init(NewConnection(FALSE), "HTTP_REQUEST")

(* A bug to catch: what the parser did not take is not looked at.          *)
VerifyCountOnly ==
    /\ stage = "verify"
    /\ LET x == http_parser_execute(NewVerifier, Text(text)) IN
         IF x.count = 0 THEN stage' = "exit" /\ UNCHANGED depth
         ELSE stage' = "run" /\ depth' = x.count
    /\ UNCHANGED <<vars, text>>

(* script_verify_request: one call with all of the text.                   *)
script_verify_request ==
    /\ stage = "verify"
    /\ LET x == http_parser_execute(NewVerifier, Text(text)) IN
         IF x.ret # Len(Text(text)) \/ x.count = 0
         THEN stage' = "exit" /\ UNCHANGED depth
         ELSE stage' = "run" /\ depth' = x.count
    /\ UNCHANGED <<vars, text>>

Run == stage = "run" /\ Next /\ UNCHANGED verifyVars

RunNext == script_verify_request \/ Run

RunSpec == RunInit /\ [][RunNext]_<<vars, verifyVars>>

---------------------------------------------------------------------------
(* main goes on exactly with a text in which a server finds requests, and  *)
(* with the number that it finds: as many answers end a batch (wrk.c:400). *)
(* A text may end inside a request: only the whole ones count, and         *)
(* "incomplete request" (script.c:285) is for a text without any.          *)
DepthVerified ==
    LET whole == WholeRequests(text) IN
    CASE stage = "verify" -> TRUE
      [] stage = "run" -> WellFormed(text) /\ whole # {} /\ depth = Cardinality(whole)
      [] stage = "exit" -> ~WellFormed(text) \/ whole = {}
===========================================================================
