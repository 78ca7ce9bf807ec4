----------------------------- MODULE UrlParser ----------------------------
(***************************************************************************)
(* The URL of the command line: http_parser_parse_url                      *)
(* (wrk/src/http_parser.c), the parts wrk copies from it (wrk/src/wrk.c,   *)
(* wrk/src/script.c) and the Host header wrk.init makes of them            *)
(* (wrk/src/wrk.lua).                                                      *)
(*                                                                         *)
(* A URL is a sequence of symbols.  A symbol is a run of characters that   *)
(* the parser cannot tell apart (a word, a number) or a single delimiter;  *)
(* offsets and lengths count symbols.                                      *)
(***************************************************************************)
EXTENDS Naturals, SequencesExt

CONSTANTS
    Words,      \* runs of hexadecimal letters
    Letters,    \* runs of letters, Words among them
    Numbers,    \* runs of digits
    Secure,     \* the words that begin with "https"
    PortOf      \* [Numbers -> Nat]: what strtoul makes of a run of digits

AlphaNum   == Letters \cup Numbers
Delimiters == {":", "/", "@", "[", "]", "?", "#", "%", ".", "-", "_", "*", "^", " "}
Chars      == AlphaNum \cup Delimiters

ASSUME UrlAssumption ==
    /\ Words \subseteq Letters /\ Secure \subseteq Letters
    /\ AlphaNum \cap Delimiters = {}
    /\ PortOf \in [Numbers -> Nat]

IsUserinfo   == AlphaNum \cup {".", "-", "_", "%", ":", "*"}
IsHostChar   == AlphaNum \cup {".", "-"}        \* no underscore: strict mode
IsHex        == Words \cup Numbers
IsZoneChar   == AlphaNum \cup {".", "-", "_", "%"}
UrlChars     == Chars \ {"#", "?", " "}         \* " ": what no URL may contain

---------------------------------------------------------------------------
(* parse_url_char: the state a symbol leads to.                            *)
AfterServer(c) ==
    CASE c = "/" -> "s_req_path"
      [] c = "?" -> "s_req_query_string_start"
      [] c = "@" -> "s_req_server_with_at"
      [] c \in IsUserinfo \cup {"[", "]"} -> "s_req_server"
      [] OTHER -> "s_dead"

InServer == {"s_req_server_start", "s_req_server", "s_req_server_with_at"}
InQuery  == {"s_req_query_string_start", "s_req_query_string"}
InFragment == {"s_req_fragment_start", "s_req_fragment"}

AfterQuery(c)    == IF c = "#" THEN "s_req_fragment_start" ELSE "s_req_query_string"
AfterPath(c)     == IF c = "?" THEN "s_req_query_string_start"
                    ELSE IF c = "#" THEN "s_req_fragment_start" ELSE "s_req_path"
AfterFragment(s, c) == IF s = "s_req_fragment_start" /\ c = "#" THEN s ELSE "s_req_fragment"

parse_url_char(s, c) ==
    IF c = " " THEN "s_dead" ELSE
    CASE s = "s_req_spaces_before_url" /\ c \in {"/", "*"} -> "s_req_path"
      [] s \in {"s_req_spaces_before_url", "s_req_schema"} /\ c \in Letters -> "s_req_schema"
      [] s = "s_req_schema" /\ c = ":" -> "s_req_schema_slash"
      [] s = "s_req_schema_slash" /\ c = "/" -> "s_req_schema_slash_slash"
      [] s = "s_req_schema_slash_slash" /\ c = "/" -> "s_req_server_start"
      [] s \in InServer /\ ~(s = "s_req_server_with_at" /\ c = "@") -> AfterServer(c)
      [] s = "s_req_path" -> AfterPath(c)
      [] s \in InQuery -> AfterQuery(c)
      [] s \in InFragment -> AfterFragment(s, c)
      [] OTHER -> "s_dead"

(* The field a state belongs to; the other states are skipped.             *)
FieldOf(s) ==
    CASE s = "s_req_schema" -> "SCHEMA"
      [] s \in {"s_req_server", "s_req_server_with_at"} -> "HOST"
      [] s = "s_req_path" -> "PATH"
      [] s = "s_req_query_string" -> "QUERY"
      [] s = "s_req_fragment" -> "FRAGMENT"
      [] OTHER -> "none"

Fields  == {"SCHEMA", "HOST", "PORT", "PATH", "QUERY", "FRAGMENT", "USERINFO"}
NoField == [off |-> 0, len |-> 0]       \* not in field_set: no length

Extend(field, at) ==
    IF field.len = 0 THEN [off |-> at, len |-> 1]
    ELSE [field EXCEPT !.len = @ + 1]

(* The loop of http_parser_parse_url: one symbol, and what it has found    *)
(* after each symbol of url.                                               *)
UrlStep(u, c, at) ==
    LET s == parse_url_char(u.state, c)
        f == FieldOf(s)
    IN  [state    |-> s,
         found_at |-> u.found_at \/ s = "s_req_server_with_at",
         data     |-> IF f = "none" THEN u.data
                      ELSE [u.data EXCEPT ![f] = Extend(@, at)]]

UrlStart == [state |-> "s_req_spaces_before_url", found_at |-> FALSE,
             data  |-> [f \in Fields |-> NoField]]

UrlScan(url) ==
    LET after[k \in 0 .. Len(url)] ==
            IF k = 0 THEN UrlStart ELSE UrlStep(after[k - 1], url[k], k)
    IN  after

ScanUrl(url) == UrlScan(url)[Len(url)]

---------------------------------------------------------------------------
(* http_parse_host_char                                                    *)
http_parse_host_char(s, c) ==
    CASE s \in {"userinfo_start", "userinfo"} /\ c = "@" -> "host_start"
      [] s \in {"userinfo_start", "userinfo"} /\ c \in IsUserinfo -> "userinfo"
      [] s = "host_start" /\ c = "[" -> "v6_start"
      [] s \in {"host_start", "host"} /\ c \in IsHostChar -> "host"
      [] s \in {"host", "v6_end"} /\ c = ":" -> "port_start"
      [] s \in {"v6", "zone"} /\ c = "]" -> "v6_end"
      [] s \in {"v6_start", "v6"} /\ c \in IsHex \cup {":", "."} -> "v6"
      [] s = "v6" /\ c = "%" -> "zone_start"
      [] s \in {"zone_start", "zone"} /\ c \in IsZoneChar -> "zone"
      [] s \in {"port_start", "port"} /\ c \in Numbers -> "port"
      [] OTHER -> "dead"

HostFieldOf(s) ==
    CASE s \in {"host", "v6", "zone_start", "zone"} -> "HOST"
      [] s = "port" -> "PORT"
      [] s = "userinfo" -> "USERINFO"
      [] OTHER -> "none"

(* Mutant: a colon without a port ends the host.                           *)
HostEnds_OpenPort == {"host", "v6_end", "port", "port_start"}

HostEnds == {"host", "v6_end", "port"}

(* http_parse_host: what the first pass took for the host is split again.  *)
HostStep(h, c, at) ==
    LET s == http_parse_host_char(h.state, c)
        f == HostFieldOf(s)
    IN  [state |-> s,
         data  |-> IF f = "none" THEN h.data ELSE [h.data EXCEPT ![f] = Extend(@, at)]]

HostStart(u) == [state |-> IF u.found_at THEN "userinfo_start" ELSE "host_start",
                 data  |-> [u.data EXCEPT !["HOST"] = NoField]]

HostScan(url, u) ==
    LET host == u.data["HOST"]
        after[k \in 0 .. host.len] ==
            IF k = 0 THEN HostStart(u)
            ELSE HostStep(after[k - 1], url[host.off + k - 1], host.off + k - 1)
    IN  after

ParseHost(url, u) == HostScan(url, u)[u.data["HOST"].len]

(* copy_url_part, push_url_part                                            *)
Part(url, data, f) == SubSeq(url, data[f].off, data[f].off + data[f].len - 1)

(* The number strtoul reads from the port field, which is one symbol.      *)
PortNumber(url, data) == IF data["PORT"].len = 0 THEN 0 ELSE PortOf[url[data["PORT"].off]]

(* http_parser_parse_url and script_parse_url                              *)
script_parse_url(url) ==
    LET u == ScanUrl(url)
        h == ParseHost(url, u)
    IN  [ok   |-> /\ u.state # "s_dead"
                  /\ u.data["SCHEMA"].len > 0 /\ u.data["HOST"].len > 0
                  /\ h.state \in HostEnds
                  /\ PortNumber(url, h.data) <= 65535,
         data |-> h.data]

---------------------------------------------------------------------------
(* script_create: the path of the requests is the URL from its path on,    *)
(* with the query and the fragment; without a path it is "/", whatever     *)
(* query follows.                                                          *)
Path(url, data) ==
    IF data["PATH"].len = 0 THEN <<"/">> ELSE SubSeq(url, data["PATH"].off, Len(url))

(* wrk.init                                                                *)
HostHeader(host, port) ==
    (IF Contains(host, ":") THEN <<"[">> \o host \o <<"]">> ELSE host)
        \o (IF port = <<>> THEN <<>> ELSE <<":">> \o port)

(* What main and script_create take from a URL that parsed.                *)
Target(url, data) ==
    LET schema == Part(url, data, "SCHEMA")
        host   == Part(url, data, "HOST")
        port   == Part(url, data, "PORT")
    IN  [ssl     |-> schema[1] \in Secure,
         host    |-> host,
         service |-> IF port = <<>> THEN schema ELSE port,
         path    |-> Path(url, data),
         header  |-> HostHeader(host, port)]

---------------------------------------------------------------------------
(* The grammar the parser is checked against: a URL is written from its    *)
(* parts, each with its own delimiters ("@", "[" and "]", ":", "?", "#").  *)
Render(d) ==
    d.schema \o <<":", "/", "/">> \o d.userinfo
        \o (IF d.literal THEN <<"[">> \o d.host \o <<"]">> ELSE d.host)
        \o (IF d.port = <<>> THEN <<>> ELSE <<":">> \o d.port)
        \o d.path \o d.query \o d.fragment

(* The parts of a well-formed URL.  A symbol is a whole run, so a port is  *)
(* one symbol.                                                             *)
IsLiteral(h) == \E k \in 1 .. Len(h) :
    /\ \A j \in 1 .. k : h[j] \in IsHex \cup {":", "."}
    /\ k < Len(h) => /\ h[k + 1] = "%" /\ k + 1 < Len(h)
                     /\ \A j \in k + 2 .. Len(h) : h[j] \in IsZoneChar

WellFormed(d) ==
    /\ d.schema \in Seq(Letters) \ {<<>>}
    /\ d.userinfo # <<>> =>
          Last(d.userinfo) = "@" /\ Front(d.userinfo) \in Seq(IsUserinfo)
    /\ d.literal \in BOOLEAN /\ d.host \in Seq(Chars) \ {<<>>}
    /\ IF d.literal THEN IsLiteral(d.host) ELSE d.host \in Seq(IsHostChar)
    /\ d.port # <<>> => \E n \in Numbers : d.port = <<n>> /\ PortOf[n] <= 65535
    /\ d.path # <<>> => Head(d.path) = "/" /\ Tail(d.path) \in Seq(UrlChars)
    /\ d.query # <<>> => Head(d.query) = "?" /\ Tail(d.query) \in Seq(UrlChars \cup {"?"})
    /\ d.fragment # <<>> =>
          /\ d.path # <<>> \/ d.query # <<>>
          /\ Head(d.fragment) = "#" /\ Tail(d.fragment) \in Seq(UrlChars \cup {"?", "#"})
    /\ <<d.userinfo, d.path, d.query, d.fragment>> \in Seq(Seq(Chars))

(* Two runs of digits side by side are one.                                *)
NumbersApart(url) == \A k \in 1 .. Len(url) - 1 : ~(url[k] \in Numbers /\ url[k + 1] \in Numbers)

(* Where a load described by d has to go.                                  *)
Meant(d) ==
    [ssl     |-> d.schema[1] \in Secure,
     host    |-> d.host,
     service |-> IF d.port = <<>> THEN d.schema ELSE d.port,
     path    |-> IF d.path = <<>> THEN <<"/">> ELSE d.path \o d.query \o d.fragment,
     header  |-> HostHeader(d.host, d.port)]
===========================================================================
