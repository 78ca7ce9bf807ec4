----------------------------- MODULE MCWrkMain ----------------------------
EXTENDS WrkMain, TLC

MCPortOf == ("0" :> 0) @@ ("80" :> 80) @@ ("70000" :> 70000)

Base == [schema |-> <<"http">>, userinfo |-> <<>>, literal |-> FALSE,
         host |-> <<"fe">>, port |-> <<>>, path |-> <<>>, query |-> <<>>,
         fragment |-> <<>>]

(* Runs with one thread, whose samples vary, and with several, whose steps *)
(* do.                                                                     *)
Load(threads, connections, responses, latencies, runtimes) ==
    [url |-> Render(Base), means |-> {Base},
     threads |-> threads, connections |-> connections, duration |-> 1, up |-> TRUE,
     calls |-> responses, values |-> latencies, runtimes |-> runtimes]

Loads == {Load(1, 1, 4, 0 .. 6, {4, 8, 12}), Load(1, 2, 4, {0, 2, 4, 5}, {2, 6}),
          Load(2, 2, 3, {0, 2, 3, 6}, {5}), Load(3, 3, 3, {1, 5}, {6})}

(* Command lines that are refused, or whose service is down.               *)
Refused(d, url) ==
    [url |-> url, means |-> d, threads |-> 1, connections |-> 1, duration |-> 1,
     up |-> FALSE, calls |-> 0, values |-> {}, runtimes |-> {}]

Options == {[Refused({Base}, Render(Base)) EXCEPT !.threads = t, !.connections = c, !.duration = d]
                : t \in 0 .. 2, c \in 0 .. 2, d \in 0 .. 1}

Rests == {[path |-> p, query |-> q, fragment |-> f] :
             p \in {<<>>, <<"/">>, <<"/", "fe">>, <<"/", "@", "fe", ":">>},
             q \in {<<>>, <<"?">>, <<"?", "80", "?">>},
             f \in {<<>>, <<"#">>, <<"#", "fe", "?">>}}

Written(s, u, h, p, r) ==
    [schema |-> s, userinfo |-> u, literal |-> h[1] = "[",
     host |-> IF h[1] = "[" THEN SubSeq(h, 2, Len(h) - 1) ELSE h, port |-> p,
     path |-> r.path, query |-> r.query, fragment |-> r.fragment]

Urls == {Written(s, u, h, p, r) :
           s \in {<<"http">>, <<"https">>},
           u \in {<<>>, <<"@">>, <<"fe", ":", "80", "@">>},
           h \in {<<"fe">>, <<"fe", ".", "80">>, <<"[", "fe", ":", "80", "]">>,
                  <<"[", ":", ":", "%", "http", "]">>},
           p \in {<<>>, <<"80">>},
           r \in {x \in Rests : x.path = <<>> => x.fragment = <<>> \/ x.query # <<>>}}

(* Every sequence of up to three symbols behind "http://" and behind       *)
(* "http://fe", with what it was written from when it is a URL: the parts  *)
(* are of every shape that fits.  Two runs of one class are one symbol.    *)
Symbols == {"fe", "80", "70000", ":", "@", "[", "]", "%", "_", "^", "/", "?", "#", " "}
Distinct(s) == \A k \in 1 .. Len(s) - 1 :
    \A class \in {Letters, Numbers} : ~(s[k] \in class /\ s[k + 1] \in class)
Behind == {s \in BoundedSeq(Symbols, 3) \cup {<<"fe">> \o x : x \in BoundedSeq(Symbols, 3)} : Distinct(s)}

Upto(S, k)  == IF k < 0 THEN {} ELSE BoundedSeq(S, k)
Opt(c, S, k) == {<<>>} \cup {<<c>> \o s : s \in Upto(S, k - 1)}

UserinfoPart == {<<>>} \cup {s \o <<"@">> : s \in Upto({"fe", "80", "70000", "_", "%", ":"}, 2)}
HostPart == (Upto({"fe", "80", "70000"}, 4)
                \cup {<<"[">> \o s \o <<"]">> : s \in Upto({"fe", "80", "70000", ":"}, 2) \ {<<>>}})
            \ {<<>>}
Authorities == {a \in UserinfoPart \X HostPart \X {<<>>, <<"80">>} :
                    Len(a[1]) + Len(a[2]) + Len(a[3]) <= 4}
RestsUpto(k) ==
    LET inPath  == Symbols \ {"?", "#", " "}
        inQuery == Symbols \ {"#", " "}
    IN  UNION {UNION {{[path |-> p, query |-> q, fragment |-> f] :
                  f \in IF p = <<>> /\ q = <<>> THEN {<<>>}
                        ELSE Opt("#", Symbols \ {" "}, k - Len(p) - Len(q))} :
                  q \in Opt("?", inQuery, k - Len(p))} :
               p \in Opt("/", inPath, k)}

ShortUrls ==
    UNION {{Written(<<"http">>, a[1], a[2], a[3], r) :
               r \in RestsUpto(4 - Len(a[1]) - Len(a[2]) - Len(a[3]))} : a \in Authorities}

ShortLines ==
    LET valid == {Refused({d}, Render(d)) : d \in {x \in ShortUrls : Distinct(Render(x))}}
    IN  valid \cup {Refused({}, url) :
            url \in {<<"http", ":", "/", "/">> \o s : s \in Behind} \ {l.url : l \in valid}}

Lines == Loads \cup Options \cup {Refused({d}, Render(d)) : d \in Urls} \cup ShortLines
===========================================================================
