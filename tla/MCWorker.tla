----------------------------- MODULE MCWorker -----------------------------
(* Values for the constants of Worker: the configurations of the runs, and *)
(* the symmetry of the runs that check no liveness, in which the           *)
(* connections are interchangeable.                                        *)
EXTENDS Worker, TLC

HandlerProcs == {"socket_connected", "socket_writeable", "socket_readable"}
Symmetry     == Permutations(Conns)

(* The plain configuration with n connections and the given faults.        *)
Plain(n, faults) ==
    [api : {"epoll"}, conns : {C \in SUBSET Conns : Cardinality(C) = n},
     pipeline : {1}, delay : {FALSE}, ssl : {FALSE}, answers : {{"K", "C"}},
     faults : {faults}]

Cuts       == {"refuse", "close"}
AnyAnswers == {"K", "C", "E", "X"}

Faulty    == Plain(2, Cuts \cup {"sync", "early", "partial"})
Pipelined == {[g EXCEPT !.pipeline = 2, !.answers = AnyAnswers] :
                 g \in Plain(1, Cuts \cup {"sync", "partial", "old"})}
KeepAlive == {[g EXCEPT !.answers = {"K"}] : g \in Plain(2, Cuts)}
Secure    == {[g EXCEPT !.ssl = TRUE] : g \in Plain(2, Cuts \cup {"sync"})}
OnApi(a)  == {[g EXCEPT !.api = a] : g \in Plain(2, Cuts \cup {"sync"})}
Delayed   == {[g EXCEPT !.delay = TRUE, !.answers = AnyAnswers] :
                 g \in Plain(2, {}) \cup Plain(1, Cuts)}

EveryConfig == Faulty \cup Pipelined \cup KeepAlive \cup Secure \cup Delayed
                  \cup OnApi("kqueue") \cup OnApi("select") \cup OnApi("evport")

(* For progress: the server cuts no connection and takes every request, or *)
(* it cuts the only one at will.                                           *)
Served == UNION {{[g EXCEPT !.delay = d, !.api = a] : g \in Plain(2, {}) \cup Plain(1, Cuts)} :
                    d \in BOOLEAN, a \in Backends}

(* For the runs that refute a claim.                                       *)
CutDelayed  == {[g EXCEPT !.delay = TRUE] : g \in Plain(1, {"close"})}
NeverServed == Plain(1, {"old"})
===========================================================================
