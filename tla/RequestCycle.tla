--------------------------- MODULE RequestCycle ---------------------------
(***************************************************************************)
(* What a connection of wrk promises, without sockets, buffers or an event *)
(* loop: it sends a batch of requests, gets one response for each, and only*)
(* then sends the next batch ("a call to request() and response() for each *)
(* request cycle", wrk/SCRIPTING:72-73).  A connection may be lost at any  *)
(* moment, with what was due on it, and is then made anew.  Connections do *)
(* not touch each other: each step is of one connection.                   *)
(***************************************************************************)
EXTENDS Integers

CONSTANT Conns

VARIABLES
    pipeline,   \* requests in a batch, fixed in a behaviour
    up,         \* the connections that work
    due         \* due[c]: responses still to come for the batch of c

vars == <<pipeline, up, due>>

Init ==
    /\ pipeline \in Nat \ {0}
    /\ up = {}
    /\ due = [c \in Conns |-> 0]

Connect(c) == c \notin up /\ up' = up \cup {c} /\ due' = due

Send(c) ==
    /\ c \in up /\ due[c] = 0
    /\ due' = [due EXCEPT ![c] = pipeline]
    /\ up' = up

Receive(c) ==
    /\ c \in up /\ due[c] > 0
    /\ due' = [due EXCEPT ![c] = @ - 1]
    /\ up' = up

Lose(c) ==
    /\ c \in up
    /\ up' = up \ {c}
    /\ due' = [due EXCEPT ![c] = 0]

Next ==
    /\ \E c \in Conns : Connect(c) \/ Send(c) \/ Receive(c) \/ Lose(c)
    /\ UNCHANGED pipeline

Spec == Init /\ [][Next]_vars
===========================================================================
