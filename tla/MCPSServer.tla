----------------------------- MODULE MCPSServer -----------------------------
(* Small instances of PSServer: orderly and faulty clients, tables that never *)
(* fill and tables that do.  What two connections do to each other takes two  *)
(* requests on each, what mixed requests do to one takes three.               *)
EXTENDS PSServer, TLC

CONSTANTS c1, c2, c3

Orderlies == [conns |-> {c1, c2}, max_fds |-> 5, max_connections |-> 2,
              ops |-> {"sparse"}, requests |-> 2, faults |-> {}, modulus |-> 4]

Mixed == [Orderlies EXCEPT !.ops = {"gradient", "sparse"}, !.requests = 1]

Alone(c) == [Orderlies EXCEPT !.conns = {c}, !.ops = {"gradient", "sparse"},
                              !.requests = 3]

(* A client that may do anything, KILL_SIGNAL included, and two that close in *)
(* the middle of a request or are reset.  How many connections the server     *)
(* counts plays no part here.                                                 *)
Rogue(c) == [conns |-> {c}, max_fds |-> 5, max_connections |-> 2,
             ops |-> {"sparse", "mfsparse", "info", "kill"}, requests |-> 2,
             faults |-> {"early", "reset"}, modulus |-> 1]

Early == [Rogue(c1) EXCEPT !.conns = {c1, c2}, !.ops = {"mfsparse"}, !.requests = 1,
                       !.faults = {"early"}]

Killed == [Early EXCEPT !.ops = {"info"}, !.faults = {"reset"}]

(* Connections come and go and fill tables of n slots: with three, thread 0   *)
(* accepts into the other table while it is purged; with four, the purge of   *)
(* its own has something to move.                                             *)
Crowd(n) == [conns |-> {c1, c2, c3}, max_fds |-> n, max_connections |-> 3,
             ops |-> {"gradient"}, requests |-> 0, faults |-> {}, modulus |-> 1]

SafetySetups == {Orderlies, Mixed, Early, Killed, Crowd(3), Crowd(4)}
                  \union {Alone(c) : c \in {c1, c2}} \union {Rogue(c) : c \in {c1, c2}}

LiveSetups == {[Orderlies EXCEPT !.requests = 1]}

SlotsSetups == {[Crowd(4) EXCEPT !.ops = {"sparse"}, !.requests = 1]}

(* Workers are interchangeable, and so are the connections that every set of  *)
(* setups treats alike.                                                       *)
Symmetric == Permutations(Workers) \union Permutations({c1, c2})
=============================================================================
