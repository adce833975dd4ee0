--------------------------- MODULE MCTaskRegistry ---------------------------
(* Either two invocations of one task, which compete for it, one of them with *)
(* time for a tick of the clock; or one invocation of each of two tasks,      *)
(* which the lifetime check meets together.                                   *)
EXTENDS TaskRegistry

CONSTANTS i1, i2, i3

MCInvocations == {i1, i2, i3}
MCTaskOf == [i \in MCInvocations |-> IF i = i3 THEN 2 ELSE 1]
MCLife == [i \in MCInvocations |-> IF i = i1 THEN 1 ELSE 0]
MCStarted == {{i1, i2}, {i2, i3}}
=============================================================================
