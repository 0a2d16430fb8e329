---------------------------- MODULE MCRelayServer ----------------------------
(* Three connections: two of endpoint a, which has reconnected, one of b. *)
EXTENDS RelayServer, TLC

CONSTANTS a1, a2, b1

MCConns == {a1, a2, b1}
MCPair  == {a1, b1}
MCOwnerOf(c) == IF c = b1 THEN "b" ELSE "a"
MCAddrs == {"a", "b"}

Ping    == [type |-> "ping", dst |-> "a"]
Data(d) == [type |-> "data", dst |-> d]

\* a's clients ping and write to b, b writes to a.
MCRequestsOf(c) == IF c = b1 THEN {Data("a")} ELSE {Ping, Data("b")}

\* Both clients ping and write to the other: the mutex of either session is
\* taken by its own handler for a pong and by the other for data.
MCBoth(c) == {Ping, Data(IF c = b1 THEN "a" ELSE "b")}
=============================================================================
