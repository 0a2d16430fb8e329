--------------------------------- MODULE MCGole ---------------------------------
(* Instance of Gole for TLC. *)
EXTENDS Gole

CONSTANTS a, b, app1, app2, conn1, conn2

MCPeers == {a, b}
MCOther(p) == IF p = a THEN b ELSE a

\* Process IDs of one and of two digits, say, after the bytes that are compared.
MCHeloLen(p) == IF p = a THEN 2 ELSE 3

MCApps == {app1, app2}
MCHandlers == {conn1, conn2}
=============================================================================
