------------------------------- MODULE UdpTunnel -------------------------------
(***************************************************************************)
(* The UDP tunnel: StartClientUDP (client.go) and StartServerUDP           *)
(* (server.go), from the moment PunchUDP has returned the connection.      *)
(*                                                                         *)
(* Each end runs two loops: r takes datagrams from the tunnel (conn) and   *)
(* writes them to its forward socket (fwd_conn), w does the reverse.  They *)
(* share the deadline of conn, and the client's two share client_addr and  *)
(* the channel sent.  Applications talk to the client's fwd_conn, one      *)
(* service answers the server's.  The tunnel loses and reorders datagrams. *)
(*                                                                         *)
(* With a key, conn is an EPacketConnXor (crypt.go), which encrypts every  *)
(* datagram from the first byte of the key: no state, and left out.        *)
(***************************************************************************)
EXTENDS Naturals

CONSTANTS
    Apps,         \* addresses of client applications
    NoAddr,       \* client_addr == nil
    MaxRequests   \* bound: datagrams the applications send in all

ASSUME UdpTunnelAssumption == NoAddr \notin Apps /\ MaxRequests \in Nat

TunnelEnds == {"client", "server"}
FarEnd(e) == IF e = "client" THEN "server" ELSE "client"

VARIABLES
    r,           \* end -> "arm" (the first turn), "read", "sent" (client only),
                 \*        "write", "done"
    w,           \* end -> "read", "addr" and "closesent" (client only),
                 \*        "write", "done"
    readBy,      \* end -> read deadline of conn: "none", "ahead" or "passed"
    writeBy,     \* end -> write deadline of conn
    closed,      \* end -> conn and fwd_conn are closed
    clientAddr,  \* client_addr
    sentClosed,  \* the channel sent is closed
    from,        \* c_addr of the datagram that the client's w holds
    leftover,    \* end -> PunchUDP's receiver is still in ReadFrom on conn
    tunnel,      \* end -> datagrams on their way to its conn
    asking,      \* app -> its datagrams that wait at the client's fwd_conn
    spoken,      \* the applications that have sent something
    requests,    \* how many they have sent
    replies,     \* datagrams that wait at the server's fwd_conn
    serving,     \* the service listens
    refused      \* an ICMP error waits at the server's fwd_conn, which is connected

uvars == <<r, w, readBy, writeBy, closed, clientAddr, sentClosed, from, leftover,
           tunnel, asking, spoken, requests, replies, serving, refused>>

\* What is left of the punching: a receiver that PunchUDP did not stop (it has
\* five seconds, the deadline of other connections is past), and a HELO or OKAY
\* that comes late.
UInit ==
    /\ r = [e \in TunnelEnds |-> "arm"]
    /\ w = [e \in TunnelEnds |-> "read"]
    /\ leftover \in [TunnelEnds -> BOOLEAN]
    /\ readBy = [e \in TunnelEnds |-> IF leftover[e] THEN "ahead" ELSE "passed"]
    /\ writeBy = [e \in TunnelEnds |-> "none"]
    /\ closed = [e \in TunnelEnds |-> FALSE]
    /\ clientAddr = NoAddr
    /\ sentClosed = FALSE
    /\ from = NoAddr
    /\ tunnel \in [TunnelEnds -> 0..1]
    /\ asking = [a \in Apps |-> 0]
    /\ spoken = {}
    /\ requests = 0
    /\ replies = 0
    /\ serving = TRUE
    /\ refused = FALSE

-----------------------------------------------------------------------------
(* Both loops. *)

\* conn.SetDeadline(g_timeout from now): an error on a closed connection, ignored.
SetDeadline(e) ==
    /\ readBy'  = [readBy  EXCEPT ![e] = IF closed[e] THEN @ ELSE "ahead"]
    /\ writeBy' = [writeBy EXCEPT ![e] = IF closed[e] THEN @ ELSE "ahead"]

\* Mutant of Collapse: a loop returns without the deferred calls.
CollapseNothing(e) ==
    UNCHANGED <<closed, readBy, writeBy, tunnel, asking, replies, refused>>

\* The deferred calls of a loop that returns close both sockets.  What waits at
\* them is gone, and their deadlines have no meaning any more.
Collapse(e) ==
    /\ closed' = [closed EXCEPT ![e] = TRUE]
    /\ readBy' = [readBy EXCEPT ![e] = "passed"]
    /\ writeBy' = [writeBy EXCEPT ![e] = "passed"]
    /\ tunnel' = [tunnel EXCEPT ![e] = 0]
    /\ asking' = IF e = "client" THEN [a \in Apps |-> 0] ELSE asking
    /\ replies' = IF e = "server" THEN 0 ELSE replies
    /\ refused' = (e = "client" /\ refused)

-----------------------------------------------------------------------------
(* conn --> fwd_conn *)

\* conn.SetDeadline at the top of the first turn.
RArm(e) ==
    /\ r[e] = "arm"
    /\ SetDeadline(e)
    /\ r' = [r EXCEPT ![e] = "read"]
    /\ UNCHANGED <<w, closed, clientAddr, sentClosed, from, leftover, tunnel, asking,
                   spoken, requests, replies, serving, refused>>

\* conn.ReadFrom; it waits for a reader that came earlier.
RRead(e) ==
    /\ r[e] = "read"
    /\ ~closed[e] /\ ~leftover[e] /\ readBy[e] # "passed"
    /\ tunnel[e] > 0
    /\ tunnel' = [tunnel EXCEPT ![e] = @ - 1]
    /\ r' = [r EXCEPT ![e] = IF e = "client" THEN "sent" ELSE "write"]
    /\ UNCHANGED <<w, readBy, writeBy, closed, clientAddr, sentClosed, from, leftover,
                   asking, spoken, requests, replies, serving, refused>>

RReadFails(e) ==
    /\ r[e] = "read"
    /\ closed[e] \/ (~leftover[e] /\ readBy[e] = "passed")
    /\ Collapse(e)
    /\ r' = [r EXCEPT ![e] = "done"]
    /\ UNCHANGED <<w, clientAddr, sentClosed, from, leftover, spoken, requests, serving>>

\* <-sent: passes once the channel is closed.
RSent ==
    /\ r["client"] = "sent"
    /\ sentClosed
    /\ r' = [r EXCEPT !["client"] = "write"]
    /\ UNCHANGED <<w, readBy, writeBy, closed, clientAddr, sentClosed, from, leftover,
                   tunnel, asking, spoken, requests, replies, serving, refused>>

\* fwd_conn.Write, and the deadline of the next turn.  The service may answer;
\* without one an ICMP error comes back.
RWrite(e) ==
    /\ r[e] = "write"
    /\ ~closed[e]
    /\ e = "server" => ~refused
    /\ r' = [r EXCEPT ![e] = "read"]
    /\ SetDeadline(e)
    /\ \/ e = "server" /\ serving /\ replies' = replies + 1 /\ UNCHANGED refused
       \/ e = "server" /\ ~serving /\ refused' = TRUE /\ UNCHANGED replies
       \/ (e = "client" \/ serving) /\ UNCHANGED <<replies, refused>>
    /\ UNCHANGED <<w, closed, clientAddr, sentClosed, from, leftover,
                   tunnel, asking, spoken, requests, serving>>

RWriteFails(e) ==
    /\ r[e] = "write"
    /\ closed[e] \/ (e = "server" /\ refused)
    /\ Collapse(e)
    /\ r' = [r EXCEPT ![e] = "done"]
    /\ UNCHANGED <<w, clientAddr, sentClosed, from, leftover, spoken, requests, serving>>

-----------------------------------------------------------------------------
(* fwd_conn --> conn *)

\* fwd_conn.ReadFromUDP of the client.
WReadRequest(a) ==
    /\ w["client"] = "read"
    /\ ~closed["client"]
    /\ asking[a] > 0
    /\ asking' = [asking EXCEPT ![a] = @ - 1]
    /\ from' = a
    /\ w' = [w EXCEPT !["client"] = "addr"]
    /\ UNCHANGED <<r, readBy, writeBy, closed, clientAddr, sentClosed, leftover, tunnel,
                   spoken, requests, replies, serving, refused>>

\* Mutant of WAddr: the channel is closed before the first address is stored.
WAddrAfterSent ==
    /\ w["client"] = "addr"
    /\ clientAddr' = IF sentClosed THEN from ELSE clientAddr
    /\ w' = [w EXCEPT !["client"] = IF sentClosed THEN "write" ELSE "addr"]
    /\ sentClosed' = TRUE
    /\ UNCHANGED <<r, readBy, writeBy, closed, from, leftover, tunnel, asking, spoken,
                   requests, replies, serving, refused>>

\* "use the most recent client address"; the first one also closes sent.
WAddr ==
    /\ w["client"] = "addr"
    /\ clientAddr' = from
    /\ from' = NoAddr
    /\ w' = [w EXCEPT !["client"] = IF clientAddr = NoAddr THEN "closesent" ELSE "write"]
    /\ UNCHANGED <<r, readBy, writeBy, closed, sentClosed, leftover, tunnel, asking,
                   spoken, requests, replies, serving, refused>>

WCloseSent ==
    /\ w["client"] = "closesent"
    /\ sentClosed' = TRUE
    /\ w' = [w EXCEPT !["client"] = "write"]
    /\ UNCHANGED <<r, readBy, writeBy, closed, clientAddr, from, leftover, tunnel, asking,
                   spoken, requests, replies, serving, refused>>

\* fwd_conn.Read of the server.
WReadReply ==
    /\ w["server"] = "read"
    /\ ~closed["server"] /\ ~refused
    /\ replies > 0
    /\ replies' = replies - 1
    /\ w' = [w EXCEPT !["server"] = "write"]
    /\ UNCHANGED <<r, readBy, writeBy, closed, clientAddr, sentClosed, from, leftover,
                   tunnel, asking, spoken, requests, serving, refused>>

WReadFails(e) ==
    /\ w[e] = "read"
    /\ closed[e] \/ (e = "server" /\ refused)
    /\ Collapse(e)
    /\ w' = [w EXCEPT ![e] = "done"]
    /\ UNCHANGED <<r, clientAddr, sentClosed, from, leftover, spoken, requests, serving>>

\* conn.WriteTo: the datagram gets on its way, or is lost; and a new deadline.
WWrite(e) ==
    /\ w[e] = "write"
    /\ ~closed[e] /\ writeBy[e] # "passed"
    /\ \E n \in 0..1 :
          /\ n = 1 => ~closed[FarEnd(e)]
          /\ tunnel' = [tunnel EXCEPT ![FarEnd(e)] = @ + n]
    /\ w' = [w EXCEPT ![e] = "read"]
    /\ SetDeadline(e)
    /\ UNCHANGED <<r, closed, clientAddr, sentClosed, from, leftover,
                   asking, spoken, requests, replies, serving, refused>>

WWriteFails(e) ==
    /\ w[e] = "write"
    /\ closed[e] \/ writeBy[e] = "passed"
    /\ Collapse(e)
    /\ w' = [w EXCEPT ![e] = "done"]
    /\ UNCHANGED <<r, clientAddr, sentClosed, from, leftover, spoken, requests, serving>>

-----------------------------------------------------------------------------
(* What is around the loops. *)

\* PunchUDP's receiver wakes with a datagram, which is lost, or at the deadline;
\* it returns and takes the read deadline off: SetReadDeadline(time.Time{}).
LeftoverEnds(e) ==
    /\ leftover[e]
    /\ \/ tunnel[e] > 0 /\ tunnel' = [tunnel EXCEPT ![e] = @ - 1]
       \/ (readBy[e] = "passed" \/ closed[e]) /\ UNCHANGED tunnel
    /\ leftover' = [leftover EXCEPT ![e] = FALSE]
    /\ readBy' = [readBy EXCEPT ![e] = IF closed[e] THEN @ ELSE "none"]
    /\ UNCHANGED <<r, w, writeBy, closed, clientAddr, sentClosed, from, asking, spoken,
                   requests, replies, serving, refused>>

Passed(by) == IF by = "ahead" THEN "passed" ELSE by

\* g_timeout seconds without a new deadline.
DeadlinePasses(e) ==
    /\ ~closed[e]
    /\ "ahead" \in {readBy[e], writeBy[e]}
    /\ readBy' = [readBy EXCEPT ![e] = Passed(@)]
    /\ writeBy' = [writeBy EXCEPT ![e] = Passed(@)]
    /\ UNCHANGED <<r, w, closed, clientAddr, sentClosed, from, leftover, tunnel, asking,
                   spoken, requests, replies, serving, refused>>

Request(a) ==
    /\ ~closed["client"]
    /\ requests < MaxRequests
    /\ requests' = requests + 1
    /\ asking' = [asking EXCEPT ![a] = @ + 1]
    /\ spoken' = spoken \union {a}
    /\ UNCHANGED <<r, w, readBy, writeBy, closed, clientAddr, sentClosed, from, leftover,
                   tunnel, replies, serving, refused>>

ServiceStops ==
    /\ ~closed["server"]
    /\ serving
    /\ serving' = FALSE
    /\ UNCHANGED <<r, w, readBy, writeBy, closed, clientAddr, sentClosed, from, leftover,
                   tunnel, asking, spoken, requests, replies, refused>>

UdpLoops(e) ==
    \/ RArm(e) \/ RRead(e) \/ RReadFails(e) \/ RWrite(e) \/ RWriteFails(e)
    \/ WReadFails(e) \/ WWrite(e) \/ WWriteFails(e) \/ LeftoverEnds(e)
    \/ e = "client" /\ (RSent \/ WAddr \/ WCloseSent \/ \E a \in Apps : WReadRequest(a))
    \/ e = "server" /\ WReadReply

UNext ==
    \/ \E e \in TunnelEnds : UdpLoops(e) \/ DeadlinePasses(e)
    \/ \E a \in Apps : Request(a)
    \/ ServiceStops

-----------------------------------------------------------------------------
(* Properties. *)

UTypeOK ==
    /\ r \in [TunnelEnds -> {"arm", "read", "sent", "write", "done"}]
    /\ w \in [TunnelEnds -> {"read", "addr", "closesent", "write", "done"}]
    /\ readBy \in [TunnelEnds -> {"none", "ahead", "passed"}]
    /\ writeBy \in [TunnelEnds -> {"none", "ahead", "passed"}]
    /\ closed \in [TunnelEnds -> BOOLEAN]
    /\ clientAddr \in Apps \union {NoAddr}
    /\ from \in Apps \union {NoAddr}
    /\ sentClosed \in BOOLEAN
    /\ leftover \in [TunnelEnds -> BOOLEAN]
    /\ tunnel \in [TunnelEnds -> Nat]
    /\ asking \in [Apps -> 0..MaxRequests]
    /\ spoken \subseteq Apps
    /\ replies \in Nat

\* The client writes what comes out of the tunnel to the address of an
\* application that has sent something, never to a nil address, although its
\* two loops share client_addr without a lock and datagrams (a late HELO, an
\* answer to it) can come before any application has spoken.
RepliesGoToSpeakers == r["client"] = "write" => clientAddr \in spoken

\* cli.go:89 says how long "an idle connection timeout and exit": an end whose
\* traffic stops comes to the end of its w loop, with which the process ends.
\* Two cases are excepted, in which the code has no deadline to wake it: a
\* client that waits on sent for an application that never speaks, and an end
\* whose read deadline was taken off by PunchUDP's receiver.
IdleTunnelEnds ==
    <>[](\A e \in TunnelEnds : w[e] = "done" \/ r[e] = "sent" \/ readBy[e] = "none")
=============================================================================
