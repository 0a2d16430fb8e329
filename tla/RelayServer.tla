----------------------------- MODULE RelayServer -----------------------------
(***************************************************************************)
(* The transport relay (swarm/relay.go): one goroutine runs HandleConn for *)
(* every connection; it authenticates the peer, registers a session and    *)
(* then answers pings and forwards data frames to the sessions of others.  *)
(*                                                                         *)
(* The steps are those at which goroutines meet: reading a frame, taking   *)
(* r.mu or a session's mu, and every single Write on a connection.         *)
(* writeFrame writes a header and then, when there is one, the payload:    *)
(* two Writes.  A session belongs to one connection, so a connection       *)
(* stands for its session too.  The receive buffer of a client holds       *)
(* BufferSize chunks; a Write to a full one blocks.                        *)
(***************************************************************************)
EXTENDS Naturals, Sequences

CONSTANTS
    Conns,          \* connections accepted by the relay
    Addrs,          \* AddrKeys
    OwnerOf(_),     \* the address in the token that a connection presents
    RequestsOf(_),  \* the frames a client may send once it has sent its token
    MaxFrames,      \* bound: how many of them it sends
    BufferSize,     \* chunks that a client's receive buffer holds
    None

\* FramePing, and FrameData for an address.
Frames == [type : {"ping", "data"}, dst : Addrs]

ASSUME RelayAssumption == /\ MaxFrames \in Nat
                          /\ BufferSize \in Nat \ {0}
                          /\ \A c \in Conns : /\ OwnerOf(c) \in Addrs
                                              /\ RequestsOf(c) \subseteq Frames
                          /\ None \notin Conns

\* One Write on a connection: made by the handler of connection by, for the
\* n-th frame that handler has read, which was addressed to dst.
Chunks == [part : {"header", "payload"},
           type : {"auth_ok", "auth_fail", "pong", "no_route", "data"},
           by   : Conns,
           n    : 0..MaxFrames,
           dst  : Addrs]

VARIABLES
    frame,      \* c -> the frame that HandleConn has read last
    taken,      \* c -> how many it has read after the token
    peer,       \* c -> "open", or "gone" once the client has closed
    handler,    \* c -> where HandleConn is
    target,     \* c -> the session that Route is writing to, or None
    lock,       \* c -> the handler that holds the session mutex of c, or None
    sessions,   \* address -> connection, or None
    wire,       \* c -> everything written on c
    seen,       \* c -> how many chunks of it the client has read
    latest      \* history: address -> the connection registered last, or None

vars == <<frame, taken, peer, handler, target, lock, sessions, wire, seen, latest>>

\* The places in HandleConn.
\*   "auth" readFrame in authenticate       "ok"    writing FrameAuthOK
\*   "add"  addSession                      "read"  readFrame in the loop
\*   "pong_lock", "pong", "pong_payload"    the FramePing case
\*   "route" getSession    "lock", "data", "data_payload"    LocalRouter.Route
\*   "drop" removeSession(target)           "no_route" writeNoRoute
\*   "remove" the deferred removeSession    "close" the deferred Close
\*   "fail" writing FrameAuthFail           "done"  returned
Places == {"auth", "ok", "add", "read", "pong_lock", "pong", "pong_payload",
           "route", "lock", "data", "data_payload", "drop", "no_route",
           "remove", "close", "fail", "done"}

Init ==
    /\ frame    = [c \in Conns |-> [type |-> "ping", dst |-> OwnerOf(c)]]
    /\ taken    = [c \in Conns |-> 0]
    /\ peer     = [c \in Conns |-> "open"]
    /\ handler  = [c \in Conns |-> "auth"]
    /\ target   = [c \in Conns |-> None]
    /\ lock     = [c \in Conns |-> None]
    /\ sessions = [a \in Addrs |-> None]
    /\ wire     = [c \in Conns |-> <<>>]
    /\ seen     = [c \in Conns |-> 0]
    /\ latest   = [a \in Addrs |-> None]

-----------------------------------------------------------------------------
(* Clients.  What a client sends is chosen when the relay reads it, also from *)
(* a client that has closed since.                                            *)

\* A read only matters to the relay when the buffer is full.
ClientReads(c) ==
    /\ peer[c] = "open"
    /\ Len(wire[c]) - seen[c] = BufferSize
    /\ seen' = [seen EXCEPT ![c] = @ + 1]
    /\ UNCHANGED <<frame, taken, peer, handler, target, lock, sessions, wire, latest>>

ClientCloses(c) ==
    /\ peer[c] = "open"
    /\ peer' = [peer EXCEPT ![c] = "gone"]
    /\ UNCHANGED <<frame, taken, handler, target, lock, sessions, wire, seen, latest>>

-----------------------------------------------------------------------------
(* Writing on a connection. *)

Closed(c) == handler[c] = "done"

Chunk(part, type, c) ==
    [part |-> part, type |-> type, by |-> c, n |-> taken[c], dst |-> frame[c].dst]

\* A Write on connection t that succeeds.  One to a client that is gone may
\* still succeed: the bytes go nowhere.
WriteOK(t, chunk) ==
    /\ ~Closed(t)
    /\ \/ /\ peer[t] = "open"
          /\ Len(wire[t]) - seen[t] < BufferSize
          /\ wire' = [wire EXCEPT ![t] = Append(@, chunk)]
       \/ /\ peer[t] = "gone"
          /\ wire' = wire

WriteFails(t) == (Closed(t) \/ peer[t] = "gone") /\ wire' = wire

Goto(c, place) == handler' = [handler EXCEPT ![c] = place]

\* Mutant of Without: whatever is registered for the address goes.
WithoutAny(s) == [sessions EXCEPT ![OwnerOf(s)] = None]

\* sessions after removeSession(s): only if s is still the registered one.
Without(s) ==
    IF sessions[OwnerOf(s)] = s THEN [sessions EXCEPT ![OwnerOf(s)] = None] ELSE sessions

-----------------------------------------------------------------------------
(* HandleConn: authentication. *)

\* Mutant of Authenticate: the session is registered before FrameAuthOK is out.
AuthenticateRegisters(c) ==
    /\ handler[c] = "auth"
    /\ Goto(c, "ok")
    /\ sessions' = [sessions EXCEPT ![OwnerOf(c)] = c]
    /\ UNCHANGED <<frame, taken, peer, target, lock, wire, seen, latest>>

\* readFrame and VerifyToken: a valid token, or an error of either.
Authenticate(c) ==
    /\ handler[c] = "auth"
    /\ Goto(c, "ok") \/ Goto(c, "fail")
    /\ UNCHANGED <<frame, taken, peer, target, lock, sessions, wire, seen, latest>>

\* FrameAuthOK goes out before the session can be found by others.
WriteAuthOK(c) ==
    /\ handler[c] = "ok"
    /\ WriteOK(c, Chunk("header", "auth_ok", c)) \/ WriteFails(c)
    /\ Goto(c, "add")
    /\ UNCHANGED <<frame, taken, peer, target, lock, sessions, seen, latest>>

\* addSession: a second connection of an endpoint replaces the first.
AddSession(c) ==
    /\ handler[c] = "add"
    /\ sessions' = [sessions EXCEPT ![OwnerOf(c)] = c]
    /\ latest' = [latest EXCEPT ![OwnerOf(c)] = c]
    /\ Goto(c, "read")
    /\ UNCHANGED <<frame, taken, peer, target, lock, wire, seen>>

WriteAuthFail(c) ==
    /\ handler[c] = "fail"
    /\ WriteOK(c, Chunk("header", "auth_fail", c)) \/ WriteFails(c)
    /\ Goto(c, "close")
    /\ UNCHANGED <<frame, taken, peer, target, lock, sessions, seen, latest>>

-----------------------------------------------------------------------------
(* HandleConn: the frame loop. *)

ReadFrame(c, f) ==
    /\ handler[c] = "read"
    /\ taken[c] < MaxFrames
    /\ taken' = [taken EXCEPT ![c] = @ + 1]
    /\ frame' = [frame EXCEPT ![c] = f]
    /\ Goto(c, IF f.type = "ping" THEN "pong_lock" ELSE "route")
    /\ UNCHANGED <<peer, target, lock, sessions, wire, seen, latest>>

\* readFrame fails: the client is gone.
ReadFails(c) ==
    /\ handler[c] = "read"
    /\ peer[c] = "gone"
    /\ Goto(c, "remove")
    /\ UNCHANGED <<frame, taken, peer, target, lock, sessions, wire, seen, latest>>

\* readFrame refuses a frame whose header announces more than MaxRelayPayload,
\* and the connection of a client that may well be open comes to its end.
RefuseFrame(c) ==
    /\ handler[c] = "read"
    /\ taken[c] < MaxFrames
    /\ Goto(c, "remove")
    /\ UNCHANGED <<frame, taken, peer, target, lock, sessions, wire, seen, latest>>

\* A mutex is taken when it is free.
Acquire(c, t, here, next) ==
    /\ handler[c] = here
    /\ lock[t] = None
    /\ lock' = [lock EXCEPT ![t] = c]
    /\ Goto(c, next)
    /\ UNCHANGED <<frame, taken, peer, target, sessions, wire, seen, latest>>

\* Mutant of PongLock: the pong is written without the mutex.
PongUnlocked(c) ==
    /\ handler[c] = "pong_lock"
    /\ Goto(c, "pong")
    /\ UNCHANGED <<frame, taken, peer, target, lock, sessions, wire, seen, latest>>

PongLock(c) == Acquire(c, c, "pong_lock", "pong")

\* writeFrame under the mutex of the session of t: header, then payload.  The
\* last Write, or one that fails, also unlocks.
LockedHeader(c, t, here, type, next, onError) ==
    /\ handler[c] = here
    /\ \/ /\ WriteOK(t, Chunk("header", type, c))
          /\ lock' = lock
          /\ Goto(c, next)
       \/ /\ WriteFails(t)
          /\ lock' = [lock EXCEPT ![t] = None]
          /\ Goto(c, onError)
    /\ UNCHANGED <<frame, taken, peer, target, sessions, seen, latest>>

\* Mutant of LockedPayload: the mutex stays locked after a frame.
LockedPayloadLeaks(c, t, here, type, onError) ==
    /\ handler[c] = here
    /\ \/ WriteOK(t, Chunk("payload", type, c)) /\ Goto(c, "read") /\ lock' = lock
       \/ WriteFails(t) /\ Goto(c, onError) /\ lock' = [lock EXCEPT ![t] = None]
    /\ UNCHANGED <<frame, taken, peer, target, sessions, seen, latest>>

LockedPayload(c, t, here, type, onError) ==
    /\ handler[c] = here
    /\ \/ WriteOK(t, Chunk("payload", type, c)) /\ Goto(c, "read")
       \/ WriteFails(t) /\ Goto(c, onError)
    /\ lock' = [lock EXCEPT ![t] = None]
    /\ UNCHANGED <<frame, taken, peer, target, sessions, seen, latest>>

Pong(c)        == LockedHeader(c, c, "pong", "pong", "pong_payload", "remove")
PongPayload(c) == LockedPayload(c, c, "pong_payload", "pong", "remove")

\* Mutant of Route: the sender's own session is looked up.
RouteBack(c) ==
    /\ handler[c] = "route"
    /\ target' = [target EXCEPT ![c] = sessions[OwnerOf(c)]]
    /\ Goto(c, IF sessions[OwnerOf(c)] = None THEN "no_route" ELSE "lock")
    /\ UNCHANGED <<frame, taken, peer, lock, sessions, wire, seen, latest>>

\* LocalRouter.Route: look the destination up ...
Route(c) ==
    /\ handler[c] = "route"
    /\ target' = [target EXCEPT ![c] = sessions[frame[c].dst]]
    /\ Goto(c, IF sessions[frame[c].dst] = None THEN "no_route" ELSE "lock")
    /\ UNCHANGED <<frame, taken, peer, lock, sessions, wire, seen, latest>>

\* ... and write to the session found, under its mutex.
RouteLock(c)    == target[c] # None /\ Acquire(c, target[c], "lock", "data")
RouteData(c)    == target[c] # None /\ LockedHeader(c, target[c], "data", "data", "data_payload", "drop")
RoutePayload(c) == target[c] # None /\ LockedPayload(c, target[c], "data_payload", "data", "drop")

\* The write failed: the target's session is removed, the sender told nothing.
DropTarget(c) ==
    /\ handler[c] = "drop"
    /\ sessions' = Without(target[c])
    /\ Goto(c, "read")
    /\ UNCHANGED <<frame, taken, peer, target, lock, wire, seen, latest>>

\* Mutant of WriteNoRoute: a frame type the protocol does not have.
WriteUnknownType(c) ==
    /\ handler[c] = "no_route"
    /\ WriteOK(c, Chunk("header", "error", c)) \/ WriteFails(c)
    /\ Goto(c, "read")
    /\ UNCHANGED <<frame, taken, peer, target, lock, sessions, seen, latest>>

\* writeNoRoute writes to the connection without its session's mutex.
WriteNoRoute(c) ==
    /\ handler[c] = "no_route"
    /\ WriteOK(c, Chunk("header", "no_route", c)) \/ WriteFails(c)
    /\ Goto(c, "read")
    /\ UNCHANGED <<frame, taken, peer, target, lock, sessions, seen, latest>>

\* Mutant of RemoveSession: the handler leaves without it.
RemoveSessionForgotten(c) ==
    /\ handler[c] = "remove"
    /\ Goto(c, "close")
    /\ UNCHANGED <<frame, taken, peer, target, lock, sessions, wire, seen, latest>>

\* The deferred calls, in their order.
RemoveSession(c) ==
    /\ handler[c] = "remove"
    /\ sessions' = Without(c)
    /\ Goto(c, "close")
    /\ UNCHANGED <<frame, taken, peer, target, lock, wire, seen, latest>>

Close(c) ==
    /\ handler[c] = "close"
    /\ Goto(c, "done")
    /\ UNCHANGED <<frame, taken, peer, target, lock, sessions, wire, seen, latest>>

-----------------------------------------------------------------------------

\* What HandleConn does without waiting for its client to send.
HandleConn(c) ==
    \/ WriteAuthOK(c) \/ WriteAuthFail(c) \/ AddSession(c) \/ ReadFails(c)
    \/ PongLock(c) \/ Pong(c) \/ PongPayload(c)
    \/ Route(c) \/ RouteLock(c) \/ RouteData(c) \/ RoutePayload(c)
    \/ DropTarget(c) \/ WriteNoRoute(c)
    \/ RemoveSession(c) \/ Close(c)

Next == \E c \in Conns :
           \/ HandleConn(c)
           \/ Authenticate(c)
           \/ \E f \in RequestsOf(c) : ReadFrame(c, f)
           \/ RefuseFrame(c)
           \/ ClientReads(c)
           \/ ClientCloses(c)

Spec == Init /\ [][Next]_vars

\* Goroutines are scheduled, a mutex goes to one that waits for it, and clients
\* read what arrives.
Fairness == \A c \in Conns : WF_vars(HandleConn(c)) /\ WF_vars(ClientReads(c))

FairSpec == Spec /\ Fairness

-----------------------------------------------------------------------------
(* Properties. *)

\* The maps of the server and the control of its handlers have their types.
TypeOK ==
    /\ frame \in [Conns -> Frames]
    /\ taken \in [Conns -> 0..MaxFrames]
    /\ peer \in [Conns -> {"open", "gone"}]
    /\ handler \in [Conns -> Places]
    /\ target \in [Conns -> Conns \union {None}]
    /\ lock \in [Conns -> Conns \union {None}]
    /\ sessions \in [Addrs -> Conns \union {None}]
    /\ wire \in [Conns -> Seq(Chunks)]
    /\ seen \in [Conns -> Nat]
    /\ latest \in [Addrs -> Conns \union {None}]

\* The first thing on a connection is the answer to its token, and that answer
\* comes once: no handler forwards a frame to a client, or answers one, that
\* has not been told it is authenticated (HandleConn writes, then addSession).
AuthAnswerFirst ==
    \A c \in Conns : \A i \in 1..Len(wire[c]) :
        wire[c][i].type \in {"auth_ok", "auth_fail"} <=> i = 1

\* Chunk i of s was written under the session mutex.
Mutexed(s, i) == s[i].type \in {"pong", "data"}

\* A frame begins at chunk i of s, and chunk j completes it.
Begins(s, i) == Mutexed(s, i) /\ s[i].part = "header"
Completes(s, i, j) == s[j] = [s[i] EXCEPT !.part = "payload"]

\* In s, what follows a header under the mutex completes its frame.
Whole(s) ==
    \A j \in 1..Len(s) : \A i \in 1..(j - 1) :
        /\ Begins(s, i) /\ Mutexed(s, j)
        /\ \A m \in (i + 1)..(j - 1) : ~Mutexed(s, m)
        => Completes(s, i, j)

\* Frames written under the session mutex never mix: between the header of a
\* forwarded frame and its payload no other handler puts a pong or a frame of
\* its own, on whatever connections the handlers came in.
MutexedFramesAreWhole == \A c \in Conns : Whole(wire[c])

\* relay.go says that the session mutex serialises writes: the bytes on a
\* connection are then one frame after another.
FramesAreWhole ==
    \A c \in Conns : LET s == wire[c] IN
        \A i \in 1..(Len(s) - 1) :
            Begins(s, i) => Completes(s, i, i + 1)

\* Chunk i of s is where a forwarded frame begins.
Arrives(s, i) == s[i].type = "data" /\ s[i].part = "header"

\* A data frame only reaches a connection of the endpoint it was sent to, each
\* frame once, and frames of one sender in the order in which they were sent.
DeliveredAsAddressed ==
    \A c \in Conns : LET s == wire[c] IN
        \A i \in 1..Len(s) : Arrives(s, i) =>
            /\ s[i].dst = OwnerOf(c)
            /\ \A j \in 1..(i - 1) : (Arrives(s, j) /\ s[j].by = s[i].by) => s[j].n < s[i].n

\* A connection is found by others only from addSession on and never once its
\* handler has passed its deferred removeSession, so the map holds no session
\* whose connection the relay has closed.
SessionsAreServed ==
    \A a \in Addrs : sessions[a] # None =>
        /\ OwnerOf(sessions[a]) = a
        /\ handler[sessions[a]] \notin {"auth", "ok", "add", "fail", "close", "done"}

\* An endpoint can be reached on its newest connection for as long as that is
\* open and its own handler serves it: the late cleanup of an older connection,
\* one that the relay has ended itself included, or of a router that failed to
\* write to one, never takes the newer session away.
NewestSessionStays ==
    \A a \in Addrs :
        /\ latest[a] # None
        /\ peer[latest[a]] = "open"
        /\ handler[latest[a]] \notin {"remove", "close", "done"}
        => sessions[a] = latest[a]

\* A handler that has read a frame gets back to its loop or ends, as long as
\* clients read: handlers that wait for a mutex that another holds, while that
\* one waits for the buffer of a client, never all wait for ever.
FramesAreProcessed ==
    \A c \in Conns : handler[c] \notin {"auth", "read"} ~> handler[c] \in {"read", "done"}
=============================================================================
