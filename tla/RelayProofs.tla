------------------------------ MODULE RelayProofs ------------------------------
(***************************************************************************)
(* Theorems about the relay's sessions, for any number of connections,     *)
(* endpoints and frames, and any size of the clients' buffers.             *)
(***************************************************************************)
EXTENDS RelayServer, TLAPS

Unregistered == {"auth", "ok", "add", "fail"}

\* The handler of c has called addSession.
Registered(c) == handler[c] \notin Unregistered

\* The client of c has left, or its handler is leaving.
Unserved(c) == peer[c] = "gone" \/ handler[c] \in {"remove", "close", "done"}

\* Nothing that is written on c goes out.
Cut(c) == peer[c] = "gone" \/ Closed(c)

\* Who is found in the maps, and by a router that is about to write or has
\* failed to.
SessionInv ==
    /\ \A a \in Addrs : sessions[a] # None =>
          /\ OwnerOf(sessions[a]) = a
          /\ Registered(sessions[a])
          /\ handler[sessions[a]] \notin {"close", "done"}
    /\ \A a \in Addrs : latest[a] # None =>
          /\ OwnerOf(latest[a]) = a
          /\ Registered(latest[a])
          /\ sessions[a] = latest[a] \/ Unserved(latest[a])
    /\ \A c \in Conns : target[c] # None => Registered(target[c])
    /\ \A c \in Conns : handler[c] = "drop" => target[c] # None /\ Unserved(target[c])

-----------------------------------------------------------------------------
(* Types. *)

LEMMA ChunkType ==
    ASSUME TypeOK, NEW c \in Conns, NEW part \in {"header", "payload"},
           NEW type \in {"auth_ok", "auth_fail", "pong", "no_route", "data"}
    PROVE  Chunk(part, type, c) \in Chunks
  BY DEF Chunk, Chunks, TypeOK, Frames

\* What a Write on t does to the wires.
LEMMA WriteType ==
    ASSUME TypeOK, NEW t \in Conns, NEW chunk \in Chunks, WriteOK(t, chunk) \/ WriteFails(t)
    PROVE  /\ wire' \in [Conns -> Seq(Chunks)]
           /\ \A c \in Conns \ {t} : wire'[c] = wire[c]
           /\ \/ wire'[t] = wire[t] /\ (peer[t] = "gone" \/ Closed(t))
              \/ wire'[t] = Append(wire[t], chunk) /\ peer[t] = "open"
<1>1. CASE wire' = wire
  BY <1>1 DEF WriteOK, WriteFails, TypeOK
<1>2. CASE peer[t] = "open" /\ wire' = [wire EXCEPT ![t] = Append(@, chunk)]
  BY <1>2 DEF TypeOK
<1>3. QED
  BY <1>1, <1>2 DEF WriteOK, WriteFails

\* Every step moves handlers by Goto, and only that of one connection.
LEMMA GotoType ==
    ASSUME TypeOK, NEW c \in Conns, NEW place \in Places, Goto(c, place)
    PROVE  /\ handler' \in [Conns -> Places]
           /\ handler'[c] = place
           /\ \A d \in Conns \ {c} : handler'[d] = handler[d]
  BY DEF Goto, TypeOK

LEMMA ClientType ==
    ASSUME TypeOK, NEW c \in Conns, ClientReads(c) \/ ClientCloses(c)
    PROVE  TypeOK'
<1>1. CASE ClientReads(c)
  <2>1. seen' \in [Conns -> Nat]
    BY <1>1 DEF ClientReads, TypeOK
  <2>2. QED
    BY <1>1, <2>1 DEF ClientReads, TypeOK
<1>2. CASE ClientCloses(c)
  <2>1. peer' \in [Conns -> {"open", "gone"}]
    BY <1>2 DEF ClientCloses, TypeOK
  <2>2. QED
    BY <1>2, <2>1 DEF ClientCloses, TypeOK
<1>3. QED
  BY <1>1, <1>2

LEMMA AuthType ==
    ASSUME TypeOK, NEW c \in Conns,
           Authenticate(c) \/ WriteAuthOK(c) \/ AddSession(c) \/ WriteAuthFail(c)
    PROVE  TypeOK'
<1>1. CASE Authenticate(c)
  BY <1>1, GotoType DEF Authenticate, TypeOK, Places
<1>2. CASE WriteAuthOK(c)
  <2>1. handler' \in [Conns -> Places]
    BY <1>2, GotoType DEF WriteAuthOK, Places
  <2>2. wire' \in [Conns -> Seq(Chunks)]
    BY <1>2, ChunkType, WriteType DEF WriteAuthOK
  <2>3. QED
    BY <1>2, <2>1, <2>2 DEF WriteAuthOK, TypeOK
<1>3. CASE WriteAuthFail(c)
  <2>1. handler' \in [Conns -> Places]
    BY <1>3, GotoType DEF WriteAuthFail, Places
  <2>2. wire' \in [Conns -> Seq(Chunks)]
    BY <1>3, ChunkType, WriteType DEF WriteAuthFail
  <2>3. QED
    BY <1>3, <2>1, <2>2 DEF WriteAuthFail, TypeOK
<1>4. CASE AddSession(c)
  BY <1>4, GotoType DEF AddSession, TypeOK, Places
<1>5. QED
  BY <1>1, <1>2, <1>3, <1>4

LEMMA LockedHeaderType ==
    ASSUME TypeOK, NEW c \in Conns, NEW t \in Conns, NEW here \in Places,
           NEW type \in {"pong", "data"}, NEW next \in Places, NEW onError \in Places,
           LockedHeader(c, t, here, type, next, onError)
    PROVE  TypeOK'
<1>1. handler' \in [Conns -> Places]
  BY GotoType DEF LockedHeader
<1>2. wire' \in [Conns -> Seq(Chunks)]
  BY ChunkType, WriteType DEF LockedHeader
<1>3. lock' \in [Conns -> Conns \union {None}]
  BY DEF LockedHeader, TypeOK
<1>4. QED
  BY <1>1, <1>2, <1>3 DEF LockedHeader, TypeOK

LEMMA LockedPayloadType ==
    ASSUME TypeOK, NEW c \in Conns, NEW t \in Conns, NEW here \in Places,
           NEW type \in {"pong", "data"}, NEW onError \in Places,
           LockedPayload(c, t, here, type, onError)
    PROVE  TypeOK'
<1>1. handler' \in [Conns -> Places]
  BY GotoType DEF LockedPayload, Places
<1>2. wire' \in [Conns -> Seq(Chunks)]
  BY ChunkType, WriteType DEF LockedPayload
<1>3. lock' \in [Conns -> Conns \union {None}]
  BY DEF LockedPayload, TypeOK
<1>4. QED
  BY <1>1, <1>2, <1>3 DEF LockedPayload, TypeOK

LEMMA LoopType ==
    ASSUME TypeOK, NEW c \in Conns,
           \/ \E f \in RequestsOf(c) : ReadFrame(c, f)
           \/ ReadFails(c) \/ RefuseFrame(c) \/ PongLock(c) \/ Route(c) \/ RouteLock(c)
           \/ WriteNoRoute(c) \/ Close(c)
    PROVE  TypeOK'
<1>1. ASSUME NEW f \in RequestsOf(c), ReadFrame(c, f)
      PROVE  TypeOK'
  <2>1. f \in Frames
    BY RelayAssumption
  <2>2. handler' \in [Conns -> Places]
    BY <1>1, GotoType DEF ReadFrame, Places
  <2>3. taken' \in [Conns -> 0..MaxFrames]
    BY <1>1, RelayAssumption DEF ReadFrame, TypeOK
  <2>4. QED
    BY <1>1, <2>1, <2>2, <2>3 DEF ReadFrame, TypeOK
<1>2. CASE ReadFails(c) \/ RefuseFrame(c) \/ Close(c)
  BY <1>2, GotoType DEF ReadFails, RefuseFrame, Close, TypeOK, Places
<1>3. ASSUME NEW t \in Conns, NEW here \in Places, NEW next \in Places, Acquire(c, t, here, next)
      PROVE  TypeOK'
  BY <1>3, GotoType DEF Acquire, TypeOK
<1>4. CASE PongLock(c)
  BY <1>3, <1>4 DEF PongLock, Places
<1>5. CASE RouteLock(c)
  BY <1>3, <1>5 DEF RouteLock, TypeOK, Places
<1>6. CASE Route(c)
  <2>1. frame[c].dst \in Addrs
    BY DEF TypeOK, Frames
  <2>2. handler' \in [Conns -> Places]
    BY <1>6, GotoType DEF Route, Places
  <2>3. QED
    BY <1>6, <2>1, <2>2 DEF Route, TypeOK
<1>7. CASE WriteNoRoute(c)
  BY <1>7, GotoType, ChunkType, WriteType DEF WriteNoRoute, TypeOK, Places
<1>8. QED
  BY <1>1, <1>2, <1>4, <1>5, <1>6, <1>7

LEMMA WithoutType ==
    ASSUME TypeOK, NEW s \in Conns
    PROVE  /\ Without(s) \in [Addrs -> Conns \union {None}]
           /\ \A a \in Addrs : Without(s)[a] = sessions[a] \/ (a = OwnerOf(s) /\ sessions[a] = s /\ Without(s)[a] = None)
           /\ Without(s)[OwnerOf(s)] # s
  BY RelayAssumption DEF TypeOK, Without

LEMMA NextType == TypeOK /\ SessionInv /\ [Next]_vars => TypeOK'
<1> SUFFICES ASSUME TypeOK, SessionInv, [Next]_vars
             PROVE  TypeOK'
  OBVIOUS
<1>1. ASSUME NEW c \in Conns, Pong(c) \/ PongPayload(c)
      PROVE  TypeOK'
  BY <1>1, LockedHeaderType, LockedPayloadType DEF Pong, PongPayload, Places
<1>2. ASSUME NEW c \in Conns, RouteData(c) \/ RoutePayload(c)
      PROVE  TypeOK'
  <2>1. target[c] \in Conns
    BY <1>2 DEF RouteData, RoutePayload, TypeOK
  <2>2. QED
    BY <1>2, <2>1, LockedHeaderType, LockedPayloadType DEF RouteData, RoutePayload, Places
<1>3. ASSUME NEW c \in Conns, DropTarget(c)
      PROVE  TypeOK'
  <2>1. target[c] \in Conns
    BY <1>3 DEF DropTarget, SessionInv, TypeOK
  <2>2. QED
    BY <1>3, <2>1, WithoutType, GotoType DEF DropTarget, TypeOK, Places
<1>4. ASSUME NEW c \in Conns, RemoveSession(c)
      PROVE  TypeOK'
  BY <1>4, WithoutType, GotoType DEF RemoveSession, TypeOK, Places
<1>5. CASE UNCHANGED vars
  BY <1>5 DEF vars, TypeOK
<1>6. QED
  BY <1>1, <1>2, <1>3, <1>4, <1>5, ClientType, AuthType, LoopType DEF Next, HandleConn

-----------------------------------------------------------------------------
(* Sessions. *)

\* A client that has left does not come back, nor a handler that is leaving.
LEMMA UnservedStays ==
    ASSUME TypeOK, [Next]_vars, NEW d \in Conns
    PROVE  /\ Unserved(d) => Unserved(d)'
           /\ Cut(d) => Cut(d)'
<1>1. peer[d] = "gone" => peer'[d] = "gone"
  BY DEF Next, HandleConn, vars, TypeOK, Authenticate, WriteAuthOK, WriteAuthFail, AddSession,
         ReadFrame, ReadFails, RefuseFrame, PongLock, Pong, PongPayload, Route, RouteLock,
         RouteData, RoutePayload, DropTarget, WriteNoRoute, RemoveSession, Close, ClientReads,
         ClientCloses, Acquire, LockedHeader, LockedPayload
<1>2. ASSUME NEW c \in Conns,
             \/ \E f \in RequestsOf(c) : ReadFrame(c, f)
             \/ Authenticate(c) \/ WriteAuthOK(c) \/ WriteAuthFail(c) \/ AddSession(c)
             \/ ReadFails(c) \/ RefuseFrame(c) \/ PongLock(c) \/ Pong(c) \/ PongPayload(c)
             \/ Route(c) \/ RouteLock(c) \/ RouteData(c) \/ RoutePayload(c)
             \/ DropTarget(c) \/ WriteNoRoute(c) \/ RemoveSession(c) \/ Close(c)
      PROVE  /\ \A e \in Conns \ {c} : handler'[e] = handler[e]
             /\ handler[c] # "done"
             /\ handler[c] \in {"remove", "close"} => handler'[c] \in {"close", "done"}
  <2>1. PICK place \in Places :
            /\ Goto(c, place)
            /\ handler[c] # "done"
            /\ handler[c] \in {"remove", "close"} => place \in {"close", "done"}
    BY <1>2 DEF Authenticate, WriteAuthOK, WriteAuthFail, AddSession, ReadFrame, ReadFails,
         RefuseFrame, PongLock, Pong, PongPayload, Route, RouteLock, RouteData, RoutePayload,
         DropTarget, WriteNoRoute, RemoveSession, Close, Acquire, LockedHeader, LockedPayload,
         Places
  <2>2. QED
    BY <2>1, GotoType
<1>3. ASSUME UNCHANGED vars \/ \E c \in Conns : ClientReads(c) \/ ClientCloses(c)
      PROVE  handler' = handler
  BY <1>3 DEF vars, ClientReads, ClientCloses
<1>4. QED
  BY <1>1, <1>2, <1>3 DEF Next, HandleConn, Unserved, Cut, Closed

\* A step that leaves the maps alone and keeps every registered handler so.
LEMMA QuietSession ==
    ASSUME TypeOK, SessionInv, [Next]_vars, UNCHANGED <<sessions, latest>>,
           NEW c \in Conns,
           \A d \in Conns \ {c} : handler'[d] = handler[d],
           Registered(c) => Registered(c)',
           Registered(c) /\ handler'[c] \in {"close", "done"} => \A a \in Addrs : sessions[a] # c,
           \A d \in Conns : target'[d] # None => target'[d] = target[d] \/ Registered(target'[d]),
           \A d \in Conns : target'[d] \in Conns \union {None},
           \A d \in Conns : handler'[d] = "drop" =>
               target'[d] # None /\ Unserved(target'[d])
    PROVE  SessionInv'
<1>1. ASSUME NEW d \in Conns, Registered(d)
      PROVE  Registered(d)'
  BY <1>1 DEF Registered
<1>2. \A a \in Addrs : sessions'[a] # None =>
          /\ OwnerOf(sessions'[a]) = a
          /\ Registered(sessions[a])'
          /\ handler'[sessions'[a]] \notin {"close", "done"}
  BY <1>1 DEF SessionInv, TypeOK
<1>3. \A a \in Addrs : latest'[a] # None =>
          /\ OwnerOf(latest'[a]) = a
          /\ Registered(latest[a])'
          /\ sessions'[a] = latest'[a] \/ Unserved(latest[a])'
  BY <1>1, UnservedStays DEF SessionInv, TypeOK
<1>4. \A d \in Conns : target'[d] # None => Registered(target[d])'
  <2> SUFFICES ASSUME NEW d \in Conns, target'[d] # None
               PROVE  Registered(target[d])'
    OBVIOUS
  <2>1. PICK t \in Conns : t = target'[d]
    OBVIOUS
  <2>2. Registered(t)
    BY <2>1 DEF SessionInv
  <2>3. QED
    BY <1>1, <2>1, <2>2 DEF Registered
<1>5. \A d \in Conns : handler'[d] = "drop" => target'[d] # None /\ Unserved(target[d])'
  <2> SUFFICES ASSUME NEW d \in Conns, handler'[d] = "drop"
               PROVE  target'[d] # None /\ Unserved(target[d])'
    OBVIOUS
  <2>1. PICK t \in Conns : t = target'[d]
    OBVIOUS
  <2>2. Unserved(t)'
    BY <2>1, UnservedStays
  <2>3. QED
    BY <2>1, <2>2 DEF Unserved
<1>6. QED
  BY <1>2, <1>3, <1>4, <1>5 DEF SessionInv

\* The same, of whatever connection is named.
LEMMA KeptUnserved ==
    ASSUME TypeOK, [Next]_vars
    PROVE  \A d \in Conns : Unserved(d) => Unserved(d)'
  BY UnservedStays

LEMMA AuthSession ==
    ASSUME TypeOK, SessionInv, [Next]_vars, NEW c \in Conns,
           Authenticate(c) \/ WriteAuthOK(c) \/ WriteAuthFail(c)
    PROVE  SessionInv'
<1>1. /\ \A d \in Conns \ {c} : handler'[d] = handler[d]
      /\ handler[c] \in Unregistered
      /\ handler'[c] # "drop"
      /\ UNCHANGED <<sessions, latest, target>>
  BY DEF Authenticate, WriteAuthOK, WriteAuthFail, Goto, TypeOK, Unregistered
<1>2. ~Registered(c)
  BY <1>1 DEF Registered
<1>3. \A d \in Conns : handler'[d] = "drop" => target[d] # None /\ Unserved(target[d])
  BY <1>1 DEF SessionInv
<1>4. target \in [Conns -> Conns \union {None}]
  BY DEF TypeOK
<1>5. QED
  BY <1>1, <1>2, <1>3, <1>4, QuietSession

LEMMA AddKeepsSession ==
    ASSUME TypeOK, SessionInv, [Next]_vars, NEW c \in Conns, AddSession(c)
    PROVE  SessionInv'
<1>1. /\ \A d \in Conns \ {c} : handler'[d] = handler[d]
      /\ handler'[c] = "read"
      /\ target' = target
      /\ OwnerOf(c) \in Addrs
  BY RelayAssumption DEF AddSession, Goto, TypeOK
<1>2. /\ sessions'[OwnerOf(c)] = c
      /\ latest'[OwnerOf(c)] = c
      /\ \A a \in Addrs \ {OwnerOf(c)} : sessions'[a] = sessions[a] /\ latest'[a] = latest[a]
  BY <1>1 DEF AddSession, TypeOK
<1>3. \A d \in Conns : Registered(d) => Registered(d)'
  BY <1>1 DEF Registered, Unregistered
<1>4. Registered(c)'
  BY <1>1 DEF Registered, Unregistered
<1>5. ASSUME NEW a \in Addrs, sessions'[a] # None
      PROVE  /\ OwnerOf(sessions'[a]) = a
             /\ Registered(sessions[a])'
             /\ handler'[sessions'[a]] \notin {"close", "done"}
  <2>1. CASE a = OwnerOf(c)
    BY <1>1, <1>2, <1>4, <2>1
  <2>2. CASE a # OwnerOf(c)
    <3>1. sessions'[a] = sessions[a] /\ sessions[a] \in Conns
      BY <1>2, <1>5, <2>2 DEF TypeOK
    <3>2. Registered(sessions[a]) /\ OwnerOf(sessions[a]) = a
          /\ handler[sessions[a]] \notin {"close", "done"}
      BY <1>5, <3>1 DEF SessionInv
    <3>3. QED
      BY <1>1, <1>3, <2>2, <3>1, <3>2 DEF Registered
  <2>3. QED
    BY <2>1, <2>2
<1>6. ASSUME NEW a \in Addrs, latest'[a] # None
      PROVE  /\ OwnerOf(latest'[a]) = a
             /\ Registered(latest[a])'
             /\ sessions'[a] = latest'[a] \/ Unserved(latest[a])'
  <2>1. CASE a = OwnerOf(c)
    BY <1>1, <1>2, <1>4, <2>1
  <2>2. CASE a # OwnerOf(c)
    <3>1. latest'[a] = latest[a] /\ sessions'[a] = sessions[a] /\ latest[a] \in Conns
      BY <1>2, <1>6, <2>2 DEF TypeOK
    <3>2. Registered(latest[a]) /\ OwnerOf(latest[a]) = a
          /\ (sessions[a] = latest[a] \/ Unserved(latest[a]))
      BY <1>6, <3>1 DEF SessionInv
    <3>3. Unserved(latest[a]) => Unserved(latest[a])'
      BY <3>1, KeptUnserved
    <3>4. QED
      BY <1>1, <1>3, <3>1, <3>2, <3>3 DEF Registered
  <2>3. QED
    BY <2>1, <2>2
<1>7. \A d \in Conns : target'[d] # None => Registered(target[d])'
  BY <1>1, <1>3 DEF SessionInv, TypeOK, Registered
<1>8. \A d \in Conns : handler'[d] = "drop" => target'[d] # None /\ Unserved(target[d])'
  <2> SUFFICES ASSUME NEW d \in Conns, handler'[d] = "drop"
               PROVE  target'[d] # None /\ Unserved(target[d])'
    OBVIOUS
  <2>1. target'[d] = target[d] /\ target[d] \in Conns /\ Unserved(target[d])
    BY <1>1 DEF SessionInv, TypeOK
  <2>2. QED
    BY <2>1, RelayAssumption, KeptUnserved
<1>9. QED
  BY <1>5, <1>6, <1>7, <1>8 DEF SessionInv, Registered

\* What a Write that fails says of the connection it is made on.
LEMMA FailedWrite ==
    ASSUME NEW t \in Conns, WriteFails(t)
    PROVE  Cut(t) /\ Unserved(t)
  BY DEF WriteFails, Closed, Cut, Unserved

\* The frame loop, with the clients' own steps: the maps are left alone.
LEMMA LoopSession ==
    ASSUME TypeOK, SessionInv, [Next]_vars, NEW c \in Conns,
           \/ \E f \in RequestsOf(c) : ReadFrame(c, f)
           \/ ReadFails(c) \/ RefuseFrame(c) \/ PongLock(c) \/ Pong(c) \/ PongPayload(c)
           \/ Route(c) \/ RouteLock(c) \/ RouteData(c) \/ RoutePayload(c)
           \/ WriteNoRoute(c)
    PROVE  SessionInv'
<1>1. /\ UNCHANGED <<sessions, latest>>
      /\ \A d \in Conns \ {c} : handler'[d] = handler[d] /\ target'[d] = target[d]
      /\ handler[c] \notin Unregistered \union {"remove", "close", "done"}
      /\ handler'[c] \notin Unregistered \union {"close", "done"}
  BY DEF ReadFrame, ReadFails, RefuseFrame, PongLock, Pong, PongPayload, Route, RouteLock, RouteData,
         RoutePayload, WriteNoRoute, Acquire, LockedHeader, LockedPayload, Goto, TypeOK,
         Unregistered
<1>2. Registered(c)
  BY <1>1 DEF Registered
<1>3. Registered(c)'
  BY <1>1 DEF Registered
<1>4. target'[c] \in Conns \union {None}
      /\ (target'[c] # None => target'[c] = target[c] \/ Registered(target'[c]))
  <2>1. CASE Route(c)
    <3>1. frame[c].dst \in Addrs
      BY DEF TypeOK, Frames
    <3>2. target'[c] = sessions[frame[c].dst]
      BY <2>1 DEF Route, TypeOK
    <3>3. QED
      BY <3>1, <3>2 DEF SessionInv, TypeOK
  <2>2. CASE target' = target
    BY <2>2 DEF TypeOK
  <2>3. QED
    BY <2>1, <2>2 DEF ReadFrame, ReadFails, RefuseFrame, PongLock, Pong, PongPayload, RouteLock,
         RouteData, RoutePayload, WriteNoRoute, Acquire, LockedHeader, LockedPayload
<1>5. handler'[c] = "drop" => target'[c] # None /\ Unserved(target'[c])
  <2>1. ASSUME RouteData(c) \/ RoutePayload(c), handler'[c] = "drop"
        PROVE  target'[c] # None /\ Unserved(target'[c])
    <3>1. target[c] \in Conns /\ target[c] # None /\ target' = target
      BY <2>1 DEF RouteData, RoutePayload, LockedHeader, LockedPayload, TypeOK
    <3>2. WriteFails(target[c])
      BY <2>1 DEF RouteData, RoutePayload, LockedHeader, LockedPayload, Goto, TypeOK
    <3>3. QED
      BY <3>1, <3>2, FailedWrite
  <2>2. ASSUME ~(RouteData(c) \/ RoutePayload(c))
        PROVE  handler'[c] # "drop"
    BY <2>2 DEF ReadFrame, ReadFails, RefuseFrame, PongLock, Pong, PongPayload, Route, RouteLock,
         WriteNoRoute, Acquire, LockedHeader, LockedPayload, Goto, TypeOK
  <2>3. QED
    BY <2>1, <2>2
<1>6. \A d \in Conns : target'[d] \in Conns \union {None}
  BY <1>1, <1>4 DEF TypeOK
<1>7. \A d \in Conns : target'[d] # None => target'[d] = target[d] \/ Registered(target'[d])
  BY <1>1, <1>4
<1>8. \A d \in Conns : handler'[d] = "drop" => target'[d] # None /\ Unserved(target'[d])
  BY <1>1, <1>5 DEF SessionInv
<1>9. QED
  BY <1>1, <1>3, <1>6, <1>7, <1>8, QuietSession

LEMMA DropSession ==
    ASSUME TypeOK, SessionInv, [Next]_vars, NEW c \in Conns, NEW s \in Conns,
           Unserved(s), sessions' = Without(s), UNCHANGED <<latest, target>>,
           \A d \in Conns \ {c} : handler'[d] = handler[d],
           \A d \in Conns : Registered(d) => Registered(d)',
           \A a \in Addrs : sessions'[a] # None => handler'[sessions'[a]] \notin {"close", "done"},
           handler'[c] # "drop"
    PROVE  SessionInv'
<1>1. \A a \in Addrs : \/ sessions'[a] = sessions[a]
                       \/ sessions[a] = s /\ sessions'[a] = None
  BY WithoutType
<1>2. \A a \in Addrs : sessions'[a] # None =>
          /\ OwnerOf(sessions'[a]) = a
          /\ Registered(sessions[a])'
          /\ sessions'[a] = sessions[a]
          /\ handler'[sessions'[a]] \notin {"close", "done"}
  BY <1>1 DEF SessionInv, TypeOK
<1>3. \A a \in Addrs : latest'[a] # None =>
          /\ OwnerOf(latest'[a]) = a
          /\ Registered(latest[a])'
          /\ sessions'[a] = latest'[a] \/ Unserved(latest[a])'
  BY <1>1, KeptUnserved DEF SessionInv, TypeOK
<1>4. \A d \in Conns : target'[d] # None => Registered(target[d])'
  BY DEF SessionInv, TypeOK
<1>5. \A d \in Conns : handler'[d] = "drop" => target'[d] # None /\ Unserved(target[d])'
  <2> SUFFICES ASSUME NEW d \in Conns, handler'[d] = "drop"
               PROVE  target'[d] # None /\ Unserved(target[d])'
    OBVIOUS
  <2>1. target'[d] = target[d] /\ target[d] \in Conns /\ Unserved(target[d])
    BY DEF SessionInv, TypeOK
  <2>2. QED
    BY <2>1, RelayAssumption, KeptUnserved
<1>6. QED
  BY <1>2, <1>3, <1>4, <1>5 DEF SessionInv, Registered

LEMMA NextSession == TypeOK /\ SessionInv /\ [Next]_vars => SessionInv'
<1> SUFFICES ASSUME TypeOK, SessionInv, [Next]_vars
             PROVE  SessionInv'
  OBVIOUS
<1>1. ASSUME NEW c \in Conns, ClientReads(c) \/ ClientCloses(c)
      PROVE  SessionInv'
  <2>1. UNCHANGED <<sessions, latest, handler, target>>
    BY <1>1 DEF ClientReads, ClientCloses
  <2>2. Registered(c) => Registered(c)'
    BY <2>1 DEF Registered
  <2>3. \A a \in Addrs : handler'[c] \in {"close", "done"} => sessions[a] # c
    BY <2>1, RelayAssumption DEF SessionInv, TypeOK
  <2>4. \A d \in Conns : handler'[d] = "drop" => target'[d] # None /\ Unserved(target'[d])
    BY <2>1 DEF SessionInv, TypeOK
  <2>5. target \in [Conns -> Conns \union {None}]
    BY DEF TypeOK
  <2>6. QED
    BY <2>1, <2>2, <2>3, <2>4, <2>5, QuietSession
<1>2. ASSUME NEW c \in Conns, DropTarget(c)
      PROVE  SessionInv'
  <2>1. target[c] \in Conns /\ Unserved(target[c])
    BY <1>2 DEF DropTarget, SessionInv, TypeOK
  <2>2. /\ \A d \in Conns \ {c} : handler'[d] = handler[d]
        /\ handler'[c] = "read"
        /\ UNCHANGED <<latest, target>>
        /\ sessions' = Without(target[c])
    BY <1>2 DEF DropTarget, Goto, TypeOK
  <2>3. \A d \in Conns : Registered(d) => Registered(d)'
    BY <2>2 DEF Registered, Unregistered
  <2>4. \A a \in Addrs : sessions'[a] # None => handler'[sessions'[a]] \notin {"close", "done"}
    BY <2>1, <2>2, WithoutType DEF SessionInv, TypeOK
  <2>5. QED
    BY <2>1, <2>2, <2>3, <2>4, DropSession
<1>3. ASSUME NEW c \in Conns, RemoveSession(c)
      PROVE  SessionInv'
  <2>1. /\ \A d \in Conns \ {c} : handler'[d] = handler[d]
        /\ handler[c] = "remove" /\ handler'[c] = "close"
        /\ UNCHANGED <<latest, target>>
        /\ sessions' = Without(c)
    BY <1>3 DEF RemoveSession, Goto, TypeOK
  <2>2. \A d \in Conns : Registered(d) => Registered(d)'
    BY <2>1 DEF Registered, Unregistered
  <2>3. \A a \in Addrs : sessions'[a] # c
    BY <2>1, WithoutType, RelayAssumption DEF SessionInv
  <2>4. \A a \in Addrs : sessions'[a] # None => handler'[sessions'[a]] \notin {"close", "done"}
    BY <2>1, <2>3, WithoutType DEF SessionInv, TypeOK
  <2>5. Unserved(c)
    BY <2>1 DEF Unserved
  <2>6. QED
    BY <2>1, <2>2, <2>4, <2>5, DropSession
<1>4. ASSUME NEW c \in Conns, Close(c)
      PROVE  SessionInv'
  <2>1. /\ \A d \in Conns \ {c} : handler'[d] = handler[d]
        /\ handler[c] = "close" /\ handler'[c] = "done"
        /\ UNCHANGED <<sessions, latest, target>>
    BY <1>4 DEF Close, Goto, TypeOK
  <2>2. Registered(c) => Registered(c)'
    BY <2>1 DEF Registered, Unregistered
  <2>3. \A a \in Addrs : sessions[a] # c
    BY <2>1, RelayAssumption DEF SessionInv
  <2>4. \A d \in Conns : handler'[d] = "drop" => target[d] # None /\ Unserved(target[d])
    BY <2>1 DEF SessionInv
  <2>5. target \in [Conns -> Conns \union {None}]
    BY DEF TypeOK
  <2>6. QED
    BY <2>1, <2>2, <2>3, <2>4, <2>5, QuietSession
<1>5. CASE UNCHANGED vars
  BY <1>5 DEF vars, SessionInv, Registered, Unserved
<1>6. QED
  BY <1>1, <1>2, <1>3, <1>4, <1>5, AuthSession, AddKeepsSession, LoopSession DEF Next, HandleConn

-----------------------------------------------------------------------------
(* The answer to the token. *)

Unanswered == {"auth", "ok", "fail"}

\* Nothing is on a connection before its answer, and something after it, unless
\* the client is gone.
AnswerInv ==
    /\ AuthAnswerFirst
    /\ \A c \in Conns : IF handler[c] \in Unanswered THEN wire[c] = <<>>
                        ELSE wire[c] = <<>> => peer[c] = "gone"

\* What any one step may do to the connection t.
AnswerStep(t) ==
    \/ /\ wire'[t] = wire[t]
       /\ (handler'[t] \in Unanswered) = (handler[t] \in Unanswered) \/ peer[t] = "gone"
       /\ handler'[t] \in Unanswered => handler[t] \in Unanswered
    \/ /\ handler[t] \in Unanswered
       /\ handler'[t] \notin Unanswered
       /\ \E chunk \in Chunks : /\ chunk.type \in {"auth_ok", "auth_fail"}
                                /\ wire'[t] = Append(wire[t], chunk)
    \/ /\ handler[t] \notin Unanswered
       /\ handler'[t] \notin Unanswered
       /\ peer[t] = "open"
       /\ \E chunk \in Chunks : /\ chunk.type \notin {"auth_ok", "auth_fail"}
                                /\ wire'[t] = Append(wire[t], chunk)

LEMMA QuietAnswer ==
    ASSUME TypeOK, NEW c \in Conns, NEW place \in Places, Goto(c, place), wire' = wire,
           (place \in Unanswered) = (handler[c] \in Unanswered)
    PROVE  \A t \in Conns : AnswerStep(t)
<1> TAKE t \in Conns
<1>1. CASE t = c
  BY <1>1, GotoType DEF AnswerStep
<1>2. CASE t # c
  BY <1>2, GotoType DEF AnswerStep
<1>3. QED
  BY <1>1, <1>2

\* The handler of c writes on w, its own connection or that of a session.
LEMMA WriteAnswer ==
    ASSUME TypeOK, NEW c \in Conns, NEW w \in Conns, NEW place \in Places, Goto(c, place),
           NEW chunk \in Chunks, WriteOK(w, chunk) \/ WriteFails(w),
           handler[c] # "done",
           \/ /\ w = c /\ chunk.type \in {"auth_ok", "auth_fail"}
              /\ handler[c] \in Unanswered /\ place \notin Unanswered
           \/ /\ handler[w] \notin Unanswered /\ chunk.type \notin {"auth_ok", "auth_fail"}
              /\ handler[c] \notin Unanswered /\ place \notin Unanswered
    PROVE  \A t \in Conns : AnswerStep(t)
<1> TAKE t \in Conns
<1>1. handler'[c] = place /\ \A d \in Conns \ {c} : handler'[d] = handler[d]
  BY GotoType
<1>2. CASE t # w
  <2>1. wire'[t] = wire[t]
    BY <1>2, WriteType
  <2>2. (handler'[t] \in Unanswered) = (handler[t] \in Unanswered)
    BY <1>1, <1>2
  <2>3. QED
    BY <2>1, <2>2 DEF AnswerStep
<1>3. CASE t = w
  <2>1. CASE wire'[t] = wire[t] /\ (peer[t] = "gone" \/ Closed(t))
    <3>1. Closed(t) => t # c /\ handler[t] \notin Unanswered
      BY DEF Closed, Unanswered
    <3>2. QED
      BY <1>1, <1>3, <2>1, <3>1 DEF AnswerStep
  <2>2. CASE wire'[t] = Append(wire[t], chunk) /\ peer[t] = "open"
    BY <1>1, <1>3, <2>2 DEF AnswerStep
  <2>3. QED
    BY <1>3, <2>1, <2>2, WriteType
<1>4. QED
  BY <1>2, <1>3

LEMMA EveryAnswerStep ==
    ASSUME TypeOK, SessionInv, [Next]_vars
    PROVE  \A t \in Conns : AnswerStep(t)
<1>1. ASSUME NEW c \in Conns, Authenticate(c) \/ AddSession(c) \/ ReadFails(c) \/ RefuseFrame(c) \/ PongLock(c)
                             \/ Route(c) \/ RouteLock(c) \/ DropTarget(c)
                             \/ RemoveSession(c) \/ Close(c)
                             \/ \E f \in RequestsOf(c) : ReadFrame(c, f)
      PROVE  \A t \in Conns : AnswerStep(t)
  <2>1. PICK place \in Places : /\ Goto(c, place) /\ wire' = wire
                                /\ (place \in Unanswered) = (handler[c] \in Unanswered)
    BY <1>1 DEF Authenticate, AddSession, ReadFails, RefuseFrame, PongLock, Route, RouteLock, DropTarget,
                RemoveSession, Close, ReadFrame, Acquire, Places, Unanswered
  <2>2. QED
    BY <2>1, QuietAnswer
<1>2. ASSUME NEW c \in Conns, WriteAuthOK(c) \/ WriteAuthFail(c)
      PROVE  \A t \in Conns : AnswerStep(t)
  <2>1. PICK place \in {"add", "close"}, type \in {"auth_ok", "auth_fail"} :
            /\ Goto(c, place) /\ handler[c] \in {"ok", "fail"}
            /\ WriteOK(c, Chunk("header", type, c)) \/ WriteFails(c)
    BY <1>2 DEF WriteAuthOK, WriteAuthFail
  <2>2. Chunk("header", type, c) \in Chunks /\ Chunk("header", type, c).type = type
    BY ChunkType DEF Chunk
  <2>3. /\ place \in Places /\ place \notin Unanswered
        /\ handler[c] \in Unanswered /\ handler[c] # "done"
    BY <2>1 DEF Places, Unanswered
  <2>4. QED
    BY <2>1, <2>2, <2>3, WriteAnswer
<1>3. ASSUME NEW c \in Conns, Pong(c) \/ PongPayload(c) \/ RouteData(c) \/ RoutePayload(c)
                             \/ WriteNoRoute(c)
      PROVE  \A t \in Conns : AnswerStep(t)
  <2>1. PICK w \in Conns, place \in Places, part \in {"header", "payload"},
             type \in {"pong", "no_route", "data"} :
            /\ Goto(c, place)
            /\ WriteOK(w, Chunk(part, type, c)) \/ WriteFails(w)
            /\ w = c \/ w = target[c]
            /\ place \notin Unanswered
            /\ handler[c] \notin Unregistered \union {"done"}
    <3>1. CASE Pong(c) \/ PongPayload(c) \/ WriteNoRoute(c)
      BY <3>1 DEF Pong, PongPayload, WriteNoRoute, LockedHeader, LockedPayload, Places,
                  Unanswered, Unregistered
    <3>2. CASE RouteData(c) \/ RoutePayload(c)
      <4>1. target[c] \in Conns
        BY <3>2 DEF RouteData, RoutePayload, TypeOK
      <4>2. QED
        BY <3>2, <4>1 DEF RouteData, RoutePayload, LockedHeader, LockedPayload, Places,
                  Unanswered, Unregistered
    <3>3. QED
      BY <1>3, <3>1, <3>2
  <2>2. Chunk(part, type, c) \in Chunks /\ Chunk(part, type, c).type = type
    BY ChunkType DEF Chunk
  <2>3. handler[w] \notin Unregistered
    <3>1. CASE w = c
      BY <2>1, <3>1
    <3>2. CASE w = target[c]
      BY <3>2, RelayAssumption DEF SessionInv, Registered
    <3>3. QED
      BY <2>1, <3>1, <3>2
  <2>4. handler[w] \notin Unanswered /\ handler[c] \notin Unanswered /\ handler[c] # "done"
    BY <2>1, <2>3 DEF Unanswered, Unregistered
  <2>5. QED
    BY <2>1, <2>2, <2>4, WriteAnswer
<1>4. ASSUME NEW c \in Conns, ClientReads(c) \/ ClientCloses(c)
      PROVE  \A t \in Conns : AnswerStep(t)
  BY <1>4 DEF ClientReads, ClientCloses, AnswerStep
<1>5. CASE UNCHANGED vars
  BY <1>5 DEF vars, AnswerStep
<1>6. QED
  BY <1>1, <1>2, <1>3, <1>4, <1>5 DEF Next, HandleConn

LEMMA GoneStays ==
    ASSUME TypeOK, [Next]_vars, NEW c \in Conns, peer[c] = "gone"
    PROVE  peer'[c] = "gone"
  BY DEF Next, HandleConn, vars, TypeOK, Authenticate, WriteAuthOK, WriteAuthFail, AddSession,
         ReadFrame, ReadFails, RefuseFrame, PongLock, Pong, PongPayload, Route, RouteLock, RouteData,
         RoutePayload, DropTarget, WriteNoRoute, RemoveSession, Close, ClientReads, ClientCloses,
         Acquire, LockedHeader, LockedPayload

LEMMA NextAnswer == TypeOK /\ SessionInv /\ AnswerInv /\ [Next]_vars => AnswerInv'
<1> SUFFICES ASSUME TypeOK, SessionInv, AnswerInv, [Next]_vars
             PROVE  AnswerInv'
  OBVIOUS
<1>1. ASSUME NEW t \in Conns
      PROVE  /\ \A i \in 1..Len(wire'[t]) :
                    wire'[t][i].type \in {"auth_ok", "auth_fail"} <=> i = 1
             /\ IF handler'[t] \in Unanswered THEN wire'[t] = <<>>
                ELSE wire'[t] = <<>> => peer'[t] = "gone"
  <2>1. AnswerStep(t) /\ (peer[t] = "gone" => peer'[t] = "gone")
    BY <1>1, EveryAnswerStep, GoneStays
  <2>2. /\ wire[t] \in Seq(Chunks)
        /\ \A i \in 1..Len(wire[t]) : wire[t][i].type \in {"auth_ok", "auth_fail"} <=> i = 1
        /\ IF handler[t] \in Unanswered THEN wire[t] = <<>> ELSE wire[t] = <<>> => peer[t] = "gone"
    BY DEF AnswerInv, AuthAnswerFirst, TypeOK
  <2>3. CASE wire'[t] = wire[t]
    BY <2>1, <2>2, <2>3 DEF AnswerStep
  <2>4. CASE handler[t] \in Unanswered /\ wire'[t] # wire[t]
    <3>1. PICK chunk \in Chunks : /\ chunk.type \in {"auth_ok", "auth_fail"}
                                  /\ wire'[t] = Append(<<>>, chunk)
      BY <2>1, <2>2, <2>4 DEF AnswerStep
    <3>2. handler'[t] \notin Unanswered
      BY <2>1, <2>4 DEF AnswerStep
    <3>3. Len(wire'[t]) = 1 /\ wire'[t][1] = chunk /\ wire'[t] # <<>>
      BY <3>1
    <3>4. QED
      BY <3>1, <3>2, <3>3
  <2>5. CASE handler[t] \notin Unanswered /\ wire'[t] # wire[t]
    <3>1. PICK chunk \in Chunks : /\ chunk.type \notin {"auth_ok", "auth_fail"}
                                  /\ wire'[t] = Append(wire[t], chunk)
      BY <2>1, <2>5 DEF AnswerStep
    <3>2. handler'[t] \notin Unanswered /\ peer[t] # "gone"
      BY <2>1, <2>5 DEF AnswerStep
    <3>3. Len(wire[t]) \in Nat /\ Len(wire[t]) > 0
      BY <2>2, <2>5, <3>2
    <3>4. /\ Len(wire'[t]) = Len(wire[t]) + 1
          /\ wire'[t][Len(wire[t]) + 1] = chunk
          /\ \A i \in 1..Len(wire[t]) : wire'[t][i] = wire[t][i]
          /\ wire'[t] # <<>>
      BY <2>2, <3>1, <3>3
    <3>5. QED
      BY <2>2, <3>1, <3>2, <3>3, <3>4
  <2>6. QED
    BY <2>3, <2>4, <2>5
<1>2. QED
  BY <1>1 DEF AnswerInv, AuthAnswerFirst

-----------------------------------------------------------------------------
(* The session mutex, and what goes out under it. *)

\* The handler of c writes a frame on t, from its header on.
Holds(c, t) ==
    \/ handler[c] \in {"pong", "pong_payload"} /\ t = c
    \/ handler[c] \in {"data", "data_payload"} /\ t = target[c]

\* Mutual exclusion: who writes a frame holds the mutex of the session.
LockInv == \A c, t \in Conns : Holds(c, t) => lock[t] = c

\* The handler of c has written the header and owes the payload.
Body(c, t) ==
    \/ handler[c] = "pong_payload" /\ t = c
    \/ handler[c] = "data_payload" /\ t = target[c]

\* That header.
HeaderOf(c) == Chunk("header", IF handler[c] = "pong_payload" THEN "pong" ELSE "data", c)

LastMutexed(s, i) == Mutexed(s, i) /\ \A j \in (i + 1)..Len(s) : ~Mutexed(s, j)

\* A header is only the last thing under the mutex while its handler is about to
\* write the payload.
HeaderInv ==
    \A t \in Conns : ~Cut(t) =>
        \A i \in 1..Len(wire[t]) :
            LastMutexed(wire[t], i) /\ Begins(wire[t], i) =>
                \E c \in Conns : Body(c, t) /\ wire[t][i] = HeaderOf(c)

\* The frame read last is on no wire yet.
Undelivered == {"route", "lock", "data"}

\* The session that Route has found belongs to the destination.
TargetInv ==
    \A c \in Conns : handler[c] \in {"lock", "data", "data_payload"} =>
        target[c] # None /\ OwnerOf(target[c]) = frame[c].dst

\* The frames of a sender that have arrived somewhere are those it has sent before.
SentInv ==
    \A t \in Conns : \A i \in 1..Len(wire[t]) : Arrives(wire[t], i) =>
        LET w == wire[t][i] IN
        /\ w.n <= taken[w.by]
        /\ handler[w.by] \in Undelivered => w.n < taken[w.by]

\* Holds and Body tell the handlers apart by these places.
Holding == {"pong", "pong_payload", "data", "data_payload"}
Owing   == {"pong_payload", "data_payload"}

Unlocked == {"auth_ok", "auth_fail", "no_route"}

\* Only the handler of c moves.
Moves(c) ==
    \A d \in Conns \ {c} :
        /\ handler'[d] = handler[d] /\ target'[d] = target[d]
        /\ taken'[d] = taken[d] /\ frame'[d] = frame[d]

\* It does not write under a mutex, ...
FreeStep(c) ==
    /\ handler[c] \notin Holding /\ handler'[c] \notin Holding
    /\ lock' = lock
    /\ \A t \in Conns :
          \/ wire'[t] = wire[t]
          \/ \E chunk \in Chunks : chunk.type \in Unlocked /\ wire'[t] = Append(wire[t], chunk)

\* ... it takes the mutex of t, ...
TakesMutex(c, t) ==
    /\ handler[c] \notin Holding /\ handler'[c] \in Holding \ Owing
    /\ Holds(c, t)' /\ \A u \in Conns : Holds(c, u)' => u = t
    /\ lock[t] = None /\ lock' = [lock EXCEPT ![t] = c]
    /\ wire' = wire

\* ... it writes a header on t under it, ...
WritesHeader(c, t) ==
    /\ Holds(c, t) /\ handler[c] \notin Owing
    /\ Body(c, t)' /\ \A u \in Conns : Holds(c, u)' => u = t
    /\ UNCHANGED <<lock, taken>>
    /\ handler'[c] = "data_payload" => handler[c] = "data"
    /\ \A u \in Conns \ {t} : wire'[u] = wire[u]
    /\ \/ wire'[t] = wire[t] /\ Cut(t)
       \/ ~Cut(t) /\ HeaderOf(c)' \in Chunks /\ wire'[t] = Append(wire[t], HeaderOf(c)')

\* What completes a frame.
PayloadOf(w) == [w EXCEPT !.part = "payload"]

\* ... or it releases the mutex, with the payload or with an error.
Releases(c, t) ==
    /\ Holds(c, t) /\ \A u \in Conns : Holds(c, u) => u = t
    /\ handler'[c] \notin Holding
    /\ lock' = [lock EXCEPT ![t] = None]
    /\ \A u \in Conns \ {t} : wire'[u] = wire[u]
    /\ \/ wire'[t] = wire[t] /\ Cut(t)
       \/ /\ Body(c, t) /\ ~Cut(t)
          /\ HeaderOf(c) \in Chunks
          /\ wire'[t] = Append(wire[t], PayloadOf(HeaderOf(c)))

MutexStep(c) ==
    /\ Moves(c)
    /\ \/ FreeStep(c)
       \/ \E t \in Conns : TakesMutex(c, t) \/ WritesHeader(c, t) \/ Releases(c, t)

LEMMA FreeSteps ==
    ASSUME TypeOK, NEW c \in Conns,
           \/ \E f \in RequestsOf(c) : ReadFrame(c, f)
           \/ Authenticate(c) \/ WriteAuthOK(c) \/ WriteAuthFail(c) \/ AddSession(c)
           \/ ReadFails(c) \/ RefuseFrame(c) \/ Route(c) \/ DropTarget(c) \/ WriteNoRoute(c)
           \/ RemoveSession(c) \/ Close(c)
    PROVE  MutexStep(c)
<1>1. Moves(c)
  BY DEF Moves, Authenticate, WriteAuthOK, WriteAuthFail, AddSession, ReadFrame, ReadFails, RefuseFrame,
         Route, DropTarget, WriteNoRoute, RemoveSession, Close, Goto, TypeOK
<1>2. lock' = lock
  BY DEF Authenticate, WriteAuthOK, WriteAuthFail, AddSession, ReadFrame, ReadFails, RefuseFrame,
         Route, DropTarget, WriteNoRoute, RemoveSession, Close
<1>3. handler[c] \notin Holding /\ handler'[c] \notin Holding
  BY DEF Authenticate, WriteAuthOK, WriteAuthFail, AddSession, ReadFrame, ReadFails, RefuseFrame,
         Route, DropTarget, WriteNoRoute, RemoveSession, Close, Goto, TypeOK, Holding
<1>4. ASSUME NEW t \in Conns
      PROVE  \/ wire'[t] = wire[t]
             \/ \E chunk \in Chunks : chunk.type \in Unlocked /\ wire'[t] = Append(wire[t], chunk)
  <2>1. ASSUME NEW type \in Unlocked, WriteOK(c, Chunk("header", type, c)) \/ WriteFails(c)
        PROVE  \/ wire'[t] = wire[t]
               \/ \E chunk \in Chunks : chunk.type \in Unlocked /\ wire'[t] = Append(wire[t], chunk)
    <3>1. Chunk("header", type, c) \in Chunks /\ Chunk("header", type, c).type = type
      BY ChunkType DEF Chunk, Unlocked
    <3>2. QED
      BY <2>1, <3>1, WriteType
  <2>2. CASE WriteAuthOK(c) \/ WriteAuthFail(c) \/ WriteNoRoute(c)
    BY <2>1, <2>2 DEF WriteAuthOK, WriteAuthFail, WriteNoRoute, Unlocked
  <2>3. CASE wire' = wire
    BY <2>3
  <2>4. QED
    BY <2>2, <2>3 DEF Authenticate, AddSession, ReadFrame, ReadFails, RefuseFrame, Route, DropTarget,
         RemoveSession, Close
<1>5. QED
  BY <1>1, <1>2, <1>3, <1>4 DEF MutexStep, FreeStep

LEMMA AcquireSteps ==
    ASSUME TypeOK, NEW c \in Conns, PongLock(c) \/ RouteLock(c)
    PROVE  MutexStep(c)
<1>1. Moves(c)
  BY DEF Moves, PongLock, RouteLock, Acquire, Goto, TypeOK
<1>2. CASE PongLock(c)
  <2>1. handler[c] = "pong_lock" /\ handler'[c] = "pong" /\ wire' = wire
        /\ lock[c] = None /\ lock' = [lock EXCEPT ![c] = c]
    BY <1>2 DEF PongLock, Acquire, Goto, TypeOK
  <2>2. TakesMutex(c, c)
    BY <2>1 DEF TakesMutex, Holds, Holding, Owing
  <2>3. QED
    BY <1>1, <2>2 DEF MutexStep
<1>3. CASE RouteLock(c)
  <2>1. target[c] \in Conns /\ target' = target
    BY <1>3 DEF RouteLock, Acquire, TypeOK
  <2>2. handler[c] = "lock" /\ handler'[c] = "data" /\ wire' = wire
        /\ lock[target[c]] = None /\ lock' = [lock EXCEPT ![target[c]] = c]
    BY <1>3 DEF RouteLock, Acquire, Goto, TypeOK
  <2>3. PICK t \in Conns : t = target[c]
    BY <2>1
  <2>4. TakesMutex(c, t)
    BY <2>1, <2>2, <2>3 DEF TakesMutex, Holds, Holding, Owing
  <2>5. QED
    BY <1>1, <2>4 DEF MutexStep
<1>4. QED
  BY <1>2, <1>3

\* A Write under the mutex of t that does not go out finds the connection cut.
LEMMA LockedWrite ==
    ASSUME TypeOK, NEW t \in Conns, NEW chunk \in Chunks
    PROVE  /\ WriteOK(t, chunk) => 
                 /\ \A u \in Conns \ {t} : wire'[u] = wire[u]
                 /\ \/ wire'[t] = wire[t] /\ Cut(t)
                    \/ wire'[t] = Append(wire[t], chunk) /\ ~Cut(t)
           /\ WriteFails(t) => 
                 /\ \A u \in Conns \ {t} : wire'[u] = wire[u]
                 /\ wire'[t] = wire[t] /\ Cut(t)
  BY WriteType DEF WriteOK, WriteFails, Closed, Cut, TypeOK

LEMMA HeaderSteps ==
    ASSUME TypeOK, SessionInv, NEW c \in Conns, Pong(c) \/ RouteData(c)
    PROVE  MutexStep(c)
<1>1. Moves(c)
  BY DEF Moves, Pong, RouteData, LockedHeader, Goto, TypeOK
<1>2. ASSUME NEW t \in Conns, NEW type \in {"pong", "data"},
             NEW here \in Holding \ Owing, NEW next \in Owing, NEW onError \in Places \ Holding,
             LockedHeader(c, t, here, type, next, onError),
             IF type = "pong" THEN t = c /\ here = "pong" /\ next = "pong_payload"
             ELSE t = target[c] /\ here = "data" /\ next = "data_payload"
      PROVE  MutexStep(c)
  <2>1. PICK chunk \in Chunks : chunk = Chunk("header", type, c)
    BY ChunkType
  <2>2. /\ handler[c] = here /\ Holds(c, t) /\ handler[c] \notin Owing
        /\ \A u \in Conns : Holds(c, u) => u = t
        /\ UNCHANGED <<frame, taken, target>>
    BY <1>2 DEF LockedHeader, Holds
  <2>3. CASE WriteFails(t) /\ lock' = [lock EXCEPT ![t] = None] /\ Goto(c, onError)
    <3>1. handler'[c] \notin Holding
      BY <2>3 DEF Goto, TypeOK
    <3>2. /\ \A u \in Conns \ {t} : wire'[u] = wire[u]
          /\ wire'[t] = wire[t] /\ Cut(t)
      BY <1>2, <2>1, <2>3, LockedWrite
    <3>3. Releases(c, t)
      BY <2>2, <2>3, <3>1, <3>2 DEF Releases
    <3>4. QED
      BY <1>1, <3>3 DEF MutexStep
  <2>4. CASE WriteOK(t, chunk) /\ lock' = lock /\ Goto(c, next)
    <3>1. handler'[c] = next
      BY <2>4 DEF Goto, TypeOK
    <3>2. /\ \A u \in Conns \ {t} : wire'[u] = wire[u]
          /\ \/ wire'[t] = wire[t] /\ Cut(t)
             \/ wire'[t] = Append(wire[t], chunk) /\ ~Cut(t)
      BY <1>2, <2>1, <2>4, LockedWrite
    <3>3. HeaderOf(c)' = chunk
      BY <1>2, <2>1, <2>2, <3>1 DEF HeaderOf, Chunk
    <3>4. Body(c, t)' /\ \A u \in Conns : Holds(c, u)' => u = t
      BY <1>2, <2>2, <3>1 DEF Body, Holds
    <3>5. handler'[c] = "data_payload" => handler[c] = "data"
      BY <1>2, <2>2, <3>1
    <3>6. WritesHeader(c, t)
      BY <2>1, <2>2, <2>4, <3>2, <3>3, <3>4, <3>5 DEF WritesHeader
    <3>7. QED
      BY <1>1, <3>6 DEF MutexStep
  <2>5. QED
    BY <1>2, <2>1, <2>3, <2>4 DEF LockedHeader
<1>3. CASE Pong(c)
  <2>1. handler[c] = "pong"
    BY <1>3 DEF Pong, LockedHeader
  <2>2. QED
    BY <1>2, <1>3, <2>1 DEF Pong, Holding, Owing, Places
<1>4. CASE RouteData(c)
  <2>1. target[c] \in Conns /\ target[c] # None
    BY <1>4 DEF RouteData, TypeOK
  <2>2. QED
    BY <1>2, <1>4, <2>1 DEF RouteData, Holding, Owing, Places
<1>5. QED
  BY <1>3, <1>4

LEMMA PayloadSteps ==
    ASSUME TypeOK, SessionInv, NEW c \in Conns, PongPayload(c) \/ RoutePayload(c)
    PROVE  MutexStep(c)
<1>1. Moves(c)
  BY DEF Moves, PongPayload, RoutePayload, LockedPayload, Goto, TypeOK
<1>2. ASSUME NEW t \in Conns, NEW type \in {"pong", "data"},
             NEW here \in Owing, NEW onError \in Places \ Holding,
             LockedPayload(c, t, here, type, onError),
             IF type = "pong" THEN t = c /\ here = "pong_payload"
             ELSE t = target[c] /\ here = "data_payload"
      PROVE  MutexStep(c)
  <2>1. PICK chunk \in Chunks : chunk = Chunk("payload", type, c)
    BY ChunkType
  <2>2. /\ handler[c] = here /\ Holds(c, t) /\ Body(c, t)
        /\ \A u \in Conns : Holds(c, u) => u = t
    BY <1>2 DEF LockedPayload, Holds, Body
  <2>3. HeaderOf(c) = Chunk("header", type, c)
    BY <1>2, <2>2 DEF HeaderOf
  <2>4. HeaderOf(c) \in Chunks
    BY <2>3, ChunkType
  <2>5. chunk = PayloadOf(HeaderOf(c))
    BY <2>1, <2>3 DEF Chunk, PayloadOf
  <2>6. handler'[c] \notin Holding
    BY <1>2 DEF LockedPayload, Goto, TypeOK, Holding
  <2>7. /\ \A u \in Conns \ {t} : wire'[u] = wire[u]
        /\ \/ wire'[t] = wire[t] /\ Cut(t)
           \/ wire'[t] = Append(wire[t], chunk) /\ ~Cut(t)
    BY <1>2, <2>1, LockedWrite DEF LockedPayload
  <2>8. Releases(c, t)
    BY <1>2, <2>2, <2>4, <2>5, <2>6, <2>7 DEF Releases, LockedPayload
  <2>9. QED
    BY <1>1, <2>8 DEF MutexStep
<1>3. CASE PongPayload(c)
  <2>1. handler[c] = "pong_payload"
    BY <1>3 DEF PongPayload, LockedPayload
  <2>2. QED
    BY <1>2, <1>3, <2>1 DEF PongPayload, Holding, Owing, Places
<1>4. CASE RoutePayload(c)
  <2>1. target[c] \in Conns /\ target[c] # None
    BY <1>4 DEF RoutePayload, TypeOK
  <2>2. QED
    BY <1>2, <1>4, <2>1 DEF RoutePayload, Holding, Owing, Places
<1>5. QED
  BY <1>3, <1>4

LEMMA EveryMutexStep ==
    ASSUME TypeOK, SessionInv, [Next]_vars
    PROVE  \/ UNCHANGED <<handler, target, taken, frame, lock, wire>>
           \/ \E c \in Conns : MutexStep(c)
<1>1. ASSUME NEW c \in Conns, ClientReads(c) \/ ClientCloses(c)
      PROVE  UNCHANGED <<handler, target, taken, frame, lock, wire>>
  BY <1>1 DEF ClientReads, ClientCloses
<1>2. CASE UNCHANGED vars
  BY <1>2 DEF vars
<1>3. QED
  BY <1>1, <1>2, FreeSteps, AcquireSteps, HeaderSteps, PayloadSteps DEF Next, HandleConn

LEMMA HoldsPlaces ==
    ASSUME NEW c \in Conns, NEW t \in Conns
    PROVE  /\ Holds(c, t) => handler[c] \in Holding
           /\ Body(c, t) => Holds(c, t) /\ handler[c] \in Owing
  BY DEF Holds, Body, Holding, Owing

\* What a step of c leaves as it was.
LEMMA OthersHold ==
    ASSUME NEW c \in Conns, Moves(c), NEW d \in Conns \ {c}, NEW t \in Conns
    PROVE  /\ Holds(d, t)' <=> Holds(d, t)
           /\ Body(d, t)' <=> Body(d, t)
           /\ HeaderOf(d)' = HeaderOf(d)
  BY DEF Moves, Holds, Body, HeaderOf, Chunk

LEMMA NextLock ==
    ASSUME TypeOK, LockInv, UNCHANGED <<handler, target, taken, frame, lock, wire>>
                            \/ \E c \in Conns : MutexStep(c)
    PROVE  LockInv'
<1>1. CASE UNCHANGED <<handler, target, taken, frame, lock, wire>>
  BY <1>1 DEF LockInv, Holds
<1>2. ASSUME NEW c \in Conns, MutexStep(c), NEW d \in Conns, NEW t \in Conns, Holds(d, t)'
      PROVE  lock'[t] = d
  <2>1. Moves(c)
    BY <1>2 DEF MutexStep
  <2>2. d # c => Holds(d, t) /\ lock[t] = d
    BY <1>2, <2>1, OthersHold DEF LockInv
  <2>3. handler'[d] \in Holding
    BY <1>2 DEF Holds, Holding
  <2>4. CASE FreeStep(c)
    BY <2>2, <2>3, <2>4 DEF FreeStep
  <2>5. ASSUME NEW u \in Conns, TakesMutex(c, u)
        PROVE  lock'[t] = d
    <3>1. CASE d = c
      BY <1>2, <2>5, <3>1 DEF TakesMutex, TypeOK
    <3>2. CASE d # c
      BY <2>2, <2>5, <3>2, RelayAssumption DEF TakesMutex, TypeOK
    <3>3. QED
      BY <3>1, <3>2
  <2>6. ASSUME NEW u \in Conns, WritesHeader(c, u)
        PROVE  lock'[t] = d
    BY <1>2, <2>2, <2>6 DEF WritesHeader, LockInv
  <2>7. ASSUME NEW u \in Conns, Releases(c, u)
        PROVE  lock'[t] = d
    <3>1. d # c
      BY <2>3, <2>7 DEF Releases
    <3>2. lock[u] = c
      BY <2>7 DEF Releases, LockInv
    <3>3. QED
      BY <2>2, <2>7, <3>1, <3>2 DEF Releases, TypeOK
  <2>8. QED
    BY <1>2, <2>4, <2>5, <2>6, <2>7 DEF MutexStep
<1>3. QED
  BY <1>1, <1>2 DEF LockInv

\* What is appended to a wire, and what is the last thing under the mutex then.
LEMMA AppendedWire ==
    ASSUME NEW s \in Seq(Chunks), NEW chunk \in Chunks, NEW r \in Seq(Chunks),
           r = Append(s, chunk)
    PROVE  /\ Len(s) \in Nat /\ Len(r) = Len(s) + 1 /\ r[Len(s) + 1] = chunk
           /\ \A i \in 1..Len(s) : r[i] = s[i]
  OBVIOUS

LEMMA AppendedMutexed ==
    ASSUME NEW s \in Seq(Chunks), NEW chunk \in Chunks, NEW r \in Seq(Chunks),
           r = Append(s, chunk)
    PROVE  /\ \A i \in 1..Len(s) : Mutexed(r, i) <=> Mutexed(s, i)
           /\ Mutexed(r, Len(s) + 1) <=> chunk.type \in {"pong", "data"}
  BY AppendedWire DEF Mutexed

LEMMA AppendedUnlocked ==
    ASSUME NEW s \in Seq(Chunks), NEW chunk \in Chunks, NEW r \in Seq(Chunks),
           r = Append(s, chunk), chunk.type \notin {"pong", "data"},
           NEW i \in 1..Len(r), LastMutexed(r, i)
    PROVE  i \in 1..Len(s) /\ LastMutexed(s, i)
<1>1. Mutexed(r, i) /\ \A j \in (i + 1)..Len(r) : ~Mutexed(r, j)
  BY DEF LastMutexed
<1>2. i \in 1..Len(s)
  <2>1. ~Mutexed(r, Len(s) + 1)
    BY AppendedMutexed
  <2>2. Len(r) = Len(s) + 1 /\ Len(s) \in Nat
    BY AppendedWire
  <2>3. QED
    BY <1>1, <2>1, <2>2
<1>3. \A j \in (i + 1)..Len(s) : ~Mutexed(s, j)
  <2> TAKE j \in (i + 1)..Len(s)
  <2>1. j \in 1..Len(s) /\ j \in (i + 1)..Len(r)
    BY <1>2, AppendedWire
  <2>2. QED
    BY <1>1, <2>1, AppendedMutexed
<1>4. QED
  BY <1>1, <1>2, <1>3, AppendedMutexed DEF LastMutexed

LEMMA AppendedLocked ==
    ASSUME NEW s \in Seq(Chunks), NEW chunk \in Chunks, NEW r \in Seq(Chunks),
           r = Append(s, chunk), chunk.type \in {"pong", "data"},
           NEW i \in 1..Len(r), LastMutexed(r, i)
    PROVE  i = Len(s) + 1 /\ r[i] = chunk
<1>1. Mutexed(r, Len(s) + 1)
  BY AppendedMutexed
<1>2. i \notin 1..Len(s)
  BY <1>1, AppendedWire DEF LastMutexed
<1>3. QED
  BY <1>2, AppendedWire

\* The same of a wire.
LEMMA LastBefore ==
    ASSUME TypeOK, NEW t \in Conns, NEW chunk \in Chunks, wire'[t] = Append(wire[t], chunk),
           chunk.type \notin {"pong", "data"},
           NEW i \in 1..Len(wire'[t]), LastMutexed(wire'[t], i)
    PROVE  i \in 1..Len(wire[t]) /\ LastMutexed(wire[t], i) /\ wire'[t][i] = wire[t][i]
<1>1. PICK s \in Seq(Chunks) : s = wire[t]
  BY DEF TypeOK
<1>2. PICK r \in Seq(Chunks) : r = wire'[t]
  <2>1. Append(s, chunk) \in Seq(Chunks)
    OBVIOUS
  <2>2. Append(s, chunk) = wire'[t]
    BY <1>1
  <2>3. QED
    BY <2>1, <2>2
<1>3. r = Append(s, chunk) /\ i \in 1..Len(r) /\ LastMutexed(r, i)
  BY <1>1, <1>2
<1>4. i \in 1..Len(s) /\ LastMutexed(s, i)
  BY <1>3, AppendedUnlocked
<1>5. r[i] = s[i]
  BY <1>3, <1>4, AppendedWire
<1>6. QED
  BY <1>1, <1>2, <1>4, <1>5

LEMMA LastAppended ==
    ASSUME TypeOK, NEW t \in Conns, NEW chunk \in Chunks, wire'[t] = Append(wire[t], chunk),
           chunk.type \in {"pong", "data"},
           NEW i \in 1..Len(wire'[t]), LastMutexed(wire'[t], i)
    PROVE  wire'[t][i] = chunk
<1>1. PICK s \in Seq(Chunks) : s = wire[t]
  BY DEF TypeOK
<1>2. PICK r \in Seq(Chunks) : r = wire'[t]
  <2>1. Append(s, chunk) \in Seq(Chunks)
    OBVIOUS
  <2>2. Append(s, chunk) = wire'[t]
    BY <1>1
  <2>3. QED
    BY <2>1, <2>2
<1>3. r = Append(s, chunk) /\ i \in 1..Len(r) /\ LastMutexed(r, i)
  BY <1>1, <1>2
<1>4. r[i] = chunk
  BY <1>3, AppendedLocked
<1>5. QED
  BY <1>2, <1>4

Quiet == UNCHANGED <<handler, target, taken, frame, lock, wire>>

LEMMA NextHeader ==
    ASSUME TypeOK, HeaderInv, \A d \in Conns : Cut(d) => Cut(d)', TypeOK',
           Quiet \/ \E c \in Conns : MutexStep(c)
    PROVE  HeaderInv'
<1> SUFFICES ASSUME NEW t \in Conns, ~Cut(t)', NEW i \in 1..Len(wire'[t]),
                    LastMutexed(wire'[t], i), Begins(wire'[t], i)
             PROVE  \E d \in Conns : Body(d, t)' /\ wire'[t][i] = HeaderOf(d)'
  BY DEF HeaderInv
<1>1. ~Cut(t)
  OBVIOUS
<1>2. wire[t] \in Seq(Chunks) /\ wire'[t] \in Seq(Chunks)
  BY DEF TypeOK
<1>3. ASSUME i \in 1..Len(wire[t]), LastMutexed(wire[t], i), wire'[t][i] = wire[t][i]
      PROVE  \E d \in Conns : Body(d, t) /\ wire'[t][i] = HeaderOf(d)
  BY <1>1, <1>3 DEF HeaderInv, Begins, Mutexed
<1>4. CASE Quiet
  <2>1. PICK d \in Conns : Body(d, t) /\ wire'[t][i] = HeaderOf(d)
    BY <1>3, <1>4 DEF Quiet
  <2>2. Body(d, t)' /\ HeaderOf(d)' = HeaderOf(d)
    BY <1>4, <2>1 DEF Quiet, Body, HeaderOf, Chunk
  <2>3. QED
    BY <2>1, <2>2
<1>5. ASSUME NEW c \in Conns, MutexStep(c)
      PROVE  \E d \in Conns : Body(d, t)' /\ wire'[t][i] = HeaderOf(d)'
  <2>1. Moves(c)
    BY <1>5 DEF MutexStep
  <2>2. ASSUME NEW d \in Conns \ {c}, Body(d, t), wire'[t][i] = HeaderOf(d)
        PROVE  \E e \in Conns : Body(e, t)' /\ wire'[t][i] = HeaderOf(e)'
    BY <2>1, <2>2, OthersHold
  <2>3. CASE FreeStep(c)
    <3>1. i \in 1..Len(wire[t]) /\ LastMutexed(wire[t], i) /\ wire'[t][i] = wire[t][i]
      <4>1. CASE wire'[t] = wire[t]
        BY <4>1
      <4>2. ASSUME NEW chunk \in Chunks, chunk.type \in Unlocked, wire'[t] = Append(wire[t], chunk)
            PROVE  i \in 1..Len(wire[t]) /\ LastMutexed(wire[t], i) /\ wire'[t][i] = wire[t][i]
        BY <1>2, <4>2, LastBefore DEF Unlocked
      <4>3. QED
        BY <2>3, <4>1, <4>2 DEF FreeStep
    <3>2. PICK d \in Conns : Body(d, t) /\ wire'[t][i] = HeaderOf(d)
      BY <1>3, <3>1
    <3>3. d # c
      BY <2>3, <3>2, HoldsPlaces DEF FreeStep
    <3>4. QED
      BY <2>2, <3>2, <3>3
  <2>4. ASSUME NEW u \in Conns, TakesMutex(c, u)
        PROVE  \E d \in Conns : Body(d, t)' /\ wire'[t][i] = HeaderOf(d)'
    <3>1. PICK d \in Conns : Body(d, t) /\ wire'[t][i] = HeaderOf(d)
      BY <1>3, <2>4 DEF TakesMutex
    <3>2. d # c
      BY <2>4, <3>1, HoldsPlaces DEF TakesMutex
    <3>3. QED
      BY <2>2, <3>1, <3>2
  <2>5. ASSUME NEW u \in Conns, WritesHeader(c, u)
        PROVE  \E d \in Conns : Body(d, t)' /\ wire'[t][i] = HeaderOf(d)'
    <3>1. CASE u = t
      <4>1. PICK chunk \in Chunks : chunk = HeaderOf(c)' /\ wire'[t] = Append(wire[t], chunk)
        BY <1>1, <2>5, <3>1 DEF WritesHeader
      <4>2. chunk.type \in {"pong", "data"}
        BY <4>1 DEF HeaderOf, Chunk
      <4>3. wire'[t][i] = chunk
        BY <1>2, <4>1, <4>2, LastAppended
      <4>4. QED
        BY <2>5, <3>1, <4>1, <4>3 DEF WritesHeader
    <3>2. CASE u # t
      <4>1. PICK d \in Conns : Body(d, t) /\ wire'[t][i] = HeaderOf(d)
        BY <1>3, <2>5, <3>2 DEF WritesHeader
      <4>2. d # c
        BY <2>5, <4>1, HoldsPlaces DEF WritesHeader
      <4>3. QED
        BY <2>2, <4>1, <4>2
    <3>3. QED
      BY <3>1, <3>2
  <2>6. ASSUME NEW u \in Conns, Releases(c, u)
        PROVE  \E d \in Conns : Body(d, t)' /\ wire'[t][i] = HeaderOf(d)'
    <3>1. CASE u = t
      <4>1. PICK chunk \in Chunks : /\ chunk = PayloadOf(HeaderOf(c))
                                    /\ wire'[t] = Append(wire[t], chunk)
        BY <1>1, <2>6, <3>1 DEF Releases, Chunks, PayloadOf
      <4>2. chunk.type \in {"pong", "data"} /\ chunk.part = "payload"
        BY <4>1 DEF HeaderOf, Chunk, PayloadOf
      <4>3. wire'[t][i] = chunk
        BY <1>2, <4>1, <4>2, LastAppended
      <4>4. QED
        BY <4>2, <4>3 DEF Begins
    <3>2. CASE u # t
      <4>1. PICK d \in Conns : Body(d, t) /\ wire'[t][i] = HeaderOf(d)
        BY <1>3, <2>6, <3>2 DEF Releases
      <4>2. d # c
        BY <2>6, <3>2, <4>1, HoldsPlaces DEF Releases
      <4>3. QED
        BY <2>2, <4>1, <4>2
    <3>3. QED
      BY <3>1, <3>2
  <2>7. QED
    BY <1>5, <2>3, <2>4, <2>5, <2>6 DEF MutexStep
<1>6. QED
  BY <1>4, <1>5

\* The chunk appended completes the frame that it finds begun.
LEMMA AppendWhole ==
    ASSUME NEW s \in Seq(Chunks), NEW chunk \in Chunks, NEW r \in Seq(Chunks),
           r = Append(s, chunk), Whole(s),
           \A i \in 1..Len(s) :
               (/\ LastMutexed(s, i) /\ Begins(s, i)
                /\ chunk.type \in {"pong", "data"})
               => chunk = PayloadOf(s[i])
    PROVE  Whole(r)
<1> SUFFICES ASSUME NEW j \in 1..Len(r), NEW i \in 1..(j - 1), Begins(r, i), Mutexed(r, j),
                    \A m \in (i + 1)..(j - 1) : ~Mutexed(r, m)
             PROVE  Completes(r, i, j)
  BY DEF Whole
<1>1. /\ Len(s) \in Nat /\ Len(r) = Len(s) + 1 /\ r[Len(s) + 1] = chunk
      /\ \A k \in 1..Len(s) : r[k] = s[k]
  BY AppendedWire
<1>2. /\ \A k \in 1..Len(s) : Mutexed(r, k) <=> Mutexed(s, k)
      /\ Mutexed(r, Len(s) + 1) <=> chunk.type \in {"pong", "data"}
  BY AppendedMutexed
<1>3. \A k \in 1..Len(s) : r[k] = s[k] /\ (Mutexed(r, k) <=> Mutexed(s, k))
  BY <1>1, <1>2
<1>4. i \in 1..Len(s)
  BY <1>1
<1>5. Begins(s, i) /\ r[i] = s[i]
  BY <1>1, <1>2, <1>3, <1>4 DEF Begins
<1>6. \A m \in (i + 1)..(j - 1) : m \in 1..Len(s) /\ ~Mutexed(s, m)
  <2> TAKE m \in (i + 1)..(j - 1)
  <2>1. m \in 1..Len(s)
    BY <1>1, <1>2, <1>3, <1>4
  <2>2. QED
    BY <1>1, <1>2, <1>3, <1>4, <2>1
<1>7. CASE j \in 1..Len(s)
  <2>1. Mutexed(s, j) /\ r[j] = s[j]
    BY <1>1, <1>2, <1>3, <1>7
  <2>2. Completes(s, i, j)
    BY <1>4, <1>5, <1>6, <1>7, <2>1 DEF Whole
  <2>3. QED
    BY <1>5, <2>1, <2>2 DEF Completes
<1>8. CASE j = Len(s) + 1
  <2>1. LastMutexed(s, i)
    BY <1>1, <1>2, <1>3, <1>5, <1>6, <1>8 DEF LastMutexed, Begins
  <2>2. chunk = PayloadOf(s[i])
    BY <1>1, <1>2, <1>3, <1>4, <1>5, <1>8, <2>1
  <2>3. QED
    BY <1>1, <1>2, <1>3, <1>5, <1>8, <2>2 DEF Completes, PayloadOf
<1>9. QED
  BY <1>1, <1>2, <1>3, <1>7, <1>8

LEMMA NextWhole ==
    ASSUME TypeOK, TypeOK', LockInv, HeaderInv, MutexedFramesAreWhole,
           Quiet \/ \E c \in Conns : MutexStep(c)
    PROVE  MutexedFramesAreWhole'
<1> SUFFICES ASSUME NEW t \in Conns
             PROVE  Whole(wire'[t])
  BY DEF MutexedFramesAreWhole
<1>0. wire[t] \in Seq(Chunks) /\ wire'[t] \in Seq(Chunks) /\ Whole(wire[t])
  BY DEF TypeOK, MutexedFramesAreWhole
<1>1. CASE wire'[t] = wire[t]
  BY <1>0, <1>1
<1>2. ASSUME NEW c \in Conns, FreeStep(c), wire'[t] # wire[t]
      PROVE  Whole(wire'[t])
  <2>1. PICK chunk \in Chunks : chunk.type \in Unlocked /\ wire'[t] = Append(wire[t], chunk)
    BY <1>2 DEF FreeStep
  <2>2. chunk.type \notin {"pong", "data"}
    BY <2>1 DEF Unlocked
  <2>3. QED
    BY <2>1, <2>2, <1>0, AppendWhole
<1>3. ASSUME NEW c \in Conns, WritesHeader(c, t) \/ Releases(c, t), wire'[t] # wire[t]
      PROVE  Whole(wire'[t])
  <2>1. Holds(c, t) /\ ~Cut(t)
    BY <1>3 DEF WritesHeader, Releases
  <2>2. ASSUME NEW d \in Conns, Body(d, t)
        PROVE  d = c
    <3>1. Holds(d, t)
      BY <2>2, HoldsPlaces
    <3>2. QED
      BY <2>1, <3>1 DEF LockInv
  <2>3. CASE WritesHeader(c, t)
    <3>1. PICK chunk \in Chunks : wire'[t] = Append(wire[t], chunk)
      BY <1>3, <2>3 DEF WritesHeader
    <3>2. ~Body(c, t)
      BY <2>3, HoldsPlaces DEF WritesHeader
    <3>3. \A k \in 1..Len(wire[t]) : ~(LastMutexed(wire[t], k) /\ Begins(wire[t], k))
      BY <2>1, <2>2, <3>2 DEF HeaderInv
    <3>4. QED
      BY <3>1, <3>3, <1>0, AppendWhole
  <2>4. CASE Releases(c, t)
    <3>1. PICK chunk \in Chunks : /\ chunk = PayloadOf(HeaderOf(c))
                                  /\ wire'[t] = Append(wire[t], chunk)
      BY <1>3, <2>4 DEF Releases, Chunks, PayloadOf
    <3>2. \A k \in 1..Len(wire[t]) : (LastMutexed(wire[t], k) /\ Begins(wire[t], k))
                                     => wire[t][k] = HeaderOf(c)
      BY <2>1, <2>2 DEF HeaderInv
    <3>3. QED
      BY <3>1, <3>2, <1>0, AppendWhole
  <2>5. QED
    BY <1>3, <2>3, <2>4
<1>4. QED
  BY <1>1, <1>2, <1>3 DEF Quiet, MutexStep, TakesMutex, WritesHeader, Releases

-----------------------------------------------------------------------------
(* Delivery. *)

LEMMA NextTarget ==
    ASSUME TypeOK, SessionInv, TargetInv, [Next]_vars
    PROVE  TargetInv'
<1> SUFFICES ASSUME NEW d \in Conns, handler'[d] \in {"lock", "data", "data_payload"}
             PROVE  target'[d] # None /\ OwnerOf(target'[d]) = frame'[d].dst
  BY DEF TargetInv
<1>1. ASSUME NEW c \in Conns, Route(c)
      PROVE  target'[d] # None /\ OwnerOf(target'[d]) = frame'[d].dst
  <2>1. CASE d = c
    <3>1. frame[c].dst \in Addrs /\ frame' = frame
      BY <1>1 DEF Route, TypeOK, Frames
    <3>2. sessions[frame[c].dst] # None
      BY <1>1, <2>1 DEF Route, Goto, TypeOK
    <3>3. target'[c] = sessions[frame[c].dst]
      BY <1>1 DEF Route, TypeOK
    <3>4. QED
      BY <2>1, <3>1, <3>2, <3>3 DEF SessionInv
  <2>2. CASE d # c
    <3>1. target'[d] = target[d] /\ handler'[d] = handler[d] /\ frame' = frame
      BY <1>1, <2>2 DEF Route, Goto, TypeOK
    <3>2. QED
      BY <3>1 DEF TargetInv
  <2>3. QED
    BY <2>1, <2>2
<1>2. ASSUME UNCHANGED <<target, frame>>, handler[d] \in {"lock", "data", "data_payload"}
      PROVE  target'[d] # None /\ OwnerOf(target'[d]) = frame'[d].dst
  BY <1>2 DEF TargetInv
<1>3. ASSUME NEW c \in Conns, NEW f \in RequestsOf(c), ReadFrame(c, f)
      PROVE  target'[d] # None /\ OwnerOf(target'[d]) = frame'[d].dst
  <2>1. d # c
    BY <1>3 DEF ReadFrame, Goto, TypeOK
  <2>2. target'[d] = target[d] /\ handler'[d] = handler[d] /\ frame'[d] = frame[d]
    BY <1>3, <2>1 DEF ReadFrame, Goto, TypeOK
  <2>3. QED
    BY <2>2 DEF TargetInv
<1>4. ASSUME NEW c \in Conns,
             \/ Authenticate(c) \/ WriteAuthOK(c) \/ WriteAuthFail(c) \/ AddSession(c)
             \/ ReadFails(c) \/ RefuseFrame(c) \/ PongLock(c) \/ Pong(c) \/ PongPayload(c)
             \/ DropTarget(c) \/ WriteNoRoute(c) \/ RemoveSession(c) \/ Close(c)
             \/ RouteLock(c) \/ RouteData(c) \/ RoutePayload(c)
      PROVE  /\ UNCHANGED <<target, frame>>
             /\ handler[d] \in {"lock", "data", "data_payload"}
  <2>1. UNCHANGED <<target, frame>>
    BY <1>4 DEF Authenticate, WriteAuthOK, WriteAuthFail, AddSession, ReadFails, RefuseFrame, PongLock,
         Pong, PongPayload, DropTarget, WriteNoRoute, RemoveSession, Close, RouteLock,
         RouteData, RoutePayload, Acquire, LockedHeader, LockedPayload
  <2>2. handler[d] \in {"lock", "data", "data_payload"}
    BY <1>4 DEF Authenticate, WriteAuthOK, WriteAuthFail, AddSession, ReadFails, RefuseFrame, PongLock,
         Pong, PongPayload, DropTarget, WriteNoRoute, RemoveSession, Close, RouteLock,
         RouteData, RoutePayload, Acquire, LockedHeader, LockedPayload, Goto, TypeOK
  <2>3. QED
    BY <2>1, <2>2
<1>5. ASSUME NEW c \in Conns, ClientReads(c) \/ ClientCloses(c)
      PROVE  UNCHANGED <<target, frame, handler>>
  BY <1>5 DEF ClientReads, ClientCloses
<1>6. CASE UNCHANGED vars
  BY <1>2, <1>6 DEF vars
<1>7. QED
  BY <1>1, <1>2, <1>3, <1>4, <1>5, <1>6 DEF Next, HandleConn

\* A handler counts a frame when it reads it, and is only then about to send it.
CountStep(d) ==
    \/ taken'[d] = taken[d] /\ (handler'[d] \in Undelivered => handler[d] \in Undelivered)
    \/ taken'[d] = taken[d] + 1

LEMMA EveryCountStep ==
    ASSUME TypeOK, [Next]_vars, NEW d \in Conns
    PROVE  CountStep(d)
<1>1. ASSUME NEW c \in Conns, NEW f \in RequestsOf(c), ReadFrame(c, f)
      PROVE  CountStep(d)
  <2>1. CASE d = c
    BY <1>1, <2>1 DEF ReadFrame, CountStep, TypeOK
  <2>2. CASE d # c
    BY <1>1, <2>2 DEF ReadFrame, Goto, CountStep, TypeOK
  <2>3. QED
    BY <2>1, <2>2
<1>2. ASSUME NEW c \in Conns,
             \/ Authenticate(c) \/ WriteAuthOK(c) \/ WriteAuthFail(c) \/ AddSession(c)
             \/ ReadFails(c) \/ RefuseFrame(c) \/ PongLock(c) \/ Pong(c) \/ PongPayload(c)
             \/ DropTarget(c) \/ WriteNoRoute(c) \/ RemoveSession(c) \/ Close(c)
             \/ Route(c) \/ RouteLock(c) \/ RouteData(c) \/ RoutePayload(c)
      PROVE  CountStep(d)
  <2>1. taken' = taken
    BY <1>2 DEF Authenticate, WriteAuthOK, WriteAuthFail, AddSession, ReadFails, RefuseFrame, PongLock,
         Pong, PongPayload, DropTarget, WriteNoRoute, RemoveSession, Close, Route, RouteLock,
         RouteData, RoutePayload, Acquire, LockedHeader, LockedPayload
  <2>2. handler'[d] \in Undelivered => handler[d] \in Undelivered
    BY <1>2 DEF Authenticate, WriteAuthOK, WriteAuthFail, AddSession, ReadFails, RefuseFrame, PongLock,
         Pong, PongPayload, DropTarget, WriteNoRoute, RemoveSession, Close, Route, RouteLock,
         RouteData, RoutePayload, Acquire, LockedHeader, LockedPayload, Goto, TypeOK,
         Undelivered
  <2>3. QED
    BY <2>1, <2>2 DEF CountStep
<1>3. ASSUME NEW c \in Conns, ClientReads(c) \/ ClientCloses(c)
      PROVE  CountStep(d)
  BY <1>3 DEF ClientReads, ClientCloses, CountStep
<1>4. CASE UNCHANGED vars
  BY <1>4 DEF vars, CountStep
<1>5. QED
  BY <1>1, <1>2, <1>3, <1>4 DEF Next, HandleConn

\* The header of a frame that the handler of c has had to send to the owner of t.
Delivers(c, t, chunk) ==
    /\ chunk.by = c /\ chunk.n = taken'[c] /\ chunk.dst = OwnerOf(t)
    /\ taken'[c] = taken[c]
    /\ handler[c] \in Undelivered /\ handler'[c] \notin Undelivered

LEMMA EveryDelivery ==
    ASSUME TypeOK, TargetInv', Quiet \/ \E c \in Conns : MutexStep(c), NEW t \in Conns
    PROVE  \/ wire'[t] = wire[t]
           \/ \E chunk \in Chunks :
                 /\ wire'[t] = Append(wire[t], chunk)
                 /\ \/ chunk.type # "data" \/ chunk.part # "header"
                    \/ \E c \in Conns : Delivers(c, t, chunk)
<1>1. ASSUME NEW c \in Conns, FreeStep(c)
      PROVE  \/ wire'[t] = wire[t]
             \/ \E chunk \in Chunks : wire'[t] = Append(wire[t], chunk) /\ chunk.type # "data"
  BY <1>1 DEF FreeStep, Unlocked
<1>2. ASSUME NEW c \in Conns, Releases(c, t), wire'[t] # wire[t]
      PROVE  \E chunk \in Chunks : wire'[t] = Append(wire[t], chunk) /\ chunk.part # "header"
  <2>1. PICK chunk : /\ chunk = PayloadOf(HeaderOf(c)) /\ HeaderOf(c) \in Chunks
                     /\ wire'[t] = Append(wire[t], chunk)
    BY <1>2 DEF Releases
  <2>2. chunk \in Chunks /\ chunk.part # "header"
    BY <2>1 DEF PayloadOf, Chunks
  <2>3. QED
    BY <2>1, <2>2
<1>3. ASSUME NEW c \in Conns, WritesHeader(c, t), wire'[t] # wire[t]
      PROVE  \E chunk \in Chunks :
                 /\ wire'[t] = Append(wire[t], chunk)
                 /\ chunk.type # "data" \/ Delivers(c, t, chunk)
  <2>1. PICK chunk \in Chunks : chunk = HeaderOf(c)' /\ wire'[t] = Append(wire[t], chunk)
    BY <1>3 DEF WritesHeader
  <2>2. CASE handler'[c] = "pong_payload"
    <3>1. chunk.type # "data"
      BY <2>1, <2>2 DEF HeaderOf, Chunk
    <3>2. QED
      BY <2>1, <3>1
  <2>3. CASE handler'[c] # "pong_payload"
    <3>1. handler'[c] = "data_payload" /\ t = target'[c]
      BY <1>3, <2>3 DEF WritesHeader, Body
    <3>2. OwnerOf(t) = frame'[c].dst
      BY <3>1 DEF TargetInv
    <3>3. chunk.by = c /\ chunk.n = taken'[c] /\ chunk.dst = frame'[c].dst
      BY <2>1 DEF HeaderOf, Chunk
    <3>4. taken'[c] = taken[c] /\ handler[c] = "data"
      BY <1>3, <3>1 DEF WritesHeader
    <3>5. Delivers(c, t, chunk)
      BY <3>1, <3>2, <3>3, <3>4 DEF Delivers, Undelivered
    <3>6. QED
      BY <2>1, <3>5
  <2>4. QED
    BY <2>2, <2>3
<1>4. QED
  BY <1>1, <1>2, <1>3 DEF Quiet, MutexStep, TakesMutex, WritesHeader, Releases

\* Addressed(t, i): the property of one chunk.
AddressedAt(s, t, i) ==
    /\ s[i].dst = OwnerOf(t)
    /\ \A j \in 1..(i - 1) : (Arrives(s, j) /\ s[j].by = s[i].by) => s[j].n < s[i].n

SentAt(w) == w.n <= taken[w.by] /\ (handler[w.by] \in Undelivered => w.n < taken[w.by])

LEMMA SentStays ==
    ASSUME TypeOK, \A d \in Conns : CountStep(d), NEW w \in Chunks, SentAt(w)
    PROVE  SentAt(w)'
<1>1. w.by \in Conns /\ w.n \in Nat
  BY RelayAssumption DEF Chunks
<1>2. PICK d \in Conns : d = w.by
  BY <1>1
<1>3. PICK n \in Nat : n = w.n
  BY <1>1
<1>4. CountStep(d) /\ taken[d] \in Nat
  BY RelayAssumption DEF TypeOK
<1>5. n <= taken[d] /\ (handler[d] \in Undelivered => n < taken[d])
  BY <1>2, <1>3 DEF SentAt
<1>6. n <= taken'[d] /\ (handler'[d] \in Undelivered => n < taken'[d])
  BY <1>4, <1>5 DEF CountStep
<1>7. QED
  BY <1>2, <1>3, <1>6 DEF SentAt

LEMMA NextSent ==
    ASSUME TypeOK, TypeOK', SentInv, DeliveredAsAddressed, TargetInv',
           \A d \in Conns : CountStep(d),
           Quiet \/ \E c \in Conns : MutexStep(c)
    PROVE  SentInv' /\ DeliveredAsAddressed'
<1> SUFFICES ASSUME NEW t \in Conns, NEW i \in 1..Len(wire'[t]), Arrives(wire'[t], i)
             PROVE  SentAt(wire[t][i])' /\ AddressedAt(wire'[t], t, i)
  BY DEF SentInv, DeliveredAsAddressed, SentAt, AddressedAt
<1>1. PICK s \in Seq(Chunks) : s = wire[t]
  BY DEF TypeOK
<1>2. PICK r \in Seq(Chunks) : r = wire'[t]
  BY DEF TypeOK
<1>3. \A k \in 1..Len(s) : Arrives(s, k) => s[k] \in Chunks /\ SentAt(s[k]) /\ AddressedAt(s, t, k)
  BY <1>1 DEF SentInv, DeliveredAsAddressed, SentAt, AddressedAt
<1>4. i \in 1..Len(r) /\ Arrives(r, i)
  BY <1>2
<1>5. SentAt(r[i])' /\ AddressedAt(r, t, i)
  <2>1. CASE r = s
    BY <1>3, <1>4, <2>1, SentStays
  <2>2. ASSUME NEW chunk \in Chunks, r = Append(s, chunk),
               \/ chunk.type # "data" \/ chunk.part # "header"
               \/ \E c \in Conns : Delivers(c, t, chunk)
        PROVE  SentAt(r[i])' /\ AddressedAt(r, t, i)
    <3>1. /\ Len(s) \in Nat /\ Len(r) = Len(s) + 1 /\ r[Len(s) + 1] = chunk
          /\ \A k \in 1..Len(s) : r[k] = s[k]
      BY <2>2, AppendedWire
    <3>2. \A k \in 1..Len(s) : Arrives(r, k) <=> Arrives(s, k)
      BY <3>1 DEF Arrives
    <3>3. CASE i \in 1..Len(s)
      <4>1. Arrives(s, i) /\ r[i] = s[i]
        BY <1>4, <3>1, <3>2, <3>3
      <4>2. SentAt(s[i])'
        BY <1>3, <3>3, <4>1, SentStays
      <4>3. AddressedAt(s, t, i)
        BY <1>3, <3>3, <4>1
      <4>4. \A j \in 1..(i - 1) : j \in 1..Len(s)
        BY <3>1, <3>3
      <4>5. AddressedAt(r, t, i)
        BY <3>1, <3>2, <4>1, <4>3, <4>4 DEF AddressedAt
      <4>6. QED
        BY <4>1, <4>2, <4>5
    <3>4. CASE i = Len(s) + 1
      <4>1. r[i] = chunk
        BY <3>1, <3>4
      <4>2. PICK c \in Conns : Delivers(c, t, chunk)
        BY <1>4, <2>2, <4>1 DEF Arrives
      <4>3. taken'[c] \in Nat
        BY RelayAssumption DEF TypeOK
      <4>4. SentAt(chunk)'
        BY <4>2, <4>3 DEF SentAt, Delivers
      <4>5. ASSUME NEW j \in 1..(i - 1), Arrives(r, j), r[j].by = r[i].by
            PROVE  r[j].n < r[i].n
        <5>1. j \in 1..Len(s)
          BY <3>1, <3>4
        <5>2. SentAt(s[j]) /\ r[j] = s[j]
          BY <1>3, <3>1, <3>2, <4>5, <5>1
        <5>3. s[j].by = c
          BY <4>1, <4>2, <4>5, <5>2 DEF Delivers
        <5>4. s[j].n < taken[c]
          BY <4>2, <5>2, <5>3 DEF SentAt, Delivers
        <5>5. QED
          BY <4>1, <4>2, <5>2, <5>4 DEF Delivers
      <4>6. r[i].dst = OwnerOf(t)
        BY <4>1, <4>2 DEF Delivers
      <4>7. AddressedAt(r, t, i)
        BY <4>5, <4>6 DEF AddressedAt
      <4>8. QED
        BY <4>1, <4>4, <4>7
    <3>5. QED
      BY <1>4, <3>1, <3>3, <3>4
  <2>3. QED
    BY <1>1, <1>2, <2>1, <2>2, EveryDelivery
<1>6. QED
  BY <1>2, <1>5 DEF SentAt

-----------------------------------------------------------------------------
(* Results. *)

LEMMA SessionsHold == Spec => [](TypeOK /\ SessionInv)
<1>1. Init => TypeOK
  BY RelayAssumption DEF Init, TypeOK, Frames, Places
<1>2. Init => SessionInv
  BY DEF Init, SessionInv
<1>3. QED
  BY <1>1, <1>2, NextType, NextSession, PTL DEF Spec

\* The maps of the server and the control of its handlers have their types.
THEOREM RelayTypes == Spec => []TypeOK
  BY SessionsHold, PTL

\* The map holds no session whose handler is over (relay.go, HandleConn).
THEOREM SessionsServed == Spec => []SessionsAreServed
<1>1. SessionInv => SessionsAreServed
  BY DEF SessionInv, SessionsAreServed, Registered, Unregistered
<1>2. QED
  BY <1>1, SessionsHold, PTL

\* The newest connection of an endpoint is found while it is open and its
\* handler serves it (relay.go, addSession, removeSession).
THEOREM NewestStays == Spec => []NewestSessionStays
<1>1. TypeOK /\ SessionInv => NewestSessionStays
  BY DEF SessionInv, NewestSessionStays, TypeOK, Unserved
<1>2. QED
  BY <1>1, SessionsHold, PTL

\* The answer to the token comes first on a connection, and once (relay.go,
\* HandleConn: WriteFrame of FrameAuthOK, then addSession).
THEOREM AnswerFirst == Spec => []AuthAnswerFirst
<1>1. Init => AnswerInv
  BY DEF Init, AnswerInv, AuthAnswerFirst, Unanswered
<1>2. AnswerInv => AuthAnswerFirst
  BY DEF AnswerInv
<1>3. QED
  BY <1>1, <1>2, NextAnswer, SessionsHold, PTL DEF Spec

\* Mutual exclusion on the sessions' mutexes, and what the wires owe to it.
LEMMA MutexesHold == Spec => [](LockInv /\ HeaderInv /\ MutexedFramesAreWhole)
<1>1. Init => LockInv /\ HeaderInv /\ MutexedFramesAreWhole
  BY DEF Init, LockInv, Holds, HeaderInv, MutexedFramesAreWhole, Whole
<1>2. /\ TypeOK /\ TypeOK' /\ SessionInv /\ [Next]_vars
      /\ LockInv /\ HeaderInv /\ MutexedFramesAreWhole
      => LockInv' /\ HeaderInv' /\ MutexedFramesAreWhole'
  <2> SUFFICES ASSUME TypeOK, TypeOK', SessionInv, [Next]_vars,
                      LockInv, HeaderInv, MutexedFramesAreWhole
               PROVE  LockInv' /\ HeaderInv' /\ MutexedFramesAreWhole'
    OBVIOUS
  <2>1. Quiet \/ \E c \in Conns : MutexStep(c)
    BY EveryMutexStep DEF Quiet
  <2>2. \A d \in Conns : Cut(d) => Cut(d)'
    BY UnservedStays
  <2>3. LockInv'
    BY <2>1, NextLock DEF Quiet
  <2>4. HeaderInv'
    BY <2>1, <2>2, NextHeader
  <2>5. MutexedFramesAreWhole'
    BY <2>1, NextWhole
  <2>6. QED
    BY <2>3, <2>4, <2>5
<1>3. QED
  BY <1>1, <1>2, SessionsHold, PTL DEF Spec

\* Handlers that write on one session exclude each other, on whatever
\* connections they came in (relay.go, HandleConn and LocalRouter.Route: session.mu).
THEOREM MutualExclusion == Spec => []LockInv
  BY MutexesHold, PTL

\* Between the header of a frame written under the session mutex and its payload
\* no handler puts a pong or a frame of its own (relay.go, writeFrame).
THEOREM FramesWhole == Spec => []MutexedFramesAreWhole
  BY MutexesHold, PTL

\* A data frame reaches only its addressee, once, and in the order of its sender
\* (relay.go, LocalRouter.Route).
THEOREM Delivered == Spec => []DeliveredAsAddressed
<1>1. Init => TargetInv /\ SentInv /\ DeliveredAsAddressed
  BY DEF Init, TargetInv, SentInv, DeliveredAsAddressed
<1>2. /\ TypeOK /\ TypeOK' /\ SessionInv /\ [Next]_vars
      /\ TargetInv /\ SentInv /\ DeliveredAsAddressed
      => TargetInv' /\ SentInv' /\ DeliveredAsAddressed'
  <2> SUFFICES ASSUME TypeOK, TypeOK', SessionInv, [Next]_vars,
                      TargetInv, SentInv, DeliveredAsAddressed
               PROVE  TargetInv' /\ SentInv' /\ DeliveredAsAddressed'
    OBVIOUS
  <2>1. TargetInv'
    BY NextTarget
  <2>2. \A d \in Conns : CountStep(d)
    BY EveryCountStep
  <2>3. Quiet \/ \E c \in Conns : MutexStep(c)
    BY EveryMutexStep DEF Quiet
  <2>4. QED
    BY <2>1, <2>2, <2>3, NextSent
<1>3. QED
  BY <1>1, <1>2, SessionsHold, PTL DEF Spec
=============================================================================
