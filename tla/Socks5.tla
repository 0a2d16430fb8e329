-------------------------------- MODULE Socks5 --------------------------------
(***************************************************************************)
(* The SOCKS5 server that a tunnel's server runs instead of a port mapping *)
(* (s5/s5.go): one HandleConnection per stream, each with the goroutine    *)
(* that copies from the client to the remote, and the slice Conns that all *)
(* of them change without a lock.                                          *)
(*                                                                         *)
(* Conns is looked at while its array has room, as it has once there have  *)
(* been more connections than now: append then writes in place, and a      *)
(* store of Conns is a store of its length.  (A store that also changes    *)
(* the array is not atomic either, and is left out.)                       *)
(***************************************************************************)
EXTENDS Naturals, Sequences, FiniteSets

CONSTANT Handlers   \* one for each connection

ASSUME Socks5Assumption == IsFiniteSet(Handlers)

VARIABLES
    pc,       \* handler -> "idle", "store", "hello", "request", "dial", "reply",
              \*            "read", "write", the cleanup: "range", "scan", "cut",
              \*            "close", and "done"
    array,    \* the array behind Conns
    length,   \* len(Conns)
    index,    \* handler -> where it has put itself; i of its cleanup's loop
    limit,    \* handler -> length of the slice that its cleanup ranges over
    up,       \* handler -> go netCopy(conn, remoteConn): "none", "run" or "done"
    client,   \* handler -> the client's end: "open" or "closed"
    remote,   \* handler -> the remote's end: "none", "open" or "closed"
    raced,    \* two handlers have been changing Conns at the same time
    panic     \* what has brought the process down: "no", "list" or "domain"

xvars == <<pc, array, length, index, limit, up, client, remote, raced, panic>>

XInit ==
    /\ pc = [h \in Handlers |-> "idle"]
    /\ array = [i \in 1..Cardinality(Handlers) |-> CHOOSE h \in Handlers : TRUE]
    /\ length = 0
    /\ index = [h \in Handlers |-> 0]
    /\ limit = [h \in Handlers |-> 0]
    /\ up = [h \in Handlers |-> "none"]
    /\ client = [h \in Handlers |-> "open"]
    /\ remote = [h \in Handlers |-> "none"]
    /\ raced = FALSE
    /\ panic = "no"

Moves(h, from, to) == pc[h] = from /\ pc' = [pc EXCEPT ![h] = to]

\* In the middle of a change of Conns, or of the loop over it.
Changing(h) == pc[h] \in {"store", "scan", "cut"}

\* h begins a change of Conns.
Begin(h) == raced' = (raced \/ \E g \in Handlers \ {h} : Changing(g))

-----------------------------------------------------------------------------
(* Conns = append(Conns, conn) *)

AppendConn(h) ==
    /\ Moves(h, "idle", "store")
    /\ index' = [index EXCEPT ![h] = length + 1]
    /\ array' = [array EXCEPT ![length + 1] = h]
    /\ Begin(h)
    /\ UNCHANGED <<length, limit, up, client, remote, panic>>

StoreLength(h) ==
    /\ Moves(h, "store", "hello")
    /\ length' = index[h]
    /\ index' = [index EXCEPT ![h] = 0]
    /\ UNCHANGED <<array, limit, up, client, remote, raced, panic>>

-----------------------------------------------------------------------------
(* The deferred function: for i, c := range Conns { if c == conn { ... } } *)

\* The length is taken once.
RangeConns(h) ==
    /\ Moves(h, "range", "scan")
    /\ limit' = [limit EXCEPT ![h] = length]
    /\ index' = [index EXCEPT ![h] = 1]
    /\ Begin(h)
    /\ UNCHANGED <<array, length, up, client, remote, panic>>

\* The elements are read as they are now.
ScanConns(h) ==
    /\ IF index[h] > limit[h]
       THEN /\ Moves(h, "scan", "close")
            /\ index' = [index EXCEPT ![h] = 0]
            /\ limit' = [limit EXCEPT ![h] = 0]
       ELSE /\ Moves(h, "scan", IF array[index[h]] = h THEN "cut" ELSE "scan")
            /\ index' = [index EXCEPT ![h] = IF array[@] = h THEN @ ELSE @ + 1]
            /\ UNCHANGED limit
    /\ UNCHANGED <<array, length, up, client, remote, raced, panic>>

\* The slice append(Conns[:i], Conns[i+1:]...) leaves: the array and the length.
Cut(i) == [array  |-> [j \in DOMAIN array |->
                          IF j \in i..(length - 1) THEN array[j + 1] ELSE array[j]],
           length |-> length - 1]

\* Mutant of CutConn: the loop goes on one element too far for a shorter slice.
CutConnTooFar(h) ==
    /\ Moves(h, "cut", "scan")
    /\ IF index[h] >= length
       THEN panic' = "list" /\ UNCHANGED <<array, length, index>>
       ELSE /\ array' = Cut(index[h]).array
            /\ length' = Cut(index[h]).length
            /\ index' = [index EXCEPT ![h] = @ + 1]
            /\ UNCHANGED panic
    /\ UNCHANGED <<limit, up, client, remote, raced>>

\* Conns[i+1:] panics when Conns has become too short; the loop goes on after a
\* removal, over the shifted array.
CutConn(h) ==
    /\ Moves(h, "cut", "scan")
    /\ IF index[h] > length
       THEN panic' = "list" /\ UNCHANGED <<array, length, index>>
       ELSE /\ array' = Cut(index[h]).array
            /\ length' = Cut(index[h]).length
            /\ index' = [index EXCEPT ![h] = @ + 1]
            /\ UNCHANGED panic
    /\ UNCHANGED <<limit, up, client, remote, raced>>

\* conn.Close().
CloseConn(h) ==
    /\ Moves(h, "close", "done")
    /\ UNCHANGED <<array, length, index, limit, up, client, remote, raced, panic>>

-----------------------------------------------------------------------------
(* HandleConnection. *)

\* What has arrived after the first Read: less than the message, all of it, or
\* more.  The rest of a short one is waited for; one that is too long is refused.
Arrivals == {"exact", "short", "long"}

\* handShake: the version, and a message of as many bytes as it announces.
HandShake(h) ==
    /\ \E version \in {4, 5}, arrival \in Arrivals :
          Moves(h, "hello", IF version = 5 /\ arrival # "long" THEN "request" ELSE "range")
    /\ UNCHANGED <<array, length, index, limit, up, client, remote, raced, panic>>

\* The bound of the slice that holds the domain name: idDm0 + len, of two bytes.
DomainEnd(len) == (5 + len) % 256

\* parseTarget: only CONNECT, to an address of three types.
ParseTarget(h) ==
    /\ \E version \in {4, 5}, cmd \in {1, 2}, type \in {0, 1, 3}, len \in {250, 251},
          arrival \in Arrivals :
          LET fine == version = 5 /\ cmd = 1 /\ type # 0 /\ arrival # "long"
          IN  /\ Moves(h, "request", IF fine THEN "dial" ELSE "range")
              /\ panic' = IF fine /\ type = 3 /\ DomainEnd(len) < 5 THEN "domain" ELSE panic
    /\ UNCHANGED <<array, length, index, limit, up, client, remote, raced>>

\* Read or Write of either returns an error: the client is gone.
ClientGone(h) ==
    /\ client[h] = "closed"
    /\ \E from \in {"hello", "request"} : Moves(h, from, "range")
    /\ UNCHANGED <<array, length, index, limit, up, client, remote, raced, panic>>

\* pipeWhenClose: Dial, ...
DialRemote(h) ==
    /\ \/ /\ Moves(h, "dial", "reply")
          /\ remote' = [remote EXCEPT ![h] = "open"]
       \/ Moves(h, "dial", "range") /\ remote' = remote
    /\ UNCHANGED <<array, length, index, limit, up, client, raced, panic>>

\* ... the reply (an error is ignored), and go netCopy(conn, remoteConn).
Reply(h) ==
    /\ Moves(h, "reply", "read")
    /\ up' = [up EXCEPT ![h] = "run"]
    /\ UNCHANGED <<array, length, index, limit, client, remote, raced, panic>>

\* netCopy(remoteConn, conn): a chunk is read, and written.  There is no deadline
\* on the Write to a client that does not read; its error is ignored.
RemoteSends(h) ==
    /\ remote[h] = "open"
    /\ Moves(h, "read", "write")
    /\ UNCHANGED <<array, length, index, limit, up, client, remote, raced, panic>>

WriteToClient(h) ==
    /\ Moves(h, "write", "read")
    /\ UNCHANGED <<array, length, index, limit, up, client, remote, raced, panic>>

\* The remote has closed: the deferred remoteConn.Close(), and the return.
RemoteDone(h) ==
    /\ remote[h] = "closed"
    /\ Moves(h, "read", "range")
    /\ UNCHANGED <<array, length, index, limit, up, client, remote, raced, panic>>

\* Mutant of UpEnds: the deferred function has forgotten conn.Close().
UpEndsWithClient(h) ==
    /\ up[h] = "run"
    /\ client[h] = "closed"
    /\ up' = [up EXCEPT ![h] = "done"]
    /\ UNCHANGED <<pc, array, length, index, limit, client, remote, raced, panic>>

\* netCopy(conn, remoteConn): ends when the client has, or the handler has
\* closed conn.  It closes nothing.  The data it copies leave no trace.
UpEnds(h) ==
    /\ up[h] = "run"
    /\ client[h] = "closed" \/ pc[h] = "done"
    /\ up' = [up EXCEPT ![h] = "done"]
    /\ UNCHANGED <<pc, array, length, index, limit, client, remote, raced, panic>>

ClientCloses(h) ==
    /\ pc[h] # "idle" /\ client[h] = "open"
    /\ client' = [client EXCEPT ![h] = "closed"]
    /\ UNCHANGED <<pc, array, length, index, limit, up, remote, raced, panic>>

RemoteCloses(h) ==
    /\ remote[h] = "open"
    /\ remote' = [remote EXCEPT ![h] = "closed"]
    /\ UNCHANGED <<pc, array, length, index, limit, up, client, raced, panic>>

Writes(h) == Reply(h) \/ WriteToClient(h)

\* The handler's own steps.  Those that wait for the client or the remote, to send
\* something or to read what it is sent, are not among them; a Write to a client
\* that is gone does not wait.
Runs(h) ==
    /\ panic = "no"
    /\ \/ StoreLength(h) \/ RangeConns(h) \/ ScanConns(h) \/ CutConn(h) \/ CloseConn(h)
       \/ ClientGone(h) \/ DialRemote(h) \/ RemoteDone(h)
       \/ client[h] = "closed" /\ Writes(h)

\* go netCopy(conn, remoteConn) waits for nobody once both are closed.
UpRuns(h) == panic = "no" /\ pc[h] = "done" /\ UpEnds(h)

XNext ==
    \E h \in Handlers :
        \/ Runs(h) \/ UpRuns(h)
        \/ /\ panic = "no"
           /\ \/ AppendConn(h) \/ HandShake(h) \/ ParseTarget(h) \/ RemoteSends(h)
              \/ Writes(h) \/ UpEnds(h) \/ ClientCloses(h) \/ RemoteCloses(h)

-----------------------------------------------------------------------------
(* Properties. *)

XTypeOK ==
    /\ pc \in [Handlers -> {"idle", "store", "hello", "request", "dial", "reply", "read",
                            "write", "range", "scan", "cut", "close", "done"}]
    /\ array \in [1..Cardinality(Handlers) -> Handlers]
    /\ length \in 0..Cardinality(Handlers)
    /\ index \in [Handlers -> 0..(Cardinality(Handlers) + 1)]
    /\ limit \in [Handlers -> 0..Cardinality(Handlers)]
    /\ up \in [Handlers -> {"none", "run", "done"}]
    /\ client \in [Handlers -> {"open", "closed"}]
    /\ remote \in [Handlers -> {"none", "open", "closed"}]
    /\ raced \in BOOLEAN
    /\ panic \in {"no", "list", "domain"}

Conns == SubSeq(array, 1, length)

\* It takes two handlers that change Conns at the same time to damage it: as
\* long as none have, removing never panics, and between changes Conns holds
\* each connection that is being served once and no other, although the loop
\* goes on over an array that its own removal has shifted.
ConnsNeedsRace ==
    ~raced =>
        /\ panic # "list"
        /\ (\A h \in Handlers : ~Changing(h)) =>
               \A h \in Handlers :
                   Cardinality({i \in DOMAIN Conns : Conns[i] = h})
                       = IF pc[h] \in {"idle", "close", "done"} THEN 0 ELSE 1

\* A handler that is done with its remote ends, and its other copier with it,
\* although the client keeps the stream open; and one whose client leaves ends
\* unless it has a remote that stays (which it is never told of the client's
\* leaving).  What can keep it is a client that stays and does not read, as no
\* Write has a deadline, or a panic of the whole process.
SocksHandlersEnd ==
    <>[](\A h \in Handlers :
            remote[h] = "closed" \/ client[h] = "closed"
                => \/ pc[h] = "done" /\ up[h] # "run"
                   \/ remote[h] = "open"
                   \/ client[h] = "open" /\ pc[h] \in {"reply", "write"}
                   \/ panic # "no")
=============================================================================
