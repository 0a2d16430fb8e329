------------------------------ MODULE StreamTunnel ------------------------------
(***************************************************************************)
(* The stream tunnel over TCP or KCP: StartClientTCP, StartClientKCP       *)
(* (client.go), StartServerTCP, StartServerKCP (server.go), conn2stream    *)
(* and stream2conn (common.go), with the life of one connection through    *)
(* it: app -> client's conn -> stream -> server's conn -> service.         *)
(*                                                                         *)
(* The smux session (version 1) and KCP are external: a stream delivers in *)
(* order, a FIN comes after the data, a session whose peer or whose path   *)
(* is gone is closed at last by its keepalive.                             *)
(***************************************************************************)
EXTENDS Naturals

CONSTANT MaxChunks   \* bound: chunks that the app, and the service, sends

ASSUME StreamTunnelAssumption == MaxChunks \in Nat

Sides == {"client", "server"}
FarSide(e) == IF e = "client" THEN "server" ELSE "client"

\* The four goroutines of io.CopyBuffer: up is from the app to the service.
Copiers == {"clientUp", "clientDown", "serverUp", "serverDown"}
CopiersOf(e) == IF e = "client" THEN {"clientUp", "clientDown"} ELSE {"serverUp", "serverDown"}

\* The ends that copiers read, write and close.
Src == [clientUp |-> "cconn", clientDown |-> "cstream", serverUp |-> "sstream", serverDown |-> "sconn"]
Dst == [clientUp |-> "cstream", clientDown |-> "cconn", serverUp |-> "sconn", serverDown |-> "sstream"]
EndsOf(e) == IF e = "client" THEN {"cconn", "cstream"} ELSE {"sconn", "sstream"}

VARIABLES
    main,       \* side -> where StartClient.. and StartServer.. are
    session,    \* side -> "none", "open" or "closed"
    link,       \* the path between the two ends works
    listening,  \* the client's listener is open
    watcher,    \* the goroutine that polls sess.IsClosed() has not ended
    app,        \* "none", "open", "half" (has sent its FIN) or "closed"
    service,    \* the same for the service's end of the connection to it
    open,       \* the ends that are open
    opened,     \* the ends that have been opened
    copier,     \* copier -> "none", "read", "write", "close" or "done"
    waits,      \* copier -> chunks that wait at the end it reads
    sent,       \* how much the "app" and the "service" have sent
    got         \* how much of the app's data the service's connection has taken

svars == <<main, session, link, listening, watcher, app, service, open, opened,
           copier, waits, sent, got>>

SInit ==
    /\ main = [e \in Sides |-> "start"]
    /\ session = [e \in Sides |-> "none"]
    /\ link = TRUE
    /\ listening = FALSE
    /\ watcher = FALSE
    /\ app = "none"
    /\ service = "none"
    /\ open = {}
    /\ opened = {}
    /\ copier = [c \in Copiers |-> "none"]
    /\ waits = [c \in Copiers |-> 0]
    /\ sent = [x \in {"app", "service"} |-> 0]
    /\ got = 0

-----------------------------------------------------------------------------
(* The two ends. *)

\* The process of e ends (os.Exit, or main returns): its sockets are closed.
Exit(e) ==
    /\ main' = [main EXCEPT ![e] = "done"]
    /\ session' = [session EXCEPT ![e] = "closed"]
    /\ open' = open \ EndsOf(e)
    /\ copier' = [c \in Copiers |-> IF c \in CopiersOf(e) /\ copier[c] # "none"
                                    THEN "done" ELSE copier[c]]
    /\ waits' = [c \in Copiers |-> IF c \in CopiersOf(e) THEN 0 ELSE waits[c]]
    /\ listening' = (e = "server" /\ listening)
    /\ watcher' = (e = "server" /\ watcher)

\* smux.Client and net.ListenTCP, whose error ends the process.
ClientStarts ==
    /\ main["client"] = "start"
    /\ \/ /\ main' = [main EXCEPT !["client"] = "accept"]
          /\ session' = [session EXCEPT !["client"] = "open"]
          /\ listening' = TRUE
          /\ watcher' = TRUE
          /\ UNCHANGED <<open, copier, waits>>
       \/ Exit("client")
    /\ UNCHANGED <<link, app, service, opened, sent, got>>

\* smux.Server.  Over TCP that is at once; over KCP AcceptKCP waits for the
\* client's NOP first, or gives up after g_timeout + 4 seconds.
ServerStarts ==
    /\ main["server"] = "start"
    /\ \/ /\ main' = [main EXCEPT !["server"] = "accept"]
          /\ session' = [session EXCEPT !["server"] = "open"]
          /\ UNCHANGED <<open, copier, waits, listening, watcher>>
       \/ Exit("server")
    /\ UNCHANGED <<link, app, service, opened, sent, got>>

\* External: the session closes for good; its reads and writes fail from there.
SessionDies(e) ==
    /\ session[e] = "open"
    /\ ~link \/ session[FarSide(e)] = "closed"
    /\ session' = [session EXCEPT ![e] = "closed"]
    /\ UNCHANGED <<main, link, listening, watcher, app, service, open, opened,
                   copier, waits, sent, got>>

\* Mutant of WatchSession: the goroutine ends without lis.Close().
WatchSessionIdly ==
    /\ watcher
    /\ session["client"] = "closed"
    /\ watcher' = FALSE
    /\ UNCHANGED <<main, session, link, app, service, open, opened, copier, waits,
                   sent, got, listening>>

\* "periodic check if smux session is still alive"
WatchSession ==
    /\ watcher
    /\ session["client"] = "closed"
    /\ watcher' = FALSE
    /\ listening' = FALSE
    /\ UNCHANGED <<main, session, link, app, service, open, opened, copier, waits,
                   sent, got>>

\* lis.Accept, then OpenStream and conn2stream.
ClientAccepts ==
    /\ main["client"] = "accept"
    /\ listening
    /\ app # "none" /\ "cconn" \notin opened
    /\ \/ /\ session["client"] = "open"
          /\ open' = open \union EndsOf("client")
          /\ opened' = opened \union EndsOf("client")
          /\ copier' = [copier EXCEPT !["clientUp"] = "read", !["clientDown"] = "read"]
          /\ UNCHANGED main
       \/ /\ session["client"] = "closed"
          /\ opened' = opened \union {"cconn"}
          /\ main' = [main EXCEPT !["client"] = "cleanup"]
          /\ UNCHANGED <<open, copier>>
    /\ UNCHANGED <<session, link, listening, watcher, app, service, waits, sent, got>>

\* session.AcceptStream.
ServerAccepts ==
    /\ main["server"] = "accept"
    /\ session["server"] = "open" /\ link
    /\ "cstream" \in opened /\ "sstream" \notin opened
    /\ open' = open \union {"sstream"}
    /\ opened' = opened \union {"sstream"}
    /\ main' = [main EXCEPT !["server"] = "dial"]
    /\ UNCHANGED <<session, link, listening, watcher, app, service, copier, waits,
                   sent, got>>

\* net.DialTCP and stream2conn, or stream.Close().
ServerDials ==
    /\ main["server"] = "dial"
    /\ main' = [main EXCEPT !["server"] = "accept"]
    /\ \/ /\ service' = "open"
          /\ open' = open \union {"sconn"}
          /\ opened' = opened \union {"sconn"}
          /\ copier' = [copier EXCEPT !["serverUp"] = "read", !["serverDown"] = "read"]
       \/ /\ open' = open \ {"sstream"}
          /\ UNCHANGED <<service, opened, copier>>
    /\ UNCHANGED <<session, link, listening, watcher, app, waits, sent, got>>

\* Accept fails on a closed listener, AcceptStream in a closed session.
AcceptFails(e) ==
    /\ main[e] = "accept"
    /\ IF e = "client" THEN ~listening ELSE session[e] = "closed"
    /\ main' = [main EXCEPT ![e] = "cleanup"]
    /\ UNCHANGED <<session, link, listening, watcher, app, service, open, opened,
                   copier, waits, sent, got>>

\* The clean up closes the session, and the process ends a second later.
Cleanup(e) ==
    /\ main[e] = "cleanup"
    /\ Exit(e)
    /\ UNCHANGED <<link, app, service, opened, sent, got>>

-----------------------------------------------------------------------------
(* copyIO. *)

\* The program at the far end of a connection, the stream at the far end.
Partner == [cconn |-> app, sconn |-> service]
Stream(x) == x \in {"cstream", "sstream"}
FarStream(x) == IF x = "cstream" THEN "sstream" ELSE "cstream"

\* A stream whose own session has closed.
Broken(x) == Stream(x) /\ session[IF x = "cstream" THEN "client" ELSE "server"] = "closed"

\* The far end has closed, or sent its FIN: what it sent can still be read.
FinAt(x) ==
    IF Stream(x) THEN link /\ FarStream(x) \in opened \ open
                 ELSE Partner[x] \in {"half", "closed"}

CopyReads(c) ==
    /\ copier[c] = "read"
    /\ Src[c] \in open
    /\ waits[c] > 0
    /\ waits' = [waits EXCEPT ![c] = @ - 1]
    /\ copier' = [copier EXCEPT ![c] = "write"]
    /\ UNCHANGED <<main, session, link, listening, watcher, app, service, open, opened,
                   sent, got>>

AtEOF(c) == FinAt(Src[c]) /\ waits[c] = 0

\* Mutant of CopyEnds: it ends at the FIN, whatever is still to be copied.
CopyEndsEarly(c) ==
    /\ copier[c] = "read"
    /\ FinAt(Src[c]) \/ Src[c] \notin open \/ Broken(Src[c])
    /\ copier' = [copier EXCEPT ![c] = "close"]
    /\ UNCHANGED <<main, session, link, listening, watcher, app, service, open, opened,
                   waits, sent, got>>

\* io.CopyBuffer returns: the end of the data, or an error.
CopyEnds(c) ==
    /\ copier[c] = "read"
    /\ AtEOF(c) \/ Src[c] \notin open \/ Broken(Src[c])
    /\ copier' = [copier EXCEPT ![c] = "close"]
    /\ UNCHANGED <<main, session, link, listening, watcher, app, service, open, opened,
                   waits, sent, got>>

\* Where a chunk that c writes has to be read next; the last one has arrived.
NextCopier == [clientUp |-> "serverUp", serverDown |-> "clientDown"]

\* A chunk that is written to a closed program makes its host answer with a
\* reset, which discards what waits at the conn; one written to a stream whose
\* far end is closed is discarded there.
CopyWrites(c) ==
    /\ copier[c] = "write"
    /\ Dst[c] \in open /\ ~Broken(Dst[c])
    /\ copier' = [copier EXCEPT ![c] = "read"]
    /\ IF Stream(Dst[c])
       THEN /\ link
            /\ waits' = [waits EXCEPT ![NextCopier[c]] = IF FinAt(Dst[c]) THEN @ ELSE @ + 1]
            /\ UNCHANGED got
       ELSE /\ waits' = IF Partner[Dst[c]] = "closed"
                        THEN [waits EXCEPT ![IF c = "serverUp" THEN "serverDown" ELSE "clientUp"] = 0]
                        ELSE waits
            /\ got' = IF c = "serverUp" THEN got + 1 ELSE got
    /\ UNCHANGED <<main, session, link, listening, watcher, app, service, open, opened,
                   sent>>

\* An error of Write.  Whether smux reports a FIN of the far end to a writer is
\* left open.
CopyWriteFails(c) ==
    /\ copier[c] = "write"
    /\ Dst[c] \notin open \/ Broken(Dst[c]) \/ FinAt(Dst[c])
    /\ copier' = [copier EXCEPT ![c] = "close"]
    /\ UNCHANGED <<main, session, link, listening, watcher, app, service, open, opened,
                   waits, sent, got>>

\* The deferred calls: dst.Close() and src.Close(), nothing between them.
CopyCloses(c) ==
    /\ copier[c] = "close"
    /\ open' = open \ {Dst[c], Src[c]}
    /\ copier' = [copier EXCEPT ![c] = "done"]
    /\ UNCHANGED <<main, session, link, listening, watcher, app, service, opened, waits,
                   sent, got>>

-----------------------------------------------------------------------------
(* The world around. *)

LinkBreaks ==
    /\ link
    /\ \E e \in Sides : main[e] # "done"
    /\ link' = FALSE
    /\ UNCHANGED <<main, session, listening, watcher, app, service, open, opened, copier,
                   waits, sent, got>>

AppConnects ==
    /\ app = "none"
    /\ listening
    /\ app' = "open"
    /\ UNCHANGED <<main, session, link, listening, watcher, service, open, opened,
                   copier, waits, sent, got>>

AppSends ==
    /\ app = "open"
    /\ "cconn" \in open
    /\ sent["app"] < MaxChunks
    /\ sent' = [sent EXCEPT !["app"] = @ + 1]
    /\ waits' = [waits EXCEPT !["clientUp"] = @ + 1]
    /\ UNCHANGED <<main, session, link, listening, watcher, app, service, open, opened,
                   copier, got>>

ServiceSends ==
    /\ service = "open"
    /\ "sconn" \in open
    /\ sent["service"] < MaxChunks
    /\ sent' = [sent EXCEPT !["service"] = @ + 1]
    /\ waits' = [waits EXCEPT !["serverDown"] = @ + 1]
    /\ UNCHANGED <<main, session, link, listening, watcher, app, service, open, opened,
                   copier, got>>

\* Shutdown of the sending direction, or close.
AppEnds ==
    /\ app \in {"open", "half"}
    /\ "cconn" \in opened => "cconn" \in open
    /\ app' \in {"half", "closed"} \ {app}
    /\ UNCHANGED <<main, session, link, listening, watcher, service, open, opened,
                   copier, waits, sent, got>>

ServiceEnds ==
    /\ service \in {"open", "half"}
    /\ "sconn" \in open
    /\ service' \in {"half", "closed"} \ {service}
    /\ UNCHANGED <<main, session, link, listening, watcher, app, open, opened,
                   copier, waits, sent, got>>

Copy(c) == CopyReads(c) \/ CopyEnds(c) \/ CopyWriteFails(c) \/ CopyCloses(c)

Tunnel(e) ==
    \/ SessionDies(e) \/ AcceptFails(e) \/ Cleanup(e)
    \/ e = "client" /\ (ClientStarts \/ WatchSession \/ ClientAccepts)
    \/ e = "server" /\ (ServerStarts \/ ServerAccepts \/ ServerDials)

SNext ==
    \/ \E e \in Sides : Tunnel(e)
    \/ \E c \in Copiers : Copy(c) \/ CopyWrites(c)
    \/ LinkBreaks \/ AppConnects \/ AppSends \/ ServiceSends \/ AppEnds \/ ServiceEnds

-----------------------------------------------------------------------------
(* Properties. *)

STypeOK ==
    /\ main \in [Sides -> {"start", "accept", "dial", "cleanup", "done"}]
    /\ session \in [Sides -> {"none", "open", "closed"}]
    /\ link \in BOOLEAN /\ listening \in BOOLEAN /\ watcher \in BOOLEAN
    /\ app \in {"none", "open", "half", "closed"}
    /\ service \in {"none", "open", "half", "closed"}
    /\ opened \subseteq EndsOf("client") \union EndsOf("server")
    /\ open \subseteq opened
    /\ copier \in [Copiers -> {"none", "read", "write", "close", "done"}]
    /\ waits \in [Copiers -> 0..MaxChunks]
    /\ sent \in [{"app", "service"} -> 0..MaxChunks]
    /\ got \in 0..MaxChunks

\* As long as the link holds and the service listens and has nothing to say, the
\* tunnel closes the service's connection only after all that the app has sent
\* has been written to it, through two copiers and a stream, and whatever the
\* other direction does when the app closes.  (A service that is talking loses
\* the rest: its copier's failed Write closes both.)
EOFAfterData ==
    /\ link /\ \A e \in Sides : session[e] = "open"
    /\ service = "open" /\ sent["service"] = 0
    /\ "sconn" \notin open
    => got = sent["app"]

\* The two copiers of a side end together ("util one of them calls close() or
\* error out", common.go:44), without waiting for a program that has nothing to
\* say or does not read; and when the path or a session is lost both ends come
\* to the end, the client through its watcher and the listener.  (What ends stays
\* so: each part is a leads-to, and one formula says them all.)
StreamsEnd ==
    <>[](/\ \A e \in Sides :
               (\E c \in CopiersOf(e) : copier[c] = "done") => \A c \in CopiersOf(e) : copier[c] = "done"
         /\ (~link \/ \E e \in Sides : session[e] = "closed") => \A e \in Sides : main[e] = "done")
=============================================================================
