----------------------------- MODULE HolePunchUDP -----------------------------
(***************************************************************************)
(* UDP hole punching (holepunch.go, PunchUDP): two peers who know each     *)
(* other's address send HELO until the other answers OKAY.  In each peer   *)
(* three goroutines meet: the sender, the receiver and PunchUDP itself,    *)
(* which waits for both on a WaitGroup.                                    *)
(*                                                                         *)
(* A step is what a goroutine does between two points at which another can *)
(* see or disturb it: the socket and its read deadline, the channel        *)
(* recv_done, the context of the sender, the WaitGroup and fail.           *)
(* The network loses and reorders datagrams.  The TTL option makes the     *)
(* first ones die on their way, which is one more way to lose them.        *)
(***************************************************************************)
EXTENDS Naturals, FiniteSets

CONSTANTS
    Peers,      \* the two ends
    MaxTries,   \* HELOs the sender sends before it gives up, 60 in the code
    MaxExtra    \* bound: datagrams not of the handshake that wait at a receiver

ASSUME PunchAssumption == /\ \E p, q \in Peers : p # q /\ Peers = {p, q}
                          /\ MaxTries \in Nat \ {0}
                          /\ MaxExtra \in Nat

Other(p) == CHOOSE q \in Peers : q # p

\* What a datagram is to a receiver with the sender's key; "stranger" is one
\* from another address, of whatever content, or too short to be looked at.
Messages == {"HELO", "OKAY", "data", "stranger"}

VARIABLES
    sameKey,    \* both users have configured the same key
    net,        \* p -> message -> how many p's receiver can still read
    tries,      \* p -> i of the sender's loop
    sender,     \* p -> "wait" (the select), "wake" or "done"
    receiver,   \* p -> "arm", "read", "done", or what ReadFrom has just
                \*      returned: a message, or "error"
    helo, okay, \* p -> the receiver has had a HELO, an OKAY
    wg,         \* p -> counter of the WaitGroup
    recvDone,   \* p -> recv_done is closed
    cancelled,  \* p -> sendDone() has been called
    deadline,   \* p -> read deadline of the socket: "none", "soon" or "past"
    fail,       \* p -> "none", "timeout" or "auth"
    main        \* p -> PunchUDP: "wait", "deadline", "sleep", then how it ended

vars == <<sameKey, net, tries, sender, receiver, helo, okay, wg,
          recvDone, cancelled, deadline, fail, main>>

\* "ok" and "failed" are PunchUDP's results; the other two bring the process down.
Panics == {"closed_twice", "nil_address"}

Init ==
    /\ sameKey   \in BOOLEAN
    /\ net       = [p \in Peers |-> [m \in Messages |-> 0]]
    /\ tries     = [p \in Peers |-> 0]
    /\ sender    = [p \in Peers |-> "wait"]
    /\ receiver  = [p \in Peers |-> "arm"]
    /\ helo      = [p \in Peers |-> FALSE]
    /\ okay      = [p \in Peers |-> FALSE]
    /\ wg        = [p \in Peers |-> 3]
    /\ recvDone  = [p \in Peers |-> FALSE]
    /\ cancelled = [p \in Peers |-> FALSE]
    /\ deadline  = [p \in Peers |-> "none"]
    /\ fail      = [p \in Peers |-> "none"]
    /\ main      = [p \in Peers |-> "wait"]

Up(p) == main[p] \notin Panics

-----------------------------------------------------------------------------
(* The sender. *)

\* A datagram m for q arrives, or is lost.  What comes after q's receiver has
\* ended, or its process, is not for the receiver, and is left out.
Deliver(q, m) ==
    \/ Up(q) /\ receiver[q] # "done" /\ net' = [net EXCEPT ![q][m] = @ + 1]
    \/ net' = net

\* sendMsgUDP: one datagram to the other peer; the socket's own read deadline
\* moves five seconds ahead.
SendMsg(p, m) ==
    /\ Deliver(Other(p), m)
    /\ deadline' = [deadline EXCEPT ![p] = "soon"]

\* The loop: a HELO at first, and one more each time the timer of a try that is
\* not the last runs out.
SendHelo(p) ==
    /\ sender[p] = "wait"
    /\ tries[p] < MaxTries
    /\ SendMsg(p, "HELO")
    /\ tries' = [tries EXCEPT ![p] = @ + 1]
    /\ UNCHANGED <<sameKey, sender, receiver, helo, okay, wg, recvDone,
                   cancelled, fail, main>>

SenderCancelled(p) ==
    /\ sender[p] = "wait"
    /\ tries[p] > 0
    /\ cancelled[p]
    /\ sender' = [sender EXCEPT ![p] = "done"]
    /\ wg' = [wg EXCEPT ![p] = @ - 1]
    /\ UNCHANGED <<sameKey, net, tries, receiver, helo, okay, recvDone,
                   cancelled, deadline, fail, main>>

\* The timer of the last try.
SenderGivesUp(p) ==
    /\ sender[p] = "wait"
    /\ tries[p] = MaxTries
    /\ fail' = [fail EXCEPT ![p] = "timeout"]
    /\ recvDone' = [recvDone EXCEPT ![p] = TRUE]
    /\ sender' = [sender EXCEPT ![p] = "wake"]
    /\ UNCHANGED <<sameKey, net, tries, receiver, helo, okay, wg,
                   cancelled, deadline, main>>

\* SetReadDeadline(time.Now()), and the deferred wg.Done().
SenderWakesReceiver(p) ==
    /\ sender[p] = "wake"
    /\ deadline' = [deadline EXCEPT ![p] = "past"]
    /\ sender' = [sender EXCEPT ![p] = "done"]
    /\ wg' = [wg EXCEPT ![p] = @ - 1]
    /\ UNCHANGED <<sameKey, net, tries, receiver, helo, okay, recvDone,
                   cancelled, fail, main>>

-----------------------------------------------------------------------------
(* The receiver. *)

\* Top of the loop: five more seconds.
Arm(p) ==
    /\ receiver[p] = "arm"
    /\ deadline' = [deadline EXCEPT ![p] = "soon"]
    /\ receiver' = [receiver EXCEPT ![p] = "read"]
    /\ UNCHANGED <<sameKey, net, tries, sender, helo, okay, wg,
                   recvDone, cancelled, fail, main>>

Read(p, m) ==
    /\ receiver[p] = "read"
    /\ net[p][m] > 0
    /\ net' = [net EXCEPT ![p][m] = @ - 1]
    /\ receiver' = [receiver EXCEPT ![p] = m]
    /\ UNCHANGED <<sameKey, tries, sender, helo, okay, wg, recvDone,
                   cancelled, deadline, fail, main>>

\* ReadFrom fails: its deadline has passed, or PunchUDP has closed the socket.
ReadFails(p) ==
    /\ receiver[p] = "read"
    /\ deadline[p] = "past" \/ main[p] = "failed"
    /\ receiver' = [receiver EXCEPT ![p] = "error"]
    /\ UNCHANGED <<sameKey, net, tries, sender, helo, okay, wg, recvDone,
                   cancelled, deadline, fail, main>>

\* Mutants of Return: both calls of wg.Done() are made, whatever came before;
\* none is made.
ReturnDoneTwice(p) ==
    /\ receiver' = [receiver EXCEPT ![p] = "done"]
    /\ wg' = [wg EXCEPT ![p] = @ - 2]
    /\ deadline' = [deadline EXCEPT ![p] = "none"]
    /\ net' = [net EXCEPT ![p] = [m \in Messages |-> 0]]

ReturnWithoutDone(p) ==
    /\ receiver' = [receiver EXCEPT ![p] = "done"]
    /\ wg' = wg
    /\ deadline' = [deadline EXCEPT ![p] = "none"]
    /\ net' = [net EXCEPT ![p] = [m \in Messages |-> 0]]

\* The receiver returns: its deferred function makes up for the calls of
\* wg.Done() that are missing and takes the deadline off.
Return(p) ==
    /\ receiver' = [receiver EXCEPT ![p] = "done"]
    /\ wg' = [wg EXCEPT ![p] = @ - Cardinality({flag \in {"helo", "okay"} :
                                       ~(IF flag = "helo" THEN helo[p] ELSE okay[p])})]
    /\ deadline' = [deadline EXCEPT ![p] = "none"]
    /\ net' = [net EXCEPT ![p] = [m \in Messages |-> 0]]

Stopped(p) ==
    /\ receiver[p] \in Messages \union {"error"}
    /\ recvDone[p]
    /\ Return(p)
    /\ UNCHANGED <<sameKey, tries, sender, helo, okay, recvDone,
                   cancelled, fail, main>>

\* A failed read has no address; raddr.String() comes before the check of err.
NilAddress(p) ==
    /\ receiver[p] = "error"
    /\ ~recvDone[p]
    /\ main' = [main EXCEPT ![p] = "nil_address"]
    /\ net' = [net EXCEPT ![p] = [m \in Messages |-> 0]]
    /\ UNCHANGED <<sameKey, tries, sender, receiver, helo, okay, wg,
                   recvDone, cancelled, deadline, fail>>

IgnoreStranger(p) ==
    /\ receiver[p] = "stranger"
    /\ ~recvDone[p]
    /\ receiver' = [receiver EXCEPT ![p] = "arm"]
    /\ UNCHANGED <<sameKey, net, tries, sender, helo, okay, wg,
                   recvDone, cancelled, deadline, fail, main>>

\* A datagram of the other peer decrypts to HELO or OKAY: the keys are equal.
Understood(p, m) ==
    /\ receiver[p] = m
    /\ ~recvDone[p]
    /\ sameKey

\* Mutant of AuthFailed: the error is not recorded.
AuthFailedSilently(p) ==
    /\ receiver[p] \in {"HELO", "OKAY", "data"}
    /\ receiver[p] = "data" \/ ~sameKey
    /\ ~recvDone[p]
    /\ cancelled' = [cancelled EXCEPT ![p] = TRUE]
    /\ Return(p)
    /\ UNCHANGED <<sameKey, tries, sender, helo, okay, recvDone, fail, main>>

\* Anything else from the other peer ends the attempt.
AuthFailed(p) ==
    /\ receiver[p] \in {"HELO", "OKAY", "data"}
    /\ receiver[p] = "data" \/ ~sameKey
    /\ ~recvDone[p]
    /\ fail' = [fail EXCEPT ![p] = "auth"]
    /\ cancelled' = [cancelled EXCEPT ![p] = TRUE]
    /\ Return(p)
    /\ UNCHANGED <<sameKey, tries, sender, helo, okay, recvDone, main>>

\* HELO is answered each time, and counted once.
ReceiveHelo(p) ==
    /\ Understood(p, "HELO")
    /\ SendMsg(p, "OKAY")
    /\ helo' = [helo EXCEPT ![p] = TRUE]
    /\ wg' = IF helo[p] THEN wg ELSE [wg EXCEPT ![p] = @ - 1]
    /\ receiver' = [receiver EXCEPT ![p] = "arm"]
    /\ UNCHANGED <<sameKey, tries, sender, okay, recvDone, cancelled,
                   fail, main>>

\* Mutant of ReceiveOkay: every OKAY is counted.
ReceiveOkayCountsAll(p) ==
    /\ Understood(p, "OKAY")
    /\ cancelled' = [cancelled EXCEPT ![p] = TRUE]
    /\ okay' = [okay EXCEPT ![p] = TRUE]
    /\ wg' = [wg EXCEPT ![p] = @ - 1]
    /\ receiver' = [receiver EXCEPT ![p] = "arm"]
    /\ UNCHANGED <<sameKey, net, tries, sender, helo, recvDone,
                   deadline, fail, main>>

\* OKAY stops the sender, and is counted once.
ReceiveOkay(p) ==
    /\ Understood(p, "OKAY")
    /\ cancelled' = [cancelled EXCEPT ![p] = TRUE]
    /\ okay' = [okay EXCEPT ![p] = TRUE]
    /\ wg' = IF okay[p] THEN wg ELSE [wg EXCEPT ![p] = @ - 1]
    /\ receiver' = [receiver EXCEPT ![p] = "arm"]
    /\ UNCHANGED <<sameKey, net, tries, sender, helo, recvDone,
                   deadline, fail, main>>

-----------------------------------------------------------------------------
(* PunchUDP itself. *)

\* wg.Wait() is over: recv_done is closed, for the second time after a timeout.
CloseDone(p) ==
    /\ main[p] = "wait"
    /\ wg[p] = 0
    /\ recvDone' = [recvDone EXCEPT ![p] = TRUE]
    /\ main' = [main EXCEPT ![p] = IF recvDone[p] THEN "closed_twice" ELSE "deadline"]
    /\ UNCHANGED <<sameKey, net, tries, sender, receiver, helo, okay,
                   wg, cancelled, deadline, fail>>

CancelRead(p) ==
    /\ main[p] = "deadline"
    /\ deadline' = [deadline EXCEPT ![p] = "past"]
    /\ main' = [main EXCEPT ![p] = "sleep"]
    /\ UNCHANGED <<sameKey, net, tries, sender, receiver, helo, okay,
                   wg, recvDone, cancelled, fail>>

\* The two seconds of sleep are over.  They are enough for a receiver that can
\* run to do so; one that waits in ReadFrom has a deadline of five.
Finish(p) ==
    /\ main[p] = "sleep"
    /\ \/ receiver[p] = "done"
       \/ receiver[p] = "read" /\ deadline[p] # "past"
    /\ main' = [main EXCEPT ![p] = IF fail[p] = "none" THEN "ok" ELSE "failed"]
    /\ UNCHANGED <<sameKey, net, tries, sender, receiver, helo, okay,
                   wg, recvDone, cancelled, deadline, fail>>

-----------------------------------------------------------------------------
(* Time and network. *)

\* Five seconds without a new deadline.  A running sender sets one at least
\* every three seconds.
DeadlinePasses(p) ==
    /\ sender[p] = "done"
    /\ deadline[p] = "soon"
    /\ deadline' = [deadline EXCEPT ![p] = "past"]
    /\ UNCHANGED <<sameKey, net, tries, sender, receiver, helo, okay,
                   wg, recvDone, cancelled, fail, main>>

\* A datagram that is not of the handshake: from a stranger, or from the tunnel
\* that the other peer has begun to use.  There is no end to them.
Extra(p, m) ==
    /\ m = "stranger" \/ (m = "data" /\ main[Other(p)] = "ok")
    /\ Up(p) /\ receiver[p] # "done"
    /\ net[p]["stranger"] + net[p]["data"] < MaxExtra
    /\ net' = [net EXCEPT ![p][m] = @ + 1]
    /\ UNCHANGED <<sameKey, tries, sender, receiver, helo, okay, wg, recvDone,
                   cancelled, deadline, fail, main>>

-----------------------------------------------------------------------------

Sender(p) == SendHelo(p) \/ SenderCancelled(p) \/ SenderGivesUp(p)
             \/ SenderWakesReceiver(p)

Receiver(p) == Arm(p) \/ (\E m \in Messages : Read(p, m)) \/ ReadFails(p)
               \/ Stopped(p) \/ NilAddress(p) \/ IgnoreStranger(p)
               \/ AuthFailed(p) \/ ReceiveHelo(p) \/ ReceiveOkay(p)

Main(p) == CloseDone(p) \/ CancelRead(p) \/ Finish(p)

Process(p) == Up(p) /\ (Sender(p) \/ Receiver(p) \/ Main(p) \/ DeadlinePasses(p))

Network == \E p \in Peers, m \in Messages : Extra(p, m)

Next == (\E p \in Peers : Process(p)) \/ Network

Spec == Init /\ [][Next]_vars

\* Each of the three goroutines runs when it can, and a deadline passes on a
\* receiver that stays in ReadFrom; one that keeps coming back to set it anew may
\* never see it pass.  Nothing is assumed of the network.
Fairness ==
    \A p \in Peers : /\ WF_vars(Up(p) /\ Sender(p))
                    /\ WF_vars(Up(p) /\ Receiver(p))
                    /\ WF_vars(Up(p) /\ Main(p))
                    /\ WF_vars(Up(p) /\ receiver[p] = "read" /\ DeadlinePasses(p))

FairSpec == Spec /\ Fairness

-----------------------------------------------------------------------------
(* Properties. *)

\* The variables of both peers have their types.
TypeOK ==
    /\ sameKey \in BOOLEAN
    /\ net \in [Peers -> [Messages -> Nat]]
    /\ tries \in [Peers -> 0..MaxTries]
    /\ sender \in [Peers -> {"wait", "wake", "done"}]
    /\ receiver \in [Peers -> {"arm", "read", "done", "error"} \union Messages]
    /\ helo \in [Peers -> BOOLEAN]
    /\ okay \in [Peers -> BOOLEAN]
    /\ wg \in [Peers -> 0..3]
    /\ recvDone \in [Peers -> BOOLEAN]
    /\ cancelled \in [Peers -> BOOLEAN]
    /\ deadline \in [Peers -> {"none", "soon", "past"}]
    /\ fail \in [Peers -> {"none", "timeout", "auth"}]
    /\ main \in [Peers -> {"wait", "deadline", "sleep", "ok", "failed"} \union Panics]

\* The WaitGroup counts exactly what is still to come: the sender's end, the
\* first HELO and the first OKAY, or the receiver's end in their place.
\* Repeated HELOs and OKAYs, and a receiver that stops early, never take it
\* below zero (a panic) nor leave PunchUDP waiting for nobody.
WaitGroupExact ==
    \A p \in Peers :
        wg[p] = Cardinality({part \in {"sender", "helo", "okay"} :
                    \/ part = "sender" /\ sender[p] # "done"
                    \/ part = "helo" /\ receiver[p] # "done" /\ ~helo[p]
                    \/ part = "okay" /\ receiver[p] # "done" /\ ~okay[p]})

\* PunchUDP returns a connection only when the hole is open both ways between
\* two peers of the same key: it has had a HELO of the other, and the other has
\* had one of its own, however datagrams are lost and reordered.
SuccessIsMutual ==
    \A p \in Peers : main[p] = "ok" =>
        /\ sameKey
        /\ helo[p]
        /\ helo[Other(p)]

\* How PunchUDP may end: with a result, or with the panics that are there to
\* find, which come in these places only.
Ended(p) ==
    \/ main[p] \in {"ok", "failed"}
    \/ main[p] = "closed_twice" /\ tries[p] = MaxTries /\ fail[p] = "timeout"
    \/ main[p] = "nil_address" /\ okay[p]

\* Hole punching comes to an end, whatever the network loses, delays or adds,
\* but for one case: with its OKAY the peer has stopped its sender, the other's
\* HELO does not get through, and foreign datagrams keep the receiver's deadline moving.
PunchEnds ==
    \A p \in Peers :
        \/ main[p] = "wait" ~> Ended(p)
        \/ []<>(receiver[p] = "stranger") /\ <>[](okay[p] /\ ~helo[p])

\* holepunch.go has an error for a sender that gives up, "timeout punching
\* holes": PunchUDP would return it.
TimeoutIsReported == \A p \in Peers : main[p] # "closed_twice"

\* holepunch.go closes recv_done to "stop receiver" and sets the deadline to
\* "cancel ReadFrom()": the connection it returns would have no other reader.
ReceiverIsStopped == \A p \in Peers : main[p] = "ok" => receiver[p] = "done"
=============================================================================
