------------------------------ MODULE PunchProofs ------------------------------
(***************************************************************************)
(* Theorems about PunchUDP: its WaitGroup is exact and its success mutual, *)
(* for any number of tries and of strangers, and any loss and reordering.  *)
(***************************************************************************)
EXTENDS HolePunchUDP, FiniteSetTheorems, TLAPS

LEMMA OtherIsOther ==
    ASSUME NEW p \in Peers
    PROVE  Other(p) \in Peers \ {p} /\ Other(Other(p)) = p
  BY PunchAssumption DEF Other

-----------------------------------------------------------------------------
(* Counting. *)

Bit(b) == IF b THEN 1 ELSE 0

LEMMA CountFlags ==
    ASSUME NEW h \in BOOLEAN, NEW o \in BOOLEAN
    PROVE  Cardinality({flag \in {"helo", "okay"} : ~(IF flag = "helo" THEN h ELSE o)})
             = Bit(~h) + Bit(~o)
<1> DEFINE F == {flag \in {"helo", "okay"} : ~(IF flag = "helo" THEN h ELSE o)}
<1>1. IsFiniteSet({}) /\ Cardinality({}) = 0
  BY FS_EmptySet
<1>2. \A x : IsFiniteSet({x}) /\ Cardinality({x}) = 1
  BY FS_Singleton
<1>3. Cardinality({"helo"} \union {"okay"}) = 2
  <2> DEFINE H == {"helo"}
  <2>1. IsFiniteSet(H) /\ Cardinality(H) = 1 /\ "okay" \notin H
    BY <1>2
  <2> HIDE DEF H
  <2>2. Cardinality(H \union {"okay"}) = 2
    BY <2>1, FS_AddElement
  <2>3. QED
    BY <2>2 DEF H
<1>4. CASE h /\ o
  <2>1. F = {}
    BY <1>4
  <2>2. QED
    BY <1>1, <1>4, <2>1 DEF Bit
<1>5. CASE h /\ ~o
  <2>1. F = {"okay"}
    BY <1>5
  <2>2. QED
    BY <1>2, <1>5, <2>1 DEF Bit
<1>6. CASE ~h /\ o
  <2>1. F = {"helo"}
    BY <1>6
  <2>2. QED
    BY <1>2, <1>6, <2>1 DEF Bit
<1>7. CASE ~h /\ ~o
  <2>1. F = {"helo"} \union {"okay"}
    BY <1>7
  <2>2. QED
    BY <1>3, <1>7, <2>1 DEF Bit
<1>8. QED
  BY <1>4, <1>5, <1>6, <1>7

LEMMA CountParts ==
    ASSUME NEW s \in BOOLEAN, NEW h \in BOOLEAN, NEW o \in BOOLEAN
    PROVE  Cardinality({part \in {"sender", "helo", "okay"} :
                           \/ part = "sender" /\ s
                           \/ part = "helo" /\ h
                           \/ part = "okay" /\ o})
             = Bit(s) + Bit(h) + Bit(o)
<1> DEFINE O == IF o THEN {"okay"} ELSE {}
           H == IF h THEN O \union {"helo"} ELSE O
           S == IF s THEN H \union {"sender"} ELSE H
<1>1. {part \in {"sender", "helo", "okay"} : \/ part = "sender" /\ s
                                             \/ part = "helo" /\ h
                                             \/ part = "okay" /\ o} = S
  OBVIOUS
<1>2. IsFiniteSet(O) /\ Cardinality(O) = Bit(o)
  BY FS_EmptySet, FS_Singleton DEF Bit
<1>3. IsFiniteSet(H) /\ Cardinality(H) = Bit(h) + Bit(o)
  <2>1. "helo" \notin O
    OBVIOUS
  <2> HIDE DEF O
  <2>2. IsFiniteSet(O \union {"helo"}) /\ Cardinality(O \union {"helo"}) = Bit(o) + 1
    BY <1>2, <2>1, FS_AddElement
  <2>3. QED
    BY <1>2, <2>2 DEF Bit
<1>4. Cardinality(S) = Bit(s) + Bit(h) + Bit(o)
  <2>1. "sender" \notin H
    OBVIOUS
  <2> HIDE DEF H
  <2>2. Cardinality(H \union {"sender"}) = Bit(h) + Bit(o) + 1
    BY <1>3, <2>1, FS_AddElement
  <2>3. QED
    BY <1>3, <2>2 DEF Bit
<1> HIDE DEF S
<1>5. QED
  BY <1>1, <1>4

-----------------------------------------------------------------------------
(* The inductive invariant. *)

\* Types, and what is still to come as a sum.
Awaited(p) == Bit(sender[p] # "done")
              + Bit(receiver[p] # "done" /\ ~helo[p])
              + Bit(receiver[p] # "done" /\ ~okay[p])

CountInv ==
    /\ sameKey \in BOOLEAN
    /\ net \in [Peers -> [Messages -> Nat]]
    /\ tries \in [Peers -> 0..MaxTries]
    /\ sender \in [Peers -> {"wait", "wake", "done"}]
    /\ receiver \in [Peers -> {"arm", "read", "done", "error"} \union Messages]
    /\ helo \in [Peers -> BOOLEAN]
    /\ okay \in [Peers -> BOOLEAN]
    /\ wg \in [Peers -> Int]
    /\ \A p \in Peers : wg[p] = Awaited(p)
    /\ recvDone \in [Peers -> BOOLEAN]
    /\ cancelled \in [Peers -> BOOLEAN]
    /\ deadline \in [Peers -> {"none", "soon", "past"}]
    /\ fail \in [Peers -> {"none", "timeout", "auth"}]
    /\ main \in [Peers -> {"wait", "deadline", "sleep", "ok", "failed"} \union Panics]

\* What an OKAY on its way to p or in its hands says, and why a receiver ends.
HandshakeInv ==
    \A p \in Peers :
        /\ helo[p] => sameKey
        /\ net[p]["OKAY"] > 0 \/ receiver[p] = "OKAY" \/ okay[p] => helo[Other(p)]
        /\ receiver[p] = "done" => recvDone[p] \/ fail[p] # "none"
        /\ main[p] \in {"deadline", "sleep"} => fail[p] # "none" \/ (helo[p] /\ okay[p])
        /\ main[p] = "ok" => helo[p] /\ okay[p]

LEMMA ExactInts ==
    ASSUME CountInv
    PROVE  WaitGroupExact /\ TypeOK
<1>1. ASSUME NEW p \in Peers
      PROVE  /\ wg[p] = Cardinality({part \in {"sender", "helo", "okay"} :
                    \/ part = "sender" /\ sender[p] # "done"
                    \/ part = "helo" /\ receiver[p] # "done" /\ ~helo[p]
                    \/ part = "okay" /\ receiver[p] # "done" /\ ~okay[p]})
             /\ wg[p] \in 0..3
  <2> DEFINE s == sender[p] # "done"
             h == receiver[p] # "done" /\ ~helo[p]
             o == receiver[p] # "done" /\ ~okay[p]
  <2>1. wg[p] = Bit(s) + Bit(h) + Bit(o)
    BY DEF CountInv, Awaited
  <2>2. s \in BOOLEAN /\ h \in BOOLEAN /\ o \in BOOLEAN
    BY DEF CountInv
  <2> HIDE DEF s, h, o
  <2>3. Cardinality({part \in {"sender", "helo", "okay"} :
                        \/ part = "sender" /\ s
                        \/ part = "helo" /\ h
                        \/ part = "okay" /\ o}) = Bit(s) + Bit(h) + Bit(o)
    BY <2>2, CountParts
  <2>4. Bit(s) + Bit(h) + Bit(o) \in 0..3
    BY DEF Bit
  <2> USE DEF s, h, o
  <2>5. {part \in {"sender", "helo", "okay"} :
            \/ part = "sender" /\ s
            \/ part = "helo" /\ h
            \/ part = "okay" /\ o}
        = {part \in {"sender", "helo", "okay"} :
              \/ part = "sender" /\ sender[p] # "done"
              \/ part = "helo" /\ receiver[p] # "done" /\ ~helo[p]
              \/ part = "okay" /\ receiver[p] # "done" /\ ~okay[p]}
    OBVIOUS
  <2>6. QED
    BY <2>1, <2>3, <2>4, <2>5
<1>2. WaitGroupExact
  BY <1>1 DEF WaitGroupExact
<1>3. wg \in [Peers -> 0..3]
  BY <1>1 DEF CountInv
<1>4. QED
  BY <1>2, <1>3 DEF CountInv, TypeOK

LEMMA ReturnCounts ==
    ASSUME CountInv, NEW p \in Peers, Return(p)
    PROVE  /\ wg' = [wg EXCEPT ![p] = @ - (Bit(~helo[p]) + Bit(~okay[p]))]
           /\ receiver' = [receiver EXCEPT ![p] = "done"]
           /\ deadline' = [deadline EXCEPT ![p] = "none"]
           /\ net' = [net EXCEPT ![p] = [m \in Messages |-> 0]]
<1>1. helo[p] \in BOOLEAN /\ okay[p] \in BOOLEAN
  BY DEF CountInv
<1>2. Cardinality({flag \in {"helo", "okay"} : ~(IF flag = "helo" THEN helo[p] ELSE okay[p])})
        = Bit(~helo[p]) + Bit(~okay[p])
  BY <1>1, CountFlags
<1>3. QED
  BY <1>2 DEF Return

-----------------------------------------------------------------------------
(* The steps. *)

Inv == CountInv /\ HandshakeInv

LEMMA DeliverNet ==
    ASSUME CountInv, NEW q \in Peers, NEW m \in Messages, Deliver(q, m)
    PROVE  /\ net' \in [Peers -> [Messages -> Nat]]
           /\ \A p \in Peers, l \in Messages : net'[p][l] = net[p][l] \/ (p = q /\ l = m)
<1>1. CASE net' = net
  BY <1>1 DEF CountInv
<1>2. CASE net' = [net EXCEPT ![q][m] = @ + 1]
  <2>1. net'[q] = [net[q] EXCEPT ![m] = @ + 1] /\ net[q] \in [Messages -> Nat]
    BY <1>2 DEF CountInv
  <2>2. net'[q] \in [Messages -> Nat] /\ \A l \in Messages \ {m} : net'[q][l] = net[q][l]
    BY <2>1
  <2>3. \A p \in Peers \ {q} : net'[p] = net[p]
    BY <1>2 DEF CountInv
  <2>4. DOMAIN net' = Peers /\ net' = [p \in Peers |-> net'[p]]
    BY <1>2 DEF CountInv
  <2>5. \A p \in Peers : net'[p] \in [Messages -> Nat]
    BY <2>2, <2>3 DEF CountInv
  <2>6. net' \in [Peers -> [Messages -> Nat]]
    BY <2>4, <2>5
  <2>7. QED
    BY <2>2, <2>3, <2>6
<1>3. QED
  BY <1>1, <1>2 DEF Deliver

LEMMA SenderSteps ==
    ASSUME Inv, NEW p \in Peers, Sender(p)
    PROVE  Inv'
<1>1. CASE SendHelo(p)
  <2>1. /\ net' \in [Peers -> [Messages -> Nat]]
        /\ \A q \in Peers : net'[q]["OKAY"] = net[q]["OKAY"]
    BY <1>1, DeliverNet, OtherIsOther DEF SendHelo, SendMsg, Messages, Inv
  <2>2. CountInv'
    BY <1>1, <2>1, PunchAssumption DEF SendHelo, SendMsg, Inv, CountInv, Awaited
  <2>3. HandshakeInv'
    BY <1>1, <2>1 DEF SendHelo, Inv, HandshakeInv
  <2>4. QED
    BY <2>2, <2>3 DEF Inv
<1>2. CASE SenderCancelled(p)
  <2>1. CountInv'
    BY <1>2 DEF SenderCancelled, Inv, CountInv, Awaited, Bit
  <2>2. HandshakeInv'
    BY <1>2 DEF SenderCancelled, Inv, HandshakeInv
  <2>3. QED
    BY <2>1, <2>2 DEF Inv
<1>3. CASE SenderGivesUp(p)
  <2>1. CountInv'
    BY <1>3 DEF SenderGivesUp, Inv, CountInv, Awaited, Bit
  <2>2. HandshakeInv'
    BY <1>3 DEF SenderGivesUp, Inv, HandshakeInv, CountInv
  <2>3. QED
    BY <2>1, <2>2 DEF Inv
<1>4. CASE SenderWakesReceiver(p)
  <2>1. \A q \in Peers : wg'[q] = Awaited(q)'
    <3>1. wg'[p] = Awaited(p)'
      BY <1>4 DEF SenderWakesReceiver, Inv, CountInv, Awaited, Bit
    <3>2. \A q \in Peers \ {p} : wg'[q] = Awaited(q)'
      BY <1>4 DEF SenderWakesReceiver, Inv, CountInv, Awaited
    <3>3. QED
      BY <3>1, <3>2
  <2>2. CountInv'
    BY <1>4, <2>1 DEF SenderWakesReceiver, Inv, CountInv
  <2>3. HandshakeInv'
    BY <1>4 DEF SenderWakesReceiver, Inv, HandshakeInv
  <2>4. QED
    BY <2>2, <2>3 DEF Inv
<1>5. QED
  BY <1>1, <1>2, <1>3, <1>4 DEF Sender

LEMMA ReceiverSteps ==
    ASSUME Inv, NEW p \in Peers, Receiver(p)
    PROVE  Inv'
<1>1. CASE Arm(p)
  BY <1>1 DEF Arm, Inv, CountInv, HandshakeInv, Awaited, Messages
<1>2. ASSUME NEW m \in Messages, Read(p, m)
      PROVE  Inv'
  <2>1. m \notin {"done", "arm", "read", "error"}
    BY <1>2 DEF Messages
  <2>2. CountInv'
    BY <1>2, <2>1 DEF Read, Inv, CountInv, Awaited
  <2>3. HandshakeInv'
    BY <1>2, <2>1 DEF Read, Inv, CountInv, HandshakeInv
  <2>4. QED
    BY <2>2, <2>3 DEF Inv
<1>3. CASE ReadFails(p)
  BY <1>3 DEF ReadFails, Inv, CountInv, HandshakeInv, Awaited
<1>4. ASSUME Return(p), receiver[p] # "done",
             UNCHANGED <<sameKey, tries, sender, helo, okay, recvDone, main>>,
             cancelled' \in [Peers -> BOOLEAN],
             \/ recvDone[p] /\ fail' = fail
             \/ fail' = [fail EXCEPT ![p] = "auth"]
      PROVE  Inv'
  <2>1. /\ wg' = [wg EXCEPT ![p] = @ - (Bit(~helo[p]) + Bit(~okay[p]))]
        /\ receiver' = [receiver EXCEPT ![p] = "done"]
        /\ deadline' = [deadline EXCEPT ![p] = "none"]
        /\ net' = [net EXCEPT ![p] = [m \in Messages |-> 0]]
    BY <1>4, ReturnCounts DEF Inv
  <2>2. \A q \in Peers : wg'[q] = Awaited(q)'
    <3>1. wg'[p] = Awaited(p)'
      BY <1>4, <2>1 DEF Inv, CountInv, Awaited, Bit
    <3>2. \A q \in Peers \ {p} : wg'[q] = Awaited(q)'
      BY <1>4, <2>1 DEF Inv, CountInv, Awaited
    <3>3. QED
      BY <3>1, <3>2
  <2>3. CountInv'
    <3>1. wg' \in [Peers -> Int]
      BY <2>1 DEF Inv, CountInv, Bit
    <3>2. QED
      BY <1>4, <2>1, <2>2, <3>1 DEF Inv, CountInv
  <2>4. HandshakeInv'
    BY <1>4, <2>1 DEF Inv, CountInv, HandshakeInv, Messages
  <2>5. QED
    BY <2>3, <2>4 DEF Inv
<1>5. CASE Stopped(p)
  BY <1>4, <1>5 DEF Stopped, Messages, Inv, CountInv
<1>6. CASE AuthFailed(p)
  BY <1>4, <1>6 DEF AuthFailed, Inv, CountInv
<1>7. CASE NilAddress(p)
  <2>1. CountInv'
    BY <1>7 DEF NilAddress, Inv, CountInv, Awaited, Panics
  <2>2. HandshakeInv'
    BY <1>7 DEF NilAddress, Inv, CountInv, HandshakeInv, Messages, Panics
  <2>3. QED
    BY <2>1, <2>2 DEF Inv
<1>8. CASE IgnoreStranger(p)
  BY <1>8 DEF IgnoreStranger, Inv, CountInv, HandshakeInv, Awaited
<1>9. CASE ReceiveHelo(p)
  <2>1. /\ net' \in [Peers -> [Messages -> Nat]]
        /\ \A q \in Peers \ {Other(p)} : net'[q]["OKAY"] = net[q]["OKAY"]
    BY <1>9, DeliverNet, OtherIsOther DEF ReceiveHelo, SendMsg, Messages, Inv
  <2>2. \A q \in Peers : wg'[q] = Awaited(q)'
    <3>1. wg'[p] = Awaited(p)'
      BY <1>9 DEF ReceiveHelo, Understood, Inv, CountInv, Awaited, Bit
    <3>2. \A q \in Peers \ {p} : wg'[q] = Awaited(q)'
      BY <1>9 DEF ReceiveHelo, Understood, Inv, CountInv, Awaited
    <3>3. QED
      BY <3>1, <3>2
  <2>3. CountInv'
    <3>1. wg' \in [Peers -> Int]
      BY <1>9 DEF ReceiveHelo, Inv, CountInv
    <3>2. /\ helo' \in [Peers -> BOOLEAN]
          /\ deadline' \in [Peers -> {"none", "soon", "past"}]
          /\ receiver' \in [Peers -> {"arm", "read", "done", "error"} \union Messages]
      BY <1>9 DEF ReceiveHelo, SendMsg, Inv, CountInv
    <3>3. QED
      BY <1>9, <2>1, <2>2, <3>1, <3>2 DEF ReceiveHelo, Inv, CountInv
  <2>4. \A q \in Peers : helo[q] => helo'[q]
    BY <1>9 DEF ReceiveHelo, Inv, CountInv
  <2>5. helo'[p] /\ sameKey
    BY <1>9 DEF ReceiveHelo, Understood, Inv, CountInv
  <2>6. \A q \in Peers : net'[q]["OKAY"] > 0 => helo'[Other(q)]
    <3>1. helo'[Other(Other(p))]
      BY <2>5, OtherIsOther
    <3>2. QED
      BY <2>1, <2>4, <3>1, OtherIsOther DEF Inv, HandshakeInv
  <2>7. HandshakeInv'
    BY <1>9, <2>4, <2>5, <2>6, OtherIsOther DEF ReceiveHelo, Inv, CountInv, HandshakeInv
  <2>8. QED
    BY <2>3, <2>7 DEF Inv
<1>10. CASE ReceiveOkay(p)
  <2>1. \A q \in Peers : wg'[q] = Awaited(q)'
    BY <1>10 DEF ReceiveOkay, Understood, Inv, CountInv, Awaited, Bit
  <2>2. CountInv'
    BY <1>10, <2>1 DEF ReceiveOkay, Inv, CountInv
  <2>3. HandshakeInv'
    BY <1>10 DEF ReceiveOkay, Understood, Inv, CountInv, HandshakeInv
  <2>4. QED
    BY <2>2, <2>3 DEF Inv
<1>11. QED
  BY <1>1, <1>2, <1>3, <1>5, <1>6, <1>7, <1>8, <1>9, <1>10 DEF Receiver

LEMMA MainSteps ==
    ASSUME Inv, NEW p \in Peers, Main(p)
    PROVE  Inv'
<1>1. CASE CloseDone(p)
  <2>1. CountInv'
    BY <1>1 DEF CloseDone, Inv, CountInv, Awaited, Panics
  <2>2. ~recvDone[p] => fail[p] # "none" \/ (helo[p] /\ okay[p])
    <3>1. Awaited(p) = 0
      BY <1>1 DEF CloseDone, Inv, CountInv
    <3>2. receiver[p] = "done" \/ (helo[p] /\ okay[p])
      BY <3>1 DEF Awaited, Bit
    <3>3. QED
      BY <3>2 DEF Inv, HandshakeInv
  <2>3. HandshakeInv'
    BY <1>1, <2>2 DEF CloseDone, Inv, CountInv, HandshakeInv, Panics
  <2>4. QED
    BY <2>1, <2>3 DEF Inv
<1>2. CASE CancelRead(p) \/ Finish(p)
  <2>1. CountInv'
    <3>1. deadline' \in [Peers -> {"none", "soon", "past"}]
      BY <1>2 DEF CancelRead, Finish, Inv, CountInv
    <3>2. main' \in [Peers -> {"wait", "deadline", "sleep", "ok", "failed"} \union Panics]
      BY <1>2 DEF CancelRead, Finish, Inv, CountInv
    <3>3. QED
      BY <1>2, <3>1, <3>2 DEF CancelRead, Finish, Inv, CountInv, Awaited
  <2>2. HandshakeInv'
    BY <1>2 DEF CancelRead, Finish, Inv, CountInv, HandshakeInv
  <2>3. QED
    BY <2>1, <2>2 DEF Inv
<1>3. QED
  BY <1>1, <1>2 DEF Main

LEMMA NextInv == Inv /\ [Next]_vars => Inv'
<1> SUFFICES ASSUME Inv, [Next]_vars
             PROVE  Inv'
  OBVIOUS
<1>1. ASSUME NEW p \in Peers, DeadlinePasses(p)
      PROVE  Inv'
  BY <1>1 DEF DeadlinePasses, Inv, CountInv, HandshakeInv, Awaited
<1>2. ASSUME NEW p \in Peers, NEW m \in Messages, Extra(p, m)
      PROVE  Inv'
  <2>1. m # "OKAY"
    BY <1>2 DEF Extra
  <2>2. /\ net' \in [Peers -> [Messages -> Nat]]
        /\ \A q \in Peers : net'[q]["OKAY"] = net[q]["OKAY"]
    BY <1>2, <2>1, DeliverNet DEF Extra, Deliver, Messages, Inv
  <2>3. CountInv'
    BY <1>2, <2>2, PunchAssumption DEF Extra, Inv, CountInv, Awaited
  <2>4. HandshakeInv'
    BY <1>2, <2>2 DEF Extra, Inv, HandshakeInv
  <2>5. QED
    BY <2>3, <2>4 DEF Inv
<1>3. CASE UNCHANGED vars
  BY <1>3 DEF vars, Inv, CountInv, HandshakeInv, Awaited
<1>4. QED
  BY <1>1, <1>2, <1>3, SenderSteps, ReceiverSteps, MainSteps DEF Next, Process, Network

-----------------------------------------------------------------------------
(* Results. *)

THEOREM PunchInvariant == Spec => []Inv
<1>1. Init => Inv
  BY PunchAssumption DEF Init, Inv, CountInv, HandshakeInv, Awaited, Bit, Messages, Panics
<1>2. QED
  BY <1>1, NextInv, PTL DEF Spec

\* The variables of both peers have their types; wg stays in 0..3.
THEOREM PunchTypes == Spec => []TypeOK
<1>1. Inv => TypeOK
  BY ExactInts DEF Inv
<1>2. QED
  BY <1>1, PunchInvariant, PTL

\* The WaitGroup counts what is still to come (holepunch.go, wg).
THEOREM WaitGroupIsExact == Spec => []WaitGroupExact
<1>1. Inv => WaitGroupExact
  BY ExactInts DEF Inv
<1>2. QED
  BY <1>1, PunchInvariant, PTL

\* A connection is returned only when the hole is open both ways (PunchUDP).
THEOREM SuccessMutual == Spec => []SuccessIsMutual
<1>1. Inv => SuccessIsMutual
  BY DEF Inv, HandshakeInv, SuccessIsMutual
<1>2. QED
  BY <1>1, PunchInvariant, PTL
=============================================================================
