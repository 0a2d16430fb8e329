----------------------------- MODULE HolePunchTCP -----------------------------
(***************************************************************************)
(* PunchTCP of two peers (holepunch.go) and the cipher stream of the       *)
(* connection it makes (EConnXor, crypt.go), up to the first bytes of the  *)
(* tunnel that follows on it.                                              *)
(*                                                                         *)
(* Both peers dial until their SYNs meet, write "HELO-<pid>" and read.     *)
(* What has been written on a connection is, byte for byte, the position   *)
(* of the key it was encrypted with; a reader keeps the positions it       *)
(* decrypted with.  The bytes themselves are left out: a peer with another *)
(* key reads something that does not start with HELO.  A configuration     *)
(* without a key counts as one more key.                                   *)
(***************************************************************************)
EXTENDS Naturals, Sequences, SequencesExt

CONSTANTS
    Peers,         \* the two ends
    Other(_),      \* the other end
    MaxTries,      \* 60 in the code
    KeyLen,        \* bytes of the derived key, 4096 in the code
    AuthLen,       \* the bytes compared with "HELO", 4 in the code
    HeloLen(_),    \* the length of a peer's "HELO-<pid>"
    TunnelBytes    \* bound: bytes that a tunnel writes in the history looked at

ASSUME PunchTCPAssumption ==
    /\ MaxTries \in Nat \ {0}
    /\ KeyLen \in Nat \ {0}
    /\ AuthLen \in Nat
    /\ \A p \in Peers : /\ Other(p) \in Peers \ {p}
                         /\ HeloLen(p) \in Nat /\ HeloLen(p) >= AuthLen

VARIABLES
    sameKey,   \* the two configurations hold the same key
    punch,     \* p -> where PunchTCP is: "dial", "write", "read"; "ok" when it
               \* has returned the connection, "error"; "gone" for a vanished host
    tries,     \* p -> calls of DialTCP so far
    alone,     \* p -> the connection it dialled has no other end any more
    keyWI,     \* p -> econn.key_wi
    keyRI,     \* p -> econn.key_ri
    enc,       \* p -> key positions of the bytes it has written
    dec        \* p -> key positions of the bytes it has read

pvars == <<sameKey, punch, tries, alone, keyWI, keyRI, enc, dec>>

PInit ==
    /\ sameKey \in BOOLEAN
    /\ punch = [p \in Peers |-> "dial"]
    /\ tries = [p \in Peers |-> 0]
    /\ alone = [p \in Peers |-> FALSE]
    /\ keyWI = [p \in Peers |-> 0]
    /\ keyRI = [p \in Peers |-> 0]
    /\ enc   = [p \in Peers |-> <<>>]
    /\ dec   = [p \in Peers |-> <<>>]

-----------------------------------------------------------------------------
(* EConnXor. *)

\* How many of n bytes from position i are left until the end of the key.
FirstRun(i, n) == IF n < KeyLen - i THEN n ELSE KeyLen - i

\* The key positions that the loop of Read and of Write runs through for n
\* bytes from position i: as far as the key goes, then from its start.
KeyRun[n \in Nat] == [i \in 0..(KeyLen - 1) |->
    LET ct == FirstRun(i, n)
    IN  IF n = 0 THEN <<>>
        ELSE [j \in 1..ct |-> i + j - 1] \o KeyRun[n - ct][(i + ct) % KeyLen]]

\* Mutant of Advance: the index is not taken modulo the length of the key.
AdvanceNotWrapped(i, n) == i + n

\* Mutant of Advance: a run that ends with the key leaves the index behind it.
AdvanceUnwrapped(i, n) == IF i + n = KeyLen THEN KeyLen - 1 ELSE (i + n) % KeyLen

\* Where the loop leaves the index.
Advance(i, n) == (i + n) % KeyLen

Write(p, n) ==
    /\ enc' = [enc EXCEPT ![p] = @ \o KeyRun[n][keyWI[p]]]
    /\ keyWI' = [keyWI EXCEPT ![p] = Advance(@, n)]

Unread(p) == Len(enc[Other(p)]) - Len(dec[p])

\* TCP hands over any part of what has arrived.
Read(p, n) ==
    /\ n \in 1..Unread(p)
    /\ ~alone[p]
    /\ dec' = [dec EXCEPT ![p] = @ \o KeyRun[n][keyRI[p]]]
    /\ keyRI' = [keyRI EXCEPT ![p] = Advance(@, n)]

-----------------------------------------------------------------------------
(* PunchTCP. *)

Dials(p) == punch[p] = "dial" /\ tries[p] < MaxTries

Dialled(ps) == tries' = [p \in Peers |-> IF p \in ps THEN tries[p] + 1 ELSE tries[p]]

\* Both SYNs are under way at the same time: one connection for both.
SimultaneousOpen ==
    /\ \A p \in Peers : Dials(p)
    /\ Dialled(Peers)
    /\ punch' = [p \in Peers |-> "write"]
    /\ UNCHANGED <<sameKey, alone, keyWI, keyRI, enc, dec>>

\* DialTCP succeeds for p after the other side has dropped the connection.
OpenAlone(p) ==
    /\ Dials(p)
    /\ Dialled({p})
    /\ punch' = [punch EXCEPT ![p] = "write"]
    /\ alone' = [alone EXCEPT ![p] = TRUE]
    /\ UNCHANGED <<sameKey, keyWI, keyRI, enc, dec>>

\* Mutant of DialFails: the tries are not counted.
DialFailsUncounted(p) ==
    /\ Dials(p)
    /\ UNCHANGED pvars

\* DialTCP fails: retried after a pause, until the tries are used up.
DialFails(p) ==
    /\ Dials(p)
    /\ Dialled({p})
    /\ punch' = [punch EXCEPT ![p] = IF tries[p] + 1 = MaxTries THEN "error" ELSE "dial"]
    /\ UNCHANGED <<sameKey, alone, keyWI, keyRI, enc, dec>>

WriteHelo(p) ==
    /\ punch[p] = "write"
    /\ Write(p, HeloLen(p))
    /\ punch' = [punch EXCEPT ![p] = "read"]
    /\ UNCHANGED <<sameKey, tries, alone, keyRI, dec>>

\* One Read, and the check of its first bytes.  It may bring fewer than those,
\* and it may bring bytes of the tunnel that the other end has started.
ReadHelo(p) ==
    /\ punch[p] = "read"
    /\ \E n \in 1..Unread(p) :
          /\ Read(p, n)
          /\ punch' = [punch EXCEPT ![p] = IF sameKey /\ n >= AuthLen THEN "ok" ELSE "error"]
    /\ UNCHANGED <<sameKey, tries, alone, keyWI, enc>>

\* Write or Read returns an error: the other end is closed.  Not retried.
PunchFails(p) ==
    /\ punch[p] \in {"write", "read"}
    /\ alone[p] \/ punch[Other(p)] = "error"
    /\ punch' = [punch EXCEPT ![p] = "error"]
    /\ UNCHANGED <<sameKey, tries, alone, keyWI, keyRI, enc, dec>>

\* The host of p disappears without a FIN.
Vanish(p) ==
    /\ punch[p] \notin {"error", "gone"}
    /\ punch' = [punch EXCEPT ![p] = "gone"]
    /\ UNCHANGED <<sameKey, tries, alone, keyWI, keyRI, enc, dec>>

-----------------------------------------------------------------------------
(* The tunnel writes and reads on the connection that PunchTCP returned. *)

TunnelWrite(p) ==
    /\ punch[p] = "ok"
    /\ Len(enc[p]) < HeloLen(p) + TunnelBytes
    /\ Write(p, 1)
    /\ UNCHANGED <<sameKey, punch, tries, alone, keyRI, dec>>

TunnelRead(p) ==
    /\ punch[p] = "ok"
    /\ \E n \in 1..Unread(p) : Read(p, n)
    /\ UNCHANGED <<sameKey, punch, tries, alone, keyWI, enc>>

PunchTCP(p) ==
    DialFails(p) \/ SimultaneousOpen \/ WriteHelo(p) \/ ReadHelo(p) \/ PunchFails(p)

PNext == \E p \in Peers :
             PunchTCP(p) \/ OpenAlone(p) \/ Vanish(p) \/ TunnelWrite(p) \/ TunnelRead(p)

-----------------------------------------------------------------------------
(* Properties. *)

PTypeOK ==
    /\ sameKey \in BOOLEAN
    /\ punch \in [Peers -> {"dial", "write", "read", "ok", "error", "gone"}]
    /\ tries \in [Peers -> 0..MaxTries]
    /\ alone \in [Peers -> BOOLEAN]
    /\ keyWI \in [Peers -> 0..(KeyLen - 1)]
    /\ keyRI \in [Peers -> 0..(KeyLen - 1)]

\* Every byte is decrypted with the byte of the key it was encrypted with, from
\* the first byte of HELO into the tunnel, wherever the writes and reads of the
\* two ends cut the stream and however often the key has been used up; and a
\* connection is only returned to a peer whose partner has the same key.
CipherStreamsAgree ==
    \A p \in Peers :
        /\ IsPrefix(dec[p], enc[Other(p)])
        /\ punch[p] = "ok" => sameKey /\ Len(dec[p]) >= AuthLen

\* PunchTCP comes back with a connection or an error, unless the host of the
\* other end disappears: its Read has no deadline.
PunchTCPEnds ==
    <>[](\A p \in Peers : punch[p] \in {"ok", "error", "gone"} \/ punch[Other(p)] = "gone")
=============================================================================
