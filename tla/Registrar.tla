------------------------------ MODULE Registrar ------------------------------
(***************************************************************************)
(* The broker of a swarm (swarm/registrar.go): enrolment of endpoints, the *)
(* administrator's decisions, activation, revocation and reachability.     *)
(*                                                                         *)
(* Every exported method of the Go type Registrar runs from its first to   *)
(* its last line under r.mu, so each is one atomic action here.  A call    *)
(* that returns an error or answers from the record it finds leaves the    *)
(* state alone; such calls are the disabled or stuttering cases of the     *)
(* actions below, and what they answer is in Enrollment.tla.               *)
(*                                                                         *)
(* Data: a key pair is a member of Keys, and a signature is the key that   *)
(* made it.  A PASETO token is the record of its claims: only the          *)
(* registrar signs, so the tokens that verify are those it has issued and  *)
(* that have not expired.  Times are left out, except that a token can     *)
(* expire at any moment.                                                   *)
(***************************************************************************)
EXTENDS Integers, FiniteSets

CONSTANTS
    Keys,            \* Ed25519 key pairs
    Fingerprints,    \* non-empty machine fingerprints
    NoFingerprint,   \* the empty fingerprint, which relays send
    RequestIDs,      \* what randomRequestID can draw
    Domains, RelayDomain,
    Groups, RelayGroup,
    RoleFlagBytes,   \* the RoleFlags bytes that occur in enrolment requests
    MaxEndpoints,    \* maxEndpointsPerGroup, 65534 in the code
    IDModulus,       \* 2^16: the width of the uint16 an ID is computed in
    ObservedAddrs,   \* public host:port addresses the broker may observe
    RelayTargets,    \* AddrKeys that callers of SetRelayRoute name as their relay
    ExpiringKeys,    \* AddrKeys whose tokens may expire in the history looked at
    None             \* a missing map entry, a nil pointer

ASSUME FingerprintAssumption == NoFingerprint \notin Fingerprints

ASSUME AddressSpaceAssumption ==
    /\ RelayDomain \in Domains
    /\ RelayGroup \in Groups
    /\ MaxEndpoints \in Nat \ {0}
    /\ IDModulus = MaxEndpoints + 2
    /\ RoleFlagBytes \subseteq 0..255
    /\ RelayTargets \subseteq Domains \X Groups \X (1..MaxEndpoints)
    /\ ExpiringKeys \subseteq Domains \X Groups \X (1..MaxEndpoints)

RoleClient == 1
RoleAgent  == 2
RoleRelay  == 3

\* The lower two bits of a RoleFlags byte (types.go).
RoleOf(flags) == flags % 4

EndpointIDs == 1..MaxEndpoints

\* What AddrKey() makes of an address: the role flags are not part of it.
AddrKeys == Domains \X Groups \X EndpointIDs

EndpointAddr == [key : AddrKeys, roleFlags : RoleFlagBytes]

TokenClaims == [addr        : EndpointAddr,
                publicKey   : Keys,
                fingerprint : Fingerprints \union {NoFingerprint}]

StateChallengeIssued == "challenge_issued"
StatePending         == "pending"
StateRegistered      == "registered"
StateActive          == "active"
StateDenied          == "denied"
StateRevoked         == "revoked"

PendingEnroll ==
    [publicKey   : Keys,
     fingerprint : Fingerprints \union {NoFingerprint},
     roleFlags   : RoleFlagBytes,
     state       : {StateChallengeIssued, StatePending, StateRegistered, StateDenied},
     token       : TokenClaims \union {None}]

RegisteredEndpoint ==
    [token : TokenClaims,
     state : {StateRegistered, StateActive, StateRevoked}]

ReachabilityInfo == [direct : ObservedAddrs \union {None},
                     relay  : RelayTargets \union {None}]

\* None is a value of its own.
ASSUME NoneAssumption ==
    /\ None \notin RequestIDs
    /\ None \notin ObservedAddrs
    /\ None \notin Domains \X Groups
    /\ None \notin TokenClaims
    /\ None \notin PendingEnroll
    /\ None \notin RegisteredEndpoint
    /\ None \notin ReachabilityInfo

VARIABLES
    endpoints,      \* AddrKey     -> registered endpoint, or None
    pending,        \* RequestID   -> enrolment record, or None
    byFingerprint,  \* fingerprint -> its current RequestID, or None
    preApproved,    \* fingerprint -> <<domain, group>>, or None
    nextID,         \* <<domain, group>> -> allocation hint, 0 when unset
    reachability,   \* AddrKey     -> reachability record, or None
    drawn,          \* request IDs drawn so far: a random ID never comes twice
    expired         \* issued tokens whose ExpiresAt has passed

rvars == <<endpoints, pending, byFingerprint, preApproved, nextID,
           reachability, drawn, expired>>

\* NewRegistrar: every map empty.
RInit ==
    /\ endpoints     = [k \in AddrKeys |-> None]
    /\ pending       = [r \in RequestIDs |-> None]
    /\ byFingerprint = [f \in Fingerprints |-> None]
    /\ preApproved   = [f \in Fingerprints |-> None]
    /\ nextID        = [dg \in Domains \X Groups |-> 0]
    /\ reachability  = [k \in AddrKeys |-> None]
    /\ drawn         = {}
    /\ expired       = {}

-----------------------------------------------------------------------------
(* Helpers. *)

IssuedTokens == {endpoints[k].token : k \in {j \in AddrKeys : endpoints[j] # None}}

\* VerifyToken accepts what the registrar signed and has not expired.
ValidTokens == IssuedTokens \ expired

HasState(k, s) == endpoints[k] # None /\ endpoints[k].state = s

\* The slots findByFingerprint may return (map iteration order is arbitrary).
FindByFingerprint(fp) ==
    {k \in AddrKeys : /\ fp # NoFingerprint
                      /\ endpoints[k] # None
                      /\ endpoints[k].token.fingerprint = fp
                      /\ endpoints[k].state # StateRevoked}

\* Mutant of Taken: revoked endpoints free their IDs.
TakenUnlessRevoked(d, g) ==
    {id \in EndpointIDs : /\ endpoints[<<d, g, id>>] # None
                          /\ endpoints[<<d, g, id>>].state # StateRevoked}

Taken(d, g) == {id \in EndpointIDs : endpoints[<<d, g, id>>] # None}

countEndpoints(d, g) == Cardinality(Taken(d, g))

\* allocateID: the i-th candidate of the scan that starts at hint.  The sum
\* and the wrap-around are those of a uint16.
Candidate(hint, i) ==
    LET sum == (hint + i) % IDModulus
        c   == IF sum = 0 THEN 1 ELSE sum
    IN  IF c > MaxEndpoints THEN c - MaxEndpoints ELSE c

Hint(d, g) == IF nextID[<<d, g>>] = 0 THEN 1 ELSE nextID[<<d, g>>]

\* allocateID returns id: the first candidate that is not taken.
AllocatesID(d, g, id) ==
    \E i \in 0..(MaxEndpoints - 1) :
        /\ id = Candidate(Hint(d, g), i)
        /\ id \notin Taken(d, g)
        /\ \A j \in 0..(i - 1) : Candidate(Hint(d, g), j) \in Taken(d, g)

\* Mutants of HintAfter: no wrap-around, no step, one wrapped too early.
HintAfterNoWrap(id) == id + 1
HintAfterSame(id) == id
HintAfterEarly(id) == IF id + 1 >= MaxEndpoints THEN 1 ELSE id + 1

\* What allocateID leaves in nextID after it has returned id.
HintAfter(id) == IF id + 1 > MaxEndpoints THEN 1 ELSE id + 1

-----------------------------------------------------------------------------
(* Enrolment. *)

ValidRequest(fp, flags) ==
    /\ RoleOf(flags) \in {RoleClient, RoleAgent, RoleRelay}
    /\ RoleOf(flags) # RoleRelay => fp # NoFingerprint

\* Mutant of KnownEnrollment: a second request of a device starts afresh.
KnownEnrollmentNever(fp) == FALSE

\* The record Enroll answers from when the fingerprint is already known.
KnownEnrollment(fp) ==
    /\ fp # NoFingerprint
    /\ byFingerprint[fp] # None
    /\ pending[byFingerprint[fp]] # None

\* Enroll, phase 1, for a fingerprint without a record: a fresh request ID.
EnrollNew(key, fp, flags, rid) ==
    /\ ValidRequest(fp, flags)
    /\ ~KnownEnrollment(fp)
    /\ rid \notin drawn
    /\ drawn' = drawn \union {rid}
    /\ pending' = [pending EXCEPT ![rid] =
           [publicKey |-> key, fingerprint |-> fp, roleFlags |-> flags,
            state |-> StateChallengeIssued, token |-> None]]
    /\ byFingerprint' = IF fp = NoFingerprint THEN byFingerprint
                        ELSE [byFingerprint EXCEPT ![fp] = rid]
    /\ UNCHANGED <<endpoints, preApproved, nextID, reachability, expired>>

\* The record pe once it is registered under token.
Registered(pe, token) == [pe EXCEPT !.state = StateRegistered, !.token = token]

\* Mutant of NewToken: the fingerprint is not copied.
NewTokenAnonymous(pe, d, g, id) ==
    [addr        |-> [key |-> <<d, g, id>>, roleFlags |-> pe.roleFlags],
     publicKey   |-> pe.publicKey,
     fingerprint |-> NoFingerprint]

\* The claims of the token that registerApproved signs for pe.
NewToken(pe, d, g, id) ==
    [addr        |-> [key |-> <<d, g, id>>, roleFlags |-> pe.roleFlags],
     publicKey   |-> pe.publicKey,
     fingerprint |-> pe.fingerprint]

\* registerApproved, first branch: the fingerprint has a live endpoint.
ReuseEndpoint(rid) ==
    /\ \E k \in FindByFingerprint(pending[rid].fingerprint) :
          pending' = [pending EXCEPT ![rid] = Registered(@, endpoints[k].token)]
    /\ UNCHANGED <<endpoints, nextID>>

\* registerApproved, second branch: allocate an ID, sign a token, store.
StoreEndpoint(rid, d, g) ==
    LET pe == pending[rid] IN
    /\ FindByFingerprint(pe.fingerprint) = {}
    /\ countEndpoints(d, g) < MaxEndpoints
    /\ \E id \in EndpointIDs :
          LET token == NewToken(pe, d, g, id)
          IN  /\ AllocatesID(d, g, id)
              /\ nextID' = [nextID EXCEPT ![<<d, g>>] = HintAfter(id)]
              /\ endpoints' = [endpoints EXCEPT ![<<d, g, id>>] =
                                  [token |-> token, state |-> StateRegistered]]
              /\ pending' = [pending EXCEPT ![rid] = Registered(@, token)]

\* registerApproved.  It fails, and changes nothing, when the group is full.
RegisterApproved(rid, d, g) ==
    /\ ReuseEndpoint(rid) \/ StoreEndpoint(rid, d, g)
    /\ UNCHANGED <<byFingerprint, preApproved, reachability, drawn, expired>>

AwaitsConfirm(rid) ==
    pending[rid] # None /\ pending[rid].state = StateChallengeIssued

\* Mutants of ConfirmBadSignature: the index is kept; the state is not looked at.
ConfirmBadSignatureKeepsIndex(rid, key) ==
    /\ AwaitsConfirm(rid)
    /\ key # pending[rid].publicKey
    /\ pending' = [pending EXCEPT ![rid] = None]
    /\ UNCHANGED <<endpoints, byFingerprint, preApproved, nextID, reachability,
                   drawn, expired>>

ConfirmBadSignatureAnyState(rid, key) ==
    /\ pending[rid] # None
    /\ key # pending[rid].publicKey
    /\ pending' = [pending EXCEPT ![rid] = None]
    /\ byFingerprint' = IF pending[rid].fingerprint = NoFingerprint
                        THEN byFingerprint
                        ELSE [byFingerprint EXCEPT ![pending[rid].fingerprint] = None]
    /\ UNCHANGED <<endpoints, preApproved, nextID, reachability, drawn, expired>>

\* ConfirmEnrollment with a signature that does not verify forgets the
\* enrolment, whoever sent the signature.
ConfirmBadSignature(rid, key) ==
    /\ AwaitsConfirm(rid)
    /\ key # pending[rid].publicKey
    /\ pending' = [pending EXCEPT ![rid] = None]
    /\ byFingerprint' = IF pending[rid].fingerprint = NoFingerprint
                        THEN byFingerprint
                        ELSE [byFingerprint EXCEPT ![pending[rid].fingerprint] = None]
    /\ UNCHANGED <<endpoints, preApproved, nextID, reachability, drawn, expired>>

\* ConfirmEnrollment of a relay: registered in the reserved domain and group.
ConfirmRelay(rid, key) ==
    /\ AwaitsConfirm(rid)
    /\ key = pending[rid].publicKey
    /\ RoleOf(pending[rid].roleFlags) = RoleRelay
    /\ RegisterApproved(rid, RelayDomain, RelayGroup)

PreApprovedFor(rid) ==
    IF pending[rid].fingerprint = NoFingerprint THEN None
    ELSE preApproved[pending[rid].fingerprint]

\* ConfirmEnrollment of a pre-approved fingerprint: registered where mapped.
ConfirmPreApproved(rid, key) ==
    /\ AwaitsConfirm(rid)
    /\ key = pending[rid].publicKey
    /\ RoleOf(pending[rid].roleFlags) # RoleRelay
    /\ PreApprovedFor(rid) # None
    /\ RegisterApproved(rid, PreApprovedFor(rid)[1], PreApprovedFor(rid)[2])

\* ConfirmEnrollment of anything else waits for the administrator.
ConfirmPending(rid, key) ==
    /\ AwaitsConfirm(rid)
    /\ key = pending[rid].publicKey
    /\ RoleOf(pending[rid].roleFlags) # RoleRelay
    /\ PreApprovedFor(rid) = None
    /\ pending' = [pending EXCEPT ![rid].state = StatePending]
    /\ UNCHANGED <<endpoints, byFingerprint, preApproved, nextID,
                   reachability, drawn, expired>>

-----------------------------------------------------------------------------
(* The administrator. *)

PreApprove(fp, d, g) ==
    /\ d # RelayDomain
    /\ preApproved' = [preApproved EXCEPT ![fp] = <<d, g>>]
    /\ UNCHANGED <<endpoints, pending, byFingerprint, nextID, reachability,
                   drawn, expired>>

\* Mutant of ApproveEnrollment: the reserved domain is not refused.
ApproveEnrollmentAnywhere(rid, d, g) ==
    /\ pending[rid] # None
    /\ pending[rid].state = StatePending
    /\ RegisterApproved(rid, d, g)

ApproveEnrollment(rid, d, g) ==
    /\ pending[rid] # None
    /\ pending[rid].state = StatePending
    /\ d # RelayDomain
    /\ RegisterApproved(rid, d, g)

\* Mutant of DenyEnrollment: the state is not looked at.
DenyEnrollmentAnyState(rid) ==
    /\ pending[rid] # None
    /\ pending' = [pending EXCEPT ![rid].state = StateDenied]
    /\ UNCHANGED <<endpoints, byFingerprint, preApproved, nextID,
                   reachability, drawn, expired>>

\* The code denies an enrolment that is pending or not yet confirmed.
DenyEnrollment(rid) ==
    /\ pending[rid] # None
    /\ pending[rid].state \in {StatePending, StateChallengeIssued}
    /\ pending' = [pending EXCEPT ![rid].state = StateDenied]
    /\ UNCHANGED <<endpoints, byFingerprint, preApproved, nextID,
                   reachability, drawn, expired>>

-----------------------------------------------------------------------------
(* Activation, revocation, reachability. *)

\* Mutant of ActivateEndpoint: the state is not looked at.
ActivateEndpointAnyState(addr, token) ==
    /\ token \in ValidTokens
    /\ token.addr = addr
    /\ endpoints' = [endpoints EXCEPT ![addr.key].state = StateActive]
    /\ UNCHANGED <<pending, byFingerprint, preApproved, nextID, reachability,
                   drawn, expired>>

\* The caller names an address and shows a token; both must agree, role
\* flags included.
ActivateEndpoint(addr, token) ==
    /\ token \in ValidTokens
    /\ token.addr = addr
    /\ HasState(addr.key, StateRegistered)
    /\ endpoints' = [endpoints EXCEPT ![addr.key].state = StateActive]
    /\ UNCHANGED <<pending, byFingerprint, preApproved, nextID, reachability,
                   drawn, expired>>

\* Mutants of RevokeEndpoint: the routes are kept; the endpoint is deleted.
RevokeEndpointKeepsRoutes(k) ==
    /\ endpoints[k] # None
    /\ endpoints' = [endpoints EXCEPT ![k].state = StateRevoked]
    /\ UNCHANGED <<pending, byFingerprint, preApproved, nextID, reachability,
                   drawn, expired>>

RevokeEndpointDeletes(k) ==
    /\ endpoints[k] # None
    /\ endpoints' = [endpoints EXCEPT ![k] = None]
    /\ reachability' = [reachability EXCEPT ![k] = None]
    /\ UNCHANGED <<pending, byFingerprint, preApproved, nextID, drawn, expired>>

RevokeEndpoint(k) ==
    /\ endpoints[k] # None
    /\ endpoints' = [endpoints EXCEPT ![k].state = StateRevoked]
    /\ reachability' = [reachability EXCEPT ![k] = None]
    /\ UNCHANGED <<pending, byFingerprint, preApproved, nextID, drawn, expired>>

GetOrCreateReachability(k) ==
    IF reachability[k] = None THEN [direct |-> None, relay |-> None]
    ELSE reachability[k]

ObserveEndpoint(k, observed) ==
    /\ HasState(k, StateActive)
    /\ reachability' = [reachability EXCEPT ![k] =
           [GetOrCreateReachability(k) EXCEPT !.direct = observed]]
    /\ UNCHANGED <<endpoints, pending, byFingerprint, preApproved, nextID,
                   drawn, expired>>

\* Here the role flags of the address are not compared with the token's.
SetRelayRoute(k, token, relayKey) ==
    /\ token \in ValidTokens
    /\ token.addr.key = k
    /\ HasState(k, StateActive)
    /\ reachability' = [reachability EXCEPT ![k] =
           [GetOrCreateReachability(k) EXCEPT !.relay = relayKey]]
    /\ UNCHANGED <<endpoints, pending, byFingerprint, preApproved, nextID,
                   drawn, expired>>

ClearReachability(k) ==
    /\ reachability' = [reachability EXCEPT ![k] = None]
    /\ UNCHANGED <<endpoints, pending, byFingerprint, preApproved, nextID,
                   drawn, expired>>

\* Time passes ExpiresAt of an issued token.
TokenExpires(token) ==
    /\ token \in ValidTokens
    /\ token.addr.key \in ExpiringKeys
    /\ expired' = expired \union {token}
    /\ UNCHANGED <<endpoints, pending, byFingerprint, preApproved, nextID,
                   reachability, drawn>>

-----------------------------------------------------------------------------
(* The registrar under arbitrary callers. *)

EnrollStep ==
    \E key \in Keys, fp \in Fingerprints \union {NoFingerprint},
       flags \in RoleFlagBytes, rid \in RequestIDs : EnrollNew(key, fp, flags, rid)

ConfirmStep ==
    \E rid \in RequestIDs, key \in Keys :
        \/ ConfirmBadSignature(rid, key)
        \/ ConfirmRelay(rid, key)
        \/ ConfirmPreApproved(rid, key)
        \/ ConfirmPending(rid, key)

AdminStep ==
    \/ \E fp \in Fingerprints, d \in Domains, g \in Groups : PreApprove(fp, d, g)
    \/ \E rid \in RequestIDs, d \in Domains, g \in Groups : ApproveEnrollment(rid, d, g)
    \/ \E rid \in RequestIDs : DenyEnrollment(rid)
    \/ \E k \in AddrKeys : RevokeEndpoint(k)

ServiceStep ==
    \/ \E addr \in EndpointAddr, token \in IssuedTokens : ActivateEndpoint(addr, token)
    \/ \E k \in AddrKeys, observed \in ObservedAddrs : ObserveEndpoint(k, observed)
    \/ \E k \in AddrKeys, token \in IssuedTokens, r \in RelayTargets : SetRelayRoute(k, token, r)
    \/ \E k \in AddrKeys : ClearReachability(k)
    \/ \E token \in IssuedTokens : TokenExpires(token)

RNext == EnrollStep \/ ConfirmStep \/ AdminStep \/ ServiceStep

RSpec == RInit /\ [][RNext]_rvars

-----------------------------------------------------------------------------
(* Properties. *)

\* The maps of the Registrar hold what their Go types say.
TypeOK ==
    /\ endpoints \in [AddrKeys -> RegisteredEndpoint \union {None}]
    /\ pending \in [RequestIDs -> PendingEnroll \union {None}]
    /\ byFingerprint \in [Fingerprints -> RequestIDs \union {None}]
    /\ preApproved \in [Fingerprints -> ((Domains \ {RelayDomain}) \X Groups) \union {None}]
    /\ nextID \in [Domains \X Groups -> 0..MaxEndpoints]
    /\ reachability \in [AddrKeys -> ReachabilityInfo \union {None}]
    /\ drawn \subseteq RequestIDs
    /\ expired \subseteq TokenClaims

\* byFingerprint is exactly the index of the live enrolment records: a record
\* with a fingerprint is the one its fingerprint points to, so a device never
\* has two, and an index entry never dangles (Enroll, ConfirmEnrollment).
IndexExact ==
    /\ \A rid \in RequestIDs :
          (pending[rid] # None /\ pending[rid].fingerprint # NoFingerprint)
             => byFingerprint[pending[rid].fingerprint] = rid
    /\ \A fp \in Fingerprints :
          byFingerprint[fp] # None
             => /\ pending[byFingerprint[fp]] # None
                /\ pending[byFingerprint[fp]].fingerprint = fp

\* A device is registered at one address at most, revoked ones included:
\* re-enrolling, approving and pre-approving in any order never gives a
\* fingerprint a second endpoint.
OneAddressPerDevice ==
    \A k, l \in AddrKeys :
        /\ endpoints[k] # None
        /\ endpoints[l] # None
        /\ endpoints[k].token.fingerprint = endpoints[l].token.fingerprint
        /\ endpoints[k].token.fingerprint # NoFingerprint
        => k = l

\* What statusFor hands to a registered enrolment is what the endpoint table
\* stores at that address: same token, bound to the key and the fingerprint
\* that enrolled; and no two enrolments are given the same address.
RegistrationMatchesEndpoint ==
    \A rid \in RequestIDs :
        (pending[rid] # None /\ pending[rid].state = StateRegistered) =>
            LET token == pending[rid].token IN
            /\ token # None
            /\ endpoints[token.addr.key] # None
            /\ endpoints[token.addr.key].token = token
            /\ token.publicKey = pending[rid].publicKey
            /\ token.fingerprint = pending[rid].fingerprint
            /\ \A other \in RequestIDs \ {rid} :
                  (pending[other] # None /\ pending[other].state = StateRegistered)
                     => pending[other].token.addr.key # token.addr.key

\* Only an active endpoint has a reachability record: revoking one takes its
\* routes away for good, so neither LookupReachability nor RequestPunch ever
\* has a stale record to hide.
ReachableIsActive ==
    \A k \in AddrKeys : reachability[k] # None => HasState(k, StateActive)

\* The reserved domain holds relays and nothing else, and relays live nowhere
\* else, whichever of the three approval paths registered them.
RelayDomainIsForRelays ==
    \A k \in AddrKeys :
        endpoints[k] # None =>
            (k[1] = RelayDomain <=> RoleOf(endpoints[k].token.addr.roleFlags) = RoleRelay)

\* Below the capacity of the group allocateID always finds an ID, and when it
\* does, hint arithmetic included, the first candidate is free: the scan of
\* the uint16 space is never what refuses an enrolment.
AllocatorNeverStuck ==
    \A d \in Domains, g \in Groups :
        countEndpoints(d, g) < MaxEndpoints =>
            Hint(d, g) \in EndpointIDs \ Taken(d, g)

\* A registered endpoint keeps its identity for good: its address, key,
\* fingerprint and token are never rewritten or given to another, and
\* revocation is final.
IdentityIsForever ==
    [][\A k \in AddrKeys : endpoints[k] # None =>
           /\ endpoints'[k] # None
           /\ endpoints'[k].token = endpoints[k].token
           /\ endpoints[k].state = StateRevoked => endpoints'[k].state = StateRevoked]_rvars

-----------------------------------------------------------------------------
(* The inductive invariant behind them. *)

\* A request ID that names a record has been drawn (and is not drawn again).
RecordsAreDrawn == \A rid \in RequestIDs : pending[rid] # None => rid \in drawn

\* The token stored at an address names that address.
TokenNamesItsSlot ==
    \A k \in AddrKeys : endpoints[k] # None => endpoints[k].token.addr.key = k

\* The device behind an endpoint, revoked or not, still has its enrolment
\* record, and that record is registered under the endpoint's token.  This is
\* why a record that is still to be approved never finds an endpoint to reuse.
EndpointHasEnrollment ==
    \A k \in AddrKeys :
        LET fp == endpoints[k].token.fingerprint IN
        (endpoints[k] # None /\ fp # NoFingerprint) =>
            /\ byFingerprint[fp] # None
            /\ pending[byFingerprint[fp]] # None
            /\ pending[byFingerprint[fp]].state = StateRegistered
            /\ pending[byFingerprint[fp]].token = endpoints[k].token

IdentityInv == /\ TypeOK
               /\ IndexExact
               /\ RecordsAreDrawn
               /\ TokenNamesItsSlot
               /\ EndpointHasEnrollment
               /\ RegistrationMatchesEndpoint

\* A relay never waits for the administrator: it is registered, or refused and
\* left at its challenge, by ConfirmEnrollment.
RelayNeverPending ==
    \A rid \in RequestIDs :
        (pending[rid] # None /\ pending[rid].state = StatePending)
            => RoleOf(pending[rid].roleFlags) # RoleRelay

DomainInv == RelayDomainIsForRelays /\ RelayNeverPending

\* allocateID fills a group from 1 upwards: the IDs taken are 1..n and the hint
\* is the next one, back at 1 when the group is full.
GroupsFillInOrder ==
    \A d \in Domains, g \in Groups :
        \E n \in 0..MaxEndpoints :
            /\ Taken(d, g) = 1..n
            /\ nextID[<<d, g>>] = IF n = 0 THEN 0 ELSE IF n = MaxEndpoints THEN 1 ELSE n + 1
=============================================================================
