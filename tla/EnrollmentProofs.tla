--------------------------- MODULE EnrollmentProofs ---------------------------
(***************************************************************************)
(* Theorems about enrolment, for any keys, machines and capacities: the    *)
(* registrar implements the lifecycle of a device, step by step; and what  *)
(* the processes that enrol with it know is never ahead of its records,    *)
(* never another machine's, and never shared.                              *)
(***************************************************************************)
EXTENDS Enrollment, RegistrarLifecycle, EndpointProofs

-----------------------------------------------------------------------------
(* The lifecycle of a device.                                                 *)

IsEdge(from, to) == <<from, to>> \in Lifecycle!Edges

\* A step that takes one device along an edge and leaves the others.
LEMMA OneDeviceMoves ==
    ASSUME NEW fp \in Fingerprints, IsEdge(LifeOf(fp), LifeOf(fp)'),
           \A f \in Fingerprints \ {fp} : LifeOf(f)' = LifeOf(f)
    PROVE  Lifecycle!Next
<1>1. LifeOf(fp)' \in Lifecycle!States
  BY DEF IsEdge, Lifecycle!Edges, Lifecycle!States
<1>2. [f \in Fingerprints |-> LifeOf(f)]' = [[f \in Fingerprints |-> LifeOf(f)] EXCEPT ![fp] = LifeOf(fp)']
  OBVIOUS
<1>3. [f \in Fingerprints |-> LifeOf(f)][fp] = LifeOf(fp)
  OBVIOUS
<1>4. Lifecycle!Move(fp, LifeOf(fp)')
  BY <1>2, <1>3 DEF IsEdge, Lifecycle!Move
<1>5. QED
  BY <1>1, <1>4 DEF Lifecycle!Next

NothingMoves == \A f \in Fingerprints : LifeOf(f)' = LifeOf(f)

Moves == \E fp \in Fingerprints : /\ IsEdge(LifeOf(fp), LifeOf(fp)')
                                  /\ \A f \in Fingerprints \ {fp} : LifeOf(f)' = LifeOf(f)

\* The state of a device that has a record.
LEMMA LifeOfRecord ==
    ASSUME TypeOK, Linked, NEW rid \in RequestIDs, pending[rid] # None,
           pending[rid].fingerprint # NoFingerprint
    PROVE  /\ pending[rid].fingerprint \in Fingerprints
           /\ byFingerprint[pending[rid].fingerprint] = rid
           /\ LifeOf(pending[rid].fingerprint) =
                 IF pending[rid].state # StateRegistered THEN pending[rid].state
                 ELSE endpoints[pending[rid].token.addr.key].state
<1>1. pending[rid] \in PendingEnroll
  BY DEF TypeOK
<1>2. pending[rid].fingerprint \in Fingerprints
  BY <1>1 DEF PendingEnroll
<1>3. byFingerprint[pending[rid].fingerprint] = rid
  BY DEF Linked, IndexExact
<1>4. QED
  BY <1>2, <1>3, NoneAssumption DEF LifeOf

\* A device whose record and endpoint a step leaves alone stays where it is.
LEMMA LifeUnmoved ==
    ASSUME NEW f \in Fingerprints, byFingerprint'[f] = byFingerprint[f],
           byFingerprint[f] # None =>
              /\ pending'[byFingerprint[f]] = pending[byFingerprint[f]]
              /\ pending[byFingerprint[f]].state = StateRegistered =>
                    LET key == pending[byFingerprint[f]].token.addr.key
                    IN  endpoints'[key].state = endpoints[key].state
    PROVE  LifeOf(f)' = LifeOf(f)
  BY DEF LifeOf

\* Enroll: unknown to challenged.  A relay is no device.
LEMMA EnrollMoves ==
    ASSUME TypeOK, Linked, EnrollStep
    PROVE  NothingMoves \/ Moves
<1>1. PICK key \in Keys, fp \in Fingerprints \union {NoFingerprint},
           flags \in RoleFlagBytes, rid \in RequestIDs : EnrollNew(key, fp, flags, rid)
  BY DEF EnrollStep
<1>2. pending[rid] = None
  BY <1>1 DEF Linked, RecordsAreDrawn, EnrollNew
<1>3. \A f \in Fingerprints : byFingerprint[f] # rid
  BY <1>2, NoneAssumption DEF Linked, IndexExact
<1>4. \A f \in Fingerprints \ {fp} : LifeOf(f)' = LifeOf(f)
  <2> SUFFICES ASSUME NEW f \in Fingerprints \ {fp}
               PROVE  LifeOf(f)' = LifeOf(f)
    OBVIOUS
  <2>1. byFingerprint'[f] = byFingerprint[f] /\ endpoints' = endpoints
    BY <1>1 DEF EnrollNew, TypeOK
  <2>2. byFingerprint[f] # None => pending'[byFingerprint[f]] = pending[byFingerprint[f]]
    BY <1>1, <1>3 DEF EnrollNew, TypeOK
  <2>3. QED
    BY <2>1, <2>2, LifeUnmoved
<1>5. CASE fp = NoFingerprint
  BY <1>4, <1>5, FingerprintAssumption DEF NothingMoves
<1>6. CASE fp # NoFingerprint
  <2>1. fp \in Fingerprints /\ LifeOf(fp) = "unknown"
    BY <1>1, <1>6 DEF LifeOf, EnrollNew, KnownEnrollment, Linked, IndexExact
  <2>2. byFingerprint'[fp] = rid /\ pending'[rid].state = StateChallengeIssued
    BY <1>1, <2>1, <1>6 DEF EnrollNew, TypeOK
  <2>3. LifeOf(fp)' = "challenge_issued"
    BY <2>2, NoneAssumption DEF LifeOf, StateChallengeIssued, StateRegistered
  <2>4. QED
    BY <1>4, <2>1, <2>3 DEF Moves, IsEdge, Lifecycle!Edges
<1>7. QED
  BY <1>5, <1>6

\* ConfirmEnrollment with a bad signature: challenged to unknown.
LEMMA ForgetMoves ==
    ASSUME TypeOK, Linked, NEW rid \in RequestIDs, NEW key \in Keys,
           ConfirmBadSignature(rid, key)
    PROVE  NothingMoves \/ Moves
<1>0. PICK fp : fp = pending[rid].fingerprint
  OBVIOUS
<1>1. /\ pending[rid] # None /\ pending[rid].state = StateChallengeIssued
      /\ pending[rid] \in PendingEnroll /\ endpoints' = endpoints
  BY DEF ConfirmBadSignature, AwaitsConfirm, TypeOK
<1>2. \A f \in Fingerprints \ {fp} : LifeOf(f)' = LifeOf(f)
  <2> SUFFICES ASSUME NEW f \in Fingerprints \ {fp}
               PROVE  LifeOf(f)' = LifeOf(f)
    OBVIOUS
  <2>1. byFingerprint'[f] = byFingerprint[f]
    BY <1>0, <1>1 DEF ConfirmBadSignature, TypeOK, PendingEnroll
  <2>2. byFingerprint[f] # None => byFingerprint[f] \in RequestIDs \ {rid}
    BY <1>0 DEF Linked, IndexExact, TypeOK
  <2>3. byFingerprint[f] # None => pending'[byFingerprint[f]] = pending[byFingerprint[f]]
    BY <2>2 DEF ConfirmBadSignature, TypeOK
  <2>4. QED
    BY <1>1, <2>1, <2>3, LifeUnmoved
<1>3. CASE fp = NoFingerprint
  BY <1>2, <1>3, FingerprintAssumption DEF NothingMoves
<1>4. CASE fp # NoFingerprint
  <2>1. fp \in Fingerprints /\ LifeOf(fp) = "challenge_issued"
    BY <1>0, <1>1, <1>4, LifeOfRecord DEF StateChallengeIssued, StateRegistered
  <2>2. LifeOf(fp)' = "unknown"
    BY <1>0, <1>4, <2>1 DEF LifeOf, ConfirmBadSignature, TypeOK
  <2>3. QED
    BY <1>2, <2>1, <2>2 DEF Moves, IsEdge, Lifecycle!Edges
<1>5. QED
  BY <1>3, <1>4

\* A record that changes but keeps its fingerprint moves its own device only.
LEMMA RecordMoves ==
    ASSUME TypeOK, Linked, NEW rid \in RequestIDs, pending[rid] # None,
           byFingerprint' = byFingerprint,
           \A o \in RequestIDs \ {rid} : pending'[o] = pending[o],
           \A o \in RequestIDs \ {rid} : IsRegistered(o) =>
              endpoints'[pending[o].token.addr.key].state = endpoints[pending[o].token.addr.key].state
    PROVE  \A f \in Fingerprints \ {pending[rid].fingerprint} : LifeOf(f)' = LifeOf(f)
<1> SUFFICES ASSUME NEW f \in Fingerprints \ {pending[rid].fingerprint}
             PROVE  LifeOf(f)' = LifeOf(f)
  OBVIOUS
<1>1. byFingerprint[f] # None =>
         byFingerprint[f] \in RequestIDs \ {rid} /\ pending[byFingerprint[f]] # None
  BY DEF Linked, IndexExact, TypeOK
<1>2. QED
  BY <1>1, LifeUnmoved DEF IsRegistered

\* ConfirmEnrollment and DenyEnrollment: to pending, or to denied.
LEMMA SettleMoves ==
    ASSUME TypeOK, Linked, NEW rid \in RequestIDs, NEW s \in {StatePending, StateDenied},
           Settles(rid, s)
    PROVE  NothingMoves \/ Moves
<1>0. PICK fp : fp = pending[rid].fingerprint
  OBVIOUS
<1>1. pending[rid] # None /\ byFingerprint' = byFingerprint /\ endpoints' = endpoints
  BY DEF Settles
<1>2. \A f \in Fingerprints \ {fp} : LifeOf(f)' = LifeOf(f)
  BY <1>0, <1>1, SettledRecord, RecordMoves
<1>3. CASE fp = NoFingerprint
  BY <1>2, <1>3, FingerprintAssumption DEF NothingMoves
<1>4. CASE fp # NoFingerprint
  <2>1. fp \in Fingerprints /\ byFingerprint[fp] = rid /\ LifeOf(fp) = pending[rid].state
    BY <1>0, <1>1, <1>4, LifeOfRecord
       DEF Settles, StateChallengeIssued, StatePending, StateRegistered
  <2>2. LifeOf(fp)' = s
    BY <1>1, <2>1, SettledRecord, NoneAssumption DEF LifeOf, StatePending, StateDenied, StateRegistered
  <2>3. IsEdge(LifeOf(fp), LifeOf(fp)')
    BY <2>1, <2>2
       DEF Settles, IsEdge, Lifecycle!Edges, StateChallengeIssued, StatePending, StateDenied
  <2>4. QED
    BY <1>2, <2>1, <2>3 DEF Moves
<1>5. QED
  BY <1>3, <1>4

\* registerApproved: from its challenge or from pending to registered.
LEMMA StoreMoves ==
    ASSUME TypeOK, Linked, NEW rid \in RequestIDs, NEW d \in Domains, NEW g \in Groups,
           NEW id \in EndpointIDs, Approves(rid, d, g), Stores(rid, d, g, id),
           UNCHANGED <<byFingerprint, drawn>>
    PROVE  NothingMoves \/ Moves
<1>0. PICK fp : fp = pending[rid].fingerprint
  OBVIOUS
<1>1. pending[rid] # None
  BY DEF Approves
<1>2. \A o \in RequestIDs \ {rid} : IsRegistered(o) =>
         endpoints'[pending[o].token.addr.key].state = endpoints[pending[o].token.addr.key].state
  <2> SUFFICES ASSUME NEW o \in RequestIDs \ {rid}, IsRegistered(o)
               PROVE  endpoints'[pending[o].token.addr.key] = endpoints[pending[o].token.addr.key]
    OBVIOUS
  <2>1. pending[o].token \in TokenClaims /\ endpoints[pending[o].token.addr.key] # None
    BY DEF TypeOK, PendingEnroll, IsRegistered, Linked, RegistrationMatchesEndpoint
  <2>2. pending[o].token.addr.key \in AddrKeys \ {<<d, g, id>>}
    BY <1>1, <2>1, StoredEndpoint DEF TokenClaims, EndpointAddr
  <2>3. \A l \in AddrKeys \ {<<d, g, id>>} : endpoints'[l] = endpoints[l]
    BY <1>1, StoredEndpoint
  <2>4. QED
    BY <2>2, <2>3
<1>3. \A f \in Fingerprints \ {fp} : LifeOf(f)' = LifeOf(f)
  BY <1>0, <1>1, <1>2, StoredRecord, RecordMoves
<1>4. CASE fp = NoFingerprint
  BY <1>3, <1>4, FingerprintAssumption DEF NothingMoves
<1>5. CASE fp # NoFingerprint
  <2>1. fp \in Fingerprints /\ byFingerprint[fp] = rid /\ LifeOf(fp) = pending[rid].state
    BY <1>0, <1>1, <1>5, LifeOfRecord
       DEF Approves, StateChallengeIssued, StatePending, StateRegistered
  <2>2. LifeOf(fp)' = StateRegistered
    <3>1. /\ pending'[rid].state = StateRegistered
          /\ pending'[rid].token.addr.key = <<d, g, id>>
      BY <1>1, StoredRecord
    <3>2. endpoints'[<<d, g, id>>].state = StateRegistered
      BY <1>1, StoredEndpoint
    <3>3. byFingerprint'[fp] = rid
      BY <2>1
    <3>4. QED
      BY <3>1, <3>2, <3>3, NoneAssumption DEF LifeOf
  <2>3. IsEdge(LifeOf(fp), LifeOf(fp)')
    BY <2>1, <2>2
       DEF Approves, IsEdge, Lifecycle!Edges, StateChallengeIssued, StatePending, StateRegistered
  <2>4. QED
    BY <1>3, <2>1, <2>3 DEF Moves
<1>6. QED
  BY <1>4, <1>5

\* ActivateEndpoint and RevokeEndpoint: the device at the address is activated
\* or revoked; who is revoked already stays so.
LEMMA MarkMoves ==
    ASSUME TypeOK, Linked, NEW k \in AddrKeys, Marks(k), UNCHANGED <<pending, byFingerprint>>
    PROVE  NothingMoves \/ Moves
<1>0. PICK fp : fp = endpoints[k].token.fingerprint
  OBVIOUS
<1>1. endpoints[k] # None /\ endpoints[k] \in RegisteredEndpoint
  BY MarkedEndpoint DEF TypeOK
<1>2. \A f \in Fingerprints \ {fp} : LifeOf(f)' = LifeOf(f)
  <2> SUFFICES ASSUME NEW f \in Fingerprints \ {fp}
               PROVE  LifeOf(f)' = LifeOf(f)
    OBVIOUS
  <2> DEFINE rid == byFingerprint[f]
  <2>1. ASSUME rid # None, pending[rid].state = StateRegistered
        PROVE  endpoints'[pending[rid].token.addr.key] = endpoints[pending[rid].token.addr.key]
    <3>1. rid \in RequestIDs /\ IsRegistered(rid) /\ pending[rid].fingerprint = f
      BY <2>1 DEF TypeOK, Linked, IndexExact, IsRegistered
    <3>2. /\ pending[rid].token \in TokenClaims
          /\ pending[rid].token.fingerprint = f
          /\ endpoints[pending[rid].token.addr.key].token = pending[rid].token
      BY <3>1 DEF TypeOK, PendingEnroll, IsRegistered, Linked, RegistrationMatchesEndpoint
    <3>3. pending[rid].token.addr.key \in AddrKeys \ {k}
      BY <1>0, <3>2 DEF TokenClaims, EndpointAddr
    <3>4. QED
      BY <3>3, MarkedEndpoint
  <2>2. QED
    BY <2>1, LifeUnmoved
<1>3. CASE fp = NoFingerprint
  BY <1>2, <1>3, FingerprintAssumption DEF NothingMoves
<1>4. CASE fp # NoFingerprint
  <2>1. fp \in Fingerprints
    BY <1>0, <1>1, <1>4 DEF RegisteredEndpoint, TokenClaims
  <2>2. /\ byFingerprint[fp] # None
        /\ pending[byFingerprint[fp]].state = StateRegistered
        /\ pending[byFingerprint[fp]].token.addr.key = k
    BY <1>0, <1>1, <1>4 DEF Linked, EndpointHasEnrollment, TokenNamesItsSlot
  <2>3. LifeOf(fp) = endpoints[k].state /\ LifeOf(fp)' = endpoints'[k].state
    BY <2>2 DEF LifeOf
  <2>4. IsEdge(endpoints[k].state, endpoints'[k].state) \/ endpoints'[k].state = endpoints[k].state
    <3>1. CASE HasState(k, StateRegistered) /\ endpoints' = [endpoints EXCEPT ![k].state = StateActive]
      BY <1>1, <3>1
         DEF TypeOK, HasState, RegisteredEndpoint, IsEdge, Lifecycle!Edges, StateRegistered, StateActive
    <3>2. CASE endpoints' = [endpoints EXCEPT ![k].state = StateRevoked]
      BY <1>1, <3>2
         DEF TypeOK, RegisteredEndpoint, IsEdge, Lifecycle!Edges, StateRegistered, StateActive, StateRevoked
    <3>3. QED
      BY <3>1, <3>2 DEF Marks
  <2>5. QED
    BY <1>2, <2>1, <2>3, <2>4 DEF Moves, NothingMoves
<1>5. QED
  BY <1>3, <1>4

\* The registrar implements the lifecycle of types.go: whoever calls what, a step
\* takes one device along one edge, or none anywhere.
THEOREM RegistrarImplementsLifecycle == RSpec => ImplementsLifecycle
<1>1. RInit => Lifecycle!Init
  BY DEF RInit, Lifecycle!Init, LifeOf
<1>2. IdentityInv /\ [RNext]_rvars => [Lifecycle!Next]_[fp \in Fingerprints |-> LifeOf(fp)]
  <2> SUFFICES ASSUME IdentityInv, [RNext]_rvars
               PROVE  Lifecycle!Next \/ [f \in Fingerprints |-> LifeOf(f)]' = [f \in Fingerprints |-> LifeOf(f)]
    OBVIOUS
  <2>1. TypeOK /\ Linked
    BY DEF IdentityInv, Linked
  <2>2. NothingMoves \/ Moves
    <3>1. CASE UNCHANGED <<endpoints, pending, byFingerprint, drawn>>
      BY <3>1, LifeUnmoved DEF NothingMoves
    <3>2. QED
      BY <2>1, <3>1, RecordCases, EnrollMoves, ForgetMoves, SettleMoves, StoreMoves, MarkMoves
  <2>3. CASE NothingMoves
    BY <2>3 DEF NothingMoves
  <2>4. CASE Moves
    BY <2>4, OneDeviceMoves DEF Moves
  <2>5. QED
    BY <2>2, <2>3, <2>4
<1>3. QED
  BY <1>1, <1>2, IdentityCorrect, PTL DEF RSpec, ImplementsLifecycle, Lifecycle!Spec

-----------------------------------------------------------------------------
(* Endpoints and broker: every call of an endpoint is a step of the broker.   *)

LEMMA ProcessType ==
    ASSUME EndpointTypeOK, NEW k \in Keys
    PROVE  /\ proc[k] \in EndpointObject
           /\ Fp(k) \in Fingerprints \union {NoFingerprint}
           /\ Rid(k) \in RequestIDs \union {None}
           /\ proc[k].token \in TokenClaims \union {None}
           /\ proc[k].pc \in Places
  BY DEF EndpointTypeOK, EndpointObject, Fp, Rid

LEMMA EndpointCallsBroker ==
    ASSUME TypeOK, EndpointTypeOK, NEW k \in Keys, KnowsItsRequest(k), EndpointStep(k)
    PROVE  [RNext]_rvars
<1>1. CASE Enroll(k)
  <2>1. Fp(k) \in Fingerprints \union {NoFingerprint} /\ FlagsOf(Fp(k)) \in RoleFlagBytes
    BY ProcessType, FlagsAssumption
  <2>2. QED
    BY <1>1, <2>1 DEF Enroll, RNext, EnrollStep
<1>2. CASE ConfirmDecided(k) \/ ConfirmRefused(k)
  <2>1. Rid(k) \in RequestIDs
    BY <1>2, ProcessType DEF ConfirmDecided, ConfirmRefused, KnowsItsRequest
  <2>2. QED
    BY <1>2, <2>1 DEF ConfirmDecided, ConfirmRefused, RNext, ConfirmStep
<1>3. CASE Activate(k)
  <2>1. ActivateEndpoint(proc[k].token.addr, proc[k].token)
    BY <1>3 DEF Activate
  <2>2. proc[k].token \in IssuedTokens
    BY <2>1 DEF ActivateEndpoint, ValidTokens
  <2>3. proc[k].token.addr \in EndpointAddr
    BY <2>2, IssuedTokensType DEF TokenClaims
  <2>4. QED
    BY <2>1, <2>2, <2>3 DEF RNext, ServiceStep
<1>4. CASE UNCHANGED rvars
  BY <1>4
<1>5. QED
  BY <1>1, <1>2, <1>3, <1>4
     DEF EndpointStep, ConfirmAnswered, ConfirmError, PollAnswered, PollRefused, ActivateRefused, FetchInfo

LEMMA NextCallsBroker ==
    ASSUME TypeOK, EndpointTypeOK, \A k \in Keys : KnowsItsRequest(k), [Next]_vars
    PROVE  [RNext]_rvars
<1>1. CASE \E k \in Keys : EndpointStep(k)
  BY <1>1, EndpointCallsBroker
<1>2. CASE \E k \in Keys, r \in RelayTargets : ReportRelay(k, r)
  <2>1. PICK k \in Keys, r \in RelayTargets : ReportRelay(k, r)
    BY <1>2
  <2>2. SetRelayRoute(proc[k].token.addr.key, proc[k].token, r)
    BY <2>1 DEF ReportRelay
  <2>3. proc[k].token \in IssuedTokens
    BY <2>2 DEF SetRelayRoute, ValidTokens
  <2>4. proc[k].token.addr.key \in AddrKeys
    BY <2>3, IssuedTokensType DEF TokenClaims, EndpointAddr
  <2>5. QED
    BY <2>2, <2>3, <2>4 DEF RNext, ServiceStep
<1>3. CASE Admin \/ Expiry
  BY <1>3 DEF Admin, Expiry, RNext, ServiceStep
<1>4. CASE UNCHANGED rvars
  BY <1>4
<1>5. CASE UNCHANGED vars
  BY <1>5 DEF vars, rvars
<1>6. QED
  BY <1>1, <1>2, <1>3, <1>4, <1>5 DEF Next, Cancel, Crash, Retry, Boot

-----------------------------------------------------------------------------
(* A process while others act.                                                *)

LEMMA ProcessKept ==
    ASSUME TypeOK, Linked, EndpointTypeOK, [RNext]_rvars,
           NEW k \in Keys, ProcessInv(k), proc'[k] = proc[k]
    PROVE  ProcessInv(k)'
<1>1. Rid(k)' = Rid(k) /\ Fp(k)' = Fp(k) /\ Rid(k) \in RequestIDs \union {None}
  BY ProcessType DEF Rid, Fp
<1>2. KnowsItsRequest(k)'
  BY <1>1 DEF ProcessInv, KnowsItsRequest
<1>3. RequestIsOwn(k)'
  <2>1. CASE Rid(k) = None
    BY <1>1, <2>1 DEF RequestIsOwn
  <2>2. CASE Rid(k) # None
    <3>1. Rid(k) \in RequestIDs /\ Rid(k) \in drawn
      BY <1>1, <2>2 DEF ProcessInv, RequestIsOwn
    <3>2. QED
      BY <1>1, <2>2, <3>1, RecordKept DEF ProcessInv, RequestIsOwn
  <2>3. QED
    BY <2>1, <2>2
<1>4. TokenIsRegistered(k)'
  <2>1. CASE proc[k].token = None
    BY <2>1 DEF ProcessInv, TokenIsRegistered
  <2>2. CASE proc[k].token # None
    <3>1. Rid(k) \in RequestIDs /\ IsRegistered(Rid(k))
      BY <1>1, <2>2 DEF ProcessInv, TokenIsRegistered, IsRegistered
    <3>2. pending'[Rid(k)] = pending[Rid(k)]
      BY <3>1, RegisteredStays
    <3>3. QED
      BY <1>1, <2>2, <3>2 DEF ProcessInv, TokenIsRegistered
  <2>3. QED
    BY <2>1, <2>2
<1>5. StatusIsKnown(k)'
  <2>1. CASE proc[k].state \in {StatePending, StateDenied}
    <3>1. Rid(k) \in RequestIDs /\ Rid(k) \in drawn
      BY <1>1, <2>1 DEF ProcessInv, KnowsItsRequest, RequestIsOwn
    <3>2. pending[Rid(k)] # None /\ pending[Rid(k)].state # StateChallengeIssued
      BY <2>1 DEF ProcessInv, StatusIsKnown, StateChallengeIssued, StateDenied
    <3>3. /\ pending'[Rid(k)] # None
          /\ pending'[Rid(k)].state # StateChallengeIssued
          /\ pending[Rid(k)].state = StateDenied => pending'[Rid(k)].state = StateDenied
      BY <3>1, <3>2, RecordKept
    <3>4. QED
      BY <1>1, <2>1, <3>3
         DEF ProcessInv, StatusIsKnown, StatePending, StateDenied, StateActive
  <2>2. CASE proc[k].state = StateActive
    <3> DEFINE slot == proc[k].token.addr.key
    <3>1. /\ proc[k].token # None
          /\ Rid(k) \in RequestIDs
          /\ IsRegistered(Rid(k))
          /\ pending[Rid(k)].token = proc[k].token
      BY <1>1, <2>2 DEF ProcessInv, TokenIsRegistered, IsRegistered
    <3>2. endpoints[slot] # None
      BY <3>1 DEF Linked, RegistrationMatchesEndpoint, IsRegistered
    <3>3. slot \in AddrKeys
      BY <3>1, ProcessType DEF TokenClaims, EndpointAddr
    <3>4. endpoints[slot].state \in {StateActive, StateRevoked}
      BY <2>2 DEF ProcessInv, StatusIsKnown
    <3>5. endpoints'[slot].state \in {StateActive, StateRevoked}
      BY <3>2, <3>3, <3>4, ActiveStays
    <3>6. QED
      BY <2>2, <3>5 DEF StatusIsKnown, StatePending, StateDenied, StateActive
  <2>3. CASE proc[k].state \notin {StatePending, StateDenied, StateActive}
    BY <2>3 DEF StatusIsKnown
  <2>4. QED
    BY <2>1, <2>2, <2>3
<1>6. QED
  BY <1>2, <1>3, <1>4, <1>5 DEF ProcessInv

-----------------------------------------------------------------------------
(* The process that acts.                                                     *)

LEMMA Updated ==
    ASSUME EndpointTypeOK, NEW k \in Keys, NEW new \in EndpointObject, Update(k, new)
    PROVE  /\ EndpointTypeOK'
           /\ proc'[k] = new
           /\ \A l \in Keys \ {k} : proc'[l] = proc[l]
  BY DEF EndpointTypeOK, Update

\* A step that leaves the fields of the process alone and moves it to place p,
\* a place from which nothing is asked and which a token may be held at; from
\* the start only without a token.
LEMMA MovesOn ==
    ASSUME EndpointTypeOK, NEW k \in Keys, ProcessInv(k),
           NEW p \in {"idle", "running", "failed", "dead"},
           p = "idle" => proc[k].state = StateUnregistered,
           Update(k, [proc[k] EXCEPT !.pc = p]), UNCHANGED rvars
    PROVE  EndpointTypeOK' /\ ProcessInv(k)' /\ Fp(k)' = Fp(k)
<1> DEFINE new == [proc[k] EXCEPT !.pc = p]
<1>1. /\ new \in EndpointObject
      /\ new.pc = p
      /\ new.fingerprint = proc[k].fingerprint
      /\ new.requestID = proc[k].requestID
      /\ new.state = proc[k].state
      /\ new.token = proc[k].token
  BY ProcessType DEF EndpointObject, Places
<1> HIDE DEF new
<1>2. EndpointTypeOK' /\ proc'[k] = new
  BY <1>1, Updated DEF new
<1>3. Rid(k)' = Rid(k) /\ Fp(k)' = Fp(k)
  BY <1>1, <1>2 DEF Rid, Fp
<1>4. KnowsItsRequest(k)' /\ RequestIsOwn(k)' /\ StatusIsKnown(k)'
  BY <1>1, <1>2, <1>3 DEF ProcessInv, KnowsItsRequest, RequestIsOwn, StatusIsKnown, rvars
<1>5. TokenIsRegistered(k)'
  <2>1. p = "idle" => proc[k].token = None
    BY DEF ProcessInv, TokenIsRegistered, StateUnregistered, StateRegistered, StateActive
  <2>2. QED
    BY <1>1, <1>2, <1>3, <2>1 DEF ProcessInv, TokenIsRegistered, rvars
<1>6. QED
  BY <1>2, <1>3, <1>4, <1>5 DEF ProcessInv

\* ConfirmEnrollment returned an error.
LEMMA ConfirmFails ==
    ASSUME TypeOK, Linked, EndpointTypeOK, [RNext]_rvars, NEW k \in Keys, ProcessInv(k),
           proc[k].pc = "confirm", Update(k, ConfirmFailed(k))
    PROVE  EndpointTypeOK' /\ ProcessInv(k)' /\ Fp(k)' = Fp(k)
<1> DEFINE new == ConfirmFailed(k)
<1>1. /\ new \in EndpointObject
      /\ new.pc = "failed"
      /\ new.fingerprint = proc[k].fingerprint
      /\ new.requestID = proc[k].requestID
      /\ new.state = StateUnregistered
      /\ new.token = proc[k].token
  BY ProcessType DEF EndpointObject, Places, ConfirmFailed, StateUnregistered
<1> HIDE DEF new
<1>2. EndpointTypeOK' /\ proc'[k] = new
  BY <1>1, Updated DEF new
<1>3. Rid(k)' = Rid(k) /\ Fp(k)' = Fp(k) /\ Rid(k) \in RequestIDs \union {None}
  BY <1>1, <1>2, ProcessType DEF Rid, Fp
<1>4. proc[k].token = None
  BY DEF ProcessInv, TokenIsRegistered
<1>5. RequestIsOwn(k)'
  <2>1. CASE Rid(k) = None
    BY <1>3, <2>1 DEF RequestIsOwn
  <2>2. CASE Rid(k) # None
    BY <1>3, <2>2, RecordKept DEF ProcessInv, RequestIsOwn
  <2>3. QED
    BY <2>1, <2>2
<1>6. KnowsItsRequest(k)' /\ TokenIsRegistered(k)' /\ StatusIsKnown(k)'
  BY <1>1, <1>2, <1>4
     DEF KnowsItsRequest, TokenIsRegistered, StatusIsKnown, StateUnregistered, StatePending,
         StateDenied, StateRegistered, StateActive
<1>7. QED
  BY <1>2, <1>3, <1>5, <1>6 DEF ProcessInv

\* An answer with the status of the record, as it is after the step.
LEMMA StatusArrives ==
    ASSUME TypeOK, Linked, TypeOK', Linked', EndpointTypeOK, [RNext]_rvars,
           NEW k \in Keys, ProcessInv(k), proc[k].pc \in {"confirm", "poll"},
           pending'[Rid(k)] # None, Update(k, ApplyStatus(proc[k], pending'[Rid(k)]))
    PROVE  EndpointTypeOK' /\ ProcessInv(k)' /\ Fp(k)' = Fp(k)
<1>1. /\ Rid(k) \in RequestIDs
      /\ proc[k].token = None
      /\ proc[k].state \notin {StateRegistered, StateActive}
  BY ProcessType DEF ProcessInv, KnowsItsRequest, TokenIsRegistered
<1>2. PICK pe : pe = pending'[Rid(k)]
  OBVIOUS
<1>3. /\ pe \in PendingEnroll /\ pe # None
      /\ pe.state = StateRegistered => pe.token # None
  BY <1>1, <1>2 DEF TypeOK, Linked, RegistrationMatchesEndpoint
<1> DEFINE new == ApplyStatus(proc[k], pe)
<1>4. /\ new \in EndpointObject
      /\ new.fingerprint = proc[k].fingerprint
      /\ new.requestID = proc[k].requestID
      /\ new.state = IF pe.state = StateChallengeIssued THEN proc[k].state ELSE pe.state
      /\ new.token = IF pe.state = StateRegistered THEN pe.token ELSE None
      /\ pe.state = StateRegistered => new.pc = "enrolled"
  <2> DEFINE state == IF pe.state = StateChallengeIssued THEN proc[k].state ELSE pe.state
             token == IF pe.state = StateRegistered THEN pe.token ELSE proc[k].token
             place == IF pe.state = StateRegistered THEN "enrolled"
                      ELSE IF pe.state = StateDenied THEN "failed" ELSE "poll"
  <2>1. /\ state \in {StateUnregistered, StateChallengeIssued, StatePending, StateRegistered,
                      StateActive, StateDenied}
        /\ token \in TokenClaims \union {None}
        /\ place \in Places
    BY <1>3, ProcessType DEF EndpointObject, PendingEnroll, Places
  <2>2. new = [proc[k] EXCEPT !.state = state, !.token = token, !.pc = place]
    BY ProcessType DEF EndpointObject, ApplyStatus
  <2>3. token = IF pe.state = StateRegistered THEN pe.token ELSE None
    BY <1>1
  <2>4. pe.state = StateRegistered => place = "enrolled"
    OBVIOUS
  <2> HIDE DEF state, token, place
  <2>5. new.state = state /\ new.token = token /\ new.pc = place
    BY <2>2, ProcessType DEF EndpointObject
  <2>6. /\ new \in EndpointObject
        /\ new.fingerprint = proc[k].fingerprint
        /\ new.requestID = proc[k].requestID
    BY <2>1, <2>2, ProcessType DEF EndpointObject
  <2>7. new.state = IF pe.state = StateChallengeIssued THEN proc[k].state ELSE pe.state
    BY <2>5 DEF state
  <2>8. QED
    BY <2>3, <2>4, <2>5, <2>6, <2>7
<1> HIDE DEF new
<1>5. EndpointTypeOK' /\ proc'[k] = new
  BY <1>2, <1>4, Updated DEF new
<1>6. Rid(k)' = Rid(k) /\ Fp(k)' = Fp(k) /\ pending'[Rid(k)'] = pe
  BY <1>2, <1>4, <1>5 DEF Rid, Fp
<1>7. KnowsItsRequest(k)'
  BY <1>1, <1>6, NoneAssumption DEF KnowsItsRequest
<1>8. RequestIsOwn(k)'
  <2>1. Rid(k) \in drawn
    BY <1>1, NoneAssumption DEF ProcessInv, RequestIsOwn
  <2>2. QED
    BY <1>1, <1>6, <2>1, NoneAssumption, RecordKept DEF ProcessInv, RequestIsOwn
<1>9. TokenIsRegistered(k)'
  BY <1>1, <1>3, <1>4, <1>5, <1>6, NoneAssumption
     DEF PendingEnroll, TokenIsRegistered, StateChallengeIssued, StatePending, StateDenied,
         StateRegistered, StateActive
<1>10. StatusIsKnown(k)'
  <2>1. CASE pe.state # StateChallengeIssued
    BY <1>3, <1>4, <1>5, <1>6, <2>1
       DEF PendingEnroll, StatusIsKnown, StatePending, StateDenied, StateRegistered, StateActive
  <2>2. CASE pe.state = StateChallengeIssued
    <3>1. proc[k].state \notin {StatePending, StateDenied}
      <4>1. Rid(k) \in drawn
        BY <1>1, NoneAssumption DEF ProcessInv, RequestIsOwn
      <4>2. pending[Rid(k)] # None => pending[Rid(k)].state = StateChallengeIssued
        BY <1>1, <1>2, <2>2, <4>1, RecordKept
      <4>3. QED
        BY <4>2 DEF ProcessInv, StatusIsKnown, StateChallengeIssued, StateDenied
    <3>2. new.state \notin {StatePending, StateDenied, StateActive}
      BY <1>1, <1>4, <2>2, <3>1
    <3>3. QED
      BY <1>5, <3>2 DEF StatusIsKnown
  <2>3. QED
    BY <2>1, <2>2
<1>11. QED
  BY <1>5, <1>6, <1>7, <1>8, <1>9, <1>10 DEF ProcessInv

\* Endpoint.Enroll: a request of its own, or the one of its machine.
LEMMA EnrollAnswered ==
    ASSUME TypeOK, Linked, EndpointTypeOK, NEW k \in Keys, ProcessInv(k), Enroll(k)
    PROVE  EndpointTypeOK' /\ ProcessInv(k)' /\ Fp(k)' = Fp(k)
<1>1. PICK rid \in RequestIDs :
         /\ \/ EnrollNew(k, Fp(k), FlagsOf(Fp(k)), rid)
            \/ KnownEnrollment(Fp(k)) /\ rid = byFingerprint[Fp(k)] /\ UNCHANGED rvars
         /\ Update(k, [proc[k] EXCEPT !.state = StateChallengeIssued,
                                      !.requestID = rid,
                                      !.pc = "confirm"])
  BY DEF Enroll
<1> DEFINE new == [proc[k] EXCEPT !.state = StateChallengeIssued, !.requestID = rid, !.pc = "confirm"]
<1>2. proc[k].token = None
  BY DEF Enroll, ProcessInv, TokenIsRegistered
<1>3. /\ new \in EndpointObject
      /\ new.pc = "confirm"
      /\ new.fingerprint = proc[k].fingerprint
      /\ new.requestID = rid
      /\ new.state = StateChallengeIssued
      /\ new.token = None
  BY <1>2, ProcessType DEF EndpointObject, Places, StateChallengeIssued
<1> HIDE DEF new
<1>4. EndpointTypeOK' /\ proc'[k] = new
  BY <1>1, <1>3, Updated DEF new
<1>5. Rid(k)' = rid /\ Fp(k)' = Fp(k) /\ rid # None
  BY <1>3, <1>4, NoneAssumption DEF Rid, Fp
<1>6. /\ rid \in drawn'
      /\ pending'[rid].fingerprint = Fp(k)
      /\ Fp(k) = NoFingerprint => pending'[rid].publicKey = k
  <2>1. CASE EnrollNew(k, Fp(k), FlagsOf(Fp(k)), rid)
    BY <2>1 DEF EnrollNew, TypeOK
  <2>2. CASE KnownEnrollment(Fp(k)) /\ rid = byFingerprint[Fp(k)] /\ UNCHANGED rvars
    <3>1. Fp(k) \in Fingerprints
      BY <2>2, ProcessType DEF KnownEnrollment
    <3>2. QED
      BY <1>5, <2>2, <3>1 DEF KnownEnrollment, Linked, IndexExact, RecordsAreDrawn, rvars
  <2>3. QED
    BY <1>1, <2>1, <2>2
<1>7. KnowsItsRequest(k)' /\ RequestIsOwn(k)'
  BY <1>5, <1>6 DEF KnowsItsRequest, RequestIsOwn
<1>8. TokenIsRegistered(k)' /\ StatusIsKnown(k)'
  BY <1>3, <1>4
     DEF TokenIsRegistered, StatusIsKnown, StateChallengeIssued, StatePending, StateDenied,
         StateRegistered, StateActive
<1>9. QED
  BY <1>4, <1>5, <1>7, <1>8 DEF ProcessInv

\* ActivateEndpoint succeeded.
LEMMA ActivateAnswered ==
    ASSUME TypeOK, Linked, EndpointTypeOK, NEW k \in Keys, ProcessInv(k), Activate(k)
    PROVE  EndpointTypeOK' /\ ProcessInv(k)' /\ Fp(k)' = Fp(k)
<1> DEFINE new == [proc[k] EXCEPT !.state = StateActive, !.pc = "fetch"]
           slot == proc[k].token.addr.key
<1>1. /\ new \in EndpointObject
      /\ new.pc = "fetch"
      /\ new.fingerprint = proc[k].fingerprint
      /\ new.requestID = proc[k].requestID
      /\ new.state = StateActive
      /\ new.token = proc[k].token
  BY ProcessType DEF EndpointObject, Places, StateActive
<1>2. ActivateEndpoint(proc[k].token.addr, proc[k].token)
  BY DEF Activate
<1>3. proc[k].token \in TokenClaims /\ slot \in AddrKeys /\ endpoints[slot] \in RegisteredEndpoint
  BY <1>2, IssuedTokensType
     DEF ActivateEndpoint, ValidTokens, HasState, TokenClaims, EndpointAddr, TypeOK
<1>4. endpoints'[slot].state = StateActive /\ pending' = pending /\ drawn' = drawn
  BY <1>2, <1>3 DEF ActivateEndpoint, TypeOK, RegisteredEndpoint
<1> HIDE DEF new
<1>5. EndpointTypeOK' /\ proc'[k] = new
  BY <1>1, Updated DEF new, Activate
<1>6. Rid(k)' = Rid(k) /\ Fp(k)' = Fp(k)
  BY <1>1, <1>5 DEF Rid, Fp
<1>7. KnowsItsRequest(k)' /\ RequestIsOwn(k)'
  BY <1>1, <1>4, <1>5, <1>6
     DEF ProcessInv, KnowsItsRequest, RequestIsOwn, StatePending, StateDenied, StateActive
<1>8. TokenIsRegistered(k)'
  BY <1>1, <1>3, <1>4, <1>5, <1>6, NoneAssumption DEF ProcessInv, TokenIsRegistered
<1>9. StatusIsKnown(k)'
  BY <1>1, <1>4, <1>5 DEF StatusIsKnown, StatePending, StateDenied, StateActive
<1>10. QED
  BY <1>5, <1>6, <1>7, <1>8, <1>9 DEF ProcessInv

\* Whatever the process that acts does, it keeps to its own.
LEMMA EndpointActs ==
    ASSUME TypeOK, Linked, TypeOK', Linked', EndpointTypeOK, [RNext]_rvars,
           NEW k \in Keys, ProcessInv(k), EndpointStep(k) \/ Cancel(k) \/ Crash(k) \/ Retry(k)
    PROVE  EndpointTypeOK' /\ ProcessInv(k)' /\ Fp(k)' = Fp(k)
<1>1. CASE Enroll(k)
  BY <1>1, EnrollAnswered
<1>2. CASE ConfirmDecided(k)
  <2>1. Rid(k) \in RequestIDs
    BY <1>2, ProcessType DEF ConfirmDecided, ProcessInv, KnowsItsRequest
  <2>2. pending'[Rid(k)] # None
    <3>1. CASE ConfirmRelay(Rid(k), k) \/ ConfirmPreApproved(Rid(k), k)
      <4>1. PICK d \in Domains, g \in Groups :
               Approves(Rid(k), d, g) /\ RegisterApproved(Rid(k), d, g)
        BY <2>1, <3>1, ConfirmApproves
      <4>2. PICK id \in EndpointIDs : Stores(Rid(k), d, g, id)
        BY <2>1, <4>1, RegisterStores
      <4>3. QED
        BY <2>1, <4>1, <4>2, StoredRecord DEF Approves
    <3>2. CASE ConfirmPending(Rid(k), k)
      <4>1. Settles(Rid(k), StatePending)
        BY <3>2 DEF ConfirmPending, AwaitsConfirm, Settles
      <4>2. QED
        BY <2>1, <4>1, SettledRecord
    <3>3. QED
      BY <1>2, <3>1, <3>2 DEF ConfirmDecided
  <2>3. QED
    BY <1>2, <2>2, StatusArrives DEF ConfirmDecided
<1>3. CASE ConfirmAnswered(k) \/ PollAnswered(k)
  <2>1. pending' = pending /\ Rid(k) = Rid(k)
    BY <1>3 DEF ConfirmAnswered, PollAnswered, rvars
  <2>2. QED
    BY <1>3, <2>1, StatusArrives DEF ConfirmAnswered, PollAnswered
<1>4. CASE ConfirmRefused(k) \/ ConfirmError(k)
  BY <1>4, ConfirmFails DEF ConfirmRefused, ConfirmError
<1>5. CASE PollRefused(k) \/ ActivateRefused(k) \/ Cancel(k)
  BY <1>5, MovesOn DEF PollRefused, ActivateRefused, Cancel
<1>6. CASE Crash(k)
  BY <1>6, MovesOn DEF Crash
<1>7. CASE Retry(k)
  BY <1>7, MovesOn DEF Retry
<1>8. CASE FetchInfo(k)
  <2> DEFINE p == IF HasState(proc[k].token.addr.key, StateActive) THEN "running" ELSE "failed"
  <2>1. p \in {"idle", "running", "failed", "dead"} /\ p # "idle"
    OBVIOUS
  <2>2. Update(k, [proc[k] EXCEPT !.pc = p]) /\ UNCHANGED rvars
    BY <1>8 DEF FetchInfo
  <2> HIDE DEF p
  <2>3. QED
    BY <2>1, <2>2, MovesOn
<1>9. CASE Activate(k)
  BY <1>9, ActivateAnswered
<1>10. QED
  BY <1>1, <1>2, <1>3, <1>4, <1>5, <1>6, <1>7, <1>8, <1>9 DEF EndpointStep

\* NewEndpoint: a process that knows nothing yet.
LEMMA BootKnowsNothing ==
    ASSUME EndpointTypeOK, NEW k \in Keys, NEW fp \in Fingerprints \union {NoFingerprint},
           Boot(k, fp)
    PROVE  /\ EndpointTypeOK'
           /\ ProcessInv(k)'
           /\ Fp(k)' = fp
<1> DEFINE new == [Off EXCEPT !.fingerprint = fp, !.pc = "idle"]
<1>1. /\ new \in EndpointObject
      /\ new.pc = "idle"
      /\ new.fingerprint = fp
      /\ new.requestID = None
      /\ new.state = StateUnregistered
      /\ new.token = None
  BY DEF EndpointObject, Places, Off, StateUnregistered
<1> HIDE DEF new
<1>2. EndpointTypeOK' /\ proc'[k] = new
  BY <1>1, Updated DEF new, Boot
<1>3. QED
  BY <1>1, <1>2
     DEF ProcessInv, KnowsItsRequest, RequestIsOwn, TokenIsRegistered, StatusIsKnown, Rid, Fp,
         StateUnregistered, StatePending, StateDenied, StateRegistered, StateActive

-----------------------------------------------------------------------------
(* The theorems.                                                              *)

LEMMA NextProcesses ==
    ASSUME IdentityInv, IdentityInv', EndpointTypeOK, \A k \in Keys : ProcessInv(k),
           [Next]_vars
    PROVE  EndpointTypeOK' /\ (\A k \in Keys : ProcessInv(k)')
<1>1. TypeOK /\ Linked /\ TypeOK' /\ Linked'
  BY DEF IdentityInv, Linked
<1>2. [RNext]_rvars
  BY <1>1, NextCallsBroker DEF ProcessInv
<1>3. ASSUME NEW k \in Keys, proc'[k] = proc[k]
      PROVE  ProcessInv(k)'
  BY <1>1, <1>2, <1>3, ProcessKept
<1>4. CASE UNCHANGED proc
  BY <1>3, <1>4 DEF EndpointTypeOK
<1>5. ASSUME NEW k \in Keys, EndpointStep(k) \/ Cancel(k) \/ Crash(k) \/ Retry(k)
      PROVE  EndpointTypeOK' /\ (\A l \in Keys : ProcessInv(l)')
  <2>1. EndpointTypeOK' /\ ProcessInv(k)'
    BY <1>1, <1>2, <1>5, EndpointActs
  <2>2. \A l \in Keys \ {k} : proc'[l] = proc[l]
    <3>1. PICK new : Update(k, new)
      BY <1>5 DEF EndpointStep, Enroll, ConfirmDecided, ConfirmAnswered, ConfirmRefused, ConfirmError,
                  PollAnswered, PollRefused, Activate, ActivateRefused, FetchInfo, Cancel, Crash, Retry
    <3>2. QED
      BY <3>1 DEF Update, EndpointTypeOK
  <2>3. QED
    BY <1>3, <2>1, <2>2
<1>6. ASSUME NEW k \in Keys, NEW fp \in Fingerprints \union {NoFingerprint}, Boot(k, fp)
      PROVE  EndpointTypeOK' /\ (\A l \in Keys : ProcessInv(l)')
  <2>1. EndpointTypeOK' /\ ProcessInv(k)'
    BY <1>6, BootKnowsNothing
  <2>2. \A l \in Keys \ {k} : proc'[l] = proc[l]
    BY <1>6 DEF Boot, Update, EndpointTypeOK
  <2>3. QED
    BY <1>3, <2>1, <2>2
<1>7. QED
  BY <1>4, <1>5, <1>6 DEF Next, ReportRelay, Admin, Expiry, evars, vars

LEMMA InitEnrollment == Init => EnrollmentInv
<1> SUFFICES ASSUME Init
             PROVE  EnrollmentInv
  OBVIOUS
<1>1. IdentityInv
  BY InitIdentity DEF Init
<1>2. \A k \in Keys : proc[k] = Off
  BY DEF Init
<1>3. EndpointTypeOK
  BY DEF Init, Off, EndpointTypeOK, EndpointObject, Places, StateUnregistered
<1>4. \A k \in Keys : ProcessInv(k)
  BY <1>2 DEF Off, ProcessInv, KnowsItsRequest, RequestIsOwn, TokenIsRegistered, StatusIsKnown, Rid, Fp,
              StateUnregistered, StatePending, StateDenied, StateRegistered, StateActive
<1>5. QED
  BY <1>1, <1>3, <1>4 DEF EnrollmentInv

LEMMA NextEnrollment ==
    ASSUME EnrollmentInv, [Next]_vars
    PROVE  [RNext]_rvars /\ EnrollmentInv'
<1>1. [RNext]_rvars
  BY NextCallsBroker DEF EnrollmentInv, IdentityInv, ProcessInv
<1>2. IdentityInv'
  BY <1>1, NextIdentity DEF EnrollmentInv
<1>3. QED
  BY <1>1, <1>2, NextProcesses DEF EnrollmentInv

\* Processes and broker agree in every reachable state, wherever a process
\* crashes, whatever the administrator does between two of its calls, and
\* whichever process of the machine was there before.
THEOREM EnrollmentCorrect == Spec => []EnrollmentInv
  BY InitEnrollment, NextEnrollment, PTL DEF Spec

\* Seen from the broker, endpoints that enrol, crash, come back and activate are
\* callers like any others: what is proved of the registrar holds here too.
THEOREM EndpointsCallBroker == Spec => RSpec
<1>1. Init => RInit
  BY DEF Init
<1>2. EnrollmentInv /\ [Next]_vars => [RNext]_rvars
  BY NextEnrollment
<1>3. QED
  BY <1>1, <1>2, EnrollmentCorrect, PTL DEF Spec, RSpec

\* The record and the endpoint behind the token of a process.
LEMMA TokenHolder ==
    ASSUME EnrollmentInv, NEW k \in Keys, proc[k].token # None
    PROVE  /\ Rid(k) \in RequestIDs
           /\ IsRegistered(Rid(k))
           /\ pending[Rid(k)].token = proc[k].token
           /\ pending[Rid(k)].fingerprint = Fp(k)
           /\ proc[k].token.fingerprint = Fp(k)
           /\ endpoints[proc[k].token.addr.key] # None
           /\ endpoints[proc[k].token.addr.key].token = proc[k].token
<1>1. Rid(k) \in RequestIDs /\ IsRegistered(Rid(k)) /\ pending[Rid(k)].token = proc[k].token
  BY ProcessType DEF EnrollmentInv, ProcessInv, TokenIsRegistered, IsRegistered
<1>2. pending[Rid(k)].fingerprint = Fp(k)
  BY <1>1, NoneAssumption DEF EnrollmentInv, ProcessInv, RequestIsOwn, IsRegistered
<1>3. QED
  BY <1>1, <1>2 DEF EnrollmentInv, IdentityInv, RegistrationMatchesEndpoint, IsRegistered

\* What a process believes is never ahead of the broker's records (applyStatus,
\* Activate), through crashes, denials and revocations.
THEOREM BrokerAhead == Spec => []BrokerIsAhead
<1>1. ASSUME EnrollmentInv, NEW k \in Keys
      PROVE  LET pe   == pending[Rid(k)]
                 slot == proc[k].token.addr.key
             IN  /\ proc[k].state = StatePending =>
                       pe # None /\ pe.state \in {StatePending, StateRegistered, StateDenied}
                 /\ proc[k].state = StateDenied => pe # None /\ pe.state = StateDenied
                 /\ proc[k].state = StateRegistered =>
                       endpoints[slot] # None /\ endpoints[slot].token = proc[k].token
                 /\ proc[k].state = StateActive =>
                       /\ endpoints[slot] # None
                       /\ endpoints[slot].token = proc[k].token
                       /\ endpoints[slot].state \in {StateActive, StateRevoked}
  <2>1. CASE proc[k].state \in {StateRegistered, StateActive}
    <3>1. proc[k].token # None
      BY <1>1, <2>1 DEF EnrollmentInv, ProcessInv, TokenIsRegistered
    <3>2. QED
      BY <1>1, <2>1, <3>1, TokenHolder
         DEF EnrollmentInv, ProcessInv, StatusIsKnown, StatePending, StateDenied, StateRegistered,
             StateActive
  <2>2. CASE proc[k].state \in {StatePending, StateDenied}
    <3>1. Rid(k) \in RequestIDs
      BY <1>1, <2>2, ProcessType DEF EnrollmentInv, ProcessInv, KnowsItsRequest
    <3>2. pending[Rid(k)] \in PendingEnroll \union {None}
      BY <1>1, <3>1 DEF EnrollmentInv, IdentityInv, TypeOK
    <3>3. QED
      BY <1>1, <2>2, <3>2
         DEF EnrollmentInv, ProcessInv, StatusIsKnown, PendingEnroll, StateChallengeIssued,
             StatePending, StateDenied, StateRegistered, StateActive
  <2>3. QED
    BY <2>1, <2>2
<1>2. EnrollmentInv => BrokerIsAhead
  BY <1>1 DEF BrokerIsAhead
<1>3. QED
  BY <1>2, EnrollmentCorrect, PTL

\* A machine is only ever given its own identity (Enroll, registerApproved).
THEOREM OwnIdentity == Spec => []IdentityIsOwn
<1>1. ASSUME EnrollmentInv, NEW k \in Keys
      PROVE  /\ (Rid(k) # None /\ pending[Rid(k)] # None) => pending[Rid(k)].fingerprint = Fp(k)
             /\ proc[k].token # None => proc[k].token.fingerprint = Fp(k)
  BY <1>1, TokenHolder DEF EnrollmentInv, ProcessInv, RequestIsOwn
<1>2. EnrollmentInv => IdentityIsOwn
  BY <1>1 DEF IdentityIsOwn
<1>3. QED
  BY <1>2, EnrollmentCorrect, PTL

\* An address is of one machine (Enroll's answer to a known fingerprint,
\* registerApproved): processes that hold it, however many run, are of one
\* machine and hold one token, and a relay shares its address with nobody.
THEOREM OneMachinePerAddress == Spec => []AddressIsOfOneMachine
<1>1. ASSUME EnrollmentInv, NEW k \in Keys, NEW l \in Keys, k # l,
             proc[k].token # None, proc[l].token # None,
             proc[k].token.addr.key = proc[l].token.addr.key
      PROVE  Fp(k) = Fp(l) /\ Fp(k) # NoFingerprint /\ proc[k].token = proc[l].token
  <2>1. Rid(k) = Rid(l)
    BY <1>1, TokenHolder DEF EnrollmentInv, IdentityInv, RegistrationMatchesEndpoint, IsRegistered
  <2>2. Fp(k) = Fp(l) /\ proc[k].token = proc[l].token
    BY <1>1, <2>1, TokenHolder
  <2>3. ASSUME Fp(k) = NoFingerprint
        PROVE  FALSE
    <3>1. /\ Rid(k) # None /\ pending[Rid(k)] # None
          /\ pending[Rid(k)].publicKey = k /\ pending[Rid(l)].publicKey = l
      BY <1>1, <2>1, <2>2, <2>3, TokenHolder, NoneAssumption
         DEF EnrollmentInv, ProcessInv, RequestIsOwn, IsRegistered
    <3>2. QED
      BY <1>1, <2>1, <3>1
  <2>4. QED
    BY <2>2, <2>3
<1>2. EnrollmentInv => AddressIsOfOneMachine
  BY <1>1 DEF AddressIsOfOneMachine
<1>3. QED
  BY <1>2, EnrollmentCorrect, PTL

=============================================================================
