--------------------------- MODULE IdentityProofs ---------------------------
(***************************************************************************)
(* The registrar keeps its types and never confuses two devices: proofs of *)
(* the invariants that relate the enrolment records, the fingerprint index *)
(* and the endpoints, for every value of the constants.                    *)
(***************************************************************************)
EXTENDS Registrar, TLAPS

-----------------------------------------------------------------------------
(* Lemmas about the operators. *)

\* allocateID returns a legal ID, and one that was not taken.
LEMMA AllocatedIsFree ==
    ASSUME NEW d \in Domains, NEW g \in Groups, NEW id \in EndpointIDs,
           AllocatesID(d, g, id)
    PROVE  endpoints[<<d, g, id>>] = None
  BY DEF AllocatesID, Taken

\* The hint allocateID leaves behind is itself a legal ID.
LEMMA HintAfterType ==
    ASSUME NEW id \in EndpointIDs
    PROVE  HintAfter(id) \in EndpointIDs
  BY AddressSpaceAssumption DEF HintAfter, EndpointIDs

\* A token in circulation is a well-formed set of claims.
LEMMA IssuedTokensType ==
    ASSUME TypeOK
    PROVE  IssuedTokens \subseteq TokenClaims
  BY DEF TypeOK, IssuedTokens, RegisteredEndpoint

-----------------------------------------------------------------------------
(* registerApproved, the step that ConfirmRelay, ConfirmPreApproved and       *)
(* ApproveEnrollment share.                                                   *)

LEMMA RegisterApprovedType ==
    ASSUME TypeOK, NEW rid \in RequestIDs, NEW d \in Domains, NEW g \in Groups,
           pending[rid] # None, RegisterApproved(rid, d, g)
    PROVE  TypeOK'
<1>1. pending[rid] \in PendingEnroll
  BY DEF TypeOK
<1>2. CASE ReuseEndpoint(rid)
  <2>1. PICK k \in FindByFingerprint(pending[rid].fingerprint) :
          pending' = [pending EXCEPT ![rid] = Registered(@, endpoints[k].token)]
    BY <1>2 DEF ReuseEndpoint
  <2>2. endpoints[k].token \in TokenClaims
    BY <2>1 DEF TypeOK, FindByFingerprint, RegisteredEndpoint
  <2>3. pending' \in [RequestIDs -> PendingEnroll \union {None}]
    BY <1>1, <2>1, <2>2 DEF TypeOK, PendingEnroll, Registered, StateRegistered
  <2>4. QED
    BY <1>2, <2>3 DEF TypeOK, RegisterApproved, ReuseEndpoint
<1>3. CASE StoreEndpoint(rid, d, g)
  <2>1. PICK id \in EndpointIDs :
          /\ AllocatesID(d, g, id)
          /\ nextID' = [nextID EXCEPT ![<<d, g>>] = HintAfter(id)]
          /\ endpoints' = [endpoints EXCEPT ![<<d, g, id>>] =
                              [token |-> NewToken(pending[rid], d, g, id), state |-> StateRegistered]]
          /\ pending' = [pending EXCEPT ![rid] =
                            Registered(@, NewToken(pending[rid], d, g, id))]
    BY <1>3 DEF StoreEndpoint
  <2>2. NewToken(pending[rid], d, g, id) \in TokenClaims
    BY <1>1 DEF NewToken, TokenClaims, PendingEnroll, EndpointAddr, AddrKeys
  <2>3. pending' \in [RequestIDs -> PendingEnroll \union {None}]
    BY <1>1, <2>1, <2>2 DEF TypeOK, PendingEnroll, Registered, StateRegistered
  <2>4. endpoints' \in [AddrKeys -> RegisteredEndpoint \union {None}]
    BY <2>1, <2>2 DEF TypeOK, RegisteredEndpoint, StateRegistered
  <2>5. nextID' \in [Domains \X Groups -> 0..MaxEndpoints]
    BY <2>1, HintAfterType, AddressSpaceAssumption DEF TypeOK, EndpointIDs
  <2>6. QED
    BY <1>3, <2>3, <2>4, <2>5 DEF TypeOK, RegisterApproved
<1>4. QED
  BY <1>2, <1>3 DEF RegisterApproved

-----------------------------------------------------------------------------
(* Type correctness. *)

LEMMA EnrollType ==
    ASSUME TypeOK, EnrollStep
    PROVE  TypeOK'
<1>1. PICK key \in Keys, fp \in Fingerprints \union {NoFingerprint},
           flags \in RoleFlagBytes, rid \in RequestIDs : EnrollNew(key, fp, flags, rid)
  BY DEF EnrollStep
<1> DEFINE pe == [publicKey |-> key, fingerprint |-> fp, roleFlags |-> flags,
                  state |-> StateChallengeIssued, token |-> None]
<1>2. pe \in PendingEnroll
  BY DEF PendingEnroll, StateChallengeIssued
<1>3. pending' = [pending EXCEPT ![rid] = pe]
  BY <1>1 DEF EnrollNew
<1>4. pending' \in [RequestIDs -> PendingEnroll \union {None}]
  BY <1>2, <1>3 DEF TypeOK
<1>5. byFingerprint' \in [Fingerprints -> RequestIDs \union {None}]
  BY <1>1 DEF TypeOK, EnrollNew
<1>6. QED
  BY <1>1, <1>4, <1>5 DEF TypeOK, EnrollNew

LEMMA ConfirmType ==
    ASSUME TypeOK, ConfirmStep
    PROVE  TypeOK'
<1>1. PICK rid \in RequestIDs, key \in Keys :
          \/ ConfirmBadSignature(rid, key)
          \/ ConfirmRelay(rid, key)
          \/ ConfirmPreApproved(rid, key)
          \/ ConfirmPending(rid, key)
  BY DEF ConfirmStep
<1>2. CASE ConfirmBadSignature(rid, key)
  <2>1. pending' \in [RequestIDs -> PendingEnroll \union {None}]
    BY <1>2 DEF TypeOK, ConfirmBadSignature
  <2>2. byFingerprint' \in [Fingerprints -> RequestIDs \union {None}]
    BY <1>2 DEF TypeOK, ConfirmBadSignature
  <2>3. QED
    BY <1>2, <2>1, <2>2 DEF TypeOK, ConfirmBadSignature
<1>3. CASE ConfirmRelay(rid, key)
  BY <1>3, RegisterApprovedType, AddressSpaceAssumption DEF ConfirmRelay, AwaitsConfirm
<1>4. CASE ConfirmPreApproved(rid, key)
  <2>1. PreApprovedFor(rid) \in (Domains \ {RelayDomain}) \X Groups
    BY <1>4 DEF TypeOK, ConfirmPreApproved, PreApprovedFor, AwaitsConfirm, PendingEnroll
  <2>2. QED
    BY <1>4, <2>1, RegisterApprovedType DEF ConfirmPreApproved, AwaitsConfirm
<1>5. CASE ConfirmPending(rid, key)
  <2>1. pending' \in [RequestIDs -> PendingEnroll \union {None}]
    BY <1>5 DEF TypeOK, ConfirmPending, AwaitsConfirm, PendingEnroll, StatePending
  <2>2. QED
    BY <1>5, <2>1 DEF TypeOK, ConfirmPending
<1>6. QED
  BY <1>1, <1>2, <1>3, <1>4, <1>5

LEMMA AdminType ==
    ASSUME TypeOK, AdminStep
    PROVE  TypeOK'
<1>1. CASE \E fp \in Fingerprints, d \in Domains, g \in Groups : PreApprove(fp, d, g)
  BY <1>1 DEF TypeOK, PreApprove
<1>2. CASE \E rid \in RequestIDs, d \in Domains, g \in Groups : ApproveEnrollment(rid, d, g)
  BY <1>2, RegisterApprovedType DEF ApproveEnrollment
<1>3. CASE \E rid \in RequestIDs : DenyEnrollment(rid)
  <2>1. PICK rid \in RequestIDs : DenyEnrollment(rid)
    BY <1>3
  <2>2. pending' \in [RequestIDs -> PendingEnroll \union {None}]
    BY <2>1 DEF TypeOK, DenyEnrollment, PendingEnroll, StateDenied
  <2>3. QED
    BY <2>1, <2>2 DEF TypeOK, DenyEnrollment
<1>4. CASE \E k \in AddrKeys : RevokeEndpoint(k)
  <2>1. PICK k \in AddrKeys : RevokeEndpoint(k)
    BY <1>4
  <2>2. endpoints' \in [AddrKeys -> RegisteredEndpoint \union {None}]
    BY <2>1 DEF TypeOK, RevokeEndpoint, RegisteredEndpoint, StateRevoked
  <2>3. QED
    BY <2>1, <2>2 DEF TypeOK, RevokeEndpoint
<1>5. QED
  BY <1>1, <1>2, <1>3, <1>4 DEF AdminStep

LEMMA ServiceType ==
    ASSUME TypeOK, ServiceStep
    PROVE  TypeOK'
<1>1. CASE \E addr \in EndpointAddr, token \in IssuedTokens : ActivateEndpoint(addr, token)
  <2>1. PICK addr \in EndpointAddr, token \in IssuedTokens : ActivateEndpoint(addr, token)
    BY <1>1
  <2>2. addr.key \in AddrKeys
    BY DEF EndpointAddr
  <2>3. endpoints' \in [AddrKeys -> RegisteredEndpoint \union {None}]
    BY <2>1, <2>2 DEF TypeOK, ActivateEndpoint, HasState, RegisteredEndpoint, StateActive
  <2>4. QED
    BY <2>1, <2>3 DEF TypeOK, ActivateEndpoint
<1>2. CASE \E k \in AddrKeys, observed \in ObservedAddrs : ObserveEndpoint(k, observed)
  <2>1. PICK k \in AddrKeys, observed \in ObservedAddrs : ObserveEndpoint(k, observed)
    BY <1>2
  <2>2. GetOrCreateReachability(k) \in ReachabilityInfo
    BY DEF TypeOK, GetOrCreateReachability, ReachabilityInfo
  <2>3. [GetOrCreateReachability(k) EXCEPT !.direct = observed] \in ReachabilityInfo
    BY <2>2 DEF ReachabilityInfo
  <2>4. reachability' \in [AddrKeys -> ReachabilityInfo \union {None}]
    BY <2>1, <2>3 DEF TypeOK, ObserveEndpoint
  <2>5. QED
    BY <2>1, <2>4 DEF TypeOK, ObserveEndpoint
<1>3. CASE \E k \in AddrKeys, token \in IssuedTokens, r \in RelayTargets : SetRelayRoute(k, token, r)
  <2>1. PICK k \in AddrKeys, token \in IssuedTokens, r \in RelayTargets : SetRelayRoute(k, token, r)
    BY <1>3
  <2>2. GetOrCreateReachability(k) \in ReachabilityInfo
    BY DEF TypeOK, GetOrCreateReachability, ReachabilityInfo
  <2>3. [GetOrCreateReachability(k) EXCEPT !.relay = r] \in ReachabilityInfo
    BY <2>2 DEF ReachabilityInfo
  <2>4. reachability' \in [AddrKeys -> ReachabilityInfo \union {None}]
    BY <2>1, <2>3 DEF TypeOK, SetRelayRoute
  <2>5. QED
    BY <2>1, <2>4 DEF TypeOK, SetRelayRoute
<1>4. CASE \E k \in AddrKeys : ClearReachability(k)
  BY <1>4 DEF TypeOK, ClearReachability
<1>5. CASE \E token \in IssuedTokens : TokenExpires(token)
  BY <1>5, IssuedTokensType DEF TypeOK, TokenExpires
<1>6. QED
  BY <1>1, <1>2, <1>3, <1>4, <1>5 DEF ServiceStep

LEMMA StutterType ==
    ASSUME TypeOK, UNCHANGED rvars
    PROVE  TypeOK'
  BY DEF TypeOK, rvars

LEMMA NextType ==
    ASSUME TypeOK, [RNext]_rvars
    PROVE  TypeOK'
  BY EnrollType, ConfirmType, AdminType, ServiceType, StutterType DEF RNext

\* The maps of the registrar keep the types the Go declarations give them.
THEOREM TypeCorrect == RSpec => []TypeOK
<1>1. RInit => TypeOK
  BY AddressSpaceAssumption DEF RInit, TypeOK
<1>2. TypeOK /\ [RNext]_rvars => TypeOK'
  BY NextType
<1>3. QED
  BY <1>1, <1>2, PTL DEF RSpec

-----------------------------------------------------------------------------
(* The invariant, and the steps that the actions are made of. *)

\* The part of IdentityInv that is not typing.
Linked == /\ IndexExact
          /\ RecordsAreDrawn
          /\ TokenNamesItsSlot
          /\ EndpointHasEnrollment
          /\ RegistrationMatchesEndpoint

IsRegistered(rid) == pending[rid] # None /\ pending[rid].state = StateRegistered

\* A record that is not registered yet belongs to a device with no endpoint:
\* registerApproved never takes its branch that reuses one.
LEMMA NothingToReuse ==
    ASSUME TypeOK, Linked, NEW rid \in RequestIDs,
           pending[rid] # None, pending[rid].state # StateRegistered
    PROVE  \A k \in AddrKeys :
              (endpoints[k] # None /\ endpoints[k].token.fingerprint = pending[rid].fingerprint)
                 => pending[rid].fingerprint = NoFingerprint
<1> SUFFICES ASSUME NEW k \in AddrKeys, endpoints[k] # None,
                    endpoints[k].token.fingerprint = pending[rid].fingerprint,
                    pending[rid].fingerprint # NoFingerprint
             PROVE  FALSE
  OBVIOUS
<1>1. byFingerprint[pending[rid].fingerprint] = rid
  BY DEF Linked, IndexExact
<1>2. pending[rid].state = StateRegistered
  BY <1>1 DEF Linked, EndpointHasEnrollment
<1>3. QED
  BY <1>2

\* Enroll: a fresh record for a device without one.
LEMMA EnrollLinked ==
    ASSUME TypeOK, Linked, EnrollStep
    PROVE  Linked'
<1>1. PICK key \in Keys, fp \in Fingerprints \union {NoFingerprint},
           flags \in RoleFlagBytes, rid \in RequestIDs : EnrollNew(key, fp, flags, rid)
  BY DEF EnrollStep
<1> DEFINE pe == [publicKey |-> key, fingerprint |-> fp, roleFlags |-> flags,
                  state |-> StateChallengeIssued, token |-> None]
<1>2. /\ pe # None
      /\ pe.fingerprint = fp
      /\ pe.state # StateRegistered
  BY NoneAssumption DEF PendingEnroll, StateChallengeIssued, StateRegistered
<1>3. /\ pending[rid] = None
      /\ pending'[rid] = pe
      /\ \A o \in RequestIDs \ {rid} : pending'[o] = pending[o]
  BY <1>1 DEF TypeOK, Linked, RecordsAreDrawn, EnrollNew
<1>4. /\ fp # NoFingerprint => byFingerprint'[fp] = rid
      /\ \A f \in Fingerprints \ {fp} : byFingerprint'[f] = byFingerprint[f]
      /\ fp # NoFingerprint => byFingerprint[fp] = None
  BY <1>1 DEF TypeOK, Linked, IndexExact, EnrollNew, KnownEnrollment
<1>5. \A f \in Fingerprints : byFingerprint[f] # rid
  BY <1>3 , NoneAssumption DEF Linked, IndexExact
<1>6. endpoints' = endpoints
  BY <1>1 DEF EnrollNew
<1> HIDE DEF pe
<1>7. IndexExact'
  <2>1. ASSUME NEW o \in RequestIDs, pending'[o] # None, pending'[o].fingerprint # NoFingerprint
        PROVE  byFingerprint'[pending'[o].fingerprint] = o
    <3>1. CASE o = rid
      BY <1>2, <1>3, <1>4, <2>1, <3>1
    <3>2. CASE o # rid
      <4>1. pending'[o] = pending[o] /\ pending[o] \in PendingEnroll
        BY <1>3, <2>1, <3>2 DEF TypeOK
      <4>2. byFingerprint[pending[o].fingerprint] = o /\ pending[o].fingerprint \in Fingerprints
        BY <2>1, <4>1 DEF Linked, IndexExact, PendingEnroll
      <4>3. pending[o].fingerprint # fp
        BY <1>4, <2>1, <4>1, <4>2, NoneAssumption
      <4>4. QED
        BY <1>4, <4>1, <4>2, <4>3
    <3>3. QED
      BY <3>1, <3>2
  <2>2. ASSUME NEW f \in Fingerprints, byFingerprint'[f] # None
        PROVE  /\ pending'[byFingerprint'[f]] # None
               /\ pending'[byFingerprint'[f]].fingerprint = f
    <3>1. CASE f = fp
      BY <1>2, <1>3, <1>4, <3>1, FingerprintAssumption
    <3>2. CASE f # fp
      BY <1>3, <1>4, <1>5, <2>2, <3>2 DEF TypeOK, Linked, IndexExact
    <3>3. QED
      BY <3>1, <3>2
  <2>3. QED
    BY <2>1, <2>2 DEF IndexExact
<1>8. RecordsAreDrawn'
  BY <1>1, <1>3 DEF Linked, RecordsAreDrawn, EnrollNew
<1>9. TokenNamesItsSlot'
  BY <1>6 DEF Linked, TokenNamesItsSlot
<1>10. EndpointHasEnrollment'
  <2> SUFFICES ASSUME NEW k \in AddrKeys, endpoints[k] # None,
                      endpoints[k].token.fingerprint # NoFingerprint
               PROVE  LET f == endpoints[k].token.fingerprint IN
                      /\ byFingerprint'[f] # None
                      /\ pending'[byFingerprint'[f]] # None
                      /\ pending'[byFingerprint'[f]].state = StateRegistered
                      /\ pending'[byFingerprint'[f]].token = endpoints[k].token
    BY <1>6 DEF EndpointHasEnrollment
  <2> DEFINE f == endpoints[k].token.fingerprint
  <2>1. f \in Fingerprints
    BY DEF TypeOK, RegisteredEndpoint, TokenClaims
  <2>2. /\ byFingerprint[f] # None
        /\ pending[byFingerprint[f]].state = StateRegistered
        /\ pending[byFingerprint[f]].token = endpoints[k].token
        /\ pending[byFingerprint[f]] # None
    BY DEF Linked, EndpointHasEnrollment
  <2>3. f # fp
    BY <1>4, <2>1, <2>2
  <2>4. byFingerprint[f] \in RequestIDs
    BY <2>1, <2>2 DEF TypeOK
  <2>5. byFingerprint'[f] = byFingerprint[f] /\ pending'[byFingerprint[f]] = pending[byFingerprint[f]]
    BY <1>3, <1>4, <1>5, <2>1, <2>3, <2>4
  <2>6. QED
    BY <2>2, <2>5
<1>11. RegistrationMatchesEndpoint'
  <2>1. \A o \in RequestIDs : IsRegistered(o)' => IsRegistered(o) /\ pending'[o] = pending[o]
    BY <1>2, <1>3 DEF IsRegistered
  <2>2. QED
    BY <1>6, <2>1 DEF Linked, RegistrationMatchesEndpoint, IsRegistered
<1>12. QED
  BY <1>7, <1>8, <1>9, <1>10, <1>11 DEF Linked

\* ConfirmEnrollment with a bad signature: the record and its index entry go.
LEMMA ForgetLinked ==
    ASSUME TypeOK, Linked, NEW rid \in RequestIDs, NEW key \in Keys,
           ConfirmBadSignature(rid, key)
    PROVE  Linked'
<1> DEFINE fp == pending[rid].fingerprint
<1>1. /\ pending[rid] # None
      /\ pending[rid].state # StateRegistered
      /\ pending[rid] \in PendingEnroll
  BY DEF TypeOK, ConfirmBadSignature, AwaitsConfirm, StateChallengeIssued, StateRegistered
<1>2. /\ pending'[rid] = None
      /\ \A o \in RequestIDs \ {rid} : pending'[o] = pending[o]
      /\ endpoints' = endpoints
      /\ drawn' = drawn
  BY DEF TypeOK, ConfirmBadSignature
<1>3. /\ fp # NoFingerprint => byFingerprint'[fp] = None /\ byFingerprint[fp] = rid
      /\ \A f \in Fingerprints \ {fp} : byFingerprint'[f] = byFingerprint[f] /\ byFingerprint[f] # rid
  <2>1. fp \in Fingerprints \union {NoFingerprint}
    BY <1>1 DEF PendingEnroll
  <2>2. \A f \in Fingerprints \ {fp} : byFingerprint[f] # rid
    BY <1>1, NoneAssumption DEF Linked, IndexExact
  <2>3. fp # NoFingerprint => byFingerprint[fp] = rid
    BY <1>1 DEF Linked, IndexExact
  <2>4. QED
    BY <2>1, <2>2, <2>3 DEF TypeOK, ConfirmBadSignature
<1> HIDE DEF fp
<1>4. IndexExact'
  <2>1. ASSUME NEW o \in RequestIDs, pending'[o] # None, pending'[o].fingerprint # NoFingerprint
        PROVE  byFingerprint'[pending'[o].fingerprint] = o
    <3>1. o # rid /\ pending'[o] = pending[o] /\ pending[o] \in PendingEnroll
      BY <1>2, <2>1 DEF TypeOK
    <3>2. byFingerprint[pending[o].fingerprint] = o /\ pending[o].fingerprint \in Fingerprints
      BY <2>1, <3>1 DEF Linked, IndexExact, PendingEnroll
    <3>3. QED
      BY <1>3, <2>1, <3>1, <3>2
  <2>2. ASSUME NEW f \in Fingerprints, byFingerprint'[f] # None
        PROVE  /\ pending'[byFingerprint'[f]] # None
               /\ pending'[byFingerprint'[f]].fingerprint = f
    <3>1. f # fp
      BY <1>3, <2>2, FingerprintAssumption
    <3>2. byFingerprint'[f] = byFingerprint[f] /\ byFingerprint[f] \in RequestIDs \ {rid}
      BY <1>3, <2>2, <3>1 DEF TypeOK
    <3>3. QED
      BY <1>2, <2>2, <3>2 DEF Linked, IndexExact
  <2>3. QED
    BY <2>1, <2>2 DEF IndexExact
<1>5. RecordsAreDrawn'
  BY <1>2 DEF Linked, RecordsAreDrawn
<1>6. TokenNamesItsSlot'
  BY <1>2 DEF Linked, TokenNamesItsSlot
<1>7. EndpointHasEnrollment'
  <2> SUFFICES ASSUME NEW k \in AddrKeys, endpoints[k] # None,
                      endpoints[k].token.fingerprint # NoFingerprint
               PROVE  LET f == endpoints[k].token.fingerprint IN
                      /\ byFingerprint'[f] # None
                      /\ pending'[byFingerprint'[f]] # None
                      /\ pending'[byFingerprint'[f]].state = StateRegistered
                      /\ pending'[byFingerprint'[f]].token = endpoints[k].token
    BY <1>2 DEF EndpointHasEnrollment
  <2> DEFINE f == endpoints[k].token.fingerprint
  <2>1. f \in Fingerprints
    BY DEF TypeOK, RegisteredEndpoint, TokenClaims
  <2>2. /\ byFingerprint[f] # None
        /\ pending[byFingerprint[f]] # None
        /\ pending[byFingerprint[f]].state = StateRegistered
        /\ pending[byFingerprint[f]].token = endpoints[k].token
    BY DEF Linked, EndpointHasEnrollment
  <2>3. byFingerprint[f] \in RequestIDs /\ byFingerprint[f] # rid
    BY <1>1, <2>1, <2>2 DEF TypeOK
  <2>4. f # fp
    BY <1>3, <2>3, FingerprintAssumption, <2>1
  <2>5. byFingerprint'[f] = byFingerprint[f] /\ pending'[byFingerprint[f]] = pending[byFingerprint[f]]
    BY <1>2, <1>3, <2>1, <2>3, <2>4
  <2>6. QED
    BY <2>2, <2>5
<1>8. RegistrationMatchesEndpoint'
  <2>1. \A o \in RequestIDs : IsRegistered(o)' => IsRegistered(o) /\ pending'[o] = pending[o]
    BY <1>2 DEF IsRegistered
  <2>2. QED
    BY <1>2, <2>1 DEF Linked, RegistrationMatchesEndpoint, IsRegistered
<1>9. QED
  BY <1>4, <1>5, <1>6, <1>7, <1>8 DEF Linked

\* ConfirmEnrollment and DenyEnrollment that only change the state of a record
\* that is not registered, to one that is not registered either.
LEMMA SettleLinked ==
    ASSUME TypeOK, Linked, NEW rid \in RequestIDs, NEW s \in {StatePending, StateDenied},
           pending[rid] # None, pending[rid].state # StateRegistered,
           pending' = [pending EXCEPT ![rid].state = s],
           UNCHANGED <<endpoints, byFingerprint, drawn>>
    PROVE  Linked'
<1>1. \A o \in RequestIDs : pending'[o] # None <=> pending[o] # None
  <2>1. pending[rid] \in PendingEnroll
    BY DEF TypeOK
  <2>2. pending'[rid] \in PendingEnroll
    BY <2>1 DEF TypeOK, PendingEnroll
  <2>3. QED
    BY <2>2, NoneAssumption DEF TypeOK
<1>2. \A o \in RequestIDs : pending[o] # None =>
          /\ pending'[o].fingerprint = pending[o].fingerprint
          /\ pending'[o].token = pending[o].token
          /\ pending'[o].publicKey = pending[o].publicKey
          /\ pending'[o].state = StateRegistered <=> pending[o].state = StateRegistered
  BY DEF TypeOK, PendingEnroll, StatePending, StateDenied, StateRegistered
<1>3. IndexExact'
  BY <1>1, <1>2 DEF TypeOK, Linked, IndexExact
<1>4. RecordsAreDrawn'
  BY <1>1 DEF Linked, RecordsAreDrawn
<1>5. TokenNamesItsSlot'
  BY DEF Linked, TokenNamesItsSlot
<1>6. EndpointHasEnrollment'
  <2> SUFFICES ASSUME NEW k \in AddrKeys, endpoints[k] # None,
                      endpoints[k].token.fingerprint # NoFingerprint
               PROVE  LET f == endpoints[k].token.fingerprint IN
                      /\ byFingerprint[f] # None
                      /\ pending'[byFingerprint[f]] # None
                      /\ pending'[byFingerprint[f]].state = StateRegistered
                      /\ pending'[byFingerprint[f]].token = endpoints[k].token
    BY DEF EndpointHasEnrollment
  <2>1. endpoints[k].token.fingerprint \in Fingerprints
    BY DEF TypeOK, RegisteredEndpoint, TokenClaims
  <2>2. QED
    BY <1>1, <1>2, <2>1 DEF TypeOK, Linked, EndpointHasEnrollment
<1>7. RegistrationMatchesEndpoint'
  BY <1>1, <1>2 DEF Linked, RegistrationMatchesEndpoint
<1>8. QED
  BY <1>3, <1>4, <1>5, <1>6, <1>7 DEF Linked

\* registerApproved for a record that is not registered yet: the free address
\* and the record are given the same new token.
LEMMA RegisterLinked ==
    ASSUME TypeOK, Linked, NEW rid \in RequestIDs, NEW d \in Domains, NEW g \in Groups,
           pending[rid] # None, pending[rid].state # StateRegistered,
           RegisterApproved(rid, d, g)
    PROVE  Linked'
<1> DEFINE fp == pending[rid].fingerprint
<1>1. FindByFingerprint(fp) = {}
  BY NothingToReuse DEF FindByFingerprint
<1>2. PICK id \in EndpointIDs :
         /\ AllocatesID(d, g, id)
         /\ endpoints' = [endpoints EXCEPT ![<<d, g, id>>] =
                [token |-> NewToken(pending[rid], d, g, id), state |-> StateRegistered]]
         /\ pending' = [pending EXCEPT ![rid] =
                Registered(@, NewToken(pending[rid], d, g, id))]
  <2>1. ~ReuseEndpoint(rid)
    BY <1>1 DEF ReuseEndpoint
  <2>2. QED
    BY <2>1 DEF RegisterApproved, StoreEndpoint
<1> DEFINE slot == <<d, g, id>>
           token == NewToken(pending[rid], d, g, id)
<1>3. slot \in AddrKeys /\ endpoints[slot] = None
  BY <1>2, AllocatedIsFree DEF AddrKeys
<1>4. /\ token.addr.key = slot
      /\ token.fingerprint = fp
      /\ token.publicKey = pending[rid].publicKey
  BY DEF NewToken
<1>5. pending[rid] \in PendingEnroll /\ fp \in Fingerprints \union {NoFingerprint}
  BY DEF TypeOK, PendingEnroll
<1>5a. token \in TokenClaims
  BY <1>3, <1>5 DEF NewToken, TokenClaims, EndpointAddr, PendingEnroll
<1>6. /\ endpoints'[slot].token = token
      /\ endpoints'[slot] # None
      /\ \A k \in AddrKeys \ {slot} : endpoints'[k] = endpoints[k]
  <2>1. [token |-> token, state |-> StateRegistered] \in RegisteredEndpoint
    BY <1>5a DEF RegisteredEndpoint, StateRegistered
  <2>2. QED
    BY <1>2, <1>3, <2>1, NoneAssumption DEF TypeOK
<1>7. /\ pending'[rid] # None
      /\ pending'[rid].state = StateRegistered
      /\ pending'[rid].token = token
      /\ pending'[rid].fingerprint = fp
      /\ pending'[rid].publicKey = pending[rid].publicKey
      /\ \A o \in RequestIDs \ {rid} : pending'[o] = pending[o]
  <2>1. Registered(pending[rid], token) \in PendingEnroll
    BY <1>5, <1>5a DEF PendingEnroll, Registered, StateRegistered
  <2>2. pending'[rid] = Registered(pending[rid], token)
    BY <1>2 DEF TypeOK
  <2>3. QED
    BY <1>2, <1>5, <2>1, <2>2, NoneAssumption DEF TypeOK, Registered, PendingEnroll
<1>8. byFingerprint' = byFingerprint /\ drawn' = drawn
  BY DEF RegisterApproved
<1> HIDE DEF slot, token, fp
<1>9. IndexExact'
  <2>1. \A o \in RequestIDs : /\ pending'[o] # None <=> pending[o] # None
                              /\ pending[o] # None => pending'[o].fingerprint = pending[o].fingerprint
    BY <1>7 DEF fp
  <2>2. QED
    BY <1>8, <2>1 DEF TypeOK, Linked, IndexExact
<1>10. RecordsAreDrawn'
  BY <1>7, <1>8 DEF Linked, RecordsAreDrawn
<1>11. TokenNamesItsSlot'
  BY <1>4, <1>6 DEF Linked, TokenNamesItsSlot
<1>12. EndpointHasEnrollment'
  <2> SUFFICES ASSUME NEW k \in AddrKeys, endpoints'[k] # None,
                      endpoints'[k].token.fingerprint # NoFingerprint
               PROVE  LET f == endpoints'[k].token.fingerprint IN
                      /\ byFingerprint[f] # None
                      /\ pending'[byFingerprint[f]] # None
                      /\ pending'[byFingerprint[f]].state = StateRegistered
                      /\ pending'[byFingerprint[f]].token = endpoints'[k].token
    BY <1>8 DEF EndpointHasEnrollment
  <2>1. CASE k = slot
    <3>1. byFingerprint[fp] = rid /\ fp # NoFingerprint
      BY <1>4, <1>6, <2>1 DEF Linked, IndexExact, fp
    <3>2. QED
      BY <1>4, <1>6, <1>7, <2>1, <3>1, NoneAssumption
  <2>2. CASE k # slot
    <3>1. endpoints'[k] = endpoints[k]
      BY <1>6, <2>2
    <3>2. endpoints[k].token.fingerprint \in Fingerprints
      BY <3>1 DEF TypeOK, RegisteredEndpoint, TokenClaims
    <3>3. /\ byFingerprint[endpoints[k].token.fingerprint] # None
          /\ pending[byFingerprint[endpoints[k].token.fingerprint]] # None
          /\ pending[byFingerprint[endpoints[k].token.fingerprint]].state = StateRegistered
          /\ pending[byFingerprint[endpoints[k].token.fingerprint]].token = endpoints[k].token
      BY <3>1 DEF Linked, EndpointHasEnrollment
    <3>4. byFingerprint[endpoints[k].token.fingerprint] \in RequestIDs \ {rid}
      BY <3>2, <3>3 DEF TypeOK
    <3>5. QED
      BY <1>7, <3>1, <3>3, <3>4
  <2>3. QED
    BY <2>1, <2>2
<1>13. RegistrationMatchesEndpoint'
  <2>1. ASSUME NEW o \in RequestIDs \ {rid}, IsRegistered(o)'
        PROVE  /\ pending'[o] = pending[o]
               /\ pending[o].token.addr.key # slot
               /\ pending[o].token # None
               /\ pending[o].token.addr.key \in AddrKeys
               /\ endpoints[pending[o].token.addr.key] # None
               /\ endpoints[pending[o].token.addr.key].token = pending[o].token
               /\ pending[o].token.publicKey = pending[o].publicKey
               /\ pending[o].token.fingerprint = pending[o].fingerprint
    <3>1. pending'[o] = pending[o] /\ IsRegistered(o)
      BY <1>7, <2>1 DEF IsRegistered
    <3>2. pending[o].token \in TokenClaims
      BY <3>1 DEF TypeOK, PendingEnroll, IsRegistered, Linked, RegistrationMatchesEndpoint
    <3>3. pending[o].token.addr.key \in AddrKeys
      BY <3>2 DEF TokenClaims, EndpointAddr
    <3>4. QED
      BY <1>3, <3>1, <3>3 DEF Linked, RegistrationMatchesEndpoint, IsRegistered
  <2>2. /\ token # None
        /\ endpoints'[token.addr.key] # None
        /\ endpoints'[token.addr.key].token = token
        /\ token.publicKey = pending'[rid].publicKey
        /\ token.fingerprint = pending'[rid].fingerprint
    BY <1>4, <1>5a, <1>6, <1>7, NoneAssumption
  <2>3. \A o, p \in RequestIDs \ {rid} : (IsRegistered(o)' /\ IsRegistered(p)' /\ o # p)
           => pending'[o].token.addr.key # pending'[p].token.addr.key
    BY <2>1, <1>7 DEF Linked, RegistrationMatchesEndpoint, IsRegistered
  <2>4. ASSUME NEW o \in RequestIDs, IsRegistered(o)'
        PROVE  /\ pending'[o].token # None
               /\ endpoints'[pending'[o].token.addr.key] # None
               /\ endpoints'[pending'[o].token.addr.key].token = pending'[o].token
               /\ pending'[o].token.publicKey = pending'[o].publicKey
               /\ pending'[o].token.fingerprint = pending'[o].fingerprint
               /\ \A other \in RequestIDs \ {o} : IsRegistered(other)'
                     => pending'[other].token.addr.key # pending'[o].token.addr.key
    <3>1. CASE o = rid
      BY <1>4, <1>7, <2>1, <2>2, <3>1
    <3>2. CASE o # rid
      BY <1>4, <1>6, <1>7, <2>1, <2>3, <2>4, <3>2
    <3>3. QED
      BY <3>1, <3>2
  <2>5. QED
    BY <2>4 DEF RegistrationMatchesEndpoint, IsRegistered
<1>14. QED
  BY <1>9, <1>10, <1>11, <1>12, <1>13 DEF Linked

\* Activation and revocation change the state of one endpoint and nothing else
\* of what the invariant reads.
LEMMA MarkLinked ==
    ASSUME TypeOK, Linked, NEW k \in AddrKeys, NEW s \in {StateActive, StateRevoked},
           endpoints[k] # None,
           endpoints' = [endpoints EXCEPT ![k].state = s],
           UNCHANGED <<pending, byFingerprint, drawn>>
    PROVE  Linked'
<1>1. \A l \in AddrKeys : endpoints'[l] # None <=> endpoints[l] # None
  <2>1. endpoints'[k] \in RegisteredEndpoint
    BY DEF TypeOK, RegisteredEndpoint, StateActive, StateRevoked
  <2>2. QED
    BY <2>1, NoneAssumption DEF TypeOK
<1>2. \A l \in AddrKeys : endpoints[l] # None => endpoints'[l].token = endpoints[l].token
  BY DEF TypeOK, RegisteredEndpoint
<1>3. IndexExact' /\ RecordsAreDrawn'
  BY DEF Linked, IndexExact, RecordsAreDrawn
<1>4. TokenNamesItsSlot'
  BY <1>1, <1>2 DEF Linked, TokenNamesItsSlot
<1>5. EndpointHasEnrollment'
  BY <1>1, <1>2 DEF Linked, EndpointHasEnrollment
<1>6. RegistrationMatchesEndpoint'
  <2> SUFFICES ASSUME NEW o \in RequestIDs, IsRegistered(o)
               PROVE  LET token == pending[o].token IN
                      /\ token # None
                      /\ endpoints'[token.addr.key] # None
                      /\ endpoints'[token.addr.key].token = token
                      /\ token.publicKey = pending[o].publicKey
                      /\ token.fingerprint = pending[o].fingerprint
                      /\ \A other \in RequestIDs \ {o} :
                            (pending[other] # None /\ pending[other].state = StateRegistered)
                               => pending[other].token.addr.key # token.addr.key
    BY DEF RegistrationMatchesEndpoint, IsRegistered
  <2>1. pending[o].token \in TokenClaims
    BY DEF TypeOK, PendingEnroll, IsRegistered, Linked, RegistrationMatchesEndpoint
  <2>2. pending[o].token.addr.key \in AddrKeys
    BY <2>1 DEF TokenClaims, EndpointAddr
  <2>3. QED
    BY <1>1, <1>2, <2>2 DEF Linked, RegistrationMatchesEndpoint, IsRegistered
<1>7. QED
  BY <1>3, <1>4, <1>5, <1>6 DEF Linked

\* Steps that touch none of the maps the invariant reads.
LEMMA OtherLinked ==
    ASSUME Linked, UNCHANGED <<endpoints, pending, byFingerprint, drawn>>
    PROVE  Linked'
  BY DEF Linked, IndexExact, RecordsAreDrawn, TokenNamesItsSlot,
         EndpointHasEnrollment, RegistrationMatchesEndpoint

-----------------------------------------------------------------------------
(* The theorems. *)

LEMMA NextLinked ==
    ASSUME TypeOK, Linked, [RNext]_rvars
    PROVE  Linked'
<1>1. CASE EnrollStep
  BY <1>1, EnrollLinked
<1>2. CASE ConfirmStep
  <2>1. PICK rid \in RequestIDs, key \in Keys :
          \/ ConfirmBadSignature(rid, key)
          \/ ConfirmRelay(rid, key)
          \/ ConfirmPreApproved(rid, key)
          \/ ConfirmPending(rid, key)
    BY <1>2 DEF ConfirmStep
  <2>2. CASE ConfirmBadSignature(rid, key)
    BY <2>2, ForgetLinked
  <2>3. CASE ConfirmRelay(rid, key)
    BY <2>3, RegisterLinked, AddressSpaceAssumption
       DEF ConfirmRelay, AwaitsConfirm, StateChallengeIssued, StateRegistered
  <2>4. CASE ConfirmPreApproved(rid, key)
    <3>1. PreApprovedFor(rid) \in (Domains \ {RelayDomain}) \X Groups
      BY <2>4 DEF TypeOK, ConfirmPreApproved, PreApprovedFor, AwaitsConfirm, PendingEnroll
    <3>2. QED
      BY <2>4, <3>1, RegisterLinked
         DEF ConfirmPreApproved, AwaitsConfirm, StateChallengeIssued, StateRegistered
  <2>5. CASE ConfirmPending(rid, key)
    BY <2>5, SettleLinked
       DEF ConfirmPending, AwaitsConfirm, StateChallengeIssued, StateRegistered
  <2>6. QED
    BY <2>1, <2>2, <2>3, <2>4, <2>5
<1>3. CASE AdminStep
  <2>1. CASE \E fp \in Fingerprints, d \in Domains, g \in Groups : PreApprove(fp, d, g)
    BY <2>1, OtherLinked DEF PreApprove
  <2>2. CASE \E rid \in RequestIDs, d \in Domains, g \in Groups : ApproveEnrollment(rid, d, g)
    BY <2>2, RegisterLinked DEF ApproveEnrollment, StatePending, StateRegistered
  <2>3. CASE \E rid \in RequestIDs : DenyEnrollment(rid)
    BY <2>3, SettleLinked
       DEF DenyEnrollment, StatePending, StateChallengeIssued, StateRegistered
  <2>4. CASE \E k \in AddrKeys : RevokeEndpoint(k)
    BY <2>4, MarkLinked DEF RevokeEndpoint
  <2>5. QED
    BY <1>3, <2>1, <2>2, <2>3, <2>4 DEF AdminStep
<1>4. CASE ServiceStep
  <2>1. CASE \E addr \in EndpointAddr, token \in IssuedTokens : ActivateEndpoint(addr, token)
    BY <2>1, MarkLinked DEF ActivateEndpoint, HasState, EndpointAddr
  <2>2. CASE \E k \in AddrKeys, observed \in ObservedAddrs : ObserveEndpoint(k, observed)
    BY <2>2, OtherLinked DEF ObserveEndpoint
  <2>3. CASE \E k \in AddrKeys, token \in IssuedTokens, r \in RelayTargets : SetRelayRoute(k, token, r)
    BY <2>3, OtherLinked DEF SetRelayRoute
  <2>4. CASE \E k \in AddrKeys : ClearReachability(k)
    BY <2>4, OtherLinked DEF ClearReachability
  <2>5. CASE \E token \in IssuedTokens : TokenExpires(token)
    BY <2>5, OtherLinked DEF TokenExpires
  <2>6. QED
    BY <1>4, <2>1, <2>2, <2>3, <2>4, <2>5 DEF ServiceStep
<1>5. CASE UNCHANGED rvars
  BY <1>5, OtherLinked DEF rvars
<1>6. QED
  BY <1>1, <1>2, <1>3, <1>4, <1>5 DEF RNext

LEMMA InitIdentity == RInit => IdentityInv
<1>1. RInit => TypeOK
  BY AddressSpaceAssumption DEF RInit, TypeOK
<1>2. RInit => Linked
  BY DEF RInit, Linked, IndexExact, RecordsAreDrawn, TokenNamesItsSlot,
         EndpointHasEnrollment, RegistrationMatchesEndpoint
<1>3. QED
  BY <1>1, <1>2 DEF IdentityInv, Linked

LEMMA NextIdentity ==
    ASSUME IdentityInv, [RNext]_rvars
    PROVE  IdentityInv'
<1>1. TypeOK /\ Linked
  BY DEF IdentityInv, Linked
<1>2. TypeOK' /\ Linked'
  BY <1>1, NextType, NextLinked
<1>3. QED
  BY <1>2 DEF IdentityInv, Linked

\* The enrolment records, the fingerprint index and the endpoint table agree in
\* every reachable state, however enrolments, confirmations, approvals, denials,
\* activations and revocations interleave.
THEOREM IdentityCorrect == RSpec => []IdentityInv
  BY InitIdentity, NextIdentity, PTL DEF RSpec

\* byFingerprint is exactly the index of the records (Enroll, ConfirmEnrollment).
THEOREM IndexIsExact == RSpec => []IndexExact
<1>1. IdentityInv => IndexExact
  BY DEF IdentityInv
<1>2. QED
  BY <1>1, IdentityCorrect, PTL

\* What a registered enrolment is told is what the endpoint table stores.
THEOREM RegistrationMatches == RSpec => []RegistrationMatchesEndpoint
<1>1. IdentityInv => RegistrationMatchesEndpoint
  BY DEF IdentityInv
<1>2. QED
  BY <1>1, IdentityCorrect, PTL

\* No device ever has two addresses (registerApproved, findByFingerprint).
THEOREM OneAddress == RSpec => []OneAddressPerDevice
<1>1. IdentityInv => OneAddressPerDevice
  <2> SUFFICES ASSUME IdentityInv, NEW k \in AddrKeys, NEW l \in AddrKeys,
                      endpoints[k] # None, endpoints[l] # None,
                      endpoints[k].token.fingerprint = endpoints[l].token.fingerprint,
                      endpoints[k].token.fingerprint # NoFingerprint
               PROVE  k = l
    BY DEF OneAddressPerDevice
  <2>1. endpoints[k].token = endpoints[l].token
    BY DEF IdentityInv, EndpointHasEnrollment
  <2>2. QED
    BY <2>1 DEF IdentityInv, TokenNamesItsSlot
<1>2. QED
  BY <1>1, IdentityCorrect, PTL
=============================================================================
