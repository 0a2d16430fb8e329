--------------------------- MODULE EndpointProofs ---------------------------
(***************************************************************************)
(* Theorems about the endpoint table: what a step may do to an endpoint or *)
(* to an enrolment record, who may be in the reserved domain, whose routes *)
(* are kept, and that the ID allocator serves a group until it is full.    *)
(***************************************************************************)
EXTENDS IdentityProofs, FiniteSetTheorems

-----------------------------------------------------------------------------
(* How a step changes the endpoint table: not at all, by storing a new        *)
(* endpoint in a free slot, or by changing the state of one.                  *)

Stores(rid, d, g, id) ==
    /\ countEndpoints(d, g) < MaxEndpoints
    /\ AllocatesID(d, g, id)
    /\ nextID' = [nextID EXCEPT ![<<d, g>>] = HintAfter(id)]
    /\ endpoints' = [endpoints EXCEPT ![<<d, g, id>>] =
           [token |-> NewToken(pending[rid], d, g, id), state |-> StateRegistered]]
    /\ pending' = [pending EXCEPT ![rid] =
           Registered(@, NewToken(pending[rid], d, g, id))]
    /\ reachability' = reachability

\* The three approval paths, and what each knows of the enrolment it registers.
Approves(rid, d, g) ==
    /\ pending[rid] # None
    /\ \/ /\ pending[rid].state = StateChallengeIssued
          /\ d = RelayDomain <=> RoleOf(pending[rid].roleFlags) = RoleRelay
       \/ /\ pending[rid].state = StatePending
          /\ d # RelayDomain

Marks(k) ==
    \/ /\ HasState(k, StateRegistered)
       /\ endpoints' = [endpoints EXCEPT ![k].state = StateActive]
       /\ reachability' = reachability
    \/ /\ endpoints[k] # None
       /\ endpoints' = [endpoints EXCEPT ![k].state = StateRevoked]
       /\ reachability' = [reachability EXCEPT ![k] = None]

\* ConfirmEnrollment that registers, as one of the approval paths.
LEMMA ConfirmApproves ==
    ASSUME TypeOK, NEW rid \in RequestIDs, NEW key \in Keys,
           ConfirmRelay(rid, key) \/ ConfirmPreApproved(rid, key)
    PROVE  \E d \in Domains, g \in Groups : Approves(rid, d, g) /\ RegisterApproved(rid, d, g)
<1>1. CASE ConfirmRelay(rid, key)
  BY <1>1, AddressSpaceAssumption DEF ConfirmRelay, AwaitsConfirm, Approves
<1>2. CASE ConfirmPreApproved(rid, key)
  <2>1. PreApprovedFor(rid) \in (Domains \ {RelayDomain}) \X Groups
    BY <1>2 DEF TypeOK, ConfirmPreApproved, PreApprovedFor, AwaitsConfirm, PendingEnroll
  <2> DEFINE d == PreApprovedFor(rid)[1]
             g == PreApprovedFor(rid)[2]
  <2>2. d \in Domains /\ g \in Groups /\ d # RelayDomain
    BY <2>1
  <2>3. Approves(rid, d, g) /\ RegisterApproved(rid, d, g)
    BY <1>2, <2>2 DEF ConfirmPreApproved, AwaitsConfirm, Approves
  <2> HIDE DEF d, g
  <2>4. QED
    BY <2>2, <2>3
<1>3. QED
  BY <1>1, <1>2

LEMMA RegisterStores ==
    ASSUME TypeOK, Linked, NEW rid \in RequestIDs, NEW d \in Domains, NEW g \in Groups,
           Approves(rid, d, g), RegisterApproved(rid, d, g)
    PROVE  \E id \in EndpointIDs : Stores(rid, d, g, id)
<1>1. pending[rid] # None /\ pending[rid].state # StateRegistered
  BY DEF Approves, StateChallengeIssued, StatePending, StateRegistered
<1>2. FindByFingerprint(pending[rid].fingerprint) = {}
  BY <1>1, NothingToReuse DEF FindByFingerprint
<1>3. StoreEndpoint(rid, d, g)
  BY <1>2 DEF RegisterApproved, ReuseEndpoint
<1>4. QED
  BY <1>3 DEF StoreEndpoint, Stores, RegisterApproved

LEMMA StepCases ==
    ASSUME TypeOK, Linked, [RNext]_rvars
    PROVE  \/ UNCHANGED <<endpoints, nextID>> /\ UNCHANGED reachability
           \/ /\ UNCHANGED <<endpoints, nextID>>
              /\ \E k \in AddrKeys : \E info \in ReachabilityInfo \union {None} :
                    /\ info # None => HasState(k, StateActive)
                    /\ reachability' = [reachability EXCEPT ![k] = info]
           \/ UNCHANGED nextID /\ \E k \in AddrKeys : Marks(k)
           \/ \E rid \in RequestIDs, d \in Domains, g \in Groups :
                 Approves(rid, d, g) /\ \E id \in EndpointIDs : Stores(rid, d, g, id)
<1>1. CASE EnrollStep
  BY <1>1 DEF EnrollStep, EnrollNew
<1>2. CASE ConfirmStep
  <2>1. PICK rid \in RequestIDs, key \in Keys :
          \/ ConfirmBadSignature(rid, key)
          \/ ConfirmRelay(rid, key)
          \/ ConfirmPreApproved(rid, key)
          \/ ConfirmPending(rid, key)
    BY <1>2 DEF ConfirmStep
  <2>2. CASE ConfirmBadSignature(rid, key)
    BY <2>2 DEF ConfirmBadSignature
  <2>3. CASE ConfirmRelay(rid, key) \/ ConfirmPreApproved(rid, key)
    BY <2>3, ConfirmApproves, RegisterStores
  <2>4. CASE ConfirmPending(rid, key)
    BY <2>4 DEF ConfirmPending
  <2>5. QED
    BY <2>1, <2>2, <2>3, <2>4
<1>3. CASE AdminStep
  <2>1. CASE \E fp \in Fingerprints, d \in Domains, g \in Groups : PreApprove(fp, d, g)
    BY <2>1 DEF PreApprove
  <2>2. CASE \E rid \in RequestIDs, d \in Domains, g \in Groups : ApproveEnrollment(rid, d, g)
    <3>1. PICK rid \in RequestIDs, d \in Domains, g \in Groups : ApproveEnrollment(rid, d, g)
      BY <2>2
    <3>2. Approves(rid, d, g) /\ RegisterApproved(rid, d, g)
      BY <3>1 DEF ApproveEnrollment, Approves
    <3>3. QED
      BY <3>2, RegisterStores
  <2>3. CASE \E rid \in RequestIDs : DenyEnrollment(rid)
    BY <2>3 DEF DenyEnrollment
  <2>4. CASE \E k \in AddrKeys : RevokeEndpoint(k)
    BY <2>4 DEF RevokeEndpoint, Marks
  <2>5. QED
    BY <1>3, <2>1, <2>2, <2>3, <2>4 DEF AdminStep
<1>4. CASE ServiceStep
  <2>1. CASE \E addr \in EndpointAddr, token \in IssuedTokens : ActivateEndpoint(addr, token)
    BY <2>1 DEF ActivateEndpoint, Marks, EndpointAddr
  <2>2. CASE \E k \in AddrKeys, observed \in ObservedAddrs : ObserveEndpoint(k, observed)
    <3>1. PICK k \in AddrKeys, observed \in ObservedAddrs : ObserveEndpoint(k, observed)
      BY <2>2
    <3>2. [GetOrCreateReachability(k) EXCEPT !.direct = observed] \in ReachabilityInfo
      BY DEF TypeOK, GetOrCreateReachability, ReachabilityInfo
    <3>3. QED
      BY <3>1, <3>2 DEF ObserveEndpoint
  <2>3. CASE \E k \in AddrKeys, token \in IssuedTokens, r \in RelayTargets : SetRelayRoute(k, token, r)
    <3>1. PICK k \in AddrKeys, token \in IssuedTokens, r \in RelayTargets : SetRelayRoute(k, token, r)
      BY <2>3
    <3>2. [GetOrCreateReachability(k) EXCEPT !.relay = r] \in ReachabilityInfo
      BY DEF TypeOK, GetOrCreateReachability, ReachabilityInfo
    <3>3. QED
      BY <3>1, <3>2 DEF SetRelayRoute
  <2>4. CASE \E k \in AddrKeys : ClearReachability(k)
    BY <2>4 DEF ClearReachability
  <2>5. CASE \E token \in IssuedTokens : TokenExpires(token)
    BY <2>5 DEF TokenExpires
  <2>6. QED
    BY <1>4, <2>1, <2>2, <2>3, <2>4, <2>5 DEF ServiceStep
<1>5. CASE UNCHANGED rvars
  BY <1>5 DEF rvars
<1>6. QED
  BY <1>1, <1>2, <1>3, <1>4, <1>5 DEF RNext

\* The new entry that Stores makes, and the entries it leaves alone.
LEMMA StoredEndpoint ==
    ASSUME TypeOK, NEW rid \in RequestIDs, NEW d \in Domains, NEW g \in Groups,
           NEW id \in EndpointIDs, pending[rid] # None, Stores(rid, d, g, id)
    PROVE  /\ <<d, g, id>> \in AddrKeys
           /\ endpoints[<<d, g, id>>] = None
           /\ endpoints'[<<d, g, id>>] # None
           /\ endpoints'[<<d, g, id>>].state = StateRegistered
           /\ endpoints'[<<d, g, id>>].token.addr.roleFlags = pending[rid].roleFlags
           /\ \A k \in AddrKeys \ {<<d, g, id>>} : endpoints'[k] = endpoints[k]
<1>1. <<d, g, id>> \in AddrKeys /\ endpoints[<<d, g, id>>] = None
  BY AllocatedIsFree DEF Stores, AddrKeys
<1>2. pending[rid] \in PendingEnroll
  BY DEF TypeOK
<1>3. NewToken(pending[rid], d, g, id) \in TokenClaims
  BY <1>1, <1>2 DEF NewToken, TokenClaims, EndpointAddr, PendingEnroll
<1>4. [token |-> NewToken(pending[rid], d, g, id), state |-> StateRegistered] \in RegisteredEndpoint
  BY <1>3 DEF RegisteredEndpoint, StateRegistered
<1>5. endpoints'[<<d, g, id>>] = [token |-> NewToken(pending[rid], d, g, id), state |-> StateRegistered]
  BY <1>1 DEF TypeOK, Stores
<1>6. \A k \in AddrKeys \ {<<d, g, id>>} : endpoints'[k] = endpoints[k]
  BY DEF TypeOK, Stores
<1>7. endpoints'[<<d, g, id>>] # None
  BY <1>4, <1>5, NoneAssumption
<1>8. QED
  BY <1>1, <1>5, <1>6, <1>7 DEF NewToken

\* The entry that Marks changes keeps its token.
LEMMA MarkedEndpoint ==
    ASSUME TypeOK, NEW k \in AddrKeys, Marks(k)
    PROVE  /\ endpoints[k] # None
           /\ \A l \in AddrKeys : /\ endpoints'[l] # None <=> endpoints[l] # None
                                  /\ endpoints[l] # None => endpoints'[l].token = endpoints[l].token
           /\ \A l \in AddrKeys \ {k} : endpoints'[l] = endpoints[l]
           /\ \/ endpoints[k].state = StateRegistered /\ reachability' = reachability
              \/ endpoints'[k].state = StateRevoked /\ reachability' = [reachability EXCEPT ![k] = None]
<1>1. endpoints[k] \in RegisteredEndpoint
  BY DEF TypeOK, Marks, HasState
<1>2. endpoints'[k] \in RegisteredEndpoint /\ endpoints'[k].token = endpoints[k].token
  BY <1>1 DEF TypeOK, Marks, RegisteredEndpoint, StateActive, StateRevoked
<1>3. \A l \in AddrKeys \ {k} : endpoints'[l] = endpoints[l]
  BY DEF TypeOK, Marks
<1>4. endpoints[k] # None /\ endpoints'[k] # None
  BY <1>1, <1>2, NoneAssumption
<1>5. \/ endpoints[k].state = StateRegistered /\ reachability' = reachability
      \/ endpoints'[k].state = StateRevoked /\ reachability' = [reachability EXCEPT ![k] = None]
  <2>1. CASE HasState(k, StateRegistered) /\ reachability' = reachability
    BY <2>1 DEF HasState
  <2>2. CASE /\ endpoints' = [endpoints EXCEPT ![k].state = StateRevoked]
             /\ reachability' = [reachability EXCEPT ![k] = None]
    BY <1>1, <2>2 DEF TypeOK, RegisteredEndpoint
  <2>3. QED
    BY <2>1, <2>2 DEF Marks
<1>6. QED
  BY <1>2, <1>3, <1>4, <1>5

-----------------------------------------------------------------------------
(* How a step changes the enrolment records.                                  *)

\* A record gets the status Pending or Denied.
Settles(rid, s) ==
    /\ pending[rid] # None
    /\ \/ s = StatePending /\ pending[rid].state = StateChallengeIssued
       \/ s = StateDenied /\ pending[rid].state \in {StatePending, StateChallengeIssued}
    /\ pending' = [pending EXCEPT ![rid].state = s]
    /\ UNCHANGED <<endpoints, byFingerprint, drawn>>

LEMMA RegisterRecords ==
    ASSUME TypeOK, Linked, NEW rid \in RequestIDs, NEW d \in Domains, NEW g \in Groups,
           Approves(rid, d, g), RegisterApproved(rid, d, g)
    PROVE  /\ \E id \in EndpointIDs : Stores(rid, d, g, id)
           /\ UNCHANGED <<byFingerprint, drawn>>
  BY RegisterStores DEF RegisterApproved

LEMMA RecordCases ==
    ASSUME TypeOK, Linked, [RNext]_rvars
    PROVE  \/ UNCHANGED <<endpoints, pending, byFingerprint, drawn>>
           \/ EnrollStep
           \/ \E rid \in RequestIDs, key \in Keys : ConfirmBadSignature(rid, key)
           \/ \E rid \in RequestIDs, s \in {StatePending, StateDenied} : Settles(rid, s)
           \/ (\E k \in AddrKeys : Marks(k)) /\ UNCHANGED <<pending, byFingerprint, drawn>>
           \/ \E rid \in RequestIDs, d \in Domains, g \in Groups :
                 /\ Approves(rid, d, g)
                 /\ \E id \in EndpointIDs : Stores(rid, d, g, id)
                 /\ UNCHANGED <<byFingerprint, drawn>>
<1>1. CASE ConfirmStep
  <2>1. PICK rid \in RequestIDs, key \in Keys :
          \/ ConfirmBadSignature(rid, key)
          \/ ConfirmRelay(rid, key)
          \/ ConfirmPreApproved(rid, key)
          \/ ConfirmPending(rid, key)
    BY <1>1 DEF ConfirmStep
  <2>2. CASE ConfirmBadSignature(rid, key)
    BY <2>2
  <2>3. CASE ConfirmRelay(rid, key) \/ ConfirmPreApproved(rid, key)
    BY <2>3, ConfirmApproves, RegisterRecords
  <2>4. CASE ConfirmPending(rid, key)
    BY <2>4 DEF ConfirmPending, AwaitsConfirm, Settles
  <2>5. QED
    BY <2>1, <2>2, <2>3, <2>4
<1>2. CASE AdminStep
  <2>1. CASE \E fp \in Fingerprints, d \in Domains, g \in Groups : PreApprove(fp, d, g)
    BY <2>1 DEF PreApprove
  <2>2. CASE \E rid \in RequestIDs, d \in Domains, g \in Groups : ApproveEnrollment(rid, d, g)
    <3>1. PICK rid \in RequestIDs, d \in Domains, g \in Groups : ApproveEnrollment(rid, d, g)
      BY <2>2
    <3>2. Approves(rid, d, g) /\ RegisterApproved(rid, d, g)
      BY <3>1 DEF ApproveEnrollment, Approves
    <3>3. QED
      BY <3>2, RegisterRecords
  <2>3. CASE \E rid \in RequestIDs : DenyEnrollment(rid)
    BY <2>3 DEF DenyEnrollment, Settles
  <2>4. CASE \E k \in AddrKeys : RevokeEndpoint(k)
    BY <2>4 DEF RevokeEndpoint, Marks
  <2>5. QED
    BY <1>2, <2>1, <2>2, <2>3, <2>4 DEF AdminStep
<1>3. CASE ServiceStep
  <2>1. CASE \E addr \in EndpointAddr, token \in IssuedTokens : ActivateEndpoint(addr, token)
    BY <2>1 DEF ActivateEndpoint, Marks, EndpointAddr
  <2>2. CASE UNCHANGED <<endpoints, pending, byFingerprint, drawn>>
    BY <2>2
  <2>3. QED
    BY <1>3, <2>1, <2>2 DEF ServiceStep, ObserveEndpoint, SetRelayRoute, ClearReachability,
                            TokenExpires
<1>4. CASE UNCHANGED rvars
  BY <1>4 DEF rvars
<1>5. QED
  BY <1>1, <1>2, <1>3, <1>4 DEF RNext

\* The record that Stores registers: new status and token, all else as before.
LEMMA StoredRecord ==
    ASSUME TypeOK, NEW rid \in RequestIDs, NEW d \in Domains, NEW g \in Groups,
           NEW id \in EndpointIDs, pending[rid] # None, Stores(rid, d, g, id)
    PROVE  /\ pending'[rid] # None
           /\ pending'[rid].state = StateRegistered
           /\ pending'[rid].token = NewToken(pending[rid], d, g, id)
           /\ pending'[rid].token.addr.key = <<d, g, id>>
           /\ endpoints'[<<d, g, id>>].token = pending'[rid].token
           /\ pending'[rid].fingerprint = pending[rid].fingerprint
           /\ pending'[rid].publicKey = pending[rid].publicKey
           /\ \A o \in RequestIDs \ {rid} : pending'[o] = pending[o]
<1> DEFINE token == NewToken(pending[rid], d, g, id)
<1>1. pending[rid] \in PendingEnroll /\ <<d, g, id>> \in AddrKeys
  BY StoredEndpoint DEF TypeOK
<1>2. token \in TokenClaims /\ token.addr.key = <<d, g, id>>
  BY <1>1 DEF NewToken, TokenClaims, EndpointAddr, PendingEnroll
<1>3. endpoints'[<<d, g, id>>].token = token
  BY <1>1 DEF TypeOK, Stores
<1>4. pending'[rid] = Registered(pending[rid], token)
  BY DEF TypeOK, Stores
<1>5. \A o \in RequestIDs \ {rid} : pending'[o] = pending[o]
  BY DEF TypeOK, Stores
<1> HIDE DEF token
<1>6. /\ Registered(pending[rid], token) \in PendingEnroll
      /\ Registered(pending[rid], token).state = StateRegistered
      /\ Registered(pending[rid], token).token = token
      /\ Registered(pending[rid], token).fingerprint = pending[rid].fingerprint
      /\ Registered(pending[rid], token).publicKey = pending[rid].publicKey
  BY <1>1, <1>2 DEF Registered, PendingEnroll, StateRegistered
<1>7. QED
  BY <1>2, <1>3, <1>4, <1>5, <1>6, NoneAssumption DEF token

\* The record that Settles changes: a new status, all else as before.
LEMMA SettledRecord ==
    ASSUME TypeOK, NEW rid \in RequestIDs, NEW s \in {StatePending, StateDenied}, Settles(rid, s)
    PROVE  /\ pending'[rid] # None
           /\ pending'[rid].state = s
           /\ pending'[rid].token = pending[rid].token
           /\ pending'[rid].fingerprint = pending[rid].fingerprint
           /\ pending'[rid].publicKey = pending[rid].publicKey
           /\ \A o \in RequestIDs \ {rid} : pending'[o] = pending[o]
<1>1. pending[rid] \in PendingEnroll
  BY DEF TypeOK, Settles
<1>2. pending'[rid] = [pending[rid] EXCEPT !.state = s]
  BY DEF TypeOK, Settles
<1>3. pending'[rid] \in PendingEnroll
  BY <1>1, <1>2 DEF PendingEnroll, StatePending, StateDenied
<1>4. QED
  BY <1>1, <1>2, <1>3, NoneAssumption DEF TypeOK, Settles, PendingEnroll

\* What becomes of a request ID once drawn: its record is never replaced by
\* another, only a challenge is ever forgotten, and a decision is final.
LEMMA RecordKept ==
    ASSUME TypeOK, Linked, [RNext]_rvars, NEW rid \in RequestIDs, rid \in drawn
    PROVE  /\ rid \in drawn'
           /\ pending'[rid] # None => /\ pending[rid] # None
                                      /\ pending'[rid].fingerprint = pending[rid].fingerprint
                                      /\ pending'[rid].publicKey = pending[rid].publicKey
           /\ pending[rid] # None /\ pending[rid].state # StateChallengeIssued =>
                 /\ pending'[rid] # None
                 /\ pending'[rid].state # StateChallengeIssued
                 /\ pending[rid].state \in {StateRegistered, StateDenied} => pending'[rid] = pending[rid]
<1>1. CASE UNCHANGED <<endpoints, pending, byFingerprint, drawn>>
  BY <1>1
<1>2. CASE EnrollStep
  BY <1>2 DEF EnrollStep, EnrollNew, TypeOK
<1>3. ASSUME NEW o \in RequestIDs, NEW key \in Keys, ConfirmBadSignature(o, key)
      PROVE  /\ drawn' = drawn
             /\ pending[o].state = StateChallengeIssued
             /\ pending'[o] = None
             /\ \A p \in RequestIDs \ {o} : pending'[p] = pending[p]
  BY <1>3 DEF ConfirmBadSignature, AwaitsConfirm, TypeOK
<1>4. ASSUME NEW o \in RequestIDs, NEW s \in {StatePending, StateDenied}, Settles(o, s)
      PROVE  /\ drawn' = drawn
             /\ pending[o] # None
             /\ pending[o].state \notin {StateRegistered, StateDenied}
             /\ pending'[o].state # StateChallengeIssued
  BY <1>4, SettledRecord
     DEF Settles, StateChallengeIssued, StatePending, StateRegistered, StateDenied
<1>5. ASSUME NEW o \in RequestIDs, NEW d \in Domains, NEW g \in Groups, NEW id \in EndpointIDs,
             Approves(o, d, g), Stores(o, d, g, id), UNCHANGED <<byFingerprint, drawn>>
      PROVE  /\ drawn' = drawn
             /\ pending[o] # None
             /\ pending[o].state \notin {StateRegistered, StateDenied}
             /\ pending'[o].state # StateChallengeIssued
  BY <1>5, StoredRecord
     DEF Approves, StateChallengeIssued, StatePending, StateRegistered, StateDenied
<1>6. CASE \E o \in RequestIDs, key \in Keys : ConfirmBadSignature(o, key)
  BY <1>3, <1>6
<1>7. CASE \E o \in RequestIDs, s \in {StatePending, StateDenied} : Settles(o, s)
  BY <1>4, <1>7, SettledRecord
<1>8. CASE \E o \in RequestIDs, d \in Domains, g \in Groups :
              /\ Approves(o, d, g)
              /\ \E id \in EndpointIDs : Stores(o, d, g, id)
              /\ UNCHANGED <<byFingerprint, drawn>>
  BY <1>5, <1>8, StoredRecord
<1>9. QED
  BY <1>1, <1>2, <1>6, <1>7, <1>8, RecordCases

\* No method touches a record that is registered.
LEMMA RegisteredStays ==
    ASSUME TypeOK, Linked, [RNext]_rvars, NEW rid \in RequestIDs, IsRegistered(rid)
    PROVE  pending'[rid] = pending[rid]
<1>1. rid \in drawn
  BY DEF Linked, RecordsAreDrawn, IsRegistered
<1>2. QED
  BY <1>1, RecordKept DEF IsRegistered, StateRegistered, StateChallengeIssued

-----------------------------------------------------------------------------
(* Reachability. *)

LEMMA NextReachable ==
    ASSUME TypeOK, Linked, ReachableIsActive, [RNext]_rvars
    PROVE  ReachableIsActive'
<1>1. CASE UNCHANGED <<endpoints, nextID>> /\ UNCHANGED reachability
  BY <1>1 DEF ReachableIsActive, HasState
<1>2. ASSUME UNCHANGED <<endpoints, nextID>>,
             NEW k \in AddrKeys, NEW info \in ReachabilityInfo \union {None},
             info # None => HasState(k, StateActive),
             reachability' = [reachability EXCEPT ![k] = info]
      PROVE  ReachableIsActive'
  BY <1>2 DEF TypeOK, ReachableIsActive, HasState
<1>3. ASSUME NEW k \in AddrKeys, Marks(k)
      PROVE  ReachableIsActive'
  <2>1. ASSUME NEW l \in AddrKeys, reachability'[l] # None
        PROVE  HasState(l, StateActive)'
    <3>1. CASE l # k
      <4>1. reachability'[l] = reachability[l] /\ endpoints'[l] = endpoints[l]
        BY <1>3, <3>1, MarkedEndpoint DEF TypeOK
      <4>2. QED
        BY <2>1, <4>1 DEF ReachableIsActive, HasState
    <3>2. CASE l = k
      <4>1. reachability' = reachability /\ endpoints[k].state = StateRegistered
        BY <1>3, <2>1, <3>2, MarkedEndpoint DEF TypeOK
      <4>2. HasState(k, StateActive)
        BY <2>1, <3>2, <4>1 DEF ReachableIsActive
      <4>3. QED
        BY <4>1, <4>2 DEF HasState, StateRegistered, StateActive
    <3>3. QED
      BY <3>1, <3>2
  <2>2. QED
    BY <2>1 DEF ReachableIsActive
<1>4. ASSUME NEW rid \in RequestIDs, NEW d \in Domains, NEW g \in Groups, NEW id \in EndpointIDs,
             Approves(rid, d, g), Stores(rid, d, g, id)
      PROVE  ReachableIsActive'
  <2>1. pending[rid] # None /\ reachability' = reachability
    BY <1>4 DEF Approves, Stores
  <2>2. \A k \in AddrKeys : HasState(k, StateActive) => HasState(k, StateActive)'
    BY <1>4, <2>1, StoredEndpoint DEF HasState
  <2>3. QED
    BY <2>1, <2>2 DEF ReachableIsActive
<1>5. QED
  BY <1>1, <1>2, <1>3, <1>4, StepCases

\* Only active endpoints are reachable (ObserveEndpoint, SetRelayRoute,
\* RevokeEndpoint, ClearReachability).
THEOREM ReachableAreActive == RSpec => []ReachableIsActive
<1>1. RInit => ReachableIsActive
  BY DEF RInit, ReachableIsActive
<1>2. IdentityInv /\ ReachableIsActive /\ [RNext]_rvars => ReachableIsActive'
  BY NextReachable DEF IdentityInv, Linked
<1>3. QED
  BY <1>1, <1>2, IdentityCorrect, PTL DEF RSpec

-----------------------------------------------------------------------------
(* Identities are for ever. *)

\* No step takes an endpoint out of the table, rewrites its token or brings it
\* back from revocation.
THEOREM IdentitiesAreForever == RSpec => IdentityIsForever
<1> DEFINE Kept == \A k \in AddrKeys : endpoints[k] # None =>
           /\ endpoints'[k] # None
           /\ endpoints'[k].token = endpoints[k].token
           /\ endpoints[k].state = StateRevoked => endpoints'[k].state = StateRevoked
<1>1. ASSUME IdentityInv, [RNext]_rvars
      PROVE  Kept
  <2>1. TypeOK /\ Linked
    BY <1>1 DEF IdentityInv, Linked
  <2>2. CASE UNCHANGED <<endpoints, nextID>>
    BY <2>2
  <2>3. ASSUME NEW k \in AddrKeys, Marks(k)
        PROVE  Kept
    BY <2>1, <2>3, MarkedEndpoint DEF StateRegistered, StateRevoked
  <2>4. ASSUME NEW rid \in RequestIDs, NEW d \in Domains, NEW g \in Groups, NEW id \in EndpointIDs,
               Approves(rid, d, g), Stores(rid, d, g, id)
        PROVE  Kept
    <3>1. pending[rid] # None
      BY <2>4 DEF Approves
    <3>2. QED
      BY <2>1, <2>4, <3>1, StoredEndpoint
  <2>5. QED
    BY <1>1, <2>1, <2>2, <2>3, <2>4, StepCases
<1>2. IdentityInv /\ [RNext]_rvars => [Kept]_rvars
  BY <1>1
<1>3. QED
  BY <1>2, IdentityCorrect, PTL DEF RSpec, IdentityIsForever

\* An endpoint that is active stays so until it is revoked, and then for good.
LEMMA ActiveStays ==
    ASSUME TypeOK, Linked, [RNext]_rvars, NEW k \in AddrKeys, endpoints[k] # None,
           endpoints[k].state \in {StateActive, StateRevoked}
    PROVE  endpoints'[k].state \in {StateActive, StateRevoked}
<1>1. CASE UNCHANGED <<endpoints, nextID>>
  BY <1>1
<1>2. ASSUME NEW l \in AddrKeys, Marks(l)
      PROVE  endpoints'[k].state \in {StateActive, StateRevoked}
  BY <1>2, MarkedEndpoint DEF StateRegistered, StateActive, StateRevoked
<1>3. ASSUME NEW rid \in RequestIDs, NEW d \in Domains, NEW g \in Groups, NEW id \in EndpointIDs,
             Approves(rid, d, g), Stores(rid, d, g, id)
      PROVE  endpoints'[k].state \in {StateActive, StateRevoked}
  BY <1>3, StoredEndpoint DEF Approves
<1>4. QED
  BY <1>1, <1>2, <1>3, StepCases

-----------------------------------------------------------------------------
(* The reserved domain. *)

\* A step leaves the role flags of a record alone, and no step makes a relay
\* wait for the administrator.
LEMMA NextNeverPending ==
    ASSUME TypeOK, Linked, RelayNeverPending, [RNext]_rvars
    PROVE  RelayNeverPending'
<1>1. CASE EnrollStep
  <2>1. PICK key \in Keys, fp \in Fingerprints \union {NoFingerprint},
             flags \in RoleFlagBytes, rid \in RequestIDs : EnrollNew(key, fp, flags, rid)
    BY <1>1 DEF EnrollStep
  <2>2. \A o \in RequestIDs : pending'[o] = pending[o] \/ pending'[o].state = StateChallengeIssued
    BY <2>1 DEF TypeOK, EnrollNew
  <2>3. QED
    BY <2>2 DEF RelayNeverPending, StatePending, StateChallengeIssued
<1>2. ASSUME NEW rid \in RequestIDs, NEW d \in Domains, NEW g \in Groups,
             Approves(rid, d, g), RegisterApproved(rid, d, g)
      PROVE  RelayNeverPending'
  <2>1. PICK id \in EndpointIDs : Stores(rid, d, g, id)
    BY <1>2, RegisterStores
  <2>2. pending[rid] \in PendingEnroll
    BY <1>2 DEF TypeOK, Approves
  <2>3. \A o \in RequestIDs : pending'[o] = pending[o] \/ pending'[o].state = StateRegistered
    BY <2>1, <2>2 DEF TypeOK, Stores, Registered, PendingEnroll
  <2>4. QED
    BY <2>3 DEF RelayNeverPending, StatePending, StateRegistered
<1>3. CASE ConfirmStep
  <2>1. PICK rid \in RequestIDs, key \in Keys :
          \/ ConfirmBadSignature(rid, key)
          \/ ConfirmRelay(rid, key)
          \/ ConfirmPreApproved(rid, key)
          \/ ConfirmPending(rid, key)
    BY <1>3 DEF ConfirmStep
  <2>2. CASE ConfirmBadSignature(rid, key)
    BY <2>2 DEF ConfirmBadSignature, RelayNeverPending, TypeOK
  <2>3. CASE ConfirmRelay(rid, key) \/ ConfirmPreApproved(rid, key)
    BY <1>2, <2>3, ConfirmApproves
  <2>4. CASE ConfirmPending(rid, key)
    <3>1. pending[rid] \in PendingEnroll
      BY <2>4 DEF TypeOK, ConfirmPending, AwaitsConfirm
    <3>2. pending'[rid].roleFlags = pending[rid].roleFlags
      BY <2>4, <3>1 DEF TypeOK, ConfirmPending, PendingEnroll
    <3>3. \A o \in RequestIDs \ {rid} : pending'[o] = pending[o]
      BY <2>4 DEF TypeOK, ConfirmPending
    <3>4. QED
      BY <2>4, <3>2, <3>3 DEF RelayNeverPending, ConfirmPending
  <2>5. QED
    BY <2>1, <2>2, <2>3, <2>4
<1>4. CASE AdminStep
  <2>1. CASE \E fp \in Fingerprints, d \in Domains, g \in Groups : PreApprove(fp, d, g)
    BY <2>1 DEF PreApprove, RelayNeverPending
  <2>2. CASE \E rid \in RequestIDs, d \in Domains, g \in Groups : ApproveEnrollment(rid, d, g)
    <3>1. PICK rid \in RequestIDs, d \in Domains, g \in Groups : ApproveEnrollment(rid, d, g)
      BY <2>2
    <3>2. Approves(rid, d, g) /\ RegisterApproved(rid, d, g)
      BY <3>1 DEF ApproveEnrollment, Approves
    <3>3. QED
      BY <1>2, <3>2
  <2>3. CASE \E rid \in RequestIDs : DenyEnrollment(rid)
    <3>1. PICK rid \in RequestIDs : DenyEnrollment(rid)
      BY <2>3
    <3>2. pending[rid] \in PendingEnroll
      BY <3>1 DEF TypeOK, DenyEnrollment
    <3>3. \A o \in RequestIDs : pending'[o] = pending[o] \/ pending'[o].state = StateDenied
      BY <3>1, <3>2 DEF TypeOK, DenyEnrollment, PendingEnroll
    <3>4. QED
      BY <3>3 DEF RelayNeverPending, StatePending, StateDenied
  <2>4. CASE \E k \in AddrKeys : RevokeEndpoint(k)
    BY <2>4 DEF RevokeEndpoint, RelayNeverPending
  <2>5. QED
    BY <1>4, <2>1, <2>2, <2>3, <2>4 DEF AdminStep
<1>5. CASE ServiceStep
  <2>1. pending' = pending
    BY <1>5 DEF ServiceStep, ActivateEndpoint, ObserveEndpoint, SetRelayRoute,
                ClearReachability, TokenExpires
  <2>2. QED
    BY <2>1 DEF RelayNeverPending
<1>6. CASE UNCHANGED rvars
  BY <1>6 DEF rvars, RelayNeverPending
<1>7. QED
  BY <1>1, <1>3, <1>4, <1>5, <1>6 DEF RNext

LEMMA NextDomain ==
    ASSUME TypeOK, Linked, DomainInv, [RNext]_rvars
    PROVE  RelayDomainIsForRelays'
<1>1. CASE UNCHANGED <<endpoints, nextID>>
  BY <1>1 DEF DomainInv, RelayDomainIsForRelays
<1>2. ASSUME NEW k \in AddrKeys, Marks(k)
      PROVE  RelayDomainIsForRelays'
  BY <1>2, MarkedEndpoint DEF DomainInv, RelayDomainIsForRelays
<1>3. ASSUME NEW rid \in RequestIDs, NEW d \in Domains, NEW g \in Groups, NEW id \in EndpointIDs,
             Approves(rid, d, g), Stores(rid, d, g, id)
      PROVE  RelayDomainIsForRelays'
  <2>1. pending[rid] # None /\ (d = RelayDomain <=> RoleOf(pending[rid].roleFlags) = RoleRelay)
    BY <1>3 DEF Approves, DomainInv, RelayNeverPending
  <2>2. /\ endpoints'[<<d, g, id>>].token.addr.roleFlags = pending[rid].roleFlags
        /\ \A k \in AddrKeys \ {<<d, g, id>>} : endpoints'[k] = endpoints[k]
    BY <1>3, <2>1, StoredEndpoint
  <2>3. ASSUME NEW k \in AddrKeys, endpoints'[k] # None
        PROVE  k[1] = RelayDomain <=> RoleOf(endpoints'[k].token.addr.roleFlags) = RoleRelay
    <3>1. CASE k = <<d, g, id>>
      BY <2>1, <2>2, <3>1
    <3>2. CASE k # <<d, g, id>>
      BY <2>2, <2>3, <3>2 DEF DomainInv, RelayDomainIsForRelays
    <3>3. QED
      BY <3>1, <3>2
  <2>4. QED
    BY <2>3 DEF RelayDomainIsForRelays
<1>4. QED
  BY <1>1, <1>2, <1>3, StepCases

\* Relays and nobody else live in the reserved domain (ConfirmEnrollment,
\* PreApprove, ApproveEnrollment).
THEOREM ReservedDomain == RSpec => []RelayDomainIsForRelays
<1>1. RInit => DomainInv
  BY DEF RInit, DomainInv, RelayDomainIsForRelays, RelayNeverPending
<1>2. IdentityInv /\ DomainInv /\ [RNext]_rvars => DomainInv'
  BY NextNeverPending, NextDomain DEF IdentityInv, Linked, DomainInv
<1>3. DomainInv => RelayDomainIsForRelays
  BY DEF DomainInv
<1>4. QED
  BY <1>1, <1>2, <1>3, IdentityCorrect, PTL DEF RSpec

-----------------------------------------------------------------------------
(* The allocator. *)

\* The first candidate of the scan is the hint itself, uint16 wrap-around and
\* all, whenever the hint is a legal ID.
LEMMA FirstCandidate ==
    ASSUME NEW hint \in EndpointIDs
    PROVE  Candidate(hint, 0) = hint
<1>1. hint \in Nat /\ hint > 0 /\ hint <= MaxEndpoints /\ MaxEndpoints \in Nat /\ IDModulus = MaxEndpoints + 2
  BY AddressSpaceAssumption DEF EndpointIDs
<1>2. hint + 0 = hint
  BY <1>1
<1>3. hint % IDModulus = hint
  BY <1>1
<1>4. QED
  BY <1>1, <1>2, <1>3 DEF Candidate

\* When the hint is free, that is the ID allocateID returns.
LEMMA HintIsAllocated ==
    ASSUME NEW d \in Domains, NEW g \in Groups, NEW id \in EndpointIDs,
           Hint(d, g) \in EndpointIDs \ Taken(d, g), AllocatesID(d, g, id)
    PROVE  id = Hint(d, g)
<1>1. PICK i \in 0..(MaxEndpoints - 1) :
         /\ id = Candidate(Hint(d, g), i)
         /\ \A j \in 0..(i - 1) : Candidate(Hint(d, g), j) \in Taken(d, g)
  BY DEF AllocatesID
<1>2. Candidate(Hint(d, g), 0) = Hint(d, g)
  BY FirstCandidate
<1>3. i = 0
  <2>1. ASSUME i # 0 PROVE FALSE
    <3>1. 0 \in 0..(i - 1)
      BY <2>1, AddressSpaceAssumption
    <3>2. QED
      BY <1>1, <1>2, <3>1
  <2>2. QED
    BY <2>1
<1>4. QED
  BY <1>1, <1>2, <1>3

\* A group filled in order, and below its capacity, has its hint free.
LEMMA RoomAtHint ==
    ASSUME NEW d \in Domains, NEW g \in Groups, NEW n \in 0..MaxEndpoints,
           Taken(d, g) = 1..n,
           nextID[<<d, g>>] = IF n = 0 THEN 0 ELSE IF n = MaxEndpoints THEN 1 ELSE n + 1,
           countEndpoints(d, g) < MaxEndpoints
    PROVE  n < MaxEndpoints /\ Hint(d, g) = n + 1
<1>1. n \in Nat /\ MaxEndpoints \in Nat /\ n <= MaxEndpoints
  BY AddressSpaceAssumption
<1>2. Cardinality(1..n) = n
  BY <1>1, FS_Interval
<1>3. n < MaxEndpoints
  BY <1>1, <1>2 DEF countEndpoints
<1>4. Hint(d, g) = n + 1
  BY <1>1, <1>3 DEF Hint
<1>5. QED
  BY <1>3, <1>4

LEMMA NextFills ==
    ASSUME TypeOK, Linked, GroupsFillInOrder, [RNext]_rvars
    PROVE  GroupsFillInOrder'
<1>1. CASE UNCHANGED <<endpoints, nextID>>
  BY <1>1 DEF GroupsFillInOrder, Taken
<1>2. ASSUME NEW k \in AddrKeys, Marks(k), UNCHANGED nextID
      PROVE  GroupsFillInOrder'
  <2>1. \A d \in Domains, g \in Groups : Taken(d, g)' = Taken(d, g)
    BY <1>2, MarkedEndpoint DEF Taken, AddrKeys
  <2>2. QED
    BY <1>2, <2>1 DEF GroupsFillInOrder
<1>3. ASSUME NEW rid \in RequestIDs, NEW d \in Domains, NEW g \in Groups, NEW id \in EndpointIDs,
             Approves(rid, d, g), Stores(rid, d, g, id)
      PROVE  GroupsFillInOrder'
  <2>1. PICK n \in 0..MaxEndpoints :
           /\ Taken(d, g) = 1..n
           /\ nextID[<<d, g>>] = IF n = 0 THEN 0 ELSE IF n = MaxEndpoints THEN 1 ELSE n + 1
    BY DEF GroupsFillInOrder
  <2>2. n < MaxEndpoints /\ Hint(d, g) = n + 1
    BY <1>3, <2>1, RoomAtHint DEF Stores
  <2>3. n \in Nat /\ MaxEndpoints \in Nat
    BY AddressSpaceAssumption
  <2>4. id = n + 1
    <3>1. Hint(d, g) \in EndpointIDs \ Taken(d, g)
      BY <2>1, <2>2, <2>3 DEF EndpointIDs
    <3>2. QED
      BY <1>3, <2>2, <3>1, HintIsAllocated DEF Stores
  <2>5. /\ endpoints'[<<d, g, id>>] # None
        /\ \A k \in AddrKeys \ {<<d, g, id>>} : endpoints'[k] = endpoints[k]
    BY <1>3, StoredEndpoint DEF Approves
  <2>6. Taken(d, g)' = 1..(n + 1)
    <3>1. ASSUME NEW i \in EndpointIDs
          PROVE  i \in Taken(d, g)' <=> i \in Taken(d, g) \/ i = id
      BY <2>5 DEF Taken, AddrKeys
    <3>2. Taken(d, g)' = {i \in EndpointIDs : i \in 1..n \/ i = n + 1}
      BY <2>1, <2>4, <3>1 DEF Taken
    <3>3. QED
      BY <2>2, <2>3, <3>2 DEF EndpointIDs
  <2>7. /\ nextID'[<<d, g>>] = IF n + 1 = MaxEndpoints THEN 1 ELSE n + 2
        /\ n + 1 \in 0..MaxEndpoints
        /\ n + 1 # 0
    BY <1>3, <2>2, <2>3, <2>4 DEF TypeOK, Stores, HintAfter
  <2>8. ASSUME NEW e \in Domains, NEW h \in Groups, <<e, h>> # <<d, g>>
        PROVE  Taken(e, h)' = Taken(e, h) /\ nextID'[<<e, h>>] = nextID[<<e, h>>]
    <3>1. \A i \in EndpointIDs : endpoints'[<<e, h, i>>] = endpoints[<<e, h, i>>]
      BY <2>5, <2>8 DEF AddrKeys
    <3>2. QED
      BY <1>3, <2>8, <3>1 DEF Taken, Stores, TypeOK
  <2>9. ASSUME NEW e \in Domains, NEW h \in Groups
        PROVE  \E m \in 0..MaxEndpoints :
                  /\ Taken(e, h)' = 1..m
                  /\ nextID'[<<e, h>>] = IF m = 0 THEN 0 ELSE IF m = MaxEndpoints THEN 1 ELSE m + 1
    <3>1. CASE e = d /\ h = g
      BY <2>3, <2>6, <2>7, <3>1
    <3>2. CASE <<e, h>> # <<d, g>>
      <4>1. PICK m \in 0..MaxEndpoints :
               /\ Taken(e, h) = 1..m
               /\ nextID[<<e, h>>] = IF m = 0 THEN 0 ELSE IF m = MaxEndpoints THEN 1 ELSE m + 1
        BY DEF GroupsFillInOrder
      <4>2. QED
        BY <2>8, <3>2, <4>1
    <3>3. QED
      BY <3>1, <3>2
  <2>10. QED
    BY <2>9 DEF GroupsFillInOrder
<1>4. QED
  BY <1>1, <1>2, <1>3, StepCases

\* allocateID fills every group from 1 upwards, without a gap.
THEOREM GroupsInOrder == RSpec => []GroupsFillInOrder
<1>1. RInit => GroupsFillInOrder
  <2> SUFFICES ASSUME RInit, NEW d \in Domains, NEW g \in Groups
               PROVE  /\ 0 \in 0..MaxEndpoints
                      /\ Taken(d, g) = 1..0
                      /\ nextID[<<d, g>>] = 0
    BY DEF GroupsFillInOrder
  <2>1. Taken(d, g) = {}
    BY DEF RInit, Taken, AddrKeys
  <2>2. QED
    BY <2>1, AddressSpaceAssumption DEF RInit
<1>2. IdentityInv /\ GroupsFillInOrder /\ [RNext]_rvars => GroupsFillInOrder'
  BY NextFills DEF IdentityInv, Linked
<1>3. QED
  BY <1>1, <1>2, IdentityCorrect, PTL DEF RSpec

\* A group that is not full always has an ID to give, the one the hint names.
THEOREM AllocatorServes == RSpec => []AllocatorNeverStuck
<1>1. GroupsFillInOrder => AllocatorNeverStuck
  <2> SUFFICES ASSUME GroupsFillInOrder, NEW d \in Domains, NEW g \in Groups,
                      countEndpoints(d, g) < MaxEndpoints
               PROVE  Hint(d, g) \in EndpointIDs \ Taken(d, g)
    BY DEF AllocatorNeverStuck
  <2>1. PICK n \in 0..MaxEndpoints :
           /\ Taken(d, g) = 1..n
           /\ nextID[<<d, g>>] = IF n = 0 THEN 0 ELSE IF n = MaxEndpoints THEN 1 ELSE n + 1
    BY DEF GroupsFillInOrder
  <2>2. n < MaxEndpoints /\ Hint(d, g) = n + 1
    BY <2>1, RoomAtHint
  <2>3. QED
    BY <2>1, <2>2, AddressSpaceAssumption DEF EndpointIDs
<1>2. QED
  BY <1>1, GroupsInOrder, PTL
=============================================================================
