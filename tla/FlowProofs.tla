------------------------------ MODULE FlowProofs ------------------------------
(***************************************************************************)
(* Theorems about the controller: who can pass it, and when a flow ends,   *)
(* for any endpoints, records and policies.                                *)
(***************************************************************************)
EXTENDS FlowControl, EndpointProofs

\* The controller leaves the broker alone.
LEMMA FlowsRefineRegistrar == FSpec => RSpec
<1>1. FInit => RInit
  BY DEF FInit
<1>2. [FNext]_fvars => [RNext]_rvars
  BY DEF FNext, fvars, rvars, AddPolicy
<1>3. QED
  BY <1>1, <1>2, PTL DEF FSpec, RSpec

-----------------------------------------------------------------------------
(* Every endpoint has a record, relays included, which have no fingerprint by *)
(* which EndpointHasEnrollment could find it.                                 *)

EndpointsAreRecorded ==
    \A k \in AddrKeys : endpoints[k] # None =>
        \E rid \in RequestIDs : IsRegistered(rid) /\ pending[rid].token = endpoints[k].token

LEMMA NextRecorded ==
    ASSUME TypeOK, Linked, EndpointsAreRecorded, [RNext]_rvars
    PROVE  EndpointsAreRecorded'
<1>1. ASSUME NEW k \in AddrKeys, endpoints[k] # None, endpoints'[k].token = endpoints[k].token
      PROVE  \E rid \in RequestIDs :
                IsRegistered(rid)' /\ pending'[rid].token = endpoints'[k].token
  <2>1. PICK rid \in RequestIDs : IsRegistered(rid) /\ pending[rid].token = endpoints[k].token
    BY <1>1 DEF EndpointsAreRecorded
  <2>2. QED
    BY <1>1, <2>1, RegisteredStays DEF IsRegistered
<1>2. CASE UNCHANGED <<endpoints, nextID>>
  BY <1>1, <1>2 DEF EndpointsAreRecorded
<1>3. ASSUME NEW k \in AddrKeys, Marks(k)
      PROVE  EndpointsAreRecorded'
  BY <1>1, <1>3, MarkedEndpoint DEF EndpointsAreRecorded
<1>4. ASSUME NEW rid \in RequestIDs, NEW d \in Domains, NEW g \in Groups, NEW id \in EndpointIDs,
             Approves(rid, d, g), Stores(rid, d, g, id)
      PROVE  EndpointsAreRecorded'
  <2> DEFINE key == <<d, g, id>>
             token == NewToken(pending[rid], d, g, id)
  <2>1. pending[rid] # None /\ pending[rid] \in PendingEnroll
    BY <1>4 DEF Approves, TypeOK
  <2>2. key \in AddrKeys /\ \A k \in AddrKeys \ {key} : endpoints'[k] = endpoints[k]
    BY <1>4, <2>1, StoredEndpoint
  <2>3. endpoints'[key].token = token
    BY <1>4, <2>2 DEF Stores, TypeOK
  <2>4. pending'[rid] = Registered(pending[rid], token)
    BY <1>4 DEF Stores, TypeOK
  <2>5. token \in TokenClaims
    BY <2>1, <2>2 DEF NewToken, TokenClaims, EndpointAddr, PendingEnroll
  <2>6. IsRegistered(rid)' /\ pending'[rid].token = token
    <3>1. Registered(pending[rid], token) \in PendingEnroll
      BY <2>1, <2>5 DEF Registered, PendingEnroll, StateRegistered
    <3>2. Registered(pending[rid], token).state = StateRegistered
      BY <2>1 DEF Registered, PendingEnroll
    <3>3. Registered(pending[rid], token).token = token
      BY <2>1 DEF Registered, PendingEnroll
    <3>4. QED
      BY <2>4, <3>1, <3>2, <3>3, NoneAssumption DEF IsRegistered
  <2>7. ASSUME NEW k \in AddrKeys, endpoints'[k] # None
        PROVE  \E o \in RequestIDs : IsRegistered(o)' /\ pending'[o].token = endpoints'[k].token
    <3>1. CASE k = key
      BY <2>3, <2>6, <3>1
    <3>2. CASE k # key
      BY <1>1, <2>2, <2>7, <3>2
    <3>3. QED
      BY <3>1, <3>2
  <2>8. QED
    BY <2>7 DEF EndpointsAreRecorded
<1>5. QED
  BY <1>2, <1>3, <1>4, StepCases

-----------------------------------------------------------------------------
(* Who passes. *)

\* Whoever passes VerifyMessage is the endpoint it says it is, and reaches what
\* it may (controller.go): for any endpoints, keys, role bytes and policies.
THEOREM AuthenticFlows == FSpec => []FlowsAreAuthentic
<1>1. RInit => EndpointsAreRecorded
  BY DEF RInit, EndpointsAreRecorded
<1>2. IdentityInv /\ EndpointsAreRecorded /\ [RNext]_rvars => EndpointsAreRecorded'
  BY NextRecorded DEF IdentityInv, Linked
<1>3. IdentityInv /\ RelayDomainIsForRelays /\ EndpointsAreRecorded => FlowsAreAuthentic
  <2> SUFFICES ASSUME IdentityInv, RelayDomainIsForRelays, EndpointsAreRecorded,
                      NEW token \in IssuedTokens, NEW from \in EndpointAddr,
                      NEW signer \in Keys, NEW to \in EndpointAddr,
                      VerifyMessage(from, to, token, signer)
               PROVE  /\ endpoints[from.key] # None
                      /\ endpoints[from.key].token = token
                      /\ \E rid \in RequestIDs :
                            /\ pending[rid] # None
                            /\ pending[rid].token = token
                            /\ pending[rid].publicKey = signer
                      /\ HasState(to.key, StateActive)
                      /\ IF RoleOf(to.roleFlags) = RoleRelay
                         THEN RoleOf(endpoints[to.key].token.addr.roleFlags) = RoleRelay
                         ELSE /\ RoleOf(endpoints[from.key].token.addr.roleFlags) = RoleClient
                              /\ <<from.key[1], from.key[2]>> = <<to.key[1], to.key[2]>>
    BY DEF FlowsAreAuthentic
  <2>1. /\ token.addr = from
        /\ CheckFlowRules(from, to)
        /\ signer = token.publicKey
    BY DEF VerifyMessage, ValidateFlow
  <2>2. endpoints[from.key] # None /\ endpoints[from.key].token = token /\ from.key \in AddrKeys
    BY <2>1 DEF IssuedTokens, IdentityInv, TokenNamesItsSlot, EndpointAddr
  <2>3. \E rid \in RequestIDs :
           pending[rid] # None /\ pending[rid].token = token /\ pending[rid].publicKey = signer
    <3>1. PICK rid \in RequestIDs : IsRegistered(rid) /\ pending[rid].token = token
      BY <2>2 DEF EndpointsAreRecorded
    <3>2. QED
      BY <2>1, <3>1 DEF IdentityInv, RegistrationMatchesEndpoint, IsRegistered
  <2>4. CASE RoleOf(to.roleFlags) = RoleRelay
    <3>1. to.key[1] = RelayDomain /\ HasState(to.key, StateActive)
      BY <2>1, <2>4 DEF CheckFlowRules, RelayFlowAllowed
    <3>2. to.key \in AddrKeys
      BY DEF EndpointAddr
    <3>3. RoleOf(endpoints[to.key].token.addr.roleFlags) = RoleRelay
      BY <3>1, <3>2 DEF RelayDomainIsForRelays, HasState
    <3>4. QED
      BY <2>2, <2>3, <2>4, <3>1, <3>3
  <2>5. CASE RoleOf(to.roleFlags) # RoleRelay
    <3>1. StandardFlowAllowed(from, to)
      BY <2>1, <2>5 DEF CheckFlowRules
    <3>2. QED
      BY <2>1, <2>2, <2>3, <2>5, <3>1 DEF StandardFlowAllowed
  <2>6. QED
    BY <2>4, <2>5
<1>4. QED
  BY <1>1, <1>2, <1>3, FlowsRefineRegistrar, IdentityCorrect, ReservedDomain, PTL DEF RSpec

-----------------------------------------------------------------------------
(* When a flow ends. *)

\* What a step of the broker cannot take from a flow: the token stays issued,
\* what has expired stays expired, and the destination only becomes revoked.
LEMMA StepKeepsFlows ==
    ASSUME IdentityInv, [RNext]_rvars
    PROVE  /\ IssuedTokens \subseteq IssuedTokens'
           /\ expired \subseteq expired'
           /\ \A k \in AddrKeys :
                 /\ HasState(k, StateActive) => HasState(k, StateActive)' \/ HasState(k, StateRevoked)'
                 /\ HasState(k, StateRevoked) => HasState(k, StateRevoked)'
<1> DEFINE Kept(k) == /\ endpoints'[k] # None
                      /\ endpoints'[k].token = endpoints[k].token
                      /\ endpoints[k].state \in {StateActive, StateRevoked}
                            => endpoints'[k].state \in {endpoints[k].state, StateRevoked}
<1>1. TypeOK /\ Linked
  BY DEF IdentityInv, Linked
<1>2. ASSUME NEW k \in AddrKeys, endpoints[k] # None
      PROVE  Kept(k)
  <2>1. CASE UNCHANGED <<endpoints, nextID>>
    BY <1>2, <2>1
  <2>2. ASSUME NEW l \in AddrKeys, Marks(l)
        PROVE  Kept(k)
    BY <1>1, <1>2, <2>2, MarkedEndpoint DEF StateRegistered, StateActive, StateRevoked
  <2>3. ASSUME NEW rid \in RequestIDs, NEW d \in Domains, NEW g \in Groups, NEW id \in EndpointIDs,
               Approves(rid, d, g), Stores(rid, d, g, id)
        PROVE  Kept(k)
    <3>1. pending[rid] # None
      BY <2>3 DEF Approves
    <3>2. endpoints'[k] = endpoints[k]
      BY <1>1, <1>2, <2>3, <3>1, StoredEndpoint
    <3>3. QED
      BY <1>2, <3>2
  <2>4. QED
    BY <1>1, <2>1, <2>2, <2>3, StepCases
<1>3. IssuedTokens \subseteq IssuedTokens'
  BY <1>2 DEF IssuedTokens
<1>4. expired \subseteq expired'
  BY DEF RNext, EnrollStep, EnrollNew, ConfirmStep, ConfirmBadSignature, ConfirmRelay,
         ConfirmPreApproved, ConfirmPending, RegisterApproved, AdminStep, PreApprove,
         ApproveEnrollment, DenyEnrollment, RevokeEndpoint, ServiceStep, ActivateEndpoint,
         ObserveEndpoint, SetRelayRoute, ClearReachability, TokenExpires, rvars
<1>5. QED
  BY <1>2, <1>3, <1>4 DEF HasState, StateActive, StateRevoked

\* A message that passed stops passing only for one of three reasons, and after
\* expiry or revocation for good (controller.go; RevokeEndpoint, VerifyToken).
THEOREM FlowsEnd == FSpec => FlowsEndForGood
<1> DEFINE Ends(token, to) ==
          /\ (/\ VerifyMessage(token.addr, to, token, token.publicKey)
              /\ ~VerifyMessage(token.addr, to, token, token.publicKey)')
                => \/ token \in expired'
                   \/ HasState(to.key, StateRevoked)'
                   \/ policies' # policies /\ RoleOf(to.roleFlags) # RoleRelay
          /\ (token \in expired \/ HasState(to.key, StateRevoked))
                => ~VerifyMessage(token.addr, to, token, token.publicKey)'
<1>1. ASSUME IdentityInv, [RNext]_rvars, NEW token \in IssuedTokens, NEW to \in EndpointAddr
      PROVE  Ends(token, to)
  <2>1. to.key \in AddrKeys
    BY DEF EndpointAddr
  <2>2. /\ token \in IssuedTokens'
        /\ expired \subseteq expired'
        /\ HasState(to.key, StateActive) => HasState(to.key, StateActive)' \/ HasState(to.key, StateRevoked)'
        /\ HasState(to.key, StateRevoked) => HasState(to.key, StateRevoked)'
    BY <1>1, <2>1, StepKeepsFlows
  <2>3. ASSUME token \in expired \/ HasState(to.key, StateRevoked)
        PROVE  ~VerifyMessage(token.addr, to, token, token.publicKey)'
    BY <2>2, <2>3 DEF VerifyMessage, ValidateFlow, ValidTokens, CheckFlowRules,
                      RelayFlowAllowed, StandardFlowAllowed, HasState, StateActive, StateRevoked
  <2>4. ASSUME VerifyMessage(token.addr, to, token, token.publicKey),
               token \notin expired', ~HasState(to.key, StateRevoked)',
               policies' = policies \/ RoleOf(to.roleFlags) = RoleRelay
        PROVE  VerifyMessage(token.addr, to, token, token.publicKey)'
    <3>1. token \in ValidTokens'
      BY <2>2, <2>4 DEF ValidTokens
    <3>2. HasState(to.key, StateActive)'
      BY <2>2, <2>4 DEF VerifyMessage, ValidateFlow, CheckFlowRules, RelayFlowAllowed,
                        StandardFlowAllowed
    <3>3. CheckFlowRules(token.addr, to)'
      <4>1. CASE RoleOf(to.roleFlags) = RoleRelay
        BY <2>4, <3>2, <4>1 DEF VerifyMessage, ValidateFlow, CheckFlowRules, RelayFlowAllowed
      <4>2. CASE RoleOf(to.roleFlags) # RoleRelay
        BY <2>4, <3>2, <4>2 DEF VerifyMessage, ValidateFlow, CheckFlowRules, StandardFlowAllowed
      <4>3. QED
        BY <4>1, <4>2
    <3>4. QED
      BY <3>1, <3>3 DEF VerifyMessage, ValidateFlow
  <2>5. QED
    BY <2>3, <2>4
<1>2. IdentityInv /\ [FNext]_fvars
        => [\A token \in IssuedTokens, to \in EndpointAddr : Ends(token, to)]_fvars
  <2>1. [FNext]_fvars => [RNext]_rvars
    BY DEF FNext, fvars, rvars, AddPolicy
  <2>2. QED
    BY <1>1, <2>1
<1>3. QED
  BY <1>2, FlowsRefineRegistrar, IdentityCorrect, PTL DEF FSpec, FlowsEndForGood
=============================================================================
