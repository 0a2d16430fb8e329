------------------------------ MODULE FlowControl ------------------------------
(***************************************************************************)
(* The controller of a swarm (swarm/controller.go, swarm/policy.go): which *)
(* messages of which sender it lets through to which destination.          *)
(*                                                                         *)
(* The controller keeps nothing but its policies: every answer is worked   *)
(* out of the sender's token, the registrar's table of endpoints at that   *)
(* moment and the policies added so far.  VerifyMessage and ValidateFlow   *)
(* are therefore predicates over the state of Registrar, and AddPolicy is  *)
(* the one action.  A payload signature is the key that made it.  All      *)
(* policies must agree, so their order only chooses the error text and the *)
(* slice is a set.                                                         *)
(***************************************************************************)
EXTENDS Registrar

CONSTANT Policies   \* what AddPolicy is called with: records of the two kinds below

VARIABLE policies

fvars == <<rvars, policies>>

\* An AllowListPolicy lists pairs of sides; a side is a domain, a group, a role.
AllowListPolicy(rules) == [kind |-> "allow", rules |-> rules]

\* A DenyEndpointPolicy lists senders by AddrKey.
DenyEndpointPolicy(blocked) == [kind |-> "deny", blocked |-> blocked]

SideOf(addr) == [domain |-> addr.key[1], group |-> addr.key[2],
                 role   |-> RoleOf(addr.roleFlags)]

Evaluate(policy, from, to) ==
    IF policy.kind = "allow"
    THEN [from |-> SideOf(from), to |-> SideOf(to)] \in policy.rules
    ELSE from.key \notin policy.blocked

RelayFlowAllowed(to) ==
    /\ to.key[1] = RelayDomain
    /\ HasState(to.key, StateActive)

\* Mutant of StandardFlowAllowed: the destination's state is not looked at.
StandardFlowAllowedAnyState(from, to) ==
    /\ RoleOf(from.roleFlags) = RoleClient
    /\ RoleOf(to.roleFlags) = RoleAgent
    /\ from.key[1] = to.key[1]
    /\ from.key[2] = to.key[2]
    /\ \A p \in policies : Evaluate(p, from, to)

\* The roles are those the two addresses carry.  The destination's record is
\* looked up by its AddrKey, which has no role, so its own flags play no part.
StandardFlowAllowed(from, to) ==
    /\ RoleOf(from.roleFlags) = RoleClient
    /\ RoleOf(to.roleFlags) = RoleAgent
    /\ from.key[1] = to.key[1]
    /\ from.key[2] = to.key[2]
    /\ HasState(to.key, StateActive)
    /\ \A p \in policies : Evaluate(p, from, to)

\* A relay destination is decided before the policies are reached.
CheckFlowRules(from, to) ==
    IF RoleOf(to.roleFlags) = RoleRelay THEN RelayFlowAllowed(to)
    ELSE StandardFlowAllowed(from, to)

\* Mutant of ValidateFlow: the token is not compared with the sender's address.
ValidateFlowAnySender(from, to, token) ==
    token \in ValidTokens /\ CheckFlowRules(from, to)

ValidateFlow(from, to, token) ==
    /\ token \in ValidTokens
    /\ token.addr = from
    /\ CheckFlowRules(from, to)

VerifyMessage(from, to, token, signer) ==
    /\ ValidateFlow(from, to, token)
    /\ signer = token.publicKey

AddPolicy(p) ==
    /\ policies' = policies \union {p}
    /\ UNCHANGED rvars

FInit == RInit /\ policies = {}

FNext ==
    \/ RNext /\ UNCHANGED policies
    \/ \E p \in Policies : AddPolicy(p)

FSpec == FInit /\ [][FNext]_fvars

-----------------------------------------------------------------------------
(* Properties. *)

\* Whoever passes VerifyMessage is the endpoint it says it is: the address is
\* registered under exactly the token shown, the signer is the key that
\* enrolled for it, and what it reaches is an active endpoint, a real relay
\* when it asks for one and otherwise one of its own domain and group.  A
\* revoked sender is not excluded: the code never looks at the sender's state.
FlowsAreAuthentic ==
    \A token \in IssuedTokens, from \in EndpointAddr, signer \in Keys, to \in EndpointAddr :
        VerifyMessage(from, to, token, signer) =>
            /\ endpoints[from.key] # None
            /\ endpoints[from.key].token = token
            /\ \E rid \in RequestIDs :
                  /\ pending[rid] # None
                  /\ pending[rid].token = token
                  /\ pending[rid].publicKey = signer
            /\ HasState(to.key, StateActive)
            /\ IF RoleOf(to.roleFlags) = RoleRelay
               THEN RoleOf(endpoints[to.key].token.addr.roleFlags) = RoleRelay
               ELSE /\ RoleOf(endpoints[from.key].token.addr.roleFlags) = RoleClient
                    /\ <<from.key[1], from.key[2]>> = <<to.key[1], to.key[2]>>

\* The end of a flow has a reason and is final: a message that passed stops
\* passing only when its token expires, its destination is revoked or a policy
\* is added, which never touches the way to a relay; and after expiry or
\* revocation no call of any kind lets it through again.
FlowsEndForGood ==
    [][\A token \in IssuedTokens, to \in EndpointAddr :
          /\ (/\ VerifyMessage(token.addr, to, token, token.publicKey)
              /\ ~VerifyMessage(token.addr, to, token, token.publicKey)')
                => \/ token \in expired'
                   \/ HasState(to.key, StateRevoked)'
                   \/ policies' # policies /\ RoleOf(to.roleFlags) # RoleRelay
          /\ (token \in expired \/ HasState(to.key, StateRevoked))
                => ~VerifyMessage(token.addr, to, token, token.publicKey)']_fvars
=============================================================================
