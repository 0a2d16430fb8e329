------------------------------ MODULE MCFlow ------------------------------
(* The controller over a registrar with two devices. *)
EXTENDS FlowControl, TLC

MCRelayTargets == {<<0, 0, 1>>}
MCExpiringKeys == {<<1, 0, 1>>, <<1, 0, 2>>}

\* Clients may talk to agents of domain 1; the first endpoint of domain 1 may not.
MCPolicies ==
    {AllowListPolicy({[from |-> [domain |-> 1, group |-> 0, role |-> RoleClient],
                       to   |-> [domain |-> 1, group |-> 0, role |-> RoleAgent]]}),
     DenyEndpointPolicy({<<1, 0, 1>>})}

Symmetry == Permutations(Keys) \union Permutations(RequestIDs) \union Permutations(Fingerprints)
=============================================================================
