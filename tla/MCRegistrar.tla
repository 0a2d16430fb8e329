---------------------------- MODULE MCRegistrar ----------------------------
(* The registrar on small sets, with the lifecycle of a device it implements. *)
EXTENDS RegistrarLifecycle, TLC

MCRelayTargets == {<<0, 0, 1>>}
MCExpiringKeys == {<<1, 0, 1>>}

Symmetry == Permutations(Keys) \union Permutations(RequestIDs) \union Permutations(Fingerprints)
            \union Permutations(ObservedAddrs)
=============================================================================
