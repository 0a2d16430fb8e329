---------------------------- MODULE MCEnrollment ----------------------------
(* Endpoints and broker on small sets. *)
EXTENDS Enrollment

\* Machines enrol as clients, relays have no fingerprint.
MCFlagsOf(fp) == IF fp = NoFingerprint THEN RoleRelay ELSE RoleClient

MCRelayTargets == {<<0, 0, 1>>}
MCExpiringKeys == AddrKeys
=============================================================================
