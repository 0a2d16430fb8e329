-------------------------- MODULE RegistrarLifecycle --------------------------
(***************************************************************************)
(* The registrar as an implementation of DeviceLifecycle: what its maps    *)
(* say of a device, taken together, is the state of that device.           *)
(***************************************************************************)
EXTENDS Registrar

\* The state of a device as the broker's maps hold it together: no index entry
\* is "unknown"; a registered enrolment has the state of its endpoint.
LifeOf(fp) ==
    IF byFingerprint[fp] = None THEN "unknown"
    ELSE LET pe == pending[byFingerprint[fp]] IN
         IF pe.state # StateRegistered THEN pe.state
         ELSE endpoints[pe.token.addr.key].state

Lifecycle == INSTANCE DeviceLifecycle
                 WITH Devices <- Fingerprints,
                      life    <- [fp \in Fingerprints |-> LifeOf(fp)]

\* The registrar implements the device lifecycle: every call of any caller
\* moves at most one device, and along an edge of the state machine.
ImplementsLifecycle == Lifecycle!Spec
=============================================================================
