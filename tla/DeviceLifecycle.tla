--------------------------- MODULE DeviceLifecycle ---------------------------
(***************************************************************************)
(* What the broker promises about one device, told without the broker's    *)
(* maps: the state machine of swarm/types.go, from the first enrolment     *)
(* request to revocation.  One step moves one device along one edge.  A    *)
(* device that was denied or revoked stays so.                             *)
(***************************************************************************)
CONSTANT Devices

VARIABLE life

States == {"unknown", "challenge_issued", "pending", "registered", "active",
           "denied", "revoked"}

\* The edges.  A challenge that is not answered with the right signature makes
\* the broker forget the device; an enrolment that is approved automatically
\* goes from the challenge to registered.
Edges == {<<"unknown", "challenge_issued">>,
          <<"challenge_issued", "unknown">>,
          <<"challenge_issued", "pending">>,
          <<"challenge_issued", "registered">>,
          <<"challenge_issued", "denied">>,
          <<"pending", "registered">>,
          <<"pending", "denied">>,
          <<"registered", "active">>,
          <<"registered", "revoked">>,
          <<"active", "revoked">>}

Init == life = [d \in Devices |-> "unknown"]

Move(d, to) == /\ <<life[d], to>> \in Edges
               /\ life' = [life EXCEPT ![d] = to]

Next == \E d \in Devices, to \in States : Move(d, to)

Spec == Init /\ [][Next]_life
=============================================================================
