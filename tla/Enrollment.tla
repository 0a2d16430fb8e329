----------------------------- MODULE Enrollment -----------------------------
(***************************************************************************)
(* Zero-touch enrolment end to end: endpoint processes (swarm/endpoint.go) *)
(* that call the broker (Registrar), crash and come back.                  *)
(*                                                                         *)
(* NewEndpoint draws a fresh key pair, so a process is identified by its   *)
(* key; the fingerprint belongs to the machine and survives a restart.     *)
(* Each call to the broker is one step, together with what the endpoint    *)
(* does with the answer; anything may happen between two calls.  AutoEnroll*)
(* and Activate are the sequences of calls that the control point pc walks *)
(* through; the timers of the polling loop only delay, and are left out.   *)
(***************************************************************************)
EXTENDS Registrar

CONSTANT FlagsOf(_)   \* the RoleFlags an endpoint with this fingerprint sends

ASSUME FlagsAssumption ==
    \A fp \in Fingerprints \union {NoFingerprint} : FlagsOf(fp) \in RoleFlagBytes

StateUnregistered == "unregistered"

VARIABLE proc         \* key -> the Endpoint object of the process

evars == <<proc>>
vars  == <<rvars, proc>>

\* Where the process is:
\*   "off"      not started      "idle"     before AutoEnroll
\*   "confirm"  challenge known  "poll"     in the polling loop
\*   "enrolled" AutoEnroll done  "fetch"    between the two calls of Activate
\*   "running"  Activate done    "failed"   the last call returned an error
\*   "dead"     crashed
Places == {"off", "idle", "confirm", "poll", "enrolled", "fetch", "running",
           "failed", "dead"}

EndpointObject ==
    [fingerprint : Fingerprints \union {NoFingerprint},
     state       : {StateUnregistered, StateChallengeIssued, StatePending,
                    StateRegistered, StateActive, StateDenied},
     requestID   : RequestIDs \union {None},
     token       : TokenClaims \union {None},
     pc          : Places]

Off == [fingerprint |-> NoFingerprint, state |-> StateUnregistered,
        requestID |-> None, token |-> None, pc |-> "off"]

Alive(k) == proc[k].pc \notin {"off", "dead"}

Init == RInit /\ proc = [k \in Keys |-> Off]

\* The fields of k's Endpoint object take the values given by function new.
Update(k, new) == proc' = [proc EXCEPT ![k] = new]

-----------------------------------------------------------------------------
(* The life of a process. *)

\* Bound of the model: AutoEnroll is started only while the pool of request
\* IDs has one for it.  The code draws them from 2^128.
RequestIDsLeft ==
    Cardinality({k \in Keys : proc[k].pc = "idle"}) < Cardinality(RequestIDs \ drawn)

\* NewEndpoint on a machine.  Nothing keeps a second process of a machine from
\* starting while the first one runs.
Boot(k, fp) ==
    /\ proc[k].pc = "off"
    /\ RequestIDsLeft
    /\ Update(k, [Off EXCEPT !.fingerprint = fp, !.pc = "idle"])
    /\ UNCHANGED rvars

\* The process stops: its key and all it knew are lost.
Crash(k) ==
    /\ Alive(k)
    /\ Update(k, [proc[k] EXCEPT !.pc = "dead"])
    /\ UNCHANGED rvars

\* AutoEnroll is called again after an error.  It refuses, and the process is
\* stuck, unless the error had put the endpoint back to unregistered.
Retry(k) ==
    /\ proc[k].pc = "failed"
    /\ proc[k].state = StateUnregistered
    /\ RequestIDsLeft
    /\ Update(k, [proc[k] EXCEPT !.pc = "idle"])
    /\ UNCHANGED rvars

-----------------------------------------------------------------------------
(* AutoEnroll. *)

Fp(k)  == proc[k].fingerprint
Rid(k) == proc[k].requestID

\* Endpoint.Enroll: the broker answers with a fresh request or the known one.
Enroll(k) ==
    /\ proc[k].pc = "idle"
    /\ \E rid \in RequestIDs :
          /\ \/ EnrollNew(k, Fp(k), FlagsOf(Fp(k)), rid)
             \/ /\ KnownEnrollment(Fp(k))
                /\ rid = byFingerprint[Fp(k)]
                /\ UNCHANGED rvars
          /\ Update(k, [proc[k] EXCEPT !.state = StateChallengeIssued,
                                       !.requestID = rid,
                                       !.pc = "confirm"])

\* Mutant of ApplyStatus: an endpoint that was denied goes on polling.
ApplyStatusPollsDenied(object, pe) ==
    [object EXCEPT
        !.state = IF pe.state = StateChallengeIssued THEN @ ELSE pe.state,
        !.token = IF pe.state = StateRegistered THEN pe.token ELSE @,
        !.pc    = IF pe.state = StateRegistered THEN "enrolled" ELSE "poll"]

\* applyStatus, and where AutoEnroll goes with that status: a challenge is no
\* status that applyStatus knows, and AutoEnroll goes on polling.
ApplyStatus(object, pe) ==
    [object EXCEPT
        !.state = IF pe.state = StateChallengeIssued THEN @ ELSE pe.state,
        !.token = IF pe.state = StateRegistered THEN pe.token ELSE @,
        !.pc    = IF pe.state = StateRegistered THEN "enrolled"
                  ELSE IF pe.state = StateDenied THEN "failed" ELSE "poll"]

\* Endpoint.ConfirmEnrollment got an error: back to unregistered.
ConfirmFailed(k) == [proc[k] EXCEPT !.state = StateUnregistered, !.pc = "failed"]

\* The broker verifies the signature and decides.
ConfirmDecided(k) ==
    /\ proc[k].pc = "confirm"
    /\ \/ ConfirmRelay(Rid(k), k)
       \/ ConfirmPreApproved(Rid(k), k)
       \/ ConfirmPending(Rid(k), k)
    /\ Update(k, ApplyStatus(proc[k], pending'[Rid(k)]))

\* The record has left the challenge state: the broker answers with its status
\* and does not look at the signature.
ConfirmAnswered(k) ==
    /\ proc[k].pc = "confirm"
    /\ pending[Rid(k)] # None
    /\ ~AwaitsConfirm(Rid(k))
    /\ Update(k, ApplyStatus(proc[k], pending[Rid(k)]))
    /\ UNCHANGED rvars

\* The record waits for the signature of another key: it is forgotten.
ConfirmRefused(k) ==
    /\ proc[k].pc = "confirm"
    /\ ConfirmBadSignature(Rid(k), k)
    /\ Update(k, ConfirmFailed(k))

\* The record is gone, or registerApproved failed because the group is full.
ConfirmError(k) ==
    /\ proc[k].pc = "confirm"
    /\ \/ pending[Rid(k)] = None
       \/ /\ AwaitsConfirm(Rid(k))
          /\ pending[Rid(k)].publicKey = k
          /\ LET group == IF RoleOf(pending[Rid(k)].roleFlags) = RoleRelay
                          THEN <<RelayDomain, RelayGroup>> ELSE PreApprovedFor(Rid(k))
             IN  group # None /\ countEndpoints(group[1], group[2]) >= MaxEndpoints
    /\ Update(k, ConfirmFailed(k))
    /\ UNCHANGED rvars

\* Endpoint.Poll answered: the poll was signed with the key that enrolled.
PollAnswered(k) ==
    /\ proc[k].pc = "poll"
    /\ pending[Rid(k)] # None
    /\ pending[Rid(k)].publicKey = k
    /\ Update(k, ApplyStatus(proc[k], pending[Rid(k)]))
    /\ UNCHANGED rvars

\* Endpoint.Poll refused: the record is gone, or waits for the key of an earlier
\* process.  AutoEnroll returns and the endpoint stays in the state it had.
PollRefused(k) ==
    /\ proc[k].pc = "poll"
    /\ pending[Rid(k)] = None \/ pending[Rid(k)].publicKey # k
    /\ Update(k, [proc[k] EXCEPT !.pc = "failed"])
    /\ UNCHANGED rvars

\* The caller cancels AutoEnroll's context while it waits for its timer.
Cancel(k) ==
    /\ proc[k].pc = "poll"
    /\ Update(k, [proc[k] EXCEPT !.pc = "failed"])
    /\ UNCHANGED rvars

-----------------------------------------------------------------------------
(* Activate, and the calls of an active endpoint. *)

\* First call: ActivateEndpoint.
Activate(k) ==
    /\ proc[k].pc = "enrolled"
    /\ ActivateEndpoint(proc[k].token.addr, proc[k].token)
    /\ Update(k, [proc[k] EXCEPT !.state = StateActive, !.pc = "fetch"])

\* The broker refuses: token expired, or the endpoint is not in Registered.
ActivateRefused(k) ==
    /\ proc[k].pc = "enrolled"
    /\ ~(/\ proc[k].token \in ValidTokens
         /\ HasState(proc[k].token.addr.key, StateRegistered))
    /\ Update(k, [proc[k] EXCEPT !.pc = "failed"])
    /\ UNCHANGED rvars

\* Second call: FullRegistrationInfo, refused when the endpoint was revoked
\* since the first.
FetchInfo(k) ==
    /\ proc[k].pc = "fetch"
    /\ Update(k, [proc[k] EXCEPT
           !.pc = IF HasState(proc[k].token.addr.key, StateActive) THEN "running" ELSE "failed"])
    /\ UNCHANGED rvars

\* Endpoint.SetRelayRoute.
ReportRelay(k, r) ==
    /\ Alive(k)
    /\ proc[k].state = StateActive
    /\ SetRelayRoute(proc[k].token.addr.key, proc[k].token, r)
    /\ UNCHANGED evars

-----------------------------------------------------------------------------

EndpointStep(k) ==
    \/ Enroll(k) \/ ConfirmDecided(k) \/ ConfirmAnswered(k) \/ ConfirmRefused(k)
    \/ ConfirmError(k) \/ PollAnswered(k) \/ PollRefused(k) \/ Activate(k)
    \/ ActivateRefused(k) \/ FetchInfo(k)

\* The administrator decides about an enrolment that waits for a decision.
Decide(rid) ==
    /\ pending[rid] # None
    /\ pending[rid].state = StatePending
    /\ \/ \E d \in Domains, g \in Groups : ApproveEnrollment(rid, d, g)
       \/ DenyEnrollment(rid)
    /\ UNCHANGED evars

Admin ==
    /\ AdminStep
    /\ UNCHANGED evars

Expiry ==
    /\ \E token \in IssuedTokens : TokenExpires(token)
    /\ UNCHANGED evars

Next ==
    \/ \E k \in Keys : EndpointStep(k) \/ Cancel(k) \/ Crash(k) \/ Retry(k)
    \/ \E k \in Keys, fp \in Fingerprints \union {NoFingerprint} : Boot(k, fp)
    \/ \E k \in Keys, r \in RelayTargets : ReportRelay(k, r)
    \/ Admin
    \/ Expiry

Spec == Init /\ [][Next]_vars

\* A process that runs takes its next step, and the administrator does not stop
\* deciding while enrolments wait for it.
Fairness == /\ \A k \in Keys : WF_vars(EndpointStep(k))
            /\ WF_vars(\E rid \in RequestIDs : Decide(rid))

FairSpec == Spec /\ Fairness

-----------------------------------------------------------------------------
(* Properties. *)

\* The Endpoint objects have the types of their fields.
EndpointTypeOK == proc \in [Keys -> EndpointObject]

\* What a process believes is never ahead of the broker: each state of the
\* Endpoint object implies that the broker's records have reached it, whatever
\* the administrator and other processes of the machine have done since.
BrokerIsAhead ==
    \A k \in Keys :
        LET pe   == pending[Rid(k)]
            slot == proc[k].token.addr.key
        IN  /\ proc[k].state = StatePending =>
                  pe # None /\ pe.state \in {StatePending, StateRegistered, StateDenied}
            /\ proc[k].state = StateDenied => pe # None /\ pe.state = StateDenied
            /\ proc[k].state = StateRegistered =>
                  endpoints[slot] # None /\ endpoints[slot].token = proc[k].token
            /\ proc[k].state = StateActive =>
                  /\ endpoints[slot] # None
                  /\ endpoints[slot].token = proc[k].token
                  /\ endpoints[slot].state \in {StateActive, StateRevoked}

\* A machine is only ever given its own identity: the request and the token a
\* process holds carry its fingerprint, also when they were made for an
\* earlier process of the same machine.
IdentityIsOwn ==
    \A k \in Keys :
        /\ (Rid(k) # None /\ pending[Rid(k)] # None)
              => pending[Rid(k)].fingerprint = Fp(k)
        /\ proc[k].token # None => proc[k].token.fingerprint = Fp(k)

\* An address is of one machine: two processes, dead or alive, that have been
\* given the same address run on the same machine and hold the same token; a
\* relay, which has no fingerprint, shares its address with no other process.
AddressIsOfOneMachine ==
    \A k, l \in Keys :
        /\ k # l
        /\ proc[k].token # None /\ proc[l].token # None
        /\ proc[k].token.addr.key = proc[l].token.addr.key
        => /\ Fp(k) = Fp(l) /\ Fp(k) # NoFingerprint
           /\ proc[k].token = proc[l].token

\* AutoEnroll and Activate come to an end: a process that has started to enrol
\* is running, has got an error, or has crashed, sooner or later.
EnrollmentEnds ==
    \A k \in Keys : proc[k].pc \in {"idle", "confirm", "poll", "enrolled", "fetch"}
                       ~> proc[k].pc \in {"running", "failed", "dead"}

\* swarm/endpoint.go says that the token of an endpoint binds its public key.
\* The process that runs after a restart would then hold a token for its own
\* key, the one it signs its messages with.
TokenBindsItsKey ==
    \A k \in Keys :
        proc[k].state \in {StateRegistered, StateActive} => proc[k].token.publicKey = k

-----------------------------------------------------------------------------
(* The inductive invariant behind the first three. *)

\* A process waits for an answer about a request, and has a state other than
\* unregistered because of one.
KnowsItsRequest(k) ==
    proc[k].pc \in {"confirm", "poll"} \/ proc[k].state \in {StatePending, StateDenied}
        => Rid(k) # None

\* The request a process holds was drawn, so no other can take its place, and
\* was made for its fingerprint.  A relay is only ever told of its own request.
RequestIsOwn(k) ==
    Rid(k) # None =>
        /\ Rid(k) \in drawn
        /\ pending[Rid(k)] # None =>
              /\ pending[Rid(k)].fingerprint = Fp(k)
              /\ Fp(k) = NoFingerprint => pending[Rid(k)].publicKey = k

\* A process holds a token exactly when it is registered or active, and then its
\* request is registered under that token.
TokenIsRegistered(k) ==
    /\ proc[k].token # None <=> proc[k].state \in {StateRegistered, StateActive}
    /\ proc[k].token # None =>
          /\ proc[k].pc \in {"enrolled", "fetch", "running", "failed", "dead"}
          /\ Rid(k) # None
          /\ pending[Rid(k)] # None
          /\ pending[Rid(k)].state = StateRegistered
          /\ pending[Rid(k)].token = proc[k].token

\* Pending, denied and active processes are not ahead of the broker.
StatusIsKnown(k) ==
    /\ proc[k].state = StatePending =>
          pending[Rid(k)] # None /\ pending[Rid(k)].state # StateChallengeIssued
    /\ proc[k].state = StateDenied =>
          pending[Rid(k)] # None /\ pending[Rid(k)].state = StateDenied
    /\ proc[k].state = StateActive =>
          endpoints[proc[k].token.addr.key].state \in {StateActive, StateRevoked}

ProcessInv(k) == /\ KnowsItsRequest(k)
                 /\ RequestIsOwn(k)
                 /\ TokenIsRegistered(k)
                 /\ StatusIsKnown(k)

EnrollmentInv == /\ IdentityInv
                 /\ EndpointTypeOK
                 /\ \A k \in Keys : ProcessInv(k)
=============================================================================
