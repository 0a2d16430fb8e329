# A verification of Gole

TLA+ models of the parts of [Gole](../src/README.md) that hold state and run
concurrently, the TLC configurations that check them, and proofs, checked by
TLAPS, that the safety properties of every part hold for any number of machines,
connections, tries, datagrams and bytes of key.

Gole is a tunnel between two hosts behind NATs (`src/*.go`), together with a
package `src/swarm` in which endpoints enrol with a broker, find each other, and
talk directly or over relays.

## 1. Inventory

| Component | State | Operations | What makes it correct |
|---|---|---|---|
| **Registrar**, the broker (`swarm/registrar.go`) | `endpoints`, `pending`, `byFingerprint`, `preApproved`, `nextID`, `reachability`, all under one mutex | `Enroll`, `ConfirmEnrollment`, `PreApprove`, `ApproveEnrollment`, `DenyEnrollment`, `ActivateEndpoint`, `RevokeEndpoint`, `ObserveEndpoint`, `SetRelayRoute`, `ClearReachability`; queries | the maps agree; one address per machine, for good; revocation is final; the ID scan finds what is free |
| **Endpoint** (`swarm/endpoint.go`) | its key, `state`, `requestID`, `addr`, `token` | `AutoEnroll` = `Enroll`, `ConfirmEnrollment`, `Poll`...; `Activate` (two calls) | it never believes more than the broker has recorded, whatever happened between two of its calls; an address is of one machine; it gets to an end |
| **Flow control** (`swarm/controller.go`, `policy.go`) | the policies; reads the broker's records | `VerifyMessage`, `ValidateFlow`, `AddPolicy` | who passes is who it says it is and reaches what it may; a flow that has ended does not come back |
| **Transport selection** (`swarm/discovery.go`, `Discover`) | `relays`, `decision`, `monitor`; a goroutine per monitor | `Discover`, `SetTransportConfig`, `StopMonitor`; the monitor's loop and callback | one monitor at most; the selected path is near the best; stopping returns; a decision that a monitor has set stays of the kind it finds |
| **RelayServer** (`swarm/relay.go`) | `sessions`; a mutex per session; a goroutine per connection | authenticate, ping, forward, no route, clean-up | frames arrive whole and where they were sent; a session is the newest one and is served; nobody waits forever |
| **PunchUDP** (`holepunch.go`) | a WaitGroup, a channel, a context, the socket's read deadline, flags; two goroutines and the caller | HELO / OKAY handshake, retries, failure | a connection is returned only if both ways are open; an error is returned, not a panic; nobody else reads the connection afterwards |
| **PunchTCP** (`holepunch.go`) | tries | dial until the simultaneous open succeeds, handshake | a connection is returned to peers of the same key; the handshake eats no data of the tunnel |
| **XOR cipher** (`crypt.go`) | key-stream positions of a connection, one per direction | `Read`, `Write` | both ends are at the same position |
| **UDP tunnel** (`client.go`, `server.go`) | `client_addr`, the channel `sent`, deadlines; two goroutines at each end | copy datagrams both ways | answers go to an application that has spoken; an idle tunnel ends |
| **Stream tunnel**, TCP and KCP (`client.go`, `server.go`, `common.go`) | an smux session, streams, a listener; four copiers per connection and a goroutine that watches the session | accept, open a stream, copy both ways | the end of a direction does not overtake its data; the copiers of a side end together; a dead session ends both processes |
| **SOCKS5** (`s5/`) | `Conns`, a global slice without a lock; a goroutine per connection and one copier more | handshake, dial, copy, remove | removing a connection never panics; handlers end |
| **gole** (`main.go`, `cli.go`) | configuration | which of the parts above runs | - |
| Tokens (`swarm/paseto.go`) | - | `SignToken`, `VerifyToken` | only the broker's tokens verify, until they expire |
| Machine identity, configuration, the swarm command line | files | read | - |

How they interact: an endpoint calls the broker's methods directly (the package
has no transport for them yet); the controller reads the broker's endpoints;
Discover reads the broker's reachability records and probes relays and the peer;
a relay only checks tokens with the broker's public key; the tunnels take the
connection that a punch returns; the server of a stream tunnel hands its streams
to SOCKS5 when no forward address is configured.

The hard behaviours are: calls of several endpoints and the administrator in
any order (broker); processes that restart, or run beside each other, with
a new key but the machine's old fingerprint (enrolment); messages that come after an expiry or a revocation
(flow control); handlers of several connections that write on the same one and
clean up after each other (relay); two goroutines, a deadline and a channel that
three parties close or wait for, on a network that loses and reorders
(punching), and that may still be there when the tunnel begins (UDP tunnel); a
background goroutine that overwrites a decision (monitor); copiers that close
each other's connections (stream tunnel); a slice that goroutines change in
place (SOCKS5). `PROJECT.json` lists these hazards at their lines.

## 2. Modules

| Module | What it is |
|---|---|
| `Registrar.tla` | the broker: one action per method, uint16 ID allocation included |
| `DeviceLifecycle.tla` | abstract specification: the state machine of one device |
| `RegistrarLifecycle.tla`, `MCRegistrar.tla` | refinement mapping from the broker's maps to the lifecycle; its instance for TLC |
| `Enrollment.tla`, `MCEnrollment.tla` | endpoint processes composed with `Registrar` |
| `FlowControl.tla`, `MCFlow.tla` | the controller composed with `Registrar` |
| `RelayServer.tla`, `MCRelayServer.tla` | the relay |
| `HolePunchUDP.tla` | the two peers of `PunchUDP` and the network between them |
| `TransportMonitor.tla` | `Discover`, selection, the monitor's goroutine |
| `HolePunchTCP.tla` | `PunchTCP` of both peers and the cipher stream of the connection |
| `UdpTunnel.tla` | both ends of the UDP tunnel, from what `PunchUDP` leaves behind |
| `StreamTunnel.tla` | both ends of the TCP or KCP tunnel and one connection through it |
| `Socks5.tla` | the SOCKS5 handlers and their list |
| `Gole.tla`, `MCGole.tla` | the command: the part that its mode leads to, of the four above |
| `IdentityProofs.tla`, `EndpointProofs.tla` | theorems about `Registrar` |
| `EnrollmentProofs.tla` | on top of those: the refinement of `DeviceLifecycle`, and `Enrollment` |
| `FlowProofs.tla` | on top of those: `FlowControl` |
| `RelayProofs.tla`, `PunchProofs.tla`, `TransportProofs.tla` | theorems about `RelayServer`, `HolePunchUDP` and `TransportMonitor` |
| `TunnelProofs.tla` | theorems about `Gole`: TCP punching and cipher, UDP tunnel, stream tunnel, SOCKS5 |

Operators named "mutant of ..." in a comment are deliberate mistakes that no
specification uses; each is a version of the definition that follows it that
one of the properties must refuse.

### Registrar

Each method of `Registrar` holds `r.mu` from its first to its last line, so it is
one atomic action. Errors and idempotent answers leave the maps alone: they are
the cases in which no action is enabled, and `Enrollment` says what the caller
makes of them. A map is a function with `None` for a missing key. Three
abstractions: a signature is the key that made it; a token is the record of its
claims (`IssuedTokens` are the ones the broker has signed, `ValidTokens` those
that have not expired); `randomRequestID` draws any ID not drawn before (`drawn`).
`ConfirmEnrollment` is split by its outcome (`ConfirmBadSignature`, `ConfirmRelay`,
`ConfirmPreApproved`, `ConfirmPending`) and `registerApproved` by its branch
(`ReuseEndpoint`, `StoreEndpoint`). `Candidate` computes an ID as the code does, in
uint16 arithmetic: `IDModulus` is `MaxEndpoints + 2`, as 65536 is 65534 + 2.

`DeviceLifecycle` tells the same without the maps: a device moves along the edges
of a small graph. `RegistrarLifecycle!LifeOf` is the refinement mapping, and the property
`ImplementsLifecycle` says that each call moves one device along one edge, or none.

### Enrollment

A process is its key, because `NewEndpoint` draws a fresh one; the machine's
fingerprint survives, and nothing keeps a machine from running several processes at
once (`Boot`). `pc` walks through the calls of `AutoEnroll` and `Activate`;
every call to the broker is one step, joint with what the endpoint does with the
answer, and `Crash`, the administrator, token expiry and other processes come in
between. `Retry` and `Cancel` are what a caller of `AutoEnroll` can do. `EnrollmentInv`
says how what a process holds agrees with the broker's records (section 5).

### FlowControl

The controller keeps nothing but its policies, so `VerifyMessage` and `ValidateFlow`
are predicates over the state of `Registrar` and `AddPolicy` is the one action. What
the code does not look at, the predicates do not either: the sender's state, and
the broker's record of the destination's role, which is taken from the message
(`controller.go:91`). The properties quantify over every issued token, address and
signer.

### RelayServer

`HandleConn` is cut where goroutines meet: reading a frame, `r.mu`, a session's
`mu`, and each of the two Writes of `writeFrame`. `wire` is all that was written on
a connection; a Write to a full receive buffer waits, one to a closed connection
fails, and one to a client that is gone may do either. A handler leaves its loop when
its client is gone (`ReadFails`) and also when an open client announces a payload of
more than `MaxRelayPayload` (`RefuseFrame`).

### HolePunchUDP

Each peer has a sender, a receiver and the caller; the places of the receiver are
the lines between which the others can run. `deadline` is the socket's read
deadline, which all three set. `sameKey` says whether both users gave the same key:
if not, whatever arrives is garbage. A datagram can be lost on the way, and a
receiver reads those that wait for it in any order. `Extra` are datagrams of
strangers, of which there may be no end, and tunnel data of a peer that has already
returned.

### TransportMonitor

Selection is a set of decisions (the code's sort leaves equals in any order) for
each outcome of the probes; latency 0 is a probe that failed, as in the code.
A decision keeps the path and not the reported latencies. `Discover` is two
steps, before and after it waits for the old monitor. `reporter` is a history
variable: the monitor whose callback stored the endpoint's decision last. `Discover`
and the others are called one at a time, as an `Endpoint` has no lock.

### HolePunchTCP

The simultaneous open is external: two dials meet (`SimultaneousOpen`), or fail, or
a connection is taken up by nobody (`OpenAlone`), and a host may vanish. Of the
bytes on a connection only the position of the key they were encrypted with is
kept, and of those read the position they were decrypted with, so that "the
streams agree" is a relation between two sequences of positions. `Write` and `Read`
move the two indices of `EConnXor` (`keyWI`, `keyRI`) through `Advance`, and `ReadHelo`
may take more or less than the far end's HELO, as one `Read` of 1024 bytes does.
`KeyRun` is the loop of `EConnXor` itself: it XORs up to the end of the key
(`FirstRun`), starts over at the key's first byte, and so on until the buffer ends.

### UdpTunnel

Its initial states are what `PunchUDP` can leave behind: late HELOs and OKAYs on
their way, and at either end a receiver that still sits in `ReadFrom` (the run
`MCPunchHandover` shows that it may). Deadlines of a connection are "none", "ahead"
or "passed", per direction; setting one is part of the step that the code sets it
in, together with the write that follows, since nobody else can tell the two
apart. A loop that ends closes both sockets and with them the other loop
(`Collapse`), and what waits at a closed socket is gone.

### StreamTunnel

The TCP and the KCP variant differ in what they run on and in `AcceptKCP`, which may
give up; they share the model. smux 1.5.15 and KCP are external: a stream
delivers in order, its FIN after its data, and a session whose path or peer is gone
closes at last by its keepalive. One connection goes through the tunnel: `app`,
client, server and `service`, with the four goroutines of `copyIO`. The two deferred
Closes of a copier are one step, as nothing comes between them that another step
could tell. Whether smux reports a FIN of the far end to a writer is left open.

### Socks5

`HandleConnection` is cut at the loads and stores of `Conns`: `append` reads the slice,
then stores it; the loop of the removal ranges over the slice it read first, while
its own and other removals shift the array under it. The module looks at an
array that has room, so that a store of `Conns` is a store of its length. `panic` is
what ends the process: slice bounds, from an overlap ("list") or from the uint8 sum
in `parseTarget` ("domain"). The two Writes to the client once the remote is there,
`Reply` and `WriteToClient`, have no deadline and may never return.

### Gole

`mode` is what the configuration asks for. The parts of a process follow each other
and share nothing but the connection, so the module takes their union: a mode leads
to one of them and the variables of the others stay as they are.

## 3. What is checked

A passing run explores all states of its instance. Each property of it has a
mutant in `PROJECT.json` with which TLC finds the property violated.

| Run | Instance | States | Properties |
|---|---|---|---|
| `MCRegistrar` | 2 keys, 2 machines, 3 request IDs, groups of 2, role bytes of a client with a flag, a relay and an invalid role | 69 000 (up to symmetry) | maps agree (`RegistrationMatchesEndpoint`, `IdentityInv`), `OneAddressPerDevice`, `IdentityIsForever`, `ReachableIsActive`, `RelayDomainIsForRelays`, ID allocation (`GroupsFillInOrder`), `ImplementsLifecycle` |
| `MCFlow` | 2 keys, 2 machines, 2 request IDs, roles relay, client and agent, 2 policies | 47 000 (up to symmetry) | `FlowsAreAuthentic`, `FlowsEndForGood` |
| `MCEnrollment` | 2 processes on 2 machines or on one, 3 request IDs, groups of 1, tokens expire | 462 000 | `BrokerIsAhead`, `IdentityIsOwn`, `AddressIsOfOneMachine`, `EnrollmentEnds` |
| `MCRelay` | 3 connections, two of them of the same endpoint; 1 frame each | 3.1 million | `AuthAnswerFirst`, `MutexedFramesAreWhole`, `DeliveredAsAddressed`, `SessionsAreServed`, `NewestSessionStays` |
| `MCRelayLive` | 2 connections, 2 frames each (pings and data), buffers of 1 | 920 000 | `FramesAreProcessed` |
| `MCPunch` | 2 tries per peer, 1 extra datagram waiting | 495 000 | `WaitGroupExact`, `SuccessIsMutual`, `PunchEnds` |
| `MCTransport` | 2 relays, 4 latencies, 2 monitors | 14 000 | `OneMonitor`, `SelectionIsNearBest`, `KindFollowsReporter`, `StopReturns` |
| `MCGole` | 2 dials per peer, a key of 3 bytes, 2 applications with 2 requests, 1 chunk each way, 2 SOCKS5 handlers | 296 000 | `CipherStreamsAgree`, `RepliesGoToSpeakers`, `EOFAfterData`, `ConnsNeedsRace`, `PunchingEnds`, `UdpTunnelEnds`, `StreamTunnelEnds`, `SocksEnds` |

Bounds, and why they are enough:

* *Registrar, Enrollment, FlowControl.* The properties relate at most two machines,
  two enrolments or two addresses, and a third request ID lets a machine enrol again
  after a refused signature. Groups of two reach the capacity and the wrap of the
  hint. `RequestIDsLeft` in `Enrollment` only lets a process begin while an ID is left
  for it, because the code never runs out of them. `ExpiringKeys` are the addresses
  whose tokens may expire: all in `MCEnrollment` and for domain 1 in `MCFlow`, one in
  `MCRegistrar`. None of these bounds is the argument for a safety property:
  section 5 proves each of them for all sizes.
* *RelayServer.* `MaxFrames` bounds what a client sends, `BufferSize` what it has
  not read. Three connections are the least with a reconnection and a sender.
  A write that blocks needs a buffer of one chunk only, hence `MCRelayLive`, where
  both clients ping and write to each other: the mutex of each session then has two
  takers, its own handler (for the pong) and the other's (for the data).
* *HolePunchUDP.* `MaxTries` stands for the 60 tries of the code: two are a first
  and a last one. `MaxExtra` bounds the strangers and early data that *wait* at a receiver;
  it may get any number of them one after the other.
* *TransportMonitor.* `MaxDiscovers` counts the monitors started; two are an old and
  a new one. The latencies 0, 1, 2 and 4 with a threshold of 1 give failed,
  equal, within and beyond the threshold. `SelectionIsNearBest` looks at every
  measurement of every list, not only at those that a run has met.
* *HolePunchTCP.* `KeyLen` 3 with HELOs of 2 and 3 bytes and `TunnelBytes` 2 wraps the key
  within the handshake and within the tunnel, in different places at the two ends;
  `AuthLen` 2 leaves a byte of the longer HELO that need not have arrived.
* *UdpTunnel.* Two applications are the least in which the address can be the wrong
  one; two requests are one before and one after the answer.
* *StreamTunnel.* `MaxChunks` 1: the properties are about the last chunk and the end
  behind it. *Socks5.* Two handlers are the least that race.

`CHECK_DEADLOCK FALSE` stands where a system ends: connections are closed, punching
is over, tunnels have ended. The broker, the enrolments, the controller and the
monitor never come to a stop.

Fairness, and why the code justifies it:

* `Enrollment`: a process that can take its next step does (a timer of AutoEnroll
  fires), and the administrator does not stop deciding while enrolments wait.
  Without the second, a pending endpoint polls for ever, which is what the code
  means it to do.
* `RelayServer`: goroutines are scheduled, a mutex goes to one that waits for it
  (Go's mutexes are starvation-free), and clients read what arrives. Clients need
  not send anything.
* `HolePunchUDP`: each of the three goroutines runs when it can, and a deadline passes
  on a receiver that stays in `ReadFrom`; one that comes back again and again to set it
  anew may never see it pass. The network may lose everything, and bring anything.
* `TransportMonitor`: goroutines run, and the `select` that can take the closed
  `stopCh` again and again takes it at some time (strong fairness of `Leave`): Go
  chooses among ready cases at random. Nothing is assumed of the callers.
* `Gole`: no part stands still while something in it can happen: a goroutine can
  run, a deadline, a dial or a keepalive comes to its end. For SOCKS5 this holds of
  each handler, since handlers do not wait for each other, and of its second copier
  once both its ends are closed. Nothing is assumed of the network, the applications,
  the services and the far hosts: a Write of the stream tunnel (`CopyWrites`) and one
  of SOCKS5 to a client that stays (`Writes`) may block for ever.

Exceptions that are written into properties because the code behaves so:

* `SelectionIsNearBest`: when no relay answered and the direct path is slower than the
  threshold, a relay that did not answer is chosen over it (its latency counts as 0,
  `discovery.go:79-91`).
* `KindFollowsReporter`: before its first callback a monitor may find another kind of
  path than Discover's and keep it to itself, because it compares with its own zero
  decision, and it never reports that another relay has become the best one
  (`discovery.go:278`).
* `NewestSessionStays`: a handler whose own client announces an oversized frame ends the
  connection, and its session with it (`relay.go:213-215`).
* `PunchEnds`: after the OKAY the sender is stopped, and if then no HELO gets through, a
  stranger's datagram every five seconds keeps moving the deadline that would end the
  receiver (`holepunch.go:173`, `180-182`). Of the two panics, the second close of
  `recv_done` counts as an end after the last try only, and the nil address after an
  OKAY only.
* `BrokerIsAhead`: a revocation between the two calls of `Activate` leaves an endpoint
  that believes it is active (`endpoint.go:206-214`).
* `EnrollmentEnds`: an error is an end, that of an expired token included, which no call
  of the code renews.
* `UdpTunnelEnds`: a client that waits on `sent` for an application that never speaks
  (`client.go:249`), and an end whose read deadline PunchUDP's receiver took off, have
  nothing to wake them.
* `EOFAfterData`: a service that is talking when the application closes loses the rest,
  since a copier that fails closes both its ends (`common.go:50`).
* `PunchingEnds`: the Read of the TCP handshake has no deadline, so a far host that
  vanishes holds it.
* `SocksEnds`: the remote is not told that the client has left (`s5.go:250`); a handler
  with a remote that stays, stays. A client that stays and does not read holds the
  handler in a Write (`s5.go:54`, `244`). A panic ends the whole process.
* `ConnsNeedsRace`: two handlers that change `Conns` at the same time can panic or lose
  an entry. That the slice has no lock is a fact of the code; the property says
  that it takes this overlap, and that the loop which goes on over an array that
  its own removal has shifted does no harm by itself.

## 4. Where the code disagrees with itself

Four runs check what a comment of the source claims and find it violated:

* `MCRestart`, `TokenBindsItsKey` (`endpoint.go:15-16`): a process that restarts is
  given the token that was issued for the key of its dead predecessor, and the
  controller then refuses what it signs.
* `MCRelayWrites`, `FramesAreWhole` (`relay.go:39`): `writeNoRoute` does not take the
  session's mutex and can split a data frame.
* `MCPunchTimeout`, `TimeoutIsReported` (`holepunch.go:150`): after the last try
  `recv_done` is closed twice, a panic in place of the error.
* `MCPunchHandover`, `ReceiverIsStopped` (`holepunch.go:229-230`): the receiver may set
  a new deadline after the one that should stop it, and still reads from the
  connection that PunchUDP has returned.

`MutexedFramesAreWhole`, in `MCRelay`, is what remains of the second: frames whose
writers do take the mutex are never broken by each other.

Two more were met in `TransportMonitor`: `types.go:204` says of peer mode "Always P2P
hole-punching", but Discover in peer mode does not stop a monitor that an earlier
dynamic mode started (`endpoint.go:260-264`), which moves the endpoint to a relay; and
`discovery.go:192-193` says that the monitor calls `onChange` when the decision changes, but
the comparison is of `UseRelay` alone, and with the monitor's own last decision (`:278`):
when the best relay changes from one to another the endpoint keeps the first, dead or
alive. `KindFollowsReporter` is what remains.

## 5. What is proved

Every safety property of the passing runs, invariant or property of steps, is a
theorem, and so is the refinement; each holds for all values of the constants under
the assumptions named in the module of its specification. These are:

* the values that stand for "nothing" (`None`, `NoFingerprint`, `NoAddr`) are none of
  the others, and bounds are natural numbers;
* for the broker, that the relay's domain and group exist, `MaxEndpoints` is positive
  and `IDModulus = MaxEndpoints + 2`; for its endpoints, that the flags of a machine are
  a byte the broker may be sent;
* for UDP punching, two peers; for TCP punching, that `Other` names a peer's other peer,
  that the derived key is not empty (it has 4096 bytes), and that a HELO is not shorter
  than the part of it that must arrive;
* for the relay, that a connection authenticates as some endpoint and there is room
  for one Write in a buffer; for SOCKS5, that handlers are finitely many.

Cardinalities are those of finite sets: subsets of `1..MaxEndpoints`, the three parts
of a WaitGroup, the handlers that have begun.

About `RSpec`, the broker under arbitrary callers:

1. `TypeCorrect`: the maps keep their types. The one case with content is `nextID`,
   which must stay in `0..MaxEndpoints` under arithmetic modulo `IDModulus`.
2. `IdentityCorrect`: `IdentityInv` is inductive. `OneAddressPerDevice` and
   `RegistrationMatchesEndpoint` are not inductive on their own: to approve an
   enrolment one must know that its machine has no endpoint yet. That is
   `EndpointHasEnrollment`: a machine with an endpoint has a *registered* record,
   and, with `IndexExact`, no other one. So (lemma `NothingToReuse`) whenever
   `registerApproved` is called, `findByFingerprint` finds nothing: the reuse branch
   of `registerApproved` is dead code, and the proof shows it. The steps fall in
   classes (a new record, a record forgotten, a record settled, a registration,
   an endpoint marked), with a lemma for each (`EnrollLinked`, `ForgetLinked`,
   `SettleLinked`, `RegisterLinked`, `MarkLinked`).
   `IndexIsExact`, `RegistrationMatches` and `OneAddress` follow.
3. `ReachableAreActive`, `IdentitiesAreForever`, `ReservedDomain`: consequences about
   endpoints. The last needs that a relay is never pending (`RelayNeverPending`),
   since an administrator could otherwise approve it elsewhere.
4. `GroupsInOrder`: IDs are handed out as 1, 2, 3, ...; the hint is the next one.
   It follows that the scan of `allocateID` always succeeds at its first candidate,
   and that the part of its arithmetic where the uint16 sum wraps, which would skip
   two IDs, is never entered as long as endpoints are not deleted (no method
   does). `AllocatorServes` is the corollary.

About `RSpec` and `DeviceLifecycle` (`EnrollmentProofs`):

5. `RegistrarImplementsLifecycle`: under the mapping `LifeOf`, every step moves one device
   along one edge or is a stutter. The steps fall in the classes of the identity proof,
   each with a lemma (`EnrollMoves`, `ForgetMoves`, `SettleMoves`, `StoreMoves`,
   `MarkMoves`). It takes the identity invariant: only because one record belongs to a
   machine, and one endpoint to a record, does a change of the maps move no second
   device.

About `Spec` of `Enrollment`, endpoints that crash, come back and retry:

6. `EnrollmentCorrect`: `EnrollmentInv` is inductive. What an endpoint believes is not
   enough to know that it stays right: one must know that its request ID was drawn
   (`RequestIsOwn`: nobody else's record can come to stand under it, even after a
   refused signature has removed it), that its token is the one of its registered
   record (`TokenIsRegistered`), and that its status was once the broker's and the broker
   only moves on (`StatusIsKnown`).
7. `EndpointsCallBroker`: seen from the broker these endpoints are arbitrary callers, so
   all of 1 to 5 holds here too.
8. `BrokerAhead`, `OwnIdentity`, `OneMachinePerAddress`: consequences. The last is where
   the broker's promise and the endpoints' meet: processes with one address hold the
   token of one record, which carries the fingerprint of their machine, so that only
   processes of one machine can share an address; relays, which have no fingerprint,
   are told apart by their keys.

About `FSpec`, the controller on the broker (`FlowProofs`):

9. `AuthenticFlows`. `FSpec` refines `RSpec` (`FlowsRefineRegistrar`), so that the broker's
   invariants hold of it. They are not enough: relays have no fingerprint, and
   `EndpointHasEnrollment` is about machines that have one. The strengthening is
   `EndpointsAreRecorded`: every endpoint, relays included, has a registered record
   with its token, which no call changes (`RegisteredStays`).
10. `FlowsEnd`: an action property, from what each class of steps does to endpoints,
    tokens and expiry (`StepKeepsFlows`).

About `RelayServer`, for any connections, endpoints, frames and buffers (`RelayProofs`):

11. `SessionsServed`, `NewestStays`: `SessionInv` is inductive. Beyond the maps it speaks of
    the handlers that act on them late: a router that is about to write has a
    registered target, and one that is about to drop its target has one that is
    `Unserved`: its client is gone, or its own handler has left the loop, as it does
    on an oversized frame from a client that is still there. This never ceases to hold
    (`UnservedStays`, `KeptUnserved`), so what routers and late cleanups take away is
    never the newest session of a client that is there and served.
12. `AnswerFirst`: nothing is on a connection before the answer to its token. It needs
    `SessionInv`, since a router writes on the connections of others (`AnswerStep`
    says what a step may do to any one of them).
13. `MutualExclusion`: who is between the header and the payload of a frame holds the
    session's mutex (`LockInv`). From it `FramesWhole`: `HeaderInv` says that on a
    connection that is not `Cut` (its client there, its handler not past Close), the last thing written under the mutex is a
    header only while a handler is about to write its payload.
14. `Delivered`: a data frame arrives on a connection of its destination (`TargetInv`), and
    those of one sender in the order in which it sent them (`SentInv`: what has
    arrived is older than the frame the sender's handler holds).

About `HolePunchUDP`, for any tries, strangers and losses (`PunchProofs`):

15. `WaitGroupIsExact` and `SuccessMutual`, from the conjunction of the counting part of
    the invariant (`CountInv`, in which `Awaited` counts the three events without a
    cardinality) and the handshake (`HandshakeInv`: an OKAY that is on its way to a peer,
    or has come, means that the other has had a HELO, and a HELO that was understood
    means the same key).

About `TransportMonitor`, for any relays, latencies and monitors (`TransportProofs`):

16. `SelectionNearBest` for every measurement, which is arithmetic on the minimum of
    a set; `AtMostOneMonitor`; `KindFollows`, whose invariant `ReporterKeepsKind` also
    says where the loop stands between its evaluation and its report.

About `Gole`, for any keys, dials, applications, requests, chunks and handlers
(`TunnelProofs`; the parts share no variable, so each invariant looks at one part):

17. `CipherAgrees`: `CipherInv` says that the n-th byte of either direction was encrypted,
    and the n-th byte read was decrypted, with the key byte at n - 1 modulo the key's
    length (`InStep`), however the bytes were cut into Writes and Reads. That the loop
    of `Write` and `Read` computes just this (`KeyRunKeys`) is an induction over the
    number of bytes, which the prover has no rule for: the proof takes the least
    number at which it would fail (`LeastNat`) and follows the loop's first turn from
    there. Before that it has to show that the recursive definition has a solution at
    all (`KeyRunUnfolds`).
18. `RepliesReachSpeakers`: `AddrInv` is the order that protects `client_addr`: the address
    is stored before `sent` is closed, and the reader of the tunnel passes `sent`
    before it looks.
19. `DataBeforeEOF`: `StreamInv` counts what is under way in each direction (`UpFlow`,
    `DownFlow`: what waits at each copier, what each holds between Read and Write, and
    what has arrived), which is never more than was sent. While nothing but the
    application has ended anything (`Quiet`) it is exactly that, and each side closes
    only after the side before it, with nothing left to copy (`InOrder`); the rest of
    the invariant (`Order`) is that the parts of a connection come into being one
    after the other.
20. `DamageNeedsRace`: `RaceInv` says that as long as no two handlers have changed `Conns`
    at the same time, it lists every connection once (`ListsOnce`), and where in the
    shifted array the one that is changing it stands (`AlonePlace`): before its own
    element, at it, or past it with nothing of its own left to find.
21. `GoleTypes`: the type invariant of all parts. It has content where the code counts:
    positions stay inside the key, chunks and requests within what was sent, and the
    length of `Conns` within the number of handlers that have begun.

Only model-checked, because the prover has no rules for fairness and `ENABLED`: liveness,
that is `EnrollmentEnds`, `FramesAreProcessed`, `PunchEnds`, `StopReturns`, `PunchingEnds`,
`UdpTunnelEnds`, `StreamTunnelEnds` and `SocksEnds`. The runs of section 4 show
counterexamples and have nothing to prove.

## 6. Not modelled, and why

Tokens' encoding, Ed25519, PBKDF2 and the fingerprint are cryptography and
conversions: the models use what they establish. Command lines, configuration
files, machine identity and the demonstration program are input and output without
state of their own. `MeshRouter` only delivers locally, as `LocalRouter` does. The TTL
option of PunchUDP does not touch the protocol. Of the stream tunnel, the receive
buffer that connections of one smux session share (a slow one can hold up the
others) and the `DialTCP` that the server's accept loop waits for are not looked at,
because one connection goes through the model; `conn2conn` has no caller. Of
SOCKS5, the step in which `append` moves `Conns` to a new array, and the socket
options of the dialers. `EPacketConnXor` keeps no state.

## 7. Plan

Done, in this order: `Registrar` (the identities everything else rests on), its
lifecycle and proofs; `Enrollment`; `RelayServer`; `HolePunchUDP`; `TransportMonitor`;
`FlowControl`; the parts of the command (`HolePunchTCP`, `UdpTunnel`, `StreamTunnel`,
`Socks5`, `Gole`); the proofs of their safety properties and of the refinement.

Next proofs: abstract specifications of two more parts, each with its refinement. A
relay is a set of queues, one per sender and destination, that may end early; an
enrolment, seen from one process, is a straight line from unregistered to
active with exits. The invariants of section 5 (`SentInv`, `EnrollmentInv`) are what
these refinements need.

Next models: the relay list of an endpoint over the lifetime of relays (`Enrollment`
with `TransportMonitor`), and relay sessions that outlive their tokens
(`RelayServer` with `Registrar`).
