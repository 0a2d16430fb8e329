--------------------------- MODULE TransportMonitor ---------------------------
(***************************************************************************)
(* How an active endpoint chooses between a relay and the direct path      *)
(* (swarm/discovery.go, Discover and StopMonitor of swarm/endpoint.go).    *)
(* Discover decides once; in dynamic mode it also starts a monitor, a      *)
(* goroutine that probes again and again and overwrites the endpoint's     *)
(* decision through a callback.  Probes return any latency.                *)
(*                                                                         *)
(* A list of relays is the set of its addresses: the code ranks the list   *)
(* whenever it uses it, and sort.Slice leaves the order of equals open.    *)
(* A decision keeps the path it names, not the latencies it reports.       *)
(* The writes of e.decision by caller and monitor are not synchronised;    *)
(* each stores one pointer, so either order of the two is an outcome.      *)
(***************************************************************************)
EXTENDS Naturals

CONSTANTS
    Relays,        \* relay addresses
    Latencies,     \* what a probe may measure; 0 is a probe that failed
    Threshold,     \* cfg.Threshold
    MaxDiscovers,  \* bound: calls of Discover in dynamic mode
    None

ASSUME TransportAssumption == /\ Latencies \subseteq Nat
                              /\ 0 \in Latencies
                              /\ Threshold \in Nat
                              /\ MaxDiscovers \in Nat
                              /\ None \notin Relays \union (1..MaxDiscovers)

ModePinned  == "pinned"
ModeRelay   == "relay"
ModePeer    == "peer"
ModeDynamic == "dynamic"

Modes == {ModePinned, ModeRelay, ModePeer, ModeDynamic}

\* A pinned relay says something in pinned mode only, where it may be missing.
Configs == [mode : {ModePinned}, pinned : Relays]
           \union [mode : Modes, pinned : {None}]

TransportDecision == [useRelay : BOOLEAN, relay : Relays \union {None}]

-----------------------------------------------------------------------------
(* SelectTransport.  lat is what ProbeRelays has measured, a function on the  *)
(* relays of the list; each operator is the set of decisions that may come    *)
(* out.                                                                       *)

UseRelay(r) == [useRelay |-> TRUE, relay |-> r]
UseP2P      == [useRelay |-> FALSE, relay |-> None]

\* bestRelay: the fastest of those that answered, else whichever is first.
BestRelays(lat) ==
    LET answered == {r \in DOMAIN lat : lat[r] > 0}
    IN  IF answered = {} THEN DOMAIN lat
        ELSE {r \in answered : \A q \in answered : lat[r] <= lat[q]}

\* Without any relay the decision is to use a relay, but none is named.
SelectBestRelay(lat) ==
    IF DOMAIN lat = {} THEN {UseRelay(None)} ELSE {UseRelay(r) : r \in BestRelays(lat)}

SelectPinned(cfg, lat) ==
    IF cfg.pinned = None THEN SelectBestRelay(lat) ELSE {UseRelay(cfg.pinned)}

\* Mutant of SelectDynamic: the threshold counts against the direct path.
SelectDynamicSwapped(p2p, lat) ==
    IF DOMAIN lat = {} THEN {UseP2P}
    ELSE {IF p2p = 0 \/ p2p + Threshold > lat[r] THEN UseRelay(r) ELSE UseP2P :
             r \in BestRelays(lat)}

SelectDynamic(p2p, lat) ==
    IF DOMAIN lat = {} THEN {UseP2P}
    ELSE {IF p2p = 0 \/ p2p > lat[r] + Threshold THEN UseRelay(r) ELSE UseP2P :
             r \in BestRelays(lat)}

SelectTransport(cfg, p2p, lat) ==
    IF cfg.mode = ModePinned THEN SelectPinned(cfg, lat)
    ELSE IF cfg.mode = ModeRelay THEN SelectBestRelay(lat)
    ELSE IF cfg.mode = ModeDynamic THEN SelectDynamic(p2p, lat)
    ELSE {UseP2P}

\* One round of probing over the relays rs, and the decision made of it.
Probed(cfg, rs) ==
    UNION {SelectTransport(cfg, p2p, lat) : p2p \in Latencies, lat \in [rs -> Latencies]}

-----------------------------------------------------------------------------

Monitors == 1..MaxDiscovers

VARIABLES
    transportCfg,  \* e.transportCfg
    relays,        \* e.relays
    decision,      \* e.decision, or None before the first
    reporter,      \* history: the monitor whose callback stored decision last,
                   \* None when Discover did
    monitor,       \* e.monitor, or None
    caller,        \* where the caller of the endpoint is: "idle", "discover" or
                   \* "stop": waiting in StopMonitor for the loop to end
    loop,          \* monitor -> "none", "evaluate", "report", "wait", "done"
    stopCh,        \* monitor -> stopCh is closed
    list,          \* monitor -> its relays
    current        \* monitor -> its most recent decision

vars == <<transportCfg, relays, decision, reporter, monitor, caller,
          loop, stopCh, list, current>>

\* The endpoint has been activated, with the relays the broker knew of then.
Init ==
    /\ transportCfg = [mode |-> ModeDynamic, pinned |-> None]
    /\ relays       \in SUBSET Relays
    /\ decision     = None
    /\ reporter     = None
    /\ monitor      = None
    /\ caller       = "idle"
    /\ loop         = [m \in Monitors |-> "none"]
    /\ stopCh       = [m \in Monitors |-> FALSE]
    /\ list         = [m \in Monitors |-> {}]
    /\ current      = [m \in Monitors |-> UseP2P]

-----------------------------------------------------------------------------
(* The caller. *)

SetTransportConfig(cfg) ==
    /\ caller = "idle"
    /\ transportCfg' = cfg
    /\ UNCHANGED <<relays, decision, reporter, monitor, caller, loop, stopCh,
                   list, current>>

\* close(m.stopCh), if there is a monitor.
CloseStopCh ==
    stopCh' = IF monitor = None THEN stopCh ELSE [stopCh EXCEPT ![monitor] = TRUE]

\* Mutant of PrioritizeRelay: a peer without a relay adds the missing one.
PrioritizeRelayNil(rs, peerRelay) == rs \union {peerRelay}

\* PrioritizeRelay: the relay that the broker knows the peer to be on is in the
\* list, if it was not.
PrioritizeRelay(rs, peerRelay) == rs \union ({peerRelay} \ {None})

\* Discover, up to the wait in StopMonitor.  Only dynamic mode comes there; the
\* others return and leave a monitor alone.
Discover(peerRelay) ==
    LET rs == PrioritizeRelay(relays, peerRelay)
        dynamic == transportCfg.mode = ModeDynamic
    IN  /\ caller = "idle"
        /\ dynamic => \E m \in Monitors : loop[m] = "none"
        /\ relays' = rs
        /\ decision' \in Probed(transportCfg, rs)
        /\ reporter' = None
        /\ IF dynamic THEN CloseStopCh /\ caller' = "discover"
           ELSE UNCHANGED <<stopCh, caller>>
        /\ UNCHANGED <<transportCfg, monitor, loop, list, current>>

\* Mutant of MonitorStopped: StopMonitor does not wait.
MonitorSignalled == monitor # None => stopCh[monitor]

\* <-m.stopped.
MonitorStopped == monitor # None => loop[monitor] = "done"

\* The rest of Discover: a new monitor starts.
StartMonitor(m) ==
    /\ caller = "discover"
    /\ MonitorStopped
    /\ loop[m] = "none"
    /\ \A n \in 1..(m - 1) : loop[n] # "none"
    /\ monitor' = m
    /\ loop' = [loop EXCEPT ![m] = "evaluate"]
    /\ list' = [list EXCEPT ![m] = relays]
    /\ caller' = "idle"
    /\ UNCHANGED <<transportCfg, relays, decision, reporter, stopCh, current>>

StopMonitor ==
    /\ caller = "idle"
    /\ monitor # None
    /\ CloseStopCh
    /\ caller' = "stop"
    /\ UNCHANGED <<transportCfg, relays, decision, reporter, monitor, loop,
                   list, current>>

StopReturned ==
    /\ caller = "stop"
    /\ MonitorStopped
    /\ monitor' = None
    /\ caller' = "idle"
    /\ UNCHANGED <<transportCfg, relays, decision, reporter, loop, stopCh,
                   list, current>>

-----------------------------------------------------------------------------
(* The monitor's goroutine. *)

DynamicCfg == [mode |-> ModeDynamic, pinned |-> None]

\* Mutant of Evaluate: a way back to the direct path is not reported.
EvaluateOneWay(m) ==
    /\ loop[m] = "evaluate"
    /\ \E d \in Probed(DynamicCfg, list[m]) :
          /\ current' = [current EXCEPT ![m] = d]
          /\ loop' = [loop EXCEPT ![m] =
                 IF d.useRelay /\ ~current[m].useRelay THEN "report" ELSE "wait"]
    /\ UNCHANGED <<transportCfg, relays, decision, reporter, monitor, caller,
                   stopCh, list>>

\* evaluate: the callback is due when UseRelay differs from the previous one.
Evaluate(m) ==
    /\ loop[m] = "evaluate"
    /\ \E d \in Probed(DynamicCfg, list[m]) :
          /\ current' = [current EXCEPT ![m] = d]
          /\ loop' = [loop EXCEPT ![m] =
                 IF current[m].useRelay # d.useRelay THEN "report" ELSE "wait"]
    /\ UNCHANGED <<transportCfg, relays, decision, reporter, monitor, caller,
                   stopCh, list>>

\* onChange: the endpoint's decision is replaced.
Report(m) ==
    /\ loop[m] = "report"
    /\ decision' = current[m]
    /\ reporter' = m
    /\ loop' = [loop EXCEPT ![m] = "wait"]
    /\ UNCHANGED <<transportCfg, relays, monitor, caller, stopCh, list,
                   current>>

\* The select of loop: the ticker, or stopCh; with both ready either may win.
Tick(m) ==
    /\ loop[m] = "wait"
    /\ loop' = [loop EXCEPT ![m] = "evaluate"]
    /\ UNCHANGED <<transportCfg, relays, decision, reporter, monitor, caller,
                   stopCh, list, current>>

\* Mutant of Leave: stopCh is not looked at.
LeaveNever(m) == FALSE /\ UNCHANGED vars

Leave(m) ==
    /\ loop[m] = "wait"
    /\ stopCh[m]
    /\ loop' = [loop EXCEPT ![m] = "done"]
    /\ UNCHANGED <<transportCfg, relays, decision, reporter, monitor, caller,
                   stopCh, list, current>>

-----------------------------------------------------------------------------

Caller ==
    \/ \E cfg \in Configs : SetTransportConfig(cfg)
    \/ \E peerRelay \in Relays \union {None} : Discover(peerRelay)
    \/ StopMonitor
    \/ StopReturned
    \/ \E m \in Monitors : StartMonitor(m)

Loop(m) == Evaluate(m) \/ Report(m) \/ Tick(m) \/ Leave(m)

Next == Caller \/ \E m \in Monitors : Loop(m)

Spec == Init /\ [][Next]_vars

\* The goroutines run, and a select that can often take the closed stopCh takes
\* it once: Go chooses among ready cases at random.
Fairness ==
    /\ WF_vars(StopReturned \/ \E m \in Monitors : StartMonitor(m))
    /\ \A m \in Monitors : WF_vars(Loop(m)) /\ SF_vars(Leave(m))

FairSpec == Spec /\ Fairness

-----------------------------------------------------------------------------
(* Properties. *)

\* The fields of the endpoint and of its monitors have their types.
TypeOK ==
    /\ transportCfg \in Configs
    /\ relays \subseteq Relays
    /\ decision \in TransportDecision \union {None}
    /\ reporter \in Monitors \union {None}
    /\ monitor \in Monitors \union {None}
    /\ caller \in {"idle", "discover", "stop"}
    /\ loop \in [Monitors -> {"none", "evaluate", "report", "wait", "done"}]
    /\ stopCh \in [Monitors -> BOOLEAN]
    /\ list \in [Monitors -> SUBSET Relays]
    /\ current \in [Monitors -> TransportDecision]

\* One monitor at most is alive, and it is the one the endpoint can stop: after
\* StopMonitor, and after a Discover that replaced the monitor, no goroutine of
\* an earlier peer or relay list is left to overwrite the decision.
OneMonitor ==
    \A m \in Monitors : loop[m] \notin {"none", "done"} => monitor = m

\* Dynamic selection is never worse than the best path that answered by more
\* than the threshold, and never leaves a path that answered for one that did
\* not.  One case is excepted, where the code does so: no relay answered, and
\* the direct path is slower than the threshold.
SelectionIsNearBest ==
    \A m \in Monitors : \A p2p \in Latencies, lat \in [list[m] -> Latencies] :
        LET answered == {lat[r] : r \in list[m]} \ {0}
            times    == answered \union ({p2p} \ {0})
        IN  \A d \in SelectTransport(DynamicCfg, p2p, lat) :
                LET time == IF d.useRelay THEN lat[d.relay] ELSE p2p
                IN  \/ times = {}
                    \/ answered = {} /\ p2p > Threshold
                    \/ time # 0 /\ \A t \in times : time <= t + Threshold

\* StopMonitor, on its own and in Discover, returns.
StopReturns == caller # "idle" ~> caller = "idle"

\* What a monitor has set keeps to the kind of path it finds: whenever the loop
\* that stored the endpoint's decision rests, the decision is for a relay exactly
\* if this loop's latest one is, however often that has changed since, and the
\* relay is one of the loop's list.  It need not be the relay found last: evaluate
\* calls onChange for a change of UseRelay only, against the comment of
\* TransportMonitor.  (Before its first callback a monitor may find another kind
\* than Discover's and keep it to itself: evaluate compares with the zero decision
\* of a new monitor.)
KindFollowsReporter ==
    \A m \in Monitors :
        reporter = m /\ loop[m] \in {"wait", "done"} =>
            /\ decision.useRelay = current[m].useRelay
            /\ decision.useRelay => decision.relay \in list[m]
=============================================================================
