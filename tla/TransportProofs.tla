---------------------------- MODULE TransportProofs ----------------------------
(***************************************************************************)
(* Theorems about the transport monitor, for any relays, latencies,        *)
(* threshold and number of monitors.                                       *)
(***************************************************************************)
EXTENDS TransportMonitor, TLAPS

-----------------------------------------------------------------------------
(* Selection. *)

\* What a round of probing decides is a decision about a relay of the list.
LEMMA ProbedType ==
    ASSUME NEW cfg \in Configs, NEW rs \in SUBSET Relays
    PROVE  Probed(cfg, rs) \subseteq TransportDecision
<1> SUFFICES ASSUME NEW p2p \in Latencies, NEW lat \in [rs -> Latencies],
                    NEW d \in SelectTransport(cfg, p2p, lat)
             PROVE  d \in TransportDecision
  BY DEF Probed
<1>1. DOMAIN lat = rs /\ BestRelays(lat) \subseteq rs
  BY DEF BestRelays
<1>2. UseP2P \in TransportDecision /\ \A r \in Relays \union {None} : UseRelay(r) \in TransportDecision
  BY DEF UseP2P, UseRelay, TransportDecision
<1>3. SelectBestRelay(lat) \subseteq TransportDecision
  BY <1>1, <1>2 DEF SelectBestRelay
<1>4. CASE cfg.mode = ModePinned
  <2>1. cfg.pinned \in Relays \union {None}
    BY DEF Configs
  <2>2. QED
    BY <1>2, <1>3, <1>4, <2>1 DEF SelectTransport, SelectPinned
<1>5. CASE cfg.mode # ModePinned
  <2>1. SelectDynamic(p2p, lat) \subseteq TransportDecision
    BY <1>1, <1>2 DEF SelectDynamic
  <2>2. QED
    BY <1>2, <1>3, <1>5, <2>1 DEF SelectTransport
<1>6. QED
  BY <1>4, <1>5

LEMMA DynamicIsConfig == DynamicCfg \in Configs
  BY DEF DynamicCfg, Configs, Modes

\* What SelectDynamic is worth, for one measurement.
LEMMA DynamicIsNearBest ==
    ASSUME NEW rs \in SUBSET Relays, NEW p2p \in Latencies, NEW lat \in [rs -> Latencies],
           NEW d \in SelectTransport(DynamicCfg, p2p, lat)
    PROVE  LET answered == {lat[r] : r \in rs} \ {0}
               times    == answered \union ({p2p} \ {0})
               time     == IF d.useRelay THEN lat[d.relay] ELSE p2p
           IN  \/ times = {}
               \/ answered = {} /\ p2p > Threshold
               \/ time # 0 /\ \A t \in times : time <= t + Threshold
<1> DEFINE answered == {lat[r] : r \in rs} \ {0}
           times    == answered \union ({p2p} \ {0})
           time     == IF d.useRelay THEN lat[d.relay] ELSE p2p
<1>1. /\ p2p \in Nat /\ Threshold \in Nat
      /\ \A r \in rs : lat[r] \in Nat
  BY TransportAssumption
<1>2. d \in SelectDynamic(p2p, lat)
  BY DEF SelectTransport, DynamicCfg, ModePinned, ModeRelay, ModeDynamic
<1>3. CASE rs = {}
  <2>1. d = UseP2P
    BY <1>2, <1>3 DEF SelectDynamic
  <2>2. answered = {} /\ time = p2p
    BY <1>3, <2>1 DEF UseP2P
  <2>3. QED
    BY <1>1, <2>2
<1>4. CASE rs # {}
  <2>1. PICK r \in BestRelays(lat) :
          d = IF p2p = 0 \/ p2p > lat[r] + Threshold THEN UseRelay(r) ELSE UseP2P
    BY <1>2, <1>4 DEF SelectDynamic
  <2>2. r \in rs /\ lat[r] \in Nat
    BY <1>1 DEF BestRelays
  <2>3. time = IF p2p = 0 \/ p2p > lat[r] + Threshold THEN lat[r] ELSE p2p
    BY <2>1 DEF UseRelay, UseP2P
  <2>4. CASE answered = {}
    <3>1. lat[r] = 0
      BY <2>2, <2>4
    <3>2. CASE p2p = 0
      BY <2>4, <3>2
    <3>3. CASE p2p # 0 /\ p2p <= Threshold
      <4>1. time = p2p
        BY <1>1, <2>3, <3>1, <3>3
      <4>2. QED
        BY <1>1, <2>4, <3>3, <4>1
    <3>4. QED
      BY <1>1, <2>4, <3>2, <3>3
  <2>5. CASE answered # {}
    <3>1. {q \in DOMAIN lat : lat[q] > 0} # {}
      BY <1>1, <2>5
    <3>2. lat[r] > 0 /\ \A q \in rs : lat[q] > 0 => lat[r] <= lat[q]
      BY <3>1 DEF BestRelays
    <3>3. \A t \in answered : t \in Nat /\ lat[r] <= t
      BY <1>1, <3>2
    <3>4. CASE p2p = 0 \/ p2p > lat[r] + Threshold
      <4>1. time = lat[r]
        BY <2>3, <3>4
      <4>2. \A t \in times : lat[r] <= t + Threshold
        BY <1>1, <2>2, <3>3, <3>4
      <4>3. QED
        BY <2>2, <3>2, <4>1, <4>2
    <3>5. CASE p2p # 0 /\ p2p <= lat[r] + Threshold
      <4>1. time = p2p
        BY <1>1, <2>2, <2>3, <3>5
      <4>2. \A t \in times : p2p <= t + Threshold
        BY <1>1, <2>2, <3>3, <3>5
      <4>3. QED
        BY <3>5, <4>1, <4>2
    <3>6. QED
      BY <1>1, <2>2, <3>4, <3>5
  <2>6. QED
    BY <2>4, <2>5
<1>5. QED
  BY <1>3, <1>4

-----------------------------------------------------------------------------
(* Types. *)

LEMMA NextType == TypeOK /\ [Next]_vars => TypeOK'
<1> SUFFICES ASSUME TypeOK, [Next]_vars
             PROVE  TypeOK'
  OBVIOUS
<1>1. ASSUME NEW cfg \in Configs, SetTransportConfig(cfg)
      PROVE  TypeOK'
  BY <1>1 DEF SetTransportConfig, TypeOK
<1>2. ASSUME NEW peerRelay \in Relays \union {None}, Discover(peerRelay)
      PROVE  TypeOK'
  <2>1. relays' \in SUBSET Relays /\ relays' = PrioritizeRelay(relays, peerRelay)
    BY <1>2 DEF TypeOK, Discover, PrioritizeRelay
  <2>2. decision' \in TransportDecision
    BY <1>2, <2>1, ProbedType DEF TypeOK, Discover
  <2>3. stopCh' \in [Monitors -> BOOLEAN] /\ caller' \in {"idle", "discover", "stop"}
    BY <1>2 DEF TypeOK, Discover, CloseStopCh
  <2>4. QED
    BY <1>2, <2>1, <2>2, <2>3 DEF TypeOK, Discover
<1>3. CASE StopMonitor
  BY <1>3 DEF StopMonitor, CloseStopCh, TypeOK
<1>4. CASE StopReturned
  BY <1>4 DEF StopReturned, TypeOK
<1>5. ASSUME NEW m \in Monitors, StartMonitor(m)
      PROVE  TypeOK'
  BY <1>5 DEF StartMonitor, TypeOK
<1>6. ASSUME NEW m \in Monitors, Evaluate(m)
      PROVE  TypeOK'
  <2>1. PICK d \in Probed(DynamicCfg, list[m]) :
          /\ current' = [current EXCEPT ![m] = d]
          /\ loop' = [loop EXCEPT ![m] =
                 IF current[m].useRelay # d.useRelay THEN "report" ELSE "wait"]
    BY <1>6 DEF Evaluate
  <2>2. d \in TransportDecision
    BY <2>1, ProbedType, DynamicIsConfig DEF TypeOK
  <2>3. QED
    BY <1>6, <2>1, <2>2 DEF TypeOK, Evaluate
<1>7. ASSUME NEW m \in Monitors, Report(m)
      PROVE  TypeOK'
  BY <1>7 DEF Report, TypeOK
<1>8. ASSUME NEW m \in Monitors, Tick(m) \/ Leave(m)
      PROVE  TypeOK'
  BY <1>8 DEF Tick, Leave, TypeOK
<1>9. CASE UNCHANGED vars
  BY <1>9 DEF vars, TypeOK
<1>10. QED
  BY <1>1, <1>2, <1>3, <1>4, <1>5, <1>6, <1>7, <1>8, <1>9 DEF Next, Caller, Loop

\* The fields of the endpoint and of its monitors have their types.
THEOREM TransportTypes == Spec => []TypeOK
<1>1. Init => TypeOK
  BY DEF Init, TypeOK, Configs, Modes, UseP2P, TransportDecision
<1>2. QED
  BY <1>1, NextType, PTL DEF Spec

\* Dynamic selection is near the best path that answered (discovery.go, SelectDynamic).
THEOREM SelectionNearBest == Spec => []SelectionIsNearBest
<1>1. TypeOK => SelectionIsNearBest
  BY DynamicIsNearBest DEF TypeOK, SelectionIsNearBest
<1>2. QED
  BY <1>1, TransportTypes, PTL

-----------------------------------------------------------------------------
(* Monitors. *)

LEMMA NextOneMonitor == TypeOK /\ OneMonitor /\ [Next]_vars => OneMonitor'
<1> SUFFICES ASSUME TypeOK, OneMonitor, [Next]_vars
             PROVE  OneMonitor'
  OBVIOUS
<1>1. CASE UNCHANGED <<loop, monitor>>
  BY <1>1 DEF OneMonitor
<1>2. CASE StopReturned
  BY <1>2 DEF StopReturned, MonitorStopped, OneMonitor
<1>3. ASSUME NEW m \in Monitors, StartMonitor(m)
      PROVE  OneMonitor'
  BY <1>3, TransportAssumption DEF StartMonitor, MonitorStopped, OneMonitor, TypeOK, Monitors
<1>4. ASSUME NEW m \in Monitors, Loop(m)
      PROVE  OneMonitor'
  <2>1. /\ monitor' = monitor
        /\ loop[m] \notin {"none", "done"}
        /\ \A n \in Monitors \ {m} : loop'[n] = loop[n]
    BY <1>4 DEF Loop, Evaluate, Report, Tick, Leave, TypeOK
  <2>2. QED
    BY <2>1 DEF OneMonitor
<1>5. QED
  BY <1>1, <1>2, <1>3, <1>4
     DEF Next, Caller, SetTransportConfig, Discover, StopMonitor, vars

\* At most one goroutine of a monitor is alive, the one StopMonitor would stop
\* (endpoint.go, Discover and StopMonitor).
THEOREM AtMostOneMonitor == Spec => []OneMonitor
<1>1. Init => OneMonitor
  BY DEF Init, OneMonitor
<1>2. QED
  BY <1>1, NextOneMonitor, TransportTypes, PTL DEF Spec

\* What a round of a monitor decides is about its own relays.
LEMMA ProbedFromList ==
    ASSUME NEW rs \in SUBSET Relays, NEW d \in Probed(DynamicCfg, rs)
    PROVE  d \in TransportDecision /\ (d.useRelay => d.relay \in rs)
<1>1. PICK p2p \in Latencies, lat \in [rs -> Latencies] : d \in SelectDynamic(p2p, lat)
  BY DEF Probed, SelectTransport, DynamicCfg, ModePinned, ModeRelay, ModeDynamic
<1>2. DOMAIN lat = rs /\ BestRelays(lat) \subseteq rs
  BY DEF BestRelays
<1>3. d = UseP2P \/ \E r \in rs : d = UseRelay(r)
  BY <1>1, <1>2 DEF SelectDynamic
<1>4. d.useRelay => d.relay \in rs
  BY <1>3 DEF UseP2P, UseRelay
<1>5. QED
  BY <1>4, ProbedType, DynamicIsConfig

\* Between two reports the loop that stored the decision keeps to the kind of
\* path it has found; a monitor that has not run has stored nothing.
ReporterKeepsKind ==
    \A m \in Monitors :
        /\ loop[m] = "none" => ~current[m].useRelay
        /\ current[m].useRelay => current[m].relay \in list[m]
        /\ reporter = m =>
              /\ loop[m] # "none"
              /\ loop[m] # "report" => decision.useRelay = current[m].useRelay
              /\ decision.useRelay => decision.relay \in list[m]

LEMMA NextReporter == TypeOK /\ ReporterKeepsKind /\ [Next]_vars => ReporterKeepsKind'
<1> SUFFICES ASSUME TypeOK, ReporterKeepsKind, [Next]_vars
             PROVE  ReporterKeepsKind'
  OBVIOUS
<1>1. CASE UNCHANGED <<reporter, decision, loop, current, list>>
  BY <1>1 DEF ReporterKeepsKind
<1>2. ASSUME NEW peerRelay \in Relays \union {None}, Discover(peerRelay)
      PROVE  ReporterKeepsKind'
  BY <1>2, TransportAssumption DEF Discover, ReporterKeepsKind, Monitors
<1>3. ASSUME NEW m \in Monitors, StartMonitor(m)
      PROVE  ReporterKeepsKind'
  BY <1>3 DEF StartMonitor, ReporterKeepsKind, TypeOK
<1>4. ASSUME NEW m \in Monitors, Evaluate(m)
      PROVE  ReporterKeepsKind'
  <2>1. PICK d \in Probed(DynamicCfg, list[m]) :
          /\ current' = [current EXCEPT ![m] = d]
          /\ loop' = [loop EXCEPT ![m] =
                 IF current[m].useRelay # d.useRelay THEN "report" ELSE "wait"]
    BY <1>4 DEF Evaluate
  <2>2. d.useRelay => d.relay \in list[m]
    BY <2>1, ProbedFromList DEF TypeOK
  <2>3. QED
    BY <1>4, <2>1, <2>2 DEF Evaluate, ReporterKeepsKind, TypeOK
<1>5. ASSUME NEW m \in Monitors, Report(m)
      PROVE  ReporterKeepsKind'
  BY <1>5 DEF Report, ReporterKeepsKind, TypeOK
<1>6. ASSUME NEW m \in Monitors, Tick(m) \/ Leave(m)
      PROVE  ReporterKeepsKind'
  BY <1>6 DEF Tick, Leave, ReporterKeepsKind, TypeOK
<1>7. QED
  BY <1>1, <1>2, <1>3, <1>4, <1>5, <1>6
     DEF Next, Caller, Loop, SetTransportConfig, StopMonitor, StopReturned, vars

\* The decision that a monitor has stored keeps to the kind of path the monitor
\* finds, and to its relays (discovery.go, evaluate and onChange).
THEOREM KindFollows == Spec => []KindFollowsReporter
<1>1. Init => ReporterKeepsKind
  BY TransportAssumption DEF Init, ReporterKeepsKind, Monitors, UseP2P
<1>2. ReporterKeepsKind => KindFollowsReporter
  BY DEF ReporterKeepsKind, KindFollowsReporter
<1>3. QED
  BY <1>1, <1>2, NextReporter, TransportTypes, PTL DEF Spec
=============================================================================
