---------------------------- MODULE HealthProbes ----------------------------
(***************************************************************************)
(* The health server of the three services, the checks each of them        *)
(* registers with it, and the kubelet that probes it.                      *)
(*                                                                         *)
(* A check looks at one condition of its surroundings, and its status is a *)
(* function of it; "timeout" stands for no answer within the check's       *)
(* limit.  Answers are prompt, or slow: then every call may take up to its *)
(* limit, and several sound ones together outlast the kubelet's patience.  *)
(* Requests are coroutines of one event loop: two of them may be inside    *)
(* the same check.  A cached result expires, and an open circuit breaker   *)
(* has rested, at any time.                                                *)
(***************************************************************************)
EXTENDS Naturals, Sequences, FiniteSets

CONSTANTS
  Services,          \* subset of {"fcd-manager", "traffic-monitor", "orchestrator"}
  Watches,           \* sets of checks watched together; the others are left out
  Places,            \* 1..n, n the most checks watched at once
  Requests,          \* requests the server works on at once
  Threshold,         \* failures that open a breaker (5)
  StartupThreshold,  \* failed startup probes before a restart (120)
  ReadyThreshold,    \* failed readiness probes before a pod is unready (3)
  None,
  MaxChanges,        \* bound: changes of conditions and of slowness
  MaxReads           \* bound: requests of /health/detail

ASSUME ProbesAssumption ==
  /\ Services \subseteq {"fcd-manager", "traffic-monitor", "orchestrator"}
  /\ Threshold \in Nat \ {0} /\ StartupThreshold \in Nat \ {0}
  /\ ReadyThreshold \in Nat \ {0, 1}
  /\ MaxChanges \in Nat /\ MaxReads \in Nat

----------------------------------------------------------------------------
(* The checks: what each says in each condition.                           *)

FCDDatabase ==
  [recent |-> "healthy", backfilling |-> "healthy", silent |-> "degraded",
   noPing |-> "unhealthy", queryFails |-> "unhealthy", hangs |-> "timeout"]

ValidationDatabase ==
  [recent |-> "healthy", silent |-> "degraded", queryFails |-> "degraded",
   noPing |-> "unhealthy", hangs |-> "timeout"]

\* Not critical, so an absent file is only degraded.
DisturbanceData ==
  [fresh |-> "healthy", stale |-> "degraded", empty |-> "degraded",
   absent |-> "degraded", invalid |-> "unhealthy", hangs |-> "timeout"]

WorkerStatus ==
  [idle |-> "healthy", enough |-> "healthy", half |-> "degraded", fewer |-> "unhealthy"]

OrchestratorLoop ==
  [running |-> "healthy", slow |-> "degraded", deadlocked |-> "unhealthy"]

\* Without verify_integrity, damage in the pages is not seen.
SqliteTables ==
  [grace |-> "healthy", sound |-> "healthy", damaged |-> "healthy",
   noTables |-> "unhealthy", absent |-> "unhealthy", hangs |-> "timeout"]

SqliteIntegrity ==
  [grace |-> "healthy", sound |-> "healthy", damaged |-> "unhealthy", absent |-> "unhealthy",
   hangs |-> "timeout"]

InfluxDBPing == [up |-> "healthy", noPing |-> "unhealthy", hangs |-> "timeout"]

AzureBlobStorage == [up |-> "healthy", refused |-> "unhealthy", hangs |-> "timeout"]

FCDDataFreshness ==
  [recent |-> "healthy", backfilling |-> "healthy", silent |-> "degraded",
   queryFails |-> "unhealthy", hangs |-> "timeout"]

\* The file has the one key segmentId, whose value has no "geometry": one
\* issue.  Three issues are unhealthy; the files fcd-manager writes have at most
\* two, and it takes an error while they are read.  A stale file handle is tried
\* again for longer than the check's limit.
SegmentMappingIntegrity ==
  [grace |-> "healthy", written |-> "degraded", absent |-> "degraded",
   badHistory |-> "degraded", raises |-> "unhealthy", hangs |-> "timeout"]

SegmentMappingFreshness ==
  [fresh |-> "healthy", stale |-> "degraded", absent |-> "unhealthy"]

UpdateCycle ==
  [grace |-> "healthy", never |-> "unhealthy", recent |-> "healthy",
   delayed |-> "degraded", stopped |-> "unhealthy"]

ProcessingPipeline ==
  [idle |-> "healthy", processing |-> "healthy", long |-> "degraded", failed |-> "degraded"]

\* The base check asks for the capabilities, then features are counted.
WFSAPI ==
  [up |-> "healthy", failing |-> "unhealthy", countRefused |-> "degraded",
   countFails |-> "unhealthy", hangs |-> "timeout"]

WFSFails(condition) == condition = "failing"

FCDMapping ==
  [fresh |-> "healthy", stale |-> "degraded", invalid |-> "unhealthy", absent |-> "unhealthy",
   hangs |-> "timeout"]

OutputFile ==
  [writable |-> "healthy", readOnly |-> "unhealthy", diskFull |-> "unhealthy",
   hangs |-> "timeout"]

\* No fetch tried yet: it is given time to start.
UpdateFreshness ==
  [untried |-> "healthy", failedOnce |-> "degraded", failedLong |-> "unhealthy",
   fresh |-> "healthy", ageing |-> "degraded", old |-> "unhealthy"]

\* The methods it looks for are always there.
DetectorStatus == [operational |-> "healthy"]

----------------------------------------------------------------------------
(* What the services register, in order.                                   *)

FcdManagerTable ==
  <<"azure_storage", "influxdb", "data_freshness", "mapping_integrity",
    "mapping_freshness", "update_cycle", "processing_pipeline">>

\* Registered when the server runs already.
FcdManagerLate == <<"fcd_sqlite_segments">>

TrafficMonitorTable ==
  <<"wfs_api", "fcd_mapping", "output_file", "update_freshness",
    "detector_status",
    "tm_sqlite_segments", "tm_sqlite_disturbances">>

OrchestratorTable ==
  <<"sqlite_disturbances", "sqlite_disturbances_integrity", "sqlite_profiles",
    "influxdb_fcd", "influxdb_validation", "disturbance_data", "worker_status",
    "orchestrator_loop">>

FcdManagerStartup == <<"azure_storage_startup", "influxdb_startup">>
TrafficMonitorStartup == <<"wfs_api_startup">>
OrchestratorStartup == <<"influxdb_fcd_startup", "influxdb_validation_startup">>

Verdicts ==
  [azure_storage |-> AzureBlobStorage, influxdb |-> InfluxDBPing,
   data_freshness |-> FCDDataFreshness, mapping_integrity |-> SegmentMappingIntegrity,
   mapping_freshness |-> SegmentMappingFreshness, update_cycle |-> UpdateCycle,
   processing_pipeline |-> ProcessingPipeline, fcd_sqlite_segments |-> SqliteTables,
   azure_storage_startup |-> AzureBlobStorage, influxdb_startup |-> InfluxDBPing,
   wfs_api |-> WFSAPI, fcd_mapping |-> FCDMapping, output_file |-> OutputFile,
   update_freshness |-> UpdateFreshness, detector_status |-> DetectorStatus,
   tm_sqlite_segments |-> SqliteTables, tm_sqlite_disturbances |-> SqliteTables, wfs_api_startup |-> WFSAPI,
   sqlite_disturbances |-> SqliteTables, sqlite_disturbances_integrity |-> SqliteIntegrity,
   sqlite_profiles |-> SqliteTables, influxdb_fcd |-> FCDDatabase,
   influxdb_validation |-> ValidationDatabase, disturbance_data |-> DisturbanceData,
   worker_status |-> WorkerStatus, orchestrator_loop |-> OrchestratorLoop,
   influxdb_fcd_startup |-> InfluxDBPing, influxdb_validation_startup |-> InfluxDBPing]

Critical ==
  {"azure_storage", "influxdb", "mapping_integrity", "wfs_api", "fcd_mapping",
   "update_freshness", "detector_status", "sqlite_disturbances_integrity", "orchestrator_loop",
   "azure_storage_startup", "influxdb_startup", "wfs_api_startup",
   "influxdb_fcd_startup", "influxdb_validation_startup"}

WithBreaker == {"wfs_api", "wfs_api_startup"}

\* These await nothing, and answer at once.
Immediate ==
  {"mapping_freshness", "update_cycle", "processing_pipeline", "update_freshness",
   "worker_status", "orchestrator_loop"}

Long == {"azure_storage", "azure_storage_startup", "data_freshness", "wfs_api", "wfs_api_startup"}

\* Seconds for which the server awaits a check, and the kubelet an answer.
Limit(c) == IF c \in Immediate THEN 0 ELSE IF c \in Long THEN 10 ELSE 5
ProbeTimeout == 5

Table(service) ==
  CASE service = "fcd-manager" ->
         [startup |-> FcdManagerStartup, ready |-> FcdManagerTable, late |-> FcdManagerLate]
    [] service = "traffic-monitor" ->
         [startup |-> TrafficMonitorStartup, ready |-> TrafficMonitorTable, late |-> << >>]
    [] service = "orchestrator" ->
         [startup |-> OrchestratorStartup, ready |-> OrchestratorTable, late |-> << >>]

----------------------------------------------------------------------------
VARIABLES
  table,       \* the watched checks of one service, in order
  registered,  \* the late check has been added
  condition,   \* of each watched check's surroundings
  slow,        \* calls may take up to their limits
  cache,       \* the cached status, or None
  breaker,     \* of each check that has one
  request,     \* what the server works on
  kubelet,     \* its view of the container
  changes, reads,  \* bounds
  spoiled      \* history: not everything has been fine and prompt in this process

server == <<registered, cache, breaker, request>>
around == <<condition, slow>>
vars == <<table, server, around, kubelet, changes, reads, spoiled>>

\* The elements of s that are in w, in the order of s: its places are counted
\* by an increasing function.
Only(s, w) ==
  LET places == {i \in DOMAIN s : s[i] \in w}
      n == Cardinality(places)
  IN {[k \in 1..n |-> s[f[k]]] :
        f \in {g \in [1..n -> places] : \A i, k \in 1..n : i < k => g[i] < g[k]}}

Watched(service, w) ==
  LET t == Table(service)
  IN [startup : Only(t.startup, w), ready : Only(t.ready, w), late : Only(t.late, w)]

All == table.startup \o table.ready \o table.late
Mine == DOMAIN condition

\* The table a request of kind k goes through: /ready and /health/detail
\* share one.
Listed(k) ==
  IF k = "startup" THEN table.startup
  ELSE IF registered THEN table.ready \o table.late ELSE table.ready

\* spent: the seconds a probe's slow calls may have taken.
Idle == [kind |-> "none", at |-> 0, size |-> 0, inside |-> FALSE, ok |-> TRUE, probe |-> FALSE,
         spent |-> 0]

\* rest: whether the time for which it stays open has begun, has been long
\* enough for the kubelet to ask, or is over.
Closed == [state |-> "closed", failures |-> 0, rest |-> "begun"]

NewContainer == [phase |-> "startup", fails |-> 0, ready |-> FALSE]

Verdict(c) == Verdicts[c][condition[c]]

\* What keeps no probe from passing.
FineFor(k, c) ==
  CASE k = "startup" /\ c \in Critical -> Verdict(c) = "healthy"
    [] k # "startup" /\ c \in Critical -> Verdict(c) \in {"healthy", "degraded"}
    [] OTHER -> Verdict(c) # "timeout"

InStartup(c) == \E i \in DOMAIN table.startup : table.startup[i] = c

Fine(c) == FineFor(IF InStartup(c) THEN "startup" ELSE "ready", c)

Amiss == slow \/ \E c \in Mine : ~Fine(c)

At(r) == Listed(request[r].kind)[request[r].at]

\* The kubelet may have given up on a probe whose limit is spent.
Spent(r) ==
  IF request[r].probe /\ request[r].spent <= ProbeTimeout
  THEN request[r].spent + Limit(At(r)) ELSE request[r].spent

FirstConditions(c) ==
  IF "grace" \in DOMAIN Verdicts[c] THEN {"grace"} ELSE DOMAIN Verdicts[c]

Init ==
  /\ \E service \in Services, w \in Watches : table \in Watched(service, w)
  /\ All # << >>
  /\ registered = FALSE
  /\ LET own == {All[i] : i \in DOMAIN All} IN
     /\ condition \in {f \in [own -> UNION {DOMAIN Verdicts[c] : c \in own}] :
                         \A c \in own : f[c] \in FirstConditions(c)}
     /\ cache = [c \in own |-> None]
     /\ breaker = [c \in own \cap WithBreaker |-> Closed]
  /\ request = [r \in Requests |-> Idle]
  /\ kubelet = NewContainer
  /\ slow \in BOOLEAN
  /\ changes = 0 /\ reads = 0
  /\ spoiled = Amiss

----------------------------------------------------------------------------
(* The surroundings, and the time that passes.                             *)

Change ==
  /\ changes < MaxChanges /\ changes' = changes + 1
  /\ \E c \in Mine : \E d \in DOMAIN Verdicts[c] \ {"grace"} :
       d # condition[c] /\ condition' = [condition EXCEPT ![c] = d]
  /\ UNCHANGED <<table, server, slow, kubelet, reads>>
  /\ spoiled' = (spoiled \/ Amiss')

\* Answers become slow, those that are awaited too, or prompt again.
ChangePace ==
  /\ changes < MaxChanges /\ changes' = changes + 1
  /\ slow' = ~slow
  /\ request' = [r \in Requests |->
                   IF slow' /\ request[r].inside
                   THEN [request[r] EXCEPT !.spent = Spent(r)]
                   ELSE request[r]]
  /\ spoiled' = (spoiled \/ slow')
  /\ UNCHANGED <<table, registered, cache, breaker, condition, kubelet, reads>>

\* Mutant: a failure stays cached.
Expire_Successes(c) ==
  /\ cache[c] # None /\ cache[c] # "unhealthy"
  /\ cache' = [cache EXCEPT ![c] = None]
  /\ UNCHANGED <<table, registered, breaker, request, around, kubelet,
                 changes, reads, spoiled>>

Expire(c) ==
  /\ cache[c] # None
  /\ cache' = [cache EXCEPT ![c] = None]
  /\ UNCHANGED <<table, registered, breaker, request, around, kubelet,
                 changes, reads, spoiled>>

Rest(c) ==
  /\ breaker[c].state = "open" /\ breaker[c].rest = "asked"
  /\ breaker' = [breaker EXCEPT ![c].rest = "over"]
  /\ UNCHANGED <<table, registered, cache, request, around, kubelet,
                 changes, reads, spoiled>>

\* add_check from the main thread.
Register ==
  /\ ~registered /\ table.late # << >>
  /\ registered' = TRUE
  /\ UNCHANGED <<table, cache, breaker, request, around, kubelet,
                 changes, reads, spoiled>>

----------------------------------------------------------------------------
(* One request.                                                            *)

\* Mutants: critical is not looked at; once ready, nothing is.
Passes_All(k, c, status) ==
  \/ k = "detail"
  \/ k = "ready" /\ status # "unhealthy"
  \/ k = "startup" /\ (c \in Critical => status = "healthy")
Passes_OnceReady(k, c, status) ==
  \/ k = "detail"
  \/ k = "ready" /\ (c \in Critical /\ ~kubelet.ready => status # "unhealthy")
  \/ k = "startup" /\ (c \in Critical => status = "healthy")

Passes(k, c, status) ==
  \/ k = "detail"
  \/ k = "ready" /\ (c \in Critical => status # "unhealthy")
  \/ k = "startup" /\ (c \in Critical => status = "healthy")

\* successThreshold is 1.
Hears(k, ok) ==
  IF ok
  THEN kubelet' = [kubelet EXCEPT !.phase = "running", !.fails = 0, !.ready = (k = "ready")]
  ELSE LET n == kubelet.fails + 1 IN
       kubelet' = IF k = "startup"
                  THEN [kubelet EXCEPT !.fails = n,
                          !.phase = IF n = StartupThreshold THEN "killed" ELSE @]
                  ELSE [kubelet EXCEPT !.fails = IF n > ReadyThreshold THEN @ ELSE n,
                                       !.ready = @ /\ n < ReadyThreshold]

Answer(r, ok) ==
  /\ request' = [request EXCEPT ![r] = Idle]
  /\ IF request[r].probe THEN Hears(request[r].kind, ok) ELSE UNCHANGED kubelet

\* The loop over the dictionary goes on, ends, or finds that it has grown and
\* raises: the answer is 500.
Advance(r, status) ==
  LET q  == request[r]
      t  == Listed(q.kind)
      ok == q.ok /\ Passes(q.kind, t[q.at], status)
  IN  IF Len(t) # q.size THEN Answer(r, FALSE)
      ELSE IF q.at = q.size THEN Answer(r, ok)
      ELSE /\ request' = [request EXCEPT ![r].at = @ + 1, ![r].inside = FALSE, ![r].ok = ok]
           /\ UNCHANGED kubelet

Begin(r, k, probe) ==
  /\ request[r].kind = "none"
  /\ IF Listed(k) = << >>
     THEN /\ UNCHANGED request
          /\ IF probe THEN Hears(k, TRUE) ELSE UNCHANGED kubelet
     ELSE /\ request' = [request EXCEPT ![r] =
                           [kind |-> k, at |-> 1, size |-> Len(Listed(k)),
                            inside |-> FALSE, ok |-> TRUE, probe |-> probe, spent |-> 0]]
          /\ UNCHANGED kubelet
  /\ UNCHANGED <<table, registered, cache, breaker, around, changes, spoiled>>

Admits(b) == b.state # "open" \/ b.rest = "over"

Blocked(c) == c \in WithBreaker /\ ~Admits(breaker[c])

Active(r) == request[r].kind # "none" /\ request[r].at <= Len(Listed(request[r].kind))

FromCache(r) ==
  /\ Active(r) /\ ~request[r].inside /\ cache[At(r)] # None
  /\ Advance(r, cache[At(r)])
  /\ UNCHANGED <<table, registered, cache, breaker, around, changes, reads, spoiled>>

\* "Circuit breaker is open": degraded, and cached like any result.
ShortCircuit(r) ==
  /\ Active(r) /\ ~request[r].inside /\ cache[At(r)] = None /\ Blocked(At(r))
  /\ cache' = [cache EXCEPT ![At(r)] = "degraded"]
  /\ breaker' = IF request[r].probe THEN [breaker EXCEPT ![At(r)].rest = "asked"] ELSE breaker
  /\ Advance(r, "degraded")
  /\ UNCHANGED <<table, registered, around, changes, reads, spoiled>>

Enter(r) ==
  /\ Active(r) /\ ~request[r].inside /\ cache[At(r)] = None /\ ~Blocked(At(r))
  /\ request' = [request EXCEPT ![r].inside = TRUE,
                                 ![r].spent = IF slow THEN Spent(r) ELSE @]
  /\ breaker' = IF At(r) \in WithBreaker /\ breaker[At(r)].state = "open"
                THEN [breaker EXCEPT ![At(r)] = [@ EXCEPT !.state = "half_open", !.rest = "begun"]]
                ELSE breaker
  /\ UNCHANGED <<table, registered, cache, around, kubelet, changes, reads, spoiled>>

\* What a call does to the breaker that may have changed since it began.
AfterCall(b, fails) ==
  LET n == b.failures + 1 IN
  IF ~fails THEN [b EXCEPT !.failures = 0, !.state = IF @ = "half_open" THEN "closed" ELSE @]
  ELSE IF b.state = "half_open" THEN [b EXCEPT !.state = "open", !.rest = "begun"]
  ELSE IF n < Threshold THEN [b EXCEPT !.failures = n]
  ELSE [state |-> "open", failures |-> Threshold, rest |-> "begun"]

Return(r) ==
  /\ Active(r) /\ request[r].inside
  /\ Verdict(At(r)) # "timeout"
  /\ cache' = [cache EXCEPT ![At(r)] = Verdict(At(r))]
  /\ breaker' = IF At(r) \in WithBreaker
                THEN [breaker EXCEPT ![At(r)] = AfterCall(@, WFSFails(condition[At(r)]))]
                ELSE breaker
  /\ Advance(r, Verdict(At(r)))
  /\ UNCHANGED <<table, registered, around, changes, reads, spoiled>>

\* Cancelled by wait_for: unhealthy, not cached, and unknown to the breaker.
\* The kubelet's own limit is no longer than that of any check that can hang.
TimeOut(r) ==
  /\ Active(r) /\ request[r].inside
  /\ Verdict(At(r)) = "timeout" /\ ~request[r].probe
  /\ Advance(r, "unhealthy")
  /\ UNCHANGED <<table, registered, cache, breaker, around, changes, reads, spoiled>>

----------------------------------------------------------------------------
(* The kubelet, and readers of /health/detail.                             *)

Probing == \E r \in Requests : request[r].probe

Probe ==
  /\ ~Probing /\ kubelet.phase # "killed"
  /\ \E r \in Requests : Begin(r, IF kubelet.phase = "startup" THEN "startup" ELSE "ready", TRUE)
  /\ UNCHANGED reads

\* A check hangs, or the slow calls together have taken too long.  The handler
\* goes on without the kubelet.
GiveUp(r) ==
  /\ request[r].probe /\ request[r].inside
  /\ Verdict(At(r)) = "timeout" \/ request[r].spent > ProbeTimeout
  /\ request' = [request EXCEPT ![r].probe = FALSE, ![r].spent = 0]
  /\ Hears(request[r].kind, FALSE)
  /\ UNCHANGED <<table, registered, cache, breaker, around, changes, reads, spoiled>>

ReadDetail ==
  /\ reads < MaxReads /\ reads' = reads + 1
  /\ \E r \in Requests : Begin(r, "detail", FALSE)

\* After the last startup probe: a new process.
Restart ==
  /\ kubelet.phase = "killed"
  /\ registered' = FALSE
  /\ cache' = [c \in Mine |-> None]
  /\ breaker' = [c \in Mine \cap WithBreaker |-> Closed]
  /\ request' = [r \in Requests |-> Idle]
  /\ kubelet' = NewContainer
  /\ spoiled' = Amiss
  /\ UNCHANGED <<table, around, changes, reads>>

Serve(r) == FromCache(r) \/ ShortCircuit(r) \/ Enter(r) \/ Return(r) \/ TimeOut(r)

Next ==
  \/ Change \/ ChangePace \/ Register \/ Probe \/ ReadDetail \/ Restart
  \/ \E c \in Mine : Expire(c)
  \/ \E c \in DOMAIN breaker : Rest(c)
  \/ \E r \in Requests : Serve(r) \/ GiveUp(r)

Spec == Init /\ [][Next]_vars

\* Time passes, the event loop serves every coroutine, the kubelet probes.
FairSpec ==
  /\ Spec
  /\ WF_vars(Probe) /\ WF_vars(Register) /\ WF_vars(Restart)
  /\ \A i \in Places : /\ WF_vars(i \in DOMAIN All /\ Expire(All[i]))
                      /\ WF_vars(i \in DOMAIN All /\ All[i] \in DOMAIN breaker /\ Rest(All[i]))
  /\ \A r \in Requests : WF_vars(Serve(r)) /\ WF_vars(GiveUp(r))

----------------------------------------------------------------------------
(* Properties.                                                             *)

TypeOK ==
  /\ \E service \in Services, w \in Watches : table \in Watched(service, w)
  /\ registered \in BOOLEAN
  /\ slow \in BOOLEAN /\ \A c \in Mine : condition[c] \in DOMAIN Verdicts[c]
  /\ cache \in [Mine -> {None, "healthy", "degraded", "unhealthy"}]
  /\ breaker \in [Mine \cap WithBreaker ->
                    [state : {"closed", "open", "half_open"}, failures : 0..Threshold,
                     rest : {"begun", "asked", "over"}]]
  /\ request \in [Requests ->
                    [kind : {"none", "startup", "ready", "detail"}, at : Nat, size : Nat,
                     inside : BOOLEAN, ok : BOOLEAN, probe : BOOLEAN, spent : Nat]]
  /\ kubelet \in [phase : {"startup", "running", "killed"},
                  fails : 0..(IF StartupThreshold > ReadyThreshold
                              THEN StartupThreshold ELSE ReadyThreshold),
                  ready : BOOLEAN]
  /\ changes \in 0..MaxChanges /\ reads \in 0..MaxReads /\ spoiled \in BOOLEAN

\* As long as no critical check finds something wrong, nothing hangs and the
\* answers are prompt, the container is not killed and the pod stays ready,
\* whatever the other checks say, whoever else asks, and although fcd-manager
\* registers a check while its server answers (main.py:576): that costs one probe.
NoFalseAlarm ==
  ~spoiled => kubelet.phase # "killed" /\ kubelet.fails <= 1

\* Once everything is fine and prompt for good, the pod becomes ready and stays
\* so: cached failures expire and the breakers close, in whatever state late
\* calls have left them, and what slow calls have failed is made good.
StaysReady == <>[]~Amiss => <>[]kubelet.ready

\* While some critical check without a breaker fails or hangs the pod is taken
\* out of service and kept out, however the answers of other requests fill the cache.
OutageNoticed ==
  <>[](\E c \in (Mine \cap Critical) \ WithBreaker : ~InStartup(c) /\ ~Fine(c))
    => <>[]~kubelet.ready

=============================================================================
