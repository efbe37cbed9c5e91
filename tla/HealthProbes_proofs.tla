------------------------- MODULE HealthProbes_proofs -------------------------
(***************************************************************************)
(* The health server's variables keep their types, and as long as nothing  *)
(* is wrong no probe is failed but by the registration of a check, for any *)
(* checks that are watched, requests and thresholds.                       *)
(***************************************************************************)
EXTENDS HealthProbes, FiniteSetTheorems, TLAPS

Checks == DOMAIN Verdicts
Statuses == {"healthy", "degraded", "unhealthy"}

-----------------------------------------------------------------------------
(* The checks and their tables.                                            *)

LEMMA TableTypes ==
  \A service \in Services :
    Table(service) \in [startup : Seq(Checks), ready : Seq(Checks), late : Seq(Checks)]
<1>1. {"azure_storage", "influxdb", "data_freshness", "mapping_integrity", "mapping_freshness",
       "update_cycle", "processing_pipeline", "fcd_sqlite_segments", "azure_storage_startup",
       "influxdb_startup", "wfs_api", "fcd_mapping", "output_file", "update_freshness",
       "detector_status", "tm_sqlite_segments", "tm_sqlite_disturbances", "wfs_api_startup",
       "sqlite_disturbances", "sqlite_disturbances_integrity", "sqlite_profiles", "influxdb_fcd",
       "influxdb_validation", "disturbance_data", "worker_status", "orchestrator_loop",
       "influxdb_fcd_startup", "influxdb_validation_startup"} = Checks
  BY DEF Checks, Verdicts
<1>2. FcdManagerTable \in Seq(Checks) /\ FcdManagerLate \in Seq(Checks) /\ FcdManagerStartup \in Seq(Checks)
  BY <1>1 DEF FcdManagerTable, FcdManagerLate, FcdManagerStartup
<1>3. TrafficMonitorTable \in Seq(Checks) /\ TrafficMonitorStartup \in Seq(Checks)
  BY <1>1 DEF TrafficMonitorTable, TrafficMonitorStartup
<1>4. OrchestratorTable \in Seq(Checks) /\ OrchestratorStartup \in Seq(Checks)
  BY <1>1 DEF OrchestratorTable, OrchestratorStartup
<1>5. << >> \in Seq(Checks)
  OBVIOUS
<1> QED BY <1>2, <1>3, <1>4, <1>5, ProbesAssumption DEF Table

\* A selection of a sequence is one of its elements' sequences.
LEMMA OnlyType ==
  ASSUME NEW S, NEW s \in Seq(S), NEW w, NEW t \in Only(s, w)
  PROVE  t \in Seq(S)
<1> DEFINE places == {i \in DOMAIN s : s[i] \in w}
           n == Cardinality(places)
<1>1. n \in Nat
  <2>1. Len(s) \in Nat /\ DOMAIN s = 1..Len(s)
    OBVIOUS
  <2>2. IsFiniteSet(1..Len(s))
    BY <2>1, FS_Interval
  <2> QED BY <2>1, <2>2, FS_Subset, FS_CardinalityType
<1>2. PICK f \in [1..n -> places] : t = [k \in 1..n |-> s[f[k]]]
  BY DEF Only
<1> HIDE DEF n
<1>3. \A k \in 1..n : s[f[k]] \in S
  OBVIOUS
<1>4. t \in [1..n -> S]
  BY <1>2, <1>3
<1> QED BY <1>1, <1>4

\* What the checks say.
LEMMA VerdictTypes ==
  \A c \in Checks : \A d \in DOMAIN Verdicts[c] : Verdicts[c][d] \in Statuses \cup {"timeout"}
<1> DEFINE V == Statuses \cup {"timeout"}
           Says(check) == \A d \in DOMAIN check : check[d] \in V
<1>1. /\ Says(FCDDatabase) /\ Says(ValidationDatabase) /\ Says(DisturbanceData)
      /\ Says(WorkerStatus) /\ Says(OrchestratorLoop)
  BY DEF FCDDatabase, ValidationDatabase, DisturbanceData, WorkerStatus, OrchestratorLoop, Statuses
<1>2. /\ Says(SqliteTables) /\ Says(SqliteIntegrity) /\ Says(InfluxDBPing) /\ Says(AzureBlobStorage)
      /\ Says(FCDDataFreshness) /\ Says(SegmentMappingIntegrity) /\ Says(SegmentMappingFreshness)
  BY DEF SqliteTables, SqliteIntegrity, InfluxDBPing, AzureBlobStorage, FCDDataFreshness,
     SegmentMappingIntegrity, SegmentMappingFreshness, Statuses
<1>3. /\ Says(UpdateCycle) /\ Says(ProcessingPipeline) /\ Says(WFSAPI) /\ Says(FCDMapping)
      /\ Says(OutputFile) /\ Says(UpdateFreshness) /\ Says(DetectorStatus)
  BY DEF UpdateCycle, ProcessingPipeline, WFSAPI, FCDMapping, OutputFile, UpdateFreshness,
     DetectorStatus, Statuses
<1> HIDE DEF Says
<1>4. \A c \in Checks : Says(Verdicts[c])
  BY <1>1, <1>2, <1>3 DEF Checks, Verdicts
<1> QED BY <1>4 DEF Says

\* A call to a failing WFS is not fine.
LEMMA WFSVerdict ==
  Verdicts["wfs_api"]["failing"] = "unhealthy" /\ Verdicts["wfs_api_startup"]["failing"] = "unhealthy"
BY DEF Verdicts, WFSAPI

-----------------------------------------------------------------------------
(* Types, and what relates a request to the table and to the kubelet.      *)

Tables == [startup : Seq(Checks), ready : Seq(Checks), late : Seq(Checks)]
Conditions == UNION {DOMAIN Verdicts[c] : c \in Checks}
Breakers == [state : {"closed", "open", "half_open"}, failures : 0..Threshold,
             rest : {"begun", "asked", "over"}]
AllRequests == [kind : {"none", "startup", "ready", "detail"}, at : Nat, size : Nat,
                inside : BOOLEAN, ok : BOOLEAN, probe : BOOLEAN, spent : Nat]
Kubelets == [phase : {"startup", "running", "killed"}, fails : Nat, ready : BOOLEAN]

\* The lengths a table of kind k may have had when a request began.
Sizes(k) == IF k = "startup" THEN {Len(table.startup)}
            ELSE {Len(table.ready)} \cup (IF registered THEN {Len(table.ready \o table.late)} ELSE {})

CheckTypes ==
  /\ table \in Tables /\ registered \in BOOLEAN
  /\ \E service \in Services, w \in Watches : table \in Watched(service, w)
  /\ Mine = {All[i] : i \in 1..Len(All)}
  /\ condition \in [Mine -> Conditions] /\ \A c \in Mine : condition[c] \in DOMAIN Verdicts[c]
  /\ cache \in [Mine -> {None} \cup Statuses]
  /\ breaker \in [Mine \cap WithBreaker -> Breakers]

RequestOK(q) ==
  /\ q.kind = "none" => ~q.probe
  /\ q.kind # "none" => q.size \in Sizes(q.kind) /\ q.at \in 1..q.size

RequestTypes ==
  /\ request \in [Requests -> AllRequests]
  /\ \A r \in Requests : RequestOK(request[r])

\* The kind of the next probe, and of the one that is under way.
ProbeKind(phase) == IF phase = "startup" THEN "startup" ELSE "ready"

\* The kubelet sends one probe at a time, and counts no further than it has to.
KubeletOK ==
  /\ kubelet \in Kubelets
  /\ kubelet.phase = "startup" => kubelet.fails < StartupThreshold
  /\ kubelet.phase = "running" => kubelet.fails <= ReadyThreshold
  /\ kubelet.phase = "killed" => kubelet.fails <= StartupThreshold

ProbesOK ==
  /\ \A r, s \in Requests : request[r].probe /\ request[s].probe => r = s
  /\ \A r \in Requests : request[r].probe =>
       request[r].kind = ProbeKind(kubelet.phase) /\ kubelet.phase # "killed"

ServerInv == CheckTypes /\ RequestTypes /\ KubeletOK /\ ProbesOK

\* A request is at a check of its table.
LEMMA ListedTypes ==
  ASSUME CheckTypes, NEW k
  PROVE  /\ Listed(k) \in Seq(Checks) /\ Len(Listed(k)) \in Sizes(k)
         /\ \A i \in 1..Len(Listed(k)) : Listed(k)[i] \in Mine /\ Listed(k)[i] \in Checks
         /\ k = "startup" => \A i \in 1..Len(Listed(k)) : InStartup(Listed(k)[i])
         /\ \A n \in Sizes(k) : n \in Nat /\ n <= Len(Listed(k))
<1> DEFINE a == table.startup
           b == table.ready
           d == table.late
<1>1. a \in Seq(Checks) /\ b \in Seq(Checks) /\ d \in Seq(Checks)
  BY DEF CheckTypes, Tables
<1>2. All = (a \o b) \o d
  BY DEF All
<1>3. \A i \in 1..Len(All) : All[i] \in Mine
  BY DEF CheckTypes
<1> HIDE DEF a, b, d
<1>4. \A i \in 1..Len(a) : i \in 1..Len(All) /\ All[i] = a[i]
  BY <1>1, <1>2
<1>5. \A i \in 1..Len(b) : Len(a) + i \in 1..Len(All) /\ All[Len(a) + i] = b[i]
  BY <1>1, <1>2
<1>6. \A i \in 1..Len(d) : Len(a) + Len(b) + i \in 1..Len(All) /\ All[Len(a) + Len(b) + i] = d[i]
  BY <1>1, <1>2
<1>7. \A i \in 1..Len(b \o d) :
        (b \o d)[i] = IF i <= Len(b) THEN b[i] ELSE d[i - Len(b)]
  BY <1>1
<1>8. \A i \in 1..Len(b \o d) : (b \o d)[i] \in Mine
  <2>1. \A i \in 1..Len(b) : b[i] \in Mine
    BY <1>3, <1>5
  <2>2. \A i \in 1..Len(d) : d[i] \in Mine
    BY <1>3, <1>6
  <2>3. Len(b) \in Nat /\ Len(d) \in Nat /\ Len(b \o d) = Len(b) + Len(d)
    BY <1>1
  <2>4. ASSUME NEW i \in 1..Len(b \o d) PROVE (b \o d)[i] \in Mine
    <3>1. CASE i <= Len(b)
      BY <1>7, <2>1, <2>3, <3>1
    <3>2. CASE i > Len(b)
      <4>1. i - Len(b) \in 1..Len(d)
        BY <2>3, <3>2
      <4> QED BY <1>7, <2>2, <2>3, <3>2, <4>1
    <3> QED BY <2>3, <3>1, <3>2
  <2> QED BY <2>4
<1>9. /\ Len(b) \in Nat /\ Len(a) \in Nat /\ Len(b) <= Len(b \o d) /\ Len(b \o d) \in Nat
      /\ b \o d \in Seq(Checks)
  BY <1>1
<1>10. Listed(k) = IF k = "startup" THEN a ELSE IF registered THEN b \o d ELSE b
  BY DEF Listed, a, b, d
<1>11. Sizes(k) = IF k = "startup" THEN {Len(a)}
                  ELSE {Len(b)} \cup (IF registered THEN {Len(b \o d)} ELSE {})
  BY DEF Sizes, a, b, d
<1>12. \A i \in 1..Len(a) : InStartup(a[i])
  BY <1>1 DEF InStartup, a
<1>13. Listed(k) \in Seq(Checks) /\ \A i \in 1..Len(Listed(k)) : Listed(k)[i] \in Checks
  BY <1>1, <1>9, <1>10
<1>14. \A i \in 1..Len(Listed(k)) : Listed(k)[i] \in Mine
  BY <1>3, <1>4, <1>5, <1>8, <1>10
<1> QED BY <1>9, <1>10, <1>11, <1>12, <1>13, <1>14

LEMMA AtCheck ==
  ASSUME CheckTypes, RequestTypes, NEW r \in Requests, request[r].kind # "none"
  PROVE  /\ At(r) \in Mine /\ At(r) \in Checks
         /\ request[r].kind = "startup" => InStartup(At(r))
<1>1. /\ request[r].size \in Sizes(request[r].kind) /\ request[r].at \in 1..request[r].size
  BY DEF RequestTypes, RequestOK
<1>2. request[r].at \in 1..Len(Listed(request[r].kind))
  BY <1>1, ListedTypes
<1> QED BY <1>2, ListedTypes DEF At

\* What the kubelet makes of an answer to its probe.
LEMMA HearsOK ==
  ASSUME KubeletOK, kubelet.phase # "killed", NEW ok \in BOOLEAN,
         Hears(ProbeKind(kubelet.phase), ok)
  PROVE  /\ KubeletOK'
         /\ ok => kubelet'.phase = "running" /\ kubelet'.fails = 0
         /\ ~ok /\ kubelet.phase = "running" =>
              kubelet'.phase = "running" /\ kubelet'.fails \in {kubelet.fails, kubelet.fails + 1}
<1> DEFINE n == kubelet.fails + 1
           k == ProbeKind(kubelet.phase)
<1>0. /\ kubelet \in Kubelets /\ kubelet.fails \in Nat /\ n \in Nat
      /\ StartupThreshold \in Nat \ {0} /\ ReadyThreshold \in Nat \ {0}
      /\ kubelet.phase \in {"startup", "running"}
  BY ProbesAssumption DEF KubeletOK, Kubelets
<1>1. CASE ok
  <2>1. kubelet' = [kubelet EXCEPT !.phase = "running", !.fails = 0, !.ready = (k = "ready")]
    BY <1>1 DEF Hears
  <2>2. kubelet' \in Kubelets /\ kubelet'.phase = "running" /\ kubelet'.fails = 0
    BY <1>0, <2>1 DEF Kubelets
  <2> QED BY <1>0, <1>1, <2>2 DEF KubeletOK
<1>2. CASE ~ok /\ kubelet.phase = "startup"
  <2>1. kubelet' = [kubelet EXCEPT !.fails = n,
                      !.phase = IF n = StartupThreshold THEN "killed" ELSE @]
    BY <1>2 DEF Hears, ProbeKind
  <2>2. /\ kubelet' \in Kubelets /\ kubelet'.fails = n
        /\ kubelet'.phase = IF n = StartupThreshold THEN "killed" ELSE "startup"
    BY <1>0, <1>2, <2>1 DEF Kubelets
  <2>3. n <= StartupThreshold
    BY <1>0, <1>2 DEF KubeletOK
  <2> QED BY <1>0, <1>2, <2>2, <2>3 DEF KubeletOK
<1>3. CASE ~ok /\ kubelet.phase = "running"
  <2>1. kubelet' = [kubelet EXCEPT !.fails = IF n > ReadyThreshold THEN @ ELSE n,
                                   !.ready = @ /\ n < ReadyThreshold]
    BY <1>3 DEF Hears, ProbeKind
  <2>2. /\ kubelet' \in Kubelets /\ kubelet'.phase = "running"
        /\ kubelet'.fails = IF n > ReadyThreshold THEN kubelet.fails ELSE n
    BY <1>0, <1>3, <2>1 DEF Kubelets
  <2>3. kubelet.fails <= ReadyThreshold
    BY <1>3 DEF KubeletOK
  <2> QED BY <1>0, <1>3, <2>2, <2>3 DEF KubeletOK
<1> QED BY <1>0, <1>1, <1>2, <1>3

\* One request changes; the kubelet changes only for its probe.
LEMMA RequestStep ==
  ASSUME ServerInv, UNCHANGED <<table, registered>>, NEW r \in Requests, NEW q \in AllRequests,
         request' = [request EXCEPT ![r] = q], RequestOK(q),
         q.probe => /\ ~request[r].probe => \A s \in Requests : ~request[s].probe
                    /\ q.kind = ProbeKind(kubelet'.phase) /\ kubelet'.phase # "killed",
         request[r].probe \/ UNCHANGED kubelet
  PROVE  RequestTypes' /\ ProbesOK'
<1>1. \A s \in Requests : request'[s] = IF s = r THEN q ELSE request[s]
  BY DEF ServerInv, RequestTypes
<1>2. request' \in [Requests -> AllRequests]
  BY DEF ServerInv, RequestTypes
<1>3. \A s \in Requests : RequestOK(request'[s])
  BY <1>1 DEF ServerInv, RequestTypes
<1>4. RequestTypes'
  BY <1>2, <1>3 DEF RequestTypes, RequestOK, Sizes
<1>5. \A s \in Requests \ {r} : request'[s].probe => ~request[r].probe /\ ~q.probe
  BY <1>1 DEF ServerInv, ProbesOK
<1>6. ProbesOK'
  BY <1>1, <1>5 DEF ServerInv, ProbesOK
<1> QED BY <1>4, <1>6

LEMMA IdleOK == Idle \in AllRequests /\ RequestOK(Idle) /\ ~Idle.probe
BY DEF Idle, AllRequests, RequestOK

LEMMA AnswerOK ==
  ASSUME ServerInv, UNCHANGED <<table, registered>>, NEW r \in Requests, NEW ok \in BOOLEAN,
         Answer(r, ok)
  PROVE  RequestTypes' /\ KubeletOK' /\ ProbesOK'
<1>1. RequestTypes' /\ ProbesOK'
  BY IdleOK, RequestStep DEF Answer
<1>2. CASE request[r].probe
  <2>1. Hears(ProbeKind(kubelet.phase), ok) /\ kubelet.phase # "killed"
    BY <1>2 DEF Answer, ServerInv, ProbesOK
  <2> QED BY <1>1, <2>1, HearsOK DEF ServerInv
<1>3. CASE ~request[r].probe
  BY <1>1, <1>3 DEF Answer, ServerInv, KubeletOK
<1> QED BY <1>2, <1>3

\* The seconds a probe may have taken, and nothing else of a request, change.
LEMMA SpentOK ==
  ASSUME RequestTypes, NEW r \in Requests
  PROVE  LET i == [request[r] EXCEPT !.spent = Spent(r)]
         IN  /\ i \in AllRequests /\ RequestOK(i)
             /\ i.kind = request[r].kind /\ i.probe = request[r].probe /\ i.ok = request[r].ok
             /\ i.size = request[r].size /\ i.at = request[r].at
<1>1. request[r] \in AllRequests /\ RequestOK(request[r]) /\ request[r].spent \in Nat
  BY DEF RequestTypes, AllRequests
<1>2. Limit(At(r)) \in Nat
  BY DEF Limit
<1>3. Spent(r) \in Nat
  BY <1>1, <1>2 DEF Spent
<1>4. PICK n \in Nat : n = Spent(r)
  BY <1>3
<1> QED BY <1>1, <1>4 DEF AllRequests, RequestOK

\* A request that has heard a check's status.
NextCheck(q, ok) == [q EXCEPT !.at = @ + 1, !.inside = FALSE, !.ok = ok]

LEMMA NextCheckType ==
  ASSUME NEW q \in AllRequests, NEW ok \in BOOLEAN
  PROVE  LET i == NextCheck(q, ok)
         IN /\ i \in AllRequests /\ i.kind = q.kind /\ i.probe = q.probe /\ i.size = q.size
            /\ i.at = q.at + 1 /\ i.ok = ok /\ i.spent = q.spent
<1>1. q.at \in Nat /\ q.at + 1 \in Nat
  BY DEF AllRequests
<1>2. PICK n \in Nat : n = q.at + 1
  BY <1>1
<1>3. NextCheck(q, ok) = [q EXCEPT !.at = n, !.inside = FALSE, !.ok = ok]
  BY <1>2 DEF NextCheck
<1> QED BY <1>2, <1>3 DEF AllRequests

LEMMA AdvanceOK ==
  ASSUME ServerInv, UNCHANGED <<table, registered>>, NEW r \in Requests, Active(r),
         NEW status, Advance(r, status)
  PROVE  RequestTypes' /\ KubeletOK' /\ ProbesOK'
<1> DEFINE q == request[r]
           ok == q.ok /\ Passes(q.kind, Listed(q.kind)[q.at], status)
<1>0. q \in AllRequests /\ q.kind # "none" /\ RequestOK(q) /\ ok \in BOOLEAN
  BY DEF ServerInv, RequestTypes, Active, AllRequests
<1>1. CASE Answer(r, FALSE) \/ Answer(r, ok)
  BY <1>0, <1>1, AnswerOK
<1>2. CASE /\ q.at # q.size /\ request' = [request EXCEPT ![r] = NextCheck(q, ok)]
           /\ UNCHANGED kubelet
  <2> HIDE DEF ok
  <2> DEFINE i == NextCheck(q, ok)
  <2>1. /\ i \in AllRequests /\ i.kind = q.kind /\ i.probe = q.probe /\ i.size = q.size
        /\ i.at = q.at + 1
    BY <1>0, NextCheckType
  <2>2. q.size \in Nat /\ q.at \in 1..q.size
    BY <1>0 DEF AllRequests, RequestOK
  <2> HIDE DEF i
  <2>3. i.at \in 1..i.size
    BY <1>2, <2>1, <2>2
  <2>4. RequestOK(i)
    BY <1>0, <2>1, <2>3 DEF RequestOK
  <2>5. i.probe => i.kind = ProbeKind(kubelet'.phase) /\ kubelet'.phase # "killed"
    BY <1>2, <2>1 DEF ServerInv, ProbesOK
  <2>6. request' = [request EXCEPT ![r] = i]
    BY <1>2 DEF i
  <2>7. RequestTypes' /\ ProbesOK'
    BY <1>2, <2>1, <2>4, <2>5, <2>6, RequestStep
  <2> QED BY <1>2, <2>7 DEF ServerInv, KubeletOK
<1>3. request = [request EXCEPT ![r] = q]
  BY DEF ServerInv, RequestTypes
<1>4. \/ Answer(r, FALSE) \/ Answer(r, ok)
      \/ q.at # q.size /\ request' = [request EXCEPT ![r] = NextCheck(q, ok)] /\ UNCHANGED kubelet
  BY DEF Advance, NextCheck, ServerInv, RequestTypes
<1> QED BY <1>1, <1>2, <1>4

\* A request goes into a check: slow calls are counted.
LEMMA EnterOK ==
  ASSUME RequestTypes, NEW r \in Requests, Enter(r)
  PROVE  \E i \in AllRequests :
           /\ request' = [request EXCEPT ![r] = i] /\ UNCHANGED kubelet
           /\ i.kind = request[r].kind /\ i.probe = request[r].probe /\ i.ok = request[r].ok
           /\ i.size = request[r].size /\ i.at = request[r].at
           /\ ~slow => i.spent = request[r].spent
<1>1. request[r] \in AllRequests /\ request[r].spent \in Nat
  BY DEF RequestTypes, AllRequests
<1>2. [request[r] EXCEPT !.spent = Spent(r)] \in AllRequests
  BY SpentOK
<1>3. Spent(r) \in Nat
  BY <1>1, <1>2 DEF AllRequests
<1> DEFINE n == IF slow THEN Spent(r) ELSE request[r].spent
           i == [request[r] EXCEPT !.inside = TRUE, !.spent = n]
<1>4. n \in Nat /\ (~slow => n = request[r].spent)
  BY <1>1, <1>3
<1>5. request' = [request EXCEPT ![r] = i] /\ UNCHANGED kubelet
  BY <1>1 DEF Enter, RequestTypes
<1> HIDE DEF n
<1>6. /\ i \in AllRequests /\ i.kind = request[r].kind /\ i.probe = request[r].probe
      /\ i.ok = request[r].ok /\ i.size = request[r].size /\ i.at = request[r].at
      /\ i.spent = n
  BY <1>1, <1>4 DEF AllRequests
<1> QED BY <1>4, <1>5, <1>6

LEMMA ServeOK ==
  ASSUME ServerInv, NEW r \in Requests, Serve(r)
  PROVE  RequestTypes' /\ KubeletOK' /\ ProbesOK'
<1>1. UNCHANGED <<table, registered>>
  BY DEF Serve, FromCache, ShortCircuit, Enter, Return, TimeOut
<1>2. CASE FromCache(r) \/ ShortCircuit(r) \/ Return(r) \/ TimeOut(r)
  BY <1>1, <1>2, AdvanceOK DEF FromCache, ShortCircuit, Return, TimeOut
<1>3. CASE Enter(r)
  <2>a. PICK i \in AllRequests :
          /\ request' = [request EXCEPT ![r] = i] /\ UNCHANGED kubelet
          /\ i.kind = request[r].kind /\ i.probe = request[r].probe
          /\ i.size = request[r].size /\ i.at = request[r].at
    BY <1>3, EnterOK DEF ServerInv
  <2>1. request' = [request EXCEPT ![r] = i] /\ UNCHANGED kubelet
    BY <2>a
  <2>2. /\ i \in AllRequests /\ i.kind = request[r].kind /\ i.probe = request[r].probe
        /\ i.size = request[r].size /\ i.at = request[r].at
    BY <2>a
  <2>3. RequestOK(i)
    BY <2>2 DEF ServerInv, RequestTypes, RequestOK
  <2>4. i.probe => i.kind = ProbeKind(kubelet'.phase) /\ kubelet'.phase # "killed"
    BY <2>1, <2>2 DEF ServerInv, ProbesOK
  <2>5. RequestTypes' /\ ProbesOK'
    BY <1>1, <2>1, <2>2, <2>3, <2>4, RequestStep
  <2> QED BY <2>1, <2>5 DEF ServerInv, KubeletOK
<1> QED BY <1>2, <1>3 DEF Serve

LEMMA GiveUpOK ==
  ASSUME ServerInv, NEW r \in Requests, GiveUp(r)
  PROVE  RequestTypes' /\ KubeletOK' /\ ProbesOK'
<1> DEFINE i == [request[r] EXCEPT !.probe = FALSE, !.spent = 0]
<1>1. request' = [request EXCEPT ![r] = i] /\ UNCHANGED <<table, registered>> /\ request[r].probe
  BY DEF GiveUp, ServerInv, RequestTypes
<1>2. /\ i \in AllRequests /\ i.kind = request[r].kind /\ ~i.probe
      /\ i.size = request[r].size /\ i.at = request[r].at
  BY DEF ServerInv, RequestTypes, AllRequests
<1> HIDE DEF i
<1>3. RequestOK(i)
  BY <1>2 DEF ServerInv, RequestTypes, RequestOK
<1>4. RequestTypes' /\ ProbesOK'
  BY <1>1, <1>2, <1>3, RequestStep
<1>5. Hears(ProbeKind(kubelet.phase), FALSE) /\ kubelet.phase # "killed"
  BY <1>1 DEF GiveUp, ServerInv, ProbesOK
<1> QED BY <1>4, <1>5, HearsOK DEF ServerInv

\* A new request starts at the head of its table.
NewRequest(k, probe) ==
  [kind |-> k, at |-> 1, size |-> Len(Listed(k)), inside |-> FALSE, ok |-> TRUE, probe |-> probe,
   spent |-> 0]

LEMMA PaceOK ==
  ASSUME ServerInv, ChangePace
  PROVE  RequestTypes' /\ ProbesOK'
<1>1. /\ UNCHANGED <<table, registered, kubelet>>
      /\ \A r \in Requests : \/ request'[r] = request[r]
                             \/ request'[r] = [request[r] EXCEPT !.spent = Spent(r)]
      /\ request' = [r \in Requests |-> request'[r]]
  BY DEF ChangePace
<1>2. \A r \in Requests :
        /\ request'[r] \in AllRequests /\ RequestOK(request'[r])
        /\ request'[r].kind = request[r].kind /\ request'[r].probe = request[r].probe
  BY <1>1, SpentOK DEF ServerInv, RequestTypes
<1>3. RequestTypes'
  <2>1. request' \in [Requests -> AllRequests]
    BY <1>1, <1>2
  <2> QED BY <1>1, <1>2, <2>1 DEF RequestTypes, RequestOK, Sizes
<1>4. ProbesOK'
  BY <1>1, <1>2 DEF ServerInv, ProbesOK
<1> QED BY <1>3, <1>4

LEMMA NewRequestOK ==
  ASSUME CheckTypes, NEW k \in {"startup", "ready", "detail"}, NEW probe \in BOOLEAN, Listed(k) # << >>
  PROVE  NewRequest(k, probe) \in AllRequests /\ RequestOK(NewRequest(k, probe))
<1>1. Len(Listed(k)) \in Nat \ {0} /\ Len(Listed(k)) \in Sizes(k)
  BY ListedTypes
<1>2. 1 \in 1..Len(Listed(k))
  BY <1>1
<1> QED BY <1>1, <1>2 DEF NewRequest, AllRequests, RequestOK

LEMMA BeginOK ==
  ASSUME ServerInv, Probe \/ ReadDetail
  PROVE  RequestTypes' /\ KubeletOK' /\ ProbesOK'
<1>1. PICK r \in Requests : \/ /\ Begin(r, ProbeKind(kubelet.phase), TRUE) /\ ~Probing
                               /\ kubelet.phase # "killed"
                            \/ Begin(r, "detail", FALSE)
  BY DEF Probe, ReadDetail, ProbeKind
<1>2. PICK k \in {"startup", "ready", "detail"}, probe \in BOOLEAN :
        /\ Begin(r, k, probe)
        /\ probe => /\ k = ProbeKind(kubelet.phase) /\ kubelet.phase # "killed"
                    /\ \A s \in Requests : ~request[s].probe
  BY <1>1 DEF ProbeKind, Probing
<1>3. UNCHANGED <<table, registered>> /\ request[r].kind = "none"
  BY <1>2 DEF Begin
<1>4. CASE Listed(k) = << >>
  <2>1. UNCHANGED request /\ IF probe THEN Hears(k, TRUE) ELSE UNCHANGED kubelet
    BY <1>2, <1>4 DEF Begin
  <2>2. KubeletOK'
    <3>1. CASE probe
      BY <1>2, <2>1, <3>1, HearsOK DEF ServerInv
    <3>2. CASE ~probe
      BY <2>1, <3>2 DEF ServerInv, KubeletOK
    <3> QED BY <3>1, <3>2
  <2>3. RequestTypes'
    BY <1>3, <2>1 DEF ServerInv, RequestTypes, RequestOK, Sizes
  <2>4. ProbesOK'
    BY <1>2, <2>1 DEF ServerInv, ProbesOK
  <2> QED BY <2>2, <2>3, <2>4
<1>5. CASE Listed(k) # << >>
  <2> DEFINE q == NewRequest(k, probe)
  <2>1. request' = [request EXCEPT ![r] = q] /\ UNCHANGED kubelet
    BY <1>2, <1>5 DEF Begin, NewRequest
  <2>2. q \in AllRequests /\ RequestOK(q)
    BY <1>5, NewRequestOK DEF ServerInv
  <2>3. q.kind = k /\ q.probe = probe
    BY DEF NewRequest
  <2> HIDE DEF q
  <2>4. RequestTypes' /\ ProbesOK'
    BY <1>2, <1>3, <2>1, <2>2, <2>3, RequestStep
  <2> QED BY <2>1, <2>4 DEF ServerInv, KubeletOK
<1> QED BY <1>4, <1>5

\* What a call leaves of a breaker.
LEMMA AfterCallType ==
  ASSUME NEW b \in Breakers, NEW fails \in BOOLEAN
  PROVE  AfterCall(b, fails) \in Breakers
<1>1. Threshold \in Nat /\ 0 \in 0..Threshold /\ Threshold \in 0..Threshold
  BY ProbesAssumption
<1>2. CASE ~fails
  BY <1>1, <1>2 DEF AfterCall, Breakers
<1>3. CASE fails
  <2>1. b.failures \in Nat
    BY DEF Breakers
  <2>2. PICK n \in Nat : n = b.failures + 1
    BY <2>1
  <2>3. n < Threshold => n \in 0..Threshold
    BY <1>1, <2>2
  <2> QED BY <1>1, <1>3, <2>2, <2>3 DEF AfterCall, Breakers
<1> QED BY <1>2, <1>3

LEMMA AllType ==
  ASSUME table \in Tables
  PROVE  All \in Seq(Checks) /\ DOMAIN All = 1..Len(All)
<1>1. /\ table.startup \in Seq(Checks) /\ table.ready \in Seq(Checks) /\ table.late \in Seq(Checks)
  BY DEF Tables
<1>2. All \in Seq(Checks)
  BY <1>1 DEF All
<1> QED BY <1>2

LEMMA ServerInit == Init => ServerInv
<1> SUFFICES ASSUME Init PROVE ServerInv
  OBVIOUS
<1>1. PICK service \in Services, w \in Watches : table \in Watched(service, w)
  BY DEF Init
<1>2. table \in Tables
  <2>1. /\ Table(service).startup \in Seq(Checks) /\ Table(service).ready \in Seq(Checks)
        /\ Table(service).late \in Seq(Checks)
    BY TableTypes
  <2>2. /\ Only(Table(service).startup, w) \subseteq Seq(Checks)
        /\ Only(Table(service).ready, w) \subseteq Seq(Checks)
        /\ Only(Table(service).late, w) \subseteq Seq(Checks)
    BY <2>1, OnlyType
  <2> QED BY <1>1, <2>2 DEF Watched, Tables
<1>3. All \in Seq(Checks) /\ DOMAIN All = 1..Len(All)
  BY <1>2, AllType
<1> DEFINE own == {All[i] : i \in DOMAIN All}
<1>4. own \subseteq Checks
  BY <1>3
<1>5. /\ condition \in [own -> UNION {DOMAIN Verdicts[c] : c \in own}]
      /\ \A c \in own : condition[c] \in FirstConditions(c)
      /\ cache = [c \in own |-> None] /\ breaker = [c \in own \cap WithBreaker |-> Closed]
  BY DEF Init
<1>6. Mine = own
  BY <1>5 DEF Mine
<1>7. Closed \in Breakers
  <2>1. 0 \in 0..Threshold
    BY ProbesAssumption
  <2> QED BY <2>1 DEF Closed, Breakers
<1>8. CheckTypes
  <2>1. \A c \in Mine : condition[c] \in DOMAIN Verdicts[c]
    BY <1>5, <1>6 DEF FirstConditions
  <2>2. condition \in [Mine -> Conditions]
    BY <1>4, <1>5, <1>6, <2>1 DEF Conditions
  <2>3. cache \in [Mine -> {None} \cup Statuses] /\ breaker \in [Mine \cap WithBreaker -> Breakers]
    BY <1>5, <1>6, <1>7
  <2>4. registered \in BOOLEAN
    BY DEF Init
  <2> QED BY <1>1, <1>2, <1>3, <1>6, <2>1, <2>2, <2>3, <2>4 DEF CheckTypes
<1>9. RequestTypes /\ ProbesOK
  <2>1. request \in [Requests -> AllRequests] /\ \A r \in Requests : request[r] = Idle
    BY IdleOK DEF Init
  <2> QED BY <2>1, IdleOK DEF RequestTypes, ProbesOK
<1>10. KubeletOK
  BY ProbesAssumption DEF Init, NewContainer, KubeletOK, Kubelets
<1> QED BY <1>8, <1>9, <1>10 DEF ServerInv

LEMMA CheckStep ==
  ASSUME ServerInv, [Next]_vars
  PROVE  CheckTypes'
<1>0. /\ CheckTypes /\ condition \in [Mine -> Conditions] /\ cache \in [Mine -> {None} \cup Statuses]
      /\ breaker \in [Mine \cap WithBreaker -> Breakers]
  BY DEF ServerInv, CheckTypes
<1>1. table' = table
  BY DEF Next, vars, server, Change, ChangePace, Register, Probe, ReadDetail, Begin, Restart, Expire,
     Rest, Serve, FromCache, ShortCircuit, Enter, Return, TimeOut, GiveUp
<1>2. ASSUME condition' = condition, cache' \in [Mine -> {None} \cup Statuses],
             breaker' \in [Mine \cap WithBreaker -> Breakers], registered' \in BOOLEAN
      PROVE  CheckTypes'
  BY <1>0, <1>1, <1>2 DEF CheckTypes, Mine, All
<1>3. ASSUME NEW r \in Requests, Serve(r) PROVE CheckTypes'
  <2> DEFINE c == At(r)
  <2>1. UNCHANGED <<condition, registered>>
    BY <1>3 DEF around, Serve, FromCache, ShortCircuit, Enter, Return, TimeOut
  <2>2. c \in Mine /\ c \in Checks
    BY <1>3, AtCheck DEF ServerInv, Serve, FromCache, ShortCircuit, Enter, Return, TimeOut, Active
  <2> HIDE DEF c
  <2>3. Verdict(c) \in Statuses \cup {"timeout"}
    BY <1>0, <2>2, VerdictTypes DEF CheckTypes, Verdict
  <2>4. cache' \in [Mine -> {None} \cup Statuses]
    <3>1. \/ UNCHANGED cache \/ cache' = [cache EXCEPT ![c] = "degraded"]
          \/ Verdict(c) # "timeout" /\ cache' = [cache EXCEPT ![c] = Verdict(c)]
      BY <1>3 DEF Serve, FromCache, ShortCircuit, Enter, Return, TimeOut, c
    <3> QED BY <1>0, <2>3, <3>1 DEF Statuses
  <2>5. breaker' \in [Mine \cap WithBreaker -> Breakers]
    <3>1. \A b \in Breakers : /\ [b EXCEPT !.rest = "asked"] \in Breakers
                              /\ [b EXCEPT !.state = "half_open", !.rest = "begun"] \in Breakers
                              /\ \A d : AfterCall(b, WFSFails(d)) \in Breakers
      BY AfterCallType DEF Breakers, WFSFails
    <3>2. \/ UNCHANGED breaker
          \/ c \in WithBreaker /\ breaker' = [breaker EXCEPT ![c].rest = "asked"]
          \/ c \in WithBreaker /\ breaker' = [breaker EXCEPT ![c] =
                                    [@ EXCEPT !.state = "half_open", !.rest = "begun"]]
          \/ c \in WithBreaker /\ breaker' = [breaker EXCEPT ![c] = AfterCall(@, WFSFails(condition[c]))]
      BY <1>3 DEF Serve, FromCache, ShortCircuit, Enter, Return, TimeOut, Blocked, c
    <3>3. c \in WithBreaker => c \in DOMAIN breaker /\ breaker[c] \in Breakers
      BY <1>0, <2>2
    <3>4. UNCHANGED breaker \/ \E b \in Breakers : breaker' = [breaker EXCEPT ![c] = b]
      <4>1. CASE UNCHANGED breaker
        BY <4>1
      <4>2. CASE c \in WithBreaker /\ breaker' = [breaker EXCEPT ![c].rest = "asked"]
        BY <3>1, <3>3, <4>2
      <4>3. CASE c \in WithBreaker /\ breaker' = [breaker EXCEPT ![c] =
                                    [@ EXCEPT !.state = "half_open", !.rest = "begun"]]
        BY <3>1, <3>3, <4>3
      <4>4. CASE c \in WithBreaker /\ breaker' = [breaker EXCEPT ![c] = AfterCall(@, WFSFails(condition[c]))]
        BY <3>1, <3>3, <4>4
      <4> QED BY <3>2, <4>1, <4>2, <4>3, <4>4
    <3> QED BY <1>0, <3>4
  <2> QED BY <1>0, <1>2, <2>1, <2>4, <2>5 DEF CheckTypes
<1>4. CASE Change
  <2>a. PICK c \in Mine : \E d \in DOMAIN Verdicts[c] : condition' = [condition EXCEPT ![c] = d]
    BY <1>4 DEF Change
  <2>1. PICK d \in DOMAIN Verdicts[c] : condition' = [condition EXCEPT ![c] = d]
    BY <2>a
  <2>2. c \in Checks
    <3>1. All \in Seq(Checks)
      BY <1>0, AllType DEF CheckTypes
    <3> QED BY <1>0, <3>1 DEF CheckTypes
  <2>3. d \in Conditions
    BY <2>1, <2>2 DEF Conditions
  <2>4. condition' \in [Mine -> Conditions] /\ \A x \in Mine : condition'[x] \in DOMAIN Verdicts[x]
    BY <1>0, <2>1, <2>3 DEF CheckTypes
  <2>5. Mine' = Mine
    BY <1>0, <2>4 DEF Mine
  <2>6. UNCHANGED <<cache, breaker, registered>>
    BY <1>4 DEF Change, server
  <2> QED BY <1>0, <1>1, <2>4, <2>5, <2>6 DEF CheckTypes, All
<1>5. CASE \/ ChangePace \/ Register \/ Probe \/ ReadDetail \/ UNCHANGED vars
           \/ \E r \in Requests : GiveUp(r)
  <2>1. UNCHANGED <<condition, cache, breaker>> /\ registered' \in BOOLEAN
    BY <1>0, <1>5 DEF around, CheckTypes, ChangePace, Register, Probe, ReadDetail, Begin, GiveUp, vars, server
  <2> QED BY <1>0, <1>2, <2>1
<1>6. CASE Restart
  <2>1. Closed \in Breakers
    <3>1. 0 \in 0..Threshold
      BY ProbesAssumption
    <3> QED BY <3>1 DEF Closed, Breakers
  <2> QED BY <1>2, <1>6, <2>1 DEF Restart, around
<1>7. ASSUME NEW c \in Mine, Expire(c) PROVE CheckTypes'
  <2>1. UNCHANGED <<condition, breaker, registered>> /\ cache' = [cache EXCEPT ![c] = None]
    BY <1>7 DEF Expire, around
  <2> QED BY <1>0, <1>2, <2>1 DEF CheckTypes
<1>8. ASSUME NEW c \in DOMAIN breaker, Rest(c) PROVE CheckTypes'
  <2>1. UNCHANGED <<condition, cache, registered>> /\ breaker' = [breaker EXCEPT ![c].rest = "over"]
    BY <1>8 DEF Rest, around
  <2>2. \A b \in Breakers : [b EXCEPT !.rest = "over"] \in Breakers
    BY DEF Breakers
  <2> QED BY <1>0, <1>2, <2>1, <2>2 DEF CheckTypes
<1> QED BY <1>3, <1>4, <1>5, <1>6, <1>7, <1>8 DEF Next

LEMMA ServerStep == ServerInv /\ [Next]_vars => ServerInv'
<1> SUFFICES ASSUME ServerInv, [Next]_vars PROVE RequestTypes' /\ KubeletOK' /\ ProbesOK'
  BY CheckStep DEF ServerInv
<1>1. CASE Probe \/ ReadDetail
  BY <1>1, BeginOK
<1>2. ASSUME NEW r \in Requests, Serve(r) \/ GiveUp(r) PROVE RequestTypes' /\ KubeletOK' /\ ProbesOK'
  BY <1>2, ServeOK, GiveUpOK
<1>3. CASE Register
  <2>1. UNCHANGED <<table, request, kubelet>> /\ registered'
    BY <1>3 DEF Register
  <2>2. \A k : Sizes(k) \subseteq Sizes(k)'
    BY <2>1 DEF Sizes
  <2>3. RequestTypes'
    BY <2>1, <2>2 DEF ServerInv, RequestTypes, RequestOK
  <2> QED BY <2>1, <2>3 DEF ServerInv, KubeletOK, ProbesOK
<1>4. CASE Restart
  <2>1. /\ request' = [r \in Requests |-> Idle] /\ kubelet' = NewContainer
    BY <1>4 DEF Restart
  <2>2. RequestTypes' /\ ProbesOK'
    <3>1. request' \in [Requests -> AllRequests] /\ \A r \in Requests : request'[r] = Idle
      BY <2>1, IdleOK
    <3>2. Idle.kind = "none" /\ ~Idle.probe
      BY DEF Idle
    <3> QED BY <3>1, <3>2 DEF RequestTypes, RequestOK, ProbesOK
  <2>3. KubeletOK'
    BY <2>1, ProbesAssumption DEF NewContainer, KubeletOK, Kubelets
  <2> QED BY <2>2, <2>3
<1>5. CASE Change \/ (\E c \in Mine : Expire(c)) \/ (\E c \in DOMAIN breaker : Rest(c)) \/ UNCHANGED vars
  <2>1. UNCHANGED <<table, registered, request, kubelet>>
    BY <1>5 DEF Change, Expire, Rest, vars, server
  <2> QED BY <2>1 DEF ServerInv, RequestTypes, RequestOK, Sizes, KubeletOK, ProbesOK
<1>6. CASE ChangePace
  <2>1. UNCHANGED kubelet
    BY <1>6 DEF ChangePace
  <2> QED BY <1>6, <2>1, PaceOK DEF ServerInv, KubeletOK
<1> QED BY <1>1, <1>2, <1>3, <1>4, <1>5, <1>6 DEF Next

THEOREM ServerInvariance == Spec => []ServerInv
BY ServerInit, ServerStep, PTL DEF Spec

\* The health server's variables keep their types.
THEOREM ProbeTypes == Spec => []TypeOK
<1> DEFINE Others == changes \in 0..MaxChanges /\ reads \in 0..MaxReads /\ spoiled \in BOOLEAN
                    /\ slow \in BOOLEAN
<1>0. MaxChanges \in Nat /\ MaxReads \in Nat
  BY ProbesAssumption
<1>1. Init => Others
  BY <1>0 DEF Init, Amiss
<1>2. Others /\ [Next]_vars => Others'
  <2> SUFFICES ASSUME Others, [Next]_vars PROVE Others'
    OBVIOUS
  <2>1. CASE Change \/ ChangePace
    <3>1. changes' \in 0..MaxChanges /\ reads' \in 0..MaxReads
      BY <1>0, <2>1 DEF Change, ChangePace
    <3>2. spoiled' \in BOOLEAN /\ slow' \in BOOLEAN
      BY <2>1, Zenon DEF Change, ChangePace, Amiss
    <3> QED BY <3>1, <3>2
  <2>2. CASE ReadDetail
    BY <1>0, <2>2 DEF ReadDetail, Begin, around
  <2>3. CASE Restart
    BY <2>3 DEF Restart, around, Amiss
  <2>4. CASE ~(Change \/ ChangePace \/ ReadDetail \/ Restart)
    <3>1. UNCHANGED <<changes, reads, spoiled, slow>>
      BY <2>4 DEF Next, vars, around, Register, Probe, Begin, Expire, Rest, Serve, FromCache, ShortCircuit,
         Enter, Return, TimeOut, GiveUp
    <3> QED BY <3>1
  <2> QED BY <2>1, <2>2, <2>3, <2>4
<1>3. ServerInv /\ Others => TypeOK
  <2> SUFFICES ASSUME ServerInv, Others PROVE TypeOK
    OBVIOUS
  <2>1. kubelet \in [phase : {"startup", "running", "killed"},
                     fails : 0..(IF StartupThreshold > ReadyThreshold
                                 THEN StartupThreshold ELSE ReadyThreshold),
                     ready : BOOLEAN]
    <3>1. StartupThreshold \in Nat /\ ReadyThreshold \in Nat
      BY ProbesAssumption
    <3>2. PICK most \in Nat : /\ most = IF StartupThreshold > ReadyThreshold
                                        THEN StartupThreshold ELSE ReadyThreshold
                              /\ StartupThreshold <= most /\ ReadyThreshold <= most
      BY <3>1
    <3>3. kubelet \in Kubelets /\ kubelet.fails \in Nat
      BY DEF ServerInv, KubeletOK, Kubelets
    <3>4. kubelet.fails <= most
      BY <3>1, <3>2, <3>3 DEF ServerInv, KubeletOK, Kubelets
    <3>5. kubelet.fails \in 0..most
      BY <3>2, <3>3, <3>4
    <3> QED BY <3>2, <3>3, <3>5 DEF Kubelets
  <2>2. /\ \E service \in Services, w \in Watches : table \in Watched(service, w)
        /\ registered \in BOOLEAN /\ \A c \in Mine : condition[c] \in DOMAIN Verdicts[c]
    BY DEF ServerInv, CheckTypes
  <2>3. cache \in [Mine -> {None, "healthy", "degraded", "unhealthy"}]
    BY DEF ServerInv, CheckTypes, Statuses
  <2>4. breaker \in [Mine \cap WithBreaker -> Breakers] /\ request \in [Requests -> AllRequests]
    BY DEF ServerInv, CheckTypes, RequestTypes
  <2> QED BY <2>1, <2>2, <2>3, <2>4 DEF TypeOK, Breakers, AllRequests
<1> QED BY <1>1, <1>2, <1>3, ServerInvariance, PTL DEF Spec

-----------------------------------------------------------------------------
(* No false alarm.                                                         *)

\* What is cached of a critical check keeps no probe from passing.
FineStatus(c, status) == IF InStartup(c) THEN status = "healthy" ELSE status # "unhealthy"

ChecksCalm ==
  /\ \A c \in Mine : Fine(c)
  /\ \A c \in Mine \cap Critical : cache[c] # None => FineStatus(c, cache[c])
  /\ \A c \in Mine \cap WithBreaker : breaker[c].state = "closed"

\* A failed probe was under way when the late check came, and has been the
\* only one; a later probe began with the table as it is.
ProbeCalm(q) ==
  q.probe =>
    /\ q.ok /\ q.spent = 0
    /\ q.kind = "ready" => \/ q.size = Len(Listed("ready"))
                           \/ registered /\ kubelet.fails = 0

KubeletCalm ==
  /\ kubelet.phase # "killed" /\ kubelet.fails \in {0, 1}
  /\ kubelet.fails = 1 => registered /\ kubelet.phase = "running"

Calm == ~spoiled => ~slow /\ ChecksCalm /\ KubeletCalm /\ \A r \in Requests : ProbeCalm(request[r])

\* What a fine check says passes each table it is in, and closes its breaker.
LEMMA FineSays ==
  ASSUME CheckTypes, NEW c \in Mine, c \in Checks, Fine(c)
  PROVE  /\ Verdict(c) # "timeout"
         /\ c \in Critical => FineStatus(c, Verdict(c))
         /\ c \in WithBreaker => ~WFSFails(condition[c])
<1>1. /\ c \in Critical /\ InStartup(c) => Verdict(c) = "healthy"
      /\ c \in Critical /\ ~InStartup(c) => Verdict(c) \in {"healthy", "degraded"}
      /\ c \notin Critical => Verdict(c) # "timeout"
  BY DEF Fine, FineFor
<1>2. c \in WithBreaker => c \in Critical
  BY DEF WithBreaker, Critical
<1>3. c \in WithBreaker /\ WFSFails(condition[c]) => Verdict(c) = "unhealthy"
  BY WFSVerdict DEF WithBreaker, WFSFails, Verdict
<1> QED BY <1>1, <1>2, <1>3 DEF FineStatus

LEMMA FinePasses ==
  ASSUME CheckTypes, RequestTypes, NEW r \in Requests, request[r].kind \in {"startup", "ready"},
         NEW status, At(r) \in Critical => FineStatus(At(r), status)
  PROVE  Passes(request[r].kind, At(r), status)
<1>1. request[r].kind = "startup" => InStartup(At(r))
  BY AtCheck
<1> QED BY <1>1 DEF FineStatus, Passes

\* The probe that is under way when its table has grown is the one that fails.
LEMMA CalmAdvance ==
  ASSUME ServerInv, ServerInv', ~spoiled, Calm, UNCHANGED <<table, registered>>,
         NEW r \in Requests, Active(r),
         NEW status, At(r) \in Critical => FineStatus(At(r), status), Advance(r, status)
  PROVE  KubeletCalm' /\ \A s \in Requests : ProbeCalm(request[s])'
<1> DEFINE q == request[r]
           ok == q.ok /\ Passes(q.kind, Listed(q.kind)[q.at], status)
<1>0. /\ request \in [Requests -> AllRequests] /\ q \in AllRequests /\ KubeletCalm /\ ProbeCalm(q)
      /\ kubelet.fails \in Nat /\ ok \in BOOLEAN
      /\ q.size \in Sizes(q.kind)
  BY DEF ServerInv, RequestTypes, RequestOK, Active, KubeletOK, Kubelets, Calm, AllRequests
<1>1. q.probe => /\ q.kind = ProbeKind(kubelet.phase) /\ kubelet.phase # "killed"
                 /\ \A s \in Requests \ {r} : ~request[s].probe
  BY DEF ServerInv, ProbesOK
<1>2. q.probe => ok
  <2>1. q.probe => q.ok /\ q.kind \in {"startup", "ready"}
    BY <1>0, <1>1 DEF ProbeCalm, ProbeKind
  <2>2. q.kind \in {"startup", "ready"} => Passes(q.kind, Listed(q.kind)[q.at], status)
    BY FinePasses DEF ServerInv, At
  <2> QED BY <2>1, <2>2
<1> HIDE DEF ok
<1>3. Listed("ready")' = Listed("ready")
  BY DEF Listed
<1>4. ASSUME ~q.probe, UNCHANGED kubelet, NEW i, request' = [request EXCEPT ![r] = i], ~i.probe
      PROVE  KubeletCalm' /\ \A s \in Requests : ProbeCalm(request[s])'
  BY <1>0, <1>3, <1>4 DEF KubeletCalm, ProbeCalm, Calm
<1>5. CASE ~q.probe
  <2>1. UNCHANGED kubelet /\ \E i : request' = [request EXCEPT ![r] = i] /\ ~i.probe
    <3>1. ~NextCheck(q, ok).probe
      BY <1>0, <1>5, NextCheckType
    <3>2. \/ request' = [request EXCEPT ![r] = Idle]
          \/ request' = [request EXCEPT ![r] = NextCheck(q, ok)]
      BY <1>0 DEF Advance, Answer, NextCheck, ok
    <3> QED BY <1>5, <3>1, <3>2, IdleOK DEF Advance, Answer
  <2> QED BY <1>4, <1>5, <2>1
<1>6. ASSUME q.probe, request' = [request EXCEPT ![r] = Idle]
      PROVE  \A s \in Requests : ProbeCalm(request[s])'
  BY <1>0, <1>1, <1>6, IdleOK DEF ProbeCalm
<1>7. CASE q.probe /\ Len(Listed(q.kind)) # q.size
  <2>1. Hears(ProbeKind(kubelet.phase), FALSE) /\ request' = [request EXCEPT ![r] = Idle]
    BY <1>1, <1>7 DEF Advance, Answer
  <2>2. q.kind = "ready" /\ registered /\ kubelet.fails = 0
    <3>1. q.kind = "startup" => q.size = Len(Listed(q.kind))
      BY <1>0 DEF Sizes, Listed
    <3> QED BY <1>0, <1>1, <1>7, <3>1 DEF ProbeCalm, ProbeKind
  <2>3. kubelet.phase = "running"
    BY <1>1, <1>7, <2>2 DEF ProbeKind, ServerInv, KubeletOK, Kubelets
  <2>4. kubelet'.phase = "running" /\ kubelet'.fails \in {0, 1}
    <3>1. kubelet'.phase = "running" /\ kubelet'.fails \in {kubelet.fails, kubelet.fails + 1}
      BY <2>1, <2>3, HearsOK DEF ServerInv
    <3> QED BY <2>2, <3>1
  <2> QED BY <1>6, <1>7, <2>1, <2>2, <2>4 DEF KubeletCalm
<1>8. CASE q.probe /\ Len(Listed(q.kind)) = q.size /\ q.at = q.size
  <2>1. Hears(ProbeKind(kubelet.phase), TRUE) /\ request' = [request EXCEPT ![r] = Idle]
    BY <1>1, <1>2, <1>8 DEF Advance, Answer, ok
  <2>2. kubelet'.phase = "running" /\ kubelet'.fails = 0
    BY <1>1, <1>8, <2>1, HearsOK DEF ServerInv
  <2> QED BY <1>6, <1>8, <2>1, <2>2 DEF KubeletCalm
<1>9. CASE q.probe /\ Len(Listed(q.kind)) = q.size /\ q.at # q.size
  <2> DEFINE i == NextCheck(q, ok)
  <2>1. UNCHANGED kubelet /\ request' = [request EXCEPT ![r] = i]
    BY <1>0, <1>9 DEF Advance, NextCheck, ok
  <2>2. i.ok /\ i.kind = q.kind /\ i.size = q.size /\ i.spent = q.spent
    BY <1>0, <1>2, <1>9, NextCheckType
  <2> HIDE DEF i
  <2>3. \A s \in Requests : ProbeCalm(request[s])'
    BY <1>0, <1>1, <1>3, <1>9, <2>1, <2>2 DEF ProbeCalm
  <2> QED BY <1>0, <2>1, <2>3 DEF KubeletCalm
<1> QED BY <1>5, <1>7, <1>8, <1>9

\* What a request finds or makes of a fine check keeps it so.
LEMMA CalmServe ==
  ASSUME ServerInv, ServerInv', ~spoiled, Calm, NEW r \in Requests, Serve(r)
  PROVE  Calm'
<1> DEFINE c == At(r)
<1>0. /\ CheckTypes /\ c \in Mine /\ c \in Checks /\ Active(r) /\ Fine(c)
      /\ cache \in [Mine -> {None} \cup Statuses] /\ breaker \in [Mine \cap WithBreaker -> Breakers]
      /\ ChecksCalm
  <2>1. Active(r) /\ request[r].kind # "none"
    BY DEF Serve, FromCache, ShortCircuit, Enter, Return, TimeOut, Active
  <2> QED BY <2>1, AtCheck DEF ServerInv, Calm, ChecksCalm, CheckTypes
<1>1. UNCHANGED <<table, registered, condition, slow, spoiled>>
  BY DEF around, Serve, FromCache, ShortCircuit, Enter, Return, TimeOut
<1>2. /\ Verdict(c) # "timeout"
      /\ c \in Critical => FineStatus(c, Verdict(c))
      /\ c \in WithBreaker => ~WFSFails(condition[c])
  BY <1>0, FineSays
<1>3. ~Blocked(c)
  BY <1>0 DEF Blocked, Admits, ChecksCalm
<1> HIDE DEF c
<1>4. ChecksCalm'
  <2>1. \A x \in Mine : Fine(x)'
    BY <1>0, <1>1 DEF ChecksCalm, Fine, FineFor, InStartup, Verdict
  <2>2. \/ UNCHANGED cache \/ cache' = [cache EXCEPT ![c] = Verdict(c)]
    BY <1>3 DEF Serve, FromCache, ShortCircuit, Enter, Return, TimeOut, c
  <2>3. \A x \in Mine \cap Critical : cache'[x] # None => FineStatus(x, cache'[x])
    BY <1>0, <1>2, <2>2 DEF ChecksCalm
  <2>4. \/ UNCHANGED breaker
        \/ c \in WithBreaker /\ breaker' = [breaker EXCEPT ![c] = AfterCall(@, FALSE)]
    <3>1. c \in WithBreaker => breaker[c].state = "closed" /\ WFSFails(condition[c]) = FALSE
      BY <1>0, <1>2 DEF ChecksCalm, WFSFails
    <3> QED BY <1>3, <3>1 DEF Serve, FromCache, ShortCircuit, Enter, Return, TimeOut, c
  <2>5. \A b \in Breakers : b.state = "closed" => AfterCall(b, FALSE).state = "closed"
    BY DEF AfterCall, Breakers
  <2>6. \A x \in Mine \cap WithBreaker : breaker'[x].state = "closed"
    BY <1>0, <2>4, <2>5 DEF ChecksCalm
  <2> QED BY <1>1, <2>1, <2>3, <2>6 DEF ChecksCalm, Mine, FineStatus, InStartup
<1>5. CASE FromCache(r)
  <2>1. Advance(r, cache[c]) /\ cache[c] # None
    BY <1>5 DEF FromCache, c
  <2>2. c \in Critical => FineStatus(c, cache[c])
    BY <1>0, <2>1 DEF ChecksCalm
  <2> QED BY <1>0, <1>1, <1>4, <2>1, <2>2, CalmAdvance DEF c, Calm
<1>6. CASE Return(r)
  <2>1. Advance(r, Verdict(c))
    BY <1>6 DEF Return, c
  <2> QED BY <1>0, <1>1, <1>2, <1>4, <2>1, CalmAdvance DEF c, Calm
<1>7. CASE Enter(r)
  <2>a. PICK i \in AllRequests :
          /\ request' = [request EXCEPT ![r] = i] /\ UNCHANGED kubelet
          /\ i.kind = request[r].kind /\ i.probe = request[r].probe /\ i.ok = request[r].ok
          /\ i.size = request[r].size
          /\ ~slow => i.spent = request[r].spent
    BY <1>7, EnterOK DEF ServerInv
  <2>1. request' = [request EXCEPT ![r] = i] /\ UNCHANGED kubelet
    BY <2>a
  <2>2. /\ i.probe = request[r].probe /\ i.ok = request[r].ok /\ i.kind = request[r].kind
        /\ i.size = request[r].size /\ i.spent = request[r].spent
    BY <2>a DEF Calm
  <2>3. \A s \in Requests : request'[s] = IF s = r THEN i ELSE request[s]
    BY <2>1 DEF ServerInv, RequestTypes
  <2>4. Listed("ready")' = Listed("ready")
    BY <1>1 DEF Listed
  <2>5. \A s \in Requests : ProbeCalm(request[s])'
    BY <1>1, <2>1, <2>2, <2>3, <2>4 DEF Calm, ProbeCalm
  <2>6. KubeletCalm'
    BY <1>1, <2>1 DEF Calm, KubeletCalm
  <2> QED BY <1>1, <1>4, <2>5, <2>6 DEF Calm
<1> QED BY <1>2, <1>3, <1>5, <1>6, <1>7 DEF Serve, ShortCircuit, TimeOut, c

\* Nothing hangs or is slow: the kubelet does not give up.
LEMMA NoGivingUp ==
  ASSUME ServerInv, ~spoiled, Calm, NEW r \in Requests
  PROVE  ~GiveUp(r)
<1> SUFFICES ASSUME GiveUp(r) PROVE FALSE
  OBVIOUS
<1>0. ~(request[r].spent > ProbeTimeout)
  BY DEF GiveUp, Calm, ProbeCalm, ProbeTimeout
<1>1. request[r].kind # "none" /\ Verdict(At(r)) = "timeout"
  BY <1>0 DEF GiveUp, ServerInv, RequestTypes, RequestOK
<1>2. CheckTypes /\ At(r) \in Mine /\ At(r) \in Checks /\ Fine(At(r))
  BY <1>1, AtCheck DEF ServerInv, Calm, ChecksCalm
<1> QED BY <1>1, <1>2, FineSays

LEMMA CalmBegin ==
  ASSUME ServerInv, ServerInv', ~spoiled, Calm, Probe \/ ReadDetail
  PROVE  Calm'
<1>1. UNCHANGED <<table, registered, condition, slow, cache, breaker, spoiled>>
  BY DEF around, Probe, ReadDetail, Begin
<1>2. ChecksCalm'
  BY <1>1 DEF Calm, ChecksCalm, Mine, Fine, FineFor, FineStatus, InStartup, Verdict
<1>3. Listed("ready")' = Listed("ready")
  BY <1>1 DEF Listed
<1>4. PICK r \in Requests : \/ Begin(r, ProbeKind(kubelet.phase), TRUE) /\ kubelet.phase # "killed"
                               /\ \A s \in Requests : ~request[s].probe
                            \/ Begin(r, "detail", FALSE)
  BY DEF Probe, ReadDetail, ProbeKind, Probing
<1>5. CASE UNCHANGED kubelet
  <2>a. PICK k, probe : Begin(r, k, probe)
    BY <1>4
  <2>1. UNCHANGED request \/ request' = [request EXCEPT ![r] = NewRequest(k, probe)]
    BY <2>a DEF Begin, NewRequest
  <2>2. /\ NewRequest(k, probe).ok /\ NewRequest(k, probe).kind = k
        /\ NewRequest(k, probe).size = Len(Listed(k)) /\ NewRequest(k, probe).probe = probe
        /\ NewRequest(k, probe).spent = 0
    BY DEF NewRequest
  <2>3. ProbeCalm(NewRequest(k, probe))
    BY <2>2 DEF ProbeCalm
  <2>4. \A s \in Requests : ProbeCalm(request'[s])
    BY <2>1, <2>3 DEF Calm, ServerInv, RequestTypes
  <2>5. \A s \in Requests : ProbeCalm(request[s])'
    BY <1>1, <1>3, <1>5, <2>4 DEF ProbeCalm
  <2>6. KubeletCalm'
    BY <1>1, <1>5 DEF Calm, KubeletCalm
  <2> QED BY <1>1, <1>2, <2>5, <2>6 DEF Calm
<1>6. CASE ~UNCHANGED kubelet
  <2>1. /\ UNCHANGED request /\ Hears(ProbeKind(kubelet.phase), TRUE) /\ kubelet.phase # "killed"
        /\ \A s \in Requests : ~request[s].probe
    BY <1>4, <1>6 DEF Begin
  <2>2. kubelet'.phase = "running" /\ kubelet'.fails = 0
    BY <2>1, HearsOK DEF ServerInv
  <2>3. \A s \in Requests : ProbeCalm(request[s])'
    BY <2>1 DEF ProbeCalm
  <2>4. KubeletCalm'
    BY <2>2 DEF KubeletCalm
  <2> QED BY <1>1, <1>2, <2>3, <2>4 DEF Calm
<1> QED BY <1>5, <1>6

\* The surroundings, the time that passes, and the registration of a check.
LEMMA CalmOther ==
  ASSUME ServerInv, ~spoiled, Calm,
         \/ Change \/ ChangePace \/ Register \/ UNCHANGED vars
         \/ \E c \in Mine : Expire(c)
         \/ \E c \in DOMAIN breaker : Rest(c)
  PROVE  Calm'
<1>0. /\ condition \in [Mine -> Conditions] /\ cache \in [Mine -> {None} \cup Statuses]
      /\ breaker \in [Mine \cap WithBreaker -> Breakers]
  BY DEF ServerInv, CheckTypes
<1>1. CASE Change
  <2>1. /\ UNCHANGED <<table, registered, cache, breaker, request, kubelet>>
        /\ UNCHANGED slow /\ (~spoiled' => ~Amiss')
    BY <1>1 DEF Change, server
  <2>2. Mine' = Mine
    BY <1>0, <1>1 DEF Change, Mine
  <2>3. ~spoiled' => ChecksCalm'
    BY <2>1, <2>2 DEF Calm, ChecksCalm, FineStatus, InStartup, Amiss
  <2> QED BY <2>1, <2>3 DEF Calm, KubeletCalm, ProbeCalm, Listed
<1>2. CASE Register
  <2>1. /\ UNCHANGED <<table, condition, slow, cache, breaker, request, kubelet, spoiled>>
        /\ ~registered /\ registered'
    BY <1>2 DEF Register, around
  <2>2. ChecksCalm'
    BY <2>1 DEF Calm, ChecksCalm, Mine, Fine, FineFor, FineStatus, InStartup, Verdict
  <2>3. KubeletCalm' /\ kubelet.fails = 0
    BY <2>1 DEF Calm, KubeletCalm
  <2>4. \A r \in Requests : ProbeCalm(request[r])'
    BY <2>1, <2>3 DEF Calm, ProbeCalm
  <2> QED BY <2>1, <2>2, <2>3, <2>4 DEF Calm
<1>3. ASSUME NEW c \in Mine, Expire(c) PROVE Calm'
  <2>1. /\ UNCHANGED <<table, registered, condition, slow, breaker, request, kubelet, spoiled>>
        /\ cache' = [cache EXCEPT ![c] = None]
    BY <1>3 DEF Expire, around
  <2>2. ChecksCalm'
    BY <1>0, <2>1 DEF Calm, ChecksCalm, Mine, Fine, FineFor, FineStatus, InStartup, Verdict
  <2> QED BY <2>1, <2>2 DEF Calm, KubeletCalm, ProbeCalm, Listed
<1>4. ASSUME NEW c \in DOMAIN breaker, Rest(c) PROVE Calm'
  <2>1. breaker[c].state = "closed"
    BY <1>0 DEF Calm, ChecksCalm
  <2> QED BY <1>4, <2>1 DEF Rest
<1>5. CASE UNCHANGED vars
  <2>1. UNCHANGED <<table, registered, condition, slow, cache, breaker, request, kubelet, spoiled>>
    BY <1>5 DEF vars, server, around
  <2>2. ChecksCalm'
    BY <2>1 DEF Calm, ChecksCalm, Mine, Fine, FineFor, FineStatus, InStartup, Verdict
  <2> QED BY <2>1, <2>2 DEF Calm, KubeletCalm, ProbeCalm, Listed
<1>6. CASE ChangePace
  <2>1. spoiled'
    BY <1>6 DEF ChangePace, Calm
  <2> QED BY <2>1 DEF Calm
<1> QED BY <1>1, <1>2, <1>3, <1>4, <1>5, <1>6

\* A new container has no results, and has not failed yet.
LEMMA CalmRestart ==
  ASSUME Restart
  PROVE  Calm'
<1>1. /\ UNCHANGED <<table, condition, slow>> /\ cache' = [c \in Mine |-> None]
      /\ breaker' = [c \in Mine \cap WithBreaker |-> Closed] /\ request' = [r \in Requests |-> Idle]
      /\ kubelet' = NewContainer /\ spoiled' = (slow \/ \E c \in Mine : ~Fine(c))
  BY DEF Restart, around, Amiss
<1>2. ~spoiled' => \A c \in Mine' : Fine(c)'
  BY <1>1 DEF Mine, Fine, FineFor, InStartup, Verdict
<1>3. ~spoiled' => ChecksCalm'
  <2>1. Mine' = Mine
    BY <1>1 DEF Mine
  <2> QED BY <1>1, <1>2, <2>1 DEF ChecksCalm, Closed
<1>4. KubeletCalm'
  BY <1>1 DEF KubeletCalm, NewContainer
<1>5. \A r \in Requests : ProbeCalm(request[r])'
  BY <1>1, IdleOK DEF ProbeCalm
<1> QED BY <1>1, <1>3, <1>4, <1>5 DEF Calm

LEMMA CalmStep == ServerInv /\ ServerInv' /\ Calm /\ [Next]_vars => Calm'
<1> SUFFICES ASSUME ServerInv, ServerInv', Calm, [Next]_vars PROVE Calm'
  OBVIOUS
<1>1. CASE Restart
  BY <1>1, CalmRestart
<1>2. CASE spoiled /\ ~Restart
  <2>1. spoiled'
    BY <1>2 DEF Next, vars, Change, ChangePace, Register, Probe, ReadDetail, Begin, Expire, Rest, Serve,
       FromCache, ShortCircuit, Enter, Return, TimeOut, GiveUp
  <2> QED BY <2>1 DEF Calm
<1>3. CASE ~spoiled /\ ~Restart
  BY <1>3, CalmServe, NoGivingUp, CalmBegin, CalmOther DEF Next
<1> QED BY <1>1, <1>2, <1>3

\* As long as no critical check finds something wrong, nothing hangs and the
\* answers are prompt, the container is not killed and at most one probe fails,
\* whatever the other checks say, whoever else asks, and whenever the late check
\* is added.
THEOREM NothingAlarmsFalsely == Spec => []NoFalseAlarm
<1>1. Init => Calm
  <2> SUFFICES ASSUME Init, ~spoiled PROVE ~slow /\ ChecksCalm /\ KubeletCalm /\ \A r \in Requests : ProbeCalm(request[r])
    BY DEF Calm
  <2>1. ~slow /\ \A c \in Mine : Fine(c)
    BY DEF Init, Amiss
  <2>2. Mine = {All[i] : i \in DOMAIN All}
    BY DEF Init, Mine
  <2>3. ChecksCalm
    BY <2>1, <2>2 DEF Init, ChecksCalm, Closed
  <2>4. KubeletCalm
    BY DEF Init, NewContainer, KubeletCalm
  <2>5. \A r \in Requests : ProbeCalm(request[r])
    BY IdleOK DEF Init, ProbeCalm
  <2> QED BY <2>1, <2>3, <2>4, <2>5
<1>2. Calm => NoFalseAlarm
  <2>1. \A n \in {0, 1} : n <= 1
    OBVIOUS
  <2> QED BY <2>1 DEF Calm, KubeletCalm, NoFalseAlarm
<1> QED BY <1>1, <1>2, CalmStep, ServerInvariance, PTL DEF Spec

=============================================================================
