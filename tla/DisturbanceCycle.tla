--------------------------- MODULE DisturbanceCycle ---------------------------
(***************************************************************************)
(* The update cycle of the traffic monitor: disturbances are fetched from  *)
(* Allu's WFS layers or a cached answer, validated, intersected with the   *)
(* road segments, saved, uploaded and exported for the dashboard; and the  *)
(* signal handler, which runs on the thread that runs the cycle.           *)
(*                                                                         *)
(* One cycle runs in every tick.  A disturbance counts as valid when its   *)
(* dates are; which of them touch a road segment does not change.          *)
(***************************************************************************)
EXTENDS Naturals

CONSTANTS
  Disturbances,
  Layers,       \* TRAFFIC_DISTURBANCES_TO_MONITOR
  LayerOf,      \* the layer each disturbance is reported in
  Modes,        \* subset of {"sqlite", "json"}
  MaxCacheAge,  \* ticks for which a cached answer is used (24 hours)
  None,
  MaxMishaps    \* bound: failures, restarts and signals

ASSUME CycleAssumption ==
  /\ LayerOf \in [Disturbances -> Layers]
  /\ Modes \subseteq {"sqlite", "json"}
  /\ MaxCacheAge \in Nat \ {0} /\ MaxMishaps \in Nat

Status == {"absent", "valid", "ended"}
Ages == 0..MaxCacheAge + 1  \* the greatest stands for all greater ones

VARIABLES
  mode,       \* storage backend
  road,       \* disturbances that touch a road segment
  allu,       \* what Allu reports
  cache,      \* wfs_cache.json: None or features with their time stamp
  rows,       \* the disturbances saved last
  uploaded,   \* rows at the last upload of the database
  dashboard,  \* rows in the JSON the dashboard reads
  processing, \* ServiceState.is_processing
  pc,         \* where the cycle is
  job,        \* the locals of the cycle
  handler,    \* the signal handler: none or waiting
  mishaps,
  behind      \* history: age the data of the last success had when it was reported

world == <<mode, road, allu>>
outputs == <<rows, uploaded, dashboard>>
vars == <<world, cache, outputs, processing, pc, job, handler, mishaps, behind>>

\* missing: the layers that were not reached.  unread: what lies on segments that
\* could not be read.  spared: nothing went wrong in the cycle after the fetch.
NoJob == [features |-> {}, missing |-> {}, cached |-> FALSE,
          result |-> {}, unread |-> {}, spared |-> FALSE]

Init ==
  /\ mode \in Modes /\ road \in SUBSET Disturbances
  /\ allu \in [Disturbances -> {"absent", "valid"}]
  /\ cache = None /\ rows = {} /\ uploaded = {} /\ dashboard = {}
  /\ processing = FALSE /\ pc = "pause" /\ job = NoJob /\ handler = "none"
  /\ mishaps = 0 /\ behind = 0

Mishap == mishaps < MaxMishaps /\ mishaps' = mishaps + 1

Older(a) == IF a = MaxCacheAge + 1 THEN a ELSE a + 1

\* update_cycle_pause, or the time until the container runs again.
TimePasses ==
  /\ allu' \in [Disturbances -> Status]
  /\ cache' = IF cache = None THEN None
              ELSE [cache EXCEPT !.age = Older(@), !.fetched = Older(@)]
  /\ UNCHANGED <<mode, road>>

----------------------------------------------------------------------------
(* One cycle.                                                              *)

Runs == handler = "none"

\* Mutant: an early exit leaves the flag set.
EndCycle_Busy == pc' = "pause" /\ UNCHANGED processing

\* set_processing(False), then the pause.
EndCycle == pc' = "pause" /\ processing' = FALSE

Pause ==
  /\ pc = "pause" /\ Runs
  /\ TimePasses
  /\ job' = NoJob
  /\ pc' = "begin"
  /\ UNCHANGED <<outputs, processing, handler, mishaps, behind>>

\* The segments are brought up to date.
Begin ==
  /\ pc = "begin" /\ Runs
  /\ processing' = TRUE /\ pc' = "fetch"
  /\ UNCHANGED <<world, cache, outputs, job, handler, mishaps, behind>>

\* JSON mode: the mapping file does not exist yet.
NoMapping ==
  /\ pc = "begin" /\ Runs /\ mode = "json"
  /\ Mishap
  /\ EndCycle
  /\ UNCHANGED <<world, cache, outputs, job, handler, behind>>

\* Mutant: the first layer with features is enough.
Aggregated_First(reached) ==
  LET reported(l) == {d \in Disturbances : allu[d] # "absent" /\ LayerOf[d] = l}
      some        == {l \in reached : reported(l) # {}}
  IN  IF some = {} THEN {} ELSE reported(CHOOSE l \in some : TRUE)

\* request_wfs_features_from_list: a layer that cannot be reached is left out.
Aggregated(reached) ==
  {d \in Disturbances : allu[d] # "absent" /\ LayerOf[d] \in reached}

\* The layers whose requests succeed: get_feature gives None for the others.
Answers == SUBSET Layers

Fine(well) == IF well THEN UNCHANGED mishaps ELSE Mishap

\* An answer with features is cached, unless the file cannot be written.
FetchAnswered ==
  /\ pc = "fetch" /\ Runs
  /\ \E reached \in Answers, written \in BOOLEAN :
       /\ Aggregated(reached) # {}
       /\ Fine(reached = Layers /\ written)
       /\ job' = [job EXCEPT !.features = Aggregated(reached), !.missing = Layers \ reached]
       /\ cache' = IF written
                   THEN [features |-> Aggregated(reached), age |-> 0, fetched |-> 0]
                   ELSE cache
  /\ behind' = 0
  /\ pc' = "detect"
  /\ UNCHANGED <<world, outputs, processing, handler>>

\* Mutant: the cached answer is stored again.
Reused_Restamped(c) == [c EXCEPT !.age = 0]
Reused(c) == c

Usable == cache # None /\ cache.age < MaxCacheAge

\* No features: the cached ones are used, and reported as a success.
FetchFromCache ==
  /\ pc = "fetch" /\ Runs /\ Usable
  /\ \E reached \in Answers : Aggregated(reached) = {} /\ Fine(reached = Layers)
  /\ job' = [job EXCEPT !.features = cache.features, !.cached = TRUE]
  /\ cache' = Reused(cache)
  /\ behind' = cache.fetched
  /\ pc' = "detect"
  /\ UNCHANGED <<world, outputs, processing, handler>>

NoData ==
  /\ pc = "fetch" /\ Runs /\ ~Usable
  /\ \E reached \in Answers : Aggregated(reached) = {} /\ Fine(reached = Layers)
  /\ EndCycle
  /\ UNCHANGED <<world, cache, outputs, job, handler, behind>>

\* validate_disturbance_dates.  What Allu does not report any more may be in
\* the cache with dates that have or have not passed.
Valid(ds) ==
  {v \in SUBSET job.features :
     \A d \in job.features : /\ allu[d] = "valid" => d \in v
                             /\ allu[d] = "ended" => d \notin v}

NothingValid ==
  /\ pc = "detect" /\ Runs
  /\ {} \in Valid(job.features)
  /\ EndCycle
  /\ UNCHANGED <<world, cache, outputs, job, handler, mishaps, behind>>

\* What touches the segments that were loaded: a segment whose geometry is
\* missing or cannot be read is left out, and what lies on it is not found.
Touching == SUBSET road

\* find_intersecting_features and the model made of its result.
Intersecting(valid, touching) == valid \cap touching

Detect ==
  /\ pc = "detect" /\ Runs
  /\ \E v \in Valid(job.features) \ {{}}, t \in Touching :
       /\ Fine(t = road)
       /\ job' = [job EXCEPT !.result = Intersecting(v, t), !.unread = road \ t,
                              !.spared = (t = road)]
  /\ pc' = "save"
  /\ UNCHANGED <<world, cache, outputs, processing, handler, behind>>

\* No segments, an answer that is no GeoJSON or an error in the spatial join.
NothingDetected ==
  /\ pc = "detect" /\ Runs
  /\ Mishap
  /\ EndCycle
  /\ UNCHANGED <<world, cache, outputs, job, handler, behind>>

\* Mutant: the rows of earlier cycles are not deleted.
Replaced_Merged(old, new) == old \cup new
Replaced(old, new) == new

AfterSave == IF mode = "sqlite" THEN pc' = "upload" /\ UNCHANGED processing ELSE EndCycle

\* save_disturbances.  The dashboard reads the JSON repository's own file.
Save ==
  /\ pc = "save" /\ Runs /\ job.result # {}
  /\ rows' = Replaced(rows, job.result)
  /\ dashboard' = IF mode = "json" THEN rows' ELSE dashboard
  /\ AfterSave
  /\ UNCHANGED <<world, cache, uploaded, job, handler, mishaps, behind>>

\* It returns False: the model has no segments, or the write failed; nobody
\* looks at the result, and the cycle goes on.
NotSaved ==
  /\ pc = "save" /\ Runs
  /\ \/ job.result = {} /\ UNCHANGED <<mishaps, job>>
     \/ job.result # {} /\ Mishap /\ job' = [job EXCEPT !.spared = FALSE]
  /\ AfterSave
  /\ UNCHANGED <<world, cache, outputs, handler, behind>>

Upload ==
  /\ pc = "upload" /\ Runs
  /\ uploaded' = rows
  /\ pc' = "export"
  /\ UNCHANGED <<world, cache, rows, dashboard, processing, job, handler, mishaps, behind>>

\* False is ignored; a transient error is caught, and nothing is exported.
UploadFails ==
  /\ pc = "upload" /\ Runs
  /\ Mishap
  /\ \/ pc' = "export" /\ UNCHANGED processing
     \/ EndCycle
  /\ UNCHANGED <<world, cache, outputs, job, handler, behind>>

\* export_and_upload_disturbances_json reads the saved rows back.
Export ==
  /\ pc = "export" /\ Runs
  /\ dashboard' = rows
  /\ EndCycle
  /\ UNCHANGED <<world, cache, rows, uploaded, job, handler, mishaps, behind>>

ExportFails ==
  /\ pc = "export" /\ Runs
  /\ Mishap
  /\ EndCycle
  /\ UNCHANGED <<world, cache, outputs, job, handler, behind>>

----------------------------------------------------------------------------
(* The end of the process.                                                 *)

Ends ==
  /\ pc' = "down" /\ processing' = FALSE /\ handler' = "none"
  /\ UNCHANGED <<world, cache, outputs, job, behind>>

\* A download or a query raises outside every try, or a crash.
Crash ==
  /\ pc # "down"
  /\ Mishap /\ Ends

\* handle_shutdown.  It sleeps on the thread that would clear the flag.
Signal ==
  /\ pc # "down" /\ handler = "none"
  /\ Mishap
  /\ IF processing
     THEN handler' = "waiting" /\ UNCHANGED <<world, cache, outputs, processing, pc, job, behind>>
     ELSE Ends

\* After thirty seconds, always.
WaitEnds ==
  /\ handler = "waiting"
  /\ Ends /\ UNCHANGED mishaps

\* The container runs again, on its volume or on an empty one.
Restart ==
  /\ pc = "down"
  /\ pc' = "pause" /\ job' = NoJob
  /\ \/ UNCHANGED <<cache, outputs, mishaps>>
     \/ /\ Mishap
        /\ cache' = None /\ rows' = {} /\ UNCHANGED uploaded
        /\ dashboard' = IF mode = "json" THEN {} ELSE dashboard
  /\ UNCHANGED <<world, processing, handler, behind>>

CycleStep ==
  \/ Pause \/ Begin \/ FetchAnswered \/ FetchFromCache \/ NoData
  \/ NothingValid \/ Detect \/ Save \/ NotSaved \/ Upload \/ Export

Failure == NoMapping \/ NothingDetected \/ UploadFails \/ ExportFails \/ Crash \/ Signal

Next == CycleStep \/ Failure \/ WaitEnds \/ Restart

Spec == Init /\ [][Next]_vars

\* The thread runs, waits end, and the container is started again.
FairSpec == Spec /\ WF_vars(CycleStep) /\ WF_vars(WaitEnds) /\ WF_vars(Restart)

----------------------------------------------------------------------------
(* Properties.                                                             *)

TypeOK ==
  /\ mode \in Modes /\ road \subseteq Disturbances /\ allu \in [Disturbances -> Status]
  /\ cache = None \/ cache \in [features : SUBSET Disturbances, age : Ages, fetched : Ages]
  /\ rows \subseteq Disturbances /\ uploaded \subseteq Disturbances
  /\ dashboard \subseteq Disturbances
  /\ processing \in BOOLEAN
  /\ pc \in {"down", "pause", "begin", "fetch", "detect", "save", "upload", "export"}
  /\ job \in [features : SUBSET Disturbances, missing : SUBSET Layers, cached : BOOLEAN,
              result : SUBSET Disturbances, unread : SUBSET Disturbances, spared : BOOLEAN]
  /\ handler \in {"none", "waiting"}
  /\ mishaps \in 0..MaxMishaps /\ behind \in Ages

\* The handler waits only for a cycle: every way out of one, the early exits
\* too, has cleared is_processing (traffic-monitor main.py:235).
PauseIsIdle == pc = "pause" => ~processing /\ handler = "none"

\* A disturbance that is still reported, valid and on the road is taken out
\* of the saved ones only by a cycle that could not reach its layer, could not
\* read a segment it lies on, or worked from the cache: one failed layer, or one
\* unreadable segment, is enough to end its monitoring.
DroppedExplained ==
  [][\A d \in rows \ rows' :
       \/ allu[d] # "valid" \/ d \notin road
       \/ LayerOf[d] \in job.missing \/ d \in job.unread \/ job.cached
       \/ pc = "down"]_vars

\* After a cycle that reached every layer and read every segment, only
\* valid disturbances are listed, unless it found none at all: the last one
\* stays for ever, as an empty result is never saved (IntersectionDetector.py
\* :246, sqlite_backend.py:541).
EndedDelisted ==
  (pc = "pause" /\ job.spared /\ job.missing = {} /\ ~job.cached /\ job.result # {})
    => \A d \in rows : allu[d] = "valid" /\ d \in road

\* Data reported as a successful fetch was fetched less than 24 hours before.
StaleBound == behind < MaxCacheAge

\* A disturbance that stays reported, valid and on the road is at last saved
\* for the orchestrator and the dashboard, whatever failed before, once the
\* segments under it can be read.
Listed ==
  \A d \in Disturbances :
    <>[](allu[d] = "valid" /\ d \in road) =>
      <>[](d \in rows /\ d \in dashboard /\ (mode = "sqlite" => d \in uploaded))

=============================================================================
