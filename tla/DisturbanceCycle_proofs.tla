----------------------- MODULE DisturbanceCycle_proofs -----------------------
(***************************************************************************)
(* Proofs about the disturbance cycle: types, the flag the signal handler  *)
(* waits for, the age of cached data, and what a cycle takes out of the    *)
(* saved disturbances and leaves in them.                                  *)
(***************************************************************************)
EXTENDS DisturbanceCycle, TLAPS

\* What the last features and the last result stand for, at each point of a
\* cycle.  allu changes only in a pause, so that a cycle which was not fed
\* from the cache works on what Allu still reports.
CycleFresh == pc \in {"begin", "fetch"} => job = NoJob

FeaturesExplained ==
  (pc = "detect" /\ ~job.cached) =>
    /\ \A d \in job.features : allu[d] # "absent"
    /\ \A d \in Disturbances : allu[d] = "valid" => d \in job.features \/ LayerOf[d] \in job.missing

DetectNotSpared == pc = "detect" => ~job.spared

ResultExplained ==
  (pc = "save" /\ ~job.cached) =>
    /\ \A d \in job.result : allu[d] = "valid" /\ d \in road
    /\ job.result # {} =>
         \A d \in road : allu[d] = "valid" =>
           d \in job.result \/ LayerOf[d] \in job.missing \/ d \in job.unread

RowsAreResult ==
  (pc \in {"upload", "export", "pause"} /\ job.spared /\ ~job.cached /\ job.result # {}) =>
    \A d \in rows : allu[d] = "valid" /\ d \in road

\* is_processing is clear and no handler waits where no cycle is under way.
FlagInv == pc \in {"pause", "begin", "down"} => ~processing /\ handler = "none"

\* Both ages of a cached answer count from the same moment.
CacheInv == cache # None => cache.age = cache.fetched

ResultInv ==
  CycleFresh /\ FeaturesExplained /\ DetectNotSpared /\ ResultExplained /\ RowsAreResult

\* The conjuncts of TypeOK, by what changes together.
WorldType ==
  mode \in Modes /\ road \subseteq Disturbances /\ allu \in [Disturbances -> Status]
CacheType ==
  cache = None \/ cache \in [features : SUBSET Disturbances, age : Ages, fetched : Ages]
RowsType ==
  rows \subseteq Disturbances /\ uploaded \subseteq Disturbances /\ dashboard \subseteq Disturbances
JobType ==
  job \in [features : SUBSET Disturbances, missing : SUBSET Layers, cached : BOOLEAN,
           result : SUBSET Disturbances, unread : SUBSET Disturbances, spared : BOOLEAN]
ControlType ==
  /\ processing \in BOOLEAN
  /\ pc \in {"down", "pause", "begin", "fetch", "detect", "save", "upload", "export"}
  /\ handler \in {"none", "waiting"}
CountType == mishaps \in 0..MaxMishaps /\ behind \in Ages

LEMMA TypeParts ==
  TypeOK <=> /\ WorldType /\ CacheType /\ RowsType
             /\ JobType /\ ControlType /\ CountType
BY DEF TypeOK, WorldType, CacheType, RowsType, JobType, ControlType, CountType

LEMMA InitTypes == Init => TypeOK
<1> SUFFICES ASSUME Init PROVE TypeOK
  OBVIOUS
<1>1. WorldType /\ CacheType /\ RowsType
  BY DEF Init, WorldType, CacheType, RowsType, Status
<1>2. JobType /\ ControlType
  BY DEF Init, JobType, ControlType, NoJob
<1>3. CountType
  BY CycleAssumption DEF Init, CountType, Ages
<1>4. QED BY <1>1, <1>2, <1>3, TypeParts

LEMMA StepRows == TypeOK /\ [Next]_vars => RowsType'
<1> SUFFICES ASSUME JobType, RowsType, [Next]_vars PROVE RowsType'
  BY TypeParts
<1> USE DEF RowsType, outputs
<1>1. CASE Save
  BY <1>1 DEF Save, Replaced, JobType
<1>2. CASE Pause \/ Begin \/ FetchAnswered \/ FetchFromCache \/ NoData \/ NothingValid
  BY <1>2 DEF Pause, Begin, FetchAnswered, FetchFromCache, NoData, NothingValid
<1>3. CASE Detect \/ NotSaved \/ Upload \/ Export
  BY <1>3 DEF Detect, NotSaved, Upload, Export
<1>4. CASE NoMapping \/ NothingDetected \/ UploadFails \/ ExportFails
  BY <1>4 DEF NoMapping, NothingDetected, UploadFails, ExportFails
<1>5. CASE Crash \/ Signal \/ WaitEnds \/ Restart
  BY <1>5 DEF Crash, Signal, WaitEnds, Ends, Restart
<1>6. CASE UNCHANGED vars
  BY <1>6 DEF vars
<1> QED
  BY <1>1, <1>2, <1>3, <1>4, <1>5, <1>6 DEF Next, CycleStep, Failure

LEMMA StepWorldCache == TypeOK /\ [Next]_vars => WorldType' /\ CacheType'
<1> SUFFICES ASSUME WorldType, CacheType, [Next]_vars PROVE WorldType' /\ CacheType'
  BY TypeParts
<1>1. ASSUME UNCHANGED <<world, cache>> PROVE WorldType' /\ CacheType'
  BY <1>1 DEF world, WorldType, CacheType
<1>2. CASE Pause
  <2>1. \A a \in Ages : Older(a) \in Ages
    BY CycleAssumption DEF Older, Ages
  <2>2. CacheType'
    BY <1>2, <2>1 DEF Pause, TimePasses, CacheType
  <2> QED BY <1>2, <2>2 DEF Pause, TimePasses, WorldType
<1>3. CASE FetchAnswered
  <2>1. PICK reached \in Answers, written \in BOOLEAN :
          cache' = IF written
                   THEN [features |-> Aggregated(reached), age |-> 0, fetched |-> 0]
                   ELSE cache
    BY <1>3 DEF FetchAnswered
  <2>2. Aggregated(reached) \subseteq Disturbances /\ 0 \in Ages
    BY CycleAssumption DEF Aggregated, Ages
  <2>3. CacheType'
    BY <2>1, <2>2 DEF CacheType
  <2> QED BY <1>3, <2>3 DEF FetchAnswered, world, WorldType
<1>4. CASE Begin \/ FetchFromCache \/ NoData \/ NothingValid
  BY <1>4, <1>1 DEF Begin, FetchFromCache, NoData, NothingValid, Reused
<1>5. CASE Detect \/ Save \/ NotSaved \/ Upload \/ Export
  BY <1>5, <1>1 DEF Detect, Save, NotSaved, Upload, Export
<1>6. CASE NoMapping \/ NothingDetected \/ UploadFails \/ ExportFails
  BY <1>6, <1>1 DEF NoMapping, NothingDetected, UploadFails, ExportFails
<1>7. CASE Crash \/ Signal \/ WaitEnds
  BY <1>7, <1>1 DEF Crash, Signal, WaitEnds, Ends
<1>8. CASE Restart
  BY <1>8 DEF Restart, world, WorldType, CacheType
<1>9. CASE UNCHANGED vars
  BY <1>9, <1>1 DEF vars
<1> QED
  BY <1>2, <1>3, <1>4, <1>5, <1>6, <1>7, <1>8, <1>9 DEF Next, CycleStep, Failure

LEMMA StepJob == TypeOK /\ [Next]_vars => JobType'
<1> SUFFICES ASSUME WorldType, JobType, CacheType, [Next]_vars PROVE JobType'
  BY TypeParts
<1> USE DEF JobType
<1>1. CASE Pause \/ Restart
  <2>1. NoJob \in [features : SUBSET Disturbances, missing : SUBSET Layers, cached : BOOLEAN,
                   result : SUBSET Disturbances, unread : SUBSET Disturbances, spared : BOOLEAN]
    BY DEF NoJob
  <2>2. job' = NoJob
    BY <1>1 DEF Pause, Restart
  <2> QED BY <2>1, <2>2
<1>2. CASE FetchAnswered
  <2>1. PICK reached \in Answers :
          job' = [job EXCEPT !.features = Aggregated(reached), !.missing = Layers \ reached]
    BY <1>2 DEF FetchAnswered
  <2> QED BY <2>1 DEF Aggregated
<1>3. CASE FetchFromCache
  <2>1. cache.features \subseteq Disturbances
    BY <1>3 DEF FetchFromCache, Usable, CacheType
  <2> QED BY <1>3, <2>1 DEF FetchFromCache
<1>4. CASE Detect
  <2>1. PICK v \in Valid(job.features), t \in Touching :
          job' = [job EXCEPT !.result = Intersecting(v, t), !.unread = road \ t,
                             !.spared = (t = road)]
    BY <1>4 DEF Detect
  <2>2. Intersecting(v, t) \subseteq Disturbances /\ road \ t \subseteq Disturbances
    BY DEF Intersecting, Valid, WorldType
  <2>3. (t = road) \in BOOLEAN
    OBVIOUS
  <2> QED BY <2>1, <2>2, <2>3
<1>5. CASE NotSaved
  BY <1>5 DEF NotSaved
<1>6. CASE Begin \/ NoData \/ NothingValid \/ Save \/ Upload \/ Export
  BY <1>6 DEF Begin, NoData, NothingValid, Save, Upload, Export
<1>7. CASE NoMapping \/ NothingDetected \/ UploadFails \/ ExportFails
  BY <1>7 DEF NoMapping, NothingDetected, UploadFails, ExportFails
<1>8. CASE Crash \/ Signal \/ WaitEnds
  BY <1>8 DEF Crash, Signal, WaitEnds, Ends
<1>9. CASE UNCHANGED vars
  BY <1>9 DEF vars
<1> QED
  BY <1>1, <1>2, <1>3, <1>4, <1>5, <1>6, <1>7, <1>8, <1>9 DEF Next, CycleStep, Failure

LEMMA StepControl == TypeOK /\ [Next]_vars => ControlType'
<1> SUFFICES ASSUME ControlType, [Next]_vars PROVE ControlType'
  BY TypeParts
<1> USE DEF ControlType, EndCycle
<1>1. CASE Pause \/ Begin \/ FetchAnswered \/ FetchFromCache \/ NoData \/ NothingValid
  BY <1>1 DEF Pause, Begin, FetchAnswered, FetchFromCache, NoData, NothingValid
<1>2. CASE Detect \/ Save \/ NotSaved \/ Upload \/ Export
  BY <1>2 DEF Detect, Save, NotSaved, Upload, Export, AfterSave
<1>3. CASE NoMapping \/ NothingDetected \/ UploadFails \/ ExportFails
  BY <1>3 DEF NoMapping, NothingDetected, UploadFails, ExportFails
<1>4. CASE Crash \/ Signal \/ WaitEnds \/ Restart
  BY <1>4 DEF Crash, Signal, WaitEnds, Ends, Restart
<1>5. CASE UNCHANGED vars
  BY <1>5 DEF vars
<1> QED
  BY <1>1, <1>2, <1>3, <1>4, <1>5 DEF Next, CycleStep, Failure

LEMMA StepCount == TypeOK /\ [Next]_vars => CountType'
<1> SUFFICES ASSUME CountType, CacheType, [Next]_vars PROVE CountType'
  BY TypeParts
<1> USE CycleAssumption DEF CountType, Mishap, Fine
<1>1. CASE FetchAnswered
  BY <1>1 DEF FetchAnswered, Ages
<1>2. CASE FetchFromCache
  BY <1>2 DEF FetchFromCache, Usable, CacheType
<1>3. CASE Pause \/ Begin \/ NoData \/ NothingValid
  BY <1>3 DEF Pause, Begin, NoData, NothingValid
<1>4. CASE Detect
  <2>1. PICK t \in Touching : Fine(t = road)
    BY <1>4 DEF Detect
  <2>2. mishaps' = mishaps \/ Mishap
    BY <2>1 DEF Fine
  <2> QED BY <1>4, <2>2 DEF Detect
<1>5. CASE Save \/ NotSaved \/ Upload \/ Export
  BY <1>5 DEF Save, NotSaved, Upload, Export
<1>6. CASE NoMapping \/ NothingDetected \/ UploadFails \/ ExportFails
  BY <1>6 DEF NoMapping, NothingDetected, UploadFails, ExportFails
<1>7. CASE Crash \/ Signal \/ WaitEnds \/ Restart
  BY <1>7 DEF Crash, Signal, WaitEnds, Ends, Restart
<1>8. CASE UNCHANGED vars
  BY <1>8 DEF vars
<1> QED
  BY <1>1, <1>2, <1>3, <1>4, <1>5, <1>6, <1>7, <1>8 DEF Next, CycleStep, Failure

\* Type correctness: what the cycle, the failures and the handler assign
\* (traffic-monitor main.py) stays in its type.
THEOREM CycleTypes == Spec => []TypeOK
<1>1. TypeOK /\ [Next]_vars => TypeOK'
  <2> SUFFICES ASSUME TypeOK, [Next]_vars PROVE TypeOK'
    OBVIOUS
  <2>1. WorldType' /\ CacheType' /\ RowsType' /\ JobType' /\ ControlType' /\ CountType'
    BY StepWorldCache, StepRows, StepJob, StepControl, StepCount
  <2> QED
    BY <2>1 DEF TypeOK, WorldType, CacheType, RowsType, JobType, ControlType, CountType
<1>2. QED
  BY <1>1, InitTypes, PTL DEF Spec

\* The handler waits only for a cycle: every way out of one has cleared
\* is_processing, and only a cycle that set it can be waited for.
THEOREM FlagCleared == Spec => []PauseIsIdle
<1>1. Init => FlagInv
  BY DEF Init, FlagInv
<1>2. FlagInv /\ [Next]_vars => FlagInv'
  <2> SUFFICES ASSUME FlagInv, [Next]_vars PROVE FlagInv'
    OBVIOUS
  <2> USE DEF FlagInv, EndCycle, Runs
  <2>1. CASE Pause \/ Begin
    BY <2>1 DEF Pause, Begin
  <2>2. CASE FetchAnswered \/ FetchFromCache \/ NoData
    BY <2>2 DEF FetchAnswered, FetchFromCache, NoData
  <2>3. CASE NothingValid \/ Detect
    BY <2>3 DEF NothingValid, Detect
  <2>4. CASE Save \/ NotSaved \/ Upload \/ Export
    BY <2>4 DEF Save, NotSaved, Upload, Export, AfterSave
  <2>5. CASE NoMapping \/ NothingDetected \/ UploadFails \/ ExportFails
    BY <2>5 DEF NoMapping, NothingDetected, UploadFails, ExportFails
  <2>6. CASE Crash \/ Signal \/ WaitEnds
    BY <2>6 DEF Crash, Signal, WaitEnds, Ends
  <2>7. CASE Restart
    BY <2>7 DEF Restart
  <2>8. CASE UNCHANGED vars
    BY <2>8 DEF vars
  <2> QED
    BY <2>1, <2>2, <2>3, <2>4, <2>5, <2>6, <2>7, <2>8 DEF Next, CycleStep, Failure
<1>3. FlagInv => PauseIsIdle
  BY DEF FlagInv, PauseIsIdle
<1>4. QED
  BY <1>1, <1>2, <1>3, PTL DEF Spec

\* Data reported as a success is younger than the cache's bound: reading the
\* cache does not renew its time stamp (traffic-monitor main.py).
THEOREM CacheBounded == Spec => []StaleBound
<1> USE CycleAssumption DEF CacheInv, StaleBound
<1>1. Init => CacheInv /\ StaleBound
  BY DEF Init
<1>2. TypeOK /\ CacheInv /\ StaleBound /\ [Next]_vars => CacheInv' /\ StaleBound'
  <2> SUFFICES ASSUME TypeOK, CacheInv, StaleBound, [Next]_vars PROVE CacheInv' /\ StaleBound'
    OBVIOUS
  <2>1. CASE Pause
    BY <2>1 DEF Pause, TimePasses, TypeOK
  <2>2. CASE FetchAnswered
    BY <2>2 DEF FetchAnswered
  <2>3. CASE FetchFromCache
    BY <2>3 DEF FetchFromCache, Usable, Reused
  <2>4. CASE Begin \/ NoData \/ NothingValid \/ Detect \/ Save \/ NotSaved \/ Upload \/ Export
    BY <2>4 DEF Begin, NoData, NothingValid, Detect, Save, NotSaved, Upload, Export
  <2>5. CASE NoMapping \/ NothingDetected \/ UploadFails \/ ExportFails
    BY <2>5 DEF NoMapping, NothingDetected, UploadFails, ExportFails
  <2>6. CASE Crash \/ Signal \/ WaitEnds
    BY <2>6 DEF Crash, Signal, WaitEnds, Ends
  <2>7. CASE Restart
    BY <2>7 DEF Restart
  <2>8. CASE UNCHANGED vars
    BY <2>8 DEF vars
  <2> QED
    BY <2>1, <2>2, <2>3, <2>4, <2>5, <2>6, <2>7, <2>8 DEF Next, CycleStep, Failure
<1>3. QED
  BY <1>1, <1>2, CycleTypes, PTL DEF Spec

-----------------------------------------------------------------------------
(* What a cycle makes of the reported disturbances.                        *)

LEMMA ResultInvInductive ==
  /\ Init => ResultInv
  /\ TypeOK /\ ResultInv /\ [Next]_vars => ResultInv'
<1> USE CycleAssumption DEF ResultInv, CycleFresh, FeaturesExplained, DetectNotSpared,
                            ResultExplained, RowsAreResult
<1>1. Init => ResultInv
  BY DEF Init, NoJob
<1>2. ASSUME TypeOK, ResultInv, [Next]_vars PROVE ResultInv'
  <2> USE <1>2 DEF world, outputs, EndCycle
  <2>1. CASE Pause
    BY <2>1 DEF Pause, TimePasses
  <2>2. CASE Begin
    BY <2>2 DEF Begin
  <2>3. CASE FetchAnswered
    <3>1. PICK reached \in SUBSET Layers :
            job' = [job EXCEPT !.features = Aggregated(reached), !.missing = Layers \ reached]
      BY <2>3 DEF FetchAnswered, Answers
    <3>2. /\ \A d \in Aggregated(reached) : allu[d] # "absent"
          /\ \A d \in Disturbances : allu[d] = "valid" =>
               d \in Aggregated(reached) \/ LayerOf[d] \in Layers \ reached
      BY DEF Aggregated
    <3>3. job'.features = Aggregated(reached) /\ job'.missing = Layers \ reached /\ ~job'.spared
      <4>1. job = NoJob
        BY <2>3 DEF FetchAnswered
      <4>2. ~job'.spared
        BY <3>1, <4>1 DEF NoJob
      <4>3. job'.features = Aggregated(reached) /\ job'.missing = Layers \ reached
        BY <3>1 DEF TypeOK
      <4> QED BY <4>2, <4>3
    <3>4. pc' = "detect" /\ allu' = allu
      BY <2>3 DEF FetchAnswered
    <3> QED BY <3>2, <3>3, <3>4
  <2>4. CASE FetchFromCache
    BY <2>4 DEF FetchFromCache, NoJob
  <2>5. CASE NoData
    BY <2>5 DEF NoData, NoJob
  <2>6. CASE NothingValid \/ NothingDetected
    BY <2>6 DEF NothingValid, NothingDetected
  <2>7. CASE Detect
    <3>1. PICK v \in Valid(job.features), t \in Touching :
            job' = [job EXCEPT !.result = Intersecting(v, t), !.unread = road \ t,
                               !.spared = (t = road)]
      BY <2>7 DEF Detect
    <3>2. /\ v \subseteq job.features
          /\ \A d \in job.features : /\ allu[d] = "valid" => d \in v
                                     /\ allu[d] = "ended" => d \notin v
      BY DEF Valid
    <3>3. /\ job'.result = v \cap t /\ job'.missing = job.missing
          /\ job'.cached = job.cached /\ job'.unread = road \ t /\ job'.spared = (t = road)
      BY <3>1 DEF Intersecting, TypeOK
    <3>4. t \subseteq road
      BY DEF Touching
    <3>5. pc = "detect" /\ pc' = "save" /\ allu' = allu /\ road' = road
      BY <2>7 DEF Detect
    <3>6. ASSUME ~job.cached, NEW d \in v \cap t PROVE allu[d] = "valid" /\ d \in road
      BY <3>2, <3>4, <3>5, <3>6 DEF TypeOK, Status
    <3>7. ASSUME ~job.cached, v \cap t # {}, NEW d \in road, allu[d] = "valid"
          PROVE  d \in v \cap t \/ LayerOf[d] \in job.missing \/ d \in road \ t
      BY <3>2, <3>4, <3>5, <3>7 DEF TypeOK
    <3> QED BY <3>3, <3>5, <3>6, <3>7
  <2>8. CASE Save
    BY <2>8 DEF Save, AfterSave, Replaced
  <2>9. CASE NotSaved
    BY <2>9 DEF NotSaved, AfterSave, TypeOK
  <2>10. CASE Upload \/ Export
    BY <2>10 DEF Upload, Export
  <2>11. CASE UploadFails \/ ExportFails
    BY <2>11 DEF UploadFails, ExportFails
  <2>12. CASE NoMapping
    BY <2>12 DEF NoMapping, NoJob
  <2>13. CASE Crash \/ Signal \/ WaitEnds
    BY <2>13 DEF Crash, Signal, WaitEnds, Ends
  <2>14. CASE Restart
    BY <2>14 DEF Restart, NoJob
  <2>15. CASE UNCHANGED vars
    BY <2>15 DEF vars
  <2> QED
    BY <2>1, <2>2, <2>3, <2>4, <2>5, <2>6, <2>7, <2>8, <2>9, <2>10, <2>11, <2>12, <2>13,
       <2>14, <2>15 DEF Next, CycleStep, Failure
<1>3. QED BY <1>1, <1>2

\* A cycle that reached every layer and read every segment leaves no
\* ended disturbance listed, unless its result was empty.
THEOREM NothingEndedStays == Spec => []EndedDelisted
<1>1. ResultInv => EndedDelisted
  BY DEF ResultInv, RowsAreResult, EndedDelisted
<1>2. QED
  BY <1>1, ResultInvInductive, CycleTypes, PTL DEF Spec

\* Only a failed layer, an unreadable segment under it or a cached answer takes a
\* disturbance that Allu still reports, valid and on the road, out of the saved
\* ones (IntersectionDetector.py:418-439, traffic-monitor main.py).
THEOREM NothingDroppedUnexplained == Spec => DroppedExplained
<1> DEFINE Explained == \A d \in rows \ rows' :
                          \/ allu[d] # "valid" \/ d \notin road
                          \/ LayerOf[d] \in job.missing \/ d \in job.unread \/ job.cached
                          \/ pc = "down"
<1>1. TypeOK /\ ResultInv /\ [Next]_vars => [Explained]_vars
  <2> SUFFICES ASSUME ResultInv, Next PROVE Explained
    BY DEF vars, outputs
  <2> USE DEF outputs
  <2>1. CASE Save
    BY <2>1 DEF Save, Replaced, ResultInv, ResultExplained
  <2>2. CASE Pause \/ Begin \/ FetchAnswered \/ FetchFromCache \/ NoData \/ NothingValid
    BY <2>2 DEF Pause, Begin, FetchAnswered, FetchFromCache, NoData, NothingValid
  <2>3. CASE Detect \/ NotSaved \/ Upload \/ Export
    BY <2>3 DEF Detect, NotSaved, Upload, Export
  <2>4. CASE NoMapping \/ NothingDetected \/ UploadFails \/ ExportFails
    BY <2>4 DEF NoMapping, NothingDetected, UploadFails, ExportFails
  <2>5. CASE Crash \/ Signal \/ WaitEnds
    BY <2>5 DEF Crash, Signal, WaitEnds, Ends
  <2>6. CASE Restart
    BY <2>6 DEF Restart
  <2> QED
    BY <2>1, <2>2, <2>3, <2>4, <2>5, <2>6 DEF Next, CycleStep, Failure
<1>2. QED
  BY <1>1, ResultInvInductive, CycleTypes, PTL DEF Spec, DroppedExplained

=============================================================================
