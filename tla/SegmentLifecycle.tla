------------------------- MODULE SegmentLifecycle -------------------------
(***************************************************************************)
(* The orchestrator's management of road segments: the manager's cycle     *)
(* over the listed disturbances (IdeaHelsinkiManager), one worker task per *)
(* segment that profiles and validates it (IdeaHelsinkiRoadSegment), and   *)
(* the profiles kept in the SQLite repository.                             *)
(*                                                                         *)
(* Tasks interleave at their awaits.  A disturbance is represented by its  *)
(* start date, from which the profiling period follows, and a profile by   *)
(* the date of its period's beginning: one whose end was read after an     *)
(* update is of neither date, and as stale.                                *)
(***************************************************************************)
EXTENDS Integers, FiniteSets

CONSTANTS
  Segments,
  Dates,           \* start dates of disturbances
  None,            \* no disturbance, no profile
  Permits,         \* _PROFILING_CONCURRENCY_LIMIT
  MaxCycleErrors,  \* ErrorTracker.max_consecutive of a segment
  MaxErrors,       \* _WORKER_MAX_ERRORS
  Failing,         \* bound: the segments whose cycles may raise
  MaxOrphans       \* bound: saves outliving their tasks at any time

ASSUME SegmentsAssumption ==
  IsFiniteSet(Segments) /\ None \notin Dates /\ Failing \subseteq Segments
ASSUME LimitsAssumption ==
  /\ MaxOrphans \in Nat
  /\ Permits \in Nat \ {0} /\ MaxCycleErrors \in Nat \ {0} /\ MaxErrors \in Nat \ {0}

VARIABLES
  snapshot,  \* start dates of segments_to_process in the manager's last cycle
  todo,      \* its segments not yet updated or created
  deleting,  \* the segment whose delete_profile the manager awaits
  pc,        \* where each worker task is; "none" for no active segment
  start,     \* disturbance_start_date
  profile,   \* segment_profile, the copy in memory
  made,      \* the profile being generated
  permits,   \* the profiling semaphore
  repo,      \* profiles in the repository
  orphans,   \* save_profile calls in a thread that outlive their task
  tracker,   \* consecutive errors of the segment's ErrorTracker
  errors,    \* consecutive_errors of the isolation wrapper
  failed,    \* history: failed cycles of the worker, counted up to Total
  raced      \* history: an update and a stored profile passed each other

manager == <<snapshot, todo, deleting>>
counters == <<tracker, errors, failed>>
worker == <<start, profile, made, counters, raced>>
vars == <<manager, pc, worker, permits, repo, orphans>>

Listings == Dates \cup {None}
Points == {"none", "wait", "lookup", "acquire", "generate", "validate", "dead"}
Active == {s \in Segments : pc[s] # "none"}
Generating == {s \in Segments : pc[s] = "generate"}
Total == MaxCycleErrors + MaxErrors - 1

Init ==
  /\ snapshot = [s \in Segments |-> None]
  /\ todo = {} /\ deleting = {}
  /\ pc = [s \in Segments |-> "none"]
  /\ start = snapshot /\ profile = snapshot /\ made = snapshot
  /\ permits = Permits /\ repo = snapshot /\ orphans = {}
  /\ tracker = [s \in Segments |-> 0] /\ errors = tracker /\ failed = tracker
  /\ raced = [s \in Segments |-> FALSE]

----------------------------------------------------------------------------
(* A worker task: run_lifecycle within _run_worker_with_error_isolation. *)

Goto(s, p) == pc' = [pc EXCEPT ![s] = p]

\* The cycle returns: record_success, and the wait for the next one.
EndCycle(s) ==
  /\ Goto(s, "wait")
  /\ tracker' = [tracker EXCEPT ![s] = 0]
  /\ UNCHANGED <<errors, failed>>

UpTo(n, k) == IF k < n THEN k + 1 ELSE n
Escalates_Early(s) == tracker[s] + 2 >= MaxCycleErrors
Escalates(s) == tracker[s] + 1 >= MaxCycleErrors
LastError(s) == errors[s] + 1 >= MaxErrors

\* The cycle raises: the tracker counts it; escalated, the wrapper counts one,
\* restarts the lifecycle with the same tracker, or gives the worker up.
FailCycle(s) ==
  /\ s \in Failing
  /\ tracker' = [tracker EXCEPT ![s] = UpTo(MaxCycleErrors, @)]
  /\ failed' = [failed EXCEPT ![s] = UpTo(Total, @)]
  /\ errors' = [errors EXCEPT ![s] = IF Escalates(s) THEN @ + 1 ELSE @]
  /\ Goto(s, IF Escalates(s) /\ LastError(s) THEN "dead" ELSE "wait")

Release_Twice == permits' = permits + 2
Release == permits' = permits + 1

\* A cycle begins after a pause: the history is long enough for the IDEA
\* algorithm and the profiling period over, or the cycle ends at once.
CheckHistory(s) ==
  /\ pc[s] = "wait"
  /\ \/ Goto(s, "lookup") /\ UNCHANGED counters
     \/ EndCycle(s)
  /\ UNCHANGED <<start, profile, made, raced, permits, repo>>

HasProfile(s) == profile[s] # None \/ repo[s] # None

LookupProfile(s) ==
  /\ pc[s] = "lookup"
  /\ Goto(s, IF HasProfile(s) THEN "validate" ELSE "acquire")
  /\ UNCHANGED <<worker, permits, repo>>

LookupFails(s) ==
  /\ pc[s] = "lookup" /\ profile[s] = None
  /\ FailCycle(s)
  /\ UNCHANGED <<start, profile, made, raced, permits, repo>>

\* The fetching of the history and the generation follow.
AcquireSemaphore(s) ==
  /\ pc[s] = "acquire" /\ permits > 0
  /\ permits' = permits - 1
  /\ made' = [made EXCEPT ![s] = start[s]]
  /\ Goto(s, "generate")
  /\ UNCHANGED <<start, profile, counters, raced, repo>>

Leave(s) == made' = [made EXCEPT ![s] = None] /\ Release

\* Saved, and dropped from memory; or kept in memory when the save fails.
SaveProfile(s) ==
  /\ pc[s] = "generate"
  /\ \/ repo' = [repo EXCEPT ![s] = made[s]] /\ profile' = [profile EXCEPT ![s] = None]
     \/ profile' = [profile EXCEPT ![s] = made[s]] /\ UNCHANGED repo
  /\ Leave(s) /\ Goto(s, "validate")
  /\ UNCHANGED <<start, counters, raced>>

GenerationFails_KeepPermit(s) ==
  /\ pc[s] = "generate"
  /\ \/ EndCycle(s) /\ made' = [made EXCEPT ![s] = None] /\ UNCHANGED permits
     \/ FailCycle(s) /\ Leave(s)
  /\ UNCHANGED <<start, profile, raced, repo>>
\* Without data, with too poor data or with an empty profile the validation
\* returns; any other error propagates.
GenerationFails(s) ==
  /\ pc[s] = "generate"
  /\ EndCycle(s) \/ FailCycle(s)
  /\ Leave(s)
  /\ UNCHANGED <<start, profile, raced, repo>>

\* Whatever the query, the validation and the write give, of this model's state
\* only the error counts remain.
Validate(s) ==
  /\ pc[s] = "validate"
  /\ EndCycle(s) \/ FailCycle(s)
  /\ UNCHANGED <<start, profile, made, raced, permits, repo>>

Worker(s) ==
  /\ \/ CheckHistory(s) \/ LookupProfile(s) \/ LookupFails(s) \/ AcquireSemaphore(s)
     \/ SaveProfile(s) \/ GenerationFails(s) \/ Validate(s)
  /\ UNCHANGED <<manager, orphans>>

\* The thread of a save whose task was cancelled runs on to its end.
OrphanSaves(s, p) ==
  /\ <<s, p>> \in orphans
  /\ orphans' = orphans \ {<<s, p>>}
  /\ repo' = [repo EXCEPT ![s] = p]
  /\ raced' = [raced EXCEPT ![s] = @ \/ s \in Active]
  /\ UNCHANGED <<manager, pc, start, profile, made, counters, permits>>

----------------------------------------------------------------------------
(* The manager: _run_management_cycle_with_error_isolation. *)

ManagerIdle == todo = {} /\ deleting = {}

\* The tasks and instances of S are gone, and what they held.
Discard(S) ==
  LET Without(f, v) == [s \in Segments |-> IF s \in S THEN v ELSE f[s]] IN
  /\ pc' = Without(pc, "none")
  /\ start' = Without(start, None)
  /\ profile' = Without(profile, None) /\ made' = Without(made, None)
  /\ tracker' = Without(tracker, 0) /\ errors' = Without(errors, 0)
  /\ failed' = Without(failed, 0) /\ raced' = Without(raced, FALSE)

StartCycle_KeepTasks(listing) ==
  /\ ManagerIdle
  /\ snapshot' = listing
  /\ todo' = {s \in Segments : listing[s] # None}
  /\ UNCHANGED <<deleting, repo, pc, worker, permits, orphans>>
\* Reads the listing of that moment; the tasks of segments no longer in it are cancelled, but
\* not a save that is in its thread already.
StartCycle(listing) ==
  /\ ManagerIdle
  /\ snapshot' = listing
  /\ todo' = {s \in Segments : listing[s] # None}
  /\ LET ended == {s \in Active : listing[s] = None} IN
     /\ Discard(ended)
     /\ permits' = permits + Cardinality(ended \cap Generating)
     /\ \E saving \in SUBSET (ended \cap Generating) :
          /\ orphans' = orphans \cup {<<s, made[s]>> : s \in saving}
          /\ Cardinality(orphans') <= MaxOrphans
  /\ UNCHANGED <<deleting, repo>>

\* A new instance: it will use whatever profile the repository has.
StartSegment(s) ==
  /\ s \in todo /\ deleting = {} /\ s \notin Active
  /\ todo' = todo \ {s}
  /\ start' = [start EXCEPT ![s] = snapshot[s]]
  /\ Goto(s, "wait")
  /\ raced' = [raced EXCEPT ![s] = repo[s] \notin {None, snapshot[s]}]
  /\ UNCHANGED <<snapshot, deleting, profile, made, counters, permits, repo, orphans>>

UpdateSegment_KeepProfile(s) ==
  /\ s \in todo /\ deleting = {} /\ s \in Active
  /\ todo' = todo \ {s}
  /\ start' = [start EXCEPT ![s] = snapshot[s]]
  /\ IF start[s] = snapshot[s]
     THEN UNCHANGED <<profile, deleting, raced>>
     ELSE /\ deleting' = {s}
          /\ raced' = [raced EXCEPT ![s] = @ \/ s \in Generating]
          /\ UNCHANGED profile
  /\ UNCHANGED <<snapshot, pc, made, counters, permits, repo, orphans>>
\* update_segment up to its await; a dead worker's instance is updated as well.
UpdateSegment(s) ==
  /\ s \in todo /\ deleting = {} /\ s \in Active
  /\ todo' = todo \ {s}
  /\ start' = [start EXCEPT ![s] = snapshot[s]]
  /\ IF start[s] = snapshot[s]
     THEN UNCHANGED <<profile, deleting, raced>>
     ELSE /\ profile' = [profile EXCEPT ![s] = None]
          /\ deleting' = {s}
          /\ raced' = [raced EXCEPT ![s] = @ \/ s \in Generating]
  /\ UNCHANGED <<snapshot, pc, made, counters, permits, repo, orphans>>

DeleteProfile(s) ==
  /\ s \in deleting
  /\ deleting' = {}
  /\ repo' = [repo EXCEPT ![s] = None]
  /\ UNCHANGED <<snapshot, todo, pc, worker, permits, orphans>>

\* It is logged, and the old profile stays.
DeleteProfileFails(s) ==
  /\ s \in deleting
  /\ deleting' = {}
  /\ raced' = [raced EXCEPT ![s] = TRUE]
  /\ UNCHANGED <<snapshot, todo, pc, start, profile, made, counters, permits, repo,
                 orphans>>

\* delete_expired_profiles, in its own await before the listing is read.
ExpireProfiles(S) ==
  /\ ManagerIdle /\ S # {}
  /\ repo' = [s \in Segments |-> IF s \in S THEN None ELSE repo[s]]
  /\ UNCHANGED <<manager, pc, worker, permits, orphans>>

Manager ==
  \/ \E listing \in [Segments -> Listings] : StartCycle(listing)
  \/ \E s \in Segments : \/ StartSegment(s) \/ UpdateSegment(s)
                         \/ DeleteProfile(s) \/ DeleteProfileFails(s)
  \/ \E S \in SUBSET {s \in Segments : repo[s] # None} : ExpireProfiles(S)

----------------------------------------------------------------------------
(* The restart of the process: the repository is all that survives. *)

Restart ==
  /\ Discard(Segments)
  /\ snapshot' = [s \in Segments |-> None] /\ todo' = {} /\ deleting' = {}
  /\ permits' = Permits /\ orphans' = {}
  /\ UNCHANGED repo

Next ==
  \/ \E s \in Segments : Worker(s)
  \/ \E s \in Segments, p \in Dates : OrphanSaves(s, p)
  \/ Manager
  \/ Restart

Spec == Init /\ [][Next]_vars

----------------------------------------------------------------------------
(* Properties *)

\* Every variable is of its type; in particular the semaphore's value never
\* exceeds the concurrency limit, and no error count its maximum.
TypeOK ==
  /\ snapshot \in [Segments -> Listings]
  /\ todo \subseteq Segments /\ deleting \subseteq Segments
  /\ pc \in [Segments -> Points] /\ start \in [Segments -> Listings]
  /\ profile \in [Segments -> Listings] /\ made \in [Segments -> Listings]
  /\ permits \in 0 .. Permits /\ repo \in [Segments -> Listings]
  /\ orphans \subseteq Segments \X Listings
  /\ tracker \in [Segments -> 0 .. MaxCycleErrors]
  /\ errors \in [Segments -> 0 .. MaxErrors] /\ failed \in [Segments -> 0 .. Total]
  /\ raced \in [Segments -> BOOLEAN]

\* The semaphore is neither leaked nor over-released, on whichever way a worker
\* leaves the profiling section: done, no data, an error, or cancelled.
PermitsConserved == permits + Cardinality(Generating) = Permits

\* After each complete cycle exactly the segments of its listing are active,
\* and each has the listing's date, although listings change and the cycle
\* awaits between one segment and the next.
WorkersFollowListing ==
  ManagerIdle =>
    \A s \in Segments :
      /\ s \in Active <=> snapshot[s] # None
      /\ s \in Active => start[s] = snapshot[s]

\* The profile the next validation will use: the repository's comes first.
InUse(s) == IF repo[s] # None THEN repo[s] ELSE profile[s]

\* Between validations a segment's profile is of its current date, except
\* after the windows that set `raced': an update while a profile is being made,
\* a failed deletion, a profile found at the start, an orphaned save.
StaleOnlyByRace ==
  \A s \in Segments :
    pc[s] = "wait" /\ s \notin deleting /\ ~raced[s] => InUse(s) \in {None, start[s]}

\* A worker is given up only after MaxCycleErrors + MaxErrors - 1 failed cycles
\* at the least: the tracker that lives on across restarts of the lifecycle
\* makes every failure after the first escalation count.
GivenUpLate == \A s \in Segments : pc[s] = "dead" => failed[s] >= Total

\* IdeaHelsinkiRoadSegment.py:762: "This change will be caught in the main loop,
\* and the segment will be reprofiled if needed".  So once an update is complete
\* no worker stores a profile of another date than the segment's.
ReprofiledAfterUpdate ==
  [][\A s \in Segments :
       pc[s] = "generate" /\ pc'[s] = "validate" /\ s \notin deleting
         => repo'[s] \in {repo[s], start[s]}]_vars
============================================================================
