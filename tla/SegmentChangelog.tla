------------------------- MODULE SegmentChangelog -------------------------
(***************************************************************************)
(* The real-time cycles of the fcd-manager: points are written to          *)
(* InfluxDB, the segment mapping is replaced, and the changelog and the    *)
(* archive of segment ids are brought up to date (FcdUtils), a new id      *)
(* inheriting the series of a retired one (InfluxDBSegmentMigrator).       *)
(*                                                                         *)
(* After the backfill run() calls the cycle once itself while the          *)
(* coordinator's real-time thread calls it too, so two may be under way.   *)
(* The signal handler runs on the main thread and waits for                *)
(* _write_in_progress.                                                     *)
(*                                                                         *)
(* A point is a pair of the id it was reported under and its time; a       *)
(* series is the set of points tagged with an id in a bucket.              *)
(***************************************************************************)
EXTENDS Naturals, FiniteSets

CONSTANTS
  Ids,         \* segment ids
  Twins,       \* pairs of ids whose geometries match
  Buckets,     \* migration targets 1..n; the first is the FCD bucket
  Window,      \* ticks a cycle looks back for blobs, less one
  Lookback,    \* SEGMENT_GEO_INHERITANCE_LOOKBACK_HOURS in ticks, or None
  None,
  Settings,    \* the configured repository, and bounds that go with it: ids that
               \* are reported, threads that run cycles, ticks and mishaps
  MaxTime,     \* bound: ticks
  MaxMishaps   \* bound: failing operations and ends of the process

Cycles == {"main", "realtime"}
Times == 0..MaxTime
Points == Ids \X Times

\* What a changelog and an archive hold of an id.
Entry == [from : Ids \cup {None}, migrated : BOOLEAN, added : Times]
Record == [at : Times, geometry : BOOLEAN]

ASSUME ChangelogAssumption ==
  /\ IsFiniteSet(Ids) /\ None \notin Ids /\ None \notin Nat /\ None \notin Entry \cup Record
  /\ Twins \subseteq Ids \X Ids /\ \A x \in Ids : <<x, x>> \in Twins
  /\ IsFiniteSet(Buckets) /\ Buckets = 1..Cardinality(Buckets) /\ 1 \in Buckets
  /\ Settings \subseteq [backend : {"json", "sqlite"}, ids : SUBSET Ids, threads : SUBSET Cycles,
                          ticks : 0..MaxTime, mishaps : 0..MaxMishaps]
  /\ Window \in Nat /\ Lookback \in Nat \cup {None}
  /\ MaxTime \in Nat /\ MaxMishaps \in Nat

VARIABLES
  setting,    \* which of the settings
  now,        \* the clock
  reported,   \* ids with data in the blobs of each tick
  series,     \* series[b][x]: the points of bucket b tagged x
  mapping,    \* the saved segment mapping
  changelog,  \* the saved changelog: None or an entry for each id
  archive,    \* the saved archive: None or a record for each id
  pc,         \* where each cycle is
  job,        \* the locals of each cycle
  begun,      \* tick of each cycle's last beginning, None after a restart
  writing,    \* _write_in_progress
  term,       \* the signal handler: none, waiting, cleared, timed out
  mishaps,
  catalogued, \* history: ids that were ever in the saved changelog
  exposed,    \* history: ids whose record a step may have dropped
  undated,    \* history: origins whose last removal the archive may not date
  written,    \* history: points written by write_fcd_model
  overlapped, \* history: two cycles' updates under way overlapped
  suspect,    \* history: ids whose points a migration may have deleted
  residual    \* history: origins with points left or written after counting

clock == <<setting, now, reported>>
stored == <<mapping, changelog, archive>>
logHistory == <<catalogued, exposed, undated, overlapped>>
pointHistory == <<written, suspect, residual>>
vars == <<clock, series, stored, pc, job, begun, writing, term, mishaps,
          logHistory, pointHistory>>

backend == setting.backend
Nothing == [x \in Ids |-> None]
Known(f) == {x \in Ids : f[x] # None}

NoJob == [fresh |-> {}, at |-> 0, log |-> Nothing, arch |-> Nothing, removed |-> {},
          todo |-> {}, heir |-> None, bucket |-> 1, count |-> 0,
          blind |-> FALSE, stale |-> FALSE]

Init ==
  /\ setting \in Settings /\ now = 0
  /\ reported \in {r \in [Times -> SUBSET setting.ids] : \A t \in Times \ {0} : r[t] = {}}
  /\ series = [b \in Buckets |-> [x \in Ids |-> IF b # 1 /\ x \in reported[0]
                                                THEN {<<x, 0>>} ELSE {}]]
  /\ mapping = {} /\ changelog = Nothing /\ archive = Nothing
  /\ pc = [c \in Cycles |-> "idle"] /\ job = [c \in Cycles |-> NoJob]
  /\ begun = [c \in Cycles |-> None]
  /\ writing = FALSE /\ term = "none"
  /\ mishaps = 0
  /\ catalogued = {} /\ exposed = {} /\ undated = {} /\ overlapped = FALSE
  /\ written = {} /\ suspect = {} /\ residual = {}

\* Time passes, and TomTom reports some ids.
Tick ==
  /\ now < setting.ticks
  /\ now' = now + 1
  /\ \E S \in SUBSET setting.ids : reported' = [reported EXCEPT ![now + 1] = S]
  /\ UNCHANGED <<setting, series, stored, pc, job, begun, writing, term, mishaps,
                 logHistory, pointHistory>>

----------------------------------------------------------------------------
(* The changelog's computation (process_segment_changelog and the          *)
(* geo-inheritance of update_segment_changelog_from_repo).                 *)

Removed(log, fresh) == Known(log) \ fresh
Added(log, fresh) == fresh \ Known(log)

NewEntry(t) == [from |-> None, migrated |-> FALSE, added |-> t]

\* Mutant: every id of the mapping gets a new entry.
NextLog_Renewed(log, fresh, t) ==
  [x \in Ids |-> IF x \in fresh THEN NewEntry(t) ELSE None]

NextLog(log, fresh, t) ==
  [x \in Ids |-> IF x \notin fresh THEN None
                 ELSE IF log[x] = None THEN NewEntry(t) ELSE log[x]]

\* Mutant: ids are archived only in a cycle without new ones.
NextArchive_UnlessReplaced(log, arch, fresh, t) ==
  [x \in Ids |-> IF x \in Removed(log, fresh) /\ Added(log, fresh) = {}
                 THEN [at |-> t, geometry |-> TRUE] ELSE arch[x]]

NextArchive(log, arch, fresh, t) ==
  [x \in Ids |-> IF x \in Removed(log, fresh) THEN [at |-> t, geometry |-> TRUE]
                 ELSE arch[x]]

Inherited(log) == {log[x].from : x \in Known(log)} \ {None}

\* Mutant: ids that were inherited from already are candidates again.
Recent_Unguarded(log, arch, removed, t) ==
  IF Lookback = None THEN {}
  ELSE {o \in Known(arch) \ removed : arch[o].at + Lookback >= t /\ arch[o].geometry}

\* _collect_lookback_candidates; only a record with its geometry can match.
Recent(log, arch, removed, t) ==
  IF Lookback = None THEN {}
  ELSE {o \in Known(arch) \ (removed \cup Inherited(log)) :
          arch[o].at + Lookback >= t /\ arch[o].geometry}

\* find_matching_historical_segments: the best match of each new id.
Matches(new, old) ==
  {m \in [new -> old \cup {None}] :
     \A x \in new : LET fits == {o \in old : <<x, o>> \in Twins}
                    IN IF fits = {} THEN m[x] = None ELSE m[x] \in fits}

\* With geo_inherited_from set for the matched ids.
Inherit(log, m) ==
  [x \in Ids |-> IF x \in DOMAIN m THEN [log[x] EXCEPT !.from = m[x]] ELSE log[x]]

\* Inherited, and not yet migrated.
Pending(log) == {x \in Known(log) : log[x].from # None /\ ~log[x].migrated}

\* What save_changelog leaves.  SQLite keeps no inheritance, and its retention
\* deletes the rows of all segments but the one saved last.
StoredLogs(log, t) ==
  IF backend = "json" THEN {log}
  ELSE {[x \in Ids |-> IF x = last THEN NewEntry(t) ELSE None] : last \in Known(log)}

\* What save_archive leaves: SQLite stores no geometry from these records.
StoredArchive(arch) ==
  IF backend = "json" THEN arch
  ELSE [x \in Ids |-> IF arch[x] = None THEN None ELSE [arch[x] EXCEPT !.geometry = FALSE]]

----------------------------------------------------------------------------
(* One cycle.                                                              *)

Critical == {"changelog", "archive", "migrate", "retag", "verify", "saveArchive"}
InCritical == {c \in Cycles : pc[c] \in Critical}
HasRead == {"archive", "migrate", "retag", "verify", "saveArchive"}

Goto(c, p) == pc' = [pc EXCEPT ![c] = p]

\* The signal handler has interrupted the main thread.
Runs(c) == c = "main" => term = "none"

\* The cycle returns; leaving the critical section clears the flag.
Leave(c) ==
  /\ Goto(c, "idle")
  /\ writing' = IF pc[c] \in Critical THEN FALSE ELSE writing
  /\ overlapped' = (overlapped /\ InCritical \ {c} # {})

Begin(c) ==
  /\ c \in setting.threads
  /\ pc[c] = "idle" /\ term \in {"none", "waiting"} /\ Runs(c)
  /\ c = "main" => begun[c] = None
  /\ begun[c] # now
  /\ LET fresh == UNION {reported[t] : t \in {u \in Times : u <= now /\ now <= u + Window}}
     IN /\ fresh # {}
        /\ job' = [job EXCEPT ![c].fresh = fresh, ![c].at = now]
  /\ begun' = [begun EXCEPT ![c] = now]
  /\ Goto(c, "points")
  /\ UNCHANGED <<clock, series, stored, writing, term, mishaps, logHistory, pointHistory>>

\* The points of the blobs a cycle has downloaded.
Batch(c) == {p \in job[c].fresh \X Times :
               p[1] \in reported[p[2]] /\ p[2] <= job[c].at /\ job[c].at <= p[2] + Window}

Origins(ps) == {p[1] : p \in ps}

\* A bucket holds one point for a tag and a time: the last one written.
Overwrite(ps, new) == {p \in ps : \A q \in new : q[2] # p[2]} \cup new
Collided(ps, new) == Origins(ps \ Overwrite(ps, new))

Origin(c) == job[c].log[job[c].heir].from

\* Migrations another cycle has counted and not yet finished.
Migrating(c) == {d \in Cycles \ {c} : pc[d] \in {"retag", "verify"}}
Endangered(c, touched) ==
  UNION {Origins(series[job[d].bucket][Origin(d)]) \cup touched :
           d \in {e \in Migrating(c) : {Origin(e), job[e].heir} \cap touched # {}}}

\* Ids whose series some entry has inherited.
Disowned == Inherited(changelog) \cup UNION {Inherited(job[c].log) : c \in Cycles}

WritePoints(c) ==
  /\ pc[c] = "points" /\ Runs(c)
  /\ series' = [series EXCEPT ![1] =
                  [x \in Ids |-> Overwrite(@[x], {p \in Batch(c) : p[1] = x})]]
  /\ written' = written \cup Batch(c)
  /\ suspect' = suspect \cup Endangered(c, Origins(Batch(c))) \cup
                UNION {Collided(series[1][x], {p \in Batch(c) : p[1] = x}) : x \in Ids}
  /\ residual' = residual \cup (Disowned \cap Origins(Batch(c)))
  /\ Goto(c, "mapping")
  /\ UNCHANGED <<clock, stored, job, begun, writing, term, mishaps, logHistory>>

\* Mutant: the flag is not set.
EnterUpdate_Unflagged ==
  writing' = writing /\ overlapped' = (overlapped \/ InCritical # {})

\* _write_in_progress.set().
EnterUpdate ==
  writing' = TRUE /\ overlapped' = (overlapped \/ InCritical # {})

\* update_fcd_segment_mapping, then the changelog's update begins.
SaveMapping(c) ==
  /\ pc[c] = "mapping" /\ Runs(c)
  /\ mapping' = job[c].fresh
  /\ EnterUpdate
  /\ Goto(c, "changelog")
  /\ UNCHANGED <<clock, series, changelog, archive, job, begun, term, mishaps,
                 catalogued, exposed, undated, pointHistory>>

Mishap == mishaps < setting.mishaps /\ mishaps' = mishaps + 1

\* A read of the JSON files that fails gives an empty dictionary.
Unreadable == backend = "json" /\ Mishap

\* get_segments and get_changelog.
ReadChangelog(c) ==
  /\ pc[c] = "changelog" /\ Runs(c)
  /\ \/ /\ job' = [job EXCEPT ![c].fresh = mapping, ![c].log = changelog]
        /\ UNCHANGED mishaps
     \/ /\ Unreadable
        /\ job' = [job EXCEPT ![c].fresh = mapping, ![c].blind = TRUE]
  /\ Goto(c, "archive")
  /\ UNCHANGED <<clock, series, stored, begun, writing, term,
                 logHistory, pointHistory>>

\* What the cycle will save, when it has read the archive as arch.
Processed(c, arch) ==
  LET j == job[c]
      gone == Removed(j.log, j.fresh)
      new == Added(j.log, j.fresh)
      log == NextLog(j.log, j.fresh, j.at)
      all == NextArchive(j.log, arch, j.fresh, j.at)
      old == IF gone = {} /\ Lookback = None THEN {}
             ELSE gone \cup Recent(log, all, gone, j.at)
  IN {[j EXCEPT !.log = Inherit(log, m), !.arch = all, !.removed = gone,
                !.todo = Pending(Inherit(log, m))] : m \in Matches(new, old)}

ReadArchive(c) ==
  /\ pc[c] = "archive" /\ Runs(c)
  /\ \/ /\ \E j \in Processed(c, archive) : job' = [job EXCEPT ![c] = j]
        /\ UNCHANGED mishaps
     \/ /\ Unreadable
        /\ \E j \in Processed(c, Nothing) :
             job' = [job EXCEPT ![c] = [j EXCEPT !.blind = TRUE]]
  /\ Goto(c, "migrate")
  /\ UNCHANGED <<clock, series, stored, begun, writing, term,
                 logHistory, pointHistory>>

----------------------------------------------------------------------------
(* The migrations of a cycle (_run_pending_migrations), one after another, *)
(* and in each the buckets (migrate_segment_timeseries).                   *)

\* The id is its own origin: a ValueError, caught; the entry stays pending.
RefuseMigration(c) ==
  /\ pc[c] = "migrate" /\ Runs(c) /\ job[c].heir = None
  /\ \E x \in job[c].todo :
       /\ job[c].log[x].from = x
       /\ job' = [job EXCEPT ![c].todo = @ \ {x}]
  /\ UNCHANGED <<clock, series, stored, pc, begun, writing, term, mishaps,
                 logHistory, pointHistory>>

\* Mutant: marked as migrated after the first bucket.
BucketDone_FirstOnly(j) ==
  [j EXCEPT !.log = [@ EXCEPT ![j.heir].migrated = TRUE],
            !.todo = @ \ {j.heir}, !.heir = None, !.bucket = 1, !.count = 0]

\* The next bucket, or timeseries_migrated_at.
BucketDone(j) ==
  IF j.bucket + 1 \in Buckets
  THEN [j EXCEPT !.bucket = @ + 1, !.count = 0]
  ELSE [j EXCEPT !.log = [@ EXCEPT ![j.heir].migrated = TRUE],
                 !.todo = @ \ {j.heir}, !.heir = None, !.bucket = 1, !.count = 0]

Source(j) == series[j.bucket][j.log[j.heir].from]

CountPoints(c) ==
  /\ pc[c] = "migrate" /\ Runs(c)
  /\ \E x \in IF job[c].heir = None THEN job[c].todo ELSE {job[c].heir} :
       LET j == [job[c] EXCEPT !.heir = x]
       IN /\ j.log[x].from # x
          /\ IF Source(j) = {}
             THEN job' = [job EXCEPT ![c] = BucketDone(j)] /\ UNCHANGED pc
             ELSE /\ job' = [job EXCEPT ![c] = [j EXCEPT !.count = Cardinality(Source(j))]]
                  /\ Goto(c, "retag")
  /\ UNCHANGED <<clock, series, stored, begun, writing, term, mishaps,
                 logHistory, pointHistory>>

\* set() and to(): all points are copied, or, by a fault, only some.
RetagPoints(c) ==
  /\ pc[c] = "retag" /\ Runs(c)
  /\ LET j == job[c]
         target == series[j.bucket][j.heir]
     IN \E copied \in SUBSET Source(j) :
          /\ IF copied = Source(j) THEN UNCHANGED mishaps
             ELSE Mishap
          /\ series' = [series EXCEPT ![j.bucket][j.heir] = Overwrite(@, copied)]
          /\ suspect' = suspect \cup Collided(target, copied)
               \cup Endangered(c, {j.heir})
               \cup (IF Endangered(c, {j.heir}) # {} THEN Origins(copied) ELSE {})
               \cup (IF copied # Source(j) /\ target # {} THEN Origins(Source(j)) ELSE {})
          /\ residual' = residual \cup (Disowned \cap {j.heir})
  /\ Goto(c, "verify")
  /\ UNCHANGED <<clock, stored, job, begun, writing, term, logHistory, written>>

\* Mutant: the copy is taken for complete without counting again.
Verified_Skipped(j) == j.count > 0

\* The new id holds as many points as the old one did.
Verified(j) == Cardinality(series[j.bucket][j.heir]) >= j.count

\* The points of the old id are deleted, or left where they are.
VerifyAndDelete(c) ==
  /\ pc[c] = "verify" /\ Runs(c)
  /\ LET j == job[c]
     IN \/ /\ Verified(j)
           /\ series' = [series EXCEPT ![j.bucket][Origin(c)] = {}]
           /\ UNCHANGED residual
        \/ /\ ~Verified(j)
           /\ residual' = residual \cup {Origin(c)}
           /\ UNCHANGED series
  /\ job' = [job EXCEPT ![c] = BucketDone(@)]
  /\ Goto(c, "migrate")
  /\ UNCHANGED <<clock, stored, begun, writing, term, mishaps, logHistory, written, suspect>>

\* An InfluxDB call raises: the entry stays pending for the next cycle.
MigrationRaises(c) ==
  /\ pc[c] \in {"retag", "verify"} /\ Runs(c)
  /\ Mishap
  /\ job' = [job EXCEPT ![c].todo = @ \ {job[c].heir}, ![c].heir = None,
                        ![c].bucket = 1, ![c].count = 0]
  /\ Goto(c, "migrate")
  /\ UNCHANGED <<clock, series, stored, begun, writing, term,
                 logHistory, pointHistory>>

----------------------------------------------------------------------------
(* The two saves at the end of a cycle.                                    *)

\* Other cycles that have read what this save replaces.
MarkStale(c) == [d \in Cycles |-> IF d # c /\ pc[d] \in HasRead
                                  THEN [job[d] EXCEPT !.stale = TRUE] ELSE job[d]]

Overwrites(c) == job[c].blind \/ job[c].stale

\* The changelog has entries younger than the cycle.
Late(c) == \E x \in Known(changelog) : changelog[x].added > job[c].at

SaveChangelog(c) ==
  /\ pc[c] = "migrate" /\ Runs(c)
  /\ job[c].todo = {} /\ job[c].heir = None
  /\ \E log \in StoredLogs(job[c].log, job[c].at) :
       /\ changelog' = log
       /\ catalogued' = catalogued \cup Known(log)
       /\ exposed' = (exposed \cup (Known(job[c].log) \ Known(log))
                       \cup (IF Overwrites(c) THEN Known(changelog) \cup Known(archive)
                             ELSE {})) \ Known(log)
       /\ undated' = undated \cup (IF Overwrites(c) THEN Inherited(log) ELSE {})
  /\ IF job[c].removed = {}
     THEN Leave(c) /\ job' = [MarkStale(c) EXCEPT ![c] = NoJob]
     ELSE Goto(c, "saveArchive") /\ job' = MarkStale(c) /\ UNCHANGED <<writing, overlapped>>
  /\ UNCHANGED <<clock, series, mapping, archive, begun, term, mishaps, pointHistory>>

SaveArchive(c) ==
  /\ pc[c] = "saveArchive" /\ Runs(c)
  /\ archive' = StoredArchive(job[c].arch)
  /\ exposed' = (exposed \cup (IF Overwrites(c) THEN Known(archive) ELSE {}))
                 \ Known(job[c].arch)
  /\ undated' = IF Overwrites(c) \/ Late(c) THEN undated \cup Known(archive) \cup job[c].removed
                ELSE undated \ job[c].removed
  /\ Leave(c)
  /\ job' = [MarkStale(c) EXCEPT ![c] = NoJob]
  /\ UNCHANGED <<clock, series, mapping, changelog, begun, term, mishaps,
                 catalogued, pointHistory>>

\* The ids a cycle has taken out of the changelog and not yet archived.
InHand(c) == IF pc[c] = "saveArchive" THEN job[c].removed ELSE {}

\* A download, a write or a save fails; the exception ends the cycle.
CycleFails(c) ==
  /\ pc[c] \in {"points", "mapping", "changelog", "migrate", "saveArchive"} /\ Runs(c)
  /\ pc[c] = "migrate" => job[c].todo = {}
  /\ Mishap
  /\ exposed' = exposed \cup InHand(c) /\ undated' = undated \cup InHand(c)
  /\ Leave(c) /\ job' = [job EXCEPT ![c] = NoJob]
  /\ UNCHANGED <<clock, series, stored, begun, term, catalogued, pointHistory>>

----------------------------------------------------------------------------
(* The signal handler, and the end of the process.                         *)

\* handle_shutdown: the wait for the flag is skipped when it is clear.
Signal ==
  /\ term = "none" /\ mishaps < setting.mishaps
  /\ term' = IF writing THEN "waiting" ELSE "cleared"
  /\ UNCHANGED <<clock, series, stored, pc, job, begun, writing, mishaps,
                 logHistory, pointHistory>>

\* The flag is found clear, or 30 seconds are over.
WaitEnds ==
  /\ term = "waiting"
  /\ \/ ~writing /\ term' = "cleared"
     \/ writing /\ term' = "timed out"
  /\ UNCHANGED <<clock, series, stored, pc, job, begun, writing, mishaps,
                 logHistory, pointHistory>>

\* sys.exit after the coordinator's shutdown, or a crash at any point; the
\* files outlive the process.
Restart ==
  /\ Mishap
  /\ LET cutOff == UNION {InHand(c) : c \in Cycles}
     IN exposed' = exposed \cup cutOff /\ undated' = undated \cup cutOff
  /\ pc' = [c \in Cycles |-> "idle"] /\ job' = [c \in Cycles |-> NoJob]
  /\ begun' = [c \in Cycles |-> None]
  /\ writing' = FALSE /\ term' = "none" /\ overlapped' = FALSE
  /\ UNCHANGED <<clock, series, stored, catalogued, pointHistory>>

Cycle(c) ==
  \/ Begin(c) \/ WritePoints(c) \/ SaveMapping(c)
  \/ ReadChangelog(c) \/ ReadArchive(c)
  \/ RefuseMigration(c) \/ CountPoints(c) \/ RetagPoints(c)
  \/ VerifyAndDelete(c) \/ MigrationRaises(c)
  \/ SaveChangelog(c) \/ SaveArchive(c) \/ CycleFails(c)

Next == Tick \/ (\E c \in Cycles : Cycle(c)) \/ Signal \/ WaitEnds \/ Restart

Spec == Init /\ [][Next]_vars

----------------------------------------------------------------------------
(* Properties.                                                             *)

TypeOK ==
  /\ setting \in Settings /\ now \in Times /\ reported \in [Times -> SUBSET Ids]
  /\ series \in [Buckets -> [Ids -> SUBSET Points]]
  /\ mapping \subseteq Ids
  /\ changelog \in [Ids -> Entry \cup {None}]
  /\ archive \in [Ids -> Record \cup {None}]
  /\ pc \in [Cycles -> Critical \cup {"idle", "points", "mapping"}]
  /\ job \in [Cycles -> [fresh : SUBSET Ids, at : Times,
                         log : [Ids -> Entry \cup {None}],
                         arch : [Ids -> Record \cup {None}],
                         removed : SUBSET Ids, todo : SUBSET Ids,
                         heir : Ids \cup {None}, bucket : Buckets, count : Nat,
                         blind : BOOLEAN, stale : BOOLEAN]]
  /\ begun \in [Cycles -> Times \cup {None}]
  /\ writing \in BOOLEAN /\ term \in {"none", "waiting", "cleared", "timed out"}
  /\ mishaps \in 0..MaxMishaps
  /\ catalogued \subseteq Ids /\ exposed \subseteq Ids /\ undated \subseteq Ids
  /\ overlapped \in BOOLEAN
  /\ written \subseteq Points /\ suspect \subseteq Ids /\ residual \subseteq Ids

\* A segment id that was ever catalogued is in the changelog, in the archive
\* or in the hands of a cycle between its two saves, unless one of four
\* things happened to it: a cycle was cut off between the saves, it saved
\* over what another had saved since it read, it had read an unreadable file
\* as empty, or SQLite's retention deleted it.  "Moves removed segments to an
\* archive", FcdUtils.py:465.
NothingForgotten ==
  \A x \in catalogued :
    \/ x \in Known(changelog) \cup Known(archive) \cup exposed
    \/ \E c \in Cycles : x \in InHand(c)

\* A point that was written is under some tag of the FCD bucket, unless its
\* series was migrated while another cycle wrote, two points met at one time
\* under one tag, or an incomplete copy hid behind points the new id had.
PointsKept ==
  \A p \in written : p[1] \in suspect \/ \E x \in Ids : p \in series[1][x]

\* An entry marked as migrated has left nothing under its origin in any
\* bucket, unless the count did not match or the origin was written later.
MarkedMeansMoved ==
  \A x \in Known(changelog) :
    changelog[x].migrated =>
      \/ changelog[x].from \in residual
      \/ \A b \in Buckets : series[b][changelog[x].from] = {}

\* Of two live entries with the same origin that came in different cycles, the
\* second inherited a series the origin had collected in between: it was in
\* the mapping again and was archived once more, unless its last removal is
\* not dated by the archive: cut off between the saves, saved over, or made by
\* a cycle older than entries it found.  The guard of
\* _collect_lookback_candidates lets no retired series be inherited twice.
InheritedOnce ==
  \A x, y \in Known(changelog) :
    (changelog[x].from = changelog[y].from /\ changelog[x].from # None
       /\ changelog[x].added < changelog[y].added) =>
      LET o == changelog[x].from
      IN  \/ o \in undated \/ \E c \in Cycles : o \in InHand(c)
          \/ archive[o] # None /\ archive[o].at > changelog[x].added

\* In the JSON backend no save takes an inheritance or a migration mark back,
\* except one made over another cycle's save or after an unreadable file.
InheritanceKept ==
  [][\A x \in Known(changelog) \cap Known(changelog') :
       \/ changelog[x].from = None
       \/ /\ changelog'[x].from = changelog[x].from
          /\ changelog[x].migrated => changelog'[x].migrated
       \/ backend = "sqlite"
       \/ \E c \in Cycles : pc'[c] # pc[c] /\ Overwrites(c)]_vars

\* When the handler finds the flag clear no cycle is updating the changelog,
\* unless the two cycles' updates overlapped: the first to end clears the
\* flag of both.
HandlerWaits ==
  [][(term # "cleared" /\ term' = "cleared") => InCritical = {} \/ overlapped]_vars

=============================================================================
