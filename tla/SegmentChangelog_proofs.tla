----------------------- MODULE SegmentChangelog_proofs -----------------------
(***************************************************************************)
(* Proofs about the real-time cycles: the flag the signal handler waits    *)
(* for, that no catalogued id is forgotten and no inheritance taken back,  *)
(* that what is marked as migrated has moved, that migrations lose no      *)
(* point, and that a series is inherited once.                             *)
(***************************************************************************)
EXTENDS SegmentChangelog, FiniteSetTheorems, TLAPS

Logs == [Ids -> Entry \cup {None}]
Archives == [Ids -> Record \cup {None}]
Jobs == [fresh : SUBSET Ids, at : Times, log : Logs, arch : Archives,
         removed : SUBSET Ids, todo : SUBSET Ids, heir : Ids \cup {None},
         bucket : Buckets, count : Nat, blind : BOOLEAN, stale : BOOLEAN]
Places == Critical \cup {"idle", "points", "mapping"}

-----------------------------------------------------------------------------
(* The flag and the signal handler.                                        *)

PcType == pc \in [Cycles -> Places]

\* Two cycles inside the update are known to have overlapped, and one alone
\* has the flag set unless another one that overlapped it has cleared it.
FlagInv ==
  /\ PcType
  /\ \A c, d \in InCritical : c = d \/ overlapped
  /\ InCritical # {} => writing \/ overlapped

LEMMA InCriticalElsewhere ==
  ASSUME PcType, NEW c \in Cycles, NEW p \in Places, Goto(c, p)
  PROVE  /\ PcType'
         /\ p \in Critical => InCritical' = InCritical \cup {c}
         /\ p \notin Critical => InCritical' = InCritical \ {c}
BY DEF PcType, Goto, InCritical

LEMMA FlagInductive ==
  /\ Init => FlagInv
  /\ FlagInv /\ [Next]_vars => FlagInv'
<1>1. Init => FlagInv
  BY DEF Init, FlagInv, PcType, InCritical, Critical, Places
<1>2. ASSUME FlagInv, [Next]_vars PROVE FlagInv'
  <2> USE <1>2
  <2>0. PcType
    BY DEF FlagInv
  <2>1. ASSUME UNCHANGED <<pc, writing, overlapped>> PROVE FlagInv'
    BY <2>1 DEF FlagInv, PcType, InCritical
  <2>2. ASSUME NEW c \in Cycles, NEW p \in Places, Goto(c, p), p \in Critical => pc[c] \in Critical,
               UNCHANGED <<writing, overlapped>>
        PROVE  FlagInv'
    <3>1. PcType' /\ InCritical' \subseteq InCritical
      BY <2>0, <2>2, InCriticalElsewhere DEF InCritical
    <3> QED BY <2>2, <3>1 DEF FlagInv
  <2>3. ASSUME NEW c \in Cycles, Leave(c) PROVE FlagInv'
    <3>1. PcType' /\ InCritical' = InCritical \ {c}
      BY <2>0, <2>3, InCriticalElsewhere DEF Leave, Critical, Places
    <3>2. c \notin InCritical <=> pc[c] \notin Critical
      BY DEF InCritical
    <3> QED BY <2>3, <3>1, <3>2 DEF Leave, FlagInv
  <2>4. ASSUME NEW c \in Cycles, SaveMapping(c) PROVE FlagInv'
    <3>1. PcType' /\ InCritical' = InCritical \cup {c}
      BY <2>0, <2>4, InCriticalElsewhere DEF SaveMapping, Critical, Places
    <3>2. EnterUpdate
      BY <2>4 DEF SaveMapping
    <3> QED BY <3>1, <3>2 DEF EnterUpdate, FlagInv
  <2>5. ASSUME NEW c \in Cycles, Cycle(c) PROVE FlagInv'
    <3> USE DEF logHistory, Critical, Places
    <3>1. CASE Begin(c)
      BY <2>2, <3>1 DEF Begin
    <3>2. CASE WritePoints(c)
      BY <2>2, <3>2 DEF WritePoints
    <3>3. CASE SaveMapping(c)
      BY <2>4, <3>3
    <3>4. CASE ReadChangelog(c)
      BY <2>2, <3>4 DEF ReadChangelog
    <3>5. CASE ReadArchive(c)
      BY <2>2, <3>5 DEF ReadArchive
    <3>6. CASE RefuseMigration(c)
      BY <2>1, <3>6 DEF RefuseMigration
    <3>7. CASE CountPoints(c)
      <4>1. UNCHANGED pc \/ Goto(c, "retag")
        BY <3>7 DEF CountPoints
      <4>2. pc[c] = "migrate" /\ UNCHANGED <<writing, overlapped>>
        BY <3>7 DEF CountPoints
      <4> QED BY <2>1, <2>2, <4>1, <4>2
    <3>8. CASE RetagPoints(c)
      BY <2>2, <3>8 DEF RetagPoints
    <3>9. CASE VerifyAndDelete(c)
      BY <2>2, <3>9 DEF VerifyAndDelete
    <3>10. CASE MigrationRaises(c)
      BY <2>2, <3>10 DEF MigrationRaises
    <3>11. CASE SaveChangelog(c)
      <4>1. \/ Leave(c)
            \/ Goto(c, "saveArchive") /\ UNCHANGED <<writing, overlapped>>
        BY <3>11 DEF SaveChangelog
      <4>2. pc[c] = "migrate"
        BY <3>11 DEF SaveChangelog
      <4> QED BY <2>2, <2>3, <4>1, <4>2
    <3>12. CASE SaveArchive(c)
      BY <2>3, <3>12 DEF SaveArchive
    <3>13. CASE CycleFails(c)
      BY <2>3, <3>13 DEF CycleFails
    <3> QED BY <2>5, <3>1, <3>2, <3>3, <3>4, <3>5, <3>6, <3>7, <3>8, <3>9, <3>10, <3>11, <3>12,
               <3>13 DEF Cycle
  <2>6. CASE Tick \/ Signal \/ WaitEnds \/ UNCHANGED vars
    BY <2>1, <2>6 DEF Tick, Signal, WaitEnds, vars, logHistory
  <2>7. CASE Restart
    BY <2>7 DEF Restart, FlagInv, PcType, InCritical, Critical, Places
  <2> QED BY <2>5, <2>6, <2>7 DEF Next
<1> QED BY <1>1, <1>2

\* When the handler finds the flag clear no cycle is updating the changelog,
\* unless the updates of two cycles overlapped.
THEOREM HandlerWaitsForUpdate == Spec => HandlerWaits
<1>1. FlagInv /\ [Next]_vars =>
        [(term # "cleared" /\ term' = "cleared") => InCritical = {} \/ overlapped]_vars
  <2> SUFFICES ASSUME FlagInv, Next, term # "cleared", term' = "cleared"
               PROVE  InCritical = {} \/ overlapped
    BY DEF vars
  <2>1. CASE Signal \/ WaitEnds
    BY <2>1 DEF Signal, WaitEnds, FlagInv
  <2>2. ASSUME NEW c \in Cycles, Cycle(c) PROVE term' = term
    BY <2>2 DEF Cycle, Begin, WritePoints, SaveMapping, ReadChangelog, ReadArchive,
       RefuseMigration, CountPoints, RetagPoints, VerifyAndDelete, MigrationRaises, SaveChangelog,
       SaveArchive, CycleFails
  <2>3. CASE Tick \/ Restart
    BY <2>3 DEF Tick, Restart
  <2> QED BY <2>1, <2>2, <2>3 DEF Next
<1> QED BY <1>1, FlagInductive, PTL DEF Spec, HandlerWaits

-----------------------------------------------------------------------------
(* What the operators on changelogs, archives and jobs return.             *)

\* The changelog that is computed holds exactly the ids of the mapping.
LEMMA NextLogKnown ==
  ASSUME NEW log \in Logs, NEW fresh \in SUBSET Ids, NEW t \in Times
  PROVE  NextLog(log, fresh, t) \in Logs /\ Known(NextLog(log, fresh, t)) = fresh
<1>1. NewEntry(t) \in Entry
  BY DEF NewEntry, Entry
<1>2. \A x \in Ids : log[x] \in Entry \cup {None}
  BY DEF Logs
<1>3. \A x \in Ids : /\ NextLog(log, fresh, t)[x] \in Entry \cup {None}
                     /\ NextLog(log, fresh, t)[x] # None <=> x \in fresh
  BY <1>1, <1>2, ChangelogAssumption DEF NextLog
<1>4. NextLog(log, fresh, t) \in Logs
  BY <1>3 DEF NextLog, Logs
<1> QED BY <1>3, <1>4 DEF Known

\* The archive only grows, by the ids that were removed.
LEMMA NextArchiveKnown ==
  ASSUME NEW log \in Logs, NEW arch \in Archives, NEW fresh \in SUBSET Ids, NEW t \in Times
  PROVE  /\ NextArchive(log, arch, fresh, t) \in Archives
         /\ Known(NextArchive(log, arch, fresh, t)) = Known(arch) \cup Removed(log, fresh)
<1>1. [at |-> t, geometry |-> TRUE] \in Record
  BY DEF Record
<1>2. Removed(log, fresh) \subseteq Ids
  BY DEF Removed, Known
<1>3. \A x \in Ids : /\ NextArchive(log, arch, fresh, t)[x] \in Record \cup {None}
                     /\ NextArchive(log, arch, fresh, t)[x] # None
                          <=> x \in Removed(log, fresh) \/ arch[x] # None
  BY <1>1, ChangelogAssumption DEF NextArchive, Archives
<1>4. NextArchive(log, arch, fresh, t) \in Archives
  BY <1>3 DEF NextArchive, Archives
<1> QED BY <1>2, <1>3, <1>4 DEF Known

\* Inheritance changes entries and adds none.
LEMMA InheritKnown ==
  ASSUME NEW log \in Logs, NEW new \in SUBSET Known(log), NEW m \in [new -> Ids \cup {None}]
  PROVE  Inherit(log, m) \in Logs /\ Known(Inherit(log, m)) = Known(log)
<1>1. \A x \in new : log[x] \in Entry
  BY DEF Known, Logs
<1>2. \A x \in new : [log[x] EXCEPT !.from = m[x]] \in Entry
  BY <1>1 DEF Entry
<1>3. \A x \in Ids : /\ Inherit(log, m)[x] \in Entry \cup {None}
                     /\ Inherit(log, m)[x] # None <=> log[x] # None
  BY <1>1, <1>2, ChangelogAssumption DEF Inherit, Logs
<1>4. Inherit(log, m) \in Logs
  BY <1>3 DEF Inherit, Logs
<1> QED BY <1>3, <1>4 DEF Known

\* Pending entries name an origin.
LEMMA PendingOrigin ==
  ASSUME NEW log \in Logs, NEW x \in Pending(log)
  PROVE  x \in Known(log) /\ log[x] \in Entry /\ log[x].from \in Ids
<1>1. x \in Known(log) /\ log[x].from # None /\ x \in Ids /\ log[x] # None
  BY DEF Pending, Known
<1>2. log[x] \in Entry
  BY <1>1 DEF Logs
<1> QED BY <1>1, <1>2 DEF Entry

\* Every migration of a job, the one under way too, has an origin.
HeirOK(j) ==
  /\ \A x \in j.todo : x \in Known(j.log) /\ j.log[x].from \in Ids
  /\ j.heir # None => j.heir \in Known(j.log) /\ j.log[j.heir].from \in Ids

\* What old says of the origins of entries that both hold is said by new.
Continues(old, new) ==
  \A x \in Known(old) \cap Known(new) :
    \/ old[x].from = None
    \/ new[x].from = old[x].from /\ (old[x].migrated => new[x].migrated)

\* Entries that stay in the mapping keep their origins and marks.
LEMMA ProcessedContinues ==
  ASSUME NEW log \in Logs, NEW fresh \in SUBSET Ids, NEW t \in Times,
         NEW m, DOMAIN m = Added(log, fresh)
  PROVE  Continues(log, Inherit(NextLog(log, fresh, t), m))
<1> SUFFICES ASSUME NEW x \in Known(log), x \in Known(Inherit(NextLog(log, fresh, t), m))
             PROVE  Inherit(NextLog(log, fresh, t), m)[x] = log[x]
  BY DEF Continues
<1>1. x \in Ids /\ x \notin DOMAIN m /\ log[x] # None
  BY DEF Known, Added
<1>2. Inherit(NextLog(log, fresh, t), m)[x] = NextLog(log, fresh, t)[x]
  BY <1>1 DEF Inherit
<1>3. NextLog(log, fresh, t)[x] # None
  BY <1>2 DEF Known
<1> QED BY <1>1, <1>2, <1>3 DEF NextLog

LEMMA ContinuesOn ==
  ASSUME NEW a, NEW b, NEW d, Known(d) = Known(b), Continues(a, b), Continues(b, d)
  PROVE  Continues(a, d)
BY DEF Continues

\* The origins a changelog names are ids.
LEMMA InheritedIds == \A log \in Logs : Inherited(log) \subseteq Ids
<1> SUFFICES ASSUME NEW log \in Logs, NEW x \in Known(log) PROVE log[x].from \in Ids \cup {None}
  BY DEF Inherited
<1>1. log[x] \in Entry
  BY DEF Known, Logs
<1> QED BY <1>1 DEF Entry

\* What a cycle has computed from the archive it read.
LEMMA ProcessedOK ==
  ASSUME NEW c \in Cycles, job[c] \in Jobs, job[c].heir = None, NEW arch \in Archives,
         NEW j \in Processed(c, arch)
  PROVE  /\ j \in Jobs /\ HeirOK(j)
         /\ Known(j.log) = job[c].fresh
         /\ j.removed = Known(job[c].log) \ job[c].fresh
         /\ Known(j.arch) = Known(arch) \cup j.removed
         /\ j.blind = job[c].blind /\ j.stale = job[c].stale
         /\ Continues(job[c].log, j.log)
<1> DEFINE k == job[c]
           gone == Removed(k.log, k.fresh)
           new == Added(k.log, k.fresh)
           log == NextLog(k.log, k.fresh, k.at)
           all == NextArchive(k.log, arch, k.fresh, k.at)
           old == IF gone = {} /\ Lookback = None THEN {}
                  ELSE gone \cup Recent(log, all, gone, k.at)
<1>0. k.log \in Logs /\ k.fresh \in SUBSET Ids /\ k.at \in Times
  BY DEF Jobs
<1>1. PICK m \in Matches(new, old) :
        j = [k EXCEPT !.log = Inherit(log, m), !.arch = all, !.removed = gone,
                      !.todo = Pending(Inherit(log, m))]
  BY DEF Processed
<1>2. log \in Logs /\ Known(log) = k.fresh
  BY <1>0, NextLogKnown
<1>3. all \in Archives /\ Known(all) = Known(arch) \cup gone
  BY <1>0, NextArchiveKnown
<1>4. gone \subseteq Ids /\ old \subseteq Ids /\ gone = Known(k.log) \ k.fresh
  BY DEF Removed, Recent, Known
<1>5. new \subseteq Known(log)
  BY <1>2 DEF Added
<1>6. m \in [new -> Ids \cup {None}]
  <2>1. m \in [new -> old \cup {None}]
    BY DEF Matches
  <2> QED BY <2>1, <1>4
<1>7. Inherit(log, m) \in Logs /\ Known(Inherit(log, m)) = k.fresh
  BY <1>2, <1>5, <1>6, InheritKnown
<1>8. /\ Pending(Inherit(log, m)) \subseteq Ids
      /\ \A x \in Pending(Inherit(log, m)) :
           x \in Known(Inherit(log, m)) /\ Inherit(log, m)[x].from \in Ids
  BY <1>7, PendingOrigin DEF Pending, Known
<1>a. Continues(k.log, Inherit(log, m))
  BY <1>0, <1>6, ProcessedContinues
<1> HIDE DEF gone, new, log, all, old
<1>9. j \in Jobs
  BY <1>1, <1>3, <1>4, <1>7, <1>8 DEF Jobs
<1>10. /\ j.log = Inherit(log, m) /\ j.arch = all /\ j.removed = gone
       /\ j.todo = Pending(Inherit(log, m)) /\ j.heir = None
       /\ j.blind = k.blind /\ j.stale = k.stale
  BY <1>1 DEF Jobs
<1> QED BY <1>3, <1>4, <1>7, <1>8, <1>9, <1>10, <1>a DEF HeirOK

\* A bucket that is done leaves the entries where they are.
LEMMA BucketDoneOK ==
  ASSUME NEW j \in Jobs, HeirOK(j), j.heir # None
  PROVE  /\ BucketDone(j) \in Jobs /\ HeirOK(BucketDone(j))
         /\ Known(BucketDone(j).log) = Known(j.log)
         /\ BucketDone(j).removed = j.removed /\ BucketDone(j).arch = j.arch
         /\ BucketDone(j).blind = j.blind /\ BucketDone(j).stale = j.stale
         /\ Continues(j.log, BucketDone(j).log)
<1> DEFINE log == [j.log EXCEPT ![j.heir].migrated = TRUE]
           next == [j EXCEPT !.bucket = @ + 1, !.count = 0]
           last == [j EXCEPT !.log = log, !.todo = @ \ {j.heir}, !.heir = None,
                             !.bucket = 1, !.count = 0]
<1>1. j.log \in Logs /\ j.heir \in Ids /\ j.log[j.heir] \in Entry /\ j.log[j.heir].from \in Ids
  BY DEF Jobs, HeirOK, Known, Logs
<1>2. /\ log \in Logs /\ Known(log) = Known(j.log)
      /\ \A x \in Known(log) : log[x].from = j.log[x].from
      /\ \A x \in Known(log) : j.log[x].migrated => log[x].migrated
  <2>1. /\ [j.log[j.heir] EXCEPT !.migrated = TRUE] \in Entry
        /\ [j.log[j.heir] EXCEPT !.migrated = TRUE].from = j.log[j.heir].from
        /\ [j.log[j.heir] EXCEPT !.migrated = TRUE].migrated
    BY <1>1 DEF Entry
  <2>2. log = [j.log EXCEPT ![j.heir] = [j.log[j.heir] EXCEPT !.migrated = TRUE]]
    OBVIOUS
  <2>3. log \in Logs
    BY <1>1, <2>1, <2>2 DEF Logs
  <2>4. \A x \in Ids : log[x] = IF x = j.heir THEN [j.log[j.heir] EXCEPT !.migrated = TRUE]
                                ELSE j.log[x]
    BY <1>1, <2>2 DEF Logs
  <2>5. \A x \in Ids : log[x] # None <=> j.log[x] # None
    BY <1>1, <2>1, <2>4, ChangelogAssumption
  <2> QED BY <2>1, <2>3, <2>4, <2>5 DEF Known
<1> HIDE DEF log
<1>3. CASE j.bucket + 1 \in Buckets
  <2>1. BucketDone(j) = next
    BY <1>3 DEF BucketDone
  <2>2. next \in Jobs /\ next.log = j.log /\ next.todo = j.todo /\ next.heir = j.heir
    BY <1>3 DEF Jobs
  <2>3. next.removed = j.removed /\ next.arch = j.arch /\ next.blind = j.blind /\ next.stale = j.stale
    BY DEF Jobs
  <2> QED BY <2>1, <2>2, <2>3 DEF HeirOK, Continues
<1>4. CASE j.bucket + 1 \notin Buckets
  <2>1. BucketDone(j) = last
    BY <1>4 DEF BucketDone, log
  <2>2. last \in Jobs
    BY <1>2, ChangelogAssumption DEF Jobs
  <2>3. /\ last.log = log /\ last.todo = j.todo \ {j.heir} /\ last.heir = None
        /\ last.removed = j.removed /\ last.arch = j.arch
        /\ last.blind = j.blind /\ last.stale = j.stale
    BY DEF Jobs
  <2> QED BY <1>2, <2>1, <2>2, <2>3 DEF HeirOK, Continues
<1> QED BY <1>3, <1>4

\* What the repositories keep has the type of what they were given.
LEMMA StoredOK ==
  /\ \A log \in Logs, t \in Times : StoredLogs(log, t) \subseteq Logs
  /\ \A arch \in Archives : StoredArchive(arch) \in Archives
                            /\ Known(StoredArchive(arch)) = Known(arch)
<1>1. ASSUME NEW log \in Logs, NEW t \in Times PROVE StoredLogs(log, t) \subseteq Logs
  <2>1. NewEntry(t) \in Entry
    BY DEF NewEntry, Entry
  <2>2. \A y \in Known(log) : [x \in Ids |-> IF x = y THEN NewEntry(t) ELSE None] \in Logs
    BY <2>1 DEF Logs
  <2> QED BY <2>2 DEF StoredLogs
<1>2. ASSUME NEW arch \in Archives
      PROVE  StoredArchive(arch) \in Archives /\ Known(StoredArchive(arch)) = Known(arch)
  <2> DEFINE bare == [x \in Ids |-> IF arch[x] = None THEN None
                                    ELSE [arch[x] EXCEPT !.geometry = FALSE]]
  <2>1. \A x \in Ids : /\ arch[x] = None => bare[x] = None
                       /\ arch[x] # None => bare[x] \in Record
    <3>1. \A x \in Ids : arch[x] # None => arch[x] \in Record
      BY DEF Archives
    <3>2. \A r \in Record : [r EXCEPT !.geometry = FALSE] \in Record
      BY DEF Record
    <3> QED BY <3>1, <3>2
  <2>2. bare \in Archives
    BY <2>1 DEF Archives
  <2>3. Known(bare) = Known(arch)
    BY <2>1, ChangelogAssumption DEF Known
  <2> QED BY <2>2, <2>3 DEF StoredArchive
<1> QED BY <1>1, <1>2

-----------------------------------------------------------------------------
(* What a cycle knows of the files it has read.                            *)

\* j are the locals of a cycle at p, log and arch the saved files.  A cycle
\* that was not disturbed since it read them has computed an archive with all
\* that is archived or that it takes out of the changelog, and a changelog
\* that continues the saved one.
CycleOK(j, p, log, arch) ==
  /\ HeirOK(j)
  /\ p \in {"idle", "points", "mapping", "changelog", "archive"} => j.heir = None /\ j.todo = {}
  /\ p \in {"retag", "verify"} => j.heir # None
  /\ p = "archive" => j.blind \/ j.stale \/ j.log = log
  /\ p \in {"migrate", "retag", "verify"} =>
       \/ j.blind \/ j.stale
       \/ Known(log) \subseteq Known(j.log) \cup j.removed /\ Continues(log, j.log)
  /\ p \in {"migrate", "retag", "verify", "saveArchive"} =>
       /\ j.removed \subseteq Known(j.arch)
       /\ j.blind \/ j.stale \/ Known(arch) \subseteq Known(j.arch)

CyclesInv ==
  /\ PcType /\ job \in [Cycles -> Jobs]
  /\ \A c \in Cycles : CycleOK(job[c], pc[c], changelog, archive)

FilesType ==
  /\ setting \in Settings /\ now \in Times
  /\ reported \in [Times -> SUBSET Ids] /\ mapping \in SUBSET Ids
  /\ changelog \in Logs /\ archive \in Archives

SeriesType == series \in [Buckets -> [Ids -> SUBSET Points]]

StoreInv == FilesType /\ SeriesType /\ CyclesInv

\* A step of one cycle that leaves the changelog and the archive alone.
LEMMA OwnStep ==
  ASSUME CyclesInv, NEW c \in Cycles, NEW j \in Jobs, NEW p \in Places,
         job' = [job EXCEPT ![c] = j], Goto(c, p), UNCHANGED <<changelog, archive>>,
         CycleOK(j, p, changelog, archive)
  PROVE  CyclesInv'
<1>1. PcType' /\ job' \in [Cycles -> Jobs]
  BY DEF CyclesInv, PcType, Goto
<1>2. \A d \in Cycles : pc'[d] = (IF d = c THEN p ELSE pc[d])
                        /\ job'[d] = (IF d = c THEN j ELSE job[d])
  BY DEF CyclesInv, PcType, Goto
<1>3. \A d \in Cycles : CycleOK(job'[d], pc'[d], changelog, archive)
  BY <1>2 DEF CyclesInv
<1> QED BY <1>1, <1>3 DEF CyclesInv

\* A save marks the others that have read as stale.
LEMMA SaveStep ==
  ASSUME CyclesInv, NEW c \in Cycles, NEW j \in Jobs, NEW p \in Places,
         job' = [MarkStale(c) EXCEPT ![c] = j], Goto(c, p),
         CycleOK(j, p, changelog', archive')
  PROVE  CyclesInv'
<1>1. MarkStale(c) \in [Cycles -> Jobs]
  <2>1. \A d \in Cycles : [job[d] EXCEPT !.stale = TRUE] \in Jobs
    BY DEF CyclesInv, Jobs
  <2> QED BY <2>1 DEF MarkStale, CyclesInv
<1>2. PcType' /\ job' \in [Cycles -> Jobs]
  BY <1>1 DEF CyclesInv, PcType, Goto
<1>3. \A d \in Cycles : pc'[d] = (IF d = c THEN p ELSE pc[d])
                        /\ job'[d] = (IF d = c THEN j ELSE MarkStale(c)[d])
  BY <1>1 DEF CyclesInv, PcType, Goto
<1>4. ASSUME NEW d \in Cycles \ {c} PROVE CycleOK(job'[d], pc'[d], changelog', archive')
  <2>1. pc'[d] = pc[d] /\ CycleOK(job[d], pc[d], changelog, archive)
    BY <1>3 DEF CyclesInv
  <2>2. CASE pc[d] \in HasRead
    <3>1. job'[d] = [job[d] EXCEPT !.stale = TRUE] /\ job[d] \in Jobs
      BY <1>3, <2>2 DEF MarkStale, CyclesInv
    <3>2. /\ job'[d].stale /\ job'[d].log = job[d].log /\ job'[d].todo = job[d].todo
          /\ job'[d].heir = job[d].heir /\ job'[d].removed = job[d].removed
          /\ job'[d].arch = job[d].arch
      BY <3>1 DEF Jobs
    <3> QED BY <2>1, <2>2, <3>2 DEF CycleOK, HeirOK, HasRead
  <2>3. CASE pc[d] \notin HasRead
    <3>1. job'[d] = job[d]
      BY <1>3, <2>3 DEF MarkStale
    <3> QED BY <2>1, <2>3, <3>1 DEF CycleOK, HasRead
  <2> QED BY <2>2, <2>3
<1> QED BY <1>2, <1>3, <1>4 DEF CyclesInv

\* A cycle that has ended knows nothing.
LEMMA NoJobOK ==
  /\ NoJob \in Jobs
  /\ \A log, arch : CycleOK(NoJob, "idle", log, arch)
<1>1. Nothing \in Logs /\ Nothing \in Archives /\ 0 \in Times /\ 1 \in Buckets
  BY ChangelogAssumption DEF Nothing, Logs, Archives, Times
<1>2. NoJob \in Jobs
  BY <1>1 DEF NoJob, Jobs
<1>3. NoJob.todo = {} /\ NoJob.heir = None
  BY DEF NoJob
<1> QED BY <1>2, <1>3 DEF CycleOK, HeirOK

LEMMA StoreInit == Init => StoreInv
<1> SUFFICES ASSUME Init PROVE StoreInv
  OBVIOUS
<1>1. Nothing \in Logs /\ Nothing \in Archives /\ 0 \in Times
  BY ChangelogAssumption DEF Nothing, Logs, Archives, Times
<1>2. FilesType
  <2>1. setting.ids \in SUBSET Ids
    BY ChangelogAssumption DEF Init
  <2>2. reported \in [Times -> SUBSET Ids]
    BY <2>1 DEF Init
  <2> QED BY <1>1, <2>2 DEF Init, FilesType
<1>3. SeriesType
  <2>1. \A x \in reported[0] : x \in Ids
    BY <1>2, <1>1 DEF FilesType
  <2>2. \A x \in reported[0] : {<<x, 0>>} \in SUBSET Points
    BY <1>1, <2>1 DEF Points
  <2> QED BY <2>2 DEF Init, SeriesType
<1>4. CyclesInv
  BY NoJobOK DEF Init, CyclesInv, PcType, Places
<1> QED BY <1>2, <1>3, <1>4 DEF StoreInv

\* One series of a bucket is emptied.
LEMMA EmptiedSeries ==
  ASSUME SeriesType, NEW b, NEW o
  PROVE  /\ [series EXCEPT ![b][o] = {}] \in [Buckets -> [Ids -> SUBSET Points]]
         /\ b \in Buckets /\ o \in Ids => [series EXCEPT ![b][o] = {}][b][o] = {}
<1> DEFINE own == [series[b] EXCEPT ![o] = {}]
<1>1. series \in [Buckets -> [Ids -> SUBSET Points]]
  BY DEF SeriesType
<1>2. {} \in SUBSET Points
  OBVIOUS
<1>3. b \in Buckets => own \in [Ids -> SUBSET Points] /\ (o \in Ids => own[o] = {})
  <2>1. b \in Buckets => series[b] \in [Ids -> SUBSET Points]
    BY <1>1
  <2> QED BY <1>2, <2>1
<1> HIDE DEF own
<1>4. /\ [series EXCEPT ![b] = own] \in [Buckets -> [Ids -> SUBSET Points]]
      /\ b \in Buckets => [series EXCEPT ![b] = own][b] = own
  BY <1>1, <1>3
<1>5. [series EXCEPT ![b][o] = {}] = [series EXCEPT ![b] = own]
  BY DEF own
<1> QED BY <1>3, <1>4, <1>5

\* Only the writes of points and the migrations touch the series.
LEMMA SeriesStep == StoreInv /\ [Next]_vars => SeriesType'
<1> SUFFICES ASSUME StoreInv, [Next]_vars PROVE SeriesType'
  OBVIOUS
<1>0. SeriesType
  BY DEF StoreInv
<1>1. ASSUME UNCHANGED series PROVE SeriesType'
  BY <1>0, <1>1 DEF SeriesType
<1>2. ASSUME NEW c \in Cycles, WritePoints(c) PROVE SeriesType'
  <2>1. \A x \in Ids : Overwrite(series[1][x], {p \in Batch(c) : p[1] = x}) \in SUBSET Points
    <3>1. Batch(c) \subseteq Points
      BY DEF Batch, Points, StoreInv, CyclesInv, Jobs
    <3>2. \A x \in Ids : series[1][x] \in SUBSET Points
      BY <1>0, ChangelogAssumption DEF SeriesType
    <3> QED BY <3>1, <3>2 DEF Overwrite
  <2> QED BY <1>0, <1>2, <2>1, ChangelogAssumption DEF WritePoints, SeriesType
<1>3. ASSUME NEW c \in Cycles, RetagPoints(c) PROVE SeriesType'
  <2>1. /\ job[c] \in Jobs /\ job[c].heir \in Ids /\ job[c].bucket \in Buckets
        /\ job[c].log[job[c].heir].from \in Ids
    BY <1>3 DEF RetagPoints, StoreInv, CyclesInv, CycleOK, HeirOK, Jobs
  <2>2. PICK copied \in SUBSET Source(job[c]) :
          series' = [series EXCEPT ![job[c].bucket][job[c].heir] = Overwrite(@, copied)]
    BY <1>3 DEF RetagPoints
  <2>3. copied \in SUBSET Points /\ series[job[c].bucket][job[c].heir] \in SUBSET Points
    BY <1>0, <2>1 DEF Source, SeriesType
  <2>4. Overwrite(series[job[c].bucket][job[c].heir], copied) \in SUBSET Points
    BY <2>3 DEF Overwrite
  <2> QED BY <1>0, <2>1, <2>2, <2>4 DEF SeriesType
<1>4. ASSUME NEW c \in Cycles, VerifyAndDelete(c) PROVE SeriesType'
  <2>1. UNCHANGED series \/ series' = [series EXCEPT ![job[c].bucket][Origin(c)] = {}]
    BY <1>4 DEF VerifyAndDelete
  <2>2. CASE UNCHANGED series
    BY <1>1, <2>2
  <2>3. CASE series' = [series EXCEPT ![job[c].bucket][Origin(c)] = {}]
    BY <1>0, <2>3, EmptiedSeries DEF SeriesType
  <2> QED BY <2>1, <2>2, <2>3
<1>5. ASSUME NEW c \in Cycles,
             \/ Begin(c) \/ SaveMapping(c) \/ ReadChangelog(c) \/ ReadArchive(c)
             \/ RefuseMigration(c) \/ CountPoints(c) \/ MigrationRaises(c)
             \/ SaveChangelog(c) \/ SaveArchive(c) \/ CycleFails(c)
      PROVE  SeriesType'
  BY <1>1, <1>5 DEF Begin, SaveMapping, ReadChangelog, ReadArchive, RefuseMigration, CountPoints,
     MigrationRaises, SaveChangelog, SaveArchive, CycleFails
<1>6. CASE Tick \/ Signal \/ WaitEnds \/ Restart \/ UNCHANGED vars
  BY <1>1, <1>6 DEF Tick, Signal, WaitEnds, Restart, vars
<1> QED BY <1>2, <1>3, <1>4, <1>5, <1>6 DEF Next, Cycle

\* A series is finite, so that its points can be counted.
LEMMA PointsFinite ==
  ASSUME SeriesType
  PROVE  \A b \in Buckets, x \in Ids : IsFiniteSet(series[b][x])
<1>0. MaxTime \in Nat /\ IsFiniteSet(Ids)
  BY ChangelogAssumption
<1>a. 0 \in Int /\ MaxTime \in Int
  BY <1>0
<1>b. IsFiniteSet(0..MaxTime)
  BY <1>a, FS_Interval
<1>1. IsFiniteSet(Ids) /\ IsFiniteSet(Times)
  BY <1>0, <1>b DEF Times
<1>2. IsFiniteSet(Points)
  BY <1>1, FS_Product DEF Points
<1>3. \A b \in Buckets, x \in Ids : series[b][x] \in SUBSET Points
  BY DEF SeriesType
<1> QED BY <1>2, <1>3, FS_Subset

LEMMA SourceFinite ==
  ASSUME SeriesType, NEW j \in Jobs, NEW x \in Ids, j.log[x].from \in Ids
  PROVE  Cardinality(series[j.bucket][j.log[x].from]) \in Nat
<1>1. j.bucket \in Buckets
  BY DEF Jobs
<1> QED BY <1>1, PointsFinite, FS_CardinalityType

\* The steps of a cycle before and between the saves.
LEMMA WorkStep ==
  ASSUME StoreInv, NEW c \in Cycles,
         \/ Begin(c) \/ WritePoints(c) \/ SaveMapping(c) \/ ReadChangelog(c) \/ ReadArchive(c)
         \/ RefuseMigration(c) \/ CountPoints(c) \/ RetagPoints(c) \/ VerifyAndDelete(c)
         \/ MigrationRaises(c)
  PROVE  FilesType' /\ CyclesInv'
<1> DEFINE k == job[c]
<1>0. /\ CyclesInv /\ FilesType /\ SeriesType /\ k \in Jobs /\ job \in [Cycles -> Jobs] /\ PcType
      /\ CycleOK(k, pc[c], changelog, archive)
  BY DEF StoreInv, CyclesInv
<1>1. ASSUME UNCHANGED <<clock, mapping, changelog, archive>> PROVE FilesType'
  BY <1>0, <1>1 DEF FilesType, clock
<1>2. job = [job EXCEPT ![c] = k]
  BY <1>0
<1> USE DEF stored, Places, Critical
<1>3. CASE Begin(c)
  <2>1. PICK fresh \in SUBSET Ids : job' = [job EXCEPT ![c].fresh = fresh, ![c].at = now]
    <3>1. UNION {reported[t] : t \in {u \in Times : u <= now /\ now <= u + Window}} \in SUBSET Ids
      BY <1>0 DEF FilesType
    <3> QED BY <1>3, <3>1 DEF Begin
  <2> DEFINE j == [k EXCEPT !.fresh = fresh, !.at = now]
  <2>2. job' = [job EXCEPT ![c] = j] /\ Goto(c, "points") /\ pc[c] = "idle"
    BY <1>0, <1>3, <2>1 DEF Begin
  <2>3. j \in Jobs /\ j.heir = k.heir /\ j.todo = k.todo /\ j.log = k.log
    BY <1>0 DEF Jobs, FilesType
  <2>4. CycleOK(j, "points", changelog, archive)
    BY <1>0, <2>2, <2>3 DEF CycleOK, HeirOK
  <2>5. UNCHANGED <<clock, mapping, changelog, archive>>
    BY <1>3 DEF Begin
  <2> QED BY <1>0, <1>1, <2>2, <2>3, <2>4, <2>5, OwnStep
<1>4. CASE WritePoints(c) \/ SaveMapping(c)
  <2>1. PICK p \in {"mapping", "changelog"} : Goto(c, p)
    BY <1>4 DEF WritePoints, SaveMapping
  <2>2. pc[c] \in {"points", "mapping"} /\ UNCHANGED <<clock, changelog, archive, job>>
    BY <1>4 DEF WritePoints, SaveMapping
  <2>3. CycleOK(k, p, changelog, archive)
    BY <1>0, <2>2 DEF CycleOK
  <2>4. FilesType'
    <3>1. mapping' \in SUBSET Ids
      BY <1>0, <1>4 DEF WritePoints, SaveMapping, FilesType, Jobs
    <3> QED BY <1>0, <2>2, <3>1 DEF FilesType, clock
  <2> QED BY <1>0, <1>2, <2>1, <2>2, <2>3, <2>4, OwnStep
<1>5. CASE ReadChangelog(c)
  <2>1. PICK j \in Jobs : /\ job' = [job EXCEPT ![c] = j]
                          /\ j.todo = k.todo /\ j.heir = k.heir
                          /\ j.blind \/ j.log = changelog
    <3>1. CASE job' = [job EXCEPT ![c].fresh = mapping, ![c].log = changelog]
      <4> DEFINE j == [k EXCEPT !.fresh = mapping, !.log = changelog]
      <4>1. j \in Jobs /\ j.todo = k.todo /\ j.heir = k.heir /\ j.log = changelog
        BY <1>0 DEF Jobs, FilesType
      <4>2. job' = [job EXCEPT ![c] = j]
        BY <1>0, <3>1
      <4> QED BY <4>1, <4>2
    <3>2. CASE job' = [job EXCEPT ![c].fresh = mapping, ![c].blind = TRUE]
      <4> DEFINE j == [k EXCEPT !.fresh = mapping, !.blind = TRUE]
      <4>1. j \in Jobs /\ j.todo = k.todo /\ j.heir = k.heir /\ j.blind
        BY <1>0 DEF Jobs, FilesType
      <4>2. job' = [job EXCEPT ![c] = j]
        BY <1>0, <3>2
      <4> QED BY <4>1, <4>2
    <3> QED BY <1>5, <3>1, <3>2 DEF ReadChangelog
  <2>2. Goto(c, "archive") /\ pc[c] = "changelog" /\ UNCHANGED <<clock, mapping, changelog, archive>>
    BY <1>5 DEF ReadChangelog
  <2>3. CycleOK(j, "archive", changelog, archive)
    BY <1>0, <2>1, <2>2 DEF CycleOK, HeirOK
  <2> QED BY <1>0, <1>1, <2>1, <2>2, <2>3, OwnStep
<1>6. CASE ReadArchive(c)
  <2>1. /\ Goto(c, "migrate") /\ pc[c] = "archive" /\ k.heir = None
        /\ UNCHANGED <<clock, mapping, changelog, archive>>
    BY <1>0, <1>6 DEF ReadArchive, CycleOK
  <2>2. CASE \E j \in Processed(c, archive) : job' = [job EXCEPT ![c] = j]
    <3>1. PICK j \in Processed(c, archive) : job' = [job EXCEPT ![c] = j]
      BY <2>2
    <3>2. /\ j \in Jobs /\ HeirOK(j) /\ Known(j.log) = k.fresh
          /\ j.removed = Known(k.log) \ k.fresh
          /\ Known(j.arch) = Known(archive) \cup j.removed
          /\ j.blind = k.blind /\ j.stale = k.stale
          /\ Continues(k.log, j.log)
      BY <1>0, <2>1, ProcessedOK DEF FilesType
    <3>3. CycleOK(j, "migrate", changelog, archive)
      BY <1>0, <2>1, <3>2 DEF CycleOK
    <3> QED BY <1>0, <1>1, <2>1, <3>1, <3>2, <3>3, OwnStep
  <2>3. CASE \E j \in Processed(c, Nothing) : job' = [job EXCEPT ![c] = [j EXCEPT !.blind = TRUE]]
    <3>1. PICK i \in Processed(c, Nothing) : job' = [job EXCEPT ![c] = [i EXCEPT !.blind = TRUE]]
      BY <2>3
    <3>2. Nothing \in Archives
      BY DEF Nothing, Archives
    <3>3. i \in Jobs /\ HeirOK(i) /\ i.removed \subseteq Known(i.arch)
      BY <1>0, <2>1, <3>2, ProcessedOK
    <3> DEFINE j == [i EXCEPT !.blind = TRUE]
    <3>4. /\ j \in Jobs /\ j.blind /\ j.todo = i.todo /\ j.heir = i.heir /\ j.log = i.log
          /\ j.removed = i.removed /\ j.arch = i.arch
      BY <3>3 DEF Jobs
    <3>5. CycleOK(j, "migrate", changelog, archive)
      BY <3>3, <3>4 DEF CycleOK, HeirOK
    <3> HIDE DEF j
    <3>6. job' = [job EXCEPT ![c] = j]
      BY <3>1 DEF j
    <3> QED BY <1>0, <1>1, <2>1, <3>4, <3>5, <3>6, OwnStep
  <2> QED BY <1>6, <2>2, <2>3 DEF ReadArchive
<1>7. CASE RefuseMigration(c)
  <2>1. PICK x : job' = [job EXCEPT ![c].todo = @ \ {x}]
    BY <1>7 DEF RefuseMigration
  <2> DEFINE j == [k EXCEPT !.todo = @ \ {x}]
  <2>2. job' = [job EXCEPT ![c] = j]
    BY <1>0, <2>1
  <2>3. Goto(c, "migrate") /\ pc[c] = "migrate" /\ UNCHANGED <<clock, mapping, changelog, archive>>
    BY <1>0, <1>7 DEF RefuseMigration, Goto, PcType
  <2>4. /\ j \in Jobs /\ j.todo \subseteq k.todo /\ j.heir = k.heir /\ j.log = k.log
        /\ j.removed = k.removed /\ j.arch = k.arch /\ j.blind = k.blind /\ j.stale = k.stale
    BY <1>0 DEF Jobs
  <2>5. CycleOK(j, "migrate", changelog, archive)
    BY <1>0, <2>3, <2>4 DEF CycleOK, HeirOK
  <2> HIDE DEF j
  <2> QED BY <1>0, <1>1, <2>2, <2>3, <2>4, <2>5, OwnStep
<1>8. CASE CountPoints(c)
  <2>1. PICK x \in IF k.heir = None THEN k.todo ELSE {k.heir} :
          LET j == [k EXCEPT !.heir = x]
          IN IF Source(j) = {}
             THEN job' = [job EXCEPT ![c] = BucketDone(j)] /\ UNCHANGED pc
             ELSE /\ job' = [job EXCEPT ![c] = [j EXCEPT !.count = Cardinality(Source(j))]]
                  /\ Goto(c, "retag")
    BY <1>8 DEF CountPoints
  <2> DEFINE j == [k EXCEPT !.heir = x]
             n == [j EXCEPT !.count = Cardinality(Source(j))]
  <2>2. pc[c] = "migrate" /\ UNCHANGED <<clock, mapping, changelog, archive>>
    BY <1>8 DEF CountPoints
  <2>3. x \in Known(k.log) /\ k.log[x].from \in Ids /\ x \in Ids /\ x # None
    BY <1>0, <2>1, ChangelogAssumption DEF CycleOK, HeirOK, Known
  <2>4. /\ j \in Jobs /\ j.todo = k.todo /\ j.heir = x /\ j.log = k.log
        /\ j.removed = k.removed /\ j.arch = k.arch /\ j.blind = k.blind /\ j.stale = k.stale
    BY <1>0, <2>3 DEF Jobs
  <2> HIDE DEF j
  <2>5. HeirOK(j)
    BY <1>0, <2>3, <2>4 DEF CycleOK, HeirOK
  <2>6. CASE Source(j) = {}
    <3>1. job' = [job EXCEPT ![c] = BucketDone(j)] /\ Goto(c, "migrate")
      BY <1>0, <2>1, <2>2, <2>6 DEF j, Goto, PcType
    <3>2. /\ BucketDone(j) \in Jobs /\ HeirOK(BucketDone(j))
          /\ Known(BucketDone(j).log) = Known(j.log)
          /\ BucketDone(j).removed = j.removed /\ BucketDone(j).arch = j.arch
          /\ BucketDone(j).blind = j.blind /\ BucketDone(j).stale = j.stale
          /\ Continues(j.log, BucketDone(j).log)
      BY <2>3, <2>4, <2>5, BucketDoneOK
    <3>3. CycleOK(BucketDone(j), "migrate", changelog, archive)
      BY <1>0, <2>2, <2>4, <3>2, ContinuesOn DEF CycleOK
    <3> QED BY <1>0, <1>1, <2>2, <3>1, <3>2, <3>3, OwnStep
  <2>7. CASE Source(j) # {}
    <3>1. job' = [job EXCEPT ![c] = n] /\ Goto(c, "retag")
      BY <2>1, <2>7 DEF j
    <3>2. Cardinality(Source(j)) \in Nat
      BY <1>0, <2>3, <2>4, SourceFinite DEF Source
    <3>3. /\ n \in Jobs /\ n.todo = j.todo /\ n.heir = j.heir /\ n.log = j.log
          /\ n.removed = j.removed /\ n.arch = j.arch /\ n.blind = j.blind /\ n.stale = j.stale
      BY <2>4, <3>2 DEF Jobs
    <3> HIDE DEF n
    <3>4. CycleOK(n, "retag", changelog, archive)
      BY <1>0, <2>2, <2>3, <2>4, <2>5, <3>3 DEF CycleOK, HeirOK
    <3> QED BY <1>0, <1>1, <2>2, <3>1, <3>3, <3>4, OwnStep
  <2> QED BY <2>6, <2>7
<1>9. CASE RetagPoints(c)
  <2>1. /\ Goto(c, "verify") /\ pc[c] = "retag"
        /\ UNCHANGED <<clock, mapping, changelog, archive, job>>
    BY <1>9 DEF RetagPoints
  <2>2. CycleOK(k, "verify", changelog, archive)
    BY <1>0, <2>1 DEF CycleOK
  <2> QED BY <1>0, <1>1, <1>2, <2>1, <2>2, OwnStep
<1>10. CASE VerifyAndDelete(c)
  <2>1. /\ Goto(c, "migrate") /\ pc[c] = "verify" /\ job' = [job EXCEPT ![c] = BucketDone(k)]
        /\ UNCHANGED <<clock, mapping, changelog, archive>>
    BY <1>0, <1>10 DEF VerifyAndDelete
  <2>2. /\ BucketDone(k) \in Jobs /\ HeirOK(BucketDone(k))
        /\ Known(BucketDone(k).log) = Known(k.log)
        /\ BucketDone(k).removed = k.removed /\ BucketDone(k).arch = k.arch
        /\ BucketDone(k).blind = k.blind /\ BucketDone(k).stale = k.stale
        /\ Continues(k.log, BucketDone(k).log)
    BY <1>0, <2>1, BucketDoneOK DEF CycleOK
  <2>3. CycleOK(BucketDone(k), "migrate", changelog, archive)
    BY <1>0, <2>1, <2>2, ContinuesOn DEF CycleOK
  <2> QED BY <1>0, <1>1, <2>1, <2>2, <2>3, OwnStep
<1>11. CASE MigrationRaises(c)
  <2> DEFINE j == [k EXCEPT !.todo = @ \ {k.heir}, !.heir = None, !.bucket = 1, !.count = 0]
  <2>1. job' = [job EXCEPT ![c] = j]
    BY <1>0, <1>11 DEF MigrationRaises
  <2>2. /\ Goto(c, "migrate") /\ pc[c] \in {"retag", "verify"}
        /\ UNCHANGED <<clock, mapping, changelog, archive>>
    BY <1>11 DEF MigrationRaises
  <2>3. /\ j \in Jobs /\ j.todo \subseteq k.todo /\ j.heir = None /\ j.log = k.log
        /\ j.removed = k.removed /\ j.arch = k.arch /\ j.blind = k.blind /\ j.stale = k.stale
    BY <1>0, ChangelogAssumption DEF Jobs
  <2>4. CycleOK(j, "migrate", changelog, archive)
    BY <1>0, <2>2, <2>3 DEF CycleOK, HeirOK
  <2> HIDE DEF j
  <2> QED BY <1>0, <1>1, <2>1, <2>2, <2>3, <2>4, OwnStep
<1> QED BY <1>3, <1>4, <1>5, <1>6, <1>7, <1>8, <1>9, <1>10, <1>11

\* The saves, and the ends of a cycle.
LEMMA SavesStep ==
  ASSUME StoreInv, NEW c \in Cycles, SaveChangelog(c) \/ SaveArchive(c) \/ CycleFails(c)
  PROVE  FilesType' /\ CyclesInv'
<1> DEFINE k == job[c]
<1>0. /\ CyclesInv /\ FilesType /\ k \in Jobs /\ job \in [Cycles -> Jobs] /\ PcType
      /\ CycleOK(k, pc[c], changelog, archive)
  BY DEF StoreInv, CyclesInv
<1>1. /\ NoJob \in Jobs /\ CycleOK(NoJob, "idle", changelog', archive')
      /\ CycleOK(NoJob, "idle", changelog, archive)
  BY NoJobOK
<1> USE DEF Places, Critical, Leave
<1>2. CASE SaveChangelog(c)
  <2>1. /\ changelog' \in StoredLogs(k.log, k.at) /\ pc[c] = "migrate" /\ k.heir = None
        /\ UNCHANGED <<clock, mapping, archive>>
    BY <1>2 DEF SaveChangelog
  <2>2. FilesType'
    BY <1>0, <2>1, StoredOK DEF FilesType, clock, Jobs
  <2>3. CASE k.removed = {}
    <3>1. job' = [MarkStale(c) EXCEPT ![c] = NoJob] /\ Goto(c, "idle")
      BY <1>2, <2>3 DEF SaveChangelog
    <3> QED BY <1>0, <1>1, <2>2, <3>1, SaveStep
  <2>4. CASE k.removed # {}
    <3>1. job' = MarkStale(c) /\ Goto(c, "saveArchive")
      BY <1>2, <2>4 DEF SaveChangelog
    <3>2. job' = [MarkStale(c) EXCEPT ![c] = k]
      BY <3>1 DEF MarkStale
    <3>3. CycleOK(k, "saveArchive", changelog', archive')
      BY <1>0, <2>1 DEF CycleOK
    <3> QED BY <1>0, <2>2, <3>1, <3>2, <3>3, SaveStep
  <2> QED BY <2>3, <2>4
<1>3. CASE SaveArchive(c)
  <2>1. /\ archive' = StoredArchive(k.arch) /\ UNCHANGED <<clock, mapping, changelog>>
        /\ job' = [MarkStale(c) EXCEPT ![c] = NoJob] /\ Goto(c, "idle")
    BY <1>3 DEF SaveArchive
  <2>2. FilesType'
    BY <1>0, <2>1, StoredOK DEF FilesType, clock, Jobs
  <2> QED BY <1>0, <1>1, <2>1, <2>2, SaveStep
<1>4. CASE CycleFails(c)
  <2>1. /\ job' = [job EXCEPT ![c] = NoJob] /\ Goto(c, "idle")
        /\ UNCHANGED <<clock, mapping, changelog, archive>>
    BY <1>4 DEF CycleFails, stored
  <2>2. FilesType'
    BY <1>0, <2>1 DEF FilesType, clock
  <2> QED BY <1>0, <1>1, <2>1, <2>2, OwnStep
<1> QED BY <1>2, <1>3, <1>4

LEMMA StoreStep == StoreInv /\ [Next]_vars => StoreInv'
<1> SUFFICES ASSUME StoreInv, [Next]_vars PROVE FilesType' /\ CyclesInv'
  BY SeriesStep DEF StoreInv
<1>1. ASSUME NEW c \in Cycles, Cycle(c) PROVE FilesType' /\ CyclesInv'
  BY <1>1, WorkStep, SavesStep DEF Cycle
<1>2. CASE Signal \/ WaitEnds \/ UNCHANGED vars
  BY <1>2 DEF Signal, WaitEnds, vars, clock, stored, StoreInv, FilesType, CyclesInv, PcType
<1>3. CASE Restart
  <2>1. FilesType' /\ UNCHANGED <<changelog, archive>>
    BY <1>3 DEF Restart, clock, stored, StoreInv, FilesType
  <2>2. CyclesInv'
    BY <1>3, <2>1, NoJobOK DEF Restart, CyclesInv, PcType, Places
  <2> QED BY <2>1, <2>2
<1>4. CASE Tick
  <2>1. FilesType'
    <3>1. now + 1 \in Times
      BY <1>4, ChangelogAssumption DEF Tick, Times, StoreInv, FilesType
    <3>2. setting.ids \in SUBSET Ids
      BY ChangelogAssumption DEF StoreInv, FilesType
    <3>3. PICK S \in SUBSET setting.ids : reported' = [reported EXCEPT ![now + 1] = S]
      BY <1>4 DEF Tick
    <3>4. reported' \in [Times -> SUBSET Ids]
      BY <3>2, <3>3 DEF StoreInv, FilesType
    <3> QED BY <1>4, <3>1, <3>4 DEF Tick, stored, StoreInv, FilesType
  <2>2. CyclesInv'
    BY <1>4 DEF Tick, stored, StoreInv, CyclesInv, PcType
  <2> QED BY <2>1, <2>2
<1> QED BY <1>1, <1>2, <1>3, <1>4 DEF Next

\* The inductive invariant behind IdsRemembered: the types of the files and
\* what each undisturbed cycle knows of them.
THEOREM StoreInvariance == Spec => []StoreInv
BY StoreInit, StoreStep, PTL DEF Spec

-----------------------------------------------------------------------------
(* Inheritances.                                                           *)

\* With the JSON files no save takes an inheritance or a mark back, except
\* over another cycle's save or after a read that failed.
THEOREM InheritancesKept == Spec => InheritanceKept
<1>1. ASSUME StoreInv, Next
      PROVE  \A x \in Known(changelog) \cap Known(changelog') :
               \/ changelog[x].from = None
               \/ /\ changelog'[x].from = changelog[x].from
                  /\ changelog[x].migrated => changelog'[x].migrated
               \/ backend = "sqlite"
               \/ \E c \in Cycles : pc'[c] # pc[c] /\ Overwrites(c)
  <2>1. CASE UNCHANGED changelog
    BY <2>1
  <2>2. ASSUME NEW c \in Cycles, SaveChangelog(c), backend = "json", ~Overwrites(c)
        PROVE  Continues(changelog, changelog')
    <3>1. changelog' = job[c].log /\ pc[c] = "migrate"
      BY <2>2 DEF SaveChangelog, StoredLogs
    <3>2. CycleOK(job[c], "migrate", changelog, archive)
      BY <1>1, <3>1 DEF StoreInv, CyclesInv
    <3> QED BY <2>2, <3>1, <3>2 DEF CycleOK, Overwrites
  <2>3. ASSUME NEW c \in Cycles, SaveChangelog(c) PROVE pc'[c] # pc[c]
    BY <1>1, <2>3 DEF SaveChangelog, Leave, Goto, StoreInv, CyclesInv, PcType
  <2>4. backend \in {"json", "sqlite"}
    BY <1>1, ChangelogAssumption DEF StoreInv, FilesType, backend
  <2>5. UNCHANGED changelog \/ \E c \in Cycles : SaveChangelog(c)
    BY <1>1, ZenonT(30) DEF Next, Cycle, Tick, Signal, WaitEnds, Restart, Begin, WritePoints, SaveMapping,
       ReadChangelog, ReadArchive, RefuseMigration, CountPoints, RetagPoints, VerifyAndDelete,
       MigrationRaises, SaveArchive, CycleFails, stored
  <2> QED BY <2>1, <2>2, <2>3, <2>4, <2>5 DEF Continues
<1>2. StoreInv /\ [Next]_vars =>
        [\A x \in Known(changelog) \cap Known(changelog') :
           \/ changelog[x].from = None
           \/ /\ changelog'[x].from = changelog[x].from
              /\ changelog[x].migrated => changelog'[x].migrated
           \/ backend = "sqlite"
           \/ \E c \in Cycles : pc'[c] # pc[c] /\ Overwrites(c)]_vars
  BY <1>1
<1> QED BY <1>2, StoreInvariance, PTL DEF Spec, InheritanceKept

-----------------------------------------------------------------------------
(* The other types.                                                        *)

ClockType ==
  /\ begun \in [Cycles -> Times \cup {None}] /\ writing \in BOOLEAN
  /\ term \in {"none", "waiting", "cleared", "timed out"}
  /\ mishaps \in 0..MaxMishaps
LogHistoryType ==
  /\ catalogued \subseteq Ids /\ exposed \subseteq Ids /\ undated \subseteq Ids
  /\ overlapped \in BOOLEAN
PointHistoryType == written \subseteq Points /\ suspect \subseteq Ids /\ residual \subseteq Ids

LEMMA ClockStep == StoreInv /\ ClockType /\ [Next]_vars => ClockType'
<1> SUFFICES ASSUME StoreInv, ClockType, [Next]_vars PROVE ClockType'
  OBVIOUS
<1>0. setting.mishaps \in 0..MaxMishaps /\ now \in Times
  BY ChangelogAssumption DEF StoreInv, FilesType
<1>a. MaxMishaps \in Nat /\ mishaps \in 0..MaxMishaps
  BY ChangelogAssumption DEF ClockType
<1>1. mishaps' = mishaps \/ Mishap => mishaps' \in 0..MaxMishaps
  BY <1>0, <1>a DEF Mishap
<1> USE DEF ClockType, Unreadable
<1>2. ASSUME NEW c \in Cycles,
             \/ Begin(c) \/ WritePoints(c) \/ SaveMapping(c) \/ ReadChangelog(c) \/ ReadArchive(c)
             \/ RefuseMigration(c) \/ CountPoints(c)
      PROVE  ClockType'
  BY <1>0, <1>1, <1>2 DEF Begin, WritePoints, SaveMapping, EnterUpdate, ReadChangelog, ReadArchive,
     RefuseMigration, CountPoints
<1>3. ASSUME NEW c \in Cycles,
             \/ RetagPoints(c) \/ VerifyAndDelete(c) \/ MigrationRaises(c)
             \/ SaveChangelog(c) \/ SaveArchive(c) \/ CycleFails(c)
      PROVE  ClockType'
  <2>1. UNCHANGED <<begun, term>> /\ (mishaps' = mishaps \/ Mishap)
    BY <1>3 DEF RetagPoints, VerifyAndDelete, MigrationRaises, SaveChangelog, SaveArchive, CycleFails
  <2>2. writing' \in BOOLEAN
    BY <1>3 DEF RetagPoints, VerifyAndDelete, MigrationRaises, SaveChangelog, SaveArchive,
       CycleFails, Leave
  <2> QED BY <1>1, <2>1, <2>2
<1>4. CASE Tick \/ Signal \/ WaitEnds \/ UNCHANGED vars
  BY <1>4 DEF Tick, Signal, WaitEnds, vars
<1>5. CASE Restart
  BY <1>1, <1>5 DEF Restart
<1> QED BY <1>2, <1>3, <1>4, <1>5 DEF Next, Cycle

LEMMA LogHistoryStep == StoreInv /\ LogHistoryType /\ [Next]_vars => LogHistoryType'
<1> SUFFICES ASSUME StoreInv, LogHistoryType, [Next]_vars PROVE LogHistoryType'
  OBVIOUS
<1>0. \A f : Known(f) \subseteq Ids
  BY DEF Known
<1>1. \A c \in Cycles : InHand(c) \subseteq Ids
  BY DEF InHand, StoreInv, CyclesInv, Jobs
<1> USE DEF LogHistoryType, logHistory
<1>2. ASSUME NEW c \in Cycles, SaveMapping(c) PROVE LogHistoryType'
  BY <1>2 DEF SaveMapping, EnterUpdate
<1>3. ASSUME NEW c \in Cycles, SaveChangelog(c) PROVE LogHistoryType'
  <2>1. catalogued' \subseteq Ids /\ exposed' \subseteq Ids
    BY <1>0, <1>3 DEF SaveChangelog
  <2>a. undated' \subseteq Ids
    <3>1. PICK log \in StoredLogs(job[c].log, job[c].at) :
            undated' = undated \cup (IF Overwrites(c) THEN Inherited(log) ELSE {})
      BY <1>3 DEF SaveChangelog
    <3>2. log \in Logs
      BY StoredOK DEF StoreInv, CyclesInv, Jobs
    <3> QED BY <3>1, <3>2, InheritedIds
  <2>2. overlapped' \in BOOLEAN
    BY <1>3 DEF SaveChangelog, Leave
  <2> QED BY <2>1, <2>2, <2>a
<1>4. ASSUME NEW c \in Cycles, SaveArchive(c) \/ CycleFails(c) PROVE LogHistoryType'
  <2>a. job[c].removed \subseteq Ids
    BY DEF StoreInv, CyclesInv, Jobs
  <2>1. catalogued' \subseteq Ids /\ exposed' \subseteq Ids /\ undated' \subseteq Ids
    BY <1>0, <1>1, <1>4, <2>a DEF SaveArchive, CycleFails
  <2>2. overlapped' \in BOOLEAN
    BY <1>4 DEF SaveArchive, CycleFails, Leave
  <2> QED BY <2>1, <2>2
<1>5. CASE Restart
  BY <1>1, <1>5 DEF Restart
<1>6. ASSUME NEW c \in Cycles,
             \/ Begin(c) \/ WritePoints(c) \/ ReadChangelog(c) \/ ReadArchive(c)
             \/ RefuseMigration(c) \/ CountPoints(c) \/ RetagPoints(c) \/ VerifyAndDelete(c)
             \/ MigrationRaises(c)
      PROVE  LogHistoryType'
  BY <1>6 DEF Begin, WritePoints, ReadChangelog, ReadArchive, RefuseMigration, CountPoints,
     RetagPoints, VerifyAndDelete, MigrationRaises
<1>7. CASE Tick \/ Signal \/ WaitEnds \/ UNCHANGED vars
  BY <1>7 DEF Tick, Signal, WaitEnds, vars
<1> QED BY <1>2, <1>3, <1>4, <1>5, <1>6, <1>7 DEF Next, Cycle

\* The ids of points in a series are ids.
LEMMA PointIds ==
  ASSUME StoreInv
  PROVE  /\ \A ps \in SUBSET Points : Origins(ps) \subseteq Ids
         /\ \A c \in Cycles : pc[c] \in {"retag", "verify"} =>
              /\ job[c].heir \in Ids /\ Origin(c) \in Ids
              /\ series[job[c].bucket][Origin(c)] \subseteq Points
              /\ series[job[c].bucket][job[c].heir] \subseteq Points
         /\ \A c \in Cycles : \A touched \in SUBSET Ids : Endangered(c, touched) \subseteq Ids
<1>1. \A ps \in SUBSET Points : Origins(ps) \subseteq Ids
  BY DEF Origins, Points
<1>2. ASSUME NEW c \in Cycles, pc[c] \in {"retag", "verify"}
      PROVE  /\ job[c].heir \in Ids /\ Origin(c) \in Ids
             /\ series[job[c].bucket][Origin(c)] \subseteq Points
             /\ series[job[c].bucket][job[c].heir] \subseteq Points
  <2>1. job[c].heir \in Ids /\ Origin(c) \in Ids /\ job[c].bucket \in Buckets
    BY <1>2 DEF StoreInv, CyclesInv, CycleOK, HeirOK, Jobs, Origin
  <2> QED BY <2>1 DEF StoreInv, SeriesType
<1>3. ASSUME NEW c \in Cycles, NEW touched \in SUBSET Ids PROVE Endangered(c, touched) \subseteq Ids
  BY <1>1, <1>2 DEF Endangered, Migrating
<1> QED BY <1>1, <1>2, <1>3

LEMMA PointHistoryStep == StoreInv /\ PointHistoryType /\ [Next]_vars => PointHistoryType'
<1> SUFFICES ASSUME StoreInv, PointHistoryType, [Next]_vars PROVE PointHistoryType'
  OBVIOUS
<1> USE DEF PointHistoryType, pointHistory
<1>1. ASSUME NEW c \in Cycles, WritePoints(c) PROVE PointHistoryType'
  <2>1. Batch(c) \subseteq Points
    BY DEF Batch, Points, StoreInv, CyclesInv, Jobs
  <2>2. Origins(Batch(c)) \subseteq Ids /\ Endangered(c, Origins(Batch(c))) \subseteq Ids
    BY <2>1, PointIds
  <2>3. \A x \in Ids : Collided(series[1][x], {p \in Batch(c) : p[1] = x}) \subseteq Ids
    <3>1. \A x \in Ids : series[1][x] \subseteq Points
      BY ChangelogAssumption DEF StoreInv, SeriesType
    <3> QED BY <3>1, PointIds DEF Collided
  <2> QED BY <1>1, <2>1, <2>2, <2>3 DEF WritePoints
<1>2. ASSUME NEW c \in Cycles, RetagPoints(c) PROVE PointHistoryType'
  <2>1. pc[c] = "retag"
    BY <1>2 DEF RetagPoints
  <2>2. /\ job[c].heir \in Ids /\ Source(job[c]) \subseteq Points
        /\ series[job[c].bucket][job[c].heir] \subseteq Points
    BY <2>1, PointIds DEF Source, Origin
  <2>3. PICK copied \in SUBSET Source(job[c]) :
          suspect' = suspect \cup Collided(series[job[c].bucket][job[c].heir], copied)
               \cup Endangered(c, {job[c].heir})
               \cup (IF Endangered(c, {job[c].heir}) # {} THEN Origins(copied) ELSE {})
               \cup (IF copied # Source(job[c]) /\ series[job[c].bucket][job[c].heir] # {}
                     THEN Origins(Source(job[c])) ELSE {})
    BY <1>2 DEF RetagPoints
  <2>4. /\ Collided(series[job[c].bucket][job[c].heir], copied) \subseteq Ids
        /\ Endangered(c, {job[c].heir}) \subseteq Ids
        /\ Origins(copied) \subseteq Ids /\ Origins(Source(job[c])) \subseteq Ids
    BY <2>2, PointIds DEF Collided
  <2>5. suspect' \subseteq Ids
    BY <2>3, <2>4
  <2>6. residual' \subseteq Ids /\ written' = written
    BY <1>2, <2>2 DEF RetagPoints
  <2> QED BY <2>5, <2>6
<1>3. ASSUME NEW c \in Cycles, VerifyAndDelete(c) PROVE PointHistoryType'
  <2>1. Origin(c) \in Ids
    BY <1>3, PointIds DEF VerifyAndDelete
  <2> QED BY <1>3, <2>1 DEF VerifyAndDelete
<1>4. ASSUME NEW c \in Cycles,
             \/ Begin(c) \/ SaveMapping(c) \/ ReadChangelog(c) \/ ReadArchive(c)
             \/ RefuseMigration(c) \/ CountPoints(c) \/ MigrationRaises(c)
             \/ SaveChangelog(c) \/ SaveArchive(c) \/ CycleFails(c)
      PROVE  PointHistoryType'
  BY <1>4 DEF Begin, SaveMapping, ReadChangelog, ReadArchive, RefuseMigration, CountPoints,
     MigrationRaises, SaveChangelog, SaveArchive, CycleFails
<1>5. CASE Tick \/ Signal \/ WaitEnds \/ Restart \/ UNCHANGED vars
  BY <1>5 DEF Tick, Signal, WaitEnds, Restart, vars
<1> QED BY <1>1, <1>2, <1>3, <1>4, <1>5 DEF Next, Cycle

\* Type correctness: the files, the locals of both cycles and the series keep
\* their types through every cycle, migration, failure and restart.
THEOREM ChangelogTypes == Spec => []TypeOK
<1> DEFINE Others == ClockType /\ LogHistoryType /\ PointHistoryType
<1>1. ASSUME Init PROVE Others
  <2>1. MaxMishaps \in Nat /\ 0 \in 0..MaxMishaps
    BY ChangelogAssumption
  <2> QED BY <1>1, <2>1 DEF Init, ClockType, LogHistoryType, PointHistoryType
<1>2. StoreInv /\ Others /\ [Next]_vars => Others'
  BY ClockStep, LogHistoryStep, PointHistoryStep
<1>3. StoreInv /\ Others => TypeOK
  BY DEF StoreInv, FilesType, SeriesType, CyclesInv, PcType, Places, Logs, Archives, Jobs,
     ClockType, LogHistoryType, PointHistoryType, TypeOK
<1> QED BY <1>1, <1>2, <1>3, StoreInvariance, PTL DEF Spec

-----------------------------------------------------------------------------
(* No id is forgotten.                                                     *)

ForgottenBase == UNCHANGED <<changelog, archive, catalogued, exposed>>

\* A step that takes no id from a file or from the hands of a cycle.
LEMMA KeepsIds ==
  ASSUME NothingForgotten, ForgottenBase, \A d \in Cycles : InHand(d) \subseteq InHand(d)'
  PROVE  NothingForgotten'
BY DEF NothingForgotten, ForgottenBase

LEMMA WorkKeepsIds ==
  ASSUME StoreInv, NothingForgotten, NEW c \in Cycles,
         \/ Begin(c) \/ WritePoints(c) \/ SaveMapping(c) \/ ReadChangelog(c) \/ ReadArchive(c)
         \/ RefuseMigration(c) \/ CountPoints(c) \/ RetagPoints(c) \/ VerifyAndDelete(c)
         \/ MigrationRaises(c)
  PROVE  NothingForgotten'
<1> USE DEF stored, logHistory, Goto
<1>1. ForgottenBase
  BY DEF ForgottenBase, Begin, WritePoints, SaveMapping, ReadChangelog, ReadArchive,
     RefuseMigration, CountPoints, RetagPoints, VerifyAndDelete, MigrationRaises
<1>2. pc[c] # "saveArchive"
  BY DEF Begin, WritePoints, SaveMapping, ReadChangelog, ReadArchive, RefuseMigration,
     CountPoints, RetagPoints, VerifyAndDelete, MigrationRaises
<1>3. \A d \in Cycles \ {c} : pc'[d] = pc[d]
  BY DEF StoreInv, CyclesInv, PcType, Begin, WritePoints, SaveMapping, ReadChangelog, ReadArchive,
     RefuseMigration, CountPoints, RetagPoints, VerifyAndDelete, MigrationRaises
<1>4. \A d \in Cycles \ {c} : job'[d] = job[d]
  BY DEF StoreInv, CyclesInv, Begin, WritePoints, SaveMapping, ReadChangelog, ReadArchive,
     RefuseMigration, CountPoints, RetagPoints, VerifyAndDelete, MigrationRaises
<1>5. \A d \in Cycles : InHand(d) \subseteq InHand(d)'
  BY <1>2, <1>3, <1>4 DEF InHand
<1> QED BY <1>1, <1>5, KeepsIds

\* The save of the changelog leaves each id in it, in the archive, with the
\* cycle, or exposed.
LEMMA SaveChangelogKeepsIds ==
  ASSUME StoreInv, NothingForgotten, NEW c \in Cycles, SaveChangelog(c)
  PROVE  NothingForgotten'
<1> DEFINE k == job[c]
<1>0. /\ CyclesInv /\ k \in Jobs /\ CycleOK(k, "migrate", changelog, archive) /\ pc[c] = "migrate"
      /\ PcType /\ c \in Cycles
  BY DEF SaveChangelog, StoreInv, CyclesInv
<1>1. /\ catalogued' = catalogued \cup Known(changelog')
      /\ exposed' = (exposed \cup (Known(k.log) \ Known(changelog'))
                      \cup (IF Overwrites(c) THEN Known(changelog) \cup Known(archive)
                            ELSE {})) \ Known(changelog')
      /\ archive' = archive
  BY DEF SaveChangelog
<1>2. /\ k.removed # {} => pc'[c] = "saveArchive"
      /\ \A d \in Cycles \ {c} : pc'[d] = pc[d]
  BY <1>0 DEF SaveChangelog, Leave, Goto, PcType
<1>3. /\ k.removed # {} => job'[c] = k
      /\ \A d \in Cycles \ {c} : job'[d] = MarkStale(c)[d]
  BY DEF SaveChangelog, MarkStale
<1>4. \A d \in Cycles : [job[d] EXCEPT !.stale = TRUE].removed = job[d].removed
  BY <1>0 DEF CyclesInv, Jobs
<1>5. \A d \in Cycles \ {c} : InHand(d)' = InHand(d)
  BY <1>2, <1>3, <1>4 DEF InHand, MarkStale
<1>6. InHand(c) = {} /\ k.removed \subseteq InHand(c)'
  BY <1>0, <1>2, <1>3 DEF InHand
<1>7. Overwrites(c) \/ Known(changelog) \subseteq Known(k.log) \cup k.removed
  BY <1>0 DEF CycleOK, Overwrites
<1>8. ASSUME NEW x \in catalogued'
      PROVE  \/ x \in Known(changelog') \cup Known(archive') \cup exposed'
             \/ \E d \in Cycles : x \in InHand(d)'
  <2>1. CASE x \in Known(changelog')
    BY <2>1
  <2>2. CASE x \notin Known(changelog')
    <3>1. \/ x \in Known(changelog) \/ x \in Known(archive) \/ x \in exposed
          \/ \E d \in Cycles \ {c} : x \in InHand(d)
      BY <1>1, <1>6, <2>2 DEF NothingForgotten
    <3>2. CASE x \in Known(changelog)
      <4>1. x \in Known(k.log) \/ x \in k.removed \/ Overwrites(c)
        BY <1>7, <3>2
      <4> QED BY <1>1, <1>6, <2>2, <3>2, <4>1
    <3>3. CASE x \in Known(archive) \/ x \in exposed
      BY <1>1, <2>2, <3>3
    <3>4. CASE \E d \in Cycles \ {c} : x \in InHand(d)
      BY <1>5, <3>4
    <3> QED BY <3>1, <3>2, <3>3, <3>4
  <2> QED BY <2>1, <2>2
<1> QED BY <1>8 DEF NothingForgotten

\* The save of the archive takes over what the cycle had in hand.
LEMMA SaveArchiveKeepsIds ==
  ASSUME StoreInv, NothingForgotten, NEW c \in Cycles, SaveArchive(c)
  PROVE  NothingForgotten'
<1> DEFINE k == job[c]
<1>0. /\ CyclesInv /\ k \in Jobs /\ CycleOK(k, "saveArchive", changelog, archive) /\ PcType
      /\ pc[c] = "saveArchive"
  BY DEF SaveArchive, StoreInv, CyclesInv
<1>1. /\ catalogued' = catalogued /\ changelog' = changelog
      /\ exposed' = (exposed \cup (IF Overwrites(c) THEN Known(archive) ELSE {})) \ Known(k.arch)
      /\ Known(archive') = Known(k.arch)
  BY <1>0, StoredOK DEF SaveArchive, Jobs
<1>2. \A d \in Cycles \ {c} : pc'[d] = pc[d] /\ job'[d] = MarkStale(c)[d]
  BY <1>0 DEF SaveArchive, Leave, Goto, PcType, MarkStale
<1>3. \A d \in Cycles : [job[d] EXCEPT !.stale = TRUE].removed = job[d].removed
  BY <1>0 DEF CyclesInv, Jobs
<1>4. \A d \in Cycles \ {c} : InHand(d)' = InHand(d)
  BY <1>2, <1>3 DEF InHand, MarkStale
<1>5. InHand(c) \subseteq Known(k.arch)
  BY <1>0 DEF InHand, CycleOK
<1>6. Overwrites(c) \/ Known(archive) \subseteq Known(k.arch)
  BY <1>0 DEF CycleOK, Overwrites
<1> QED BY <1>1, <1>4, <1>5, <1>6 DEF NothingForgotten

\* A segment id that was ever catalogued is in the changelog, in the archive
\* or in the hands of a cycle between its saves, unless one of the four
\* exceptions befell it.
THEOREM IdsRemembered == Spec => []NothingForgotten
<1>1. Init => NothingForgotten
  BY DEF Init, NothingForgotten
<1>2. StoreInv /\ NothingForgotten /\ [Next]_vars => NothingForgotten'
  <2> SUFFICES ASSUME StoreInv, NothingForgotten, [Next]_vars PROVE NothingForgotten'
    OBVIOUS
  <2>1. ASSUME NEW c \in Cycles, CycleFails(c) PROVE NothingForgotten'
    <3>1. \A d \in Cycles \ {c} : pc'[d] = pc[d] /\ job'[d] = job[d]
      BY <2>1 DEF CycleFails, Leave, Goto, StoreInv, CyclesInv, PcType
    <3>2. \A d \in Cycles \ {c} : InHand(d)' = InHand(d)
      BY <3>1 DEF InHand
    <3>3. exposed' = exposed \cup InHand(c) /\ UNCHANGED <<changelog, archive, catalogued>>
      BY <2>1 DEF CycleFails, stored
    <3> QED BY <3>2, <3>3 DEF NothingForgotten
  <2>2. ASSUME NEW c \in Cycles, Cycle(c) PROVE NothingForgotten'
    BY <2>1, <2>2, WorkKeepsIds, SaveChangelogKeepsIds, SaveArchiveKeepsIds DEF Cycle
  <2>3. CASE Restart
    BY <2>3 DEF Restart, stored, NothingForgotten
  <2>4. CASE Tick \/ Signal \/ WaitEnds \/ UNCHANGED vars
    <3>1. ForgottenBase /\ UNCHANGED <<pc, job>>
      BY <2>4 DEF ForgottenBase, Tick, Signal, WaitEnds, vars, stored, logHistory
    <3> QED BY <3>1, KeepsIds DEF InHand
  <2> QED BY <2>2, <2>3, <2>4 DEF Next
<1> QED BY <1>1, <1>2, StoreInvariance, PTL DEF Spec

-----------------------------------------------------------------------------
(* Nothing is left under the origin of a migrated entry.                   *)

Cleared(o, res, ser) == o \in res \/ \A b \in Buckets : ser[b][o] = {}

Moved(log, res, ser) ==
  \A x \in Known(log) : log[x].migrated => log[x].from \in Ids /\ Cleared(log[x].from, res, ser)

\* A migration under way has emptied the buckets before the one it is at.
HalfMoved(j, res, ser) ==
  /\ j.heir = None => j.bucket = 1
  /\ j.heir # None => \A b \in Buckets : b < j.bucket =>
       j.log[j.heir].from \in res \/ ser[b][j.log[j.heir].from] = {}

\* What is marked has moved, in the saved changelog and in those the cycles
\* are working on: these are the ones that will be saved.
MovedInv ==
  /\ Moved(changelog, residual, series)
  /\ \A c \in Cycles : /\ Moved(job[c].log, residual, series)
                       /\ HalfMoved(job[c], residual, series)

\* A step writes under an origin that is inherited from only if it notes so.
LEMMA StaysCleared ==
  ASSUME StoreInv, [Next]_vars, NEW o \in Disowned \cap Ids
  PROVE  /\ o \in residual => o \in residual'
         /\ \A b \in Buckets : series[b][o] = {} => o \in residual' \/ series'[b][o] = {}
<1>0. SeriesType
  BY DEF StoreInv
<1>1. CASE UNCHANGED <<series, residual>>
  BY <1>1
<1>2. ASSUME NEW c \in Cycles, WritePoints(c)
      PROVE  /\ o \in residual => o \in residual'
             /\ \A b \in Buckets : series[b][o] = {} => o \in residual' \/ series'[b][o] = {}
  <2>1. residual' = residual \cup (Disowned \cap Origins(Batch(c)))
    BY <1>2 DEF WritePoints
  <2>2. /\ series'[1][o] = Overwrite(series[1][o], {p \in Batch(c) : p[1] = o})
        /\ \A b \in Buckets \ {1} : series'[b] = series[b]
    BY <1>0, <1>2, ChangelogAssumption DEF WritePoints, SeriesType
  <2>3. CASE {p \in Batch(c) : p[1] = o} = {}
    <3>1. series[1][o] = {} => series'[1][o] = {}
      BY <2>2, <2>3 DEF Overwrite
    <3> QED BY <2>1, <2>2, <3>1
  <2>4. CASE {p \in Batch(c) : p[1] = o} # {}
    <3>1. o \in Origins(Batch(c))
      BY <2>4 DEF Origins
    <3> QED BY <2>1, <3>1
  <2> QED BY <2>3, <2>4
<1>3. ASSUME NEW c \in Cycles, RetagPoints(c)
      PROVE  /\ o \in residual => o \in residual'
             /\ \A b \in Buckets : series[b][o] = {} => o \in residual' \/ series'[b][o] = {}
  <2>1. residual' = residual \cup (Disowned \cap {job[c].heir})
    BY <1>3 DEF RetagPoints
  <2>2. PICK copied : series' = [series EXCEPT ![job[c].bucket][job[c].heir] = Overwrite(@, copied)]
    BY <1>3 DEF RetagPoints
  <2>3. job[c].heir # o => \A b \in Buckets : series'[b][o] = series[b][o]
    BY <1>0, <2>2 DEF SeriesType
  <2> QED BY <2>1, <2>3
<1>4. ASSUME NEW c \in Cycles, VerifyAndDelete(c)
      PROVE  /\ o \in residual => o \in residual'
             /\ \A b \in Buckets : series[b][o] = {} => o \in residual' \/ series'[b][o] = {}
  <2>1. \/ series' = [series EXCEPT ![job[c].bucket][Origin(c)] = {}] /\ UNCHANGED residual
        \/ UNCHANGED series /\ residual' = residual \cup {Origin(c)}
    BY <1>4 DEF VerifyAndDelete
  <2> QED BY <1>0, <2>1 DEF SeriesType
<1>5. \/ UNCHANGED <<series, residual>>
      \/ \E c \in Cycles : WritePoints(c) \/ RetagPoints(c) \/ VerifyAndDelete(c)
  BY ZenonT(30) DEF Next, Cycle, Tick, Signal, WaitEnds, Restart, Begin, SaveMapping, ReadChangelog,
     ReadArchive, RefuseMigration, CountPoints, MigrationRaises, SaveChangelog, SaveArchive,
     CycleFails, pointHistory, vars
<1> QED BY <1>1, <1>2, <1>3, <1>4, <1>5

\* So what has moved stays moved, whatever the step.
LEMMA StaysMoved ==
  ASSUME StoreInv, MovedInv, [Next]_vars
  PROVE  /\ Moved(changelog, residual', series')
         /\ \A c \in Cycles : /\ Moved(job[c].log, residual', series')
                              /\ HalfMoved(job[c], residual', series')
<1>1. ASSUME NEW log, Moved(log, residual, series), Inherited(log) \subseteq Disowned
      PROVE  Moved(log, residual', series')
  <2> SUFFICES ASSUME NEW x \in Known(log), log[x].migrated
               PROVE  log[x].from \in Ids /\ Cleared(log[x].from, residual', series')
    BY DEF Moved
  <2>1. log[x].from \in Ids /\ Cleared(log[x].from, residual, series)
    BY <1>1 DEF Moved
  <2>2. log[x].from \in Disowned
    <3>1. None \notin Ids
      BY ChangelogAssumption
    <3> QED BY <1>1, <2>1, <3>1 DEF Inherited
  <2> QED BY <2>1, <2>2, StaysCleared DEF Cleared
<1>2. Inherited(changelog) \subseteq Disowned /\ \A c \in Cycles : Inherited(job[c].log) \subseteq Disowned
  BY DEF Disowned
<1>3. ASSUME NEW c \in Cycles PROVE HalfMoved(job[c], residual', series')
  <2>1. HalfMoved(job[c], residual, series)
    BY DEF MovedInv
  <2>2. CASE job[c].heir = None
    BY <2>1, <2>2 DEF HalfMoved
  <2>3. CASE job[c].heir # None
    <3>1. job[c].heir \in Known(job[c].log) /\ job[c].log[job[c].heir].from \in Ids
      BY <2>3 DEF StoreInv, CyclesInv, CycleOK, HeirOK
    <3>2. job[c].log[job[c].heir].from \in Disowned
      <4>1. None \notin Ids
        BY ChangelogAssumption
      <4>2. job[c].log[job[c].heir].from \in Inherited(job[c].log)
        BY <3>1, <4>1 DEF Inherited
      <4> QED BY <1>2, <4>2
    <3> QED BY <2>1, <2>3, <3>1, <3>2, StaysCleared DEF HalfMoved
  <2> QED BY <2>2, <2>3
<1> QED BY <1>1, <1>2, <1>3 DEF MovedInv

\* new marks nothing that old does not.
MarksOf(old, new) ==
  \A x \in Known(new) : new[x].migrated =>
    x \in Known(old) /\ old[x].migrated /\ old[x].from = new[x].from

LEMMA MarksMoved ==
  ASSUME NEW old, NEW new, NEW res, NEW ser, Moved(old, res, ser), MarksOf(old, new)
  PROVE  Moved(new, res, ser)
BY DEF Moved, MarksOf

\* What is computed for a new mapping, and what SQLite keeps.
LEMMA NewMarks ==
  /\ \A log \in Logs, fresh \in SUBSET Ids, t \in Times :
       \A m : DOMAIN m = Added(log, fresh) => MarksOf(log, Inherit(NextLog(log, fresh, t), m))
  /\ \A log \in Logs, t \in Times : \A new \in StoredLogs(log, t) : MarksOf(log, new)
<1>1. \A t \in Times : ~NewEntry(t).migrated /\ NewEntry(t) \in Entry
  BY DEF NewEntry, Entry
<1>2. ASSUME NEW log \in Logs, NEW fresh \in SUBSET Ids, NEW t \in Times, NEW m,
             DOMAIN m = Added(log, fresh), NEW x \in Known(Inherit(NextLog(log, fresh, t), m)),
             Inherit(NextLog(log, fresh, t), m)[x].migrated
      PROVE  x \in Known(log) /\ Inherit(NextLog(log, fresh, t), m)[x] = log[x]
  <2> DEFINE next == NextLog(log, fresh, t)
  <2>0. x \in Ids
    BY DEF Known
  <2>1. CASE x \in DOMAIN m
    <3>1. x \in fresh /\ log[x] = None
      BY <1>2, <2>0, <2>1 DEF Added, Known
    <3>2. next[x] = NewEntry(t)
      BY <2>0, <3>1 DEF NextLog
    <3>3. Inherit(next, m)[x] = [NewEntry(t) EXCEPT !.from = m[x]]
      BY <2>0, <2>1, <3>2 DEF Inherit
    <3>4. ~[NewEntry(t) EXCEPT !.from = m[x]].migrated
      BY <1>1 DEF NewEntry
    <3> QED BY <1>2, <3>3, <3>4
  <2>2. CASE x \notin DOMAIN m
    <3>1. Inherit(next, m)[x] = next[x] /\ next[x] # None
      BY <1>2, <2>0, <2>2 DEF Inherit, Known
    <3>2. x \in fresh /\ x \in Known(log)
      BY <1>2, <2>0, <2>2, <3>1 DEF NextLog, Added
    <3> QED BY <2>0, <3>1, <3>2 DEF NextLog, Known
  <2> QED BY <2>1, <2>2
<1>3. ASSUME NEW log \in Logs, NEW t \in Times, NEW new \in StoredLogs(log, t) PROVE MarksOf(log, new)
  <2>1. CASE new = log
    BY <2>1 DEF MarksOf
  <2>2. ASSUME NEW last \in Ids, new = [x \in Ids |-> IF x = last THEN NewEntry(t) ELSE None]
        PROVE  MarksOf(log, new)
    <3>1. \A x \in Known(new) : new[x] = NewEntry(t)
      BY <2>2 DEF Known
    <3> QED BY <1>1, <3>1 DEF MarksOf
  <2> QED BY <1>3, <2>1, <2>2 DEF StoredLogs, Known
<1> QED BY <1>2, <1>3 DEF MarksOf

\* The buckets are numbered from 1.
LEMMA BucketNumbers ==
  /\ Cardinality(Buckets) \in Nat
  /\ \A b : b \in Buckets <=> b \in Nat /\ 1 <= b /\ b <= Cardinality(Buckets)
<1>1. IsFiniteSet(Buckets) /\ Buckets = 1..Cardinality(Buckets)
  BY ChangelogAssumption
<1>2. Cardinality(Buckets) \in Nat
  BY <1>1, FS_CardinalityType
<1>3. \A n \in Nat : \A b : b \in 1..n <=> b \in Nat /\ 1 <= b /\ b <= n
  OBVIOUS
<1> QED BY <1>1, <1>2, <1>3

\* A bucket whose series under the origin is gone brings the migration on.
LEMMA BucketDoneMoved ==
  ASSUME NEW j \in Jobs, HeirOK(j), j.heir # None, NEW res, NEW ser,
         Moved(j.log, res, ser), HalfMoved(j, res, ser),
         j.log[j.heir].from \in res \/ ser[j.bucket][j.log[j.heir].from] = {}
  PROVE  Moved(BucketDone(j).log, res, ser) /\ HalfMoved(BucketDone(j), res, ser)
<1> DEFINE o == j.log[j.heir].from
           log == [j.log EXCEPT ![j.heir].migrated = TRUE]
           next == [j EXCEPT !.bucket = @ + 1, !.count = 0]
           last == [j EXCEPT !.log = log, !.todo = @ \ {j.heir}, !.heir = None,
                             !.bucket = 1, !.count = 0]
<1>1. j.log \in Logs /\ j.heir \in Ids /\ j.log[j.heir] \in Entry /\ o \in Ids /\ j.bucket \in Buckets
  BY DEF Jobs, HeirOK, Known, Logs
<1>2. Buckets \subseteq Nat
  BY BucketNumbers
<1>3. \A b \in Buckets : b <= j.bucket => o \in res \/ ser[b][o] = {}
  <2> HIDE DEF o, log, next, last
  <2>1. \A b \in Buckets : b <= j.bucket => b < j.bucket \/ b = j.bucket
    <3>1. \A m, n \in Nat : m <= n => m < n \/ m = n
      OBVIOUS
    <3>2. j.bucket \in Nat /\ \A b \in Buckets : b \in Nat
      BY <1>1, <1>2
    <3> QED BY <3>1, <3>2
  <2> QED BY <2>1 DEF HalfMoved, o
<1>4. CASE j.bucket + 1 \in Buckets
  <2>1. BucketDone(j) = next
    BY <1>4 DEF BucketDone
  <2>2. next.log = j.log /\ next.heir = j.heir /\ next.bucket = j.bucket + 1
    BY DEF Jobs
  <2>3. \A b \in Buckets : b < j.bucket + 1 => b <= j.bucket
    BY <1>1, <1>2
  <2> HIDE DEF next
  <2> QED BY <1>3, <2>1, <2>2, <2>3 DEF HalfMoved
<1>5. CASE j.bucket + 1 \notin Buckets
  <2>1. BucketDone(j) = last
    BY <1>5 DEF BucketDone, log
  <2>2. last.log = log /\ last.heir = None /\ last.bucket = 1
    BY DEF Jobs
  <2>3. \A b \in Buckets : b <= j.bucket
    BY <1>1, <1>5, BucketNumbers
  <2>4. Cleared(o, res, ser)
    BY <1>3, <2>3 DEF Cleared
  <2>5. \A x \in Known(log) : /\ x \in Known(j.log) /\ log[x].from = j.log[x].from
                              /\ x # j.heir => log[x] = j.log[x]
    <3>1. /\ [j.log[j.heir] EXCEPT !.migrated = TRUE].from = o
          /\ j.log[j.heir] # None
      BY <1>1, ChangelogAssumption DEF Entry
    <3>2. \A x \in Ids : log[x] = IF x = j.heir THEN [j.log[j.heir] EXCEPT !.migrated = TRUE]
                                  ELSE j.log[x]
      BY <1>1 DEF Logs
    <3> QED BY <3>1, <3>2 DEF Known
  <2> HIDE DEF log, last
  <2>6. Moved(log, res, ser)
    BY <1>1, <2>4, <2>5 DEF Moved
  <2> QED BY <2>1, <2>2, <2>6 DEF HalfMoved
<1> QED BY <1>4, <1>5

\* A cycle that has ended, and one that is marked as stale.
LEMMA NoJobMoved ==
  /\ \A res, ser : Moved(NoJob.log, res, ser) /\ HalfMoved(NoJob, res, ser)
  /\ \A j \in Jobs : \A res, ser :
       /\ [j EXCEPT !.stale = TRUE].log = j.log
       /\ HalfMoved(j, res, ser) => HalfMoved([j EXCEPT !.stale = TRUE], res, ser)
<1>1. NoJob.log = Nothing /\ NoJob.heir = None /\ NoJob.bucket = 1
  BY DEF NoJob
<1>2. Known(Nothing) = {}
  BY DEF Known, Nothing
<1>3. ASSUME NEW j \in Jobs
      PROVE  LET i == [j EXCEPT !.stale = TRUE]
             IN i.log = j.log /\ i.heir = j.heir /\ i.bucket = j.bucket
  BY DEF Jobs
<1> QED BY <1>1, <1>2, <1>3 DEF Moved, HalfMoved

\* One cycle's step; the others' locals are as they were or marked as stale.
LEMMA MovedOwnStep ==
  ASSUME StoreInv, MovedInv, Next, NEW c \in Cycles, NEW j \in Jobs,
         job' = [job EXCEPT ![c] = j] \/ job' = [MarkStale(c) EXCEPT ![c] = j],
         Moved(j.log, residual', series'), HalfMoved(j, residual', series'),
         Moved(changelog', residual', series')
  PROVE  MovedInv'
<1>1. job \in [Cycles -> Jobs] /\ MarkStale(c) \in [Cycles -> Jobs]
  <2>1. job \in [Cycles -> Jobs] /\ \A d \in Cycles : [job[d] EXCEPT !.stale = TRUE] \in Jobs
    BY DEF StoreInv, CyclesInv, Jobs
  <2> QED BY <2>1 DEF MarkStale
<1>2. ASSUME NEW d \in Cycles
      PROVE  Moved(job'[d].log, residual', series') /\ HalfMoved(job'[d], residual', series')
  <2>1. CASE d = c
    BY <1>1, <2>1
  <2>2. CASE d # c
    <3>1. job'[d] = job[d] \/ job'[d] = [job[d] EXCEPT !.stale = TRUE]
      BY <1>1, <2>2 DEF MarkStale
    <3>2. Moved(job[d].log, residual', series') /\ HalfMoved(job[d], residual', series')
      BY StaysMoved
    <3>3. job[d] \in Jobs
      BY <1>1
    <3>4. LET i == [job[d] EXCEPT !.stale = TRUE]
          IN i.log = job[d].log /\ HalfMoved(i, residual', series')
      BY <3>2, <3>3, NoJobMoved
    <3> QED BY <3>1, <3>2, <3>4
  <2> QED BY <2>1, <2>2
<1> QED BY <1>2 DEF MovedInv

LEMMA MovedCycle ==
  ASSUME StoreInv, MovedInv, Next, NEW c \in Cycles, Cycle(c)
  PROVE  MovedInv'
<1> DEFINE k == job[c]
<1>0. /\ job \in [Cycles -> Jobs] /\ k \in Jobs /\ CycleOK(k, pc[c], changelog, archive)
      /\ FilesType /\ SeriesType
  BY DEF StoreInv, CyclesInv
<1>1. /\ Moved(changelog, residual', series') /\ Moved(k.log, residual', series')
      /\ HalfMoved(k, residual', series')
  BY StaysMoved
<1>2. ASSUME NEW j \in Jobs, job' = [job EXCEPT ![c] = j], UNCHANGED changelog,
             j.log = k.log, j.heir = k.heir, j.bucket = k.bucket
      PROVE  MovedInv'
  <2>1. HalfMoved(j, residual', series')
    BY <1>1, <1>2 DEF HalfMoved
  <2> QED BY <1>1, <1>2, <2>1, MovedOwnStep
<1>3. CASE Begin(c)
  <2>1. PICK fresh \in SUBSET Ids : job' = [job EXCEPT ![c].fresh = fresh, ![c].at = now]
    <3>1. UNION {reported[t] : t \in {u \in Times : u <= now /\ now <= u + Window}} \in SUBSET Ids
      BY <1>0 DEF FilesType
    <3> QED BY <1>3, <3>1 DEF Begin
  <2> DEFINE j == [k EXCEPT !.fresh = fresh, !.at = now]
  <2>2. job' = [job EXCEPT ![c] = j] /\ UNCHANGED changelog
    BY <1>0, <1>3, <2>1 DEF Begin, stored
  <2>3. j \in Jobs /\ j.log = k.log /\ j.heir = k.heir /\ j.bucket = k.bucket
    BY <1>0 DEF Jobs, FilesType
  <2> QED BY <1>2, <2>2, <2>3
<1>4. CASE WritePoints(c) \/ SaveMapping(c) \/ RetagPoints(c)
  <2>1. job' = [job EXCEPT ![c] = k] /\ UNCHANGED changelog
    BY <1>0, <1>4 DEF WritePoints, SaveMapping, RetagPoints, stored
  <2> QED BY <1>0, <1>2, <2>1
<1>5. CASE ReadChangelog(c)
  <2>1. k.heir = None /\ UNCHANGED changelog
    BY <1>0, <1>5 DEF ReadChangelog, CycleOK, stored
  <2>2. CASE job' = [job EXCEPT ![c].fresh = mapping, ![c].log = changelog]
    <3> DEFINE j == [k EXCEPT !.fresh = mapping, !.log = changelog]
    <3>1. job' = [job EXCEPT ![c] = j]
      BY <1>0, <2>2
    <3>2. j \in Jobs /\ j.log = changelog /\ j.heir = None /\ j.bucket = k.bucket
      BY <1>0, <2>1 DEF Jobs, FilesType
    <3>3. HalfMoved(j, residual', series')
      BY <1>1, <2>1, <3>2 DEF HalfMoved
    <3> QED BY <1>1, <2>1, <3>1, <3>2, <3>3, MovedOwnStep
  <2>3. CASE job' = [job EXCEPT ![c].fresh = mapping, ![c].blind = TRUE]
    <3> DEFINE j == [k EXCEPT !.fresh = mapping, !.blind = TRUE]
    <3>1. job' = [job EXCEPT ![c] = j]
      BY <1>0, <2>3
    <3>2. j \in Jobs /\ j.log = k.log /\ j.heir = k.heir /\ j.bucket = k.bucket
      BY <1>0 DEF Jobs, FilesType
    <3> QED BY <1>2, <2>1, <3>1, <3>2
  <2> QED BY <1>5, <2>2, <2>3 DEF ReadChangelog
<1>6. CASE ReadArchive(c)
  <2>1. k.heir = None /\ UNCHANGED changelog
    BY <1>0, <1>6 DEF ReadArchive, CycleOK, stored
  <2>a. PICK arch \in Archives : \E i \in Processed(c, arch) :
          \/ job' = [job EXCEPT ![c] = i]
          \/ job' = [job EXCEPT ![c] = [i EXCEPT !.blind = TRUE]]
    <3>1. archive \in Archives /\ Nothing \in Archives
      BY <1>0 DEF FilesType, Nothing, Archives
    <3> QED BY <1>6, <3>1 DEF ReadArchive
  <2>2. PICK i \in Processed(c, arch) :
          \/ job' = [job EXCEPT ![c] = i]
          \/ job' = [job EXCEPT ![c] = [i EXCEPT !.blind = TRUE]]
    BY <2>a
  <2>3. i \in Jobs
    BY <1>0, <2>1, ProcessedOK
  <2>4. i.heir = None /\ i.bucket = k.bucket /\ MarksOf(k.log, i.log)
    <3> DEFINE log == NextLog(k.log, k.fresh, k.at)
    <3>1. PICK m : /\ DOMAIN m = Added(k.log, k.fresh)
                   /\ i.log = Inherit(log, m) /\ i.heir = k.heir /\ i.bucket = k.bucket
      BY <1>0 DEF Processed, Matches, Jobs
    <3>2. k.log \in Logs /\ k.fresh \in SUBSET Ids /\ k.at \in Times
      BY <1>0 DEF Jobs
    <3>3. MarksOf(k.log, Inherit(log, m))
      BY <3>1, <3>2, NewMarks
    <3> QED BY <2>1, <3>1, <3>3
  <2>5. PICK j \in Jobs : /\ job' = [job EXCEPT ![c] = j]
                          /\ j.log = i.log /\ j.heir = i.heir /\ j.bucket = i.bucket
    <3>1. CASE job' = [job EXCEPT ![c] = i]
      BY <2>3, <3>1
    <3>2. CASE job' = [job EXCEPT ![c] = [i EXCEPT !.blind = TRUE]]
      <4>1. LET j == [i EXCEPT !.blind = TRUE]
            IN j \in Jobs /\ j.log = i.log /\ j.heir = i.heir /\ j.bucket = i.bucket
        BY <2>3 DEF Jobs
      <4> QED BY <3>2, <4>1
    <3> QED BY <2>2, <3>1, <3>2
  <2>6. Moved(j.log, residual', series') /\ HalfMoved(j, residual', series')
    BY <1>1, <2>1, <2>4, <2>5, MarksMoved DEF HalfMoved
  <2> QED BY <1>1, <2>1, <2>5, <2>6, MovedOwnStep
<1>7. CASE RefuseMigration(c)
  <2>1. PICK x : job' = [job EXCEPT ![c].todo = @ \ {x}]
    BY <1>7 DEF RefuseMigration
  <2> DEFINE j == [k EXCEPT !.todo = @ \ {x}]
  <2>2. job' = [job EXCEPT ![c] = j] /\ UNCHANGED changelog
    BY <1>0, <1>7, <2>1 DEF RefuseMigration, stored
  <2>3. j \in Jobs /\ j.log = k.log /\ j.heir = k.heir /\ j.bucket = k.bucket
    BY <1>0 DEF Jobs
  <2> HIDE DEF j
  <2> QED BY <1>2, <2>2, <2>3
<1>8. CASE CountPoints(c)
  <2>1. PICK x \in IF k.heir = None THEN k.todo ELSE {k.heir} :
          LET j == [k EXCEPT !.heir = x]
          IN IF Source(j) = {}
             THEN job' = [job EXCEPT ![c] = BucketDone(j)]
             ELSE job' = [job EXCEPT ![c] = [j EXCEPT !.count = Cardinality(Source(j))]]
    BY <1>8 DEF CountPoints
  <2> DEFINE j == [k EXCEPT !.heir = x]
             n == [j EXCEPT !.count = Cardinality(Source(j))]
  <2>2. UNCHANGED <<changelog, series, residual>>
    BY <1>8 DEF CountPoints, stored, pointHistory
  <2>3. x \in Known(k.log) /\ k.log[x].from \in Ids /\ x \in Ids /\ x # None
    BY <1>0, <2>1, ChangelogAssumption DEF CycleOK, HeirOK, Known
  <2>4. j \in Jobs /\ j.todo = k.todo /\ j.heir = x /\ j.log = k.log /\ j.bucket = k.bucket
    BY <1>0, <2>3 DEF Jobs
  <2>5. HeirOK(j)
    BY <1>0, <2>3, <2>4 DEF CycleOK, HeirOK
  <2>6. Moved(j.log, residual', series') /\ HalfMoved(j, residual', series')
    <3>1. k.heir = None => j.bucket = 1
      BY <1>1, <2>4 DEF HalfMoved
    <3>2. \A b \in Buckets : ~(b < 1)
      BY BucketNumbers
    <3>3. k.heir # None => x = k.heir
      BY <2>1
    <3> HIDE DEF j
    <3> QED BY <1>1, <2>3, <2>4, <3>1, <3>2, <3>3 DEF HalfMoved
  <2> HIDE DEF j
  <2>7. CASE Source(j) = {}
    <3>1. job' = [job EXCEPT ![c] = BucketDone(j)]
      BY <2>1, <2>7 DEF j
    <3>2. series'[j.bucket][j.log[j.heir].from] = {}
      BY <2>2, <2>7 DEF Source
    <3>3. BucketDone(j) \in Jobs
      BY <2>3, <2>4, <2>5, BucketDoneOK
    <3>4. Moved(BucketDone(j).log, residual', series') /\ HalfMoved(BucketDone(j), residual', series')
      BY <2>3, <2>4, <2>5, <2>6, <3>2, BucketDoneMoved
    <3> QED BY <1>1, <2>2, <3>1, <3>3, <3>4, MovedOwnStep
  <2>8. CASE Source(j) # {}
    <3>1. job' = [job EXCEPT ![c] = n]
      BY <2>1, <2>8 DEF j
    <3>2. Cardinality(Source(j)) \in Nat
      BY <1>0, <2>3, <2>4, SourceFinite DEF Source
    <3>3. n \in Jobs /\ n.log = j.log /\ n.heir = j.heir /\ n.bucket = j.bucket
      BY <2>4, <3>2 DEF Jobs
    <3> HIDE DEF n
    <3>4. HalfMoved(n, residual', series')
      BY <2>6, <3>3 DEF HalfMoved
    <3> QED BY <1>1, <2>2, <2>6, <3>1, <3>3, <3>4, MovedOwnStep
  <2> QED BY <2>7, <2>8
<1>9. CASE VerifyAndDelete(c)
  <2>1. /\ pc[c] = "verify" /\ job' = [job EXCEPT ![c] = BucketDone(k)] /\ UNCHANGED changelog
    BY <1>0, <1>9 DEF VerifyAndDelete, stored
  <2>2. HeirOK(k) /\ k.heir # None /\ Origin(c) = k.log[k.heir].from /\ Origin(c) \in Ids
    BY <1>0, <2>1 DEF CycleOK, HeirOK, Origin
  <2>3. Origin(c) \in residual' \/ series'[k.bucket][Origin(c)] = {}
    <3>1. \/ series' = [series EXCEPT ![k.bucket][Origin(c)] = {}]
          \/ residual' = residual \cup {Origin(c)}
      BY <1>9 DEF VerifyAndDelete
    <3>2. k.bucket \in Buckets /\ SeriesType
      BY <1>0 DEF Jobs
    <3>3. CASE series' = [series EXCEPT ![k.bucket][Origin(c)] = {}]
      BY <2>2, <3>2, <3>3, EmptiedSeries
    <3> QED BY <3>1, <3>3
  <2>4. Moved(BucketDone(k).log, residual', series') /\ HalfMoved(BucketDone(k), residual', series')
    BY <1>0, <1>1, <2>2, <2>3, BucketDoneMoved
  <2>5. BucketDone(k) \in Jobs
    BY <1>0, <2>2, BucketDoneOK
  <2> QED BY <1>1, <2>1, <2>4, <2>5, MovedOwnStep
<1>10. CASE MigrationRaises(c)
  <2> DEFINE j == [k EXCEPT !.todo = @ \ {k.heir}, !.heir = None, !.bucket = 1, !.count = 0]
  <2>1. job' = [job EXCEPT ![c] = j] /\ UNCHANGED changelog
    BY <1>0, <1>10 DEF MigrationRaises, stored
  <2>2. j \in Jobs /\ j.log = k.log /\ j.heir = None /\ j.bucket = 1
    BY <1>0, ChangelogAssumption DEF Jobs
  <2> HIDE DEF j
  <2>3. HalfMoved(j, residual', series')
    BY <2>2 DEF HalfMoved
  <2> QED BY <1>1, <2>1, <2>2, <2>3, MovedOwnStep
<1>11. CASE SaveChangelog(c)
  <2>1. /\ changelog' \in StoredLogs(k.log, k.at)
        /\ \/ job' = [MarkStale(c) EXCEPT ![c] = NoJob]
           \/ job' = MarkStale(c)
    BY <1>11 DEF SaveChangelog
  <2>2. job' = MarkStale(c) => job' = [MarkStale(c) EXCEPT ![c] = k]
    BY DEF MarkStale
  <2>3. Moved(changelog', residual', series')
    <3>1. MarksOf(k.log, changelog')
      BY <1>0, <2>1, NewMarks DEF Jobs
    <3> QED BY <1>1, <3>1, MarksMoved
  <2> QED BY <1>0, <1>1, <2>1, <2>2, <2>3, NoJobOK, NoJobMoved, MovedOwnStep
<1>12. CASE SaveArchive(c) \/ CycleFails(c)
  <2>1. /\ UNCHANGED changelog
        /\ \/ job' = [MarkStale(c) EXCEPT ![c] = NoJob]
           \/ job' = [job EXCEPT ![c] = NoJob]
    BY <1>12 DEF SaveArchive, CycleFails, stored
  <2> QED BY <1>1, <2>1, NoJobOK, NoJobMoved, MovedOwnStep
<1> QED BY <1>3, <1>4, <1>5, <1>6, <1>7, <1>8, <1>9, <1>10, <1>11, <1>12 DEF Cycle

\* An entry marked as migrated has left nothing under its origin in any
\* bucket, unless the count did not match or the origin was written later.
THEOREM MarksAreTrue == Spec => []MarkedMeansMoved
<1>1. Init => MovedInv
  <2> SUFFICES ASSUME Init PROVE MovedInv
    OBVIOUS
  <2>1. Known(changelog) = {}
    BY DEF Init, Known, Nothing
  <2> QED BY <2>1, NoJobMoved DEF Init, MovedInv, Moved
<1>2. StoreInv /\ MovedInv /\ [Next]_vars => MovedInv'
  <2> SUFFICES ASSUME StoreInv, MovedInv, [Next]_vars PROVE MovedInv'
    OBVIOUS
  <2>1. CASE Restart
    <3>1. UNCHANGED changelog /\ \A c \in Cycles : job'[c] = NoJob
      BY <2>1 DEF Restart, stored
    <3> QED BY <3>1, StaysMoved, NoJobMoved DEF MovedInv
  <2>2. CASE Tick \/ Signal \/ WaitEnds \/ UNCHANGED vars
    <3>1. UNCHANGED <<changelog, job, residual, series>>
      BY <2>2 DEF Tick, Signal, WaitEnds, vars, stored, pointHistory
    <3> QED BY <3>1 DEF MovedInv
  <2> QED BY <2>1, <2>2, MovedCycle DEF Next
<1>3. MovedInv => MarkedMeansMoved
  BY DEF MovedInv, Moved, Cleared, MarkedMeansMoved
<1> QED BY <1>1, <1>2, <1>3, StoreInvariance, PTL DEF Spec

-----------------------------------------------------------------------------
(* No written point is lost.                                               *)

AllSuspect(ps, sus) == \A p \in ps : p[1] \in sus

\* What a migration at p may rely on when it has counted the points of a
\* bucket (retag), and when it has copied them (verify): either every point
\* it may delete is suspect, or the count is right, or the copies are there,
\* or there are too few of them for the count.
MigrationOK(j, p, ser, sus) ==
  LET source == ser[j.bucket][j.log[j.heir].from]
      target == ser[j.bucket][j.heir]
  IN /\ p \in {"retag", "verify"} => j.heir # j.log[j.heir].from /\ j.count > 0
     /\ p = "retag" => AllSuspect(source, sus) \/ j.count = Cardinality(source)
     /\ p = "verify" => \/ AllSuspect(source, sus)
                        \/ source \subseteq target
                        \/ Cardinality(target) < j.count

PointsInv ==
  /\ PointsKept
  /\ \A c \in Cycles : MigrationOK(job[c], pc[c], series, suspect)

\* The ids a migration works on, and the set it copies from.
LEMMA MigrationTypes ==
  ASSUME StoreInv, NEW c \in Cycles, pc[c] \in {"retag", "verify"}
  PROVE  /\ job[c] \in Jobs /\ job[c].bucket \in Buckets /\ job[c].count \in Nat
         /\ job[c].heir \in Ids /\ Origin(c) \in Ids /\ Origin(c) = job[c].log[job[c].heir].from
         /\ Source(job[c]) = series[job[c].bucket][Origin(c)]
BY DEF StoreInv, CyclesInv, CycleOK, HeirOK, Jobs, Origin, Source

\* A write to one of the two series of a migration makes its points suspect.
LEMMA TouchedAreSuspect ==
  ASSUME NEW c \in Cycles, NEW d \in Cycles \ {c}, pc[d] \in {"retag", "verify"},
         NEW touched, {Origin(d), job[d].heir} \cap touched # {}
  PROVE  Origins(series[job[d].bucket][Origin(d)]) \cup touched \subseteq Endangered(c, touched)
BY DEF Endangered, Migrating

\* What the write of a batch does to a migration of another cycle.
LEMMA WriteSparesMigration ==
  ASSUME StoreInv, NEW c \in Cycles, WritePoints(c), NEW d \in Cycles \ {c},
         MigrationOK(job[d], pc[d], series, suspect)
  PROVE  MigrationOK(job[d], pc[d], series', suspect')
<1> SUFFICES ASSUME pc[d] \in {"retag", "verify"}
             PROVE  MigrationOK(job[d], pc[d], series', suspect')
  BY DEF MigrationOK
<1> DEFINE o == Origin(d)
           h == job[d].heir
           b == job[d].bucket
           touched == Origins(Batch(c))
<1>1. h \in Ids /\ o \in Ids /\ b \in Buckets /\ o = job[d].log[job[d].heir].from
  BY MigrationTypes
<1>2. \A x \in Ids : /\ series'[1][x] = Overwrite(series[1][x], {p \in Batch(c) : p[1] = x})
                     /\ \A i \in Buckets \ {1} : series'[i][x] = series[i][x]
  BY ChangelogAssumption DEF WritePoints, StoreInv, SeriesType
<1>3. suspect \subseteq suspect' /\ Endangered(c, touched) \subseteq suspect'
  BY DEF WritePoints
<1>4. CASE {o, h} \cap touched # {}
  <2>1. Origins(series[b][o]) \cup touched \subseteq suspect'
    BY <1>3, <1>4, TouchedAreSuspect
  <2>2. ASSUME NEW p \in series'[b][o] PROVE p[1] \in suspect'
    <3>1. p \in series[b][o] \/ p \in Batch(c)
      BY <1>1, <1>2, <2>2 DEF Overwrite
    <3> QED BY <2>1, <3>1 DEF Origins
  <2> QED BY <1>1, <2>2 DEF MigrationOK, AllSuspect
<1>5. CASE {o, h} \cap touched = {}
  <2>1. ASSUME NEW x \in {o, h} PROVE series'[b][x] = series[b][x]
    <3>1. {p \in Batch(c) : p[1] = x} = {}
      BY <1>5, <2>1 DEF Origins
    <3>2. Overwrite(series[1][x], {p \in Batch(c) : p[1] = x}) = series[1][x]
      BY <3>1 DEF Overwrite
    <3> QED BY <1>1, <1>2, <2>1, <3>2
  <2>2. series'[b][o] = series[b][o] /\ series'[b][h] = series[b][h]
    BY <2>1
  <2> QED BY <1>1, <1>3, <2>2 DEF MigrationOK, AllSuspect
<1> QED BY <1>4, <1>5

\* What a copy does to a migration of another cycle.
LEMMA RetagSparesMigration ==
  ASSUME StoreInv, NEW c \in Cycles, RetagPoints(c), NEW d \in Cycles \ {c},
         MigrationOK(job[d], pc[d], series, suspect)
  PROVE  MigrationOK(job[d], pc[d], series', suspect')
<1> SUFFICES ASSUME pc[d] \in {"retag", "verify"}
             PROVE  MigrationOK(job[d], pc[d], series', suspect')
  BY DEF MigrationOK
<1> DEFINE o == Origin(d)
           h == job[d].heir
           b == job[d].bucket
           touched == {job[c].heir}
<1>1. h \in Ids /\ o \in Ids /\ b \in Buckets /\ o = job[d].log[job[d].heir].from
  BY MigrationTypes
<1>2. PICK copied \in SUBSET Source(job[c]) :
        /\ series' = [series EXCEPT ![job[c].bucket][job[c].heir] = Overwrite(@, copied)]
        /\ Endangered(c, touched) \subseteq suspect'
        /\ Endangered(c, touched) # {} => Origins(copied) \subseteq suspect'
  BY DEF RetagPoints
<1>3. suspect \subseteq suspect'
  BY DEF RetagPoints
<1>4. \A x \in Ids : \/ series'[b][x] = series[b][x]
                     \/ x = job[c].heir /\ series'[b][x] = Overwrite(series[b][x], copied)
  BY <1>1, <1>2 DEF StoreInv, SeriesType
<1>5. CASE {o, h} \cap touched # {}
  <2>1. Origins(series[b][o]) \cup touched \subseteq Endangered(c, touched)
    BY <1>5, TouchedAreSuspect
  <2>2. Origins(series[b][o]) \subseteq suspect' /\ Origins(copied) \subseteq suspect'
    BY <1>2, <2>1
  <2>3. ASSUME NEW p \in series'[b][o] PROVE p[1] \in suspect'
    <3>1. p \in series[b][o] \/ p \in copied
      BY <1>1, <1>4, <2>3 DEF Overwrite
    <3> QED BY <2>2, <3>1 DEF Origins
  <2> QED BY <1>1, <2>3 DEF MigrationOK, AllSuspect
<1>6. CASE {o, h} \cap touched = {}
  <2>1. series'[b][o] = series[b][o] /\ series'[b][h] = series[b][h]
    BY <1>1, <1>4, <1>6
  <2> QED BY <1>1, <1>3, <2>1 DEF MigrationOK, AllSuspect
<1> QED BY <1>5, <1>6

\* What a deletion does to a migration of another cycle: of its origin it
\* leaves nothing to copy, of its heir too few points for the count.
LEMMA DeleteSparesMigration ==
  ASSUME StoreInv, NEW c \in Cycles, VerifyAndDelete(c), NEW d \in Cycles \ {c},
         MigrationOK(job[d], pc[d], series, suspect)
  PROVE  MigrationOK(job[d], pc[d], series', suspect')
<1> SUFFICES ASSUME pc[d] \in {"retag", "verify"}
             PROVE  MigrationOK(job[d], pc[d], series', suspect')
  BY DEF MigrationOK
<1> DEFINE o == Origin(d)
           h == job[d].heir
           b == job[d].bucket
<1>1. h \in Ids /\ o \in Ids /\ b \in Buckets /\ o = job[d].log[job[d].heir].from
  BY MigrationTypes
<1>2. /\ suspect' = suspect
      /\ \/ series' = series
         \/ series' = [series EXCEPT ![job[c].bucket][Origin(c)] = {}]
  BY DEF VerifyAndDelete
<1>3. \A x \in Ids : series'[b][x] = series[b][x] \/ series'[b][x] = {}
  BY <1>1, <1>2 DEF StoreInv, SeriesType
<1>4. CASE series'[b][o] = {}
  BY <1>1, <1>4 DEF MigrationOK, AllSuspect
<1>5. CASE series'[b][o] = series[b][o] /\ series'[b][h] = {}
  <2>1. Cardinality(series'[b][h]) = 0
    BY <1>5, FS_EmptySet
  <2>2. job[d].count > 0 /\ (pc[d] = "verify" => Cardinality(series'[b][h]) < job[d].count)
    BY <2>1, MigrationTypes DEF MigrationOK
  <2> QED BY <1>1, <1>2, <1>5, <2>2 DEF MigrationOK
<1>6. CASE series'[b][o] = series[b][o] /\ series'[b][h] = series[b][h]
  BY <1>1, <1>2, <1>6 DEF MigrationOK
<1> QED BY <1>1, <1>3, <1>4, <1>5, <1>6

\* A step that writes nothing: it ends, starts or resumes one migration.
LEMMA PointsOwnStep ==
  ASSUME StoreInv, PointsInv, NEW c \in Cycles, NEW j \in Jobs, NEW p \in Places,
         job' = [job EXCEPT ![c] = j] \/ job' = [MarkStale(c) EXCEPT ![c] = j], Goto(c, p),
         UNCHANGED pointHistory, UNCHANGED series, MigrationOK(j, p, series, suspect)
  PROVE  PointsInv'
<1>1. job \in [Cycles -> Jobs] /\ MarkStale(c) \in [Cycles -> Jobs] /\ PcType
  <2>1. job \in [Cycles -> Jobs] /\ \A d \in Cycles : [job[d] EXCEPT !.stale = TRUE] \in Jobs
    BY DEF StoreInv, CyclesInv, Jobs
  <2> QED BY <2>1 DEF MarkStale, StoreInv, CyclesInv
<1>2. ASSUME NEW d \in Cycles PROVE MigrationOK(job'[d], pc'[d], series, suspect)
  <2>1. CASE d = c
    <3>1. job'[d] = j /\ pc'[d] = p
      BY <1>1, <2>1 DEF Goto, PcType
    <3> QED BY <3>1
  <2>2. CASE d # c
    <3>1. job'[d] = job[d] \/ job'[d] = [job[d] EXCEPT !.stale = TRUE]
      BY <1>1, <2>2 DEF MarkStale
    <3>2. pc'[d] = pc[d] /\ MigrationOK(job[d], pc[d], series, suspect) /\ job[d] \in Jobs
      BY <1>1, <2>2 DEF Goto, PcType, PointsInv
    <3>3. LET i == [job[d] EXCEPT !.stale = TRUE]
          IN i.log = job[d].log /\ i.heir = job[d].heir /\ i.bucket = job[d].bucket
             /\ i.count = job[d].count
      BY <3>2 DEF Jobs
    <3> QED BY <3>1, <3>2, <3>3 DEF MigrationOK
  <2> QED BY <2>1, <2>2
<1>3. PointsKept'
  BY DEF PointsInv, PointsKept, pointHistory
<1> QED BY <1>2, <1>3 DEF PointsInv, pointHistory

\* A cycle that migrates nothing is in nobody's way.
LEMMA NotMigrating ==
  \A j, p, ser, sus : p \notin {"retag", "verify"} => MigrationOK(j, p, ser, sus)
BY DEF MigrationOK

LEMMA WriteKeepsPoints ==
  ASSUME StoreInv, PointsInv, NEW c \in Cycles, WritePoints(c)
  PROVE  PointsInv'
<1>1. /\ UNCHANGED job /\ \A d \in Cycles \ {c} : pc'[d] = pc[d]
      /\ pc'[c] = "mapping"
  BY DEF WritePoints, Goto, StoreInv, CyclesInv, PcType
<1>2. ASSUME NEW d \in Cycles PROVE MigrationOK(job'[d], pc'[d], series', suspect')
  <2>1. CASE d = c
    BY <1>1, <2>1, NotMigrating
  <2>2. CASE d # c
    BY <1>1, <2>2, WriteSparesMigration DEF PointsInv
  <2> QED BY <2>1, <2>2
<1>3. ASSUME NEW p \in written' PROVE p[1] \in suspect' \/ \E x \in Ids : p \in series'[1][x]
  <2> DEFINE new(x) == {q \in Batch(c) : q[1] = x}
  <2>1. \A x \in Ids : series'[1][x] = Overwrite(series[1][x], new(x))
    BY ChangelogAssumption DEF WritePoints, StoreInv, SeriesType
  <2>2. CASE p \in Batch(c)
    <3>1. p[1] \in Ids
      BY <2>2 DEF Batch, StoreInv, CyclesInv, Jobs
    <3>2. p \in series'[1][p[1]]
      BY <2>1, <2>2, <3>1 DEF Overwrite
    <3> QED BY <3>1, <3>2
  <2>3. CASE p \in written
    <3>1. p[1] \in suspect \/ \E x \in Ids : p \in series[1][x]
      BY <2>3 DEF PointsInv, PointsKept
    <3>2. ASSUME NEW x \in Ids, p \in series[1][x], p \notin series'[1][x] PROVE p[1] \in suspect'
      <4>1. p[1] \in Collided(series[1][x], new(x))
        BY <2>1, <3>2 DEF Collided, Origins
      <4>2. Collided(series[1][x], new(x)) \subseteq suspect'
        BY DEF WritePoints
      <4> QED BY <4>1, <4>2
    <3>3. suspect \subseteq suspect'
      BY DEF WritePoints
    <3> QED BY <3>1, <3>2, <3>3
  <2> QED BY <1>3, <2>2, <2>3 DEF WritePoints
<1>4. PointsKept'
  BY <1>3 DEF PointsKept
<1> QED BY <1>2, <1>4 DEF PointsInv

\* A copy is complete, or its points are suspect, or it will not be verified.
LEMMA RetagIsCounted ==
  ASSUME StoreInv, NEW c \in Cycles, RetagPoints(c), MigrationOK(job[c], "retag", series, suspect)
  PROVE  MigrationOK(job[c], "verify", series', suspect')
<1> DEFINE k == job[c]
           source == series[k.bucket][Origin(c)]
           target == series[k.bucket][k.heir]
<1>0. pc[c] = "retag"
  BY DEF RetagPoints
<1>1. /\ k.heir \in Ids /\ Origin(c) \in Ids /\ k.bucket \in Buckets /\ k.count \in Nat
      /\ Origin(c) = k.log[k.heir].from /\ Source(k) = source /\ k \in Jobs
  BY <1>0, MigrationTypes
<1>2. PICK copied \in SUBSET source :
        /\ series' = [series EXCEPT ![k.bucket][k.heir] = Overwrite(@, copied)]
        /\ suspect \subseteq suspect'
        /\ copied # source /\ target # {} => Origins(source) \subseteq suspect'
  BY <1>1 DEF RetagPoints
<1>3. k.heir # Origin(c) /\ k.count > 0 /\ (AllSuspect(source, suspect) \/ k.count = Cardinality(source))
  BY <1>1 DEF MigrationOK
<1>4. /\ series'[k.bucket][Origin(c)] = source
      /\ series'[k.bucket][k.heir] = Overwrite(target, copied)
  BY <1>1, <1>2, <1>3 DEF StoreInv, SeriesType
<1>5. \/ AllSuspect(source, suspect') \/ source \subseteq Overwrite(target, copied)
      \/ Cardinality(Overwrite(target, copied)) < k.count
  <2>1. CASE copied = source
    BY <2>1 DEF Overwrite
  <2>2. CASE copied # source /\ target # {}
    BY <1>2, <2>2 DEF AllSuspect, Origins
  <2>3. CASE copied # source /\ target = {} /\ k.count = Cardinality(source)
    <3>1. Overwrite(target, copied) = copied
      BY <2>3 DEF Overwrite
    <3>2. IsFiniteSet(source)
      BY <1>1, PointsFinite DEF StoreInv
    <3>3. /\ IsFiniteSet(copied) /\ Cardinality(copied) <= Cardinality(source)
          /\ Cardinality(copied) # Cardinality(source)
      BY <2>3, <3>2, FS_Subset
    <3>4. Cardinality(copied) \in Nat /\ Cardinality(source) \in Nat
      BY <3>2, <3>3, FS_CardinalityType
    <3>5. Cardinality(copied) < Cardinality(source)
      BY <3>3, <3>4
    <3> QED BY <2>3, <3>1, <3>5
  <2>4. CASE AllSuspect(source, suspect)
    BY <1>2, <2>4 DEF AllSuspect
  <2> QED BY <1>3, <2>1, <2>2, <2>3, <2>4
<1> QED BY <1>1, <1>3, <1>4, <1>5 DEF MigrationOK

LEMMA RetagKeepsPoints ==
  ASSUME StoreInv, PointsInv, NEW c \in Cycles, RetagPoints(c)
  PROVE  PointsInv'
<1>1. /\ UNCHANGED <<job, written>> /\ \A d \in Cycles \ {c} : pc'[d] = pc[d]
      /\ pc[c] = "retag" /\ pc'[c] = "verify"
  BY DEF RetagPoints, Goto, StoreInv, CyclesInv, PcType
<1>2. ASSUME NEW d \in Cycles PROVE MigrationOK(job'[d], pc'[d], series', suspect')
  <2>1. CASE d = c
    BY <1>1, <2>1, RetagIsCounted DEF PointsInv
  <2>2. CASE d # c
    BY <1>1, <2>2, RetagSparesMigration DEF PointsInv
  <2> QED BY <2>1, <2>2
<1>3. PICK copied :
        /\ series' = [series EXCEPT ![job[c].bucket][job[c].heir] = Overwrite(@, copied)]
        /\ Collided(series[job[c].bucket][job[c].heir], copied) \subseteq suspect'
        /\ suspect \subseteq suspect'
  BY DEF RetagPoints
<1>4. ASSUME NEW p \in written, NEW x \in Ids, p \in series[1][x], p \notin series'[1][x]
      PROVE  p[1] \in suspect'
  <2>1. /\ series[1][x] = series[job[c].bucket][job[c].heir]
        /\ series'[1][x] = Overwrite(series[1][x], copied)
    BY <1>3, <1>4, ChangelogAssumption DEF StoreInv, SeriesType
  <2> QED BY <1>3, <1>4, <2>1 DEF Collided, Origins
<1>5. PointsKept'
  BY <1>1, <1>3, <1>4 DEF PointsInv, PointsKept
<1> QED BY <1>2, <1>5 DEF PointsInv

\* What is deleted has been copied, or is suspect.
LEMMA DeleteKeepsPoints ==
  ASSUME StoreInv, PointsInv, NEW c \in Cycles, VerifyAndDelete(c)
  PROVE  PointsInv'
<1> DEFINE k == job[c]
           source == series[k.bucket][Origin(c)]
           target == series[k.bucket][k.heir]
<1>0. pc[c] = "verify"
  BY DEF VerifyAndDelete
<1>1. /\ UNCHANGED <<written, suspect>> /\ \A d \in Cycles \ {c} : pc'[d] = pc[d] /\ job'[d] = job[d]
      /\ pc'[c] = "migrate"
  BY DEF VerifyAndDelete, Goto, StoreInv, CyclesInv, PcType
<1>2. ASSUME NEW d \in Cycles PROVE MigrationOK(job'[d], pc'[d], series', suspect')
  <2>1. CASE d = c
    BY <1>1, <2>1, NotMigrating
  <2>2. CASE d # c
    BY <1>1, <2>2, DeleteSparesMigration DEF PointsInv
  <2> QED BY <2>1, <2>2
<1>3. /\ k.heir \in Ids /\ Origin(c) \in Ids /\ k.bucket \in Buckets /\ k.count \in Nat
      /\ Origin(c) = k.log[k.heir].from
  BY <1>0, MigrationTypes
<1>4. /\ k.heir # Origin(c)
      /\ AllSuspect(source, suspect) \/ source \subseteq target \/ Cardinality(target) < k.count
  BY <1>0, <1>3 DEF PointsInv, MigrationOK
<1>5. CASE UNCHANGED series
  BY <1>1, <1>2, <1>5 DEF PointsInv, PointsKept
<1>6. CASE Verified(k) /\ series' = [series EXCEPT ![k.bucket][Origin(c)] = {}]
  <2>1. AllSuspect(source, suspect) \/ source \subseteq target
    <3>1. Cardinality(target) \in Nat
      BY <1>3, PointsFinite, FS_CardinalityType DEF StoreInv
    <3>2. Cardinality(target) >= k.count
      BY <1>6 DEF Verified
    <3>3. ~(Cardinality(target) < k.count)
      BY <1>3, <3>1, <3>2
    <3> QED BY <1>4, <3>3
  <2>2. ASSUME NEW p \in written PROVE p[1] \in suspect \/ \E x \in Ids : p \in series'[1][x]
    <3>1. CASE k.bucket # 1
      <4>1. series'[1] = series[1]
        BY <1>3, <1>6, <3>1, ChangelogAssumption DEF StoreInv, SeriesType
      <4> QED BY <4>1 DEF PointsInv, PointsKept
    <3>2. CASE k.bucket = 1
      <4>1. \A x \in Ids \ {Origin(c)} : series'[1][x] = series[1][x]
        BY <1>3, <1>6, <3>2 DEF StoreInv, SeriesType
      <4>2. p[1] \in suspect \/ \E x \in Ids : p \in series[1][x]
        BY DEF PointsInv, PointsKept
      <4>3. CASE p \in source
        BY <1>3, <1>4, <2>1, <3>2, <4>1, <4>3 DEF AllSuspect
      <4>4. CASE p \notin source
        BY <3>2, <4>1, <4>2, <4>4
      <4> QED BY <4>3, <4>4
    <3> QED BY <3>1, <3>2
  <2> QED BY <1>1, <1>2, <2>2 DEF PointsInv, PointsKept
<1> QED BY <1>5, <1>6 DEF VerifyAndDelete

\* The steps of a cycle that write no point.
LEMMA OtherStepsKeepPoints ==
  ASSUME StoreInv, PointsInv, NEW c \in Cycles,
         \/ Begin(c) \/ SaveMapping(c) \/ ReadChangelog(c) \/ ReadArchive(c)
         \/ RefuseMigration(c) \/ MigrationRaises(c)
         \/ SaveChangelog(c) \/ SaveArchive(c) \/ CycleFails(c)
  PROVE  PointsInv'
<1>1. UNCHANGED <<series, pointHistory>>
  BY DEF Begin, SaveMapping, ReadChangelog, ReadArchive, RefuseMigration, MigrationRaises,
     SaveChangelog, SaveArchive, CycleFails
<1>2. /\ job \in [Cycles -> Jobs] /\ pc \in [Cycles -> Places]
      /\ \A d \in Cycles : [job[d] EXCEPT !.stale = TRUE] \in Jobs
  BY DEF StoreInv, CyclesInv, PcType, Jobs
<1>3. pc'[c] \notin {"retag", "verify"} /\ \A d \in Cycles \ {c} : pc'[d] = pc[d]
  BY <1>2 DEF Begin, SaveMapping, ReadChangelog, ReadArchive, RefuseMigration, MigrationRaises,
     SaveChangelog, SaveArchive, CycleFails, Leave, Goto
<1>4. ASSUME NEW d \in Cycles \ {c}
      PROVE  job'[d] = job[d] \/ job'[d] = [job[d] EXCEPT !.stale = TRUE]
  <2>1. \A f \in [Cycles -> Jobs] : \A j : [f EXCEPT ![c] = j][d] = f[d]
    OBVIOUS
  <2>2. MarkStale(c) \in [Cycles -> Jobs]
    BY <1>2 DEF MarkStale
  <2>3. MarkStale(c)[d] = job[d] \/ MarkStale(c)[d] = [job[d] EXCEPT !.stale = TRUE]
    BY DEF MarkStale
  <2>4. CASE SaveChangelog(c) \/ SaveArchive(c)
    BY <2>1, <2>2, <2>3, <2>4 DEF SaveChangelog, SaveArchive
  <2>5. CASE ~(SaveChangelog(c) \/ SaveArchive(c))
    BY <1>2, <2>5 DEF Begin, SaveMapping, ReadChangelog, ReadArchive, RefuseMigration,
       MigrationRaises, CycleFails
  <2> QED BY <2>4, <2>5
<1>5. ASSUME NEW d \in Cycles PROVE MigrationOK(job'[d], pc'[d], series, suspect)
  <2>1. CASE d = c
    BY <1>3, <2>1, NotMigrating
  <2>2. CASE d # c
    <3>1. MigrationOK(job[d], pc'[d], series, suspect) /\ job[d] \in Jobs
      BY <1>2, <1>3, <2>2 DEF PointsInv
    <3>2. LET i == [job[d] EXCEPT !.stale = TRUE]
          IN i.log = job[d].log /\ i.heir = job[d].heir /\ i.bucket = job[d].bucket
             /\ i.count = job[d].count
      BY <3>1 DEF Jobs
    <3> QED BY <1>4, <2>2, <3>1, <3>2 DEF MigrationOK
  <2> QED BY <2>1, <2>2
<1> QED BY <1>1, <1>5 DEF PointsInv, PointsKept, pointHistory

\* The count is that of the points there are to copy.
LEMMA CountKeepsPoints ==
  ASSUME StoreInv, PointsInv, NEW c \in Cycles, CountPoints(c)
  PROVE  PointsInv'
<1> DEFINE k == job[c]
<1>0. /\ job \in [Cycles -> Jobs] /\ k \in Jobs /\ PcType /\ SeriesType
      /\ CycleOK(k, "migrate", changelog, archive) /\ pc[c] = "migrate"
  BY DEF StoreInv, CyclesInv, CountPoints
<1>1. PICK x \in IF k.heir = None THEN k.todo ELSE {k.heir} :
        LET j == [k EXCEPT !.heir = x]
        IN /\ j.log[x].from # x
           /\ IF Source(j) = {}
              THEN job' = [job EXCEPT ![c] = BucketDone(j)] /\ UNCHANGED pc
              ELSE /\ job' = [job EXCEPT ![c] = [j EXCEPT !.count = Cardinality(Source(j))]]
                   /\ Goto(c, "retag")
  BY DEF CountPoints
<1> DEFINE j == [k EXCEPT !.heir = x]
           n == [j EXCEPT !.count = Cardinality(Source(j))]
<1>2. UNCHANGED <<series, pointHistory>>
  BY DEF CountPoints
<1>3. x \in Known(k.log) /\ k.log[x].from \in Ids /\ x \in Ids /\ x # None
  BY <1>0, <1>1, ChangelogAssumption DEF CycleOK, HeirOK, Known
<1>4. j \in Jobs /\ j.todo = k.todo /\ j.heir = x /\ j.log = k.log /\ j.bucket \in Buckets
  BY <1>0, <1>3 DEF Jobs
<1>5. HeirOK(j)
  BY <1>0, <1>3, <1>4 DEF CycleOK, HeirOK
<1> HIDE DEF j
<1>6. CASE Source(j) = {}
  <2>1. job' = [job EXCEPT ![c] = BucketDone(j)] /\ Goto(c, "migrate")
    BY <1>0, <1>1, <1>6 DEF j, Goto, PcType
  <2>2. BucketDone(j) \in Jobs
    BY <1>3, <1>4, <1>5, BucketDoneOK
  <2>3. "migrate" \in Places
    BY DEF Places, Critical
  <2>4. MigrationOK(BucketDone(j), "migrate", series, suspect)
    BY NotMigrating
  <2> QED BY <1>2, <2>1, <2>2, <2>3, <2>4, PointsOwnStep
<1>7. CASE Source(j) # {}
  <2>1. job' = [job EXCEPT ![c] = n] /\ Goto(c, "retag") /\ j.log[x].from # x
    BY <1>1, <1>7 DEF j
  <2>2. IsFiniteSet(Source(j))
    BY <1>0, <1>3, <1>4, PointsFinite DEF Source
  <2>3. Cardinality(Source(j)) \in Nat /\ Cardinality(Source(j)) # 0
    BY <1>7, <2>2, FS_EmptySet, FS_CardinalityType
  <2>4. Cardinality(Source(j)) > 0
    BY <2>3
  <2>5. n \in Jobs /\ n.log = j.log /\ n.heir = x /\ n.bucket = j.bucket /\ n.count = Cardinality(Source(j))
    BY <1>4, <2>3 DEF Jobs
  <2> HIDE DEF n
  <2>6. MigrationOK(n, "retag", series, suspect)
    BY <1>4, <2>1, <2>4, <2>5 DEF MigrationOK, Source
  <2> QED BY <1>2, <2>1, <2>5, <2>6, PointsOwnStep DEF Places, Critical
<1> QED BY <1>6, <1>7

\* A point that was written is under some tag of the FCD bucket, unless its
\* series was migrated while another cycle wrote, two points met at one time
\* under one tag, or an incomplete copy hid behind points the new id had.
THEOREM NoPointLost == Spec => []PointsKept
<1>1. Init => PointsInv
  <2> SUFFICES ASSUME Init PROVE PointsInv
    OBVIOUS
  <2>1. PointsKept
    BY DEF Init, PointsKept
  <2>2. \A c \in Cycles : pc[c] \notin {"retag", "verify"}
    BY DEF Init
  <2> QED BY <2>1, <2>2, NotMigrating DEF PointsInv
<1>2. StoreInv /\ PointsInv /\ [Next]_vars => PointsInv'
  <2> SUFFICES ASSUME StoreInv, PointsInv, [Next]_vars PROVE PointsInv'
    OBVIOUS
  <2>1. CASE Restart
    <3>1. \A c \in Cycles : pc'[c] \notin {"retag", "verify"}
      BY <2>1 DEF Restart
    <3>2. PointsKept'
      BY <2>1 DEF Restart, pointHistory, PointsInv, PointsKept
    <3> QED BY <3>1, <3>2, NotMigrating DEF PointsInv
  <2>2. CASE Tick \/ Signal \/ WaitEnds \/ UNCHANGED vars
    <3>1. UNCHANGED <<job, pc, series, pointHistory>>
      BY <2>2 DEF Tick, Signal, WaitEnds, vars
    <3> QED BY <3>1 DEF PointsInv, PointsKept, pointHistory
  <2>3. ASSUME NEW c \in Cycles, Cycle(c) PROVE PointsInv'
    BY <2>3, WriteKeepsPoints, RetagKeepsPoints, DeleteKeepsPoints, CountKeepsPoints,
       OtherStepsKeepPoints DEF Cycle
  <2> QED BY <2>1, <2>2, <2>3 DEF Next
<1>3. PointsInv => PointsKept
  BY DEF PointsInv
<1> QED BY <1>1, <1>2, <1>3, StoreInvariance, PTL DEF Spec

-----------------------------------------------------------------------------
(* No retired series is inherited twice.                                   *)

\* Of two entries of log with one origin and different dates the earlier one
\* came before the origin's last removal that arch knows of.
Dated(log, arch, excused) ==
  \A x, y \in Known(log) :
    (log[x].from = log[y].from /\ log[x].from # None /\ log[x].added < log[y].added) =>
      \/ log[x].from \in excused
      \/ arch[log[x].from] # None /\ arch[log[x].from].at > log[x].added

\* The archive a cycle will save dates what it has removed, and is the saved
\* one for the rest.
ArchiveOK(j, arch) ==
  \A o \in Ids : IF o \in j.removed THEN j.arch[o] # None /\ j.arch[o].at = j.at
                 ELSE j.arch[o] = arch[o]

JobDated(j, p, arch, excused) ==
  ~(j.blind \/ j.stale) =>
    /\ p \in {"migrate", "retag", "verify"} => Dated(j.log, arch, excused \cup j.removed)
    /\ p \in {"migrate", "retag", "verify", "saveArchive"} => ArchiveOK(j, arch)

Excused == undated \cup UNION {InHand(c) : c \in Cycles}

DatedInv ==
  /\ Dated(changelog, archive, Excused)
  /\ \A c \in Cycles : JobDated(job[c], pc[c], archive, Excused)

LEMMA DatedMore ==
  \A log, arch, S, T : Dated(log, arch, S) /\ S \subseteq T => Dated(log, arch, T)
BY DEF Dated

LEMMA JobDatedMore ==
  \A j, p, arch, S, T : JobDated(j, p, arch, S) /\ S \subseteq T => JobDated(j, p, arch, T)
<1> SUFFICES ASSUME NEW j, NEW p, NEW arch, NEW S, NEW T, JobDated(j, p, arch, S), S \subseteq T
             PROVE  JobDated(j, p, arch, T)
  OBVIOUS
<1>1. S \cup j.removed \subseteq T \cup j.removed
  OBVIOUS
<1> QED BY <1>1, DatedMore DEF JobDated

\* The dates of the entries of a changelog are ticks.
LEMMA EntryDates ==
  /\ Times \subseteq Nat
  /\ \A log \in Logs : \A x \in Known(log) :
       x \in Ids /\ log[x] \in Entry /\ log[x].added \in Times /\ log[x].from \in Ids \cup {None}
<1>1. Times \subseteq Nat
  BY ChangelogAssumption DEF Times
<1>2. ASSUME NEW log \in Logs, NEW x \in Known(log)
      PROVE  x \in Ids /\ log[x] \in Entry /\ log[x].added \in Times /\ log[x].from \in Ids \cup {None}
  <2>1. x \in Ids /\ log[x] \in Entry
    BY DEF Known, Logs
  <2> QED BY <2>1 DEF Entry
<1> QED BY <1>1, <1>2

\* The guard of _collect_lookback_candidates: a new entry inherits either
\* from an id removed in this cycle or from one that no entry inherited from.
LEMMA ProcessedDated ==
  ASSUME NEW c \in Cycles, job[c] \in Jobs, NEW arch \in Archives, NEW j \in Processed(c, arch),
         NEW S, Dated(job[c].log, arch, S)
  PROVE  Dated(j.log, arch, S \cup j.removed) /\ ArchiveOK(j, arch)
<1> DEFINE k == job[c]
           gone == Removed(k.log, k.fresh)
           new == Added(k.log, k.fresh)
           log == NextLog(k.log, k.fresh, k.at)
           all == NextArchive(k.log, arch, k.fresh, k.at)
           old == IF gone = {} /\ Lookback = None THEN {}
                  ELSE gone \cup Recent(log, all, gone, k.at)
<1>0. k.log \in Logs /\ k.fresh \in SUBSET Ids /\ k.at \in Times
  BY DEF Jobs
<1>1. PICK m \in Matches(new, old) :
        j = [k EXCEPT !.log = Inherit(log, m), !.arch = all, !.removed = gone,
                      !.todo = Pending(Inherit(log, m))]
  BY DEF Processed
<1>2. j.log = Inherit(log, m) /\ j.arch = all /\ j.removed = gone /\ j.at = k.at
  BY <1>1 DEF Jobs
<1>3. m \in [new -> old \cup {None}]
  BY DEF Matches
<1>4. ASSUME NEW x \in Known(Inherit(log, m))
      PROVE  /\ x \in Known(log)
             /\ x \in new => /\ Inherit(log, m)[x].added = k.at
                             /\ Inherit(log, m)[x].from \in old \cup {None}
             /\ x \notin new => /\ Inherit(log, m)[x] = log[x] /\ x \in Known(k.log)
                                /\ log[x] = k.log[x]
  <2>0. x \in Ids /\ Inherit(log, m)[x] # None
    BY DEF Known
  <2>1. CASE x \in new
    <3>1. x \in k.fresh /\ k.log[x] = None
      BY <2>0, <2>1 DEF Added, Known
    <3>2. log[x] = NewEntry(k.at)
      BY <2>0, <3>1 DEF NextLog
    <3>3. Inherit(log, m)[x] = [NewEntry(k.at) EXCEPT !.from = m[x]]
      BY <1>3, <2>0, <2>1, <3>2 DEF Inherit
    <3>4. /\ [NewEntry(k.at) EXCEPT !.from = m[x]].added = k.at
          /\ [NewEntry(k.at) EXCEPT !.from = m[x]].from = m[x]
      BY DEF NewEntry
    <3>5. x \in Known(log)
      BY <1>0, <3>1, NextLogKnown
    <3> QED BY <1>3, <2>1, <3>3, <3>4, <3>5
  <2>2. CASE x \notin new
    <3>1. Inherit(log, m)[x] = log[x] /\ log[x] # None
      BY <1>3, <2>0, <2>2 DEF Inherit
    <3>2. x \in k.fresh /\ x \in Known(k.log)
      BY <2>0, <2>2, <3>1 DEF NextLog, Added
    <3> QED BY <2>0, <2>2, <3>1, <3>2 DEF NextLog, Known
  <2> QED BY <2>1, <2>2
<1>5. \A o \in old : o \in gone \/ o \notin Inherited(log)
  BY DEF Recent
<1>6. ArchiveOK(j, arch)
  <2>1. \A o \in Ids : all[o] = IF o \in gone THEN [at |-> k.at, geometry |-> TRUE] ELSE arch[o]
    BY DEF NextArchive
  <2>2. [at |-> k.at, geometry |-> TRUE] # None
    <3>1. [at |-> k.at, geometry |-> TRUE] \in Record
      BY <1>0 DEF Record
    <3> QED BY <3>1, ChangelogAssumption
  <2> HIDE DEF all, gone
  <2> QED BY <1>2, <2>1, <2>2 DEF ArchiveOK
<1> HIDE DEF gone, new, log, all, old
<1>7. ASSUME NEW x \in Known(j.log), NEW y \in Known(j.log), j.log[x].from = j.log[y].from,
             j.log[x].from # None, j.log[x].added < j.log[y].added
      PROVE  \/ j.log[x].from \in S \cup j.removed
             \/ arch[j.log[x].from] # None /\ arch[j.log[x].from].at > j.log[x].added
  <2>1. ASSUME NEW z \in {x, y}, z \in new PROVE j.log[x].from \in gone
    <3>1. j.log[x].from \in old
      BY <1>2, <1>4, <1>7, <2>1
    <3>2. PICK w \in {x, y} : w \notin new
      <4>1. k.at \in Nat
        BY <1>0, EntryDates
      <4>2. ~(k.at < k.at)
        BY <4>1
      <4> QED BY <1>2, <1>4, <1>7, <4>2
    <3>3. w \in Known(log) /\ log[w].from = j.log[x].from
      BY <1>2, <1>4, <1>7, <3>2
    <3>4. j.log[x].from \in Inherited(log)
      BY <1>7, <3>3 DEF Inherited
    <3> QED BY <1>5, <3>1, <3>4
  <2>2. CASE x \in new \/ y \in new
    BY <1>2, <2>1, <2>2
  <2>3. CASE x \notin new /\ y \notin new
    <3>1. /\ x \in Known(k.log) /\ j.log[x] = k.log[x]
          /\ y \in Known(k.log) /\ j.log[y] = k.log[y]
      BY <1>2, <1>4, <2>3
    <3> QED BY <1>7, <3>1 DEF Dated
  <2> QED BY <2>2, <2>3
<1>8. Dated(j.log, arch, S \cup j.removed)
  BY <1>7 DEF Dated
<1> QED BY <1>6, <1>8

\* A bucket that is done changes no origin and no date.
LEMMA BucketDoneDated ==
  ASSUME NEW j \in Jobs, HeirOK(j), j.heir # None, NEW p, NEW q, NEW arch, NEW S,
         {p, q} \subseteq {"migrate", "retag", "verify"}, JobDated(j, p, arch, S)
  PROVE  JobDated(BucketDone(j), q, arch, S)
<1> DEFINE i == BucketDone(j)
<1>1. j.log \in Logs /\ j.heir \in Ids /\ j.log[j.heir] \in Entry
  BY DEF Jobs, HeirOK, Known, Logs
<1>2. /\ i.removed = j.removed /\ i.arch = j.arch /\ i.at = j.at
      /\ i.blind = j.blind /\ i.stale = j.stale
      /\ i.log = j.log \/ i.log = [j.log EXCEPT ![j.heir].migrated = TRUE]
  BY DEF BucketDone, Jobs
<1>3. Known(i.log) = Known(j.log)
  BY BucketDoneOK
<1>4. \A x \in Known(i.log) : i.log[x].from = j.log[x].from /\ i.log[x].added = j.log[x].added
  <2>1. /\ [j.log[j.heir] EXCEPT !.migrated = TRUE].from = j.log[j.heir].from
        /\ [j.log[j.heir] EXCEPT !.migrated = TRUE].added = j.log[j.heir].added
    BY <1>1 DEF Entry
  <2>2. \A x \in Ids : [j.log EXCEPT ![j.heir].migrated = TRUE][x] =
                         IF x = j.heir THEN [j.log[j.heir] EXCEPT !.migrated = TRUE] ELSE j.log[x]
    BY <1>1 DEF Logs
  <2> QED BY <1>2, <2>1, <2>2 DEF Known
<1> HIDE DEF i
<1>5. ASSUME Dated(j.log, arch, S \cup j.removed) PROVE Dated(i.log, arch, S \cup i.removed)
  BY <1>2, <1>3, <1>4, <1>5 DEF Dated
<1>6. ArchiveOK(j, arch) => ArchiveOK(i, arch)
  BY <1>2 DEF ArchiveOK
<1>7. JobDated(i, q, arch, S)
  BY <1>2, <1>5, <1>6 DEF JobDated
<1> QED BY <1>7 DEF i

\* A step of one cycle that leaves the changelog and the archive alone, and
\* excuses what it drops.
LEMMA DatedOwnStep ==
  ASSUME StoreInv, DatedInv, NEW c \in Cycles, NEW j, NEW p,
         job' = [job EXCEPT ![c] = j], Goto(c, p), UNCHANGED <<changelog, archive>>,
         undated \cup InHand(c) \subseteq undated', JobDated(j, p, archive, Excused)
  PROVE  DatedInv'
<1>1. \A d \in Cycles : pc'[d] = (IF d = c THEN p ELSE pc[d])
                        /\ job'[d] = (IF d = c THEN j ELSE job[d])
  BY DEF StoreInv, CyclesInv, PcType, Goto
<1>2. \A d \in Cycles \ {c} : InHand(d)' = InHand(d)
  BY <1>1 DEF InHand
<1>3. Excused \subseteq Excused'
  BY <1>2 DEF Excused
<1>4. Dated(changelog', archive', Excused')
  BY <1>3, DatedMore DEF DatedInv
<1>5. ASSUME NEW d \in Cycles PROVE JobDated(job'[d], pc'[d], archive', Excused')
  <2>1. JobDated(job'[d], pc'[d], archive, Excused)
    BY <1>1 DEF DatedInv
  <2> QED BY <1>3, <2>1, JobDatedMore
<1> QED BY <1>4, <1>5 DEF DatedInv

\* A save: whatever the others have computed is stale.
LEMMA DatedSaveStep ==
  ASSUME StoreInv, DatedInv, NEW c \in Cycles, NEW j, NEW p,
         job' = [MarkStale(c) EXCEPT ![c] = j], Goto(c, p),
         Dated(changelog', archive', Excused'), JobDated(j, p, archive', Excused')
  PROVE  DatedInv'
<1>1. /\ MarkStale(c) \in [Cycles -> Jobs]
      /\ \A d \in Cycles : [job[d] EXCEPT !.stale = TRUE].stale
  <2>1. \A d \in Cycles : [job[d] EXCEPT !.stale = TRUE] \in Jobs
                          /\ [job[d] EXCEPT !.stale = TRUE].stale
    BY DEF StoreInv, CyclesInv, Jobs
  <2> QED BY <2>1 DEF MarkStale, StoreInv, CyclesInv
<1>2. \A d \in Cycles : pc'[d] = (IF d = c THEN p ELSE pc[d])
                        /\ job'[d] = (IF d = c THEN j ELSE MarkStale(c)[d])
  BY <1>1 DEF StoreInv, CyclesInv, PcType, Goto
<1>3. ASSUME NEW d \in Cycles \ {c} PROVE JobDated(job'[d], pc'[d], archive', Excused')
  <2>1. CASE pc[d] \in HasRead
    <3>1. job'[d].stale
      BY <1>1, <1>2, <2>1 DEF MarkStale
    <3> QED BY <3>1 DEF JobDated
  <2>2. CASE pc[d] \notin HasRead
    BY <1>2, <2>2 DEF JobDated, HasRead
  <2> QED BY <2>1, <2>2
<1> QED BY <1>2, <1>3 DEF DatedInv

\* The steps of a cycle before its saves.
LEMMA DatedWork ==
  ASSUME StoreInv, DatedInv, NEW c \in Cycles,
         \/ Begin(c) \/ WritePoints(c) \/ SaveMapping(c) \/ ReadChangelog(c) \/ ReadArchive(c)
         \/ RefuseMigration(c) \/ CountPoints(c) \/ RetagPoints(c) \/ VerifyAndDelete(c)
         \/ MigrationRaises(c)
  PROVE  DatedInv'
<1> DEFINE k == job[c]
<1>0. /\ job \in [Cycles -> Jobs] /\ k \in Jobs /\ CycleOK(k, pc[c], changelog, archive)
      /\ JobDated(k, pc[c], archive, Excused) /\ FilesType /\ SeriesType /\ PcType
  BY DEF StoreInv, CyclesInv, DatedInv
<1>1. UNCHANGED <<changelog, archive>> /\ undated \cup InHand(c) \subseteq undated'
  BY DEF InHand, stored, logHistory, Begin, WritePoints, SaveMapping, ReadChangelog, ReadArchive,
     RefuseMigration, CountPoints, RetagPoints, VerifyAndDelete, MigrationRaises
<1>2. ASSUME NEW j, NEW p, job' = [job EXCEPT ![c] = j], Goto(c, p),
             JobDated(j, p, archive, Excused)
      PROVE  DatedInv'
  BY <1>1, <1>2, DatedOwnStep
<1>3. ASSUME NEW j, NEW p, job' = [job EXCEPT ![c] = j], Goto(c, p),
             {pc[c], p} \subseteq {"migrate", "retag", "verify"},
             j.log = k.log, j.removed = k.removed, j.arch = k.arch, j.at = k.at,
             j.blind = k.blind, j.stale = k.stale
      PROVE  DatedInv'
  <2>1. JobDated(j, p, archive, Excused)
    BY <1>0, <1>3 DEF JobDated, ArchiveOK
  <2> QED BY <1>2, <1>3, <2>1
<1>4. CASE Begin(c) \/ WritePoints(c) \/ SaveMapping(c) \/ ReadChangelog(c)
  <2>1. PICK p \in {"points", "mapping", "changelog", "archive"} : Goto(c, p)
    BY <1>4 DEF Begin, WritePoints, SaveMapping, ReadChangelog
  <2>2. PICK j : job' = [job EXCEPT ![c] = j]
    <3>1. job = [job EXCEPT ![c] = k]
      BY <1>0
    <3> QED BY <1>0, <1>4, <3>1 DEF Begin, WritePoints, SaveMapping, ReadChangelog
  <2>3. JobDated(j, p, archive, Excused)
    BY <2>1 DEF JobDated
  <2> QED BY <1>2, <2>1, <2>2, <2>3
<1>5. CASE ReadArchive(c)
  <2>1. Goto(c, "migrate") /\ pc[c] = "archive" /\ k.heir = None
    BY <1>0, <1>5 DEF ReadArchive, CycleOK
  <2>2. CASE \E j \in Processed(c, archive) : job' = [job EXCEPT ![c] = j]
    <3>1. PICK j \in Processed(c, archive) : job' = [job EXCEPT ![c] = j]
      BY <2>2
    <3>2. archive \in Archives /\ j.blind = k.blind /\ j.stale = k.stale
      BY <1>0, <2>1, ProcessedOK DEF FilesType
    <3>3. ~(k.blind \/ k.stale) => Dated(k.log, archive, Excused)
      BY <1>0, <2>1 DEF CycleOK, DatedInv
    <3>4. ~(k.blind \/ k.stale) => Dated(j.log, archive, Excused \cup j.removed) /\ ArchiveOK(j, archive)
      BY <1>0, <3>2, <3>3, ProcessedDated
    <3>5. JobDated(j, "migrate", archive, Excused)
      BY <3>2, <3>4 DEF JobDated
    <3> QED BY <1>2, <2>1, <3>1, <3>5
  <2>3. CASE \E j \in Processed(c, Nothing) : job' = [job EXCEPT ![c] = [j EXCEPT !.blind = TRUE]]
    <3>1. PICK j \in Processed(c, Nothing) : job' = [job EXCEPT ![c] = [j EXCEPT !.blind = TRUE]]
      BY <2>3
    <3>2. Nothing \in Archives
      BY DEF Nothing, Archives
    <3>3. j \in Jobs
      BY <1>0, <2>1, <3>2, ProcessedOK
    <3>4. [j EXCEPT !.blind = TRUE].blind
      BY <3>3 DEF Jobs
    <3>5. JobDated([j EXCEPT !.blind = TRUE], "migrate", archive, Excused)
      BY <3>4 DEF JobDated
    <3> QED BY <1>2, <2>1, <3>1, <3>5
  <2> QED BY <1>5, <2>2, <2>3 DEF ReadArchive
<1>6. CASE RefuseMigration(c)
  <2>1. PICK x : job' = [job EXCEPT ![c].todo = @ \ {x}]
    BY <1>6 DEF RefuseMigration
  <2> DEFINE j == [k EXCEPT !.todo = @ \ {x}]
  <2>2. job' = [job EXCEPT ![c] = j] /\ pc[c] = "migrate" /\ Goto(c, "migrate")
    BY <1>0, <1>6, <2>1 DEF RefuseMigration, PcType, Goto
  <2>3. /\ j.log = k.log /\ j.removed = k.removed /\ j.arch = k.arch /\ j.at = k.at
        /\ j.blind = k.blind /\ j.stale = k.stale
    BY <1>0 DEF Jobs
  <2> HIDE DEF j
  <2> QED BY <1>3, <2>2, <2>3
<1>7. CASE CountPoints(c)
  <2>1. PICK x \in IF k.heir = None THEN k.todo ELSE {k.heir} :
          LET j == [k EXCEPT !.heir = x]
          IN IF Source(j) = {}
             THEN job' = [job EXCEPT ![c] = BucketDone(j)] /\ UNCHANGED pc
             ELSE /\ job' = [job EXCEPT ![c] = [j EXCEPT !.count = Cardinality(Source(j))]]
                  /\ Goto(c, "retag")
    BY <1>7 DEF CountPoints
  <2> DEFINE j == [k EXCEPT !.heir = x]
             n == [j EXCEPT !.count = Cardinality(Source(j))]
  <2>2. pc[c] = "migrate"
    BY <1>7 DEF CountPoints
  <2>3. x \in Known(k.log) /\ k.log[x].from \in Ids /\ x \in Ids /\ x # None
    BY <1>0, <2>1, ChangelogAssumption DEF CycleOK, HeirOK, Known
  <2>4. /\ j \in Jobs /\ j.todo = k.todo /\ j.heir = x /\ j.log = k.log /\ j.removed = k.removed
        /\ j.arch = k.arch /\ j.at = k.at /\ j.blind = k.blind /\ j.stale = k.stale
    BY <1>0, <2>3 DEF Jobs
  <2>5. HeirOK(j)
    BY <1>0, <2>3, <2>4 DEF CycleOK, HeirOK
  <2>6. JobDated(j, "migrate", archive, Excused)
    BY <1>0, <2>2, <2>4 DEF JobDated, ArchiveOK
  <2> HIDE DEF j
  <2>7. CASE Source(j) = {}
    <3>1. job' = [job EXCEPT ![c] = BucketDone(j)] /\ Goto(c, "migrate")
      BY <1>0, <2>1, <2>2, <2>7 DEF j, Goto, PcType
    <3>2. JobDated(BucketDone(j), "migrate", archive, Excused)
      BY <2>3, <2>4, <2>5, <2>6, BucketDoneDated
    <3> QED BY <1>2, <3>1, <3>2
  <2>8. CASE Source(j) # {}
    <3>1. job' = [job EXCEPT ![c] = n] /\ Goto(c, "retag")
      BY <2>1, <2>8 DEF j
    <3>2. /\ n.log = j.log /\ n.removed = j.removed /\ n.arch = j.arch /\ n.at = j.at
          /\ n.blind = j.blind /\ n.stale = j.stale
      BY <2>4 DEF Jobs
    <3> HIDE DEF n
    <3> QED BY <1>3, <2>2, <2>4, <3>1, <3>2
  <2> QED BY <2>7, <2>8
<1>8. CASE RetagPoints(c)
  <2>1. job' = [job EXCEPT ![c] = k] /\ pc[c] = "retag" /\ Goto(c, "verify")
    BY <1>0, <1>8 DEF RetagPoints
  <2> QED BY <1>3, <2>1
<1>9. CASE VerifyAndDelete(c)
  <2>1. job' = [job EXCEPT ![c] = BucketDone(k)] /\ pc[c] = "verify" /\ Goto(c, "migrate")
    BY <1>0, <1>9 DEF VerifyAndDelete
  <2>2. HeirOK(k) /\ k.heir # None
    BY <1>0, <2>1 DEF CycleOK
  <2>3. JobDated(BucketDone(k), "migrate", archive, Excused)
    BY <1>0, <2>1, <2>2, BucketDoneDated
  <2> QED BY <1>2, <2>1, <2>3
<1>10. CASE MigrationRaises(c)
  <2> DEFINE j == [k EXCEPT !.todo = @ \ {k.heir}, !.heir = None, !.bucket = 1, !.count = 0]
  <2>1. job' = [job EXCEPT ![c] = j] /\ pc[c] \in {"retag", "verify"} /\ Goto(c, "migrate")
    BY <1>0, <1>10 DEF MigrationRaises
  <2>2. /\ j.log = k.log /\ j.removed = k.removed /\ j.arch = k.arch /\ j.at = k.at
        /\ j.blind = k.blind /\ j.stale = k.stale
    BY <1>0 DEF Jobs
  <2> HIDE DEF j
  <2> QED BY <1>3, <2>1, <2>2
<1> QED BY <1>4, <1>5, <1>6, <1>7, <1>8, <1>9, <1>10

\* The repository drops inheritances, and makes none up.
LEMMA StoredDated ==
  ASSUME NEW log, NEW t, NEW kept \in StoredLogs(log, t), NEW arch, NEW S, Dated(log, arch, S)
  PROVE  Dated(kept, arch, S)
<1>1. CASE backend = "json"
  BY <1>1 DEF StoredLogs
<1>2. CASE backend # "json"
  <2>1. PICK y : kept = [x \in Ids |-> IF x = y THEN NewEntry(t) ELSE None]
    BY <1>2 DEF StoredLogs
  <2>2. \A x \in Known(kept) : kept[x].from = None
    BY <2>1 DEF Known, NewEntry
  <2> QED BY <2>2 DEF Dated
<1> QED BY <1>1, <1>2

\* The repository keeps the dates of the archive.
LEMMA StoredDates ==
  ASSUME NEW arch \in Archives, NEW o \in Ids, arch[o] # None
  PROVE  StoredArchive(arch)[o] # None /\ StoredArchive(arch)[o].at = arch[o].at
<1>1. arch[o] \in Record
  BY DEF Archives
<1>2. [arch[o] EXCEPT !.geometry = FALSE] \in Record /\ [arch[o] EXCEPT !.geometry = FALSE].at = arch[o].at
  BY <1>1 DEF Record
<1>3. [arch[o] EXCEPT !.geometry = FALSE] # None
  BY <1>2, ChangelogAssumption
<1> QED BY <1>2, <1>3 DEF StoredArchive

LEMMA DatedSaveChangelog ==
  ASSUME StoreInv, DatedInv, NEW c \in Cycles, SaveChangelog(c)
  PROVE  DatedInv'
<1> DEFINE k == job[c]
<1>0. /\ job \in [Cycles -> Jobs] /\ k \in Jobs /\ pc[c] = "migrate"
      /\ JobDated(k, "migrate", archive, Excused) /\ PcType
  BY DEF StoreInv, CyclesInv, DatedInv, SaveChangelog
<1>1. /\ changelog' \in StoredLogs(k.log, k.at) /\ archive' = archive
      /\ undated' = undated \cup (IF Overwrites(c) THEN Inherited(changelog') ELSE {})
  BY DEF SaveChangelog
<1>2. PICK j, p : /\ job' = [MarkStale(c) EXCEPT ![c] = j] /\ Goto(c, p)
                  /\ \/ j = NoJob /\ p = "idle" /\ k.removed = {}
                     \/ j = k /\ p = "saveArchive"
  <2>1. MarkStale(c) = [MarkStale(c) EXCEPT ![c] = k]
    BY DEF MarkStale
  <2> QED BY <2>1 DEF SaveChangelog, Leave
<1>3. /\ MarkStale(c) \in [Cycles -> Jobs]
      /\ \A d \in Cycles : [job[d] EXCEPT !.stale = TRUE].removed = job[d].removed
  <2>1. \A d \in Cycles : [job[d] EXCEPT !.stale = TRUE] \in Jobs
                          /\ [job[d] EXCEPT !.stale = TRUE].removed = job[d].removed
    BY <1>0 DEF Jobs
  <2> QED BY <1>0, <2>1 DEF MarkStale
<1>4. \A d \in Cycles : pc'[d] = (IF d = c THEN p ELSE pc[d])
                        /\ job'[d] = (IF d = c THEN j ELSE MarkStale(c)[d])
  BY <1>0, <1>2, <1>3 DEF PcType, Goto
<1>5. \A d \in Cycles \ {c} : InHand(d)' = InHand(d)
  BY <1>3, <1>4 DEF InHand, MarkStale
<1>6. InHand(c) = {} /\ k.removed \subseteq InHand(c)'
  BY <1>0, <1>2, <1>4 DEF InHand
<1>7. Excused \cup k.removed \subseteq Excused'
  BY <1>1, <1>5, <1>6 DEF Excused
<1>8. Dated(changelog', archive', Excused')
  <2>1. CASE Overwrites(c)
    <3>1. Inherited(changelog') \subseteq Excused'
      BY <1>1, <2>1 DEF Excused
    <3> QED BY <3>1 DEF Dated, Inherited
  <2>2. CASE ~Overwrites(c)
    <3>1. Dated(k.log, archive, Excused \cup k.removed)
      BY <1>0, <2>2 DEF JobDated, Overwrites
    <3>2. Dated(changelog', archive, Excused \cup k.removed)
      BY <1>1, <3>1, StoredDated
    <3> QED BY <1>1, <1>7, <3>2, DatedMore
  <2> QED BY <2>1, <2>2
<1>9. JobDated(j, p, archive', Excused')
  BY <1>0, <1>1, <1>2 DEF JobDated
<1> QED BY <1>2, <1>8, <1>9, DatedSaveStep

LEMMA DatedSaveArchive ==
  ASSUME StoreInv, DatedInv, NEW c \in Cycles, SaveArchive(c)
  PROVE  DatedInv'
<1> DEFINE k == job[c]
<1>0. /\ job \in [Cycles -> Jobs] /\ k \in Jobs /\ pc[c] = "saveArchive" /\ PcType
      /\ JobDated(k, "saveArchive", archive, Excused)
      /\ changelog \in Logs /\ archive \in Archives /\ k.arch \in Archives /\ k.at \in Times
  BY DEF StoreInv, CyclesInv, FilesType, DatedInv, SaveArchive, Jobs
<1>1. /\ changelog' = changelog /\ archive' = StoredArchive(k.arch)
      /\ undated' = IF Overwrites(c) \/ Late(c) THEN undated \cup Known(archive) \cup k.removed
                    ELSE undated \ k.removed
      /\ job' = [MarkStale(c) EXCEPT ![c] = NoJob] /\ Goto(c, "idle")
  BY DEF SaveArchive, Leave
<1>2. /\ MarkStale(c) \in [Cycles -> Jobs]
      /\ \A d \in Cycles : [job[d] EXCEPT !.stale = TRUE].removed = job[d].removed
  <2>1. \A d \in Cycles : [job[d] EXCEPT !.stale = TRUE] \in Jobs
                          /\ [job[d] EXCEPT !.stale = TRUE].removed = job[d].removed
    BY <1>0 DEF Jobs
  <2> QED BY <1>0, <2>1 DEF MarkStale
<1>3. \A d \in Cycles \ {c} : pc'[d] = pc[d] /\ job'[d] = MarkStale(c)[d]
  BY <1>0, <1>1, <1>2 DEF PcType, Goto
<1>4. \A d \in Cycles \ {c} : InHand(d)' = InHand(d)
  BY <1>2, <1>3 DEF InHand, MarkStale
<1>5. InHand(c) = k.removed
  BY <1>0 DEF InHand
<1>6. PICK others : /\ Excused \subseteq undated \cup k.removed \cup others
                    /\ undated' \cup others \subseteq Excused'
  <2>1. Excused \subseteq undated \cup k.removed \cup UNION {InHand(d) : d \in Cycles \ {c}}
    BY <1>5 DEF Excused
  <2>2. undated' \cup UNION {InHand(d) : d \in Cycles \ {c}} \subseteq Excused'
    BY <1>4 DEF Excused
  <2> QED BY <2>1, <2>2
<1>7. ASSUME NEW o \in Excused, o \in undated' \/ o \notin undated \cup k.removed
      PROVE  o \in Excused'
  BY <1>6, <1>7
<1>8. ASSUME NEW x \in Known(changelog), NEW y \in Known(changelog), NEW o,
             changelog[x].from = o, changelog[y].from = o, o # None,
             changelog[x].added < changelog[y].added
      PROVE  o \in Excused' \/ (archive'[o] # None /\ archive'[o].at > changelog[x].added)
  <2>0. o \in Ids /\ changelog[x].added \in Nat /\ changelog[y].added \in Nat /\ k.at \in Nat
    BY <1>0, <1>8, EntryDates
  <2>1. o \in Excused \/ (archive[o] # None /\ archive[o].at > changelog[x].added)
    <3>1. Dated(changelog, archive, Excused)
      BY DEF DatedInv
    <3> QED BY <1>8, <3>1 DEF Dated
  <2>2. CASE Overwrites(c) \/ Late(c)
    <3>1. undated \cup k.removed \subseteq undated' /\ Known(archive) \subseteq Excused'
      BY <1>1, <1>6, <2>2
    <3> QED BY <1>7, <2>0, <2>1, <3>1 DEF Known
  <2>3. CASE ~(Overwrites(c) \/ Late(c))
    <3>0. ArchiveOK(k, archive)
      BY <1>0, <2>3 DEF JobDated, Overwrites
    <3>1. CASE o \in k.removed
      <4>1. k.arch[o] # None /\ k.arch[o].at = k.at
        BY <2>0, <3>0, <3>1 DEF ArchiveOK
      <4>2. archive'[o] # None /\ archive'[o].at = k.at
        BY <1>0, <1>1, <2>0, <4>1, StoredDates
      <4>3. ~(changelog[y].added > k.at)
        BY <2>3 DEF Late
      <4>4. k.at > changelog[x].added
        BY <1>8, <2>0, <4>3
      <4> QED BY <4>2, <4>4
    <3>2. CASE o \notin k.removed
      <4>1. k.arch[o] = archive[o]
        BY <2>0, <3>0, <3>2 DEF ArchiveOK
      <4>2. CASE o \in Excused
        BY <1>1, <1>7, <2>3, <3>2, <4>2
      <4>3. CASE archive[o] # None /\ archive[o].at > changelog[x].added
        <5>1. archive'[o] # None /\ archive'[o].at = archive[o].at
          BY <1>0, <1>1, <2>0, <4>1, <4>3, StoredDates
        <5> QED BY <4>3, <5>1
      <4> QED BY <2>1, <4>2, <4>3
    <3> QED BY <3>1, <3>2
  <2> QED BY <2>2, <2>3
<1>9. Dated(changelog', archive', Excused')
  BY <1>1, <1>8 DEF Dated
<1>10. JobDated(NoJob, "idle", archive', Excused')
  BY DEF JobDated
<1> QED BY <1>1, <1>9, <1>10, DatedSaveStep

\* Of two live entries with the same origin that came in different cycles, the
\* origin was back in the mapping and archived again in between, unless its
\* last removal is not dated: cut off, saved over, or made by a late cycle.
THEOREM SeriesInheritedOnce == Spec => []InheritedOnce
<1>1. Init => DatedInv
  <2> SUFFICES ASSUME Init PROVE DatedInv
    OBVIOUS
  <2>1. Known(changelog) = {}
    BY DEF Init, Known, Nothing
  <2>2. \A c \in Cycles : pc[c] = "idle"
    BY DEF Init
  <2> QED BY <2>1, <2>2 DEF DatedInv, Dated, JobDated
<1>2. StoreInv /\ DatedInv /\ [Next]_vars => DatedInv'
  <2> SUFFICES ASSUME StoreInv, DatedInv, [Next]_vars PROVE DatedInv'
    OBVIOUS
  <2>1. ASSUME NEW c \in Cycles, CycleFails(c) PROVE DatedInv'
    <3>1. /\ job' = [job EXCEPT ![c] = NoJob] /\ Goto(c, "idle") /\ UNCHANGED <<changelog, archive>>
          /\ undated \cup InHand(c) \subseteq undated'
      BY <2>1 DEF CycleFails, Leave, stored
    <3>2. JobDated(NoJob, "idle", archive, Excused)
      BY DEF JobDated
    <3> QED BY <3>1, <3>2, DatedOwnStep
  <2>2. ASSUME NEW c \in Cycles, Cycle(c) PROVE DatedInv'
    BY <2>1, <2>2, DatedWork, DatedSaveChangelog, DatedSaveArchive DEF Cycle
  <2>3. CASE Restart
    <3>1. /\ UNCHANGED <<changelog, archive>> /\ \A c \in Cycles : pc'[c] = "idle"
          /\ undated' = Excused
      BY <2>3 DEF Restart, stored, Excused
    <3>2. Dated(changelog', archive', Excused')
      <4>1. Excused \subseteq Excused'
        BY <3>1 DEF Excused
      <4> QED BY <3>1, <4>1, DatedMore DEF DatedInv
    <3> QED BY <3>1, <3>2 DEF DatedInv, JobDated
  <2>4. CASE Tick \/ Signal \/ WaitEnds \/ UNCHANGED vars
    <3>1. UNCHANGED <<changelog, archive, pc, job, undated>>
      BY <2>4 DEF Tick, Signal, WaitEnds, vars, stored, logHistory
    <3> QED BY <3>1 DEF DatedInv, Excused, InHand
  <2> QED BY <2>2, <2>3, <2>4 DEF Next
<1>3. DatedInv => InheritedOnce
  BY DEF DatedInv, Dated, Excused, InheritedOnce
<1> QED BY <1>1, <1>2, <1>3, StoreInvariance, PTL DEF Spec

=============================================================================
