---------------------------- MODULE DatabaseSync ----------------------------
(***************************************************************************)
(* A SQLite database that one service writes and another reads, through    *)
(* an object store: the writer uploads the file (GCSSync, LocalStorageSync)*)
(* and the reader downloads it when its tag has changed and reopens it     *)
(* (_SqliteConnectionManager).                                             *)
(*                                                                         *)
(* Two readers exist.  The monitor (traffic-monitor, of segments.db) has   *)
(* one thread and one connection.  The orchestrator (of disturbances.db)   *)
(* refreshes on a worker thread while its main thread keeps a connection   *)
(* of its own, verifies what it downloaded, and survives exceptions.       *)
(*                                                                         *)
(* A database is a file and a write-ahead log: the log holds what was      *)
(* committed since the last checkpoint and hides the file.  SQLite         *)
(* checkpoints when the log is long or when the last connection closes;    *)
(* nothing in the program asks for it, and an upload takes the file alone. *)
(* What the tables hold is the number of the save that filled them.        *)
(***************************************************************************)
EXTENDS Naturals

CONSTANTS
  Kinds,       \* subset of {"monitor", "orchestrator"}
  Stores,      \* subset of {"gcs", "local"}
  MaxErrors,   \* ErrorTracker.max_consecutive
  Absent,      \* no file
  Bare,        \* a file without tables
  Pages,       \* a file with malformed pages
  Header,      \* a file that is not a database
  None,
  MaxSaves,    \* bound: saves of the writer
  MaxUploads,  \* bound: uploads
  MaxMishaps   \* bound: failures and restarts

ASSUME SyncAssumption ==
  /\ Kinds \subseteq {"monitor", "orchestrator"} /\ Stores \subseteq {"gcs", "local"}
  /\ MaxErrors \in Nat \ {0} /\ MaxSaves \in Nat /\ MaxUploads \in Nat /\ MaxMishaps \in Nat
  /\ {Absent, Bare, Pages, Header, None} \cap Nat = {}
  /\ Absent \notin {Bare, Pages, Header, None} /\ Bare \notin {Pages, Header, None}
  /\ Pages \notin {Header, None} /\ Header # None

Rows == 0..MaxSaves              \* 0: tables without rows
Files == Rows \cup {Absent, Bare, Pages, Header}
Damaged == {Pages, Header}
Database == [file : Files, wal : Rows \cup {None}]

VARIABLES
  kind, store, \* which reader and which store
  source,      \* the writer's database
  saved,       \* saves so far
  writer,      \* the writer: idle or about to upload
  object,      \* the stored object and its generation
  copy,        \* the reader's database
  cached,      \* the reader's cached tag
  pc,          \* where the reader is
  errors,      \* the main loop's consecutive errors
  stuck,       \* the process' log index does not fit the log any more
  seen,        \* what the reader read last
  mishaps,
  published,   \* history: rows the writer had at its last upload
  intended,    \* history: rows the writer had when the copy's object was uploaded
  spoilt,      \* history: what happened to the copy since it was downloaded
  atStart      \* history: the copy was downloaded at start-up

config == <<kind, store>>
upstream == <<source, saved, writer, object, published>>
reading == <<errors, stuck, seen>>
vars == <<config, upstream, copy, cached, pc, reading, mishaps, intended, spoilt, atStart>>

----------------------------------------------------------------------------
(* Databases (SQLite's own rules and _validate_and_repair_schema).         *)

View(db) == IF db.wal # None THEN db.wal ELSE db.file

\* The last connection of a process closes: the log is written to the file.
Closed(db) == [file |-> View(db), wal |-> None]

\* Mutant: migration 001 is applied to every file and drops its rows.
Opened_Reapplied(db) ==
  IF db.file = Absent THEN [file |-> Bare, wal |-> 0] ELSE [db EXCEPT !.wal = 0]

\* A connection is opened on a database whose first page is readable; missing
\* tables are created, and stay in the log.
Opened(db) ==
  IF db.file = Absent THEN [file |-> Bare, wal |-> 0]
  ELSE IF View(db) = Bare THEN [db EXCEPT !.wal = 0] ELSE db

NoFile == [file |-> Absent, wal |-> None]

Init ==
  /\ kind \in Kinds /\ store \in Stores
  /\ source = Opened(NoFile) /\ saved = 0 /\ writer = "idle"
  /\ object = [file |-> Absent, generation |-> 0]
  /\ copy = NoFile /\ cached = None /\ pc = "down"
  /\ errors = 0 /\ stuck = FALSE /\ seen = None
  /\ mishaps = 0
  /\ published = 0 /\ intended = 0 /\ spoilt = "no" /\ atStart = FALSE

Mishap == mishaps < MaxMishaps /\ mishaps' = mishaps + 1

----------------------------------------------------------------------------
(* The writer.                                                             *)

CanUpload == object.generation < MaxUploads

\* A transaction is committed; the log may have become long enough for
\* SQLite to checkpoint it.
Save ==
  /\ writer = "idle" /\ saved < MaxSaves /\ CanUpload
  /\ saved' = saved + 1
  /\ \E checkpoint \in BOOLEAN :
       source' = IF checkpoint THEN [file |-> saved', wal |-> None]
                 ELSE [source EXCEPT !.wal = saved']
  /\ writer' = "upload"
  /\ UNCHANGED <<config, object, published, copy, cached, pc, reading, mishaps,
                 intended, spoilt, atStart>>

\* The traffic monitor uploads also when it had nothing to save or could not.
SkipSave ==
  /\ writer = "idle" /\ kind = "orchestrator" /\ CanUpload
  /\ writer' = "upload"
  /\ UNCHANGED <<config, source, saved, object, published, copy, cached, pc, reading,
                 mishaps, intended, spoilt, atStart>>

\* upload: the database file becomes the object.
Upload ==
  /\ writer = "upload"
  /\ \/ /\ object' = [file |-> source.file, generation |-> object.generation + 1]
        /\ UNCHANGED mishaps
     \/ /\ Mishap
        /\ \E damage \in Damaged :
             object' = [file |-> damage, generation |-> object.generation + 1]
  /\ published' = View(source)
  /\ writer' = "idle"
  /\ UNCHANGED <<config, source, saved, copy, cached, pc, reading, intended, spoilt, atStart>>

\* It returns False, or raises after its retries.
UploadFails ==
  /\ writer = "upload"
  /\ Mishap
  /\ writer' = "idle"
  /\ UNCHANGED <<config, source, saved, object, published, copy, cached, pc, reading,
                 intended, spoilt, atStart>>

\* The writer ends and is started again, on its volume or on an empty one.
WriterRestarts ==
  /\ Mishap
  /\ source' \in {source, Closed(source), Opened(NoFile)}
  /\ writer' = "idle"
  /\ UNCHANGED <<config, saved, object, published, copy, cached, pc, reading,
                 intended, spoilt, atStart>>

Writer == Save \/ SkipSave \/ Upload \/ UploadFails \/ WriterRestarts

----------------------------------------------------------------------------
(* download_if_changed.                                                    *)

\* GCS tells uploads apart, the local store contents.
Tag == IF store = "gcs" THEN object.generation ELSE object.file

Changed ==
  /\ object.file # Absent
  /\ cached # Tag \/ (store = "local" /\ copy.file = Absent)

\* Mutant: the tag is remembered before the download.
Remember_First(fetched) == Tag
Remember(fetched) == IF fetched THEN Tag ELSE cached

\* The file is replaced in place; its log stays.
Fetched ==
  /\ Changed
  /\ copy' = [copy EXCEPT !.file = object.file]
  /\ cached' = Remember(TRUE)
  /\ intended' = published /\ spoilt' = "no"
  /\ UNCHANGED mishaps

\* A copy from the local store is torn when the writer copies meanwhile.
FetchedTorn ==
  /\ Changed /\ store = "local"
  /\ Mishap
  /\ copy' = [copy EXCEPT !.file = Pages]
  /\ cached' = Remember(TRUE)
  /\ intended' = published /\ spoilt' = "no"

Unchanged ==
  /\ ~Changed
  /\ UNCHANGED <<copy, cached, mishaps, intended, spoilt>>

\* The transfer breaks off: the old file, an emptied one or a part is left.
FetchFails ==
  /\ Mishap
  /\ \E file \in {copy.file} \cup (IF Changed THEN {Bare, Pages} ELSE {}) :
       copy' = [copy EXCEPT !.file = file]
  /\ cached' = Remember(FALSE)
  /\ spoilt' = IF copy' = copy THEN spoilt ELSE "failed"
  /\ UNCHANGED intended

----------------------------------------------------------------------------
(* The reader.                                                             *)

\* The process ends.  Whether its connections are closed in order depends on
\* how it ends.
Dies(db) ==
  /\ pc' = "down"
  /\ copy' \in {db, Closed(db)}
  /\ cached' = None /\ errors' = 0 /\ stuck' = FALSE

\* A log left by a crash hides the file that was downloaded.
Hide(db) == IF db.wal # None /\ db.wal # db.file THEN "hidden" ELSE spoilt

\* The download at start-up, which nothing verifies.
StartDownload ==
  /\ pc = "down"
  /\ Fetched \/ FetchedTorn \/ Unchanged \/ FetchFails
  /\ atStart' = TRUE
  /\ pc' = "open"
  /\ UNCHANGED <<config, upstream, reading>>

\* GCSSync raises a transient error after four attempts.
StartRaises ==
  /\ pc = "down" /\ store = "gcs"
  /\ Mishap
  /\ UNCHANGED <<config, upstream, copy, cached, pc, reading, intended, spoilt, atStart>>

\* create_sqlite_repositories; a file that is no database ends the process.
Open ==
  /\ pc = "open"
  /\ \/ /\ View(copy) = Header
        /\ Dies(copy) /\ UNCHANGED <<seen, spoilt>>
     \/ /\ View(copy) # Header
        /\ copy' = Opened(copy) /\ spoilt' = Hide(copy)
        /\ pc' = "idle"
        /\ UNCHANGED <<cached, reading>>
  /\ UNCHANGED <<config, upstream, mishaps, intended, atStart>>

\* The download of a cycle.
Refresh ==
  /\ pc = "idle"
  /\ \/ Fetched /\ pc' = "reconnect" /\ atStart' = FALSE
     \/ FetchedTorn /\ pc' = "reconnect" /\ atStart' = FALSE
     \/ Unchanged /\ pc' = "read" /\ UNCHANGED atStart
     \/ FetchFails /\ pc' = "read" /\ UNCHANGED atStart
  /\ UNCHANGED <<config, upstream, reading>>

\* The transient error again: the manager catches it, the monitor does not.
RefreshRaises ==
  /\ pc = "idle" /\ store = "gcs"
  /\ Mishap
  /\ \/ /\ kind = "monitor" /\ Dies(copy) /\ UNCHANGED seen
     \/ /\ kind = "orchestrator" /\ pc' = "read"
        /\ UNCHANGED <<copy, cached, reading>>
  /\ UNCHANGED <<config, upstream, intended, spoilt, atStart>>

\* reconnect() closes the only connection before it deletes the log: SQLite
\* writes the old log over the file that was just downloaded.
MonitorReconnects ==
  /\ pc = "reconnect" /\ kind = "monitor"
  /\ LET db == Closed(copy)
     IN \/ /\ db.file = Header
           /\ Dies(db) /\ UNCHANGED <<seen, spoilt>>
        \/ /\ db.file # Header
           /\ copy' = Opened(db) /\ spoilt' = Hide(copy)
           /\ pc' = "read"
           /\ UNCHANGED <<cached, reading>>
  /\ UNCHANGED <<config, upstream, mishaps, intended, atStart>>

\* The main thread's connection is open: its index of a log that held
\* something does not fit the new one, and every access is an I/O error.
OrchestratorReconnects ==
  /\ pc = "reconnect" /\ kind = "orchestrator"
  /\ stuck' = (stuck \/ copy.wal # None)
  /\ \/ /\ stuck' \/ copy.file = Header
        /\ copy' = [copy EXCEPT !.wal = None]
        /\ pc' = "read"
     \/ /\ ~stuck' /\ copy.file # Header
        /\ copy' = Opened(copy)
        /\ pc' = "verify"
  /\ UNCHANGED <<config, upstream, cached, errors, seen, mishaps, intended, spoilt, atStart>>

\* Mutant: the check looks at the first page only.
Malformed_FirstPage(db) == View(db) = Header

\* PRAGMA quick_check finds something else than "ok".
Malformed(db) == View(db) = Pages

\* verify_integrity; a malformed copy is discarded and its tag forgotten.
Verify ==
  /\ pc = "verify"
  /\ IF Malformed(copy)
     THEN copy' = NoFile /\ cached' = None /\ spoilt' = "discarded"
     ELSE UNCHANGED <<copy, cached, spoilt>>
  /\ pc' = "read"
  /\ UNCHANGED <<config, upstream, reading, mishaps, intended, atStart>>

Readable(db) == db.file = Absent \/ View(db) \in Rows

\* get_disturbances, get_segments.  A discarded file is created anew, empty.
Read ==
  /\ pc = "read" /\ ~stuck /\ Readable(copy)
  /\ copy' = Opened(copy) /\ seen' = View(copy')
  /\ errors' = 0 /\ pc' = "idle"
  /\ UNCHANGED <<config, upstream, cached, stuck, mishaps, intended, spoilt, atStart>>

\* Mutant: the main loop never gives up.
Escalates_Never == FALSE
Escalates == errors + 1 >= MaxErrors

ReadFails ==
  /\ pc = "read"
  /\ stuck \/ ~Readable(copy)
  /\ \/ /\ kind = "monitor" \/ Escalates
        /\ Dies(copy)
     \/ /\ kind = "orchestrator" /\ ~Escalates
        /\ errors' = errors + 1 /\ pc' = "idle"
        /\ UNCHANGED <<copy, cached, stuck>>
  /\ UNCHANGED <<config, upstream, seen, mishaps, intended, spoilt, atStart>>

\* SIGTERM, a crash, or a new pod with an empty volume.
ReaderRestarts ==
  /\ pc # "down"
  /\ Mishap
  /\ \/ Dies(copy) \/ Dies(NoFile)
  /\ UNCHANGED <<config, upstream, seen, intended, spoilt, atStart>>

ReaderStep ==
  \/ StartDownload \/ Open \/ Refresh \/ MonitorReconnects \/ OrchestratorReconnects
  \/ Verify \/ Read \/ ReadFails

Reader == ReaderStep \/ StartRaises \/ RefreshRaises \/ ReaderRestarts

Next == Writer \/ Reader

\* The cycles of both services go on, and the container is started again.
Fairness == WF_vars(Upload) /\ WF_vars(ReaderStep)

Spec == Init /\ [][Next]_vars
FairSpec == Spec /\ Fairness

----------------------------------------------------------------------------
(* Properties.                                                             *)

TypeOK ==
  /\ kind \in Kinds /\ store \in Stores
  /\ source \in Database /\ saved \in Rows /\ writer \in {"idle", "upload"}
  /\ object \in [file : Files, generation : 0..MaxUploads]
  /\ copy \in Database /\ cached \in Files \cup (0..MaxUploads) \cup {None}
  /\ pc \in {"down", "open", "idle", "reconnect", "verify", "read"}
  /\ errors \in 0..MaxErrors - 1 /\ stuck \in BOOLEAN /\ seen \in Rows \cup {None}
  /\ mishaps \in 0..MaxMishaps
  /\ published \in Rows /\ intended \in Rows
  /\ spoilt \in {"no", "failed", "hidden", "discarded"} /\ atStart \in BOOLEAN

\* The rows of an object as a reader that opens it finds them.
RowsIn(file) == IF file \in Rows THEN file ELSE 0

Lagging == RowsIn(copy.file) # intended

\* A reading shows what the writer had committed when it uploaded the file,
\* unless the upload left the log behind, an old log hid the download, a
\* download broke off or the copy was discarded and created anew: the ways in
\* which "changes written by traffic-monitor each hour become visible"
\* (orchestrator main.py:162) fails, and there is no other.
ReadsPublished ==
  [][(pc = "read" /\ pc' = "idle" /\ errors' = 0) =>
       seen' = intended \/ Lagging \/ spoilt # "no"]_vars

\* A copy with malformed pages that the orchestrator goes on with is one the
\* start-up downloaded, which nothing verifies, or a download left it when it
\* broke off, or the refresh could not verify it for I/O errors; otherwise it
\* has been discarded (orchestrator main.py:168-172).
MalformedDiscarded ==
  (kind = "orchestrator" /\ pc \in {"idle", "read"} /\ View(copy) = Pages)
    => atStart \/ spoilt = "failed" \/ stuck

\* When uploads and failures are over the reader's last reading is what is in
\* the object, unless the object is damaged or an old log hides it: a process
\* that can read nothing any more ends and starts afresh.
Converges ==
  <>[](object.file \in {Absent} \cup Damaged \/ spoilt = "hidden"
         \/ seen = RowsIn(object.file))

\* "When it does download, reconnect() drops stale WAL/SHM journals so the
\* connection sees the new file's rows" (orchestrator main.py:164): after a
\* download of a sound file the next reading succeeds.
NewRowsSeen ==
  [][(pc = "read" /\ pc' = "idle" /\ copy.file \in Rows /\ mishaps = 0) => seen' = copy.file]_vars

=============================================================================
