------------------------- MODULE DatabaseSync_proofs -------------------------
(***************************************************************************)
(* Proofs about the uploaded database: types, which malformed copies are   *)
(* discarded, and what a reading shows.                                    *)
(***************************************************************************)
EXTENDS DatabaseSync, TLAPS

\* The writer's own database has its tables, an upload is under way only below
\* the bound, and a process that is about to open its database has just run
\* the start-up's download.
SyncInv ==
  /\ TypeOK
  /\ View(source) \in Rows
  /\ writer = "upload" => CanUpload
  /\ pc = "open" => atStart

Tags == Files \cup (0..MaxUploads) \cup {None}

LEMMA DatabaseTypes ==
  ASSUME NEW db \in Database
  PROVE  /\ View(db) \in Files
         /\ Closed(db) \in Database /\ Opened(db) \in Database
         /\ Closed(db).wal = None
BY SyncAssumption DEF Database, View, Closed, Opened, Files, Rows

LEMMA NoFileType ==
  NoFile \in Database /\ View(Opened(NoFile)) = 0 /\ 0 \in Rows
BY SyncAssumption DEF NoFile, Database, Files, Rows, View, Opened

LEMMA ClosedView ==
  ASSUME NEW db \in Database
  PROVE  View(Closed(db)) = View(db)
BY DEF View, Closed

LEMMA SyncInit == Init => SyncInv
<1> SUFFICES ASSUME Init PROVE SyncInv
  OBVIOUS
<1>1. source \in Database /\ copy \in Database /\ View(source) \in Rows
  BY NoFileType, DatabaseTypes DEF Init
<1>2. object \in [file : Files, generation : 0..MaxUploads]
  BY SyncAssumption DEF Init, Files
<1>3. 0 \in Rows /\ 0 \in 0..MaxErrors - 1 /\ 0 \in 0..MaxMishaps
  BY SyncAssumption DEF Rows
<1> QED BY <1>1, <1>2, <1>3 DEF Init, SyncInv, TypeOK

\* What the writer changes and what the reader changes have types of their own.
WriterType ==
  /\ source \in Database /\ saved \in Rows /\ writer \in {"idle", "upload"}
  /\ object \in [file : Files, generation : 0..MaxUploads]
  /\ published \in Rows /\ View(source) \in Rows
  /\ writer = "upload" => CanUpload
ReaderType ==
  /\ copy \in Database /\ cached \in Tags
  /\ pc \in {"down", "open", "idle", "reconnect", "verify", "read"}
  /\ errors \in 0..MaxErrors - 1 /\ stuck \in BOOLEAN /\ seen \in Rows \cup {None}
  /\ intended \in Rows
  /\ spoilt \in {"no", "failed", "hidden", "discarded"} /\ atStart \in BOOLEAN
  /\ pc = "open" => atStart
CommonType == kind \in Kinds /\ store \in Stores /\ mishaps \in 0..MaxMishaps

LEMMA SyncParts == SyncInv <=> WriterType /\ ReaderType /\ CommonType
BY DEF SyncInv, TypeOK, WriterType, ReaderType, CommonType, Tags

LEMMA MishapType == CommonType /\ Mishap => mishaps' \in 0..MaxMishaps
BY SyncAssumption DEF CommonType, Mishap

LEMMA WriterStep ==
  ASSUME SyncInv, Writer
  PROVE  WriterType' /\ CommonType' /\ ReaderType'
<1>0. WriterType /\ ReaderType /\ CommonType
  BY SyncParts
<1>1. ReaderType'
  BY <1>0 DEF Writer, Save, SkipSave, Upload, UploadFails, WriterRestarts, reading, ReaderType
<1>2. CommonType'
  BY <1>0, MishapType DEF CommonType, Writer, Save, SkipSave, Upload, UploadFails,
     WriterRestarts, config
<1>3. CASE Save
  <2>1. saved' \in Rows
    BY <1>0, <1>3, SyncAssumption DEF Save, WriterType, Rows
  <2>2. source' \in Database /\ View(source') \in Rows
    BY <1>0, <1>3, <2>1, SyncAssumption DEF Save, WriterType, Database, Files, Rows, View
  <2> QED BY <1>0, <1>1, <1>2, <1>3, <2>1, <2>2 DEF Save, WriterType, CanUpload
<1>4. CASE SkipSave
  BY <1>0, <1>1, <1>2, <1>4 DEF SkipSave, WriterType, CanUpload
<1>5. CASE Upload
  <2>1. object.generation + 1 \in 0..MaxUploads
    BY <1>0, <1>5, SyncAssumption DEF Upload, WriterType, CanUpload
  <2>2. object' \in [file : Files, generation : 0..MaxUploads]
    BY <1>0, <1>5, <2>1 DEF Upload, WriterType, Database, Files, Damaged
  <2>3. published' \in Rows
    BY <1>0, <1>5 DEF Upload, WriterType
  <2> QED BY <1>0, <1>1, <1>2, <1>5, <2>2, <2>3 DEF Upload, WriterType
<1>6. CASE UploadFails
  BY <1>0, <1>1, <1>2, <1>6 DEF UploadFails, WriterType, CanUpload
<1>7. CASE WriterRestarts
  <2>1. source' \in Database /\ View(source') \in Rows
    BY <1>0, <1>7, NoFileType, DatabaseTypes, ClosedView DEF WriterRestarts, WriterType
  <2> QED BY <1>0, <1>1, <1>2, <1>7, <2>1 DEF WriterRestarts, WriterType, CanUpload
<1> QED BY <1>3, <1>4, <1>5, <1>6, <1>7 DEF Writer

-----------------------------------------------------------------------------
(* The reader's types.                                                     *)

DownloadType == copy \in Database /\ cached \in Tags /\ intended \in Rows
                  /\ spoilt \in {"no", "failed", "hidden", "discarded"}

LEMMA DownloadStep ==
  ASSUME SyncInv, Fetched \/ FetchedTorn \/ Unchanged \/ FetchFails
  PROVE  DownloadType' /\ mishaps' \in 0..MaxMishaps
<1>0. WriterType /\ ReaderType /\ CommonType
  BY SyncParts
<1>1. mishaps' \in 0..MaxMishaps
  BY <1>0, MishapType DEF Fetched, FetchedTorn, Unchanged, FetchFails, CommonType
<1>2. Tag \in Tags
  BY <1>0 DEF Tag, Tags, WriterType
<1>3. cached' \in Tags
  BY <1>0, <1>2 DEF Fetched, FetchedTorn, Unchanged, FetchFails, Remember, ReaderType
<1>4. \A file \in Files : [copy EXCEPT !.file = file] \in Database
  BY <1>0 DEF ReaderType, Database
<1>5. object.file \in Files /\ Pages \in Files /\ Bare \in Files /\ copy.file \in Files
  BY <1>0 DEF WriterType, ReaderType, Database, Files
<1>6. copy' \in Database
  BY <1>0, <1>4, <1>5 DEF Fetched, FetchedTorn, Unchanged, FetchFails, ReaderType
<1>7. intended' \in Rows /\ spoilt' \in {"no", "failed", "hidden", "discarded"}
  BY <1>0 DEF Fetched, FetchedTorn, Unchanged, FetchFails, ReaderType, WriterType
<1> QED BY <1>1, <1>3, <1>6, <1>7 DEF DownloadType

LEMMA DiesStep ==
  ASSUME NEW db \in Database, Dies(db)
  PROVE  /\ copy' \in Database /\ cached' \in Tags /\ pc' = "down"
         /\ errors' \in 0..MaxErrors - 1 /\ stuck' \in BOOLEAN
<1>1. 0 \in 0..MaxErrors - 1
  BY SyncAssumption
<1>2. Closed(db) \in Database
  BY DatabaseTypes
<1> QED BY <1>1, <1>2 DEF Dies, Tags

LEMMA HideType == ReaderType => Hide(copy) \in {"no", "failed", "hidden", "discarded"}
BY DEF Hide, ReaderType

LEMMA ReaderStepTypes ==
  ASSUME SyncInv, Reader
  PROVE  WriterType' /\ CommonType' /\ ReaderType'
<1>0. WriterType /\ ReaderType /\ CommonType
  BY SyncParts
<1>1. WriterType'
  BY <1>0 DEF Reader, ReaderStep, StartDownload, Open, Refresh, MonitorReconnects,
     OrchestratorReconnects, Verify, Read, ReadFails, StartRaises, RefreshRaises,
     ReaderRestarts, upstream, WriterType, CanUpload
<1>2. CommonType'
  <2>1. UNCHANGED config
    BY DEF Reader, ReaderStep, StartDownload, Open, Refresh, MonitorReconnects,
       OrchestratorReconnects, Verify, Read, ReadFails, StartRaises, RefreshRaises, ReaderRestarts
  <2>2. CASE StartDownload \/ Refresh
    BY <1>0, <2>1, <2>2, DownloadStep DEF StartDownload, Refresh, CommonType, config
  <2>3. CASE ~StartDownload /\ ~Refresh
    <3>1. mishaps' = mishaps \/ Mishap
      BY <2>3 DEF Reader, ReaderStep, Open, MonitorReconnects, OrchestratorReconnects,
         Verify, Read, ReadFails, StartRaises, RefreshRaises, ReaderRestarts
    <3> QED BY <1>0, <2>1, <3>1, MishapType DEF CommonType, config
  <2> QED BY <2>2, <2>3
<1>3. ReaderType'
  <2> USE <1>0
  <2>1. CASE StartDownload
    BY <2>1, DownloadStep DEF StartDownload, ReaderType, DownloadType, reading
  <2>2. CASE StartRaises
    BY <2>2 DEF StartRaises, ReaderType, reading
  <2>3. CASE Open
    <3>1. CASE Dies(copy) /\ UNCHANGED <<seen, spoilt>>
      BY <2>3, <3>1, DiesStep DEF Open, ReaderType
    <3>2. CASE copy' = Opened(copy) /\ spoilt' = Hide(copy) /\ pc' = "idle"
               /\ UNCHANGED <<cached, reading>>
      BY <2>3, <3>2, DatabaseTypes, HideType DEF Open, ReaderType, reading
    <3> QED BY <2>3, <3>1, <3>2 DEF Open
  <2>4. CASE Refresh
    <3>1. UNCHANGED reading /\ pc' \in {"reconnect", "read"} /\ atStart' \in BOOLEAN
      BY <2>4 DEF Refresh, ReaderType
    <3> QED BY <2>4, <3>1, DownloadStep DEF Refresh, ReaderType, DownloadType, reading
  <2>5. CASE RefreshRaises
    <3>1. CASE Dies(copy) /\ UNCHANGED seen
      BY <2>5, <3>1, DiesStep DEF RefreshRaises, ReaderType
    <3>2. CASE pc' = "read" /\ UNCHANGED <<copy, cached, reading>>
      BY <2>5, <3>2 DEF RefreshRaises, ReaderType, reading
    <3> QED BY <2>5, <3>1, <3>2 DEF RefreshRaises
  <2>6. CASE MonitorReconnects
    <3> DEFINE db == Closed(copy)
    <3>0. db \in Database /\ Opened(db) \in Database
      BY DatabaseTypes DEF ReaderType
    <3>1. CASE Dies(db) /\ UNCHANGED <<seen, spoilt>>
      BY <2>6, <3>0, <3>1, DiesStep DEF MonitorReconnects, ReaderType
    <3>2. CASE copy' = Opened(db) /\ spoilt' = Hide(copy) /\ pc' = "read"
               /\ UNCHANGED <<cached, reading>>
      BY <2>6, <3>0, <3>2, HideType DEF MonitorReconnects, ReaderType, reading
    <3> QED BY <2>6, <3>1, <3>2 DEF MonitorReconnects
  <2>7. CASE OrchestratorReconnects
    <3>1. stuck' \in BOOLEAN /\ pc' \in {"read", "verify"}
      BY <2>7 DEF OrchestratorReconnects, ReaderType
    <3>2. [copy EXCEPT !.wal = None] \in Database
      BY DEF ReaderType, Database
    <3>3. copy' \in Database
      BY <2>7, <3>2, DatabaseTypes DEF OrchestratorReconnects, ReaderType
    <3> QED BY <2>7, <3>1, <3>3 DEF OrchestratorReconnects, ReaderType
  <2>8. CASE Verify
    BY <2>8, NoFileType DEF Verify, ReaderType, Tags, reading
  <2>9. CASE Read
    <3>1. copy' \in Database
      BY <2>9, DatabaseTypes DEF Read, ReaderType
    <3>2. seen' \in Rows
      BY <2>9, SyncAssumption DEF Read, Readable, ReaderType, Opened, View, Database, Rows, Files
    <3>3. errors' \in 0..MaxErrors - 1
      BY <2>9, SyncAssumption DEF Read
    <3> QED BY <2>9, <3>1, <3>2, <3>3 DEF Read, ReaderType
  <2>10. CASE ReadFails
    <3>1. CASE Dies(copy)
      BY <2>10, <3>1, DiesStep DEF ReadFails, ReaderType
    <3>2. CASE ~Escalates /\ errors' = errors + 1 /\ pc' = "idle"
               /\ UNCHANGED <<copy, cached, stuck>>
      <4>1. errors' \in 0..MaxErrors - 1
        BY <3>2, SyncAssumption DEF Escalates, ReaderType
      <4> QED BY <2>10, <3>2, <4>1 DEF ReadFails, ReaderType
    <3> QED BY <2>10, <3>1, <3>2 DEF ReadFails
  <2>11. CASE ReaderRestarts
    <3>1. Dies(copy) \/ Dies(NoFile)
      BY <2>11 DEF ReaderRestarts
    <3> QED BY <2>11, <3>1, DiesStep, NoFileType DEF ReaderRestarts, ReaderType
  <2> QED BY <2>1, <2>2, <2>3, <2>4, <2>5, <2>6, <2>7, <2>8, <2>9, <2>10, <2>11
          DEF Reader, ReaderStep
<1> QED BY <1>1, <1>2, <1>3

LEMMA SyncStep == SyncInv /\ [Next]_vars => SyncInv'
<1>1. SyncInv /\ Next => SyncInv'
  BY WriterStep, ReaderStepTypes, SyncParts DEF Next, SyncInv, TypeOK, WriterType, ReaderType,
     CommonType, Tags
<1>2. SyncInv /\ UNCHANGED vars => SyncInv'
  BY DEF vars, config, upstream, reading, SyncInv, TypeOK, CanUpload
<1> QED BY <1>1, <1>2

THEOREM SyncInvariance == Spec => []SyncInv
BY SyncInit, SyncStep, PTL DEF Spec

\* Types; in particular the errors that the manager counts stay below the
\* number at which it gives up.
THEOREM SyncTypes == Spec => []TypeOK
<1>1. SyncInv => TypeOK
  BY DEF SyncInv
<1> QED BY <1>1, SyncInvariance, PTL

-----------------------------------------------------------------------------
(* Malformed copies.                                                       *)

LEMMA DiscardedStep == SyncInv /\ MalformedDiscarded /\ [Next]_vars => MalformedDiscarded'
<1> SUFFICES ASSUME SyncInv, MalformedDiscarded, [Next]_vars PROVE MalformedDiscarded'
  OBVIOUS
<1>0. ReaderType /\ (pc = "open" => atStart)
  BY SyncParts DEF SyncInv
<1> USE DEF MalformedDiscarded
<1>1. CASE Writer \/ UNCHANGED vars
  BY <1>1 DEF Writer, Save, SkipSave, Upload, UploadFails, WriterRestarts, vars, config, reading
<1>2. CASE StartDownload \/ StartRaises \/ ReaderRestarts
  BY <1>2 DEF StartDownload, StartRaises, ReaderRestarts, Dies
<1>3. CASE Open
  BY <1>0, <1>3 DEF Open, Dies
<1>4. CASE Refresh
  BY <1>4 DEF Refresh, Fetched, FetchedTorn, Unchanged, FetchFails, config, reading
<1>5. CASE RefreshRaises
  BY <1>5 DEF RefreshRaises, Dies, config, reading
<1>6. CASE MonitorReconnects
  BY <1>6 DEF MonitorReconnects, Dies, config
<1>7. CASE OrchestratorReconnects
  <2>1. CASE copy.file = Header /\ copy' = [copy EXCEPT !.wal = None]
    BY <1>0, <2>1, SyncAssumption DEF View, ReaderType, Database
  <2>2. CASE stuck' \/ pc' = "verify"
    BY <2>2
  <2> QED BY <1>7, <2>1, <2>2 DEF OrchestratorReconnects
<1>8. CASE Verify
  <2>1. View(NoFile) # Pages
    BY SyncAssumption DEF View, NoFile
  <2> QED BY <1>8, <2>1 DEF Verify, Malformed
<1>9. CASE Read
  <2>1. View(copy') # Pages
    BY <1>0, <1>9, SyncAssumption DEF Read, Readable, Opened, View, ReaderType, Database, Rows
  <2> QED BY <2>1
<1>10. CASE ReadFails
  BY <1>10 DEF ReadFails, Dies, config
<1> QED BY <1>1, <1>2, <1>3, <1>4, <1>5, <1>6, <1>7, <1>8, <1>9, <1>10
        DEF Next, Reader, ReaderStep

\* A malformed copy is discarded by the refresh that brought it, unless it
\* came at start-up, broke off, or could not be looked at.
THEOREM MalformedCopiesDiscarded == Spec => []MalformedDiscarded
<1>1. Init => MalformedDiscarded
  BY DEF Init, MalformedDiscarded
<1> QED BY <1>1, DiscardedStep, SyncInvariance, PTL DEF Spec

-----------------------------------------------------------------------------
(* What a reading shows.                                                   *)

\* Nothing in the log hides an unspoilt file once it is open.
Unhidden ==
  (spoilt = "no" /\ pc \in {"idle", "verify", "read"})
    => copy.wal = None \/ copy.wal = RowsIn(copy.file)

LEMMA OpenedUnhidden ==
  ASSUME NEW db \in Database, db.wal = None \/ db.wal = RowsIn(db.file)
  PROVE  Opened(db).wal = None \/ Opened(db).wal = RowsIn(Opened(db).file)
BY SyncAssumption DEF Opened, View, RowsIn, Database, Rows, Files

LEMMA UnhiddenStep == SyncInv /\ Unhidden /\ [Next]_vars => Unhidden'
<1> SUFFICES ASSUME SyncInv, Unhidden, [Next]_vars PROVE Unhidden'
  OBVIOUS
<1>0. ReaderType
  BY SyncParts
<1> USE DEF Unhidden
<1>a. copy \in Database /\ Closed(copy) \in Database /\ Closed(copy).wal = None
  BY <1>0, DatabaseTypes DEF ReaderType
<1>b. Hide(copy) = "no" => copy.wal = None \/ copy.wal = RowsIn(copy.file)
  BY <1>0 DEF Hide, RowsIn, ReaderType, Database
<1>1. CASE Writer \/ UNCHANGED vars
  BY <1>1 DEF Writer, Save, SkipSave, Upload, UploadFails, WriterRestarts, vars
<1>2. CASE StartDownload \/ StartRaises \/ ReaderRestarts
  BY <1>2 DEF StartDownload, StartRaises, ReaderRestarts, Dies
<1>3. CASE Open
  BY <1>3, <1>a, <1>b, OpenedUnhidden DEF Open, Dies
<1>4. CASE Refresh
  BY <1>4 DEF Refresh, Fetched, FetchedTorn, Unchanged, FetchFails
<1>5. CASE RefreshRaises
  BY <1>5 DEF RefreshRaises, Dies
<1>6. CASE MonitorReconnects
  BY <1>6, <1>a, OpenedUnhidden DEF MonitorReconnects, Dies
<1>7. CASE OrchestratorReconnects
  <2>1. CASE copy' = [copy EXCEPT !.wal = None]
    BY <1>a, <2>1 DEF Database
  <2>2. CASE copy.wal = None /\ copy' = Opened(copy)
    BY <1>a, <2>2, OpenedUnhidden
  <2> QED BY <1>7, <2>1, <2>2 DEF OrchestratorReconnects
<1>8. CASE Verify
  BY <1>8 DEF Verify
<1>9. CASE Read
  BY <1>9, <1>a, OpenedUnhidden DEF Read
<1>10. CASE ReadFails
  BY <1>10 DEF ReadFails, Dies
<1> QED BY <1>1, <1>2, <1>3, <1>4, <1>5, <1>6, <1>7, <1>8, <1>9, <1>10
        DEF Next, Reader, ReaderStep

\* A reading shows what was published with the file it reads, but for the
\* named ways in which a log or a broken copy comes between.
THEOREM ReadingsArePublished == Spec => ReadsPublished
<1>1. SyncInv /\ Unhidden /\ [Next]_vars
        => [(pc = "read" /\ pc' = "idle" /\ errors' = 0)
              => seen' = intended \/ Lagging \/ spoilt # "no"]_vars
  <2> SUFFICES ASSUME SyncInv, Unhidden, Next, pc = "read", pc' = "idle", errors' = 0,
                      ~Lagging, spoilt = "no"
               PROVE  seen' = intended
    BY DEF vars
  <2>0. ReaderType
    BY SyncParts
  <2>1. CASE Read
    <3>1. seen' = View(Opened(copy)) /\ Readable(copy) /\ copy \in Database
      BY <2>0, <2>1 DEF Read, ReaderType
    <3>2. RowsIn(copy.file) = intended
      BY DEF Lagging
    <3> QED BY <3>1, <3>2, SyncAssumption
            DEF Unhidden, Readable, View, Opened, RowsIn, Database, Rows, Files
  <2>2. ~ReadFails
    BY <2>0, SyncAssumption DEF ReadFails, Dies, ReaderType
  <2> QED BY <2>1, <2>2 DEF Next, Writer, Save, SkipSave, Upload, UploadFails, WriterRestarts,
          Reader, ReaderStep, StartDownload, Open, Refresh, MonitorReconnects,
          OrchestratorReconnects, Verify, StartRaises, RefreshRaises, ReaderRestarts, Dies
<1>2. Init => Unhidden
  BY DEF Init, Unhidden
<1> QED BY <1>1, <1>2, UnhiddenStep, SyncInvariance, PTL DEF Spec, ReadsPublished

=============================================================================
