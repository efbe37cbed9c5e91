------------------------ MODULE ThreadCoordinator ------------------------
(***************************************************************************)
(* The multi-threaded backfill of fcd-manager: the main thread (run() and  *)
(* the SIGTERM handler), the backfill workers, the InfluxDB writer and the *)
(* real-time worker, sharing a date queue and a bounded write queue        *)
(* (idea_shared/threading/{coordinator,date_queue,write_queue}.py and      *)
(* services/fcd-manager/src/main.py).                                      *)
(*                                                                         *)
(* A date range is its position 1..NumRanges in the order populate() puts  *)
(* them; a write request is a pair <<range, batch>>.  Time is abstracted:  *)
(* a timed wait may end whenever what it waits for has not happened, and   *)
(* `expired' says that the shutdown deadline has passed.                   *)
(***************************************************************************)
EXTENDS Integers, Sequences, FiniteSets

CONSTANTS
  Workers,          \* backfill worker threads (FCD_BACKFILL_WORKER_COUNT)
  NumRanges,        \* ranges put by populate(); at most DEAD_LETTER_QUEUE_MAX_SIZE
  NumBatches,       \* NumBatches[r]: blob batches listed for range r
  MaxRetries,       \* FCD_MAX_CHUNK_RETRIES
  MaxWriteRetries,  \* FCD_MAX_WRITE_RETRIES
  MaxQueueSize      \* FCD_WRITE_QUEUE_MAX_SIZE

Ranges == 1 .. NumRanges
NoRange == 0

ASSUME WorkersAssumption == Workers # {} /\ IsFiniteSet(Workers)
ASSUME SizesAssumption ==
  /\ NumRanges \in Nat
  /\ NumBatches \in [Ranges -> Nat]
  /\ MaxRetries \in Nat
  /\ MaxWriteRetries \in Nat \ {0}
  /\ MaxQueueSize \in Nat \ {0}

Request == Ranges \X (Nat \ {0})
RequestsOf(r) == {r} \X (1 .. NumBatches[r])

VARIABLES
  dateQueue,    \* DateRangeQueue._queue
  total,        \* DateRangeQueue._total_ranges
  completed,    \* DateRangeQueue._completed_ranges
  deadLetters,  \* DateRangeQueue._dead_letter_ranges
  retries,      \* DateRange.retry_count of each range
  finished,     \* history: the ranges counted by `completed'
  writeQueue,   \* InfluxDBWriteQueue._queue
  inFlight,     \* request taken by the writer, task_done() still due
  wqShutdown,   \* InfluxDBWriteQueue._shutdown
  handled,      \* history: requests counted by _total_writes, failed or not,
                \* and batches that produced no data
  shutdownEvent,\* ThreadCoordinator._shutdown_event
  expired,      \* shutdown(timeout): remaining <= 0
  worker,       \* control point of each worker
  held,         \* date_range of each worker
  pos,          \* next batch of the worker's generator
  putTries,     \* retry_count of _submit_write_with_retry
  writer,       \* control point of the writer
  realtime,     \* control point of the real-time worker
  main,         \* control point of the main thread
  threads,      \* ThreadCoordinator._worker_threads
  kept,         \* lock that run(), interrupted by the signal, has not let go
  saw           \* main's stats, read so far, say that the backfill is complete

dateVars   == <<dateQueue, total, completed, deadLetters, retries, finished>>
queueVars  == <<writeQueue, inFlight, wqShutdown>>
workerVars == <<worker, held, pos, putTries>>
mainVars   == <<main, threads, kept, saw, shutdownEvent, expired>>
vars == <<dateVars, queueVars, handled, workerVars, writer, realtime, mainVars>>

WorkerPoints == {"off", "loop", "get", "check", "process", "put", "backoff", "stopped"}
WriterPoints == {"off", "loop", "get", "write", "failed", "stopped"}
RealtimePoints == {"off", "loop", "cycle", "sleep", "stopped"}
RunPoints == {"populate", "startWriter", "startWorkers", "appendWorker", "pollDates",
              "pollWrites", "pollWorkers", "startRealtime", "initialCycle", "idle"}
ShutdownPoints == {"join", "drain", "draining", "shutdownQueue", "joinWriter", "exiting"}
Locks == {"dates",        \* DateRangeQueue._lock
          "datesMutex",   \* that, and the mutex of its Queue
          "writes",       \* InfluxDBWriteQueue._lock
          "writesMutex",  \* that, and the mutex of its Queue
          "log"}          \* the lock of the log's handler

Init ==
  /\ dateQueue = <<>> /\ total = 0 /\ completed = 0
  /\ deadLetters = {} /\ finished = {} /\ retries = [r \in Ranges |-> 0]
  /\ writeQueue = <<>> /\ inFlight = {} /\ wqShutdown = FALSE
  /\ handled = {}
  /\ worker = [w \in Workers |-> "off"] /\ held = [w \in Workers |-> NoRange]
  /\ pos = [w \in Workers |-> 1] /\ putTries = [w \in Workers |-> 0]
  /\ writer = "off" /\ realtime = "off"
  /\ main = "populate" /\ threads = {} /\ kept = "none"
  /\ saw = FALSE /\ shutdownEvent = FALSE /\ expired = FALSE

----------------------------------------------------------------------------
(* What the threads ask of the queues. *)

IsComplete_StrictBound == completed > total
IsComplete == completed >= total                   \* is_complete()
HasRoom_OffByOne == Len(writeQueue) <= MaxQueueSize
HasRoom == Len(writeQueue) < MaxQueueSize          \* Queue(maxsize) not full
CanRetry_OffByOne(r) == retries[r] <= MaxRetries
CanRetry(r) == retries[r] < MaxRetries
Unfinished == Len(writeQueue) + Cardinality(inFlight)  \* unfinished_tasks
WorkerAlive(w) == worker[w] \notin {"off", "stopped"}
NoWorkerAlive == \A w \in threads : ~WorkerAlive(w)  \* of _worker_threads
RealtimeAlive == realtime \notin {"off", "stopped"}
WriterAlive == writer \notin {"off", "stopped"}
Running == main # "exited"

\* Whether another thread than main gets a lock.  Main lets go of its locks by
\* itself, except of the one it holds when the signal interrupts it.
DatesFree == kept \notin {"dates", "datesMutex"}
DatesMutexFree == kept # "datesMutex"
WritesFree == kept \notin {"writes", "writesMutex"}
WritesMutexFree == kept # "writesMutex"
LogFree == kept # "log"

----------------------------------------------------------------------------
(* A backfill worker: _backfill_worker and _submit_write_with_retry. *)

Goto(w, p) == worker' = [worker EXCEPT ![w] = p]

\* The worker lets go of its range, for the top of the loop.
Release(w) ==
  /\ Goto(w, "loop")
  /\ held' = [held EXCEPT ![w] = NoRange]
  /\ pos' = [pos EXCEPT ![w] = 1]
  /\ putTries' = [putTries EXCEPT ![w] = 0]

WorkerLoop(w) ==
  /\ worker[w] = "loop"
  /\ shutdownEvent => LogFree
  /\ Goto(w, IF shutdownEvent THEN "stopped" ELSE "get")
  /\ UNCHANGED <<held, pos, putTries, dateVars, queueVars, handled>>

GetNextRange(w) ==
  /\ worker[w] = "get" /\ dateQueue # <<>> /\ DatesMutexFree
  /\ held' = [held EXCEPT ![w] = Head(dateQueue)]
  /\ dateQueue' = Tail(dateQueue)
  /\ Goto(w, "process")
  /\ UNCHANGED <<pos, putTries, total, completed, deadLetters, retries, finished,
                 queueVars, handled>>

GetRangeTimeout(w) ==
  /\ worker[w] = "get" /\ dateQueue = <<>> /\ DatesMutexFree
  /\ Goto(w, "check")
  /\ UNCHANGED <<held, pos, putTries, dateVars, queueVars, handled>>

CheckComplete(w) ==
  /\ worker[w] = "check" /\ DatesFree
  /\ IsComplete /\ dateQueue = <<>> => LogFree
  /\ Goto(w, IF IsComplete /\ dateQueue = <<>> THEN "stopped" ELSE "loop")
  /\ UNCHANGED <<held, pos, putTries, dateVars, queueVars, handled>>

HasBatch(w) == pos[w] <= NumBatches[held[w]]

\* The generator yields the data of the next batch.
YieldBatch(w) ==
  /\ worker[w] = "process" /\ HasBatch(w)
  /\ Goto(w, "put")
  /\ UNCHANGED <<held, pos, putTries, dateVars, queueVars, handled>>

\* No blob of the batch could be read: nothing is yielded for it.
SkipBatch(w) ==
  /\ worker[w] = "process" /\ HasBatch(w)
  /\ handled' = handled \cup {<<held[w], pos[w]>>}
  /\ pos' = [pos EXCEPT ![w] = @ + 1]
  /\ UNCHANGED <<worker, held, putTries, dateVars, queueVars>>

NextBatch(w) ==
  /\ Goto(w, "process")
  /\ pos' = [pos EXCEPT ![w] = @ + 1]
  /\ putTries' = [putTries EXCEPT ![w] = 0]

PutWriteRequest(w) ==
  /\ worker[w] = "put" /\ HasRoom /\ WritesMutexFree
  /\ writeQueue' = Append(writeQueue, <<held[w], pos[w]>>)
  /\ NextBatch(w)
  /\ UNCHANGED <<held, inFlight, wqShutdown, dateVars, handled>>

LastPut(w) == putTries[w] + 1 >= MaxWriteRetries

\* queue.Full, and another attempt after a pause.
PutTimeout(w) ==
  /\ worker[w] = "put" /\ ~HasRoom /\ ~LastPut(w) /\ WritesMutexFree /\ LogFree
  /\ putTries' = [putTries EXCEPT ![w] = @ + 1]
  /\ UNCHANGED <<worker, held, pos, dateVars, queueVars, handled>>

\* queue.Full at the last attempt taken for a success: the batch is lost.
RetryOrGiveUp_SwallowFull(w) ==
  IF worker[w] = "put"
  THEN NextBatch(w) /\ UNCHANGED <<held, deadLetters>>
  ELSE Goto(w, "backoff") /\ UNCHANGED <<held, pos, putTries, deadLetters>>
\* The dead-lettered range stays with the worker, which processes it again.
RetryOrGiveUp_KeepRange(w) ==
  IF CanRetry(held[w])
  THEN Goto(w, "backoff") /\ UNCHANGED <<held, pos, putTries, deadLetters>>
  ELSE /\ deadLetters' = deadLetters \cup {held[w]}
       /\ Goto(w, "process")
       /\ UNCHANGED <<held, pos, putTries>>
\* The except clause: a retry after a sleep, or the dead-letter queue.
RetryOrGiveUp(w) ==
  \/ /\ CanRetry(held[w])
     /\ Goto(w, "backoff")
     /\ UNCHANGED <<held, pos, putTries, deadLetters>>
  \/ /\ ~CanRetry(held[w]) /\ DatesFree
     /\ deadLetters' = deadLetters \cup {held[w]}
     /\ Release(w)

\* The generator raises: the listing fails, or a malformed blob.
ProcessingFails(w) ==
  /\ worker[w] = "process" /\ (HasBatch(w) \/ pos[w] = 1) /\ LogFree
  /\ RetryOrGiveUp(w)
  /\ UNCHANGED <<dateQueue, total, completed, retries, finished, queueVars, handled>>

PutFails(w) ==
  /\ worker[w] = "put" /\ ~HasRoom /\ LastPut(w) /\ WritesMutexFree /\ LogFree
  /\ RetryOrGiveUp(w)
  /\ UNCHANGED <<dateQueue, total, completed, retries, finished, queueVars, handled>>

\* After the sleep, which shutdown does not interrupt.
RequeueFailed(w) ==
  /\ worker[w] = "backoff" /\ DatesMutexFree
  /\ retries' = [retries EXCEPT ![held[w]] = @ + 1]
  /\ dateQueue' = Append(dateQueue, held[w])
  /\ Release(w)
  /\ UNCHANGED <<total, completed, deadLetters, finished, queueVars, handled>>

MarkCompleted(w) ==
  /\ worker[w] = "process" /\ ~HasBatch(w) /\ DatesFree
  /\ completed' = completed + 1
  /\ finished' = finished \cup {held[w]}
  /\ Release(w)
  /\ UNCHANGED <<dateQueue, total, deadLetters, retries, queueVars, handled>>

Worker(w) ==
  /\ Running
  /\ \/ WorkerLoop(w) \/ GetNextRange(w) \/ GetRangeTimeout(w) \/ CheckComplete(w)
     \/ YieldBatch(w) \/ SkipBatch(w) \/ PutWriteRequest(w) \/ PutTimeout(w)
     \/ ProcessingFails(w) \/ PutFails(w) \/ RequeueFailed(w) \/ MarkCompleted(w)
  /\ UNCHANGED <<writer, realtime, mainVars>>

----------------------------------------------------------------------------
(* The writer: _influxdb_writer. *)

WriterLoop ==
  /\ writer = "loop"
  /\ wqShutdown => LogFree
  /\ writer' = IF wqShutdown THEN "stopped" ELSE "get"
  /\ UNCHANGED <<queueVars, handled>>

GetNextRequest ==
  /\ writer = "get" /\ writeQueue # <<>> /\ WritesMutexFree
  /\ inFlight' = {Head(writeQueue)}
  /\ writeQueue' = Tail(writeQueue)
  /\ writer' = "write"
  /\ UNCHANGED <<wqShutdown, handled>>

\* Also at once when shutdown() has got in between.
GetRequestTimeout ==
  /\ writer = "get" /\ (wqShutdown \/ (writeQueue = <<>> /\ WritesMutexFree))
  /\ writer' = "loop"
  /\ UNCHANGED <<queueVars, handled>>

\* mark_completed()
MarkWritten ==
  /\ WritesFree
  /\ handled' = handled \cup inFlight
  /\ inFlight' = {}
  /\ writer' = "loop"
  /\ UNCHANGED <<writeQueue, wqShutdown>>

\* The write to InfluxDB succeeds, or there is no client to write with.
WriteRequest == writer = "write" /\ MarkWritten

WriteFails ==
  /\ writer = "write"
  /\ writer' = "failed"
  /\ UNCHANGED <<queueVars, handled>>

\* Mutant: a failed write is not marked as completed.
GiveUpRequest_NotCompleted ==
  /\ writer = "failed" /\ LogFree
  /\ writer' = "loop"
  /\ UNCHANGED <<queueVars, handled>>

\* A failed write is logged and counted, never repeated.
GiveUpRequest == writer = "failed" /\ LogFree /\ MarkWritten

Writer ==
  /\ Running
  /\ \/ WriterLoop \/ GetNextRequest \/ GetRequestTimeout
     \/ WriteRequest \/ WriteFails \/ GiveUpRequest
  /\ UNCHANGED <<dateVars, workerVars, realtime, mainVars>>

----------------------------------------------------------------------------
(* The real-time worker: _realtime_worker. *)

RealtimeLoop ==
  /\ realtime = "loop"
  /\ shutdownEvent => LogFree
  /\ realtime' = IF shutdownEvent THEN "stopped" ELSE "cycle"

\* One update cycle, whether it succeeds or not, then the sleep to the next.
RealtimeCycle == realtime = "cycle" /\ LogFree /\ realtime' = "sleep"
RealtimeWake == realtime = "sleep" /\ realtime' = "loop"

Realtime ==
  /\ Running
  /\ RealtimeLoop \/ RealtimeCycle \/ RealtimeWake
  /\ UNCHANGED <<dateVars, queueVars, handled, workerVars, writer, mainVars>>

----------------------------------------------------------------------------
(* The main thread: run(), up to its idle loop. *)

MainGoto(from, to) == main = from /\ main' = to

Populate ==
  /\ MainGoto("populate", "startWriter")
  /\ dateQueue' = [r \in Ranges |-> r]
  /\ total' = NumRanges
  /\ UNCHANGED <<completed, deadLetters, retries, finished, queueVars, workerVars,
                 writer, realtime, threads, saw>>

StartWriter ==
  /\ MainGoto("startWriter", "startWorkers")
  /\ writer' = "loop"
  /\ UNCHANGED <<dateVars, queueVars, workerVars, realtime, threads, saw>>

\* The workers are started in a fixed order.
NextToStart == CHOOSE w \in Workers : worker[w] = "off"

\* thread.start(): the worker runs before the coordinator has noted it.
StartWorker ==
  /\ MainGoto("startWorkers", "appendWorker")
  /\ \E w \in Workers : w = NextToStart /\ worker[w] = "off" /\ Goto(w, "loop")
  /\ UNCHANGED <<dateVars, queueVars, held, pos, putTries, writer, realtime, threads, saw>>

\* _worker_threads.append(thread), for the one just started.
AppendWorker ==
  /\ MainGoto("appendWorker",
              IF \A w \in Workers : worker[w] # "off" THEN "pollDates" ELSE "startWorkers")
  /\ threads' = {w \in Workers : worker[w] # "off"}
  /\ UNCHANGED <<dateVars, queueVars, workerVars, writer, realtime, saw>>

\* The statistics are read one after the other, under different locks.
PollDates ==
  /\ MainGoto("pollDates", "pollWrites")
  /\ saw' = (completed = total)
  /\ UNCHANGED <<dateVars, queueVars, workerVars, writer, realtime, threads>>

PollWrites ==
  /\ MainGoto("pollWrites", "pollWorkers")
  /\ saw' = (saw /\ writeQueue = <<>>)
  /\ UNCHANGED <<dateVars, queueVars, workerVars, writer, realtime, threads>>

\* Completion judged by the workers alone.
PollWorkers_IgnoreStats ==
  /\ MainGoto("pollWorkers", IF NoWorkerAlive THEN "startRealtime" ELSE "pollDates")
  /\ UNCHANGED <<dateVars, queueVars, workerVars, writer, realtime, threads, saw>>
PollWorkers ==
  /\ MainGoto("pollWorkers", IF saw /\ NoWorkerAlive THEN "startRealtime" ELSE "pollDates")
  /\ UNCHANGED <<dateVars, queueVars, workerVars, writer, realtime, threads, saw>>

StartRealtime ==
  /\ MainGoto("startRealtime", "initialCycle")
  /\ realtime' = "loop"
  /\ UNCHANGED <<dateVars, queueVars, workerVars, writer, threads, saw>>

InitialCycle ==
  /\ MainGoto("initialCycle", "idle")
  /\ UNCHANGED <<dateVars, queueVars, workerVars, writer, realtime, threads, saw>>

Run ==
  /\ \/ Populate \/ StartWriter \/ StartWorker \/ AppendWorker \/ PollDates \/ PollWrites
     \/ PollWorkers \/ StartRealtime \/ InitialCycle
  /\ UNCHANGED <<kept, shutdownEvent, expired>>

----------------------------------------------------------------------------
(* SIGTERM interrupts the main thread between any two of its bytecodes;    *)
(* the handler calls shutdown(timeout), which first sets its event, and    *)
(* never returns to run().  A lock that run() holds just then stays held   *)
(* until the handler's SystemExit unwinds it, after shutdown().            *)

\* The locks run() may be holding at a point, while it reads the statistics or
\* logs.  (In populate() nobody else runs who could miss one.)
LocksAt(p) ==
  CASE p = "pollDates" -> {"none", "dates", "datesMutex", "log"}
    [] p = "pollWrites" -> {"none", "writes", "writesMutex"}
    [] p = "pollWorkers" -> {"none", "dates", "log"}
    [] p \in {"startWorkers", "startRealtime", "initialCycle"} -> {"none", "log"}
    [] OTHER -> {"none"}

SigTerm ==
  /\ main \in RunPoints
  /\ kept' \in LocksAt(main)
  /\ shutdownEvent' = TRUE
  /\ main' = "join" /\ saw' = FALSE
  /\ UNCHANGED <<dateVars, queueVars, handled, workerVars, writer, realtime, threads, expired>>

TimeExpires ==
  /\ main \in ShutdownPoints \ {"exiting"} /\ ~expired
  /\ expired' = TRUE
  /\ UNCHANGED <<dateVars, queueVars, handled, workerVars, writer, realtime, main, threads,
                 kept, saw, shutdownEvent>>

\* The real-time worker and then the workers are joined, for what is left of
\* the timeout.
JoinThreads_NoWait ==
  /\ MainGoto("join", "drain")
  /\ expired \/ ~RealtimeAlive
  /\ UNCHANGED <<wqShutdown, shutdownEvent, expired, kept>>
JoinThreads ==
  /\ MainGoto("join", "drain")
  /\ expired \/ (~RealtimeAlive /\ NoWorkerAlive)
  /\ UNCHANGED <<wqShutdown, shutdownEvent, expired, kept>>

\* With time left: queue.join(), which has no timeout of its own and takes the
\* mutex itself.
StartDrain ==
  /\ MainGoto("drain", IF expired THEN "shutdownQueue" ELSE "draining")
  /\ UNCHANGED <<wqShutdown, shutdownEvent, expired, kept>>

Drain ==
  /\ MainGoto("draining", "shutdownQueue")
  /\ Unfinished = 0 /\ WritesMutexFree
  /\ UNCHANGED <<wqShutdown, shutdownEvent, expired, kept>>

ShutdownQueue ==
  /\ MainGoto("shutdownQueue", "joinWriter")
  /\ wqShutdown' = TRUE
  /\ UNCHANGED <<shutdownEvent, expired, kept>>

\* The InfluxDB client is closed; then sys.exit() unwinds run(), and its lock
\* is free again.
JoinWriter ==
  /\ MainGoto("joinWriter", "exiting")
  /\ expired \/ ~WriterAlive
  /\ kept' = "none"
  /\ UNCHANGED <<wqShutdown, shutdownEvent, expired>>

\* The interpreter waits for the real-time thread, the only non-daemon one.
Exit ==
  /\ MainGoto("exiting", "exited")
  /\ ~RealtimeAlive
  /\ UNCHANGED <<wqShutdown, shutdownEvent, expired, kept>>

Shutdown ==
  /\ JoinThreads \/ StartDrain \/ Drain \/ ShutdownQueue \/ JoinWriter \/ Exit
  /\ UNCHANGED <<dateVars, writeQueue, inFlight, workerVars, writer, realtime, threads, saw>>

Main == (Run \/ Shutdown) /\ UNCHANGED handled

\* The end: the process has ended, or queue.join() waits for a lock that only
\* the interrupted run() could let go.
Terminated ==
  /\ ~Running \/ (main = "draining" /\ kept # "none")
  /\ UNCHANGED vars

Next ==
  \/ \E w \in Workers : Worker(w)
  \/ Writer \/ Realtime \/ Main \/ SigTerm \/ TimeExpires \/ Terminated

Spec == Init /\ [][Next]_vars

\* Every thread is an OS thread that runs while nothing it waits for is
\* missing, and the clock runs, so that the deadline passes; the signal need
\* not come.
Fairness ==
  /\ \A w \in Workers : WF_vars(Worker(w))
  /\ WF_vars(Writer) /\ WF_vars(Realtime) /\ WF_vars(Main) /\ WF_vars(TimeExpires)

FairSpec == Spec /\ Fairness

----------------------------------------------------------------------------
(* Properties *)

\* Types; in particular the write queue never exceeds FCD_WRITE_QUEUE_MAX_SIZE,
\* and nobody tries a put more often than FCD_MAX_WRITE_RETRIES allows.
TypeOK ==
  /\ dateQueue \in Seq(Ranges) /\ total \in {0, NumRanges} /\ completed \in Nat
  /\ deadLetters \subseteq Ranges /\ finished \subseteq Ranges
  /\ retries \in [Ranges -> Nat]
  /\ writeQueue \in Seq(Request) /\ Len(writeQueue) <= MaxQueueSize
  /\ inFlight \subseteq Request /\ wqShutdown \in BOOLEAN
  /\ handled \subseteq Request
  /\ shutdownEvent \in BOOLEAN /\ expired \in BOOLEAN /\ saw \in BOOLEAN
  /\ worker \in [Workers -> WorkerPoints]
  /\ held \in [Workers -> Ranges \cup {NoRange}]
  /\ pos \in [Workers -> Nat \ {0}]
  /\ putTries \in [Workers -> 0 .. MaxWriteRetries - 1]
  /\ writer \in WriterPoints /\ realtime \in RealtimePoints
  /\ main \in RunPoints \cup ShutdownPoints \cup {"exited"}
  /\ threads \subseteq Workers /\ kept \in Locks \cup {"none"}

Queued == {dateQueue[i] : i \in DOMAIN dateQueue}
Held == {held[w] : w \in Workers} \ {NoRange}

\* No range is lost and none is worked on twice at a time: once populated,
\* each is in the queue once, or with one worker, or completed, or in the
\* dead-letter queue, through every retry and through a shutdown that
\* interrupts them (get_next_range, requeue_failed, move_to_dead_letter).
RangeConservation ==
  /\ total = NumRanges => Ranges = Queued \cup Held \cup finished \cup deadLetters
  /\ \A i, j \in DOMAIN dateQueue : dateQueue[i] = dateQueue[j] => i = j
  /\ \A v, w \in Workers : held[v] = held[w] => v = w \/ held[v] = NoRange
  /\ Queued \cap Held = {} /\ (Queued \cup Held) \cap (finished \cup deadLetters) = {}
  /\ finished \cap deadLetters = {}

Tracked == Request \cap
  ({writeQueue[i] : i \in DOMAIN writeQueue} \cup inFlight \cup handled)

\* Every batch of a completed range has reached the write queue or was found
\* empty: no batch disappears between the generator and the writer, however
\* often the range was retried or a put timed out (_submit_write_with_retry).
BatchesAccounted == \A r \in finished : RequestsOf(r) \subseteq Tracked

\* A range is given up only after exactly MaxRetries retries, never retried
\* more often, and `completed' counts each completed range once: the numbers
\* by which the workers and run() judge progress.
ProgressExact ==
  /\ completed = Cardinality(finished)
  /\ \A r \in Ranges : retries[r] <= MaxRetries
  /\ \A r \in deadLetters : retries[r] = MaxRetries

\* The real-time worker starts only when every range is completed, no request
\* is waiting and every worker has stopped, although run() reads these facts
\* at three different times while the threads move on.
RealtimeAfterBackfill ==
  realtime # "off" =>
    /\ finished = Ranges /\ deadLetters = {} /\ writeQueue = <<>>
    /\ \A w \in Workers : ~WorkerAlive(w)

\* Started, but not noted in _worker_threads when the signal came.
Missed == {w \in Workers : worker[w] # "off"} \ threads

\* When shutdown() closes the InfluxDB client in time, the writer has stopped
\* with every request that it took, and all workers have stopped before it,
\* so that nothing stays queued.  The one exception is the worker that start_backfill()
\* was starting when the signal came: shutdown() does not know it, it may run
\* on, and only because of it may a request be left behind.
GracefulShutdown ==
  main \in {"exiting", "exited"} /\ ~expired =>
    /\ inFlight = {} /\ ~WriterAlive
    /\ \A w \in Workers \ Missed : ~WorkerAlive(w)
    /\ writeQueue # <<>> => \E w \in Workers : Missed = {w}

\* Unless a range is given up or the process is told to stop, the backfill
\* ends and the service goes on to its real-time updates; run() never polls for
\* ever.  (None of the three is ever undone, so "again and again" is "at last".)
BackfillLeadsToRealtime ==
  []<>(realtime # "off" \/ deadLetters # {} \/ main \notin RunPoints)

\* SIGTERM ends the process, whatever the threads are doing, although
\* queue.join() and the interpreter's wait for the real-time thread are
\* untimed: shutdown() does not go on for ever.  It may be held up in one place
\* only, at queue.join(), and only if it interrupted run() with a lock in its
\* hands that join() itself or the writer needs: the write queue's, or the log's.
SigTermLeadsToExit ==
  []<>
    \/ main \notin ShutdownPoints
    \/ main = "draining" /\ kept \in {"writes", "writesMutex", "log"}

\* The threads and queues carry out the abstract backfill: a range is settled
\* once, and real-time updates follow only when every range is completed.
Status == [r \in Ranges |->
  IF r \in finished THEN "completed"
  ELSE IF r \in deadLetters THEN "deadLettered" ELSE "pending"]
Progress == INSTANCE BackfillProgress WITH status <- Status, announced <- realtime # "off"
ImplementsProgress == Progress!Spec

\* docs/PRD_fcd_manager_multithreading.md:91: "Once backfill complete, backfill
\* threads terminate"; docs/threading_architecture_design.md:588: "Mark work as
\* completed even on error (prevents hangs)".
WorkersTerminate ==
  main = "pollDates" ~> (NoWorkerAlive \/ main \in ShutdownPoints)
============================================================================
