---------------------------- MODULE DateChunks ----------------------------
(***************************************************************************)
(* How the backfill's time span becomes date ranges, and which blobs a     *)
(* range stands for: DateRangeQueue.populate (threading/date_queue.py) and *)
(* AzureBlobContainerManager.get_blobs_in_range.                           *)
(*                                                                         *)
(* An instant is a natural number, Day instants make a calendar day, and   *)
(* the container holds one blob per instant.  The span starts and ends at  *)
(* any time of day: run() passes the time of the last point stored and the *)
(* present.                                                                *)
(***************************************************************************)
EXTENDS Integers, Sequences, FiniteSets

CONSTANTS
  Day,           \* instants of a day
  Horizon,       \* bound: the last instant considered
  MaxChunkDays   \* bound on FCD_BACKFILL_CHUNK_DAYS

ASSUME DayAssumption == Day \in Nat \ {0} /\ Horizon \in Nat /\ MaxChunkDays \in Nat \ {0}

Instants == 0 .. Horizon

VARIABLES
  start,      \* start_date
  end,        \* end_date
  chunkDays,  \* chunk_days
  current,    \* the loop's `current'
  chunks      \* the ranges put into the queue

span == <<start, end, chunkDays>>
vars == <<span, current, chunks>>

Init ==
  /\ start \in Instants /\ end \in start .. Horizon
  /\ chunkDays \in 1 .. MaxChunkDays
  /\ current = start /\ chunks = <<>>

----------------------------------------------------------------------------
(* populate() *)

Earlier(s, t) == IF s <= t THEN s ELSE t

ChunkEnd_TwoOff(from) == Earlier(from + (chunkDays - 2) * Day, end)
ChunkEnd_NotCapped(from) == from + (chunkDays - 1) * Day
ChunkEnd_FullDays(from) == Earlier(from + chunkDays * Day, end)
ChunkEnd(from) == Earlier(from + (chunkDays - 1) * Day, end)

PutChunk_NextAtEnd ==
  /\ current <= end
  /\ chunks' = Append(chunks, [start |-> current, end |-> ChunkEnd(current)])
  /\ current' = IF ChunkEnd(current) > current THEN ChunkEnd(current) ELSE current + Day
  /\ UNCHANGED span

PutChunk ==
  /\ current <= end
  /\ chunks' = Append(chunks, [start |-> current, end |-> ChunkEnd(current)])
  /\ current' = ChunkEnd(current) + Day
  /\ UNCHANGED span

Populated == current > end

Terminated == Populated /\ UNCHANGED vars

Next == PutChunk \/ Terminated

Spec == Init /\ [][Next]_vars

----------------------------------------------------------------------------
(* get_blobs_in_range(): the calendar days are listed one by one. *)

DateOf(t) == t \div Day

DaysToCheck_LastLeftOut(s, e) == DateOf(s) .. DateOf(e) - 1
DaysToCheck(s, e) == DateOf(s) .. DateOf(e)

BlobsInRange(s, e) == {t \in Instants : DateOf(t) \in DaysToCheck(s, e) /\ s <= t /\ t <= e}

BlobsOf(i) == BlobsInRange(chunks[i].start, chunks[i].end)

----------------------------------------------------------------------------
(* Properties *)

\* Types; in particular no chunk ends before the instants begin.
TypeOK ==
  /\ start \in Nat /\ end \in Nat /\ chunkDays \in Nat \ {0}
  /\ current \in Nat
  /\ chunks \in Seq([start : Nat, end : Nat])

\* The chunks are proper intervals within the span, so that listing one never
\* raises "Start time cannot be after end time", and they follow each other a
\* day apart from the start of the span on.
ChunksInOrder ==
  /\ \A i \in DOMAIN chunks :
       start <= chunks[i].start /\ chunks[i].start <= chunks[i].end /\ chunks[i].end <= end
  /\ \A i, j \in DOMAIN chunks : i < j => chunks[i].end + Day <= chunks[j].start
  /\ chunks # <<>> => chunks[1].start = start

\* No blob belongs to two ranges: two workers never write the same points
\* ("zero ... duplication", docs/PRD_fcd_manager_multithreading.md:309).
NoBlobTwice ==
  \A i, j \in DOMAIN chunks : i # j => BlobsOf(i) \cap BlobsOf(j) = {}

\* Against a closed form of the loop: there are as many chunks as strides of
\* chunk_days begin within the span, the number the workers count up to.
TotalRanges ==
  Populated => Len(chunks) = (end - start) \div (chunkDays * Day) + 1

\* Exactly the blobs of the last day of each stride are in no range, because
\* an end that is a date of arithmetic on days is an instant to the listing.
\* This is what the loop does load; EveryBlobInAChunk is what it should.
GapsAreLastDays ==
  Populated =>
    \A t \in start .. end :
      (\E i \in DOMAIN chunks : t \in BlobsOf(i))
        <=> (t - start) % (chunkDays * Day) <= (chunkDays - 1) * Day

\* date_queue.py:37 and :42: "Divide the date range into chunks", "Size of each
\* chunk in days": every blob of the span belongs to some chunk.
EveryBlobInAChunk ==
  Populated => \A t \in start .. end : \E i \in DOMAIN chunks : t \in BlobsOf(i)
============================================================================
