---------------------- MODULE ThreadCoordinator_proofs ----------------------
(***************************************************************************)
(* Theorems about ThreadCoordinator, for any workers, ranges, batches and  *)
(* limits: type correctness, that no range is lost or worked on twice, and *)
(* that the threads and queues implement the abstract backfill.            *)
(***************************************************************************)
EXTENDS ThreadCoordinator, FiniteSetTheorems, SequenceTheorems, TLAPS

----------------------------------------------------------------------------
(* Sequences seen as the sets of their elements. *)

Elements(q) == {q[i] : i \in DOMAIN q}
NoRepeats(q) == \A i, j \in DOMAIN q : q[i] = q[j] => i = j

\* The tail of a queue without repetitions no longer has the head.
LEMMA TailElements ==
  ASSUME NEW S, NEW q \in Seq(S), q # <<>>
  PROVE  /\ Head(q) \in S /\ Tail(q) \in Seq(S) /\ Len(Tail(q)) = Len(q) - 1
         /\ Elements(q) = Elements(Tail(q)) \cup {Head(q)}
         /\ NoRepeats(q) => NoRepeats(Tail(q)) /\ Head(q) \notin Elements(Tail(q))
<1>1. /\ Head(q) = q[1] /\ Tail(q) \in Seq(S) /\ Len(Tail(q)) = Len(q) - 1
      /\ \A i \in 1 .. Len(Tail(q)) : Tail(q)[i] = q[i + 1]
  BY HeadTailProperties
<1>2. /\ Len(q) \in Nat \ {0} /\ DOMAIN q = 1 .. Len(q)
      /\ DOMAIN Tail(q) = 1 .. (Len(q) - 1)
  BY <1>1, EmptySeq, LenProperties
<1>3. Head(q) \in S
  BY <1>1, <1>2, ElementOfSeq
<1>4. Elements(q) \subseteq Elements(Tail(q)) \cup {Head(q)}
  <2> SUFFICES ASSUME NEW i \in DOMAIN q, i # 1
               PROVE  q[i] \in Elements(Tail(q))
    BY <1>1 DEF Elements
  <2>1. i - 1 \in DOMAIN Tail(q) /\ Tail(q)[i - 1] = q[i]
    BY <1>1, <1>2
  <2> QED  BY <2>1 DEF Elements
<1>5. Elements(Tail(q)) \cup {Head(q)} \subseteq Elements(q)
  BY <1>1, <1>2 DEF Elements
<1>6. ASSUME NoRepeats(q)
      PROVE  NoRepeats(Tail(q)) /\ Head(q) \notin Elements(Tail(q))
  BY <1>1, <1>2, <1>6 DEF Elements, NoRepeats
<1> QED  BY <1>1, <1>3, <1>4, <1>5, <1>6

\* An append adds one element, and no repetition if it was not there.
LEMMA AppendElements ==
  ASSUME NEW S, NEW q \in Seq(S), NEW e \in S
  PROVE  /\ Append(q, e) \in Seq(S) /\ Len(Append(q, e)) = Len(q) + 1
         /\ Elements(Append(q, e)) = Elements(q) \cup {e}
         /\ NoRepeats(q) /\ e \notin Elements(q) => NoRepeats(Append(q, e))
<1>1. /\ Append(q, e) \in Seq(S) /\ Len(Append(q, e)) = Len(q) + 1
      /\ \A i \in 1 .. Len(q) : Append(q, e)[i] = q[i]
      /\ Append(q, e)[Len(q) + 1] = e
  BY AppendProperties
<1>2. /\ Len(q) \in Nat /\ DOMAIN q = 1 .. Len(q)
      /\ DOMAIN Append(q, e) = 1 .. (Len(q) + 1)
  BY <1>1, LenProperties
<1>3. Elements(Append(q, e)) = Elements(q) \cup {e}
  BY <1>1, <1>2 DEF Elements
<1>4. ASSUME NoRepeats(q), e \notin Elements(q)
      PROVE  NoRepeats(Append(q, e))
  BY <1>1, <1>2, <1>4 DEF Elements, NoRepeats
<1> QED  BY <1>1, <1>3, <1>4

----------------------------------------------------------------------------
(* Type correctness.  It needs to be known which control points hold a     *)
(* range: from them the range goes back to a queue.                        *)

HoldsRange == \A w \in Workers :
  held[w] # NoRange <=> worker[w] \in {"process", "put", "backoff"}

TypeInv == TypeOK /\ HoldsRange

\* Before populate() everything is empty and off.
LEMMA TypeInit == Init => TypeInv
<1> SUFFICES ASSUME Init PROVE TypeInv
  OBVIOUS
<1>1. <<>> \in Seq(Ranges) /\ <<>> \in Seq(Request) /\ Len(<<>>) = 0
  BY EmptySeq
<1>2. 0 <= MaxQueueSize /\ 0 \in 0 .. MaxWriteRetries - 1 /\ 0 \in Nat /\ 1 \in Nat \ {0}
  BY SizesAssumption
<1>3. TypeOK
  BY <1>1, <1>2
  DEF Init, TypeOK, WorkerPoints, WriterPoints, RealtimePoints, RunPoints
<1>4. HoldsRange
  BY DEF Init, HoldsRange
<1> QED  BY <1>3, <1>4 DEF TypeInv

\* What a worker does keeps the types, and it holds a range exactly while it
\* processes, puts or backs off.
LEMMA WorkerTypes ==
  ASSUME TypeInv, NEW w \in Workers, Worker(w)
  PROVE  TypeInv'
<1>a. /\ NoRange \notin Ranges /\ 0 \in 0 .. MaxWriteRetries - 1
      /\ \A n \in Nat \ {0} : n + 1 \in Nat \ {0}
      /\ 1 \in Nat \ {0}
  BY SizesAssumption DEF Ranges, NoRange
<1>b. UNCHANGED <<writer, realtime, main, threads, kept, saw, shutdownEvent, expired>>
  BY DEF Worker, mainVars
<1> USE <1>a, <1>b DEF TypeInv, TypeOK, HoldsRange, WorkerPoints
<1>1. CASE WorkerLoop(w)
  BY <1>1 DEF WorkerLoop, Goto, dateVars, queueVars
<1>2. CASE GetNextRange(w)
  <2>1. Head(dateQueue) \in Ranges /\ Tail(dateQueue) \in Seq(Ranges)
    BY <1>2, TailElements DEF GetNextRange
  <2> QED  BY <1>2, <2>1 DEF GetNextRange, Goto, queueVars
<1>3. CASE GetRangeTimeout(w)
  BY <1>3 DEF GetRangeTimeout, Goto, dateVars, queueVars
<1>4. CASE CheckComplete(w)
  BY <1>4 DEF CheckComplete, Goto, dateVars, queueVars
<1>5. CASE YieldBatch(w)
  BY <1>5 DEF YieldBatch, Goto, dateVars, queueVars
<1>6. CASE SkipBatch(w)
  <2>1. <<held[w], pos[w]>> \in Request
    BY <1>6 DEF SkipBatch, Request
  <2> QED  BY <1>6, <2>1 DEF SkipBatch, dateVars, queueVars
<1>7. CASE PutWriteRequest(w)
  <2>1. <<held[w], pos[w]>> \in Request
    BY <1>7 DEF PutWriteRequest, Request
  <2>2. /\ writeQueue' \in Seq(Request) /\ Len(writeQueue') = Len(writeQueue) + 1
        /\ Len(writeQueue) \in Nat
    BY <1>7, <2>1, AppendElements, LenProperties DEF PutWriteRequest
  <2>3. Len(writeQueue') <= MaxQueueSize
    BY <1>7, <2>2, SizesAssumption DEF PutWriteRequest, HasRoom
  <2> QED  BY <1>7, <2>2, <2>3 DEF PutWriteRequest, NextBatch, Goto, dateVars
<1>8. CASE PutTimeout(w)
  <2>1. putTries[w] + 1 \in 0 .. MaxWriteRetries - 1
    BY <1>8, SizesAssumption DEF PutTimeout, LastPut
  <2>2. putTries' \in [Workers -> 0 .. MaxWriteRetries - 1]
    BY <1>8, <2>1 DEF PutTimeout
  <2>3. UNCHANGED <<worker, held, pos, dateVars, queueVars, handled>>
    BY <1>8 DEF PutTimeout
  <2> QED  BY <2>2, <2>3 DEF dateVars, queueVars
<1>9. ASSUME RetryOrGiveUp(w), worker[w] \in {"process", "put"},
             UNCHANGED <<dateQueue, total, completed, retries, finished, queueVars, handled>>
      PROVE  TypeInv'
  <2>1. CASE CanRetry(held[w])
    BY <1>9, <2>1 DEF RetryOrGiveUp, Goto, queueVars
  <2>2. CASE ~CanRetry(held[w])
    <3>1. held[w] \in Ranges
      BY <1>9
    <3>2. deadLetters' = deadLetters \cup {held[w]} /\ Release(w)
      BY <1>9, <2>2 DEF RetryOrGiveUp
    <3>3. HoldsRange'
      BY <3>2 DEF Release, Goto
    <3>4. TypeOK'
      BY <1>9, <3>1, <3>2 DEF Release, Goto, queueVars
    <3> QED  BY <3>3, <3>4
  <2> QED  BY <2>1, <2>2
<1>10. CASE ProcessingFails(w)
  BY <1>9, <1>10 DEF ProcessingFails
<1>11. CASE PutFails(w)
  BY <1>9, <1>11 DEF PutFails
<1>12. CASE RequeueFailed(w)
  <2>1. held[w] \in Ranges /\ dateQueue' \in Seq(Ranges)
    BY <1>12, AppendElements DEF RequeueFailed
  <2> QED  BY <1>12, <2>1 DEF RequeueFailed, Release, Goto, queueVars
<1>13. CASE MarkCompleted(w)
  BY <1>13 DEF MarkCompleted, Release, Goto, queueVars
<1> QED
  BY <1>1, <1>2, <1>3, <1>4, <1>5, <1>6, <1>7, <1>8, <1>10, <1>11, <1>12, <1>13 DEF Worker

\* Every step of every thread keeps the types.
LEMMA TypeStep == TypeInv /\ [Next]_vars => TypeInv'
<1> SUFFICES ASSUME TypeInv, [Next]_vars PROVE TypeInv'
  OBVIOUS
<1> USE DEF dateVars, queueVars, workerVars, mainVars
<1>1. ASSUME NEW w \in Workers, Worker(w) PROVE TypeInv'
  BY <1>1, WorkerTypes
<1>2. CASE Writer
  <2> USE <1>2 DEF TypeInv, TypeOK, HoldsRange, WriterPoints, Writer
  <2>1. CASE WriterLoop
    BY <2>1 DEF WriterLoop
  <2>2. CASE GetNextRequest
    <3>1. /\ Head(writeQueue) \in Request /\ Tail(writeQueue) \in Seq(Request)
          /\ Len(Tail(writeQueue)) = Len(writeQueue) - 1 /\ Len(writeQueue) \in Nat
      BY <2>2, TailElements, LenProperties DEF GetNextRequest
    <3>2. Len(Tail(writeQueue)) <= MaxQueueSize
      BY <3>1, SizesAssumption
    <3> QED  BY <2>2, <3>1, <3>2 DEF GetNextRequest
  <2>3. CASE GetRequestTimeout
    BY <2>3 DEF GetRequestTimeout
  <2>4. CASE WriteRequest \/ GiveUpRequest
    BY <2>4 DEF WriteRequest, GiveUpRequest, MarkWritten
  <2>5. CASE WriteFails
    BY <2>5 DEF WriteFails
  <2> QED  BY <2>1, <2>2, <2>3, <2>4, <2>5
<1>3. CASE Realtime
  BY <1>3 DEF TypeInv, TypeOK, HoldsRange, Realtime, RealtimeLoop, RealtimeCycle, RealtimeWake,
              RealtimePoints
<1>4. CASE Main
  <2> USE <1>4 DEF Main, TypeInv, TypeOK, HoldsRange, RunPoints, ShutdownPoints, MainGoto
  <2>1. CASE Run
    <3>0. UNCHANGED <<kept, shutdownEvent, expired>>
      BY <2>1 DEF Run
    <3>1. CASE Populate
      <4>1. [r \in Ranges |-> r] \in Seq(Ranges)
        BY SizesAssumption, IsASeq, SeqDef DEF Ranges
      <4> QED  BY <3>0, <3>1, <4>1 DEF Populate
    <3>2. CASE StartWriter
      BY <3>0, <3>2 DEF StartWriter, WriterPoints
    <3>3. CASE StartWorker
      BY <3>0, <3>3 DEF StartWorker, Goto, WorkerPoints
    <3>4. CASE AppendWorker
      BY <3>0, <3>4 DEF AppendWorker
    <3>5. CASE PollDates \/ PollWrites \/ PollWorkers \/ InitialCycle
      BY <3>0, <3>5 DEF PollDates, PollWrites, PollWorkers, InitialCycle
    <3>6. CASE StartRealtime
      BY <3>0, <3>6 DEF StartRealtime, RealtimePoints
    <3> QED  BY <2>1, <3>1, <3>2, <3>3, <3>4, <3>5, <3>6 DEF Run
  <2>2. CASE Shutdown
    BY <2>2 DEF Shutdown, JoinThreads, StartDrain, Drain, ShutdownQueue, JoinWriter, Exit
  <2> QED  BY <2>1, <2>2
<1>5. CASE SigTerm \/ TimeExpires
  BY <1>5 DEF SigTerm, TimeExpires, TypeInv, TypeOK, HoldsRange, ShutdownPoints, LocksAt, Locks
<1>6. CASE UNCHANGED vars
  BY <1>6 DEF vars, TypeInv, TypeOK, HoldsRange
<1> QED  BY <1>1, <1>2, <1>3, <1>4, <1>5, <1>6 DEF Next, Terminated

\* The inductive type invariant: types, and where a worker holds a range.
THEOREM TypeInvariance == Spec => []TypeInv
BY TypeInit, TypeStep, PTL DEF Spec

\* Every variable keeps its type; the write queue never exceeds its bound.
THEOREM TypeCorrectness == Spec => []TypeOK
<1>1. TypeInv => TypeOK
  BY DEF TypeInv
<1> QED  BY <1>1, TypeInvariance, PTL

----------------------------------------------------------------------------
(* Conservation of ranges.  A worker's step moves one range from one place *)
(* to another; all the others leave the places alone.                      *)

StartEmpty == main = "populate" =>
  /\ dateQueue = <<>> /\ finished = {} /\ deadLetters = {}
  /\ \A w \in Workers : worker[w] = "off"

RangeInv == TypeInv /\ RangeConservation /\ StartEmpty

Places == <<dateQueue, held, finished, deadLetters, total>>

\* A step that moves no range keeps their conservation.
LEMMA PlacesUnchanged ==
  ASSUME RangeConservation, UNCHANGED Places
  PROVE  RangeConservation'
BY DEF RangeConservation, Queued, Held, Places

\* Taking a range, by a worker that holds none.
LEMMA TakeRange ==
  ASSUME NEW w \in Workers, NEW r \in Ranges, TypeInv, r \notin Held,
         held[w] = NoRange, held' = [held EXCEPT ![w] = r],
         \A u, v \in Workers : held[u] = held[v] => u = v \/ held[u] = NoRange
  PROVE  /\ Held' = Held \cup {r}
         /\ \A u, v \in Workers : held'[u] = held'[v] => u = v \/ held'[u] = NoRange
<1>1. held \in [Workers -> Ranges \cup {NoRange}] /\ NoRange \notin Ranges
  BY SizesAssumption DEF TypeInv, TypeOK, Ranges, NoRange
<1>2. \A v \in Workers : held'[v] = IF v = w THEN r ELSE held[v]
  BY <1>1
<1>3. Held' = Held \cup {r}
  BY <1>1, <1>2 DEF Held
<1>4. \A v \in Workers : held[v] # r
  BY <1>1 DEF Held
<1> QED  BY <1>1, <1>2, <1>3, <1>4

\* Letting go of a range, by the only worker that holds it.
LEMMA ReleaseRange ==
  ASSUME NEW w \in Workers, TypeInv, held[w] # NoRange, Release(w),
         \A u, v \in Workers : held[u] = held[v] => u = v \/ held[u] = NoRange
  PROVE  /\ held[w] \in Ranges /\ held[w] \in Held /\ Held' = Held \ {held[w]}
         /\ \A u, v \in Workers : held'[u] = held'[v] => u = v \/ held'[u] = NoRange
<1>1. held \in [Workers -> Ranges \cup {NoRange}]
  BY DEF TypeInv, TypeOK
<1>2. \A v \in Workers : held'[v] = IF v = w THEN NoRange ELSE held[v]
  BY <1>1 DEF Release
<1>3. Held' = Held \ {held[w]}
  BY <1>1, <1>2 DEF Held
<1> QED  BY <1>1, <1>2, <1>3 DEF Held

\* Every step of a worker moves at most its own range, from one place to one.
LEMMA WorkerMovesRanges ==
  ASSUME RangeInv, NEW w \in Workers, Worker(w)
  PROVE  RangeConservation' /\ StartEmpty'
<1>a. /\ TypeInv /\ RangeConservation /\ main' = main
      /\ dateQueue \in Seq(Ranges) /\ held \in [Workers -> Ranges \cup {NoRange}]
      /\ worker[w] # "off"
  BY DEF RangeInv, TypeInv, TypeOK, Worker, mainVars, WorkerLoop, GetNextRange, GetRangeTimeout,
         CheckComplete, YieldBatch, SkipBatch, PutWriteRequest, PutTimeout, ProcessingFails,
         PutFails, RequeueFailed, MarkCompleted
<1>b. StartEmpty'
  BY <1>a DEF RangeInv, StartEmpty
<1>c. Queued = Elements(dateQueue) /\ Queued' = Elements(dateQueue')
      /\ NoRepeats(dateQueue)
      /\ (NoRepeats(dateQueue') <=> \A i, j \in DOMAIN dateQueue' : dateQueue'[i] = dateQueue'[j] => i = j)
  BY <1>a DEF Queued, Elements, NoRepeats, RangeConservation
<1>d. worker[w] \in {"process", "put", "backoff"} => held[w] # NoRange
  BY <1>a DEF TypeInv, HoldsRange
<1>1. CASE \/ WorkerLoop(w) \/ GetRangeTimeout(w) \/ CheckComplete(w) \/ YieldBatch(w)
           \/ SkipBatch(w) \/ PutWriteRequest(w) \/ PutTimeout(w)
  <2>1. UNCHANGED Places
    BY <1>1 DEF Places, dateVars, WorkerLoop, GetRangeTimeout, CheckComplete, YieldBatch,
                SkipBatch, PutWriteRequest, PutTimeout
  <2> QED  BY <1>a, <1>b, <2>1, PlacesUnchanged
<1>2. CASE GetNextRange(w)
  <2> DEFINE r == Head(dateQueue)
  <2>1. r \in Ranges /\ Queued = Queued' \cup {r} /\ r \notin Queued' /\ NoRepeats(dateQueue')
    BY <1>2, <1>a, <1>c, TailElements DEF GetNextRange
  <2>2. held[w] = NoRange /\ r \notin Held
    BY <1>2, <1>a, <2>1 DEF GetNextRange, TypeInv, HoldsRange, RangeConservation
  <2>3. /\ Held' = Held \cup {r}
        /\ \A u, v \in Workers : held'[u] = held'[v] => u = v \/ held'[u] = NoRange
    BY <1>2, <1>a, <2>1, <2>2, TakeRange DEF GetNextRange, RangeConservation
  <2>4. UNCHANGED <<finished, deadLetters, total>>
    BY <1>2 DEF GetNextRange
  <2> HIDE DEF r
  <2> QED  BY <1>a, <1>b, <1>c, <2>1, <2>3, <2>4 DEF RangeConservation
<1>3. ASSUME RetryOrGiveUp(w), worker[w] \in {"process", "put"},
             UNCHANGED <<dateQueue, finished, total>>
      PROVE  RangeConservation'
  <2>1. CASE CanRetry(held[w])
    BY <1>3, <1>a, <2>1, PlacesUnchanged DEF RetryOrGiveUp, Places
  <2>2. CASE ~CanRetry(held[w])
    <3>1. deadLetters' = deadLetters \cup {held[w]} /\ Release(w)
      BY <1>3, <2>2 DEF RetryOrGiveUp
    <3>2. /\ held[w] \in Held /\ Held' = Held \ {held[w]}
          /\ \A u, v \in Workers : held'[u] = held'[v] => u = v \/ held'[u] = NoRange
      BY <1>3, <1>a, <1>d, <3>1, ReleaseRange DEF RangeConservation
    <3> QED  BY <1>3, <1>a, <1>c, <3>1, <3>2 DEF RangeConservation
  <2> QED  BY <2>1, <2>2
<1>4. CASE ProcessingFails(w)
  BY <1>3, <1>4, <1>b DEF ProcessingFails
<1>5. CASE PutFails(w)
  BY <1>3, <1>5, <1>b DEF PutFails
<1>6. CASE RequeueFailed(w)
  <2>1. /\ held[w] \in Held /\ Held' = Held \ {held[w]} /\ held[w] \in Ranges
        /\ \A u, v \in Workers : held'[u] = held'[v] => u = v \/ held'[u] = NoRange
    BY <1>6, <1>a, <1>d, ReleaseRange DEF RangeConservation, RequeueFailed
  <2>2. held[w] \notin Queued
    BY <1>a, <2>1 DEF RangeConservation
  <2>3. Queued' = Queued \cup {held[w]} /\ NoRepeats(dateQueue')
    BY <1>6, <1>a, <1>c, <2>1, <2>2, AppendElements DEF RequeueFailed
  <2>4. UNCHANGED <<finished, deadLetters, total>>
    BY <1>6 DEF RequeueFailed
  <2> QED  BY <1>a, <1>b, <1>c, <2>1, <2>3, <2>4 DEF RangeConservation
<1>7. CASE MarkCompleted(w)
  <2>1. /\ held[w] \in Held /\ Held' = Held \ {held[w]}
        /\ \A u, v \in Workers : held'[u] = held'[v] => u = v \/ held'[u] = NoRange
    BY <1>7, <1>a, <1>d, ReleaseRange DEF RangeConservation, MarkCompleted
  <2>2. finished' = finished \cup {held[w]} /\ UNCHANGED <<dateQueue, deadLetters, total>>
    BY <1>7 DEF MarkCompleted
  <2> QED  BY <1>a, <1>b, <1>c, <2>1, <2>2 DEF RangeConservation
<1> QED
  BY <1>1, <1>2, <1>4, <1>5, <1>6, <1>7 DEF Worker

\* Before populate() no range is anywhere.
LEMMA RangeInit == Init => RangeInv
<1> SUFFICES ASSUME Init PROVE RangeInv
  OBVIOUS
<1>1. TypeInv
  BY TypeInit
<1>2. Queued = {} /\ Held = {} /\ DOMAIN dateQueue = {}
  BY DEF Init, Queued, Held
<1>3. total = NumRanges => Ranges = {}
  BY SizesAssumption DEF Init, Ranges
<1> QED  BY <1>1, <1>2, <1>3 DEF Init, RangeInv, RangeConservation, StartEmpty

\* A step of the threads other than the workers leaves the ranges where they
\* are, except populate(), which puts each of them once into the empty queue.
LEMMA OthersMoveRanges ==
  ASSUME RangeInv, Writer \/ Realtime \/ Main \/ SigTerm \/ TimeExpires \/ UNCHANGED vars
  PROVE  RangeConservation' /\ StartEmpty'
<1> USE DEF dateVars, workerVars, mainVars
<1>a. RangeConservation /\ StartEmpty
  BY DEF RangeInv
<1>1. CASE Writer \/ Realtime \/ UNCHANGED vars \/ SigTerm \/ TimeExpires
  <2>1. UNCHANGED <<Places, worker>> /\ (main' = "populate" => main = "populate")
    BY <1>1 DEF Places, Writer, Realtime, vars, SigTerm, TimeExpires
  <2>2. StartEmpty'
    BY <1>a, <2>1 DEF StartEmpty, Places
  <2> QED  BY <1>a, <2>1, <2>2, PlacesUnchanged
<1>2. CASE Populate
  <2>1. /\ held' = held /\ finished' = {} /\ deadLetters' = {} /\ main' # "populate"
        /\ dateQueue' = [r \in Ranges |-> r] /\ \A w \in Workers : held[w] = NoRange
    BY <1>2 DEF RangeInv, TypeInv, HoldsRange, StartEmpty, Populate, MainGoto
  <2>2. Queued' = Ranges /\ Held' = {}
    BY <2>1 DEF Queued, Held
  <2> QED  BY <1>a, <2>1, <2>2 DEF RangeConservation, StartEmpty
<1>3. CASE Shutdown \/ StartWriter \/ StartWorker \/ AppendWorker \/ PollDates \/ PollWrites \/ PollWorkers
           \/ StartRealtime \/ InitialCycle
  <2>1. UNCHANGED Places /\ main' # "populate"
    BY <1>3 DEF Places, Shutdown, JoinThreads, StartDrain, Drain,
                ShutdownQueue, JoinWriter, Exit, StartWriter, StartWorker, AppendWorker,
                PollDates, PollWrites, PollWorkers, StartRealtime, InitialCycle, MainGoto
  <2> QED  BY <1>a, <2>1, PlacesUnchanged DEF StartEmpty
<1> QED  BY <1>1, <1>2, <1>3 DEF Main, Run

\* Every step keeps each range in one place.
LEMMA RangeStep == RangeInv /\ [Next]_vars => RangeInv'
<1> SUFFICES ASSUME RangeInv, [Next]_vars PROVE RangeInv'
  OBVIOUS
<1>1. TypeInv'
  BY TypeStep DEF RangeInv
<1>2. RangeConservation' /\ StartEmpty'
  BY WorkerMovesRanges, OthersMoveRanges DEF Next, Terminated
<1> QED  BY <1>1, <1>2 DEF RangeInv

\* The inductive invariant behind RangesConserved: conservation, and that the
\* places are empty until populate() fills the queue.
THEOREM RangeInvariance == Spec => []RangeInv
BY RangeInit, RangeStep, PTL DEF Spec

\* No range is lost and none is worked on twice at a time, through retries,
\* dead-lettering and shutdown, for any number of workers and ranges.
THEOREM RangesConserved == Spec => []RangeConservation
<1>1. RangeInv => RangeConservation
  BY DEF RangeInv
<1> QED  BY <1>1, RangeInvariance, PTL

----------------------------------------------------------------------------
(* The counters.  A worker asleep before a retry still has one left, and   *)
(* nobody else can use it up: it alone holds the range.                    *)

BackoffCanRetry == \A w \in Workers :
  worker[w] = "backoff" => retries[held[w]] < MaxRetries

ProgressInv == RangeInv /\ ProgressExact /\ BackoffCanRetry

\* Before populate() every counter is zero.
LEMMA ProgressInit == Init => ProgressInv
<1> SUFFICES ASSUME Init PROVE ProgressInv
  OBVIOUS
<1>1. ProgressExact
  BY SizesAssumption, FS_EmptySet DEF Init, ProgressExact
<1>2. BackoffCanRetry
  BY DEF Init, BackoffCanRetry
<1> QED  BY <1>1, <1>2, RangeInit DEF ProgressInv

\* A worker counts a range once as it completes it, and retries it only below
\* the limit it checked before its sleep.
LEMMA WorkerCounts ==
  ASSUME ProgressInv, NEW w \in Workers, Worker(w)
  PROVE  ProgressExact' /\ BackoffCanRetry'
<1>a. /\ TypeInv /\ RangeConservation /\ MaxRetries \in Nat
      /\ retries \in [Ranges -> Nat] /\ held \in [Workers -> Ranges \cup {NoRange}]
      /\ worker \in [Workers -> WorkerPoints]
  BY SizesAssumption DEF ProgressInv, RangeInv, TypeInv, TypeOK
<1>b. ASSUME NEW v \in Workers, worker[v] \in {"process", "put", "backoff"}
      PROVE  held[v] # NoRange /\ held[v] \in Ranges /\ held[v] \in Held
  BY <1>a, <1>b DEF TypeInv, HoldsRange, Held
<1> USE DEF ProgressInv, ProgressExact, BackoffCanRetry
<1>1. CASE \/ WorkerLoop(w) \/ GetRangeTimeout(w) \/ CheckComplete(w) \/ YieldBatch(w)
           \/ SkipBatch(w) \/ PutWriteRequest(w) \/ PutTimeout(w)
  BY <1>1, <1>a DEF dateVars, WorkerLoop, GetRangeTimeout, CheckComplete, YieldBatch, SkipBatch,
                PutWriteRequest, NextBatch, PutTimeout, Goto
<1>2. CASE GetNextRange(w)
  BY <1>2, <1>a DEF GetNextRange, Goto
<1>3. ASSUME RetryOrGiveUp(w), worker[w] \in {"process", "put"},
             UNCHANGED <<finished, completed, retries>>
      PROVE  ProgressExact' /\ BackoffCanRetry'
  <2>1. CASE CanRetry(held[w])
    BY <1>3, <1>a, <2>1 DEF RetryOrGiveUp, CanRetry, Goto
  <2>2. CASE ~CanRetry(held[w])
    <3>1. held[w] \in Ranges /\ retries[held[w]] = MaxRetries
      BY <1>3, <1>a, <1>b, <2>2 DEF CanRetry
    <3> QED  BY <1>3, <1>a, <2>2, <3>1 DEF RetryOrGiveUp, Release, Goto
  <2> QED  BY <2>1, <2>2
<1>4. CASE ProcessingFails(w)
  BY <1>3, <1>4 DEF ProcessingFails
<1>5. CASE PutFails(w)
  BY <1>3, <1>5 DEF PutFails
<1>6. CASE RequeueFailed(w)
  <2>1. held[w] \in Ranges /\ held[w] \notin deadLetters /\ held[w] # NoRange
    BY <1>6, <1>a, <1>b DEF RequeueFailed, RangeConservation
  <2>2. \A r \in Ranges : retries'[r] = IF r = held[w] THEN retries[r] + 1 ELSE retries[r]
    BY <1>6, <1>a, <2>1 DEF RequeueFailed
  <2>3. ASSUME NEW v \in Workers, worker'[v] = "backoff"
        PROVE  held'[v] = held[v] /\ held[v] \in Ranges /\ held[v] # held[w] /\ worker[v] = "backoff"
    <3>1. v # w /\ worker[v] = "backoff" /\ held'[v] = held[v]
      BY <1>6, <1>a, <2>3 DEF RequeueFailed, Release, Goto
    <3> QED  BY <1>a, <1>b, <2>1, <3>1 DEF RangeConservation
  <2>4. retries[held[w]] < MaxRetries
    BY <1>6 DEF RequeueFailed
  <2>5. BackoffCanRetry'
    BY <2>2, <2>3
  <2> QED  BY <1>6, <1>a, <2>1, <2>2, <2>4, <2>5 DEF RequeueFailed, TypeInv, TypeOK
<1>7. CASE MarkCompleted(w)
  <2>1. held[w] \notin finished
    BY <1>7, <1>a, <1>b DEF MarkCompleted, RangeConservation
  <2>2. IsFiniteSet(finished)
    <3>1. IsFiniteSet(Ranges) /\ finished \subseteq Ranges
      BY <1>a, SizesAssumption, FS_Interval DEF TypeInv, TypeOK, Ranges
    <3> QED  BY <3>1, FS_Subset
  <2>3. Cardinality(finished') = Cardinality(finished) + 1
    BY <1>7, <2>1, <2>2, FS_AddElement DEF MarkCompleted
  <2> QED  BY <1>7, <1>a, <2>3 DEF MarkCompleted, Release, Goto
<1> QED
  BY <1>1, <1>2, <1>4, <1>5, <1>6, <1>7 DEF Worker

\* Every step keeps the counters exact.
LEMMA ProgressStep == ProgressInv /\ [Next]_vars => ProgressInv'
<1> SUFFICES ASSUME ProgressInv, [Next]_vars PROVE ProgressInv'
  OBVIOUS
<1>1. RangeInv'
  BY RangeStep DEF ProgressInv
<1>2. ASSUME NEW w \in Workers, Worker(w) PROVE ProgressExact' /\ BackoffCanRetry'
  BY <1>2, WorkerCounts
<1>3. CASE Writer \/ Realtime \/ Main \/ SigTerm \/ TimeExpires \/ UNCHANGED vars
  <2>1. UNCHANGED <<completed, finished, deadLetters, retries, held>>
    BY <1>3 DEF dateVars, workerVars, Writer, Realtime, vars, SigTerm, TimeExpires, Main, Run,
                Shutdown, Populate, StartWriter, StartWorker, AppendWorker, PollDates, PollWrites, PollWorkers,
                StartRealtime, InitialCycle
  <2>2. \A w \in Workers : worker'[w] = "backoff" => worker[w] = "backoff"
    BY <1>3 DEF workerVars, Writer, Realtime, vars, SigTerm, TimeExpires, Main, Run,
                Shutdown, Populate, StartWriter, StartWorker, AppendWorker, PollDates, PollWrites, PollWorkers,
                StartRealtime, InitialCycle, Goto, ProgressInv, RangeInv, TypeInv, TypeOK
  <2>3. ProgressExact'
    BY <2>1 DEF ProgressInv, ProgressExact
  <2>4. BackoffCanRetry'
    BY <2>1, <2>2 DEF ProgressInv, BackoffCanRetry
  <2> QED  BY <1>1, <2>3, <2>4 DEF ProgressInv
<1> QED  BY <1>1, <1>2, <1>3 DEF Next, Terminated, ProgressInv

\* The inductive invariant behind CountersExact: a worker that backs off holds a
\* range with a retry left, whatever happens during its sleep.
THEOREM ProgressInvariance == Spec => []ProgressInv
BY ProgressInit, ProgressStep, PTL DEF Spec

\* `completed' is exactly the number of completed ranges, no range is retried
\* more than MaxRetries times, and one is given up only after all of them.
THEOREM CountersExact == Spec => []ProgressExact
<1>1. ProgressInv => ProgressExact
  BY DEF ProgressInv
<1> QED  BY <1>1, ProgressInvariance, PTL

----------------------------------------------------------------------------
(* The real-time worker starts only on a completed backfill.  What run()   *)
(* has read stays true while it reads the rest: a completed range is never *)
(* held again, so nothing is put, and a stopped worker never restarts.     *)

AllFinished == finished = Ranges /\ deadLetters = {}
AllStarted == threads = Workers /\ \A w \in Workers : worker[w] # "off"
AllStopped == \A w \in Workers : ~WorkerAlive(w)

MainInv ==
  /\ main \in RunPoints \ {"populate"} => total = NumRanges
  /\ main \in {"populate", "startWriter", "startWorkers", "appendWorker"} => realtime = "off"
  /\ main \in {"pollDates", "pollWrites", "pollWorkers", "startRealtime"} => AllStarted
  /\ main \in {"pollWrites", "pollWorkers"} /\ saw => AllFinished
  /\ main = "pollWorkers" /\ saw => writeQueue = <<>>
  /\ main = "startRealtime" \/ realtime # "off" =>
       AllFinished /\ writeQueue = <<>> /\ AllStopped

BackfillInv == ProgressInv /\ MainInv

\* When every range is completed no worker holds one.
LEMMA NothingHeld ==
  ASSUME RangeInv, AllFinished
  PROVE  \A w \in Workers : worker[w] \notin {"process", "put", "backoff"}
<1> SUFFICES ASSUME NEW w \in Workers, worker[w] \in {"process", "put", "backoff"}
             PROVE  FALSE
  OBVIOUS
<1>1. held[w] # NoRange /\ held[w] \in Ranges
  BY DEF RangeInv, TypeInv, HoldsRange, TypeOK
<1>2. held[w] \in Held
  BY <1>1 DEF Held
<1> QED  BY <1>1, <1>2 DEF RangeInv, RangeConservation, AllFinished

\* The counters agree only when every range is completed.
LEMMA CompletedIsAll ==
  ASSUME ProgressInv, completed = total, total = NumRanges
  PROVE  AllFinished
<1>1. IsFiniteSet(Ranges) /\ Cardinality(Ranges) = NumRanges
  BY SizesAssumption, FS_Interval DEF Ranges
<1>2. finished \subseteq Ranges /\ Cardinality(finished) = NumRanges
  BY DEF ProgressInv, ProgressExact, RangeInv, TypeInv, TypeOK
<1>3. finished = Ranges
  BY <1>1, <1>2, FS_Subset
<1>4. deadLetters \subseteq Ranges /\ finished \cap deadLetters = {}
  BY DEF ProgressInv, RangeInv, TypeInv, TypeOK, RangeConservation
<1> QED  BY <1>3, <1>4 DEF AllFinished

\* Before populate() the main thread has seen nothing.
LEMMA MainInit == Init => BackfillInv
BY ProgressInit DEF Init, BackfillInv, MainInv

\* What workers do never invalidates what the main thread has already read.
LEMMA WorkersKeepMain ==
  ASSUME BackfillInv, NEW w \in Workers, Worker(w)
  PROVE  MainInv'
<1>a. /\ UNCHANGED <<main, saw, realtime, threads>> /\ RangeInv /\ MainInv
      /\ worker \in [Workers -> WorkerPoints]
  BY DEF Worker, mainVars, BackfillInv, ProgressInv, RangeInv, TypeInv, TypeOK
<1>b. total' = total
  BY DEF Worker, dateVars, WorkerLoop, GetNextRange, GetRangeTimeout, CheckComplete, YieldBatch,
         SkipBatch, PutWriteRequest, PutTimeout, ProcessingFails, PutFails, RequeueFailed,
         MarkCompleted
<1>1. ASSUME AllFinished
      PROVE  AllFinished' /\ writeQueue' = writeQueue /\ (AllStopped => AllStopped')
  <2>1. worker[w] \notin {"process", "put", "backoff"}
    BY <1>1, <1>a, NothingHeld
  <2>2. CASE WorkerLoop(w) \/ GetRangeTimeout(w) \/ CheckComplete(w) \/ GetNextRange(w)
    <3>1. WorkerAlive(w) /\ UNCHANGED <<finished, deadLetters, writeQueue>>
      BY <2>2 DEF WorkerAlive, WorkerLoop, GetRangeTimeout, CheckComplete, GetNextRange,
                  dateVars, queueVars
    <3> QED  BY <1>1, <3>1 DEF AllFinished, AllStopped
  <2> QED  BY <2>1, <2>2 DEF Worker, YieldBatch, SkipBatch, PutWriteRequest, PutTimeout,
                  ProcessingFails, PutFails, RequeueFailed, MarkCompleted
<1>2. AllStarted => AllStarted'
  <2>1. \A v \in Workers : worker[v] # "off" => worker'[v] # "off"
    BY <1>a DEF Worker, WorkerLoop, GetNextRange, GetRangeTimeout, CheckComplete, YieldBatch,
       SkipBatch, PutWriteRequest, NextBatch, PutTimeout, ProcessingFails, PutFails, RetryOrGiveUp,
       RequeueFailed, MarkCompleted, Release, Goto
  <2> QED  BY <1>a, <2>1 DEF AllStarted
<1> QED  BY <1>a, <1>b, <1>1, <1>2 DEF MainInv

\* Nor does what the writer, the real-time worker and main itself do.
LEMMA OthersKeepMain ==
  ASSUME BackfillInv, Writer \/ Realtime \/ Main \/ SigTerm \/ TimeExpires \/ UNCHANGED vars
  PROVE  MainInv'
<1> USE DEF dateVars, queueVars, workerVars, mainVars
<1>a. MainInv /\ ProgressInv /\ TypeInv
  BY DEF BackfillInv, ProgressInv, RangeInv
<1>1. CASE Writer
  <2>1. /\ UNCHANGED <<main, saw, realtime, threads, total, finished, deadLetters, worker>>
        /\ writeQueue = <<>> => writeQueue' = <<>>
    BY <1>1 DEF Writer, WriterLoop, GetNextRequest, GetRequestTimeout, WriteRequest,
                WriteFails, GiveUpRequest, MarkWritten
  <2> QED  BY <1>a, <2>1 DEF MainInv, AllFinished, AllStarted, AllStopped, WorkerAlive
<1>2. CASE Realtime \/ UNCHANGED vars \/ SigTerm \/ TimeExpires \/ Shutdown
  <2>1. /\ UNCHANGED <<total, finished, deadLetters, worker, threads, writeQueue>>
        /\ saw' => saw
        /\ realtime' # "off" <=> realtime # "off"
        /\ main' = main \/ main' \notin RunPoints
    BY <1>2 DEF Realtime, RealtimeLoop, RealtimeCycle, RealtimeWake, vars, SigTerm, TimeExpires,
                Shutdown, JoinThreads, StartDrain, Drain, ShutdownQueue,
                JoinWriter, Exit, MainGoto, RunPoints
  <2> QED  BY <1>a, <2>1 DEF MainInv, AllFinished, AllStarted, AllStopped, WorkerAlive, RunPoints
<1>3. CASE Populate \/ StartWriter
  BY <1>a, <1>3 DEF Populate, StartWriter, MainGoto, MainInv, RunPoints
<1>4. CASE StartWorker
  BY <1>a, <1>4 DEF StartWorker, MainGoto, MainInv, RunPoints
<1>5. CASE PollDates
  <2>1. total = NumRanges
    BY <1>a, <1>5 DEF PollDates, MainGoto, MainInv, RunPoints
  <2>2. saw' => AllFinished
    BY <1>a, <1>5, <2>1, CompletedIsAll DEF PollDates
  <2> QED  BY <1>a, <1>5, <2>1, <2>2
      DEF PollDates, MainGoto, MainInv, RunPoints, AllFinished, AllStarted, AllStopped, WorkerAlive
<1>6. CASE PollWrites
  BY <1>a, <1>6 DEF PollWrites, MainGoto, MainInv, RunPoints, AllFinished, AllStarted,
                    AllStopped, WorkerAlive
<1>7. CASE PollWorkers
  BY <1>a, <1>7 DEF PollWorkers, MainGoto, MainInv, NoWorkerAlive, RunPoints,
                    AllFinished, AllStarted, AllStopped, WorkerAlive
<1>8. CASE StartRealtime \/ InitialCycle
  BY <1>a, <1>8 DEF StartRealtime, InitialCycle, MainGoto, MainInv, RunPoints, AllFinished,
                    AllStarted, AllStopped, WorkerAlive
<1>9. CASE AppendWorker
  BY <1>a, <1>9 DEF AppendWorker, MainGoto, MainInv, AllStarted, RunPoints
<1> QED  BY <1>1, <1>2, <1>3, <1>4, <1>5, <1>6, <1>7, <1>8, <1>9 DEF Main, Run

\* Every step keeps what the main thread has read true.
LEMMA BackfillStep == BackfillInv /\ [Next]_vars => BackfillInv'
<1> SUFFICES ASSUME BackfillInv, [Next]_vars PROVE BackfillInv'
  OBVIOUS
<1>1. ProgressInv'
  BY ProgressStep DEF BackfillInv
<1>2. MainInv'
  BY WorkersKeepMain, OthersKeepMain DEF Next, Terminated
<1> QED  BY <1>1, <1>2 DEF BackfillInv

\* The inductive invariant behind RealtimeStartsAfterBackfill: what the main
\* thread read at each point of its poll still holds when it acts on it.
THEOREM BackfillInvariance == Spec => []BackfillInv
BY MainInit, BackfillStep, PTL DEF Spec

\* Real-time updates start only when every range is completed, no request is
\* waiting and every worker has stopped, although run() reads the three facts
\* at different times.
THEOREM RealtimeStartsAfterBackfill == Spec => []RealtimeAfterBackfill
<1>1. BackfillInv => RealtimeAfterBackfill
  BY DEF BackfillInv, MainInv, AllFinished, AllStopped, RealtimeAfterBackfill
<1> QED  BY <1>1, BackfillInvariance, PTL

----------------------------------------------------------------------------
(* Refinement of BackfillProgress. *)

\* Initially no range is settled and nothing is announced.
LEMMA ProgressInitImplements == Init => Progress!Init
BY DEF Init, Progress!Init, Status

\* Every step of the threads settles one range, announces, or changes neither.
LEMMA ProgressStepImplements ==
  ASSUME BackfillInv, [Next]_vars
  PROVE  [Progress!Next]_<<Status, realtime # "off">>
<1> USE DEF dateVars, queueVars, workerVars, mainVars
<1>a. /\ finished \subseteq Ranges /\ deadLetters \subseteq Ranges /\ finished \cap deadLetters = {}
      /\ RangeConservation /\ MainInv
  BY DEF BackfillInv, ProgressInv, RangeInv, TypeInv, TypeOK, RangeConservation
<1>b. ASSUME UNCHANGED <<finished, deadLetters>>, realtime' # "off" <=> realtime # "off"
      PROVE  UNCHANGED <<Status, realtime # "off">>
  BY <1>b DEF Status
<1>1. ASSUME NEW w \in Workers, Worker(w)
      PROVE  [Progress!Next]_<<Status, realtime # "off">>
  <2>1. realtime' = realtime
    BY <1>1 DEF Worker
  <2>2. ASSUME worker[w] \in {"process", "put"}
        PROVE  held[w] \in Ranges /\ held[w] \notin finished \cup deadLetters
    <3>1. held[w] # NoRange /\ held[w] \in Ranges
      BY <2>2 DEF BackfillInv, ProgressInv, RangeInv, TypeInv, HoldsRange, TypeOK
    <3>2. held[w] \in Held
      BY <3>1 DEF Held
    <3> QED  BY <1>a, <3>1, <3>2 DEF RangeConservation
  <2>3. ASSUME worker[w] \in {"process", "put"},
               \/ deadLetters' = deadLetters \cup {held[w]} /\ finished' = finished
               \/ finished' = finished \cup {held[w]} /\ deadLetters' = deadLetters
        PROVE  Progress!Next
    <3>1. Progress!Settle(held[w])
      BY <2>1, <2>2, <2>3 DEF Progress!Settle, Status
    <3> QED  BY <2>2, <2>3, <3>1 DEF Progress!Next
  <2>4. CASE \/ WorkerLoop(w) \/ GetNextRange(w) \/ GetRangeTimeout(w) \/ CheckComplete(w)
             \/ YieldBatch(w) \/ SkipBatch(w) \/ PutWriteRequest(w) \/ PutTimeout(w)
             \/ RequeueFailed(w)
    BY <1>b, <2>1, <2>4 DEF WorkerLoop, GetNextRange, GetRangeTimeout, CheckComplete, YieldBatch,
       SkipBatch, PutWriteRequest, PutTimeout, RequeueFailed
  <2>5. CASE ProcessingFails(w) \/ PutFails(w)
    BY <1>b, <2>1, <2>3, <2>5 DEF ProcessingFails, PutFails, RetryOrGiveUp
  <2>6. CASE MarkCompleted(w)
    BY <2>3, <2>6 DEF MarkCompleted
  <2> QED  BY <1>1, <2>4, <2>5, <2>6 DEF Worker
<1>2. CASE Writer \/ Realtime \/ SigTerm \/ TimeExpires \/ UNCHANGED vars \/ Shutdown
  BY <1>b, <1>2 DEF vars, Writer, Realtime, RealtimeLoop, RealtimeCycle, RealtimeWake, SigTerm,
                    TimeExpires, Shutdown
<1>3. CASE Populate \/ StartWriter \/ StartWorker \/ AppendWorker \/ PollDates \/ PollWrites \/ PollWorkers
           \/ InitialCycle
  BY <1>b, <1>3 DEF Populate, StartWriter, StartWorker, AppendWorker, PollDates, PollWrites, PollWorkers,
                    InitialCycle
<1>4. CASE StartRealtime
  <2>1. finished = Ranges /\ realtime' # "off" /\ UNCHANGED <<finished, deadLetters>>
    BY <1>a, <1>4 DEF StartRealtime, MainGoto, MainInv, AllFinished
  <2>2. Progress!Announce
    BY <2>1 DEF Progress!Announce, Status
  <2> QED  BY <2>2 DEF Progress!Next
<1> QED  BY <1>1, <1>2, <1>3, <1>4 DEF Next, Main, Run, Terminated

\* The threads and queues implement the abstract backfill: a range is settled
\* once and for good, and real-time updates follow only full completion.
THEOREM ImplementsBackfillProgress == Spec => ImplementsProgress
<1>1. Init => Progress!Init
  BY ProgressInitImplements
<1>2. BackfillInv /\ [Next]_vars => [Progress!Next]_<<Status, realtime # "off">>
  BY ProgressStepImplements
<1> QED  BY <1>1, <1>2, BackfillInvariance, PTL DEF Spec, ImplementsProgress, Progress!Spec

----------------------------------------------------------------------------
(* A shutdown that ends in time. *)

Past(points) == main \in points \cup {"exiting", "exited"} /\ ~expired

\* At most one worker is missed: the one that was being started.
MissedInv ==
  /\ Missed = {} \/ \E w \in Workers : Missed = {w}
  /\ main \in RunPoints \ {"appendWorker"} => Missed = {}

\* What each step of shutdown() has established, unless the deadline passed.
ShutdownInv ==
  /\ Past({"drain", "draining", "shutdownQueue", "joinWriter"}) =>
       \A w \in Workers \ Missed : ~WorkerAlive(w)
  /\ Past({"shutdownQueue", "joinWriter"}) =>
       Missed # {} \/ (writeQueue = <<>> /\ inFlight = {})
  /\ Past({}) => ~WriterAlive

\* Requests are open only while the writer writes.
InFlightInv == /\ IsFiniteSet(inFlight)
               /\ writer \notin {"write", "failed"} => inFlight = {}
               /\ main \in {"populate", "startWriter"} => writer = "off"

\* The writer takes one request at a time and puts none down elsewhere.
LEMMA InFlightInductive ==
  /\ Init => InFlightInv
  /\ InFlightInv /\ [Next]_vars => InFlightInv'
<1> USE DEF InFlightInv
<1>1. Init => InFlightInv
  BY FS_EmptySet DEF Init
<1>2. ASSUME InFlightInv, [Next]_vars PROVE InFlightInv'
  <2> USE <1>2 DEF queueVars, mainVars, MainGoto
  <2>1. ASSUME NEW w \in Workers, Worker(w) PROVE InFlightInv'
    <3>1. UNCHANGED <<inFlight, writer, main>>
      BY <2>1 DEF mainVars, Worker, WorkerLoop, GetNextRange, GetRangeTimeout, CheckComplete, YieldBatch,
         SkipBatch, PutWriteRequest, PutTimeout, ProcessingFails, PutFails, RequeueFailed,
         MarkCompleted
    <3> QED BY <3>1
  <2>2. CASE Writer
    <3>1. CASE GetNextRequest
      BY <2>2, <3>1, FS_Singleton DEF Writer, GetNextRequest
    <3>2. CASE WriterLoop \/ GetRequestTimeout
      BY <2>2, <3>2 DEF Writer, WriterLoop, GetRequestTimeout
    <3>3. CASE WriteRequest \/ GiveUpRequest
      BY <2>2, <3>3, FS_EmptySet DEF Writer, WriteRequest, GiveUpRequest, MarkWritten
    <3>4. CASE WriteFails
      BY <2>2, <3>4 DEF Writer, WriteFails
    <3> QED BY <2>2, <3>1, <3>2, <3>3, <3>4 DEF Writer
  <2>3. CASE Realtime \/ SigTerm \/ TimeExpires \/ UNCHANGED vars
    BY <2>3 DEF Realtime, SigTerm, TimeExpires, vars
  <2>4. CASE Populate \/ StartWorker \/ AppendWorker \/ PollDates \/ PollWrites \/ PollWorkers
             \/ StartRealtime \/ InitialCycle
    BY <2>4 DEF Populate, StartWorker, AppendWorker, PollDates, PollWrites, PollWorkers,
                StartRealtime, InitialCycle
  <2>5. CASE StartWriter
    BY <2>5 DEF StartWriter
  <2>6. CASE Shutdown
    BY <2>6 DEF Shutdown, JoinThreads, StartDrain, Drain,
                ShutdownQueue, JoinWriter, Exit
  <2> QED
    BY <2>1, <2>2, <2>3, <2>4, <2>5, <2>6 DEF Next, Main, Run, Terminated
<1> QED BY <1>1, <1>2

\* A worker that runs stays started, so nobody but main changes who is missed.
LEMMA WorkerKeepsMissed ==
  ASSUME TypeInv, NEW w \in Workers, Worker(w)
  PROVE  Missed' = Missed /\ WorkerAlive(w) /\ UNCHANGED <<main, expired, writer, inFlight>>
         /\ \A v \in Workers \ {w} : worker'[v] = worker[v]
<1>1. worker \in [Workers -> WorkerPoints]
  BY DEF TypeInv, TypeOK
<1>2. /\ WorkerAlive(w) /\ UNCHANGED <<main, threads, expired, writer, inFlight>>
      /\ worker' = worker \/ \E p \in WorkerPoints \ {"off"} : Goto(w, p)
  BY DEF Worker, mainVars, queueVars, WorkerAlive, WorkerLoop, GetNextRange, GetRangeTimeout,
     CheckComplete, YieldBatch, SkipBatch, PutWriteRequest, NextBatch, PutTimeout, ProcessingFails,
     PutFails, RetryOrGiveUp, RequeueFailed, MarkCompleted, Release, Goto, WorkerPoints
<1>3. \A v \in Workers : worker'[v] = "off" <=> worker[v] = "off"
  BY <1>1, <1>2 DEF WorkerAlive, Goto
<1> QED  BY <1>1, <1>2, <1>3 DEF Missed, Goto

\* Main starts one worker at a time and notes it before the next.
LEMMA MissedInductive ==
  /\ Init => MissedInv
  /\ TypeInv /\ MissedInv /\ [Next]_vars => MissedInv'
<1>1. Init => MissedInv
  BY DEF Init, MissedInv, Missed
<1>2. ASSUME TypeInv, MissedInv, [Next]_vars PROVE MissedInv'
  <2> USE <1>2
  <2>1. ASSUME NEW w \in Workers, Worker(w) PROVE MissedInv'
    BY <2>1, WorkerKeepsMissed DEF MissedInv
  <2>2. ASSUME UNCHANGED <<worker, threads>>, main' \in RunPoints \ {"appendWorker"} =>
               main \in RunPoints \ {"appendWorker"}
        PROVE  MissedInv'
    BY <2>2 DEF MissedInv, Missed
  <2>3. CASE Writer \/ Realtime \/ SigTerm \/ TimeExpires \/ UNCHANGED vars \/ Shutdown
    <3>1. UNCHANGED <<worker, threads>> /\ (main' = main \/ main' \notin RunPoints)
      BY <2>3 DEF Writer, Realtime, SigTerm, TimeExpires, vars, workerVars, mainVars, Shutdown,
         JoinThreads, StartDrain, Drain, ShutdownQueue, JoinWriter, Exit, MainGoto, RunPoints
    <3> QED  BY <2>2, <3>1
  <2>4. CASE \/ Populate \/ StartWriter \/ PollDates \/ PollWrites \/ PollWorkers
             \/ StartRealtime \/ InitialCycle
    <3>1. UNCHANGED <<worker, threads>> /\ main \in RunPoints \ {"appendWorker"}
      BY <2>4 DEF Populate, StartWriter, PollDates, PollWrites, PollWorkers, StartRealtime,
         InitialCycle, workerVars, MainGoto, RunPoints
    <3> QED  BY <2>2, <3>1
  <2>5. CASE StartWorker
    <3>1. PICK w \in Workers : worker[w] = "off" /\ Goto(w, "loop")
      BY <2>5 DEF StartWorker
    <3>2. Missed = {} /\ threads' = threads /\ main' = "appendWorker"
      BY <2>5 DEF StartWorker, MainGoto, MissedInv, RunPoints
    <3>3. Missed' \subseteq {w}
      BY <3>1, <3>2 DEF Missed, Goto, TypeInv, TypeOK
    <3> QED  BY <3>2, <3>3 DEF MissedInv
  <2>6. CASE AppendWorker
    BY <2>6 DEF AppendWorker, workerVars, Missed, MissedInv
  <2> QED
    BY <2>1, <2>3, <2>4, <2>5, <2>6 DEF Next, Main, Run, Terminated
<1> QED BY <1>1, <1>2

LEMMA ShutdownInductive ==
  /\ Init => ShutdownInv
  /\ TypeInv /\ InFlightInv /\ ShutdownInv /\ [Next]_vars => ShutdownInv'
<1> USE DEF ShutdownInv, Past
<1>1. Init => ShutdownInv
  BY DEF Init
<1>2. ASSUME TypeInv, InFlightInv, ShutdownInv, [Next]_vars PROVE ShutdownInv'
  <2> USE <1>2
  <2>1. ASSUME NEW w \in Workers, Worker(w) PROVE ShutdownInv'
    <3>1. /\ Missed' = Missed /\ WorkerAlive(w) /\ UNCHANGED <<main, expired, writer, inFlight>>
          /\ \A v \in Workers \ {w} : worker'[v] = worker[v]
      BY <2>1, WorkerKeepsMissed
    <3>2. Past({"drain", "draining", "shutdownQueue", "joinWriter"}) => w \in Missed
      BY <3>1
    <3> QED BY <3>1, <3>2 DEF WorkerAlive, WriterAlive
  <2> USE DEF WorkerAlive, WriterAlive
  <2>2. CASE Writer
    <3>1. UNCHANGED <<main, expired, worker>> /\ Missed' = Missed
      BY <2>2 DEF Writer, mainVars, workerVars, Missed
    <3>2. writeQueue = <<>> => writeQueue' = <<>> /\ inFlight' \in {inFlight, {}}
      BY <2>2 DEF Writer, WriterLoop, GetNextRequest, GetRequestTimeout, WriteRequest, WriteFails,
         GiveUpRequest, MarkWritten, queueVars
    <3>3. WriterAlive
      BY <2>2 DEF Writer, WriterLoop, GetNextRequest, GetRequestTimeout, WriteRequest, WriteFails,
         GiveUpRequest
    <3> QED BY <3>1, <3>2, <3>3
  <2>3. CASE Realtime
    BY <2>3 DEF Realtime, queueVars, workerVars, mainVars, Missed
  <2>4. CASE SigTerm \/ TimeExpires \/ UNCHANGED vars
    BY <2>4 DEF SigTerm, TimeExpires, vars, queueVars, workerVars, mainVars, Missed
  <2>5. CASE Run
    <3>1. main \in RunPoints /\ main' \in RunPoints
      BY <2>5 DEF Run, MainGoto, RunPoints, Populate, StartWriter, StartWorker, AppendWorker,
         PollDates, PollWrites, PollWorkers, StartRealtime, InitialCycle
    <3> QED BY <3>1 DEF RunPoints
  <2>6. CASE Shutdown
    <3> USE DEF MainGoto, workerVars
    <3>1. UNCHANGED <<worker, writer, writeQueue, inFlight>> /\ Missed' = Missed
      BY <2>6 DEF Shutdown, Missed
    <3>2. CASE JoinThreads
      BY <3>1, <3>2 DEF JoinThreads, NoWorkerAlive, Missed
    <3>3. CASE StartDrain
      BY <3>1, <3>3 DEF StartDrain
    <3>4. CASE Drain
      <4>1. Len(writeQueue) \in Nat /\ Cardinality(inFlight) \in Nat
        BY FS_CardinalityType, LenProperties DEF TypeInv, TypeOK, InFlightInv
      <4>2. Len(writeQueue) = 0 /\ Cardinality(inFlight) = 0
        BY <3>4, <4>1 DEF Drain, Unfinished
      <4>3. writeQueue = <<>> /\ inFlight = {}
        BY <4>2, FS_EmptySet, EmptySeq, LenProperties DEF TypeInv, TypeOK, InFlightInv
      <4> QED BY <3>1, <3>4, <4>3 DEF Drain
    <3>5. CASE ShutdownQueue \/ JoinWriter \/ Exit
      BY <3>1, <3>5 DEF ShutdownQueue, JoinWriter, Exit
    <3> QED BY <2>6, <3>2, <3>3, <3>4, <3>5 DEF Shutdown
  <2> QED
    BY <2>1, <2>2, <2>3, <2>4, <2>5, <2>6 DEF Next, Main, Terminated
<1> QED BY <1>1, <1>2

\* A shutdown() that closes the InfluxDB client in time leaves no request
\* taken and not done, and no thread that could write to the closed client; a
\* worker still runs, or a request is still queued, only if the signal came
\* between that worker's start and its entry in _worker_threads, and there is
\* at most one such worker.
THEOREM ShutdownGraceful == Spec => []GracefulShutdown
<1>1. InFlightInv /\ MissedInv /\ ShutdownInv => GracefulShutdown
  BY DEF InFlightInv, MissedInv, ShutdownInv, Past, GracefulShutdown, WriterAlive
<1> QED
  BY <1>1, InFlightInductive, MissedInductive, ShutdownInductive, TypeInvariance, PTL DEF Spec

----------------------------------------------------------------------------
(* Every batch of a completed range has reached the write queue. *)

\* A worker without a range starts from the first batch, and one with a range
\* has put or skipped all batches before its next one.
BatchInv == \A w \in Workers :
  /\ held[w] = NoRange => pos[w] = 1
  /\ held[w] # NoRange => \A b \in 1 .. pos[w] - 1 : <<held[w], b>> \in Tracked

Requests == Elements(writeQueue) \cup inFlight \cup handled

LEMMA PutElements ==
  ASSUME TypeInv, NEW w \in Workers, PutWriteRequest(w)
  PROVE  /\ <<held[w], pos[w]>> \in Request
         /\ Elements(writeQueue') = Elements(writeQueue) \cup {<<held[w], pos[w]>>}
<1>1. <<held[w], pos[w]>> \in Request
  BY DEF PutWriteRequest, Request, TypeInv, TypeOK, HoldsRange
<1>2. writeQueue \in Seq(Request)
  BY DEF TypeInv, TypeOK
<1>3. Elements(Append(writeQueue, <<held[w], pos[w]>>))
        = Elements(writeQueue) \cup {<<held[w], pos[w]>>}
  BY <1>1, <1>2, AppendElements
<1>4. writeQueue' = Append(writeQueue, <<held[w], pos[w]>>)
  BY DEF PutWriteRequest
<1> QED BY <1>1, <1>3, <1>4

\* A request once tracked stays tracked.
LEMMA TrackedGrows == TypeInv /\ InFlightInv /\ [Next]_vars => Tracked \subseteq Tracked'
<1> SUFFICES ASSUME TypeInv, InFlightInv, [Next]_vars PROVE Requests \subseteq Requests'
  BY DEF Tracked, Requests, Elements
<1> USE DEF Requests, queueVars
<1>1. ASSUME NEW w \in Workers, Worker(w) PROVE Requests \subseteq Requests'
  <2>1. CASE PutWriteRequest(w)
    <3>1. Elements(writeQueue) \subseteq Elements(writeQueue')
      BY <2>1, PutElements
    <3>2. UNCHANGED <<inFlight, handled>>
      BY <2>1 DEF PutWriteRequest
    <3> QED BY <3>1, <3>2
  <2>2. CASE SkipBatch(w)
    BY <2>2 DEF SkipBatch
  <2>3. CASE \/ WorkerLoop(w) \/ GetNextRange(w) \/ GetRangeTimeout(w) \/ CheckComplete(w)
             \/ YieldBatch(w) \/ PutTimeout(w) \/ ProcessingFails(w) \/ PutFails(w)
             \/ RequeueFailed(w) \/ MarkCompleted(w)
    <3>1. UNCHANGED <<queueVars, handled>>
      BY <2>3 DEF WorkerLoop, GetNextRange, GetRangeTimeout, CheckComplete, YieldBatch, PutTimeout,
         ProcessingFails, PutFails, RequeueFailed, MarkCompleted
    <3> QED BY <3>1
  <2> QED BY <1>1, <2>1, <2>2, <2>3 DEF Worker
<1>2. CASE Writer
  <2>1. CASE GetNextRequest
    <3>1. Elements(writeQueue) = Elements(Tail(writeQueue)) \cup {Head(writeQueue)}
      BY <2>1, TailElements DEF GetNextRequest, TypeInv, TypeOK
    <3>2. inFlight = {}
      BY <2>1 DEF GetNextRequest, InFlightInv
    <3> QED BY <2>1, <3>1, <3>2 DEF GetNextRequest
  <2>2. CASE WriterLoop \/ GetRequestTimeout \/ WriteRequest \/ WriteFails \/ GiveUpRequest
    BY <2>2 DEF WriterLoop, GetRequestTimeout, WriteRequest, WriteFails, GiveUpRequest, MarkWritten
  <2> QED BY <1>2, <2>1, <2>2 DEF Writer
<1>3. CASE Realtime \/ SigTerm \/ TimeExpires \/ UNCHANGED vars
  BY <1>3 DEF Realtime, SigTerm, TimeExpires, vars
<1>4. CASE Main
  <2>1. UNCHANGED <<writeQueue, inFlight>>
    BY <1>4 DEF Main, Run, Shutdown, Populate, StartWriter, StartWorker, AppendWorker, PollDates, PollWrites,
       PollWorkers, StartRealtime, InitialCycle
  <2> QED BY <1>4, <2>1 DEF Main
<1> QED BY <1>1, <1>2, <1>3, <1>4 DEF Next, Terminated

\* The batch a worker puts or skips is tracked from then on.
LEMMA BatchTracked ==
  ASSUME TypeInv, [Next]_vars, NEW w \in Workers, PutWriteRequest(w) \/ SkipBatch(w)
  PROVE  <<held[w], pos[w]>> \in Tracked'
<1>1. CASE PutWriteRequest(w)
  BY <1>1, PutElements DEF Tracked, Elements
<1>2. CASE SkipBatch(w)
  BY <1>2 DEF SkipBatch, Tracked, Request, TypeInv, TypeOK, HoldsRange
<1> QED BY <1>1, <1>2

LEMMA BatchInductive ==
  /\ Init => BatchInv
  /\ TypeInv /\ InFlightInv /\ BatchInv /\ [Next]_vars => BatchInv'
<1>1. Init => BatchInv
  BY DEF Init, BatchInv
<1>2. ASSUME TypeInv, InFlightInv, BatchInv, [Next]_vars PROVE BatchInv'
  <2> USE <1>2
  <2>0. Tracked \subseteq Tracked'
    BY TrackedGrows
  <2>1. ASSUME UNCHANGED <<held, pos>> PROVE BatchInv'
    BY <2>0, <2>1 DEF BatchInv
  <2>2. ASSUME NEW w \in Workers, Worker(w) PROVE BatchInv'
    <3> DEFINE Goal(v) == /\ held'[v] = NoRange => pos'[v] = 1
                          /\ held'[v] # NoRange =>
                               \A b \in 1 .. pos'[v] - 1 : <<held'[v], b>> \in Tracked'
    <3> SUFFICES ASSUME NEW v \in Workers PROVE Goal(v)
      BY DEF BatchInv
    <3>0. /\ held \in [Workers -> Ranges \cup {NoRange}] /\ pos \in [Workers -> Nat \ {0}]
          /\ worker[w] \in {"process", "put", "backoff"} => held[w] # NoRange
          /\ worker[w] \in {"loop", "get", "check"} => held[w] = NoRange
      BY DEF TypeInv, TypeOK, HoldsRange
    <3>1. ASSUME UNCHANGED <<held, pos>> PROVE Goal(v)
      BY <2>0, <3>1 DEF BatchInv
    <3>2. ASSUME held' = [held EXCEPT ![w] = NoRange], pos' = [pos EXCEPT ![w] = 1] PROVE Goal(v)
      BY <2>0, <3>0, <3>2 DEF BatchInv
    <3>3. CASE GetNextRange(w)
      <4>1. pos[w] = 1
        BY <3>0, <3>3 DEF GetNextRange, BatchInv
      <4> QED BY <2>0, <3>0, <3>3, <4>1 DEF GetNextRange, BatchInv
    <3>4. CASE SkipBatch(w) \/ PutWriteRequest(w)
      <4>1. /\ held' = held /\ pos' = [pos EXCEPT ![w] = @ + 1]
            /\ <<held[w], pos[w]>> \in Tracked'
        BY <3>4, BatchTracked DEF SkipBatch, PutWriteRequest, NextBatch
      <4>2. held[w] # NoRange
        BY <3>0, <3>4 DEF SkipBatch, PutWriteRequest
      <4>3. CASE v # w
        <5>1. pos'[v] = pos[v] /\ held'[v] = held[v]
          BY <3>0, <4>1, <4>3
        <5> QED BY <2>0, <5>1 DEF BatchInv
      <4>4. CASE v = w
        <5>1. pos[w] \in Nat \ {0} /\ pos'[w] = pos[w] + 1 /\ held'[w] = held[w]
          BY <3>0, <4>1
        <5>2. \A b \in 1 .. pos[w] - 1 : <<held[w], b>> \in Tracked'
          BY <2>0, <4>2 DEF BatchInv
        <5>3. \A b \in 1 .. pos'[w] - 1 : b = pos[w] \/ b \in 1 .. pos[w] - 1
          BY <5>1
        <5> QED BY <4>1, <4>2, <4>4, <5>1, <5>2, <5>3
      <4> QED BY <4>3, <4>4
    <3>5. CASE ProcessingFails(w) \/ PutFails(w)
      BY <3>1, <3>2, <3>5 DEF ProcessingFails, PutFails, RetryOrGiveUp, Release
    <3>6. CASE RequeueFailed(w) \/ MarkCompleted(w)
      BY <3>2, <3>6 DEF RequeueFailed, MarkCompleted, Release
    <3>7. CASE \/ WorkerLoop(w) \/ GetRangeTimeout(w) \/ CheckComplete(w) \/ YieldBatch(w)
               \/ PutTimeout(w)
      BY <3>1, <3>7 DEF WorkerLoop, GetRangeTimeout, CheckComplete, YieldBatch, PutTimeout
    <3> QED BY <2>2, <3>3, <3>4, <3>5, <3>6, <3>7 DEF Worker
  <2>3. CASE Writer \/ Realtime \/ SigTerm \/ TimeExpires \/ UNCHANGED vars \/ Main
    BY <2>1, <2>3 DEF Writer, Realtime, SigTerm, TimeExpires, vars, workerVars, Main, Run, Shutdown,
       Populate, StartWriter, StartWorker, AppendWorker, PollDates, PollWrites, PollWorkers, StartRealtime,
       InitialCycle
  <2> QED BY <2>2, <2>3 DEF Next, Terminated
<1> QED BY <1>1, <1>2

\* A range is completed only when all its batches are tracked.
LEMMA AccountedStep ==
  TypeInv /\ InFlightInv /\ BatchInv /\ BatchesAccounted /\ [Next]_vars => BatchesAccounted'
<1> SUFFICES ASSUME TypeInv, InFlightInv, BatchInv, BatchesAccounted, [Next]_vars
             PROVE  BatchesAccounted'
  OBVIOUS
<1>0. Tracked \subseteq Tracked'
  BY TrackedGrows
<1>1. ASSUME finished' = finished PROVE BatchesAccounted'
  BY <1>0, <1>1 DEF BatchesAccounted
<1> USE <1>1 DEF dateVars
<1>2. ASSUME NEW w \in Workers, Worker(w) PROVE BatchesAccounted'
  <2>1. CASE MarkCompleted(w)
    <3>1. held[w] # NoRange /\ held[w] \in Ranges /\ pos[w] \in Nat
      BY <2>1 DEF MarkCompleted, TypeInv, TypeOK, HoldsRange
    <3>2. NumBatches[held[w]] \in Nat /\ pos[w] > NumBatches[held[w]]
      BY <2>1, <3>1, SizesAssumption DEF MarkCompleted, HasBatch
    <3>3. \A b \in 1 .. NumBatches[held[w]] : <<held[w], b>> \in Tracked
      BY <3>1, <3>2 DEF BatchInv
    <3>4. RequestsOf(held[w]) \subseteq Tracked
      BY <3>3 DEF RequestsOf
    <3>5. finished' = finished \cup {held[w]}
      BY <2>1 DEF MarkCompleted
    <3> QED BY <1>0, <3>4, <3>5 DEF BatchesAccounted
  <2>2. CASE \/ WorkerLoop(w) \/ GetNextRange(w) \/ GetRangeTimeout(w) \/ CheckComplete(w)
             \/ YieldBatch(w) \/ SkipBatch(w) \/ PutWriteRequest(w) \/ PutTimeout(w)
             \/ ProcessingFails(w) \/ PutFails(w) \/ RequeueFailed(w)
    BY <2>2 DEF WorkerLoop, GetNextRange, GetRangeTimeout, CheckComplete, YieldBatch, SkipBatch,
       PutWriteRequest, PutTimeout, ProcessingFails, PutFails, RequeueFailed
  <2> QED BY <1>2, <2>1, <2>2 DEF Worker
<1>3. CASE Writer \/ Realtime \/ SigTerm \/ TimeExpires \/ UNCHANGED vars \/ Main
  BY <1>3 DEF Writer, Realtime, SigTerm, TimeExpires, vars, Main, Run, Shutdown,
     Populate, StartWriter, StartWorker, AppendWorker, PollDates, PollWrites, PollWorkers, StartRealtime,
     InitialCycle
<1> QED BY <1>2, <1>3 DEF Next, Terminated

\* No batch of a completed range disappears between the generator and the
\* writer, however often the range was retried or a put timed out.
THEOREM NoBatchLost == Spec => []BatchesAccounted
<1>1. Init => BatchesAccounted
  BY DEF Init, BatchesAccounted
<1> QED
  BY <1>1, AccountedStep, InFlightInductive, BatchInductive, TypeInvariance, PTL DEF Spec
============================================================================
