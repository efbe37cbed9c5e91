------------------------- MODULE DateChunks_proofs -------------------------
(***************************************************************************)
(* Proofs about DateChunks for every length of a day, every chunk_days and *)
(* every span: the chunks are proper, ordered and a day apart, no blob is  *)
(* in two of them, and there are as many as the closed form says.          *)
(***************************************************************************)
EXTENDS DateChunks, TLAPS

Stride == chunkDays * Day
LastDay == (chunkDays - 1) * Day

\* While the loop runs: `current' is where the next chunk starts, one stride
\* after the last, and lies a day or more behind every chunk.
IInv ==
  /\ TypeOK
  /\ start <= end
  /\ ChunksInOrder
  /\ \A i \in DOMAIN chunks : chunks[i].end + Day <= current
  /\ chunks = <<>> => current = start
  /\ current >= start

\* The first chunk ends within the span, at or after its start.
LEMMA ChunkEndBounds ==
  ASSUME TypeOK, current <= end
  PROVE  /\ ChunkEnd(current) \in Nat
         /\ current <= ChunkEnd(current) /\ ChunkEnd(current) <= end
<1> DEFINE k == chunkDays - 1
<1>1. k \in Nat /\ Day \in Nat
  BY DayAssumption DEF TypeOK
<1> HIDE DEF k
<1>2. k * Day \in Nat
  BY <1>1, SMT
<1>3. ChunkEnd(current) = Earlier(current + k * Day, end)
  BY DEF ChunkEnd, k
<1>4. QED
  BY <1>2, <1>3 DEF Earlier, TypeOK

\* The elements of a sequence.
LEMMA ChunkOfSeq ==
  ASSUME NEW S, NEW s \in Seq(S), NEW i \in DOMAIN s
  PROVE  s[i] \in S /\ i \in Nat /\ 1 <= i /\ i <= Len(s) /\ Len(s) \in Nat
  OBVIOUS

\* What an append does to a sequence.
LEMMA AppendChunk ==
  ASSUME NEW S, NEW s \in Seq(S), NEW e \in S
  PROVE  /\ Append(s, e) \in Seq(S)
         /\ DOMAIN Append(s, e) = DOMAIN s \cup {Len(s) + 1}
         /\ \A i \in DOMAIN s : i \in Nat /\ i < Len(s) + 1 /\ i > 0 /\ Append(s, e)[i] = s[i]
         /\ Append(s, e)[Len(s) + 1] = e
         /\ Append(s, e) # <<>>
         /\ s # <<>> => 1 \in DOMAIN s
         /\ Len(s) \in Nat /\ Len(Append(s, e)) = Len(s) + 1
  OBVIOUS

\* The invariant holds before the first chunk and is kept by every chunk.
THEOREM ChunksInvariance == Spec => []IInv
<1>1. Init => IInv
  BY DayAssumption DEF Init, IInv, TypeOK, ChunksInOrder, Instants
<1>2. IInv /\ [Next]_vars => IInv'
  <2> SUFFICES ASSUME IInv, [Next]_vars PROVE IInv'
    OBVIOUS
  <2>1. CASE PutChunk
    <3> DEFINE c == [start |-> current, end |-> ChunkEnd(current)]
    <3>1. /\ ChunkEnd(current) \in Nat
          /\ current <= ChunkEnd(current) /\ ChunkEnd(current) <= end
      BY <2>1, ChunkEndBounds DEF IInv, PutChunk
    <3>2. c \in [start : Nat, end : Nat] /\ chunks \in Seq([start : Nat, end : Nat])
      BY <3>1 DEF IInv, TypeOK
    <3>3. chunks' = Append(chunks, c) /\ current' = ChunkEnd(current) + Day /\ UNCHANGED span
      BY <2>1 DEF PutChunk
    <3>4. c.start = current /\ c.end = ChunkEnd(current)
      OBVIOUS
    <3> HIDE DEF c
    <3>5. /\ chunks' \in Seq([start : Nat, end : Nat])
          /\ DOMAIN chunks' = DOMAIN chunks \cup {Len(chunks) + 1}
          /\ \A i \in DOMAIN chunks :
               i \in Nat /\ i < Len(chunks) + 1 /\ i > 0 /\ chunks'[i] = chunks[i]
          /\ chunks'[Len(chunks) + 1] = c
          /\ chunks' # <<>>
          /\ chunks # <<>> => 1 \in DOMAIN chunks
          /\ Len(chunks) \in Nat
      BY <3>2, <3>3, AppendChunk
    <3>6. TypeOK'
      BY <3>1, <3>3, <3>5, DayAssumption DEF IInv, TypeOK, span
    <3>7. \A i \in DOMAIN chunks : chunks[i].start \in Nat /\ chunks[i].end \in Nat
      <4> TAKE i \in DOMAIN chunks
      <4>1. chunks[i] \in [start : Nat, end : Nat]
        BY <3>2, ChunkOfSeq
      <4>2. QED
        BY <4>1
    <3>8. \A i \in DOMAIN chunks' : chunks'[i].end + Day <= current'
      <4>1. Day \in Nat /\ current \in Nat /\ ChunkEnd(current) \in Nat /\ current' = ChunkEnd(current) + Day
        BY <3>1, <3>3, DayAssumption DEF IInv, TypeOK
      <4>2. ASSUME NEW i \in DOMAIN chunks PROVE chunks'[i].end + Day <= current'
        <5>1. chunks'[i].end \in Nat /\ chunks'[i].end + Day <= current
          BY <3>5, <3>7 DEF IInv
        <5> QED BY <3>1, <4>1, <5>1
      <4>3. chunks'[Len(chunks) + 1].end + Day <= current'
        BY <3>4, <3>5, <4>1
      <4> QED BY <3>5, <4>2, <4>3
    <3>9. \A i \in DOMAIN chunks' :
            start' <= chunks'[i].start /\ chunks'[i].start <= chunks'[i].end
              /\ chunks'[i].end <= end'
      BY <3>1, <3>3, <3>4, <3>5 DEF IInv, ChunksInOrder, span
    <3>10. \A i, j \in DOMAIN chunks' : i < j => chunks'[i].end + Day <= chunks'[j].start
      <4> SUFFICES ASSUME NEW i \in DOMAIN chunks', NEW j \in DOMAIN chunks', i < j
                   PROVE  chunks'[i].end + Day <= chunks'[j].start
        OBVIOUS
      <4>1. i \in DOMAIN chunks
        BY <3>5
      <4>2. CASE j \in DOMAIN chunks
        BY <3>5, <4>1, <4>2 DEF IInv, ChunksInOrder
      <4>3. CASE j = Len(chunks) + 1
        BY <3>4, <3>5, <4>1, <4>3 DEF IInv
      <4>4. QED
        BY <3>5, <4>2, <4>3
    <3>11. chunks'[1].start = start'
      BY <3>2, <3>3, <3>4, <3>5, AppendChunk DEF IInv, ChunksInOrder, span
    <3>12. current' >= start' /\ start' <= end'
      BY <3>1, <3>3, DayAssumption DEF IInv, TypeOK, span
    <3>13. QED
      BY <3>5, <3>6, <3>8, <3>9, <3>10, <3>11, <3>12 DEF IInv, ChunksInOrder
  <2>2. CASE UNCHANGED vars
    BY <2>2 DEF IInv, TypeOK, ChunksInOrder, vars, span
  <2>3. QED
    BY <2>1, <2>2 DEF Next, Terminated
<1>3. QED
  BY <1>1, <1>2, PTL DEF Spec

\* The chunks are well-typed, proper and in order.
THEOREM ChunksOrdered == Spec => [](TypeOK /\ ChunksInOrder)
<1>1. IInv => TypeOK /\ ChunksInOrder
  BY DEF IInv
<1>2. QED
  BY <1>1, ChunksInvariance, PTL

\* No blob is in two chunks.
THEOREM BlobsDisjoint == Spec => []NoBlobTwice
<1>1. IInv => NoBlobTwice
  <2> SUFFICES ASSUME IInv, NEW i \in DOMAIN chunks, NEW j \in DOMAIN chunks, i # j,
                      NEW t \in BlobsOf(i) \cap BlobsOf(j)
               PROVE  FALSE
    BY DEF NoBlobTwice
  <2>1. i \in Nat /\ j \in Nat /\ chunks[i] \in [start : Nat, end : Nat]
        /\ chunks[j] \in [start : Nat, end : Nat]
    BY ChunkOfSeq DEF IInv, TypeOK
  <2>2. /\ t \in Nat
        /\ chunks[i].start <= t /\ t <= chunks[i].end
        /\ chunks[j].start <= t /\ t <= chunks[j].end
    BY DayAssumption DEF BlobsOf, BlobsInRange, Instants
  <2>3. i < j => chunks[i].end + Day <= chunks[j].start
    BY DEF IInv, ChunksInOrder
  <2>4. j < i => chunks[j].end + Day <= chunks[i].start
    BY DEF IInv, ChunksInOrder
  <2>5. QED
    BY <2>1, <2>2, <2>3, <2>4, DayAssumption
<1>2. QED
  BY <1>1, ChunksInvariance, PTL

----------------------------------------------------------------------------
(* Where each chunk lies, and what the closed forms say. *)

\* Each chunk starts a stride after the one before it; the loop ends once the
\* strides have passed the end of the span.
CInv ==
  /\ end <= Horizon
  /\ \A i \in DOMAIN chunks :
       /\ chunks[i].start = start + (i - 1) * Stride
       /\ chunks[i].end = Earlier(chunks[i].start + LastDay, end)
  /\ current <= end => current = start + Len(chunks) * Stride
  /\ current > end => Len(chunks) >= 1 /\ end < start + Len(chunks) * Stride

\* A stride is its last day's offset and one day more.
LEMMA StrideTypes ==
  ASSUME TypeOK
  PROVE  /\ Stride \in Nat \ {0} /\ LastDay \in Nat /\ Stride = LastDay + Day
         /\ \A n \in Nat : n * Stride \in Nat /\ (n + 1) * Stride = n * Stride + Stride
<1> DEFINE k == chunkDays - 1
<1>1. k \in Nat /\ Day \in Nat \ {0} /\ chunkDays = k + 1
  BY DayAssumption DEF TypeOK
<1> HIDE DEF k
<1>2. k * Day \in Nat /\ (k + 1) * Day = k * Day + Day
  BY <1>1, SMT
<1>3. LastDay = k * Day /\ Stride = (k + 1) * Day
  BY <1>1 DEF Stride, LastDay, k
<1>4. Stride \in Nat \ {0} /\ LastDay \in Nat /\ Stride = LastDay + Day
  BY <1>1, <1>2, <1>3
<1>5. ASSUME NEW n \in Nat, NEW b \in Nat
      PROVE  n * b \in Nat /\ (n + 1) * b = n * b + b
  OBVIOUS
<1>6. QED
  BY <1>4, <1>5

\* Multiplication by a natural number is monotonic.
LEMMA TimesMonotonic ==
  ASSUME NEW x \in Nat, NEW y \in Nat, NEW b \in Nat, x <= y
  PROVE  x * b <= y * b
<1>1. PICK d \in Nat : y = x + d
  OBVIOUS
<1>2. y * b = x * b + d * b /\ d * b \in Nat /\ x * b \in Nat
  BY <1>1
<1>3. QED
  BY <1>2

\* Every number lies between two multiples, at its remainder.
LEMMA DivisionOf ==
  ASSUME NEW a \in Nat, NEW b \in Nat \ {0}
  PROVE  /\ a \div b \in Nat /\ (a % b) \in Nat /\ (a % b) < b
         /\ a = (a \div b) * b + (a % b)
<1>1. a \div b \in Nat
  OBVIOUS
<1>2. (a % b) \in Nat /\ (a % b) < b
  OBVIOUS
<1>3. a = b * (a \div b) + (a % b)
  OBVIOUS
<1>4. QED
  BY <1>1, <1>2, <1>3

\* The two multiples around a number are its quotient's, and its distance
\* from the lower one is its remainder.
LEMMA DivisionBetweenMultiples ==
  ASSUME NEW a \in Nat, NEW b \in Nat \ {0}, NEW q \in Nat, q * b <= a, a < q * b + b
  PROVE  a \div b = q /\ (a % b) = a - q * b
<1> DEFINE d == a \div b
           r == a % b
<1>1. d \in Nat /\ r \in Nat /\ r < b /\ a = d * b + r
  BY DivisionOf
<1> HIDE DEF d, r
<1>2. d * b \in Nat /\ q * b \in Nat
  BY <1>1
<1>3. (d + 1) * b = d * b + b /\ (q + 1) * b = q * b + b
  BY <1>1
<1>4. ~(d + 1 <= q)
  <2> SUFFICES ASSUME d + 1 <= q PROVE FALSE
    OBVIOUS
  <2>1. (d + 1) * b <= q * b
    BY <1>1, TimesMonotonic
  <2>2. QED
    BY <1>1, <1>2, <1>3, <2>1
<1>5. ~(q + 1 <= d)
  <2> SUFFICES ASSUME q + 1 <= d PROVE FALSE
    OBVIOUS
  <2>1. (q + 1) * b <= d * b
    BY <1>1, TimesMonotonic
  <2>2. QED
    BY <1>1, <1>2, <1>3, <2>1
<1>6. d = q
  BY <1>1, <1>4, <1>5
<1>7. QED
  BY <1>1, <1>2, <1>6 DEF d, r

\* The positions of the chunks are an invariant, beside IInv.
THEOREM ChunkPositions == Spec => []CInv
<1>1. Init => CInv
  <2> SUFFICES ASSUME Init PROVE CInv
    OBVIOUS
  <2>1. TypeOK
    BY DayAssumption DEF Init, TypeOK, Instants
  <2>2. Len(chunks) = 0 /\ DOMAIN chunks = {} /\ current = start /\ start \in Nat
        /\ end <= Horizon /\ current <= end
    BY DayAssumption DEF Init, Instants
  <2>3. 0 * Stride = 0
    BY <2>1, StrideTypes
  <2>4. QED
    BY <2>1, <2>2, <2>3 DEF CInv, TypeOK
<1>2. IInv /\ CInv /\ [Next]_vars => CInv'
  <2> SUFFICES ASSUME IInv, CInv, [Next]_vars PROVE CInv'
    OBVIOUS
  <2>1. CASE PutChunk
    <3> DEFINE c == [start |-> current, end |-> ChunkEnd(current)]
               n == Len(chunks)
    <3>1. TypeOK /\ current <= end
      BY <2>1 DEF IInv, PutChunk
    <3>2. /\ ChunkEnd(current) \in Nat /\ ChunkEnd(current) <= end
          /\ ChunkEnd(current) = Earlier(current + LastDay, end)
      BY <3>1, ChunkEndBounds DEF ChunkEnd, LastDay
    <3>3. chunks' = Append(chunks, c) /\ current' = ChunkEnd(current) + Day /\ UNCHANGED span
      BY <2>1 DEF PutChunk
    <3>4. c \in [start : Nat, end : Nat] /\ chunks \in Seq([start : Nat, end : Nat])
          /\ c.start = current /\ c.end = ChunkEnd(current)
      BY <3>1, <3>2 DEF TypeOK
    <3> HIDE DEF c
    <3>5. /\ DOMAIN chunks' = DOMAIN chunks \cup {n + 1}
          /\ \A i \in DOMAIN chunks : chunks'[i] = chunks[i]
          /\ chunks'[n + 1] = c
          /\ n \in Nat /\ Len(chunks') = n + 1
      BY <3>3, <3>4, AppendChunk
    <3> HIDE DEF n
    <3>6. Stride' = Stride /\ LastDay' = LastDay /\ start' = start /\ end' = end
      BY <3>3 DEF Stride, LastDay, span
    <3>7. /\ Stride \in Nat /\ LastDay \in Nat /\ Stride = LastDay + Day
          /\ n * Stride \in Nat /\ (n + 1) * Stride = n * Stride + Stride
      BY <3>1, <3>5, StrideTypes
    <3>8. current = start + n * Stride
      BY <3>1 DEF CInv, n
    <3>9. \A i \in DOMAIN chunks' :
            /\ chunks'[i].start = start' + (i - 1) * Stride'
            /\ chunks'[i].end = Earlier(chunks'[i].start + LastDay', end')
      <4>1. ASSUME NEW i \in DOMAIN chunks
            PROVE  /\ chunks'[i].start = start' + (i - 1) * Stride'
                   /\ chunks'[i].end = Earlier(chunks'[i].start + LastDay', end')
        BY <3>5, <3>6 DEF CInv, Earlier
      <4>2. (n + 1) - 1 = n
        BY <3>5
      <4>3. /\ chunks'[n + 1].start = start' + ((n + 1) - 1) * Stride'
            /\ chunks'[n + 1].end = Earlier(chunks'[n + 1].start + LastDay', end')
        BY <3>2, <3>4, <3>5, <3>6, <3>8, <4>2 DEF Earlier
      <4>4. QED
        BY <3>5, <4>1, <4>3
    <3>10. /\ current' <= end' => current' = start' + (n + 1) * Stride'
           /\ current' > end' => end' < start' + (n + 1) * Stride'
      <4> DEFINE m == n * Stride
      <4>1. m \in Nat /\ (n + 1) * Stride = m + Stride /\ current = start + m
        BY <3>7, <3>8
      <4>2. start \in Nat /\ end \in Nat /\ current \in Nat /\ Day \in Nat \ {0}
        BY <3>1, DayAssumption DEF TypeOK
      <4> HIDE DEF m
      <4>3. CASE current + LastDay <= end
        <5>1. current' = start + m + Stride
          BY <3>2, <3>3, <3>7, <4>1, <4>2, <4>3 DEF Earlier
        <5>2. QED
          BY <3>6, <3>7, <4>1, <4>2, <5>1
      <4>4. CASE ~(current + LastDay <= end)
        <5>1. current' = end + Day
          BY <3>2, <3>3, <4>4 DEF Earlier
        <5>2. QED
          BY <3>6, <3>7, <4>1, <4>2, <4>4, <5>1
      <4>5. QED
        BY <4>3, <4>4
    <3>11. end' <= Horizon /\ Len(chunks') >= 1
      BY <3>5, <3>6 DEF CInv
    <3>12. QED
      BY <3>5, <3>9, <3>10, <3>11 DEF CInv
  <2>2. CASE UNCHANGED vars
    BY <2>2 DEF CInv, Stride, LastDay, Earlier, vars, span
  <2>3. QED
    BY <2>1, <2>2 DEF Next, Terminated
<1>3. QED
  BY <1>1, <1>2, ChunksInvariance, PTL DEF Spec

\* There are as many chunks as strides begin within the span.
THEOREM ChunkCount == Spec => []TotalRanges
<1>1. IInv /\ CInv => TotalRanges
  <2> SUFFICES ASSUME IInv, CInv, Populated
               PROVE  Len(chunks) = (end - start) \div Stride + 1
    BY DEF TotalRanges, Stride
  <2> DEFINE n == Len(chunks)
             q == n - 1
  <2>1. TypeOK /\ start \in Nat /\ end \in Nat /\ start <= end
    BY DEF IInv, TypeOK
  <2>2. n \in Nat /\ n >= 1 /\ end < start + n * Stride
    BY <2>1 DEF CInv, TypeOK, Populated
  <2>3. n \in DOMAIN chunks
    BY <2>1, <2>2 DEF TypeOK
  <2>4. chunks[n].start = start + (n - 1) * Stride /\ chunks[n].start <= end
    <3>1. chunks[n].start = start + (n - 1) * Stride
      BY <2>3 DEF CInv
    <3>2. chunks[n] \in [start : Nat, end : Nat]
      BY <2>1, <2>3, ChunkOfSeq DEF TypeOK
    <3>3. chunks[n].start <= chunks[n].end /\ chunks[n].end <= end
      BY <2>3 DEF IInv, ChunksInOrder
    <3>4. QED
      BY <2>1, <3>1, <3>2, <3>3
  <2> HIDE DEF n
  <2>5. q \in Nat /\ n = q + 1
    BY <2>2
  <2>6. n * Stride = q * Stride + Stride /\ q * Stride \in Nat /\ Stride \in Nat \ {0}
    BY <2>1, <2>5, StrideTypes
  <2>7. start + q * Stride <= end
    BY <2>1, <2>4
  <2> HIDE DEF q
  <2>8. q * Stride <= end - start /\ end - start < q * Stride + Stride /\ end - start \in Nat
    BY <2>1, <2>2, <2>6, <2>7
  <2>9. (end - start) \div Stride = q
    BY <2>5, <2>6, <2>8, DivisionBetweenMultiples
  <2>10. QED
    BY <2>5, <2>9 DEF n
<1>2. QED
  BY <1>1, ChunksInvariance, ChunkPositions, PTL

\* Later instants are on later days, or the same.
LEMMA DateMonotonic ==
  ASSUME NEW s \in Nat, NEW t \in Nat, s <= t
  PROVE  DateOf(s) \in Nat /\ DateOf(t) \in Nat /\ DateOf(s) <= DateOf(t)
<1> DEFINE ds == s \div Day
           dt == t \div Day
           rs == s % Day
           rt == t % Day
<1>1. Day \in Nat \ {0}
  BY DayAssumption
<1>2. ds \in Nat /\ rs \in Nat /\ rs < Day /\ s = ds * Day + rs
  BY <1>1, DivisionOf
<1>3. dt \in Nat /\ rt \in Nat /\ rt < Day /\ t = dt * Day + rt
  BY <1>1, DivisionOf
<1>4. DateOf(s) = ds /\ DateOf(t) = dt
  BY DEF DateOf
<1> HIDE DEF ds, dt, rs, rt
<1>5. ~(dt + 1 <= ds)
  <2> SUFFICES ASSUME dt + 1 <= ds PROVE FALSE
    OBVIOUS
  <2>1. (dt + 1) * Day <= ds * Day
    BY <1>1, <1>2, <1>3, TimesMonotonic
  <2>2. (dt + 1) * Day = dt * Day + Day /\ dt * Day \in Nat /\ ds * Day \in Nat
    BY <1>1, <1>2, <1>3
  <2>3. QED
    BY <1>1, <1>2, <1>3, <2>1, <2>2
<1>6. QED
  BY <1>2, <1>3, <1>4, <1>5

\* Listing day by day finds every blob of the interval and no other.
LEMMA BlobsAreInterval ==
  ASSUME NEW s \in Nat, NEW e \in Nat, e <= Horizon, NEW t \in Nat
  PROVE  t \in BlobsInRange(s, e) <=> s <= t /\ t <= e
<1>1. ASSUME s <= t, t <= e PROVE DateOf(t) \in DaysToCheck(s, e)
  BY <1>1, DateMonotonic DEF DaysToCheck
<1>2. QED
  BY <1>1, DayAssumption DEF BlobsInRange, Instants

\* The blobs of the span that are in no chunk are exactly those of the last
\* day of each stride.
THEOREM GapsExact == Spec => []GapsAreLastDays
<1>1. IInv /\ CInv => GapsAreLastDays
  <2> SUFFICES ASSUME IInv, CInv, Populated, NEW t \in start .. end
               PROVE  (\E i \in DOMAIN chunks : t \in BlobsOf(i))
                        <=> ((t - start) % Stride) <= LastDay
    BY DEF GapsAreLastDays, Stride, LastDay
  <2> DEFINE o == t - start
             q == o \div Stride
             r == o % Stride
             n == Len(chunks)
  <2>1. TypeOK /\ start \in Nat /\ end \in Nat /\ end <= Horizon
    BY DEF IInv, TypeOK, CInv
  <2>2. /\ Stride \in Nat \ {0} /\ LastDay \in Nat /\ LastDay < Stride
        /\ \A k \in Nat : k * Stride \in Nat /\ (k + 1) * Stride = k * Stride + Stride
    <3>1. /\ Stride \in Nat \ {0} /\ LastDay \in Nat /\ Stride = LastDay + Day
          /\ \A k \in Nat : k * Stride \in Nat /\ (k + 1) * Stride = k * Stride + Stride
      BY <2>1, StrideTypes
    <3>2. LastDay < Stride
      BY <3>1, DayAssumption
    <3>3. QED
      BY <3>1, <3>2
  <2>3. o \in Nat /\ t \in Nat /\ t = start + o /\ t <= end
    BY <2>1
  <2>4. ASSUME NEW i \in DOMAIN chunks
        PROVE  /\ i - 1 \in Nat
               /\ t \in BlobsOf(i)
                    <=> (start + (i - 1) * Stride <= t /\ t <= start + (i - 1) * Stride + LastDay)
    <3>1. chunks[i] \in [start : Nat, end : Nat] /\ i - 1 \in Nat
      <4>1. chunks \in Seq([start : Nat, end : Nat])
        BY <2>1 DEF TypeOK
      <4>2. chunks[i] \in [start : Nat, end : Nat] /\ i \in Nat /\ 1 <= i
        BY <4>1, ChunkOfSeq
      <4>3. QED
        BY <4>2
    <3>2. chunks[i].start = start + (i - 1) * Stride
          /\ chunks[i].end = Earlier(chunks[i].start + LastDay, end)
      BY DEF CInv
    <3>3. chunks[i].end <= end
      BY DEF IInv, ChunksInOrder
    <3>4. t \in BlobsOf(i) <=> chunks[i].start <= t /\ t <= chunks[i].end
      <4>1. chunks[i].start \in Nat /\ chunks[i].end \in Nat
        BY <3>1
      <4>2. chunks[i].end <= Horizon
        BY <2>1, <3>3, <4>1, DayAssumption
      <4>3. QED
        BY <2>3, <4>1, <4>2, BlobsAreInterval DEF BlobsOf
    <3>5. (i - 1) * Stride \in Nat
      BY <2>2, <3>1
    <3> DEFINE m == (i - 1) * Stride
    <3> HIDE DEF m, o
    <3>6. /\ m \in Nat /\ chunks[i].start = start + m
          /\ chunks[i].end = Earlier(start + m + LastDay, end)
          /\ start + m + LastDay \in Nat
      BY <2>1, <2>2, <3>2, <3>5 DEF m
    <3>7. t <= chunks[i].end <=> t <= start + m + LastDay
      BY <2>1, <2>3, <3>6 DEF Earlier
    <3>8. QED
      BY <3>1, <3>4, <3>6, <3>7 DEF m
  <2>5. ASSUME NEW i \in DOMAIN chunks, t \in BlobsOf(i)
        PROVE  r <= LastDay
    <3> DEFINE k == i - 1
    <3>1. k \in Nat /\ start + k * Stride <= t /\ t <= start + k * Stride + LastDay
      BY <2>4, <2>5
    <3> HIDE DEF k, o
    <3>2. k * Stride \in Nat
      BY <2>2, <3>1
    <3>3. k * Stride <= o /\ o <= k * Stride + LastDay
      BY <2>1, <2>2, <2>3, <3>1, <3>2
    <3>4. o < k * Stride + Stride
      BY <2>1, <2>2, <2>3, <3>2, <3>3
    <3>5. r = o - k * Stride
      BY <2>2, <2>3, <3>1, <3>3, <3>4, DivisionBetweenMultiples
    <3>6. QED
      BY <2>2, <2>3, <3>2, <3>3, <3>5
  <2>6. ASSUME r <= LastDay
        PROVE  \E i \in DOMAIN chunks : t \in BlobsOf(i)
    <3>1. q \in Nat /\ r \in Nat /\ o = q * Stride + r
      BY <2>2, <2>3, DivisionOf
    <3>2. n \in Nat /\ end < start + n * Stride
      BY <2>1 DEF CInv, TypeOK, Populated
    <3> HIDE DEF o, q, r, n
    <3>3. q * Stride \in Nat /\ n * Stride \in Nat
      BY <2>2, <3>1, <3>2
    <3>4. ~(n <= q)
      <4> SUFFICES ASSUME n <= q PROVE FALSE
        OBVIOUS
      <4>1. n * Stride <= q * Stride
        BY <2>2, <3>1, <3>2, TimesMonotonic
      <4>2. QED
        BY <2>1, <2>3, <3>1, <3>2, <3>3, <4>1
    <3>5. q + 1 \in DOMAIN chunks /\ (q + 1) - 1 = q
      BY <2>1, <3>1, <3>2, <3>4 DEF TypeOK, n
    <3>6. t \in BlobsOf(q + 1)
            <=> (start + ((q + 1) - 1) * Stride <= t /\ t <= start + ((q + 1) - 1) * Stride + LastDay)
      BY <2>4, <3>5
    <3>7. start + q * Stride <= t /\ t <= start + q * Stride + LastDay
      BY <2>1, <2>2, <2>3, <2>6, <3>1, <3>3
    <3>8. t \in BlobsOf(q + 1)
      BY <3>5, <3>6, <3>7
    <3>9. QED
      BY <3>5, <3>8
  <2>7. QED
    BY <2>5, <2>6
<1>2. QED
  BY <1>1, ChunksInvariance, ChunkPositions, PTL
============================================================================
