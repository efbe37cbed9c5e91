---------------------- MODULE SegmentLifecycle_proofs ----------------------
(***************************************************************************)
(* Proofs about SegmentLifecycle for any segments, dates and limits.       *)
(*                                                                         *)
(* The invariant IInv has three parts besides the types.  PermitsConserved *)
(* is inductive as it stands.  WorkersFollowListing is about the end of a  *)
(* cycle; Following says of each segment that the cycle has come past it   *)
(* already what the property says of all of them.  Counting bounds from    *)
(* below the failed cycles that the error counts stand for.                *)
(***************************************************************************)
EXTENDS SegmentLifecycle, FiniteSetTheorems, TLAPS

\* TypeOK but for the upper bound of the permits, which PermitsConserved gives.
Types ==
  /\ snapshot \in [Segments -> Listings]
  /\ todo \subseteq Segments /\ deleting \subseteq Segments
  /\ pc \in [Segments -> Points] /\ start \in [Segments -> Listings]
  /\ profile \in [Segments -> Listings] /\ made \in [Segments -> Listings]
  /\ permits \in Nat /\ repo \in [Segments -> Listings]
  /\ orphans \subseteq Segments \X Listings
  /\ tracker \in [Segments -> 0 .. MaxCycleErrors]
  /\ errors \in [Segments -> 0 .. MaxErrors] /\ failed \in [Segments -> 0 .. Total]
  /\ raced \in [Segments -> BOOLEAN]

Follows(s) ==
  /\ s \in Active <=> snapshot[s] # None
  /\ s \in Active => start[s] = snapshot[s]
Following ==
  \A s \in Segments : IF s \in todo THEN snapshot[s] # None ELSE Follows(s)

Counts(s) ==
  /\ failed[s] >= tracker[s]
  /\ errors[s] > 0 => failed[s] >= MaxCycleErrors + errors[s] - 1
  /\ pc[s] = "dead" <=> errors[s] = MaxErrors
Counting == \A s \in Segments : Counts(s)

IInv == Types /\ Following /\ PermitsConserved /\ Counting

----------------------------------------------------------------------------

USE SegmentsAssumption, LimitsAssumption

\* A segment that enters the profiling section is one more, one that leaves it
\* is one less, and one that moves elsewhere does not count.
LEMMA GeneratingMoves ==
  ASSUME Types, NEW s \in Segments, NEW p \in Points, Goto(s, p)
  PROVE  /\ Cardinality(Generating) \in Nat /\ Cardinality(Generating') \in Nat
         /\ s \notin Generating /\ p = "generate"
              => Cardinality(Generating') = Cardinality(Generating) + 1
         /\ s \in Generating /\ p # "generate"
              => Cardinality(Generating') = Cardinality(Generating) - 1
         /\ s \notin Generating /\ p # "generate" => Generating' = Generating
<1>1. IsFiniteSet(Generating) /\ IsFiniteSet(Generating')
  BY FS_Subset DEF Generating
<1>2. Cardinality(Generating) \in Nat /\ Cardinality(Generating') \in Nat
  BY <1>1, FS_CardinalityType
<1>3. p = "generate" => Generating' = Generating \cup {s}
  BY DEF Generating, Goto, Types
<1>4. p # "generate" => Generating' = Generating \ {s}
  BY DEF Generating, Goto, Types
<1>5. CASE s \notin Generating
  <2>1. Cardinality(Generating \cup {s}) = Cardinality(Generating) + 1
    BY <1>1, <1>5, FS_AddElement
  <2>2. Generating \ {s} = Generating
    BY <1>5
  <2> QED BY <1>2, <1>3, <1>4, <1>5, <2>1, <2>2
<1>6. CASE s \in Generating
  BY <1>1, <1>2, <1>3, <1>4, <1>6, FS_RemoveElement
<1> QED BY <1>2, <1>5, <1>6

\* A worker's cycle that ends or fails keeps the types and the counting, and
\* leads out of the profiling section.
LEMMA CycleOutcome ==
  ASSUME Types, Counting, NEW s \in Segments, pc[s] # "dead",
         EndCycle(s) \/ FailCycle(s)
  PROVE  /\ tracker' \in [Segments -> 0 .. MaxCycleErrors]
         /\ errors' \in [Segments -> 0 .. MaxErrors] /\ failed' \in [Segments -> 0 .. Total]
         /\ Counting'
         /\ \E p \in {"wait", "dead"} : Goto(s, p)
<1> Total \in Nat /\ Total >= MaxCycleErrors /\ Total >= MaxErrors
  BY DEF Total
<1>1. Counts(s) /\ errors[s] < MaxErrors
  BY DEF Counting, Counts, Types
<1>2. CASE EndCycle(s)
  <2>1. /\ tracker' \in [Segments -> 0 .. MaxCycleErrors]
        /\ errors' = errors /\ failed' = failed /\ Goto(s, "wait")
    BY <1>2 DEF EndCycle, Types
  <2>2. ASSUME NEW t \in Segments PROVE Counts(t)'
    <3>1. tracker'[t] <= tracker[t] /\ (pc'[t] = "dead" <=> pc[t] = "dead")
      BY <1>2, <2>1 DEF EndCycle, Goto, Types
    <3>2. Counts(t) BY DEF Counting
    <3> QED BY <2>1, <3>1, <3>2 DEF Counts, Types
  <2> QED BY <2>1, <2>2 DEF Types, Counting
<1>3. CASE FailCycle(s)
  <2> DEFINE p == IF Escalates(s) /\ LastError(s) THEN "dead" ELSE "wait"
  <2>1. /\ tracker' = [tracker EXCEPT ![s] = UpTo(MaxCycleErrors, tracker[s])]
        /\ failed' = [failed EXCEPT ![s] = UpTo(Total, failed[s])]
        /\ errors' = [errors EXCEPT ![s] = IF Escalates(s) THEN errors[s] + 1 ELSE errors[s]]
        /\ pc' = [pc EXCEPT ![s] = p] /\ Goto(s, p)
    BY <1>3 DEF FailCycle, Goto
  <2>2. /\ tracker[s] \in 0 .. MaxCycleErrors /\ errors[s] \in 0 .. MaxErrors
        /\ failed[s] \in 0 .. Total
    BY DEF Types
  <2>3. /\ UpTo(MaxCycleErrors, tracker[s]) \in 0 .. MaxCycleErrors
        /\ UpTo(Total, failed[s]) \in 0 .. Total
        /\ UpTo(Total, failed[s]) >= UpTo(MaxCycleErrors, tracker[s])
    BY <1>1, <2>2 DEF UpTo, Counts
  <2>4. /\ tracker' \in [Segments -> 0 .. MaxCycleErrors]
        /\ errors' \in [Segments -> 0 .. MaxErrors] /\ failed' \in [Segments -> 0 .. Total]
    BY <1>1, <2>1, <2>2, <2>3 DEF Types
  <2>5. Counts(s)'
    <3>1. /\ tracker'[s] = UpTo(MaxCycleErrors, tracker[s])
          /\ failed'[s] = UpTo(Total, failed[s])
          /\ errors'[s] = IF Escalates(s) THEN errors[s] + 1 ELSE errors[s]
          /\ pc'[s] = p
      BY <2>1 DEF Types
    <3>2. errors'[s] > 0 => failed'[s] >= MaxCycleErrors + errors'[s] - 1
      BY <1>1, <2>2, <3>1 DEF UpTo, Escalates, Counts, Total
    <3>3. pc'[s] = "dead" <=> errors'[s] = MaxErrors
      BY <1>1, <2>2, <3>1 DEF Escalates, LastError
    <3> QED BY <2>3, <3>1, <3>2, <3>3 DEF Counts
  <2>6. ASSUME NEW t \in Segments, t # s PROVE Counts(t)'
    <3>1. /\ tracker'[t] = tracker[t] /\ failed'[t] = failed[t] /\ errors'[t] = errors[t]
          /\ pc'[t] = pc[t]
      BY <2>1, <2>6 DEF Types
    <3> QED BY <3>1 DEF Counts, Counting
  <2>7. \E q \in {"wait", "dead"} : Goto(s, q)
    BY <2>1
  <2> QED BY <2>4, <2>5, <2>6, <2>7 DEF Counting
<1> QED BY <1>2, <1>3

\* While the counts stay, a move between points other than "dead" keeps Counting.
LEMMA MoveKeepsCounting ==
  ASSUME Types, Counting, NEW s \in Segments, pc[s] # "dead",
         NEW p \in Points \ {"dead"}, Goto(s, p), UNCHANGED counters
  PROVE  Counting'
<1>1. ASSUME NEW t \in Segments PROVE pc'[t] = "dead" <=> pc[t] = "dead"
  BY DEF Goto, Types
<1> QED BY <1>1 DEF Counting, Counts, counters

\* A worker's own step makes it neither appear nor disappear.
LEMMA MoveKeepsFollowing ==
  ASSUME Types, Following, NEW s \in Segments, pc[s] # "none",
         NEW p \in Points \ {"none"}, Goto(s, p), UNCHANGED <<manager, start>>
  PROVE  Following'
<1>1. Active' = Active BY DEF Goto, Types, Active
<1> QED BY <1>1 DEF Following, Follows, manager

\* What a worker's step does to the parts of the invariant.
LEMMA WorkerStep ==
  ASSUME IInv, NEW s \in Segments, Worker(s)
  PROVE  IInv'
<1> USE DEF IInv
<1>1. UNCHANGED <<manager, orphans>> BY DEF Worker
<1>2. UNCHANGED <<snapshot, todo, deleting, orphans>> BY <1>1 DEF manager
<1>3. ASSUME NEW p \in {"wait", "dead"}, Goto(s, p), pc[s] \notin {"none", "dead", "generate"},
             EndCycle(s) \/ FailCycle(s), UNCHANGED <<start, profile, made, raced, permits, repo>>
      PROVE  IInv'
  <2>1. /\ tracker' \in [Segments -> 0 .. MaxCycleErrors]
        /\ errors' \in [Segments -> 0 .. MaxErrors] /\ failed' \in [Segments -> 0 .. Total]
        /\ Counting'
    BY <1>3, CycleOutcome
  <2>2. Types' BY <1>2, <1>3, <2>1 DEF Types, Goto, Points
  <2>3. Following' BY <1>1, <1>3, MoveKeepsFollowing DEF Points
  <2>4. PermitsConserved'
    <3>1. Generating' = Generating
      BY <1>3, GeneratingMoves DEF Generating, Points
    <3> QED BY <1>3, <3>1 DEF PermitsConserved
  <2> QED BY <2>1, <2>2, <2>3, <2>4
<1>4. CASE CheckHistory(s)
  <2>1. CASE Goto(s, "lookup") /\ UNCHANGED counters
    <3>1. Types' BY <1>2, <1>4, <2>1 DEF Types, Goto, Points, CheckHistory, counters
    <3>2. Following' BY <1>1, <1>4, <2>1, MoveKeepsFollowing DEF CheckHistory, Points
    <3>3. Counting' BY <1>4, <2>1, MoveKeepsCounting DEF CheckHistory, Points
    <3>4. Generating' = Generating
      BY <1>4, <2>1, GeneratingMoves DEF CheckHistory, Points, Generating
    <3> QED BY <1>4, <3>1, <3>2, <3>3, <3>4 DEF CheckHistory, PermitsConserved
  <2>2. CASE EndCycle(s)
    BY <1>3, <1>4, <2>2 DEF CheckHistory, EndCycle
  <2> QED BY <1>4, <2>1, <2>2 DEF CheckHistory
<1>5. CASE LookupProfile(s)
  <2> DEFINE p == IF HasProfile(s) THEN "validate" ELSE "acquire"
  <2>1. /\ Goto(s, p) /\ p \in Points \ {"none", "dead", "generate"} /\ pc[s] = "lookup"
        /\ UNCHANGED <<start, profile, made, raced, permits, repo, counters>>
    BY <1>5 DEF LookupProfile, Points, worker
  <2> HIDE DEF p
  <2>2. Types' BY <1>2, <2>1 DEF Types, Goto, counters
  <2>3. Following' BY <1>1, <2>1, MoveKeepsFollowing
  <2>4. Counting' BY <2>1, MoveKeepsCounting
  <2>5. Generating' = Generating BY <2>1, GeneratingMoves DEF Generating
  <2> QED BY <2>1, <2>2, <2>3, <2>4, <2>5 DEF PermitsConserved
<1>6. CASE LookupFails(s)
  BY <1>3, <1>6 DEF LookupFails, FailCycle
<1>7. CASE AcquireSemaphore(s)
  <2>1. /\ Goto(s, "generate") /\ pc[s] = "acquire" /\ permits > 0 /\ permits' = permits - 1
        /\ made' = [made EXCEPT ![s] = start[s]]
        /\ UNCHANGED <<start, profile, raced, repo, counters>>
    BY <1>7 DEF AcquireSemaphore
  <2>2. Types' BY <1>2, <2>1 DEF Types, Goto, Points, counters
  <2>3. Following' BY <1>1, <2>1, MoveKeepsFollowing DEF Points
  <2>4. Counting' BY <2>1, MoveKeepsCounting DEF Points
  <2>5. Cardinality(Generating) \in Nat /\ Cardinality(Generating') = Cardinality(Generating) + 1
    BY <2>1, GeneratingMoves DEF Generating, Points
  <2>6. PermitsConserved' BY <2>1, <2>5 DEF PermitsConserved, Types
  <2> QED BY <2>2, <2>3, <2>4, <2>6
<1>8. ASSUME pc[s] = "generate", NEW p \in {"wait", "dead", "validate"}, Goto(s, p), Leave(s),
             tracker' \in [Segments -> 0 .. MaxCycleErrors],
             errors' \in [Segments -> 0 .. MaxErrors], failed' \in [Segments -> 0 .. Total],
             Counting', UNCHANGED <<start, raced>>,
             profile' \in [Segments -> Listings], repo' \in [Segments -> Listings]
      PROVE  IInv'
  <2>1. /\ made' = [made EXCEPT ![s] = None] /\ permits' = permits + 1
    BY <1>8 DEF Leave, Release
  <2>2. Types' BY <1>2, <1>8, <2>1 DEF Types, Goto, Points, Listings
  <2>3. Following' BY <1>1, <1>8, MoveKeepsFollowing DEF Points
  <2>4. Cardinality(Generating) \in Nat /\ Cardinality(Generating') = Cardinality(Generating) - 1
    BY <1>8, GeneratingMoves DEF Generating, Points
  <2>5. PermitsConserved' BY <2>1, <2>4 DEF PermitsConserved, Types
  <2> QED BY <1>8, <2>2, <2>3, <2>5
<1>9. CASE SaveProfile(s)
  <2>1. /\ pc[s] = "generate" /\ Goto(s, "validate") /\ Leave(s)
        /\ UNCHANGED <<start, raced, counters>>
    BY <1>9 DEF SaveProfile
  <2>2. Counting' BY <2>1, MoveKeepsCounting DEF Points
  <2>3. profile' \in [Segments -> Listings] /\ repo' \in [Segments -> Listings]
    BY <1>9 DEF SaveProfile, Types, Listings
  <2>4. /\ tracker' \in [Segments -> 0 .. MaxCycleErrors]
        /\ errors' \in [Segments -> 0 .. MaxErrors] /\ failed' \in [Segments -> 0 .. Total]
    BY <2>1 DEF Types, counters
  <2> QED BY <1>8, <2>1, <2>2, <2>3, <2>4
<1>10. CASE GenerationFails(s)
  <2>1. /\ pc[s] = "generate" /\ Leave(s) /\ UNCHANGED <<start, raced, profile, repo>>
        /\ EndCycle(s) \/ FailCycle(s)
    BY <1>10 DEF GenerationFails
  <2>2. /\ tracker' \in [Segments -> 0 .. MaxCycleErrors]
        /\ errors' \in [Segments -> 0 .. MaxErrors] /\ failed' \in [Segments -> 0 .. Total]
        /\ Counting'
        /\ \E p \in {"wait", "dead"} : Goto(s, p)
    BY <2>1, CycleOutcome
  <2>3. profile' \in [Segments -> Listings] /\ repo' \in [Segments -> Listings]
    BY <2>1 DEF Types
  <2> QED BY <1>8, <2>1, <2>2, <2>3
<1>11. CASE Validate(s)
  BY <1>3, <1>11 DEF Validate, EndCycle, FailCycle
<1> QED BY <1>4, <1>5, <1>6, <1>7, <1>9, <1>10, <1>11 DEF Worker

\* Steps that leave the workers' places and counts alone keep permits and counts.
LEMMA PlacesKept ==
  ASSUME PermitsConserved, Counting, UNCHANGED <<pc, counters, permits>>
  PROVE  PermitsConserved' /\ Counting'
BY DEF PermitsConserved, Counting, Counts, Generating, counters

\* The removal of tasks: S loses its places, permits and counts, all others keep
\* theirs.
LEMMA DiscardStep ==
  ASSUME Types, PermitsConserved, Counting, NEW S \in SUBSET Segments, Discard(S),
         permits' = permits + Cardinality(S \cap Generating)
  PROVE  /\ pc' \in [Segments -> Points] /\ start' \in [Segments -> Listings]
         /\ profile' \in [Segments -> Listings] /\ made' \in [Segments -> Listings]
         /\ tracker' \in [Segments -> 0 .. MaxCycleErrors]
         /\ errors' \in [Segments -> 0 .. MaxErrors] /\ failed' \in [Segments -> 0 .. Total]
         /\ raced' \in [Segments -> BOOLEAN] /\ permits' \in Nat
         /\ PermitsConserved' /\ Counting'
<1>1. /\ pc' \in [Segments -> Points] /\ start' \in [Segments -> Listings]
      /\ profile' \in [Segments -> Listings] /\ made' \in [Segments -> Listings]
      /\ raced' \in [Segments -> BOOLEAN]
  BY DEF Discard, Types, Listings, Points
<1>2. /\ tracker' \in [Segments -> 0 .. MaxCycleErrors]
      /\ errors' \in [Segments -> 0 .. MaxErrors] /\ failed' \in [Segments -> 0 .. Total]
  <2> MaxCycleErrors \in Nat /\ MaxErrors \in Nat /\ Total \in Nat
    BY DEF Total
  <2> QED BY DEF Discard, Types
<1>3. /\ IsFiniteSet(Generating) /\ IsFiniteSet(S \cap Generating)
  BY FS_Subset DEF Generating
<1>4. Generating' = Generating \ S
  BY DEF Generating, Discard, Types
<1>5. Cardinality(Generating') = Cardinality(Generating) - Cardinality(Generating \cap S)
  BY <1>3, <1>4, FS_Difference
<1>6. /\ Cardinality(Generating) \in Nat /\ Cardinality(S \cap Generating) \in Nat
      /\ Generating \cap S = S \cap Generating
  BY <1>3, FS_CardinalityType
<1>7. permits' \in Nat /\ PermitsConserved'
  <2>1. Cardinality(Generating') = Cardinality(Generating) - Cardinality(S \cap Generating)
    BY <1>5, <1>6
  <2> HIDE DEF Generating
  <2> QED BY <1>6, <2>1 DEF PermitsConserved, Types
<1>8. Counting'
  <2> SUFFICES ASSUME NEW s \in Segments PROVE Counts(s)'
    BY DEF Counting
  <2>1. CASE s \in S
    BY <2>1 DEF Counts, Discard
  <2>2. CASE s \notin S
    <3>1. /\ failed'[s] = failed[s] /\ tracker'[s] = tracker[s] /\ errors'[s] = errors[s]
          /\ pc'[s] = pc[s]
      BY <2>2 DEF Discard
    <3> QED BY <3>1 DEF Counting, Counts
  <2> QED BY <2>1, <2>2
<1> QED BY <1>1, <1>2, <1>7, <1>8

LEMMA ManagerStep ==
  ASSUME IInv, Manager
  PROVE  IInv'
<1> USE DEF IInv
<1>1. ASSUME NEW listing \in [Segments -> Listings], StartCycle(listing)
      PROVE  IInv'
  <2> DEFINE ended == {s \in Active : listing[s] = None}
  <2>1. /\ snapshot' = listing /\ todo' = {s \in Segments : listing[s] # None}
        /\ Discard(ended) /\ permits' = permits + Cardinality(ended \cap Generating)
        /\ ManagerIdle /\ deleting' = deleting /\ repo' = repo
    BY <1>1 DEF StartCycle
  <2>2. ended \in SUBSET Segments BY DEF Active
  <2>3. orphans' \subseteq Segments \X Listings
    <3>1. PICK saving \in SUBSET (ended \cap Generating) :
            orphans' = orphans \cup {<<s, made[s]>> : s \in saving}
      BY <1>1 DEF StartCycle
    <3> QED BY <2>2, <3>1 DEF Types
  <2> HIDE DEF ended
  <2>4. Types' BY <1>1, <2>1, <2>2, <2>3, DiscardStep DEF Types
  <2>5. PermitsConserved' /\ Counting' BY <2>1, <2>2, DiscardStep
  <2>6. Following'
    <3> SUFFICES ASSUME NEW s \in Segments, s \notin todo' PROVE Follows(s)'
      BY <2>1 DEF Following
    <3>1. snapshot'[s] = None BY <2>1
    <3>2. pc'[s] = "none" BY <2>1, <3>1 DEF Discard, Active, ended
    <3> QED BY <3>1, <3>2 DEF Follows, Active
  <2> QED BY <2>4, <2>5, <2>6
<1>2. ASSUME NEW s \in Segments, StartSegment(s)
      PROVE  IInv'
  <2>1. /\ s \in todo /\ pc[s] = "none" /\ Goto(s, "wait") /\ todo' = todo \ {s}
        /\ start' = [start EXCEPT ![s] = snapshot[s]]
        /\ UNCHANGED <<snapshot, deleting, profile, made, counters, permits, repo, orphans>>
    BY <1>2 DEF StartSegment, Active
  <2>2. raced' \in [Segments -> BOOLEAN]
    BY <1>2 DEF StartSegment, Types
  <2>3. Types' BY <2>1, <2>2 DEF Types, Goto, Points, counters
  <2>4. Counting' BY <2>1, MoveKeepsCounting DEF Points
  <2>5. Generating' = Generating BY <2>1, GeneratingMoves DEF Generating, Points
  <2>6. PermitsConserved' BY <2>1, <2>5 DEF PermitsConserved
  <2>7. Following'
    <3>1. Follows(s)' BY <2>1 DEF Follows, Following, Active, Goto, Types
    <3>2. ASSUME NEW t \in Segments, t # s
          PROVE  /\ start'[t] = start[t] /\ (t \in todo' <=> t \in todo)
                 /\ (t \in Active' <=> t \in Active)
      BY <2>1, <3>2 DEF Active, Goto, Types
    <3> QED BY <2>1, <3>1, <3>2 DEF Following, Follows
  <2> QED BY <2>3, <2>4, <2>6, <2>7
<1>3. ASSUME NEW s \in Segments, UpdateSegment(s)
      PROVE  IInv'
  <2>1. /\ s \in todo /\ s \in Active /\ todo' = todo \ {s}
        /\ start' = [start EXCEPT ![s] = snapshot[s]]
        /\ UNCHANGED <<snapshot, pc, made, counters, permits, repo, orphans>>
    BY <1>3 DEF UpdateSegment
  <2>2. /\ profile' \in [Segments -> Listings] /\ deleting' \subseteq Segments
        /\ raced' \in [Segments -> BOOLEAN]
    <3>1. CASE start[s] = snapshot[s]
      <4>1. UNCHANGED <<profile, deleting, raced>>
        BY <1>3, <3>1 DEF UpdateSegment
      <4> QED BY <4>1 DEF Types
    <3>2. CASE start[s] # snapshot[s]
      <4> DEFINE r == raced[s] \/ s \in Generating
      <4>1. /\ profile' = [profile EXCEPT ![s] = None] /\ deleting' = {s}
            /\ raced' = [raced EXCEPT ![s] = r]
        BY <1>3, <3>2 DEF UpdateSegment
      <4>2. r \in BOOLEAN
        OBVIOUS
      <4> HIDE DEF r
      <4> QED BY <4>1, <4>2 DEF Types, Listings
    <3> QED BY <3>1, <3>2
  <2>3. Types' BY <2>1, <2>2 DEF Types, counters
  <2>4. Following'
    <3>1. Follows(s)' BY <2>1 DEF Follows, Following, Active, Types
    <3>2. ASSUME NEW t \in Segments, t # s
          PROVE  start'[t] = start[t] /\ (t \in todo' <=> t \in todo)
      BY <2>1, <3>2 DEF Types
    <3>3. Active' = Active BY <2>1 DEF Active
    <3> QED BY <2>1, <3>1, <3>2, <3>3 DEF Following, Follows
  <2> QED BY <2>1, <2>3, <2>4, PlacesKept
<1>4. ASSUME NEW s \in Segments, DeleteProfile(s) \/ DeleteProfileFails(s)
      PROVE  IInv'
  <2>1. /\ deleting' = {} /\ repo' \in [Segments -> Listings] /\ raced' \in [Segments -> BOOLEAN]
        /\ UNCHANGED <<snapshot, todo, pc, start, profile, made, counters, permits, orphans>>
    BY <1>4 DEF DeleteProfile, DeleteProfileFails, worker, Types, Listings
  <2>2. Types' BY <2>1 DEF Types, counters
  <2>3. Following' BY <2>1 DEF Following, Follows, Active
  <2> QED BY <2>1, <2>2, <2>3, PlacesKept
<1>5. ASSUME NEW S \in SUBSET Segments, ExpireProfiles(S)
      PROVE  IInv'
  <2>1. /\ repo' \in [Segments -> Listings]
        /\ UNCHANGED <<snapshot, todo, deleting, pc, start, profile, made, counters, raced,
                       permits, orphans>>
    BY <1>5 DEF ExpireProfiles, worker, manager, Types, Listings
  <2>2. Types' BY <2>1 DEF Types, counters
  <2>3. Following' BY <2>1 DEF Following, Follows, Active
  <2> QED BY <2>1, <2>2, <2>3, PlacesKept
<1> QED BY <1>1, <1>2, <1>3, <1>4, <1>5 DEF Manager

LEMMA OtherStep ==
  ASSUME IInv,
         Restart \/ UNCHANGED vars \/ \E s \in Segments, p \in Dates : OrphanSaves(s, p)
  PROVE  IInv'
<1> USE DEF IInv
<1>1. CASE Restart
  <2>1. /\ Discard(Segments) /\ snapshot' = [s \in Segments |-> None] /\ todo' = {}
        /\ deleting' = {} /\ permits' = Permits /\ orphans' = {} /\ repo' = repo
    BY <1>1 DEF Restart
  <2>2. permits' = permits + Cardinality(Segments \cap Generating)
    <3>1. Segments \cap Generating = Generating BY DEF Generating
    <3> QED BY <2>1, <3>1 DEF PermitsConserved
  <2>3. Types' /\ PermitsConserved' /\ Counting'
    BY <2>1, <2>2, DiscardStep DEF Types, Listings
  <2>4. Following' BY <2>1 DEF Following, Follows, Active, Discard
  <2> QED BY <2>3, <2>4
<1>2. CASE UNCHANGED vars
  <2>1. UNCHANGED <<snapshot, todo, deleting, pc, start, profile, made, counters, raced,
                    permits, repo, orphans>>
    BY <1>2 DEF vars, manager, worker
  <2>2. Types' BY <2>1 DEF Types, counters
  <2>3. Following' BY <2>1 DEF Following, Follows, Active
  <2> QED BY <2>1, <2>2, <2>3, PlacesKept
<1>3. ASSUME NEW s \in Segments, NEW p \in Dates, OrphanSaves(s, p)
      PROVE  IInv'
  <2>1. /\ repo' \in [Segments -> Listings] /\ raced' \in [Segments -> BOOLEAN]
        /\ orphans' \subseteq orphans
        /\ UNCHANGED <<snapshot, todo, deleting, pc, start, profile, made, counters, permits>>
    BY <1>3 DEF OrphanSaves, manager, Types, Listings
  <2>2. Types' BY <2>1 DEF Types, counters
  <2>3. Following' BY <2>1 DEF Following, Follows, Active
  <2> QED BY <2>1, <2>2, <2>3, PlacesKept
<1> QED BY <1>1, <1>2, <1>3

----------------------------------------------------------------------------

\* IInv holds from the start: nothing is active, generating or counted.
LEMMA InvariantInit == Init => IInv
<1> SUFFICES ASSUME Init PROVE IInv
  OBVIOUS
<1>1. Generating = {} BY DEF Init, Generating
<1>2. PermitsConserved BY <1>1, FS_EmptySet DEF Init, PermitsConserved
<1>3. Types
  <2> MaxCycleErrors \in Nat /\ MaxErrors \in Nat /\ Total \in Nat
    BY DEF Total
  <2> QED BY DEF Init, Types, Listings, Points
<1>4. Following BY DEF Init, Following, Follows, Active
<1>5. Counting BY DEF Init, Counting, Counts
<1> QED BY <1>2, <1>3, <1>4, <1>5 DEF IInv

\* The invariant of the manager and its workers, on every step of either.
THEOREM LifecycleInvariance == Spec => []IInv
<1>1. IInv /\ [Next]_vars => IInv'
  <2> SUFFICES ASSUME IInv, [Next]_vars PROVE IInv'
    OBVIOUS
  <2>1. ASSUME NEW s \in Segments, Worker(s) PROVE IInv'
    BY <2>1, WorkerStep
  <2>2. CASE Manager BY <2>2, ManagerStep
  <2>3. CASE Restart \/ UNCHANGED vars \/ \E s \in Segments, p \in Dates : OrphanSaves(s, p)
    BY <2>3, OtherStep
  <2> QED BY <2>1, <2>2, <2>3 DEF Next
<1> QED BY <1>1, InvariantInit, PTL DEF Spec

\* Whatever way workers end, the semaphore's permits and the workers in the
\* profiling section add up to the limit; with it, every variable has its type.
THEOREM PermitsAlwaysConserved == Spec => [](TypeOK /\ PermitsConserved)
<1>1. IInv => TypeOK /\ PermitsConserved
  <2> SUFFICES ASSUME IInv PROVE TypeOK /\ PermitsConserved
    OBVIOUS
  <2>1. IsFiniteSet(Generating) BY FS_Subset DEF Generating
  <2>2. Cardinality(Generating) \in Nat BY <2>1, FS_CardinalityType
  <2>3. permits \in 0 .. Permits BY <2>2 DEF IInv, Types, PermitsConserved
  <2> QED BY <2>3 DEF IInv, Types, TypeOK
<1> QED BY <1>1, LifecycleInvariance, PTL

\* The management cycle brings the active segments in line with its listing,
\* however its awaits interleave with the workers.
THEOREM ListingFollowed == Spec => []WorkersFollowListing
<1>1. IInv => WorkersFollowListing
  BY DEF IInv, Following, Follows, WorkersFollowListing, ManagerIdle
<1> QED BY <1>1, LifecycleInvariance, PTL

\* A worker given up has had MaxCycleErrors + MaxErrors - 1 failed cycles.
THEOREM WorkersGivenUpLate == Spec => []GivenUpLate
<1>1. IInv => GivenUpLate
  BY DEF IInv, Types, Counting, Counts, GivenUpLate, Total
<1> QED BY <1>1, LifecycleInvariance, PTL

----------------------------------------------------------------------------
(* Profiles.  Unless a segment is marked as raced, everything its worker    *)
(* holds or will store is of its current date; only the repository may be   *)
(* behind, while the manager still awaits the deletion.                     *)

Current(s) ==
  /\ profile[s] \in {None, start[s]}
  /\ pc[s] = "generate" => made[s] = start[s]
  /\ s \notin deleting => repo[s] \in {None, start[s]}
Fresh ==
  \A s \in Segments :
    /\ s \notin Active => profile[s] = None
    /\ s \in Active /\ ~raced[s] => Current(s)
OneDeletion == \A s, t \in deleting : s = t

\* The manager awaits one deletion at a time.
LEMMA OneDeletionStep == OneDeletion /\ [Next]_vars => OneDeletion'
BY DEF OneDeletion, Next, Worker, Manager, StartCycle, StartSegment, UpdateSegment, DeleteProfile,
       DeleteProfileFails, ExpireProfiles, OrphanSaves, Restart, vars, manager

\* A segment of whose state nothing changes stays as fresh as it was.
LEMMA OthersStayFresh ==
  ASSUME Fresh, NEW t \in Segments, UNCHANGED <<pc[t], profile[t], start[t], made[t], repo[t]>>,
         raced[t] => raced'[t], t \notin deleting' => t \notin deleting
  PROVE  /\ t \notin Active' => profile'[t] = None
         /\ t \in Active' /\ ~raced'[t] => Current(t)'
BY DEF Fresh, Current, Active

\* Workers store what they began with, and any date they began with before an
\* update made them raced.
LEMMA WorkersStayFresh ==
  ASSUME Types, Fresh, NEW s \in Segments, Worker(s)
  PROVE  Fresh'
<1>1. /\ UNCHANGED <<start, raced, deleting>> /\ pc[s] # "none" /\ pc'[s] # "none"
      /\ \A t \in Segments \ {s} : UNCHANGED <<pc[t], profile[t], made[t], repo[t]>>
  <2>1. UNCHANGED deleting BY DEF Worker, manager
  <2>2. UNCHANGED start
    BY DEF Worker, CheckHistory, LookupProfile, LookupFails, AcquireSemaphore, SaveProfile,
           GenerationFails, Validate, worker
  <2>3. UNCHANGED raced
    BY DEF Worker, CheckHistory, LookupProfile, LookupFails, AcquireSemaphore, SaveProfile,
           GenerationFails, Validate, worker
  <2>4. pc[s] # "none"
    BY DEF Worker, CheckHistory, LookupProfile, LookupFails, AcquireSemaphore, SaveProfile,
           GenerationFails, Validate
  <2>5. pc'[s] # "none" /\ \A t \in Segments \ {s} : pc'[t] = pc[t]
    BY DEF Worker, CheckHistory, LookupProfile, LookupFails, AcquireSemaphore, SaveProfile,
           GenerationFails, Validate, Goto, EndCycle, FailCycle, Types
  <2>6. \A t \in Segments \ {s} : UNCHANGED <<profile[t], made[t], repo[t]>>
    BY DEF Worker, CheckHistory, LookupProfile, LookupFails, AcquireSemaphore, SaveProfile,
           GenerationFails, Validate, Leave, worker, Types
  <2> QED BY <2>1, <2>2, <2>3, <2>4, <2>5, <2>6
<1>2. ASSUME ~raced[s] PROVE Current(s)'
  <2>1. Current(s) BY <1>1, <1>2 DEF Fresh, Active
  <2>2. CASE AcquireSemaphore(s)
    BY <1>1, <2>1, <2>2 DEF Current, AcquireSemaphore, Types
  <2>3. CASE SaveProfile(s)
    BY <1>1, <2>1, <2>3 DEF Current, SaveProfile, Goto, Types
  <2>4. CASE GenerationFails(s)
    <3>1. pc'[s] # "generate" /\ UNCHANGED <<profile, repo>>
      BY <2>4 DEF GenerationFails, EndCycle, FailCycle, Goto, Types
    <3> QED BY <1>1, <2>1, <3>1 DEF Current
  <2>5. CASE CheckHistory(s) \/ LookupProfile(s) \/ LookupFails(s) \/ Validate(s)
    <3>1. pc'[s] # "generate" /\ UNCHANGED <<profile, repo>>
      BY <2>5 DEF CheckHistory, LookupProfile, LookupFails, Validate, EndCycle, FailCycle,
                  Goto, Types, worker
    <3> QED BY <1>1, <2>1, <3>1 DEF Current
  <2> QED BY <2>2, <2>3, <2>4, <2>5 DEF Worker
<1>3. ASSUME NEW t \in Segments, t # s
      PROVE  /\ t \notin Active' => profile'[t] = None
             /\ t \in Active' /\ ~raced'[t] => Current(t)'
  BY <1>1, <1>3, OthersStayFresh
<1> QED BY <1>1, <1>2, <1>3 DEF Fresh, Active

LEMMA ManagerKeepsFresh ==
  ASSUME Types, Fresh, OneDeletion, Manager
  PROVE  Fresh'
<1>1. ASSUME NEW listing \in [Segments -> Listings], StartCycle(listing)
      PROVE  Fresh'
  <2> DEFINE ended == {s \in Active : listing[s] = None}
  <2>1. Discard(ended) /\ UNCHANGED <<deleting, repo>>
    BY <1>1 DEF StartCycle
  <2> HIDE DEF ended
  <2> SUFFICES ASSUME NEW t \in Segments
               PROVE  /\ t \notin Active' => profile'[t] = None
                      /\ t \in Active' /\ ~raced'[t] => Current(t)'
    BY DEF Fresh
  <2>2. CASE t \in ended BY <2>1, <2>2 DEF Discard, Active
  <2>3. CASE t \notin ended
    <3>1. UNCHANGED <<pc[t], profile[t], start[t], made[t], repo[t], raced[t]>>
      BY <2>1, <2>3 DEF Discard
    <3> QED BY <2>1, <3>1, OthersStayFresh
  <2> QED BY <2>2, <2>3
<1>2. ASSUME NEW s \in Segments, StartSegment(s)
      PROVE  Fresh'
  <2>1. /\ UNCHANGED <<profile, made, repo, deleting>> /\ pc[s] = "none" /\ pc'[s] = "wait"
        /\ start'[s] = snapshot[s] /\ raced'[s] = (repo[s] \notin {None, snapshot[s]})
        /\ \A t \in Segments \ {s} : UNCHANGED <<pc[t], start[t], raced[t]>>
    BY <1>2 DEF StartSegment, Goto, Active, Types
  <2>2. ~raced'[s] => Current(s)'
    BY <2>1 DEF Fresh, Current, Active
  <2>3. ASSUME NEW t \in Segments, t # s
        PROVE  /\ t \notin Active' => profile'[t] = None
               /\ t \in Active' /\ ~raced'[t] => Current(t)'
    BY <2>1, <2>3, OthersStayFresh
  <2> QED BY <2>1, <2>2, <2>3 DEF Fresh, Active
<1>3. ASSUME NEW s \in Segments, UpdateSegment(s)
      PROVE  Fresh'
  <2>1. UNCHANGED <<pc, made, repo>> /\ deleting = {} /\ s \in Active
    BY <1>3 DEF UpdateSegment
  <2>2. CASE start[s] = snapshot[s]
    <3>1. UNCHANGED <<start, profile, deleting, raced>>
      BY <1>3, <2>2 DEF UpdateSegment, Types
    <3> QED BY <2>1, <3>1 DEF Fresh, Current, Active
  <2>3. CASE start[s] # snapshot[s]
    <3>1. /\ profile'[s] = None /\ deleting' = {s} /\ start'[s] = snapshot[s]
          /\ raced'[s] = (raced[s] \/ s \in Generating)
          /\ \A t \in Segments \ {s} : UNCHANGED <<profile[t], start[t], raced[t]>>
      BY <1>3, <2>3 DEF UpdateSegment, Types
    <3>2. ~raced'[s] => Current(s)'
      BY <2>1, <3>1 DEF Current, Generating
    <3>3. ASSUME NEW t \in Segments, t # s
          PROVE  /\ t \notin Active' => profile'[t] = None
                 /\ t \in Active' /\ ~raced'[t] => Current(t)'
      BY <2>1, <3>1, <3>3, OthersStayFresh
    <3> QED BY <2>1, <3>1, <3>2, <3>3 DEF Fresh, Active
  <2> QED BY <2>2, <2>3
<1>4. ASSUME NEW s \in Segments, DeleteProfile(s)
      PROVE  Fresh'
  <2>1. /\ UNCHANGED <<pc, start, profile, made, raced>> /\ repo'[s] = None
        /\ \A t \in Segments \ {s} : UNCHANGED repo[t]
    BY <1>4 DEF DeleteProfile, worker, Types
  <2>2. s \in deleting /\ deleting = {s}
    BY <1>4 DEF DeleteProfile, OneDeletion
  <2>3. Current(s) => Current(s)'
    BY <2>1 DEF Current
  <2>4. ASSUME NEW t \in Segments, t # s
        PROVE  /\ t \notin Active' => profile'[t] = None
               /\ t \in Active' /\ ~raced'[t] => Current(t)'
    BY <2>1, <2>2, <2>4, OthersStayFresh
  <2> QED BY <2>1, <2>3, <2>4 DEF Fresh, Active
<1>5. ASSUME NEW s \in Segments, DeleteProfileFails(s)
      PROVE  Fresh'
  <2>1. /\ UNCHANGED <<pc, start, profile, made, repo>> /\ raced'[s] = TRUE
        /\ deleting = {s} /\ \A t \in Segments \ {s} : UNCHANGED raced[t]
    BY <1>5 DEF DeleteProfileFails, OneDeletion, Types
  <2>2. ASSUME NEW t \in Segments, t # s
        PROVE  /\ t \notin Active' => profile'[t] = None
               /\ t \in Active' /\ ~raced'[t] => Current(t)'
    BY <2>1, <2>2, OthersStayFresh
  <2> QED BY <2>1, <2>2 DEF Fresh, Active
<1>6. ASSUME NEW S \in SUBSET Segments, ExpireProfiles(S)
      PROVE  Fresh'
  <2>1. /\ UNCHANGED <<pc, start, profile, made, raced, deleting>>
        /\ \A t \in Segments : repo'[t] \in {None, repo[t]}
    BY <1>6 DEF ExpireProfiles, worker, manager
  <2> QED BY <2>1 DEF Fresh, Current, Active
<1> QED BY <1>1, <1>2, <1>3, <1>4, <1>5, <1>6 DEF Manager

LEMMA OthersKeepFresh ==
  ASSUME Types, Fresh,
         Restart \/ UNCHANGED vars \/ \E s \in Segments, p \in Dates : OrphanSaves(s, p)
  PROVE  Fresh'
<1>1. CASE Restart
  BY <1>1 DEF Restart, Discard, Fresh, Active
<1>2. CASE UNCHANGED vars
  BY <1>2 DEF vars, manager, worker, Fresh, Current, Active
<1>3. ASSUME NEW s \in Segments, NEW p \in Dates, OrphanSaves(s, p)
      PROVE  Fresh'
  <2>1. /\ UNCHANGED <<pc, start, profile, made, deleting>>
        /\ raced'[s] = (raced[s] \/ s \in Active)
        /\ \A t \in Segments \ {s} : UNCHANGED <<repo[t], raced[t]>>
    BY <1>3 DEF OrphanSaves, manager, Types
  <2>2. ASSUME NEW t \in Segments, t # s
        PROVE  /\ t \notin Active' => profile'[t] = None
               /\ t \in Active' /\ ~raced'[t] => Current(t)'
    BY <2>1, <2>2, OthersStayFresh
  <2> QED BY <2>1, <2>2 DEF Fresh, Active
<1> QED BY <1>1, <1>2, <1>3

\* Between validations the profile of a segment is of its current date, unless
\* an update met a running generation, a deletion failed, a profile was found
\* at the start or an orphaned thread stored one.
THEOREM StaleProfilesExplained == Spec => []StaleOnlyByRace
<1>1. Init => Fresh /\ OneDeletion
  BY DEF Init, Fresh, Active, OneDeletion
<1>2. IInv /\ Fresh /\ OneDeletion /\ [Next]_vars => Fresh' /\ OneDeletion'
  <2> SUFFICES ASSUME IInv, Fresh, OneDeletion, [Next]_vars PROVE Fresh'
    BY OneDeletionStep
  <2>1. Types BY DEF IInv
  <2>2. ASSUME NEW s \in Segments, Worker(s) PROVE Fresh'
    BY <2>1, <2>2, WorkersStayFresh
  <2>3. CASE Manager BY <2>1, <2>3, ManagerKeepsFresh
  <2>4. CASE Restart \/ UNCHANGED vars \/ \E s \in Segments, p \in Dates : OrphanSaves(s, p)
    BY <2>1, <2>4, OthersKeepFresh
  <2> QED BY <2>2, <2>3, <2>4 DEF Next
<1>3. Fresh => StaleOnlyByRace
  BY DEF Fresh, Current, StaleOnlyByRace, InUse, Active
<1> QED BY <1>1, <1>2, <1>3, LifecycleInvariance, PTL DEF Spec
============================================================================
