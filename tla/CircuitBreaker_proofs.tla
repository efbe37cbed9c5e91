----------------------- MODULE CircuitBreaker_proofs -----------------------
(***************************************************************************)
(* Theorems about CircuitBreaker for any number of callers and any limits: *)
(* the counters always fit the state, it opens only on consecutive         *)
(* failures, rests for the whole timeout and closes only on successes.     *)
(***************************************************************************)
EXTENDS CircuitBreaker, TLAPS

\* How the breaker's counters bound what has really happened: the failures of a
\* closed breaker and the successes of a half-open one were in a row, and an
\* open one has been open at least as long as its last failure is old.
CountersAreRuns ==
  /\ state = "closed" => failures <= badRun
  /\ state = "half_open" => successes <= goodRun
  /\ state = "open" => since <= openFor

IInv == TypeOK /\ CountersMatchState /\ CountersAreRuns

\* A saturating count stays within its bound and grows until it is reached.
LEMMA UpToBounds ==
  ASSUME NEW n \in Nat, NEW bound \in Nat, n <= bound
  PROVE  /\ UpTo(n, bound) \in 0 .. bound
         /\ n <= UpTo(n, bound)
         /\ UpTo(n, bound) = n + 1 \/ (UpTo(n, bound) = bound /\ n = bound)
  BY DEF UpTo

\* What a recorded success and a recorded failure do to the invariant.
LEMMA SuccessStep ==
  ASSUME IInv, NEW c \in Callers, Succeed(c)
  PROVE  IInv'
<1> USE LimitsAssumption
<1>1. /\ goodRun' \in 0 .. HalfOpenMaxCalls /\ goodRun <= goodRun'
      /\ goodRun' = goodRun + 1 \/ goodRun' = HalfOpenMaxCalls
  BY UpToBounds DEF Succeed, IInv, TypeOK
<1>2. TypeOK'
  BY <1>1 DEF Succeed, Leave, CountSuccess, EnoughSuccesses, Close, IInv, TypeOK
<1>3. CountersMatchState'
  BY DEF Succeed, CountSuccess, EnoughSuccesses, Close, IInv, TypeOK, CountersMatchState
<1>4. CountersAreRuns'
  BY <1>1 DEF Succeed, CountSuccess, EnoughSuccesses, Close, IInv, TypeOK,
              CountersMatchState, CountersAreRuns
<1>5. QED
  BY <1>2, <1>3, <1>4 DEF IInv

\* A failure counts on until it opens the breaker, and dates the opening.
LEMMA FailureStep ==
  ASSUME IInv, NEW c \in Callers, Fail(c)
  PROVE  IInv'
<1> USE LimitsAssumption
<1>1. /\ failures' \in 0 .. CountBound /\ failures <= failures'
      /\ failures' = failures + 1 \/ (failures' = CountBound /\ failures = CountBound)
  BY UpToBounds DEF Fail, CountFailure, IInv, TypeOK
<1>2. /\ badRun' \in 0 .. FailureThreshold
      /\ badRun' = badRun + 1 \/ badRun' = FailureThreshold
  BY UpToBounds DEF Fail, IInv, TypeOK
<1>3. TypeOK'
  BY <1>1, <1>2 DEF Fail, Leave, CountFailure, Trips, IInv, TypeOK
<1>4. CountersMatchState'
  <2>1. /\ since' = 0 /\ state' = (IF Trips THEN "open" ELSE state)
        /\ successes' = (IF state = "half_open" THEN 0 ELSE successes)
    BY DEF Fail, CountFailure
  <2>2. state \in {"closed", "open", "half_open"} /\ failures \in Nat /\ successes \in Nat
        /\ failures' \in Nat
    BY <1>1 DEF IInv, TypeOK
  <2>3. CASE state = "closed"
    BY <1>1, <2>1, <2>2, <2>3 DEF Trips, IInv, CountersMatchState, Never
  <2>4. CASE state = "open"
    BY <1>1, <2>1, <2>2, <2>4 DEF Trips, IInv, CountersMatchState, Never
  <2>5. CASE state = "half_open"
    BY <1>1, <2>1, <2>2, <2>5 DEF Trips, IInv, CountersMatchState, Never
  <2>6. QED
    BY <2>2, <2>3, <2>4, <2>5
<1>5. CountersAreRuns'
  BY <1>1, <1>2, <1>4 DEF Fail, CountFailure, Trips, IInv, TypeOK, CountersMatchState,
                          CountersAreRuns, Never
<1>6. QED
  BY <1>3, <1>4, <1>5 DEF IInv

\* The counters fit the state and what happened, through every step.
THEOREM BreakerInvariance == Spec => []IInv
<1> USE LimitsAssumption
<1>1. Init => IInv
  <2> SUFFICES ASSUME Init PROVE IInv
    OBVIOUS
  <2>1. TypeOK
    <3>1. call \in [Callers -> {"idle", "running", "cancelled"}]
      BY DEF Init
    <3>2. /\ 0 \in 0 .. CountBound /\ 0 \in 0 .. FailureThreshold
          /\ 0 \in 0 .. HalfOpenMaxCalls /\ 0 \in 0 .. RecoveryTimeout
      OBVIOUS
    <3>3. QED
      BY <3>1, <3>2 DEF Init, TypeOK
  <2>2. CountersMatchState /\ CountersAreRuns
    BY DEF Init, CountersMatchState, CountersAreRuns
  <2>3. QED
    BY <2>1, <2>2 DEF IInv
<1>2. IInv /\ [Next]_vars => IInv'
  <2> SUFFICES ASSUME IInv, [Next]_vars PROVE IInv'
    OBVIOUS
  <2>1. ASSUME NEW c \in Callers, Enter(c) PROVE IInv'
    BY <2>1 DEF Enter, Recovering, history, IInv, TypeOK, CountersMatchState,
                CountersAreRuns
  <2>2. ASSUME NEW c \in Callers, Succeed(c) PROVE IInv'
    BY <2>2, SuccessStep
  <2>3. ASSUME NEW c \in Callers, Fail(c) PROVE IInv'
    BY <2>3, FailureStep
  <2>4. ASSUME NEW c \in Callers, Cancel(c) PROVE IInv'
    BY <2>4 DEF Cancel, Leave, counters, history, IInv, TypeOK, CountersMatchState,
                CountersAreRuns
  <2>5. CASE Reset
    BY <2>5 DEF Reset, Close, history, IInv, TypeOK, CountersMatchState,
                CountersAreRuns, Never
  <2>6. CASE Tick
    <3>1. openFor' \in 0 .. RecoveryTimeout
          /\ (openFor' = openFor + 1 \/ openFor' = RecoveryTimeout)
      BY <2>6, UpToBounds DEF Tick, IInv, TypeOK
    <3>2. CASE since = Never
      BY <2>6, <3>1, <3>2 DEF Tick, IInv, TypeOK, CountersMatchState, CountersAreRuns, Never
    <3>3. CASE since # Never
      <4>1. since' \in 0 .. RecoveryTimeout
            /\ (since' = since + 1 \/ (since' = RecoveryTimeout /\ since = RecoveryTimeout))
        BY <2>6, <3>3, UpToBounds DEF Tick, IInv, TypeOK
      <4>2. since <= openFor => since' <= openFor'
        BY <3>1, <3>3, <4>1 DEF IInv, TypeOK
      <4>3. QED
        BY <2>6, <3>1, <3>3, <4>1, <4>2 DEF Tick, IInv, TypeOK, CountersMatchState,
                                            CountersAreRuns, Never
    <3>4. QED
      BY <3>2, <3>3
  <2>7. CASE Heal
    BY <2>7 DEF Heal, counters, history, IInv, TypeOK, CountersMatchState, CountersAreRuns
  <2>8. CASE UNCHANGED vars
    BY <2>8 DEF vars, counters, history, IInv, TypeOK, CountersMatchState, CountersAreRuns
  <2>9. QED
    BY <2>1, <2>2, <2>3, <2>4, <2>5, <2>6, <2>7, <2>8 DEF Next, Calls
<1>3. QED
  BY <1>1, <1>2, PTL DEF Spec

\* The breaker's counters, times and callers keep their types.
THEOREM BreakerTypes == Spec => []TypeOK
<1>1. IInv => TypeOK
  BY DEF IInv
<1>2. QED
  BY <1>1, BreakerInvariance, PTL

\* A closed breaker is below its threshold, and one that is not closed knows
\* when to recover: it is never open for good.
THEOREM BreakerConsistent == Spec => [](TypeOK /\ CountersMatchState)
<1>1. IInv => TypeOK /\ CountersMatchState
  BY DEF IInv
<1>2. QED
  BY <1>1, BreakerInvariance, PTL

\* Only consecutive failures open it.
THEOREM OpensConsecutively == Spec => OpensOnConsecutiveFailures
<1> USE LimitsAssumption
<1>1. IInv /\ [Next]_vars
        => [state = "closed" /\ state' = "open" => badRun' >= FailureThreshold]_vars
  <2> SUFFICES ASSUME IInv, Next, state = "closed", state' = "open"
               PROVE  badRun' >= FailureThreshold
    OBVIOUS
  <2>1. PICK c \in Callers : Fail(c)
    BY DEF Next, Calls, Enter, Recovering, Succeed, CountSuccess, EnoughSuccesses, Close,
           Cancel, Reset, Tick, Heal
  <2>2. badRun' = badRun + 1 \/ badRun' = FailureThreshold
    BY <2>1, UpToBounds DEF Fail, IInv, TypeOK
  <2>3. failures + 1 >= FailureThreshold /\ failures <= badRun
    BY <2>1 DEF Fail, CountFailure, Trips, IInv, CountersAreRuns
  <2>4. QED
    BY <2>2, <2>3 DEF IInv, TypeOK
<1>2. QED
  BY <1>1, BreakerInvariance, PTL DEF Spec, OpensOnConsecutiveFailures

\* The recovery timeout passes in full between opening and the next call.
THEOREM RestsFully == Spec => RestsWhileOpen
<1> USE LimitsAssumption
<1>1. IInv /\ [Next]_vars
        => [\A c \in Callers :
              call[c] = "idle" /\ call'[c] = "running" /\ state = "open"
                => openFor >= RecoveryTimeout]_vars
  <2> SUFFICES ASSUME IInv, Next, NEW c \in Callers,
                      call[c] = "idle", call'[c] = "running", state = "open"
               PROVE  openFor >= RecoveryTimeout
    OBVIOUS
  <2>1. PICK d \in Callers : Enter(d)
    BY DEF Next, Calls, Succeed, Fail, Leave, Cancel, Reset, Tick, Heal, IInv, TypeOK
  <2>2. since >= RecoveryTimeout /\ since <= openFor /\ since # Never
    BY <2>1 DEF Enter, Recovering, IInv, CountersAreRuns
  <2>3. QED
    BY <2>2 DEF IInv, TypeOK, Never
<1>2. QED
  BY <1>1, BreakerInvariance, PTL DEF Spec, RestsWhileOpen

\* Only successes in a row, or reset(), close it.
THEOREM ClosesConsecutively == Spec => ClosesOnConsecutiveSuccesses
<1> USE LimitsAssumption
<1>1. IInv /\ [Next]_vars
        => [state = "half_open" /\ state' = "closed"
              => goodRun' >= HalfOpenMaxCalls \/ call' = call]_vars
  <2> SUFFICES ASSUME IInv, Next, state = "half_open", state' = "closed", call' # call
               PROVE  goodRun' >= HalfOpenMaxCalls
    OBVIOUS
  <2>1. PICK c \in Callers : Succeed(c)
    BY DEF Next, Calls, Enter, Recovering, Fail, CountFailure, Trips, Cancel, Reset, Tick, Heal
  <2>2. goodRun' = goodRun + 1 \/ goodRun' = HalfOpenMaxCalls
    BY <2>1, UpToBounds DEF Succeed, IInv, TypeOK
  <2>3. successes + 1 >= HalfOpenMaxCalls /\ successes <= goodRun
    BY <2>1 DEF Succeed, CountSuccess, EnoughSuccesses, IInv, CountersAreRuns
  <2>4. QED
    BY <2>2, <2>3 DEF IInv, TypeOK
<1>2. QED
  BY <1>1, BreakerInvariance, PTL DEF Spec, ClosesOnConsecutiveSuccesses
============================================================================
