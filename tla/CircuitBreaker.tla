-------------------------- MODULE CircuitBreaker --------------------------
(***************************************************************************)
(* The circuit breaker (idea_shared/resilience/circuit_breaker.py) with    *)
(* several tasks calling through it.  Entering and leaving are critical    *)
(* sections of its lock; between them the operation runs, so outcomes      *)
(* arrive in any order and in states other than the one of the admission.  *)
(* A rejected call changes nothing and is no action.                       *)
(***************************************************************************)
EXTENDS Integers, FiniteSets

CONSTANTS
  Callers,            \* tasks using the breaker
  FailureThreshold,   \* failure_threshold
  RecoveryTimeout,    \* recovery_timeout, in ticks of the clock
  HalfOpenMaxCalls,   \* half_open_max_calls
  CountBound          \* bound: _failure_count is not counted further

ASSUME CallersAssumption == IsFiniteSet(Callers)
ASSUME LimitsAssumption ==
  /\ FailureThreshold \in Nat \ {0} /\ HalfOpenMaxCalls \in Nat \ {0}
  /\ RecoveryTimeout \in Nat
  /\ CountBound \in Nat /\ CountBound >= FailureThreshold

Never == -1

VARIABLES
  state,      \* _state
  failures,   \* _failure_count
  successes,  \* _success_count
  since,      \* time since _last_failure_time, up to RecoveryTimeout
  call,       \* where each caller is: idle, running its operation, cancelled
  healthy,    \* the service behind the breaker answers every call from now on
  badRun,     \* history: failures recorded since the last success
  goodRun,    \* history: successes recorded since the last failure
  openFor     \* history: time since the breaker last opened, up to RecoveryTimeout

counters == <<failures, successes, since>>
history == <<badRun, goodRun, openFor>>
vars == <<state, counters, call, healthy, history>>

Init ==
  /\ state = "closed" /\ failures = 0 /\ successes = 0 /\ since = Never
  /\ call = [c \in Callers |-> "idle"] /\ healthy = FALSE
  /\ badRun = 0 /\ goodRun = 0 /\ openFor = 0

UpTo(n, bound) == IF n < bound THEN n + 1 ELSE n

----------------------------------------------------------------------------
(* Entering: _check_state_transition, and admission. *)

Recovering == state = "open" /\ since # Never /\ since >= RecoveryTimeout

\* The count of successes starts anew with every call that is not closed.
Enter_ResetAlways(c) ==
  /\ call[c] = "idle" /\ (state # "open" \/ Recovering)
  /\ state' = IF Recovering THEN "half_open" ELSE state
  /\ successes' = 0
  /\ call' = [call EXCEPT ![c] = "running"]
  /\ UNCHANGED <<failures, since, healthy, history>>

Enter(c) ==
  /\ call[c] = "idle" /\ (state # "open" \/ Recovering)
  /\ state' = IF Recovering THEN "half_open" ELSE state
  /\ successes' = IF Recovering THEN 0 ELSE successes
  /\ call' = [call EXCEPT ![c] = "running"]
  /\ UNCHANGED <<failures, since, healthy, history>>

----------------------------------------------------------------------------
(* Leaving: _on_success and _on_failure. *)

Leave(c, where) ==
  /\ call[c] = "running"
  /\ call' = [call EXCEPT ![c] = where]
  /\ UNCHANGED healthy

Close == state' = "closed" /\ failures' = 0 /\ successes' = 0
EnoughSuccesses_OneShort == successes + 2 >= HalfOpenMaxCalls
EnoughSuccesses == successes + 1 >= HalfOpenMaxCalls

\* A success makes up for one failure, even when there was none.
CountSuccess_Decrement ==
  \/ state = "closed" /\ failures' = failures - 1 /\ UNCHANGED <<state, successes>>
  \/ state = "half_open" /\ EnoughSuccesses /\ Close
  \/ /\ state = "half_open" /\ ~EnoughSuccesses
     /\ successes' = successes + 1 /\ UNCHANGED <<state, failures>>
  \/ state = "open" /\ UNCHANGED <<state, failures, successes>>
\* A success does not end a run of failures.
CountSuccess_KeepFailures ==
  \/ state = "closed" /\ UNCHANGED <<state, failures, successes>>
  \/ state = "half_open" /\ EnoughSuccesses /\ Close
  \/ /\ state = "half_open" /\ ~EnoughSuccesses
     /\ successes' = successes + 1 /\ UNCHANGED <<state, failures>>
  \/ state = "open" /\ UNCHANGED <<state, failures, successes>>
\* A late success while open is forgotten.
CountSuccess ==
  \/ state = "closed" /\ failures' = 0 /\ UNCHANGED <<state, successes>>
  \/ state = "half_open" /\ EnoughSuccesses /\ Close
  \/ /\ state = "half_open" /\ ~EnoughSuccesses
     /\ successes' = successes + 1 /\ UNCHANGED <<state, failures>>
  \/ state = "open" /\ UNCHANGED <<state, failures, successes>>

Succeed(c) ==
  /\ Leave(c, "idle")
  /\ CountSuccess
  /\ badRun' = 0 /\ goodRun' = UpTo(goodRun, HalfOpenMaxCalls)
  /\ UNCHANGED <<since, openFor>>

Trips == state = "half_open" \/ (state = "closed" /\ failures + 1 >= FailureThreshold)

\* A failing probe leaves the time of the last failure alone.
CountFailure_ProbeUndated ==
  /\ failures' = UpTo(failures, CountBound)
  /\ since' = IF state = "half_open" THEN since ELSE 0
  /\ state' = IF Trips THEN "open" ELSE state
  /\ successes' = IF state = "half_open" THEN 0 ELSE successes
CountFailure ==
  /\ failures' = UpTo(failures, CountBound)
  /\ since' = 0
  /\ state' = IF Trips THEN "open" ELSE state
  /\ successes' = IF state = "half_open" THEN 0 ELSE successes

Fail(c) ==
  /\ ~healthy
  /\ Leave(c, "idle")
  /\ CountFailure
  /\ badRun' = UpTo(badRun, FailureThreshold) /\ goodRun' = 0
  /\ openFor' = IF Trips THEN 0 ELSE openFor

\* CancelledError is excluded: nothing is counted, and the task is gone.
Cancel(c) == Leave(c, "cancelled") /\ UNCHANGED <<state, counters, history>>

\* reset() that forgets the failures' count.
Reset_KeepFailures ==
  /\ state' = "closed" /\ successes' = 0 /\ since' = Never
  /\ UNCHANGED <<failures, call, healthy, history>>
Reset ==
  /\ Close /\ since' = Never
  /\ UNCHANGED <<call, healthy, history>>

----------------------------------------------------------------------------
(* The clock and the service. *)

Tick ==
  /\ since' = IF since = Never THEN Never ELSE UpTo(since, RecoveryTimeout)
  /\ openFor' = UpTo(openFor, RecoveryTimeout)
  /\ UNCHANGED <<state, failures, successes, call, healthy, badRun, goodRun>>

Heal ==
  /\ ~healthy /\ healthy' = TRUE
  /\ UNCHANGED <<state, counters, call, history>>

Calls(c) == Enter(c) \/ Succeed(c) \/ Fail(c)

Next ==
  \/ \E c \in Callers : Calls(c) \/ Cancel(c)
  \/ Reset \/ Tick \/ Heal

Spec == Init /\ [][Next]_vars

\* Callers call again each cycle and their calls end; the clock goes on.
Fairness == (\A c \in Callers : WF_vars(Calls(c))) /\ WF_vars(Tick)

FairSpec == Spec /\ Fairness

----------------------------------------------------------------------------
(* Properties *)

\* Types; in particular no count becomes negative or exceeds its use.
TypeOK ==
  /\ state \in {"closed", "open", "half_open"}
  /\ failures \in 0 .. CountBound /\ successes \in Nat
  /\ since \in {Never} \cup 0 .. RecoveryTimeout
  /\ call \in [Callers -> {"idle", "running", "cancelled"}] /\ healthy \in BOOLEAN
  /\ badRun \in 0 .. FailureThreshold /\ goodRun \in 0 .. HalfOpenMaxCalls
  /\ openFor \in 0 .. RecoveryTimeout

\* The counters fit the state, whatever late outcomes arrived: a closed breaker
\* is below its threshold, and one that is not closed has a last failure to
\* count the recovery from, so that it is never open for good.
CountersMatchState ==
  /\ state = "closed" => failures < FailureThreshold /\ successes = 0
  /\ state # "closed" => failures >= FailureThreshold /\ since # Never
  /\ successes < HalfOpenMaxCalls /\ (state = "open" => successes = 0)

\* The threshold counts consecutive failures ("Number of consecutive failures
\* before opening"), also when the calls overlap.
OpensOnConsecutiveFailures ==
  [][state = "closed" /\ state' = "open" => badRun' >= FailureThreshold]_vars

\* Between opening, for the first time or by a failed probe, and the next call
\* that is let through, the whole recovery timeout passes.
RestsWhileOpen ==
  [][\A c \in Callers :
       call[c] = "idle" /\ call'[c] = "running" /\ state = "open"
         => openFor >= RecoveryTimeout]_vars

\* Only half_open_max_calls successes in a row, or reset(), close it again.
ClosesOnConsecutiveSuccesses ==
  [][state = "half_open" /\ state' = "closed"
       => goodRun' >= HalfOpenMaxCalls \/ call' = call]_vars

\* Once the service is healthy, the breaker closes, as long as anybody calls.
Recovers == healthy ~> (state = "closed" \/ \A c \in Callers : call[c] = "cancelled")
============================================================================
