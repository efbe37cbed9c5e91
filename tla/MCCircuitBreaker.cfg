SPECIFICATION FairSpec
CONSTANTS
  Callers = {c1, c2, c3}
  FailureThreshold = 2
  RecoveryTimeout = 2
  HalfOpenMaxCalls = 2
  CountBound = 3
INVARIANTS
  TypeOK
  CountersMatchState
PROPERTIES
  OpensOnConsecutiveFailures
  RestsWhileOpen
  ClosesOnConsecutiveSuccesses
  Recovers
