\* Two writes, no caller of replay_durable_outbox (as in the repository).
CONSTANTS
  Msgs = {m1, m2}
  m1 = m1
  m2 = m2
  Replayers = {r1}
  r1 = r1
  r2 = r2
  MaxAttempts = 2
  BatchSize = 2
  ScanLimit = 1
  ReplayCalled = FALSE
  MaxFaults = 1
  MaxCrashes = 1
SPECIFICATION FairSpec
INVARIANTS TypeOK NoLoss
PROPERTIES ImplementsOnceOnly EventuallySettledOrParked
\* All writes settled or parked and the budgets spent: nothing is left to do.
CHECK_DEADLOCK FALSE
