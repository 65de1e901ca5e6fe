\* One write, two processes replaying the durable outbox.
CONSTANTS
  Msgs = {m1}
  m1 = m1
  m2 = m2
  Replayers = {r1, r2}
  r1 = r1
  r2 = r2
  MaxAttempts = 2
  BatchSize = 2
  ScanLimit = 1
  ReplayCalled = TRUE
  MaxFaults = 2
  MaxCrashes = 1
SPECIFICATION FairSpec
INVARIANTS ExactlyOnce LossOnlyBehindReplayedRow
PROPERTIES EventuallySettled
\* All writes settled or parked and the budgets spent: nothing is left to do.
CHECK_DEADLOCK FALSE
