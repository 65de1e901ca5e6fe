\* A job gets its CRDB id while it is delivered; nothing fails.
CONSTANTS
  j1 = j1
  j2 = j2
  s1 = s1
  s2 = s2
  Jobs = {j1}
  Slots = {s1, s2}
  MaxRetry = 2
  MaxRevive = 1
  MaxFaults = 0
  MaxCrashes = 0
SPECIFICATION Spec
INVARIANTS OneCopyPerJob
\* The job is settled and the budgets are spent: nothing is left to do.
CHECK_DEADLOCK FALSE
