\* One job, two slots: races of a slow slot, a crash, failed calls.
CONSTANTS
  j1 = j1
  j2 = j2
  s1 = s1
  s2 = s2
  Jobs = {j1}
  Slots = {s1, s2}
  MaxRetry = 2
  MaxRevive = 1
  MaxFaults = 1
  MaxCrashes = 1
SPECIFICATION FairSpec
INVARIANTS TypeOK DoneWasSent ExtraCopiesHaveCauses ReceiptsAgree
PROPERTIES CompletedIsFinal EventuallyAtRest
\* The job is settled and the budgets are spent: nothing is left to do.
CHECK_DEADLOCK FALSE
