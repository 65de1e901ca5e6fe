\* Two uploads gathered by idx_bot, nothing fails.
CONSTANTS
  w1 = w1
  f1 = f1
  f2 = f2
  x1 = x1
  x2 = x2
  s1 = s1
  Writers = {}
  Finalizers = {f1, f2}
  Units = {}
  Singles = {}
  Serial = FALSE
  MaxFaults = 0
SPECIFICATION Spec
INVARIANTS CommitRestored
\* Every task has ended: nothing is left to do.
CHECK_DEADLOCK FALSE
