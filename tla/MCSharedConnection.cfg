\* One task at a time, of every kind, and up to three failing statements.
CONSTANTS
  w1 = w1
  f1 = f1
  f2 = f2
  x1 = x1
  x2 = x2
  s1 = s1
  Writers = {w1}
  Finalizers = {f1}
  Units = {x1, x2}
  Singles = {s1}
  Serial = TRUE
  MaxFaults = 3
SPECIFICATION Spec
INVARIANTS CommitRestored AckedIsKept HalvesHaveCauses
\* Every task has ended: nothing is left to do.
CHECK_DEADLOCK FALSE
