\* One upload of a user who has not started idx_bot and one of a relay, a failed call, crashes.
CONSTANTS
  u1 = u1
  u2 = u2
  x1 = x1
  x2 = x2
  Uploads = {u1, x1}
  External = {x1}
  Reused = {}
  Strangers = {u1}
  ResetEvery = 2
  MaxFaults = 1
  MaxCrashes = 1
  MaxEager = 1
SPECIFICATION FairSpec
INVARIANTS TypeOK CodesMatchRows ReadyMeansCoded LossesHaveCauses
PROPERTIES CompletedOnce NoticeServesRows
\* Everything is indexed and told, or forgotten: the system is at rest.
CHECK_DEADLOCK FALSE
