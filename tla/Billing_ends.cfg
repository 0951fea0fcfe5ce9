CONSTANTS
  s1 = s1
  s2 = s2
  r1 = r1
  r2 = r2
  c1 = c1
  c2 = c2
  NoSub = NoSub
  Subs <- OneSub
  UnlimitedSubs <- Nobody
  Requests <- OneRequest
  Cancels <- TwoCancels
  TrialTime = 1
  PlanTime = 1
  MaxRuntime = 1
  NewUser = FALSE
  Abandons = FALSE
  MaxUngated = 0
  MaxCycles = 0
  MaxDuplicates = 0
SPECIFICATION Spec
CHECK_DEADLOCK FALSE
INVARIANT CancelledPlanEnds
