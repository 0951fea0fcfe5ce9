CONSTANTS
  s1 = s1
  s2 = s2
  r1 = r1
  r2 = r2
  c1 = c1
  c2 = c2
  NoSub = NoSub
  Subs <- TwoSubs
  UnlimitedSubs <- SecondSub
  Requests <- TwoRequests
  Cancels <- Nobody
  TrialTime = 1
  PlanTime = 2
  MaxRuntime = 1
  NewUser = FALSE
  Abandons = TRUE
  MaxUngated = 1
  MaxCycles = 1
  MaxDuplicates = 1
SPECIFICATION Spec
CHECK_DEADLOCK FALSE
INVARIANTS
  TypeOK
  OverdraftBounded
  PaidPlanIsUsable
