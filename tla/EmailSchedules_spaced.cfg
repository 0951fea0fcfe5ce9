CONSTANTS
  a = a
  Unsaved = Unsaved
  f1 = f1
  f2 = f2
  Schedules <- OneSchedule
  Crontabs <- LastAndFirst
  HourLen = 4
  BeatMinute = 1
  Resolution = 2
  Late = 1
  Forms <- OneForm
  MaxHours = 2
  MaxEdits = 0
SPECIFICATION Spec
CHECK_DEADLOCK FALSE
INVARIANT ReportsAreSpaced
