CONSTANTS
  a = a
  Unsaved = Unsaved
  f1 = f1
  f2 = f2
  Schedules <- OneSchedule
  Crontabs <- SomeCrontabs
  HourLen = 4
  BeatMinute = 1
  Resolution = 2
  Late = 1
  Forms <- TwoForms
  MaxHours = 1
  MaxEdits = 2
SPECIFICATION Spec
CHECK_DEADLOCK FALSE
PROPERTY TestMailAsAsked
