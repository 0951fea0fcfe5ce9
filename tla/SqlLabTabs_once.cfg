CONSTANTS
  e1 = e1
  e2 = e2
  w1 = w1
  w2 = w2
  New = New
  NoTab = NoTab
  NoWindow = NoWindow
  Editors <- FirstEditor
  Tabled <- FirstEditor
  Windows <- TwoWindows
  MaxStarts = 3
  MaxClicks = 1
  MaxLost = 1
SPECIFICATION Spec
CHECK_DEADLOCK FALSE
INVARIANTS
  MigratedOnce
