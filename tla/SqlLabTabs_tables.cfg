CONSTANTS
  e1 = e1
  e2 = e2
  w1 = w1
  w2 = w2
  New = New
  NoTab = NoTab
  NoWindow = NoWindow
  Editors <- TwoEditors
  Tabled <- FirstEditor
  Windows <- OneWindow
  MaxStarts = 3
  MaxClicks = 1
  MaxLost = 1
SPECIFICATION Spec
CHECK_DEADLOCK FALSE
INVARIANTS
  TablesRetried
