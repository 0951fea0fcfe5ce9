CONSTANTS
  r1 = r1
  r2 = r2
  table = table
  line = line
  Requests <- TwoRequests
  Charts <- JustTable
  Queries <- TheirQueries
  Timeout <- TheirTimeouts
  ResponseTimeout = 1
  MaxDelay = 1
  MaxEdits = 1
SPECIFICATION Spec
INVARIANTS
  TypeOK
  LabelIsRight
  AgeBounded
  EditsShow
SYMMETRY Symmetric
