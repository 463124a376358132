SPECIFICATION Spec
CONSTANTS
  DayLength = 3
  Until = 3
  MaxLogs = 2
  Stamp = {0, 1}
  Run = {r1, r2}
  Batch = 1
  Query = {q1}
  Questions <- Asking
SYMMETRY Symmetry
CHECK_DEADLOCK FALSE
INVARIANTS
  ArchiveInv
  OwnDayOnly
  ArchivedInFull
  PageIsCounted
