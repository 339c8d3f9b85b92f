CONSTANTS
  FileCount = 2
  Runs = {r1, r2}
  Concurrency = 1
SPECIFICATION Spec
INVARIANTS ReportIsHonest CanceledIsFinal
PROPERTIES
  CancelCleans
  LoneRunSettles
CHECK_DEADLOCK FALSE
