SPECIFICATION Spec
CONSTANTS
  Proc = {a, b}
  MAX_PARTITIONS = 2
  Index = {0, 1, 2, 3}
INVARIANT ReportedIsDeleted
