SPECIFICATION Spec
CONSTANTS
  NULL = NULL
  Proc = {a, b}
  Num = {1, 2, 3}
  MbrNum = {1, 2}
  LastOfDisk = 2
  MB = 4
  SECTOR = 2
  Word = 16
  Tables <- MCTables
  Job <- MCJob
SYMMETRY MCSymmetry
INVARIANTS TypeOK NoOverlap OneActive ReportedIsOnDevice SizeAsAsked ReleasedOnce
PROPERTIES ImplementsTableEditing
