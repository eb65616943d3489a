SPECIFICATION Spec
CONSTANTS
  Proc = {a, b}
  MAX_PARTITIONS = 2
  Index = {0, 1, 2, 3}
INVARIANTS TypeOK OthersUntouched DeletionsStick KernelCurrent
