SPECIFICATION FairSpec
CONSTANTS
  BUFFER_SIZE = 2
  DeviceSize = 5
  SizeBytes = {0, 1, 3, 5, 6}
  Argument = {"none", "all", "ALL"}
INVARIANTS TypeOK SuccessMeansWiped
PROPERTIES ImplementsWipe CleanEnds
