SPECIFICATION Spec
CONSTANTS
  NULL = NULL
  NotId = NotId
  BadId = BadId
  d1 = d1
  d2 = d2
  d3 = d3
  p1 = p1
  p2 = p2
  p3 = p3
  v1 = v1
  v2 = v2
  Disk = {d1, d2}
  Partition = {p1, p2, p3}
  Volume = {}
  Signatures = {s1}
  DiskList <- EditDiskList
  VolumeList <- NoVolumes
  Primary <- EditPrimary
  Logical <- EditLogical
  DiskNumber <- MCDiskNumber
  VolumeNumber <- MCVolumeNumber
  PartitionNumber <- MCPartitionNumber
  IntMod = 8
  LongMax = 15
  Typed = {0, 1, 2, 8, 16}
  TypeByte = {0, 7, 66}
  IdArgs <- MCIdArgs
  K = 4
  Capacities <- MCCapacities
  Extents <- MCExtents
  StartSector <- MCStartSector
  SectorCount <- MCSectorCount
  BytesPerSector <- MCBytesPerSector
INVARIANT FocusIsListed
