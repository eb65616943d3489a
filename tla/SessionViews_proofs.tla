------------------------ MODULE SessionViews_proofs ------------------------
(***************************************************************************)
(* What detail and list show fits together, in every session, and for all  *)
(* extents, sizes and sector sizes.                                        *)
(***************************************************************************)
EXTENDS SessionViews, DiskSession_proofs, Units_proofs

(* The partition in focus belongs to the disk in focus and to no other.     *)
LEMMA DiskOfFocus ==
  ASSUME TypeOK, PartitionOnDisk, CurrentPartition # NULL
  PROVE  CurrentDisk \in Disk /\ DiskEntry(CurrentPartition) = CurrentDisk
  <1>1. CurrentDisk \in Disk /\ CurrentPartition \in PartitionsOf[CurrentDisk]
    BY ListAssumption DEF TypeOK, PartitionOnDisk, Listed
  <1>2. \A d \in Disk : CurrentPartition \in PartitionsOf[d] => d = CurrentDisk
    BY <1>1, ViewsAssumption
  <1> QED BY <1>1, <1>2 DEF DiskEntry

(* Only entries of the list come into focus. *)
VolumeListed == CurrentVolume # NULL => \E i \in DOMAIN VolumeList : VolumeList[i] = CurrentVolume

LEMMA VolumeListedNext ==
  ASSUME VolumeListed, [Next]_vars PROVE VolumeListed'
  <1>1. ASSUME NEW n \in Typed, SelectVolumeNumber(n) PROVE VolumeListed'
    BY <1>1 DEF SelectVolumeNumber, VolumeListed, NotFound, focus
  <1>2. ASSUME NEW v \in Volume, RemoveVolume(v) PROVE VolumeListed'
    BY <1>2 DEF RemoveVolume, VolumeListed, SelectionWithout
  <1>3. CASE UNCHANGED CurrentVolume
    BY <1>3 DEF VolumeListed
  <1>4. ASSUME NEW cmd, NEW ok, NEW said, Report(cmd, ok, said) PROVE UNCHANGED CurrentVolume
    BY <1>4 DEF Report, focus
  <1>5. \/ UNCHANGED CurrentVolume \/ \E n \in Typed : SelectVolumeNumber(n)
        \/ \E v \in Volume : RemoveVolume(v)
    BY <1>4 DEF Next, vars, SelectDiskShow, SelectDiskSystem, SelectDiskNext,
       SelectPartitionShow, SelectVolumeShow, UniqueIdShow, SelectDiskNumber,
       SelectPartitionNumber, SetId, UniqueIdDisk, Inactive, Rescan, focus, NotFound,
       AtLastDisk, IdForbidden
  <1> QED BY <1>1, <1>2, <1>3, <1>5

LEMMA FocusFromLists ==
  Spec => [](TypeOK /\ PartitionOnDisk /\ VolumeAlive /\ VolumeListed)
  <1>1. Init => VolumeListed
    BY DEF Init, VolumeListed
  <1> QED BY <1>1, VolumeListedNext, TypeCorrect, PartitionStaysOnDisk, VolumeStaysAlive,
             PTL DEF Spec

-----------------------------------------------------------------------------
(* detail's three lists and the offset it prints agree with each other      *)
(* (DetailAgrees), although it takes the sector size from two places.       *)
THEOREM DetailIsConsistent == Spec => []DetailAgrees
  <1>1. TypeOK /\ PartitionOnDisk /\ VolumeAlive /\ VolumeListed => DetailAgrees
    <2> SUFFICES ASSUME TypeOK, PartitionOnDisk, VolumeAlive, VolumeListed, CurrentDisk # NULL
                 PROVE  DetailAgrees
      BY DEF DetailAgrees
    <2>1. ASSUME CurrentPartition # NULL, NEW v \in DetailPartition
          PROVE  /\ v \in DetailDisk
                 /\ \E i \in DOMAIN Extents[v] : /\ Extents[v][i].disk = DiskNumber[CurrentDisk]
                                                 /\ Extents[v][i].offset = Offset
      <3>1. DiskEntry(CurrentPartition) = CurrentDisk
        BY <2>1, DiskOfFocus
      <3>2. PICK i \in DOMAIN Extents[v] :
              Extents[v][i] = [disk |-> DiskNumber[CurrentDisk], offset |-> Offset,
                               length |-> SectorCount[CurrentPartition] * BytesPerSector[CurrentDisk]]
        BY <2>1, <3>1 DEF DetailPartition, IsPartitionInVolume, Offset
      <3>3. Extents[v][i].disk = DiskNumber[CurrentDisk] /\ Extents[v][i].offset = Offset
        BY <3>2
      <3> QED BY <2>1, <3>3 DEF DetailPartition, DetailDisk, IsDiskInVolume
    <2>2. CurrentVolume # NULL => (CurrentDisk \in DetailVolume <=> CurrentVolume \in DetailDisk)
      BY DEF TypeOK, VolumeAlive, VolumeListed, DetailVolume, DetailDisk, LinkedVolumes
    <2> QED BY <2>1, <2>2 DEF DetailAgrees
  <1> QED BY <1>1, FocusFromLists, PTL

(* In every session the sizes and offsets that list shows of all disks and  *)
(* volumes and of the rows of the disk in focus are near the true ones      *)
(* (ListIsNear); what is near is said for list disk apart.                  *)
THEOREM ListStaysNear == Spec => []ListIsNear
  <1>1. TypeOK => ListIsNear
    <2> SUFFICES ASSUME TypeOK PROVE Capacities \cup RowSizes \subseteq Nat
      BY ViewsAssumption, ShownIsNear, DiskIsNear DEF ListIsNear
    <2>1. ASSUME CurrentDisk # NULL, NEW p \in PartitionsOf[CurrentDisk]
          PROVE  Bytes(StartSector[p]) \in Nat /\ Bytes(SectorCount[p]) \in Nat
      <3>1. CurrentDisk \in Disk
        BY <2>1, ListAssumption DEF TypeOK, Listed
      <3>2. p \in Partition
        BY <2>1, <3>1, EntryType DEF PartitionsOf
      <3>3. /\ StartSector[p] \in Nat /\ SectorCount[p] \in Nat
            /\ BytesPerSector[CurrentDisk] \in Nat
        BY <3>1, <3>2, ViewsAssumption
      <3> QED BY <3>3 DEF Bytes
    <2> QED BY <2>1, ViewsAssumption DEF RowSizes
  <1> QED BY <1>1, TypeCorrect, PTL
=============================================================================
