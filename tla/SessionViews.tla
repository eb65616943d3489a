---------------------------- MODULE SessionViews ----------------------------
(***************************************************************************)
(* What detail shows of the session, and the units of list.  Neither       *)
(* changes any state: what they show is a function of the state.  The      *)
(* extents of a volume, and where partitions lie, are constants like the   *)
(* lists themselves.                                                       *)
(***************************************************************************)
EXTENDS DiskSession, Units

CONSTANTS Extents,                   \* [Volume -> sequence of extents]
          StartSector, SectorCount,  \* [Partition -> sectors]
          BytesPerSector,            \* [Disk -> Nat]
          Capacities                 \* the bytes that disks and volumes may have

Extent == [disk : Int, offset : Int, length : Int]
ASSUME ViewsAssumption ==
  /\ Extents \in [Volume -> Seq(Extent)]
  /\ StartSector \in [Partition -> Nat] /\ SectorCount \in [Partition -> Nat]
  /\ BytesPerSector \in [Disk -> Nat] /\ Capacities \subseteq Nat
  /\ \A c, d \in Disk : c # d => PartitionsOf[c] \cap PartitionsOf[d] = {}

DiskEntry(p) == CHOOSE d \in Disk : p \in PartitionsOf[d]
LinkedVolumes == {VolumeList[i] : i \in DOMAIN VolumeList} \ freed

IsDiskInVolume(v, d) ==
  \E i \in DOMAIN Extents[v] : Extents[v][i].disk = DiskNumber[d]
IsPartitionInVolume(v, p) ==
  LET d == DiskEntry(p)
  IN  \E i \in DOMAIN Extents[v] :
        Extents[v][i] = [disk |-> DiskNumber[d],
                         offset |-> StartSector[p] * BytesPerSector[d],
                         length |-> SectorCount[p] * BytesPerSector[d]]

(* The volumes and disks that the three commands list for the focus.        *)
DetailDisk == {v \in LinkedVolumes : IsDiskInVolume(v, CurrentDisk)}
DetailPartition == {v \in LinkedVolumes : IsPartitionInVolume(v, CurrentPartition)}
DetailVolume == {d \in Listed : IsDiskInVolume(CurrentVolume, d)}
Offset == StartSector[CurrentPartition] * BytesPerSector[CurrentDisk]

(* detail computes the offset with the sector size of the disk in focus     *)
(* (detail.c:150) and finds the volumes with that of the partition's own    *)
(* disk (detail.c:93): a volume it lists for the partition does lie at the  *)
(* offset it prints, and detail disk lists it too.  A volume in focus lists *)
(* the disk in focus exactly if the disk lists the volume.                  *)
DetailAgrees ==
  CurrentDisk # NULL =>
    /\ CurrentPartition # NULL =>
         \A v \in DetailPartition :
           /\ v \in DetailDisk
           /\ \E i \in DOMAIN Extents[v] :
                /\ Extents[v][i].disk = DiskNumber[CurrentDisk]
                /\ Extents[v][i].offset = Offset
    /\ CurrentVolume # NULL =>
         (CurrentDisk \in DetailVolume <=> CurrentVolume \in DetailDisk)

(* list volume and list partition show sizes, and offsets, within half a    *)
(* unit and from ten KB on within a twentieth, on both sides of every       *)
(* threshold; list disk within half a unit, except that it shows 1 MB for   *)
(* less than half of one.  list partition has the rows in use of the disk   *)
(* in focus (list.c:97, 153), whichever of them is in focus.               *)
Bytes(sectors) == sectors * BytesPerSector[CurrentDisk]
RowSizes ==
  IF CurrentDisk = NULL THEN {}
  ELSE LET rows == {p \in PartitionsOf[CurrentDisk] : PartitionType[p] # 0}
       IN  {Bytes(StartSector[p]) : p \in rows} \cup {Bytes(SectorCount[p]) : p \in rows}
ListIsNear ==
  /\ \A n \in Capacities \cup RowSizes : Near(n)
  /\ \A n \in Capacities : NearOfDisk(n)
=============================================================================
