--------------------------- MODULE MCDiskSession ---------------------------
(***************************************************************************)
(* Two instances of the session.  Edit: two disks, d1 with a primary and a *)
(* logical partition, numbered 1 and 5 as the kernel numbers them, and d2  *)
(* with one partition.  List: three disks of which one has a partition,    *)
(* and two volumes.  In both, ints have 3 bits and longs 4, so 8 does not  *)
(* fit an int and 16 does not fit a long.  Volume v1 is the partition of   *)
(* d1 in List, and v2 lies on d1 and d2; sectors differ in size.  K is 4,  *)
(* and Capacities has the sizes around the thresholds of all units.       *)
(***************************************************************************)
EXTENDS SessionViews, TLC
CONSTANTS d1, d2, d3, p1, p2, p3, v1, v2

EditDiskList == <<d1, d2>>
EditPrimary == (d1 :> <<p1>>) @@ (d2 :> <<p3>>)
EditLogical == (d1 :> <<p2>>) @@ (d2 :> <<>>)

ListDiskList == <<d1, d2, d3>>
ListVolumeList == <<v1, v2>>
ListPrimary == (d1 :> <<>>) @@ (d2 :> <<>>) @@ (d3 :> <<>>)
ListLogical == (d1 :> <<p1>>) @@ (d2 :> <<>>) @@ (d3 :> <<>>)

NoVolumes == <<>>
MCDiskNumber == [d \in Disk |-> IF d = d1 THEN 0 ELSE IF d = d2 THEN 1 ELSE 2]
MCVolumeNumber == [v \in Volume |-> IF v = v1 THEN 0 ELSE 1]
MCPartitionNumber == [p \in Partition |-> IF p = p2 THEN 5 ELSE 1]
MCExtents == [v \in Volume |->
  IF v = v1 THEN << [disk |-> 0, offset |-> 16, length |-> 168] >>
  ELSE << [disk |-> 1, offset |-> 0, length |-> 32], [disk |-> 0, offset |-> 64, length |-> 8] >>]
MCStartSector == [p \in Partition |-> 2]
MCSectorCount == [p \in Partition |-> 21]
MCBytesPerSector == [d \in Disk |-> IF d = d1 THEN 8 ELSE 4]
MCCapacities == 0 .. 3 \cup UNION {n - 3 .. n + 3 : n \in {10, 40, 96, 160, 200, 640, 672, 704}}
MCIdArgs == {<<>>, <<7>>, <<7, 0>>, <<7, 66>>, <<66, 7>>, <<BadId>>, <<NotId>>}
=============================================================================
