------------------------- MODULE DiskSession_proofs -------------------------
(***************************************************************************)
(* Theorems about every session: any disks, partitions and volumes, any    *)
(* numbers, any width of an int.                                           *)
(***************************************************************************)
EXTENDS DiskSession, TLAPS, FiniteSetTheorems

(* What strtol and the assignment to an int make of a typed number is an int. *)
LEMMA IntType == \A n \in Typed : ToInt(Saturated(n)) \in Int
  BY NumberAssumption DEF ToInt, Saturated

LEMMA NumberType ==
  /\ \A d \in Disk : DiskNumber[d] \in Number
  /\ \A p \in Partition : PartitionNumber[p] \in Number
  /\ \A v \in Volume : VolumeNumber[v] \in Number
  /\ NULL \in Number /\ Int \subseteq Number /\ Typed \subseteq Number
  BY NumberAssumption DEF Number

(* The lists hold disks and partitions, and nothing in them is NULL. *)
LEMMA ListType ==
  /\ Listed \subseteq Disk
  /\ \A i \in DOMAIN DiskList : DiskList[i] \in Listed
  /\ \A i \in DOMAIN VolumeList : VolumeList[i] \in Volume
  /\ NULL \notin Disk /\ NULL \notin Partition /\ NULL \notin Volume
  /\ DiskList # <<>> => 1 \in DOMAIN DiskList /\ Len(DiskList) \in DOMAIN DiskList
  /\ Len(DiskList) \in Nat /\ DOMAIN DiskList = 1 .. Len(DiskList)
  BY ListAssumption, NullAssumption DEF Listed

LEMMA EntryType ==
  \A d \in Disk : /\ Entries(d) \in Seq(Partition)
                  /\ \A i \in DOMAIN Entries(d) : /\ Entries(d)[i] \in Partition
                                                  /\ Entries(d)[i] \in PartitionsOf[d]
  <1> SUFFICES ASSUME NEW d \in Disk
               PROVE  /\ Entries(d) \in Seq(Partition)
                      /\ \A i \in DOMAIN Entries(d) : /\ Entries(d)[i] \in Partition
                                                      /\ Entries(d)[i] \in PartitionsOf[d]
    OBVIOUS
  <1>1. Entries(d) \in Seq(Partition)
    BY ListAssumption DEF Entries
  <1>2. PartitionsOf[d] = {Entries(d)[i] : i \in DOMAIN Entries(d)}
    BY DEF PartitionsOf
  <1> QED BY <1>1, <1>2

LEMMA AnswerType ==
  ASSUME NEW cmd \in Commands, NEW ok \in BOOLEAN, NEW asked \in Number,
         NEW said \in Number, Answer(cmd, ok, asked, said)
  PROVE  reply' \in Replies
  BY DEF Answer, Replies

LEMMA ReportType ==
  ASSUME TypeOK, NEW cmd \in Commands, NEW ok \in BOOLEAN, NEW said \in Number,
         Report(cmd, ok, said)
  PROVE  TypeOK'
  <1>1. reply' \in Replies
    BY AnswerType, NumberType DEF Report
  <1> QED BY <1>1 DEF TypeOK, Report, focus, entries

-----------------------------------------------------------------------------
(* Type correctness of the session: the selections are NULL or entries of   *)
(* the lists, the edited fields keep their types (see TypeOK).              *)
THEOREM TypeCorrect == Spec => []TypeOK
  <1>1. Init => TypeOK
    BY ListType DEF Init, TypeOK, Commands, Number, Replies
  <1>2. TypeOK /\ [Next]_vars => TypeOK'
    <2> SUFFICES ASSUME TypeOK, [Next]_vars PROVE TypeOK'
      OBVIOUS
    <2> USE DEF Commands
    <2>1. CASE SelectDiskShow
      <3>1. (IF CurrentDisk = NULL THEN NULL ELSE DiskNumber[CurrentDisk]) \in Number
        BY NumberType, ListType DEF TypeOK
      <3> QED BY <2>1, <3>1, ReportType, NumberType DEF SelectDiskShow
    <2>2. CASE SelectDiskSystem
      <3>1. DiskList[1] \in Listed
        BY <2>2, ListType DEF SelectDiskSystem
      <3>2. reply' \in Replies
        BY <2>2, <3>1, ListType, NumberType, AnswerType DEF SelectDiskSystem
      <3> QED BY <2>2, <3>1, <3>2, ListType DEF SelectDiskSystem, TypeOK, GiveFocus, entries
    <2>3. CASE SelectDiskNext
      <3>1. CASE GiveFocus(NULL) /\ UNCHANGED visited /\ Answer("next", FALSE, NULL, NULL)
        <4>1. reply' \in Replies
          BY <3>1, NumberType, AnswerType
        <4> QED BY <2>3, <3>1, <4>1 DEF SelectDiskNext, TypeOK, GiveFocus, entries, AtLastDisk
      <3>2. ASSUME NEW i \in 1 .. Len(DiskList) - 1,
                   GiveFocus(DiskList[i + 1]),
                   visited' = IF visited = {} THEN {} ELSE visited \cup {DiskList[i + 1]},
                   Answer("next", TRUE, NULL, DiskNumber[DiskList[i + 1]])
            PROVE  TypeOK'
        <4>1. DiskList[i + 1] \in Listed
          BY ListType
        <4>2. reply' \in Replies
          BY <3>2, <4>1, ListType, NumberType, AnswerType
        <4> QED BY <2>3, <3>2, <4>1, <4>2, ListType
                DEF SelectDiskNext, TypeOK, GiveFocus, entries, AtLastDisk
      <3> QED BY <2>3, <3>1, <3>2 DEF SelectDiskNext, AtLastDisk
    <2>4. ASSUME NEW n \in Typed, SelectDiskNumber(n) PROVE TypeOK'
      <3>1. ToInt(Saturated(n)) \in Number /\ n \in Number
        BY IntType, NumberType
      <3>2. reply' \in Replies
        BY <2>4, <3>1, NumberType, AnswerType DEF SelectDiskNumber, NotFound, focus
      <3>3. /\ CurrentDisk' \in Listed \cup {NULL}
            /\ CurrentPartition' \in Partition \cup {NULL}
            /\ visited' \subseteq Disk
        BY <2>4, ListType DEF SelectDiskNumber, TypeOK, GiveFocus, NotFound, focus
      <3> QED BY <2>4, <3>2, <3>3 DEF SelectDiskNumber, TypeOK, entries, ErrnoAfter, NotFound, focus
    <2>5. CASE SelectPartitionShow
      <3>1. (IF CurrentPartition = NULL THEN NULL ELSE PartitionNumber[CurrentPartition]) \in Number
        BY NumberType DEF TypeOK
      <3> QED BY <2>5, <3>1, ReportType, NumberType DEF SelectPartitionShow
    <2>6. ASSUME NEW n \in Typed, SelectPartitionNumber(n) PROVE TypeOK'
      <3>1. CurrentDisk \in Disk
        BY <2>6, ListType DEF SelectPartitionNumber, TypeOK, NotFound, focus
      <3>2. ToInt(Saturated(n)) \in Number /\ n \in Number
        BY IntType, NumberType
      <3>3. reply' \in Replies
        BY <2>6, <3>2, NumberType, AnswerType DEF SelectPartitionNumber, NotFound, focus
      <3>4. CurrentPartition' \in Partition \cup {NULL}
        BY <2>6, <3>1, EntryType DEF SelectPartitionNumber, TypeOK, NotFound, focus
      <3> QED BY <2>6, <3>3, <3>4 DEF SelectPartitionNumber, TypeOK, entries, ErrnoAfter, NotFound, focus
    <2>7. CASE SelectVolumeShow
      <3>1. (IF CurrentVolume = NULL THEN NULL ELSE VolumeNumber[CurrentVolume]) \in Number
        BY NumberType DEF TypeOK
      <3> QED BY <2>7, <3>1, ReportType, NumberType DEF SelectVolumeShow
    <2>8. ASSUME NEW n \in Typed, SelectVolumeNumber(n) PROVE TypeOK'
      <3>1. ToInt(Saturated(n)) \in Number /\ n \in Number
        BY IntType, NumberType
      <3>2. reply' \in Replies
        BY <2>8, <3>1, NumberType, AnswerType DEF SelectVolumeNumber, NotFound, focus
      <3>3. CurrentVolume' \in Volume \cup {NULL}
        BY <2>8, ListType DEF SelectVolumeNumber, TypeOK, NotFound, focus
      <3> QED BY <2>8, <3>2, <3>3 DEF SelectVolumeNumber, TypeOK, entries, ErrnoAfter, NotFound, focus
    <2>9. ASSUME NEW v \in Volume, RemoveVolume(v) PROVE TypeOK'
      <3>1. reply' \in Replies
        BY <2>9, NumberType, AnswerType DEF RemoveVolume, SelectionWithout
      <3> QED BY <2>9, <3>1 DEF RemoveVolume, TypeOK, entries, SelectionWithout
    <2>10. ASSUME NEW args \in IdArgs, SetId(args) PROVE TypeOK'
      <3>1. CASE Report("setid", FALSE, NULL)
        BY <3>1, ReportType, NumberType
      <3>2. CASE ~ Report("setid", FALSE, NULL)
        <4>1. CurrentDisk \in Disk
          BY <2>10, <3>2, ListType DEF SetId, TypeOK, IdForbidden
        <4>2. reply' \in Replies
          BY <2>10, <3>2, NumberType, AnswerType DEF SetId, IdForbidden
        <4>3. PartitionType' \in [Partition -> TypeByte \ {LdmType}]
          BY <2>10, <3>2 DEF SetId, TypeOK, IdForbidden
        <4> QED BY <2>10, <3>2, <4>1, <4>2, <4>3 DEF SetId, TypeOK, focus, IdForbidden
      <3> QED BY <3>1, <3>2
    <2>11. ASSUME NEW s \in Signatures, UniqueIdDisk(s) PROVE TypeOK'
      <3>1. CurrentDisk \in Disk
        BY <2>11, ListType DEF UniqueIdDisk, TypeOK
      <3>2. reply' \in Replies
        BY <2>11, NumberType, AnswerType DEF UniqueIdDisk
      <3> QED BY <2>11, <3>1, <3>2 DEF UniqueIdDisk, TypeOK, focus
    <2>12. CASE UniqueIdShow
      BY <2>12, ReportType, NumberType DEF UniqueIdShow
    <2>13. CASE Inactive
      <3>1. CASE Report("inactive", FALSE, NULL)
        BY <3>1, ReportType, NumberType
      <3>2. CASE ~ Report("inactive", FALSE, NULL)
        <4>1. CurrentDisk \in Disk
          BY <2>13, <3>2, ListType DEF Inactive, TypeOK
        <4>2. reply' \in Replies
          BY <2>13, <3>2, NumberType, AnswerType DEF Inactive
        <4>3. /\ Dirty' \in [Disk -> BOOLEAN]
              /\ unsaved' \subseteq Disk
          BY <2>13, <3>2, <4>1
          DEF Inactive, TypeOK, UpdateDiskLayout, WritePartitions
        <4> QED BY <2>13, <3>2, <4>2, <4>3 DEF Inactive, TypeOK, focus
      <3> QED BY <3>1, <3>2
    <2>14. CASE Rescan
      BY <2>14, ReportType, NumberType DEF Rescan
    <2>15. CASE UNCHANGED vars
      BY <2>15 DEF vars, TypeOK
    <2> QED BY <2>1, <2>2, <2>3, <2>4, <2>5, <2>6, <2>7, <2>8, <2>9, <2>10,
               <2>11, <2>12, <2>13, <2>14, <2>15 DEF Next
  <1> QED BY <1>1, <1>2, PTL DEF Spec

-----------------------------------------------------------------------------
(* Every step of the session is a step of Focus or leaves the focus alone.  *)
LEMMA StepOfFocus == TypeOK /\ [Next]_vars => [F!Next]_(F!focusVars)
  <1> SUFFICES ASSUME TypeOK, [Next]_vars
               PROVE  F!Next \/ UNCHANGED <<focus, freed>>
    BY DEF F!focusVars, focus
  <1>1. ASSUME NEW cmd, NEW ok, NEW said, Report(cmd, ok, said)
        PROVE  UNCHANGED <<focus, freed>>
    BY <1>1 DEF Report
  <1>2. ASSUME NEW d \in Listed, GiveFocus(d), UNCHANGED <<CurrentVolume, freed>>
        PROVE  F!Next
    <2>1. F!FocusDisk(d)
      BY <1>2 DEF F!FocusDisk, GiveFocus
    <2> QED BY <2>1, ListType DEF F!Next
  <1>3. CASE SelectDiskSystem
    BY <1>1, <1>2, <1>3, ListType DEF SelectDiskSystem
  <1>4. CASE SelectDiskNext
    <2>1. CASE GiveFocus(NULL)
      <3>1. F!LoseDisk
        BY <1>4, <2>1 DEF SelectDiskNext, GiveFocus, F!LoseDisk, AtLastDisk
      <3> QED BY <3>1 DEF F!Next
    <2>2. ASSUME NEW i \in 1 .. Len(DiskList) - 1, GiveFocus(DiskList[i + 1])
          PROVE  F!Next
      <3>1. DiskList[i + 1] \in Listed
        BY ListType
      <3> QED BY <1>2, <1>4, <2>2, <3>1 DEF SelectDiskNext, AtLastDisk
    <2> QED BY <1>4, <2>1, <2>2 DEF SelectDiskNext, AtLastDisk
  <1>5. ASSUME NEW n \in Typed, SelectDiskNumber(n)
        PROVE  F!Next \/ UNCHANGED <<focus, freed>>
    BY <1>2, <1>5, ListType DEF SelectDiskNumber, focus, NotFound
  <1>6. ASSUME NEW n \in Typed, SelectPartitionNumber(n)
        PROVE  F!Next \/ UNCHANGED <<focus, freed>>
    <2>1. CurrentDisk \in Disk
      BY <1>6, ListType DEF SelectPartitionNumber, TypeOK, NotFound, focus
    <2>2. CASE UNCHANGED CurrentPartition
      BY <1>6, <2>2 DEF SelectPartitionNumber, focus, NotFound
    <2>3. ASSUME NEW i \in DOMAIN Entries(CurrentDisk),
                 CurrentPartition' = Entries(CurrentDisk)[i]
          PROVE  F!Next
      <3>1. F!FocusPartition(Entries(CurrentDisk)[i])
        BY <1>6, <2>1, <2>3, EntryType DEF SelectPartitionNumber, F!FocusPartition, NotFound, focus
      <3> QED BY <2>1, <3>1, EntryType DEF F!Next
    <2> QED BY <1>6, <2>2, <2>3 DEF SelectPartitionNumber, NotFound, focus
  <1>7. ASSUME NEW n \in Typed, SelectVolumeNumber(n)
        PROVE  F!Next \/ UNCHANGED <<focus, freed>>
    <2>1. CASE UNCHANGED CurrentVolume
      BY <1>7, <2>1 DEF SelectVolumeNumber, focus, NotFound
    <2>2. ASSUME NEW i \in DOMAIN VolumeList, VolumeList[i] \notin freed,
                 CurrentVolume' = VolumeList[i]
          PROVE  F!Next
      <3>1. F!FocusVolume(VolumeList[i])
        BY <1>7, <2>2 DEF SelectVolumeNumber, F!FocusVolume, NotFound, focus
      <3> QED BY <3>1, ListType DEF F!Next
    <2> QED BY <1>7, <2>1, <2>2 DEF SelectVolumeNumber, VolumeFound, NotFound, focus
  <1>8. ASSUME NEW v \in Volume, RemoveVolume(v) PROVE F!Next
    <2>1. F!ForgetVolume(v)
      BY <1>8 DEF RemoveVolume, F!ForgetVolume, SelectionWithout
    <2> QED BY <2>1 DEF F!Next
  <1>9. ASSUME NEW args \in IdArgs, SetId(args) PROVE UNCHANGED <<focus, freed>>
    BY <1>1, <1>9 DEF SetId, IdForbidden
  <1>10. ASSUME NEW s \in Signatures, UniqueIdDisk(s) PROVE UNCHANGED <<focus, freed>>
    BY <1>10 DEF UniqueIdDisk
  <1>11. CASE Inactive
    BY <1>1, <1>11 DEF Inactive
  <1>12. CASE SelectDiskShow \/ SelectPartitionShow \/ SelectVolumeShow \/ UniqueIdShow \/ Rescan
    BY <1>1, <1>12
    DEF SelectDiskShow, SelectPartitionShow, SelectVolumeShow, UniqueIdShow, Rescan
  <1>13. CASE UNCHANGED vars
    BY <1>13 DEF vars, focus
  <1> QED BY <1>3, <1>4, <1>5, <1>6, <1>7, <1>8, <1>9, <1>10, <1>11, <1>12, <1>13 DEF Next

(* The session implements Focus: at any time at most one disk, one of its   *)
(* partitions and one live volume have the focus (ImplementsFocus).         *)
THEOREM SessionImplementsFocus == Spec => ImplementsFocus
  <1>1. Init => F!Init
    BY ListType DEF Init, F!Init
  <1> QED BY <1>1, StepOfFocus, TypeCorrect, PTL DEF Spec, ImplementsFocus, F!Spec

(* The partition in focus is always one of the disk in focus, whatever the  *)
(* order of the commands (PartitionOnDisk).                                 *)
THEOREM PartitionStaysOnDisk == Spec => []PartitionOnDisk
  <1>1. Init => PartitionOnDisk
    BY DEF Init, PartitionOnDisk
  <1>2. PartitionOnDisk /\ [F!Next]_(F!focusVars) => PartitionOnDisk'
    BY DEF PartitionOnDisk, F!Next, F!focusVars, F!FocusDisk, F!LoseDisk,
           F!FocusPartition, F!FocusVolume, F!ForgetVolume
  <1> QED BY <1>1, <1>2, StepOfFocus, TypeCorrect, PTL DEF Spec

(* CurrentVolume never dangles: no command focuses a freed volume, and the  *)
(* volume in focus is not freed under it (VolumeAlive).                     *)
THEOREM VolumeStaysAlive == Spec => []VolumeAlive
  <1>1. Init => VolumeAlive
    BY DEF Init, VolumeAlive
  <1>2. TypeOK /\ VolumeAlive /\ [Next]_vars => VolumeAlive'
    <2> SUFFICES ASSUME TypeOK, VolumeAlive, [Next]_vars PROVE VolumeAlive'
      OBVIOUS
    <2>1. ASSUME NEW n \in Typed, SelectVolumeNumber(n) PROVE VolumeAlive'
      BY <2>1 DEF SelectVolumeNumber, VolumeFound, VolumeAlive, NotFound, focus
    <2>2. ASSUME NEW v \in Volume, RemoveVolume(v) PROVE VolumeAlive'
      BY <2>2, ListType DEF RemoveVolume, VolumeAlive, TypeOK, SelectionWithout
    <2>3. CASE UNCHANGED <<CurrentVolume, freed>>
      BY <2>3 DEF VolumeAlive
    <2>4. ASSUME NEW cmd, NEW ok, NEW said, Report(cmd, ok, said)
          PROVE  UNCHANGED <<CurrentVolume, freed>>
      BY <2>4 DEF Report, focus
    <2>5. CASE ~ \E n \in Typed : SelectVolumeNumber(n)
      <3>1. CASE ~ \E v \in Volume : RemoveVolume(v)
        BY <2>3, <2>4, <2>5, <3>1
        DEF Next, vars, SelectDiskShow, SelectDiskSystem, SelectDiskNext,
            SelectPartitionShow, SelectVolumeShow, UniqueIdShow, SelectDiskNumber,
            SelectPartitionNumber, SetId, UniqueIdDisk, Inactive, Rescan, focus, NotFound, AtLastDisk, IdForbidden
      <3> QED BY <2>2, <3>1
    <2> QED BY <2>1, <2>5
  <1> QED BY <1>1, <1>2, TypeCorrect, PTL DEF Spec

-----------------------------------------------------------------------------
(* The only actions that edit an entry or a disk are setid, inactive and    *)
(* uniqueid; every other action leaves all of it alone.                     *)
LEMMA EditingActions ==
  ASSUME [Next]_vars
  PROVE  \/ UNCHANGED <<PartitionType, BootIndicator, Signature, Dirty>>
         \/ \E args \in IdArgs : SetId(args)
         \/ \E s \in Signatures : UniqueIdDisk(s)
         \/ Inactive
  <1>1. ASSUME NEW cmd, NEW ok, NEW said, Report(cmd, ok, said)
        PROVE  UNCHANGED <<PartitionType, BootIndicator, Signature, Dirty>>
    BY <1>1 DEF Report, entries
  <1>2. CASE SelectDiskShow \/ SelectPartitionShow \/ SelectVolumeShow \/ UniqueIdShow \/ Rescan
    BY <1>1, <1>2
    DEF SelectDiskShow, SelectPartitionShow, SelectVolumeShow, UniqueIdShow, Rescan
  <1>3. CASE SelectDiskSystem \/ SelectDiskNext
    BY <1>1, <1>3 DEF SelectDiskSystem, SelectDiskNext, entries, AtLastDisk
  <1>4. ASSUME NEW n \in Typed,
               SelectDiskNumber(n) \/ SelectPartitionNumber(n) \/ SelectVolumeNumber(n)
        PROVE  UNCHANGED <<PartitionType, BootIndicator, Signature, Dirty>>
    BY <1>4 DEF SelectDiskNumber, SelectPartitionNumber, SelectVolumeNumber, entries, NotFound, focus
  <1>5. ASSUME NEW v \in Volume, RemoveVolume(v)
        PROVE  UNCHANGED <<PartitionType, BootIndicator, Signature, Dirty>>
    BY <1>5 DEF RemoveVolume, entries, SelectionWithout
  <1> QED BY <1>2, <1>3, <1>4, <1>5 DEF Next, vars

(* An edit touches the partition in focus, and marks the disk it belongs to *)
(* (EditsStayOnFocus).                                                      *)
THEOREM EditsOnlyTouchFocus == Spec => EditsStayOnFocus
  <1>1. TypeOK /\ PartitionOnDisk /\ [Next]_vars => [EditOnFocus]_vars
    <2> SUFFICES ASSUME TypeOK, PartitionOnDisk, [Next]_vars PROVE EditOnFocus
      OBVIOUS
    <2>1. CASE UNCHANGED <<PartitionType, BootIndicator, Signature, Dirty>>
      BY <2>1 DEF EditOnFocus
    <2>2. ASSUME NEW args \in IdArgs, SetId(args),
                 ~ UNCHANGED <<PartitionType, BootIndicator, Signature, Dirty>>
          PROVE  EditOnFocus
      <3>1. CurrentPartition # NULL
        BY <2>2 DEF SetId, Report, entries, IdForbidden
      <3>2. /\ UNCHANGED <<BootIndicator, Signature>>
            /\ Dirty' = [Dirty EXCEPT ![CurrentDisk] = TRUE]
            /\ \E t \in TypeByte \ {LdmType} :
                 PartitionType' = [PartitionType EXCEPT ![CurrentPartition] = t]
        BY <2>2 DEF SetId, Report, entries, IdForbidden
      <3> QED BY <3>1, <3>2 DEF TypeOK, PartitionOnDisk, EditOnFocus
    <2>3. ASSUME NEW s \in Signatures, UniqueIdDisk(s) PROVE EditOnFocus
      BY <2>3 DEF UniqueIdDisk, TypeOK, EditOnFocus
    <2>4. CASE Inactive /\ ~ UNCHANGED <<PartitionType, BootIndicator, Signature, Dirty>>
      <3>1. /\ CurrentPartition # NULL
            /\ UNCHANGED <<PartitionType, Signature>>
            /\ BootIndicator' = [BootIndicator EXCEPT ![CurrentPartition] = FALSE]
            /\ \E flags : /\ flags = [[Dirty EXCEPT ![CurrentDisk] = TRUE]
                                       EXCEPT ![CurrentDisk] = FALSE]
                          /\ Dirty' = [flags EXCEPT ![CurrentDisk] = FALSE]
        BY <2>4 DEF Inactive, Report, entries, UpdateDiskLayout
      <3> QED BY <3>1 DEF TypeOK, PartitionOnDisk, EditOnFocus
    <2> QED BY <2>1, <2>2, <2>3, <2>4, EditingActions
  <1> QED BY <1>1, TypeCorrect, PartitionStaysOnDisk, PTL DEF Spec, EditsStayOnFocus

-----------------------------------------------------------------------------
(* The disks seen since "select disk system" are the first k of the list,   *)
(* and the last of them has the focus, or all have been seen.               *)
Prefix(k) == {DiskList[i] : i \in 1 .. k}
SeenPrefix ==
  visited # {} =>
    \E k \in 1 .. Len(DiskList) :
      /\ visited = Prefix(k)
      /\ CurrentDisk = DiskList[k] \/ CurrentDisk = NULL

LEMMA PrefixStep ==
  /\ Prefix(Len(DiskList)) = Listed
  /\ DiskList # <<>> => Prefix(1) = {DiskList[1]}
  /\ \A k \in 1 .. Len(DiskList) - 1 : Prefix(k + 1) = Prefix(k) \cup {DiskList[k + 1]}
  <1>1. Prefix(Len(DiskList)) = Listed
    BY ListType DEF Prefix, Listed
  <1>2. DiskList # <<>> => Prefix(1) = {DiskList[1]}
    BY DEF Prefix
  <1>3. ASSUME NEW k \in 1 .. Len(DiskList) - 1
        PROVE  Prefix(k + 1) = Prefix(k) \cup {DiskList[k + 1]}
    <2>1. 1 .. k + 1 = (1 .. k) \cup {k + 1}
      BY ListType
    <2> QED BY <2>1 DEF Prefix
  <1> QED BY <1>1, <1>2, <1>3

(* When the enumeration that "select disk system" began ends with no disk   *)
(* in focus, every disk of the list has been in focus (EnumerationComplete).*)
THEOREM NextVisitsEveryDisk == Spec => EnumerationComplete
  <1>1. Init => SeenPrefix
    BY DEF Init, SeenPrefix
  <1>2. SeenPrefix /\ TypeOK /\ [Next]_vars => SeenPrefix' /\ [EnumerationEnds]_vars
    <2> SUFFICES ASSUME SeenPrefix, TypeOK, [Next]_vars PROVE SeenPrefix' /\ EnumerationEnds
      OBVIOUS
    <2>1. CASE UNCHANGED <<CurrentDisk, visited>>
      BY <2>1 DEF SeenPrefix, EnumerationEnds
    <2>2. ASSUME NEW cmd, NEW ok, NEW said, Report(cmd, ok, said)
          PROVE  UNCHANGED <<CurrentDisk, visited>>
      BY <2>2 DEF Report, focus
    <2>3. CASE SelectDiskSystem
      <3>1. CASE ~ UNCHANGED <<CurrentDisk, visited>>
        <4>1. /\ DiskList # <<>>
              /\ CurrentDisk' = DiskList[1] /\ visited' = {DiskList[1]}
          BY <2>2, <2>3, <3>1 DEF SelectDiskSystem, GiveFocus
        <4>2. 1 \in 1 .. Len(DiskList) /\ DiskList[1] # NULL
          BY <4>1, ListType
        <4> QED BY <4>1, <4>2, PrefixStep DEF SeenPrefix, EnumerationEnds
      <3> QED BY <2>1, <3>1
    <2>4. CASE SelectDiskNext
      <3>1. CASE CurrentDisk = NULL
        <4>0. \A i \in 1 .. Len(DiskList) - 1 : DiskList[i] # NULL
          BY ListType
        <4>1. UNCHANGED <<CurrentDisk, visited>>
          BY <2>4, <3>1, <4>0 DEF SelectDiskNext, GiveFocus, AtLastDisk
        <4> QED BY <4>1, <2>1
      <3>2. CASE /\ DiskList # <<>> /\ CurrentDisk = DiskList[Len(DiskList)]
                 /\ CurrentDisk' = NULL /\ UNCHANGED visited
        <4>1. ASSUME visited # {} PROVE visited = Listed
          <5>1. PICK k \in 1 .. Len(DiskList) :
                  visited = Prefix(k) /\ CurrentDisk = DiskList[k]
            BY <3>2, <4>1, ListType DEF SeenPrefix
          <5>2. k = Len(DiskList)
            BY <3>2, <5>1, ListType, ListAssumption
          <5> QED BY <5>1, <5>2, PrefixStep
        <4> QED BY <3>2, <4>1 DEF SeenPrefix, EnumerationEnds
      <3>3. ASSUME NEW i \in 1 .. Len(DiskList) - 1,
                   CurrentDisk = DiskList[i], CurrentDisk' = DiskList[i + 1],
                   visited' = IF visited = {} THEN {} ELSE visited \cup {DiskList[i + 1]}
            PROVE  SeenPrefix' /\ EnumerationEnds
        <4>1. i \in DOMAIN DiskList /\ i + 1 \in 1 .. Len(DiskList)
              /\ DiskList[i] # NULL /\ DiskList[i + 1] # NULL
          BY ListType
        <4>2. ASSUME visited # {} PROVE visited' = Prefix(i + 1)
          <5>1. PICK k \in 1 .. Len(DiskList) :
                  visited = Prefix(k) /\ CurrentDisk = DiskList[k]
            BY <3>3, <4>1, <4>2 DEF SeenPrefix, EnumerationEnds
          <5>2. k = i
            BY <3>3, <4>1, <5>1, ListType, ListAssumption
          <5> QED BY <3>3, <4>2, <5>1, <5>2, PrefixStep
        <4> QED BY <3>3, <4>1, <4>2 DEF SeenPrefix, EnumerationEnds
      <3> QED BY <2>4, <3>1, <3>2, <3>3 DEF SelectDiskNext, GiveFocus, AtLastDisk
    <2>5. ASSUME NEW n \in Typed, SelectDiskNumber(n) PROVE SeenPrefix' /\ EnumerationEnds
      <3>1. \/ UNCHANGED <<CurrentDisk, visited>>
            \/ visited' = {} /\ CurrentDisk' \in Listed
        BY <2>5, ListType DEF SelectDiskNumber, GiveFocus, NotFound, focus
      <3> QED BY <2>1, <3>1, ListType DEF SeenPrefix, EnumerationEnds
    <2>6. CASE ~ (SelectDiskSystem \/ SelectDiskNext \/ \E n \in Typed : SelectDiskNumber(n))
      <3>1. UNCHANGED <<CurrentDisk, visited>>
        BY <2>2, <2>6
        DEF Next, vars, SelectDiskShow, SelectPartitionShow, SelectVolumeShow, UniqueIdShow,
            SelectPartitionNumber, SelectVolumeNumber, RemoveVolume, SetId, UniqueIdDisk,
            Inactive, Rescan, focus, NotFound, SelectionWithout, IdForbidden
      <3> QED BY <2>1, <3>1
    <2> QED BY <2>3, <2>4, <2>5, <2>6
  <1> QED BY <1>1, <1>2, TypeCorrect, PTL DEF Spec, EnumerationComplete

-----------------------------------------------------------------------------
(* A command that fails leaves the three selections alone, except for the   *)
(* end of the enumeration, which drops disk and partition (FailureKeepsFocus).*)
THEOREM FailuresKeepFocus == Spec => FailureKeepsFocus
  <1>1. [Next]_vars => [FailKeepsFocus]_vars
    <2> SUFFICES ASSUME Next, ~ reply'.ok
                 PROVE  \/ UNCHANGED focus
                        \/ reply'.cmd = "next" /\ focus' = <<NULL, NULL, CurrentVolume>>
      BY DEF FailKeepsFocus
    <2>1. ASSUME NEW cmd, NEW asked, NEW said PROVE ~ Answer(cmd, TRUE, asked, said)
      BY DEF Answer
    <2>2. ASSUME NEW cmd, NEW ok, NEW said, Report(cmd, ok, said) PROVE UNCHANGED focus
      BY <2>2 DEF Report
    <2>3. CASE SelectDiskNext
      BY <2>1, <2>3 DEF SelectDiskNext, GiveFocus, Answer, AtLastDisk, focus
    <2>4. ASSUME NEW n \in Typed,
                 SelectDiskNumber(n) \/ SelectPartitionNumber(n) \/ SelectVolumeNumber(n)
          PROVE  UNCHANGED focus
      BY <2>1, <2>4 DEF SelectDiskNumber, SelectPartitionNumber, SelectVolumeNumber, focus, NotFound
    <2>5. CASE ~ SelectDiskNext /\ ~ \E n \in Typed :
                 SelectDiskNumber(n) \/ SelectPartitionNumber(n) \/ SelectVolumeNumber(n)
      BY <2>1, <2>2, <2>5
      DEF Next, SelectDiskShow, SelectDiskSystem, SelectPartitionShow, SelectVolumeShow,
          UniqueIdShow, RemoveVolume, SetId, UniqueIdDisk, Inactive, Rescan, SelectionWithout, IdForbidden
    <2> QED BY <2>3, <2>4, <2>5
  <1> QED BY <1>1, PTL DEF Spec, FailureKeepsFocus

-----------------------------------------------------------------------------
(* Counting through a list gives the entries that count the numbers from 1  *)
(* on, each to one of them: both traversals are counts of this kind.        *)
Rank(S, i) == Cardinality({j \in S : j <= i})

LEMMA RankIsOnto ==
  ASSUME NEW n \in Nat, NEW S \in SUBSET (1 .. n)
  PROVE  /\ IsFiniteSet(S) /\ Cardinality(S) \in 0 .. n
         /\ \A i \in S : Rank(S, i) \in 1 .. Cardinality(S)
         /\ \A i, j \in S : Rank(S, i) = Rank(S, j) => i = j
         /\ \A k \in 1 .. Cardinality(S) : \E i \in S : Rank(S, i) = k
  <1>1. IsFiniteSet(S) /\ Cardinality(S) \in 0 .. n
    <2>1. IsFiniteSet(1 .. n) /\ Cardinality(1 .. n) = n
      BY FS_Interval
    <2>2. IsFiniteSet(S) /\ Cardinality(S) <= n
      BY <2>1, FS_Subset
    <2>3. Cardinality(S) \in Nat
      BY <2>2, FS_CardinalityType
    <2> QED BY <2>2, <2>3
  <1>2. ASSUME NEW i \in S
        PROVE  IsFiniteSet({j \in S : j <= i}) /\ Rank(S, i) \in 1 .. Cardinality(S)
    <2> DEFINE A == {j \in S : j <= i}
    <2>1. A \in SUBSET S /\ i \in A
      OBVIOUS
    <2> HIDE DEF A
    <2>2. IsFiniteSet(A) /\ Cardinality(A) <= Cardinality(S)
      BY <1>1, <2>1, FS_Subset
    <2>3. Cardinality(A) \in Nat
      BY <2>2, FS_CardinalityType
    <2>4. Cardinality(A) # 0
      BY <2>1, <2>2, FS_EmptySet
    <2>5. Cardinality(A) \in 1 .. Cardinality(S)
      BY <1>1, <2>2, <2>3, <2>4
    <2> QED BY <2>2, <2>5 DEF Rank, A
  <1>3. ASSUME NEW i \in S, NEW j \in S, i < j PROVE Rank(S, i) # Rank(S, j)
    <2> DEFINE A == {x \in S : x <= i}
               B == {x \in S : x <= j}
    <2>1. A \in SUBSET B /\ A # B
      <3>1. j \in B /\ j \notin A
        BY <1>3
      <3>2. ASSUME NEW x \in A PROVE x \in B
        <4>1. x \in S /\ x \in Int /\ i \in Int /\ j \in Int /\ x <= i
          OBVIOUS
        <4> QED BY <1>3, <4>1
      <3> QED BY <3>1, <3>2
    <2>2. IsFiniteSet(B)
      BY <1>2
    <2>4. Rank(S, i) = Cardinality(A) /\ Rank(S, j) = Cardinality(B)
      BY DEF Rank
    <2> HIDE DEF A, B
    <2>3. Cardinality(B) # Cardinality(A)
      BY <2>1, <2>2, FS_Subset
    <2> QED BY <2>3, <2>4
  <1>4. ASSUME NEW i \in S, NEW j \in S, Rank(S, i) = Rank(S, j) PROVE i = j
    <2>1. ~ (i < j) /\ ~ (j < i)
      BY <1>3, <1>4
    <2> QED BY <2>1
  <1>5. \A k \in 1 .. Cardinality(S) : \E i \in S : Rank(S, i) = k
    <2> DEFINE c == Cardinality(S)
               f == [i \in S |-> Rank(S, i)]
    <2>1. c \in Nat /\ IsFiniteSet(1 .. c) /\ Cardinality(1 .. c) = c
      BY <1>1, FS_Interval
    <2>2. f \in [S -> 1 .. c]
      <3>1. ASSUME NEW i \in S PROVE Rank(S, i) \in 1 .. c
        BY <1>2, Zenon
      <3> QED BY <3>1
    <2>3. f \in Injection(S, 1 .. c)
      <3>1. \A i, j \in S : f[i] = f[j] => i = j
        BY <1>4
      <3>2. DOMAIN f = S
        OBVIOUS
      <3> HIDE DEF f
      <3> QED BY <2>2, <3>1, <3>2 DEF Injection, IsInjective
    <2>4. f \in Surjection(S, 1 .. c)
      <3> HIDE DEF f, c
      <3>1. Cardinality(S) = Cardinality(1 .. c) <=> f \in Surjection(S, 1 .. c)
        BY <2>1, <2>3, FS_Injection
      <3> QED BY <2>1, <3>1 DEF c
    <2> QED BY <2>4 DEF Surjection
  <1>6. \A i \in S : Rank(S, i) \in 1 .. Cardinality(S)
    BY <1>2, Zenon
  <1> QED BY <1>1, <1>4, <1>5, <1>6

(* Moved up by n, a set has as many members as before. *)
LEMMA ShiftKeepsCount ==
  ASSUME NEW n \in Nat, NEW S \in SUBSET Nat, IsFiniteSet(S)
  PROVE  /\ IsFiniteSet({n + j : j \in S})
         /\ Cardinality({n + j : j \in S}) = Cardinality(S)
  <1> DEFINE T == {n + j : j \in S}
             f == [j \in S |-> n + j]
  <1>1. f \in Bijection(S, T)
    <2>1. f \in [S -> T] /\ DOMAIN f = S
      OBVIOUS
    <2>2. ASSUME NEW i \in S, NEW j \in S, f[i] = f[j] PROVE i = j
      BY <2>2
    <2>3. \A t \in T : \E j \in S : f[j] = t
      OBVIOUS
    <2> HIDE DEF f, T
    <2> QED BY <2>1, <2>2, <2>3 DEF Bijection, Injection, IsInjective, Surjection
  <1>2. ExistsBijection(S, T)
    BY <1>1 DEF ExistsBijection
  <1> HIDE DEF T
  <1>3. IsFiniteSet(T) /\ Cardinality(T) = Cardinality(S)
    BY <1>2, FS_Bijection
  <1> QED BY <1>3 DEF T

(* The number that select partition counts up to for an entry in use is the *)
(* number of its row, and every row has an entry with its number.           *)
LEMMA RowsAreNumbered ==
  ASSUME NEW list \in Seq(Partition)
  PROVE  /\ IsFiniteSet(InUse(list)) /\ Cardinality(InUse(list)) \in 0 .. Len(list)
         /\ Rows(list) \in Seq(Partition) /\ Len(Rows(list)) = Cardinality(InUse(list))
         /\ \A i \in InUse(list) : /\ PartNumber(list, i) \in 1 .. Cardinality(InUse(list))
                                   /\ Rows(list)[PartNumber(list, i)] = list[i]
         /\ \A k \in 1 .. Cardinality(InUse(list)) :
              \E i \in InUse(list) : PartNumber(list, i) = k
  <1> DEFINE U == InUse(list)
             c == Cardinality(U)
  <1>1. U \in SUBSET (1 .. Len(list)) /\ Len(list) \in Nat
    BY DEF InUse
  <1>2. ASSUME NEW i \in U PROVE PartNumber(list, i) = Rank(U, i)
    <2>1. {j \in 1 .. i : PartitionType[list[j]] # 0} = {j \in U : j <= i}
      BY <1>1 DEF InUse
    <2> QED BY <2>1 DEF PartNumber, Rank
  <1> HIDE DEF U
  <1>3. /\ IsFiniteSet(U) /\ c \in 0 .. Len(list)
        /\ \A i \in U : Rank(U, i) \in 1 .. c
        /\ \A i, j \in U : Rank(U, i) = Rank(U, j) => i = j
        /\ \A k \in 1 .. c : \E i \in U : Rank(U, i) = k
    BY <1>1, RankIsOnto
  <1>4. ASSUME NEW k \in 1 .. c
        PROVE  InRow(list, k) \in U /\ Rank(U, InRow(list, k)) = k
    <2>1. InRow(list, k) = CHOOSE i \in U : Rank(U, i) = k
      BY DEF InRow, U, Rank
    <2>2. \E i \in U : Rank(U, i) = k
      BY <1>3
    <2> QED BY <2>1, <2>2, Zenon
  <1>5. Rows(list) = [k \in 1 .. c |-> list[InRow(list, k)]]
    BY DEF Rows, U
  <1>6. Rows(list) \in Seq(Partition) /\ Len(Rows(list)) = c
    <2>1. ASSUME NEW k \in 1 .. c PROVE list[InRow(list, k)] \in Partition
      <3>1. InRow(list, k) \in U
        BY <1>4, Zenon
      <3>2. \A i \in U : list[i] \in Partition
        BY <1>1
      <3> QED BY <3>1, <3>2, Zenon
    <2>2. c \in Nat
      BY <1>1, <1>3
    <2> HIDE DEF c
    <2> QED BY <1>5, <2>1, <2>2
  <1>7. ASSUME NEW i \in U
        PROVE  PartNumber(list, i) \in 1 .. c /\ Rows(list)[PartNumber(list, i)] = list[i]
    <2>1. Rank(U, i) \in 1 .. c
      BY <1>3
    <2>2. InRow(list, Rank(U, i)) = i
      BY <1>3, <1>4, <2>1
    <2>3. Rows(list)[Rank(U, i)] = list[i]
      BY <1>5, <2>1, <2>2
    <2> QED BY <1>2, <2>1, <2>3
  <1>8. \A k \in 1 .. c : \E i \in U : PartNumber(list, i) = k
    BY <1>2, <1>3
  <1> QED BY <1>3, <1>6, <1>7, <1>8 DEF U

(* Behind the primaries the count goes on from the number of those in use. *)
LEMMA LogicalsFollow ==
  ASSUME NEW P \in Seq(Partition), NEW L \in Seq(Partition)
  PROVE  /\ \A i \in 1 .. Len(P) : PartNumber(P \o L, i) = PartNumber(P, i)
         /\ \A j \in 1 .. Len(L) :
              PartNumber(P \o L, Len(P) + j) = Cardinality(InUse(P)) + PartNumber(L, j)
  <1> DEFINE list == P \o L
             n == Len(P)
  <1>1. /\ n \in Nat /\ Len(L) \in Nat
        /\ \A i \in 1 .. n : list[i] = P[i]
        /\ \A j \in 1 .. Len(L) : list[n + j] = L[j]
    OBVIOUS
  <1> HIDE DEF list
  <1>2. ASSUME NEW i \in 1 .. n PROVE PartNumber(list, i) = PartNumber(P, i)
    <2>1. {j \in 1 .. i : PartitionType[list[j]] # 0}
            = {j \in 1 .. i : PartitionType[P[j]] # 0}
      BY <1>1
    <2> QED BY <2>1 DEF PartNumber
  <1>3. ASSUME NEW j \in 1 .. Len(L)
        PROVE  PartNumber(list, n + j) = Cardinality(InUse(P)) + PartNumber(L, j)
    <2> DEFINE all == {x \in 1 .. n + j : PartitionType[list[x]] # 0}
               low == InUse(P)
               own == {x \in 1 .. j : PartitionType[L[x]] # 0}
               up == {n + x : x \in own}
    <2>1. low \in SUBSET (1 .. n) /\ own \in SUBSET (1 .. j) /\ j \in Nat
      BY DEF InUse
    <2>2. all = low \cup up
      <3>1. ASSUME NEW x \in all PROVE x \in low \cup up
        <4>1. CASE x <= n
          BY <1>1, <4>1 DEF InUse
        <4>2. CASE x > n
          <5>1. x - n \in 1 .. j /\ x = n + (x - n) /\ list[n + (x - n)] = L[x - n]
            BY <1>1, <4>2
          <5>2. x - n \in own
            BY <5>1
          <5> QED BY <5>1, <5>2
        <4> QED BY <1>1, <4>1, <4>2
      <3>2. ASSUME NEW x \in low PROVE x \in all
        BY <1>1 DEF InUse
      <3>3. ASSUME NEW x \in own PROVE n + x \in all
        BY <1>1
      <3> QED BY <3>1, <3>2, <3>3
    <2>3. low \cap up = {}
      BY <1>1, <2>1
    <2>4. IsFiniteSet(low) /\ IsFiniteSet(own)
      <3> HIDE DEF low, own
      <3> QED BY <1>1, <2>1, RankIsOnto
    <2>5. IsFiniteSet(up) /\ Cardinality(up) = Cardinality(own)
      <3>1. own \in SUBSET Nat /\ n \in Nat
        BY <1>1, <2>1
      <3> HIDE DEF own, n
      <3> QED BY <2>4, <3>1, ShiftKeepsCount, Zenon
    <2> HIDE DEF all, low, own, up
    <2>6. Cardinality(all) = Cardinality(low) + Cardinality(own)
      <3>1. Cardinality({}) = 0
        BY FS_EmptySet
      <3>2. Cardinality(low \cup up)
              = Cardinality(low) + Cardinality(up) - Cardinality(low \cap up)
        BY <2>4, <2>5, FS_Union
      <3>3. Cardinality(low) \in Nat /\ Cardinality(own) \in Nat
        BY <2>4, FS_CardinalityType
      <3>4. Cardinality(all) = Cardinality(low) + Cardinality(own) - 0
        BY <2>2, <2>3, <2>5, <3>1, <3>2, Zenon
      <3> QED BY <3>3, <3>4
    <2> QED BY <2>6 DEF PartNumber, all, low, own
  <1> QED BY <1>2, <1>3 DEF list

(* The numbers of select partition and the rows of list partition belong    *)
(* together on every disk, whatever types its entries have.                 *)
LEMMA NumbersOfDisk ==
  ASSUME NEW P \in Seq(Partition), NEW L \in Seq(Partition)
  PROVE  LET rows == Rows(P) \o Rows(L)
             list == P \o L
         IN  /\ \A k \in DOMAIN rows, i \in DOMAIN list :
                  PartitionFound(list, i, k) => list[i] = rows[k]
             /\ {k \in 0 .. Len(list) + 1 : \E i \in DOMAIN list : PartitionFound(list, i, k)}
                  = DOMAIN rows
  <1> DEFINE list == P \o L
             rows == Rows(P) \o Rows(L)
             n == Len(P)
             p == Cardinality(InUse(P))
             l == Cardinality(InUse(L))
  <1>1. /\ p \in 0 .. n /\ Rows(P) \in Seq(Partition) /\ Len(Rows(P)) = p
        /\ l \in 0 .. Len(L) /\ Rows(L) \in Seq(Partition) /\ Len(Rows(L)) = l
    BY RowsAreNumbered
  <1>2. /\ n \in Nat /\ Len(L) \in Nat /\ Len(list) = n + Len(L)
        /\ DOMAIN list = 1 .. n + Len(L)
        /\ \A i \in 1 .. n : list[i] = P[i]
        /\ \A j \in 1 .. Len(L) : list[n + j] = L[j]
    OBVIOUS
  <1>3. /\ DOMAIN rows = 1 .. p + l
        /\ \A k \in 1 .. p : rows[k] = Rows(P)[k]
        /\ \A k \in 1 .. l : rows[p + k] = Rows(L)[k]
    <2>1. ASSUME NEW A \in Seq(Partition), NEW B \in Seq(Partition)
          PROVE  /\ DOMAIN (A \o B) = 1 .. Len(A) + Len(B)
                 /\ \A k \in 1 .. Len(A) : (A \o B)[k] = A[k]
                 /\ \A k \in 1 .. Len(B) : (A \o B)[Len(A) + k] = B[k]
      OBVIOUS
    <2> HIDE DEF p, l
    <2> QED BY <1>1, <2>1
  <1>4. ASSUME NEW i \in DOMAIN list, PartitionType[list[i]] # 0
        PROVE  /\ PartNumber(list, i) \in 1 .. p + l
               /\ rows[PartNumber(list, i)] = list[i]
    <2>1. CASE i \in 1 .. n
      <3>1. i \in InUse(P) /\ list[i] = P[i]
        BY <1>2, <1>4, <2>1 DEF InUse
      <3>2. PartNumber(P, i) \in 1 .. p /\ Rows(P)[PartNumber(P, i)] = P[i]
        BY <3>1, RowsAreNumbered
      <3>3. PartNumber(list, i) = PartNumber(P, i)
        BY <2>1, LogicalsFollow
      <3> HIDE DEF list, rows, p, l
      <3> QED BY <1>1, <1>3, <3>1, <3>2, <3>3
    <2>2. CASE i \notin 1 .. n
      <3>1. PICK j \in 1 .. Len(L) : i = n + j
        <4>1. i - n \in 1 .. Len(L) /\ i = n + (i - n)
          BY <1>2, <2>2
        <4> QED BY <4>1
      <3>2. j \in InUse(L) /\ list[i] = L[j]
        BY <1>2, <1>4, <3>1 DEF InUse
      <3>3. PartNumber(L, j) \in 1 .. l /\ Rows(L)[PartNumber(L, j)] = L[j]
        BY <3>2, RowsAreNumbered
      <3>4. PartNumber(list, i) = p + PartNumber(L, j)
        BY <3>1, LogicalsFollow
      <3> HIDE DEF list, rows, p, l
      <3> QED BY <1>1, <1>3, <3>2, <3>3, <3>4
    <2> QED BY <2>1, <2>2
  <1>5. ASSUME NEW k \in 1 .. p + l
        PROVE  \E i \in DOMAIN list : PartitionFound(list, i, k)
    <2>1. CASE k \in 1 .. p
      <3>1. PICK i \in InUse(P) : PartNumber(P, i) = k
        BY <2>1, RowsAreNumbered
      <3>2. i \in 1 .. n /\ PartitionType[P[i]] # 0
        BY DEF InUse
      <3>3. PartNumber(list, i) = k
        BY <3>1, <3>2, LogicalsFollow
      <3>4. i \in DOMAIN list /\ list[i] = P[i]
        BY <1>2, <3>2
      <3> HIDE DEF list
      <3> QED BY <3>2, <3>3, <3>4 DEF PartitionFound
    <2>2. CASE k \notin 1 .. p
      <3>1. k - p \in 1 .. l
        BY <1>1, <2>2
      <3>2. PICK j \in InUse(L) : PartNumber(L, j) = k - p
        BY <3>1, RowsAreNumbered
      <3>3. j \in 1 .. Len(L) /\ PartitionType[L[j]] # 0
        BY DEF InUse
      <3>4. PartNumber(list, n + j) = p + (k - p)
        BY <3>2, <3>3, LogicalsFollow
      <3>5. n + j \in DOMAIN list /\ list[n + j] = L[j]
        BY <1>2, <3>3
      <3>6. p + (k - p) = k
        BY <1>1
      <3> HIDE DEF list
      <3> QED BY <3>3, <3>4, <3>5, <3>6 DEF PartitionFound
    <2> QED BY <2>1, <2>2
  <1> HIDE DEF list, rows, p, l
  <1>6. ASSUME NEW k, NEW i \in DOMAIN list, PartitionFound(list, i, k)
        PROVE  k \in DOMAIN rows /\ list[i] = rows[k]
    BY <1>3, <1>4, <1>6 DEF PartitionFound
  <1>7. {k \in 0 .. Len(list) + 1 : \E i \in DOMAIN list : PartitionFound(list, i, k)}
          = DOMAIN rows
    <2>1. DOMAIN rows \subseteq 0 .. Len(list) + 1
      BY <1>1, <1>2, <1>3
    <2>2. \A k \in DOMAIN rows : \E i \in DOMAIN list : PartitionFound(list, i, k)
      BY <1>3, <1>5
    <2>3. \A k : (\E i \in DOMAIN list : PartitionFound(list, i, k)) => k \in DOMAIN rows
      BY <1>6
    <2> QED BY <2>1, <2>2, <2>3, Zenon
  <1> QED BY <1>6, <1>7 DEF list, rows

(* Two loops in two files count the entries, and whatever setid, clean or   *)
(* rescan made of them in between, for lists of every length: the number    *)
(* that list partition prints is the one number that selects that row, and  *)
(* no other that the comparison may meet selects anything (list.c:96-205,   *)
(* select.c:200-215).                                                       *)
THEOREM ListedNumbersSelect == Spec => []NumberingAgrees
  <1>1. NumberingAgrees
    <2>1. ASSUME NEW d \in Disk PROVE Primary[d] \in Seq(Partition) /\ Logical[d] \in Seq(Partition)
      BY ListAssumption
    <2> QED BY <2>1, NumbersOfDisk DEF NumberingAgrees, ListPartition, Entries
  <1> QED BY <1>1, PTL

-----------------------------------------------------------------------------
(* When every setid has an id= argument, the partition in focus is always   *)
(* one that list partition shows: the missing argument of setid.c:107 is    *)
(* the only way to type 0 (FocusIsListed).                                  *)
THEOREM IdGivenKeepsListed ==
  ASSUME \A args \in IdArgs : \E i \in DOMAIN args : args[i] # NotId
  PROVE  Spec => []FocusIsListed
  <1>1. Init => FocusIsListed
    BY DEF Init, FocusIsListed
  <1>2. TypeOK /\ FocusIsListed /\ [Next]_vars => FocusIsListed'
    <2> SUFFICES ASSUME TypeOK, FocusIsListed, [Next]_vars PROVE FocusIsListed'
      OBVIOUS
    <2>1. ASSUME NEW cmd, NEW ok, NEW said, Report(cmd, ok, said)
          PROVE  UNCHANGED <<CurrentPartition, PartitionType>>
      BY <2>1 DEF Report, focus, entries
    <2>2. CASE UNCHANGED <<CurrentPartition, PartitionType>>
      BY <2>2 DEF FocusIsListed
    <2>3. CASE CurrentPartition' = NULL
      BY <2>3 DEF FocusIsListed
    <2>4. ASSUME NEW n \in Typed, SelectPartitionNumber(n) PROVE FocusIsListed'
      BY <2>2, <2>4
      DEF SelectPartitionNumber, PartitionFound, NotFound, focus, entries, FocusIsListed
    <2>5. ASSUME NEW args \in IdArgs, SetId(args) PROVE FocusIsListed'
      <3>1. CASE Report("setid", FALSE, NULL)
        BY <2>1, <2>2, <3>1
      <3>2. ASSUME NEW t \in TypeByte, IdOf(args, t), ~ IdForbidden(args),
                   PartitionType' = [PartitionType EXCEPT ![CurrentPartition] = t],
                   CurrentPartition' = CurrentPartition
            PROVE  FocusIsListed'
        <4>1. t # 0
          BY <3>2 DEF IdOf, IdForbidden, IdRefused
        <4> QED BY <3>2, <4>1, NullAssumption DEF FocusIsListed, TypeOK
      <3> QED BY <2>5, <3>1, <3>2 DEF SetId, focus
    <2>6. ASSUME NEW n \in Typed, SelectDiskNumber(n) \/ SelectVolumeNumber(n)
          PROVE  FocusIsListed'
      BY <2>2, <2>3, <2>6
      DEF SelectDiskNumber, SelectVolumeNumber, GiveFocus, NotFound, focus, entries
    <2>7. CASE SelectDiskSystem \/ SelectDiskNext
      BY <2>1, <2>2, <2>3, <2>7 DEF SelectDiskSystem, SelectDiskNext, GiveFocus
    <2>8. CASE \/ SelectDiskShow \/ SelectPartitionShow \/ SelectVolumeShow \/ UniqueIdShow
               \/ Rescan \/ Inactive \/ (\E s \in Signatures : UniqueIdDisk(s))
      BY <2>1, <2>2, <2>8
      DEF SelectDiskShow, SelectPartitionShow, SelectVolumeShow, UniqueIdShow, Rescan,
          Inactive, UniqueIdDisk, focus
    <2>9. CASE (\E v \in Volume : RemoveVolume(v)) \/ UNCHANGED vars
      BY <2>2, <2>9 DEF RemoveVolume, entries, vars
    <2> QED BY <2>4, <2>5, <2>6, <2>7, <2>8, <2>9 DEF Next
  <1> QED BY <1>1, <1>2, TypeCorrect, PTL DEF Spec

(* As long as every typed number fits an int and a long, select disk honours*)
(* all of them: the value that strtol cuts off and the errno it leaves      *)
(* behind are the only causes of a disk refused or taken for another        *)
(* (NumberIsHonoured, select.c:131).                                        *)
THEOREM FittingNumbersAreHonoured ==
  ASSUME \A n \in Typed : n <= LongMax /\ 2 * n < IntMod
  PROVE  Spec => []NumberIsHonoured
  <1> DEFINE Honoured == errno = "none" /\ NumberIsHonoured
  <1>1. ASSUME NEW n \in Typed
        PROVE  /\ ToInt(Saturated(n)) = n
               /\ (errno = "none" => ErrnoAfter(n) = "none" /\ ~ Refused(n))
    <2>1. n \in Nat /\ IntMod \in Nat \ {0} /\ LongMax \in Nat
      BY NumberAssumption
    <2>2. Saturated(n) = n
      BY <2>1 DEF Saturated
    <2>3. n % IntMod = n
      BY <2>1
    <2>4. ToInt(n) = n
      BY <2>1, <2>3 DEF ToInt
    <2>5. errno = "none" => ErrnoAfter(n) = "none"
      BY <2>1 DEF ErrnoAfter
    <2> QED BY <2>2, <2>4, <2>5 DEF Refused
  <1>2. Init => Honoured
    BY DEF Init, NumberIsHonoured
  <1>3. Honoured /\ [Next]_vars => Honoured'
    <2> SUFFICES ASSUME Honoured, [Next]_vars PROVE Honoured'
      OBVIOUS
    <2>1. ASSUME NEW cmd, NEW ok, NEW asked, NEW said, Answer(cmd, ok, asked, said),
                 cmd # "disk" \/ asked = NULL, UNCHANGED errno \/ errno' = "none"
          PROVE  Honoured'
      BY <2>1 DEF Answer, NumberIsHonoured
    <2>2. ASSUME NEW cmd, NEW ok, NEW said, Report(cmd, ok, said) PROVE Honoured'
      BY <2>1, <2>2 DEF Report
    <2>3. ASSUME NEW n \in Typed, SelectDiskNumber(n) PROVE Honoured'
      <3>1. errno' = "none" /\ ~ Refused(n) /\ ToInt(Saturated(n)) = n
        BY <1>1, <2>3 DEF SelectDiskNumber
      <3>2. \/ Answer("disk", TRUE, n, n)
            \/ /\ Answer("disk", FALSE, n, NULL)
               /\ \A i \in DOMAIN DiskList : DiskNumber[DiskList[i]] # n
        BY <2>3, <3>1 DEF SelectDiskNumber, NotFound
      <3> QED BY <3>1, <3>2 DEF Answer, NumberIsHonoured
    <2>4. ASSUME NEW n \in Typed, SelectPartitionNumber(n) \/ SelectVolumeNumber(n)
          PROVE  Honoured'
      <3>1. errno' = "none"
        BY <1>1, <2>4 DEF SelectPartitionNumber, SelectVolumeNumber
      <3> QED BY <2>1, <2>4, <3>1 DEF SelectPartitionNumber, SelectVolumeNumber, NotFound
    <2>5. CASE SelectDiskSystem \/ SelectDiskNext
      BY <2>1, <2>5 DEF SelectDiskSystem, SelectDiskNext
    <2>6. CASE SelectDiskShow \/ SelectPartitionShow \/ SelectVolumeShow \/ UniqueIdShow \/ Rescan
      BY <2>2, <2>6
      DEF SelectDiskShow, SelectPartitionShow, SelectVolumeShow, UniqueIdShow, Rescan
    <2>7. ASSUME NEW args \in IdArgs, SetId(args) PROVE Honoured'
      BY <2>1, <2>2, <2>7 DEF SetId
    <2>8. CASE Inactive
      BY <2>1, <2>2, <2>8 DEF Inactive
    <2>9. ASSUME NEW s \in Signatures, UniqueIdDisk(s) PROVE Honoured'
      BY <2>1, <2>9 DEF UniqueIdDisk
    <2>10. ASSUME NEW v \in Volume, RemoveVolume(v) PROVE Honoured'
      BY <2>1, <2>10 DEF RemoveVolume
    <2>11. CASE UNCHANGED vars
      BY <2>11 DEF vars, NumberIsHonoured
    <2> QED BY <2>3, <2>4, <2>5, <2>6, <2>7, <2>8, <2>9, <2>10, <2>11 DEF Next
  <1>4. Honoured => NumberIsHonoured
    OBVIOUS
  <1> QED BY <1>2, <1>3, <1>4, PTL DEF Spec
=============================================================================
