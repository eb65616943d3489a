---------------------------- MODULE DiskSession ----------------------------
(***************************************************************************)
(* The shared session of diskpart.h:186-194 (the disk and volume lists and *)
(* CurrentDisk, CurrentPartition, CurrentVolume) and every command that    *)
(* reads or changes it: select, setid, inactive, uniqueid, rescan, the     *)
(* numbering of list partition, and RemoveVolume.                          *)
(*                                                                         *)
(* A command uses the helper defined in its own source file when there is  *)
(* one (setid.c and uniqueid.c carry stubs of UpdateDiskLayout and         *)
(* WritePartitions) and the one of partlist.c otherwise (inactive.c).      *)
(* The lists are built outside of the code: CreatePartitionList and        *)
(* CreateVolumeList are empty, so their contents are constants.            *)
(***************************************************************************)
EXTENDS Integers, Sequences, FiniteSets

CONSTANTS
  Disk, Partition, Volume, Signatures, NULL,
  DiskList, VolumeList,          \* the linked lists, in list order
  Primary, Logical,              \* [Disk -> Seq(Partition)]
  DiskNumber, VolumeNumber,      \* the numbers the entries carry
  PartitionNumber,
  IntMod,                        \* 2^32: the values an int distinguishes
  LongMax,                       \* LONG_MAX, where strtol saturates
  Typed,                         \* the decimal numbers a user types
  TypeByte,                      \* the partition types in use, 0..255
  IdArgs,                        \* the argument lists of setid
  NotId, BadId                   \* an argument that is not "id=..", a bad one

Entries(d) == Primary[d] \o Logical[d]
PartitionsOf == [d \in Disk |-> {Entries(d)[i] : i \in DOMAIN Entries(d)}]
Listed == {DiskList[i] : i \in DOMAIN DiskList}
LdmType == 66                    \* 0x42

ASSUME NullAssumption == NULL \notin Disk \cup Partition \cup Volume \cup Int
ASSUME ListAssumption ==
  /\ DiskList \in Seq(Disk) /\ VolumeList \in Seq(Volume)
  /\ \A i, j \in DOMAIN DiskList : DiskList[i] = DiskList[j] => i = j
  /\ Primary \in [Disk -> Seq(Partition)]
  /\ Logical \in [Disk -> Seq(Partition)]
ASSUME NumberAssumption ==
  /\ DiskNumber \in [Disk -> Int] /\ VolumeNumber \in [Volume -> Int]
  /\ PartitionNumber \in [Partition -> Int]
  /\ IntMod \in Nat \ {0} /\ LongMax \in Nat /\ (LongMax + 1) % IntMod = 0
  /\ Typed \subseteq Nat
ASSUME TypeAssumption ==
  /\ TypeByte \subseteq 0 .. 255 /\ 0 \in TypeByte
  /\ IdArgs \subseteq Seq(TypeByte \cup {NotId, BadId})
  /\ NotId \notin TypeByte /\ BadId \notin TypeByte

VARIABLES
  CurrentDisk, CurrentPartition, CurrentVolume,
  freed,                         \* volumes RemoveVolume has freed
  PartitionType, BootIndicator,  \* [Partition -> ..]: the entries in memory
  Signature, Dirty,              \* [Disk -> ..]
  errno,                         \* "ERANGE" once a number was too long
  reply,                         \* the last command, what it was asked and said
  unsaved,                       \* history: disks with an edit not yet written
  visited                        \* history: disks seen since "select disk system"

focus   == <<CurrentDisk, CurrentPartition, CurrentVolume>>
entries == <<PartitionType, BootIndicator, Signature, Dirty, unsaved>>
vars == <<CurrentDisk, CurrentPartition, CurrentVolume, freed, PartitionType,
          BootIndicator, Signature, Dirty, errno, reply, unsaved, visited>>

Commands == {"disk", "system", "next", "partition", "volume",
             "setid", "inactive", "uniqueid", "rescan", "remove", "none"}
Number == Int \cup {NULL}
Replies == [cmd : Commands, ok : BOOLEAN, asked : Number, said : Number]

(* ok says whether the command reported that it did what it was asked;      *)
(* what its C function returns for that is a matter of the interpreter.     *)
Answer(cmd, ok, asked, said) ==
  reply' = [cmd |-> cmd, ok |-> ok, asked |-> asked, said |-> said]

Init ==
  /\ CurrentDisk = NULL /\ CurrentPartition = NULL /\ CurrentVolume = NULL
  /\ freed = {}
  /\ PartitionType \in [Partition -> TypeByte \ {LdmType}]
  /\ BootIndicator \in [Partition -> BOOLEAN]
  /\ Signature \in [Disk -> Signatures]
  /\ Dirty = [d \in Disk |-> FALSE]
  /\ errno = "none"
  /\ reply = [cmd |-> "none", ok |-> TRUE, asked |-> NULL, said |-> NULL]
  /\ unsaved = {} /\ visited = {}

-----------------------------------------------------------------------------
(* Numbers: a decimal argument goes through strtol, which saturates and     *)
(* sets errno, and then into an int, which keeps the low bits.              *)
Saturated(n) == IF n > LongMax THEN LongMax ELSE n
ToInt(n) == LET low == n % IntMod
            IN  IF 2 * low < IntMod THEN low ELSE low - IntMod
ErrnoAfter(n) == IF n > LongMax THEN "ERANGE" ELSE errno
(* The check "ulValue == 0 && errno == ERANGE": strtol leaves errno alone   *)
(* when it succeeds, and none of the three callers resets it.               *)
Refused(n) == ToInt(Saturated(n)) = 0 /\ ErrnoAfter(n) = "ERANGE"

(* A command that stops at a check, or shows the selection: no state moves. *)
Report(cmd, ok, said) ==
  /\ Answer(cmd, ok, NULL, said)
  /\ UNCHANGED <<focus, freed, entries, errno, visited>>

-----------------------------------------------------------------------------
(* select disk *)
GiveFocusKeepPartition(d) == CurrentDisk' = d /\ UNCHANGED CurrentPartition  \* faulty
GiveFocus(d) == CurrentDisk' = d /\ CurrentPartition' = NULL

(* A number that is not in the list: "The disk you selected is not valid."  *)
NotFoundDeselects(cmd, n) ==                                                \* faulty
  Answer(cmd, FALSE, n, NULL) /\ CurrentPartition' = NULL /\ UNCHANGED <<CurrentDisk, CurrentVolume>>
NotFound(cmd, n) == Answer(cmd, FALSE, n, NULL) /\ UNCHANGED focus

SelectDiskShow ==
  \/ Report("disk", TRUE, IF CurrentDisk = NULL THEN NULL ELSE DiskNumber[CurrentDisk])
  \/ Report("disk", FALSE, NULL)  \* arguments it rejects, "system" with an empty list

SelectDiskSystem ==
  /\ DiskList # <<>>
  /\ GiveFocus(DiskList[1])
  /\ visited' = {DiskList[1]}
  /\ Answer("system", TRUE, NULL, DiskNumber[DiskList[1]])
  /\ UNCHANGED <<CurrentVolume, freed, entries, errno>>

AtLastButOne == Len(DiskList) > 1 /\ CurrentDisk = DiskList[Len(DiskList) - 1]  \* faulty
AtLastDisk == DiskList # <<>> /\ CurrentDisk = DiskList[Len(DiskList)]

SelectDiskNext ==
  /\ UNCHANGED <<CurrentVolume, freed, entries, errno>>
  /\ \/ /\ CurrentDisk = NULL \/ AtLastDisk       \* not started, or finished
        /\ GiveFocus(NULL)
        /\ UNCHANGED visited
        /\ Answer("next", FALSE, NULL, NULL)
     \/ \E i \in 1 .. Len(DiskList) - 1 :
          /\ CurrentDisk = DiskList[i]
          /\ GiveFocus(DiskList[i + 1])
          /\ visited' = IF visited = {} THEN {} ELSE visited \cup {DiskList[i + 1]}
          /\ Answer("next", TRUE, NULL, DiskNumber[DiskList[i + 1]])

(* The first entry of the list that carries the number. *)
DiskFound(i, v) ==
  /\ DiskNumber[DiskList[i]] = v
  /\ \A j \in 1 .. i - 1 : DiskNumber[DiskList[j]] # v

SelectDiskNumber(n) ==
  LET v == ToInt(Saturated(n)) IN
  /\ errno' = ErrnoAfter(n)
  /\ UNCHANGED <<CurrentVolume, freed, entries>>
  /\ \/ \E i \in DOMAIN DiskList :
          /\ ~ Refused(n) /\ DiskFound(i, v)
          /\ GiveFocus(DiskList[i])
          /\ visited' = {}
          /\ Answer("disk", TRUE, n, v)
     \/ /\ Refused(n) \/ \A i \in DOMAIN DiskList : DiskNumber[DiskList[i]] # v
        /\ NotFound("disk", n) /\ UNCHANGED visited

-----------------------------------------------------------------------------
(* select partition: partNumber counts the entries in use, primaries first. *)
PartNumberOfAll(list, i) == i                                               \* faulty
PartNumber(list, i) == Cardinality({j \in 1 .. i : PartitionType[list[j]] # 0})
PartitionFound(list, i, v) ==
  PartitionType[list[i]] # 0 /\ PartNumber(list, i) = v

SelectPartitionShow ==
  \/ /\ CurrentDisk # NULL
     /\ Report("partition", TRUE, IF CurrentPartition = NULL THEN NULL
                               ELSE PartitionNumber[CurrentPartition])
  \/ Report("partition", FALSE, NULL)          \* no disk, bad arguments

SelectPartitionNumber(n) ==
  LET v == ToInt(Saturated(n))
      list == Entries(CurrentDisk)
  IN
  /\ CurrentDisk # NULL
  /\ errno' = ErrnoAfter(n)
  /\ UNCHANGED <<CurrentDisk, CurrentVolume, freed, entries, visited>>
  /\ \/ \E i \in DOMAIN list :
          /\ ~ Refused(n) /\ PartitionFound(list, i, v)
          /\ CurrentPartition' = list[i]
          /\ Answer("partition", TRUE, n, v)
     \/ /\ Refused(n) \/ \A i \in DOMAIN list : ~ PartitionFound(list, i, v)
        /\ NotFound("partition", n)

(* list partition: the rows it prints for a disk, numbered by position. It  *)
(* walks the two lists one after the other and skips the entries not in use.*)
InUse(list) == {i \in DOMAIN list : PartitionType[list[i]] # 0}
InRow(list, k) ==
  CHOOSE i \in InUse(list) : Cardinality({j \in InUse(list) : j <= i}) = k
Rows(list) == [k \in 1 .. Cardinality(InUse(list)) |-> list[InRow(list, k)]]
ListPartition(d) == Rows(Primary[d]) \o Rows(Logical[d])

-----------------------------------------------------------------------------
(* select volume, and RemoveVolume, which unlinks and frees an entry. *)
VolumeFoundUnlinked(i, v) ==                                                \* faulty
  /\ VolumeNumber[VolumeList[i]] = v
  /\ \A j \in 1 .. i - 1 : VolumeNumber[VolumeList[j]] # v
VolumeFound(i, v) ==
  /\ VolumeList[i] \notin freed /\ VolumeNumber[VolumeList[i]] = v
  /\ \A j \in 1 .. i - 1 :
       VolumeList[j] \in freed \/ VolumeNumber[VolumeList[j]] # v

SelectVolumeShow ==
  \/ Report("volume", TRUE, IF CurrentVolume = NULL THEN NULL ELSE VolumeNumber[CurrentVolume])
  \/ Report("volume", FALSE, NULL)

SelectVolumeNumber(n) ==
  LET v == ToInt(Saturated(n)) IN
  /\ errno' = ErrnoAfter(n)
  /\ UNCHANGED <<CurrentDisk, CurrentPartition, freed, entries, visited>>
  /\ \/ \E i \in DOMAIN VolumeList :
          /\ ~ Refused(n) /\ VolumeFound(i, v)
          /\ CurrentVolume' = VolumeList[i]
          /\ Answer("volume", TRUE, n, v)
     \/ /\ Refused(n) \/ \A i \in DOMAIN VolumeList : ~ VolumeFound(i, v)
        /\ NotFound("volume", n)

SelectionKept(v) == CurrentVolume                                           \* faulty
SelectionWithout(v) == IF CurrentVolume = v THEN NULL ELSE CurrentVolume

RemoveVolume(v) ==
  /\ v \notin freed /\ \E i \in DOMAIN VolumeList : VolumeList[i] = v
  /\ freed' = freed \cup {v}
  /\ CurrentVolume' = SelectionWithout(v)
  /\ Answer("remove", TRUE, NULL, NULL)
  /\ UNCHANGED <<CurrentDisk, CurrentPartition, entries, errno, visited>>

-----------------------------------------------------------------------------
(* setid: the last "id=" argument wins; without one the type stays 0.       *)
IdOf(args, t) ==
  \/ t = 0 /\ \A i \in DOMAIN args : args[i] = NotId
  \/ \E i \in DOMAIN args :
       args[i] = t /\ \A j \in i + 1 .. Len(args) : args[j] = NotId
IdRefused(args) == \E i \in DOMAIN args : args[i] \in {BadId, 0}
IdForbidden(args) == IdRefused(args) \/ IdOf(args, LdmType)

SetId(args) ==
  \/ /\ CurrentDisk = NULL \/ CurrentPartition = NULL \/ IdForbidden(args)
     /\ Report("setid", FALSE, NULL)
  \/ /\ CurrentDisk # NULL /\ CurrentPartition # NULL /\ ~ IdForbidden(args)
     /\ \E t \in TypeByte :
          /\ IdOf(args, t)
          /\ PartitionType' = [PartitionType EXCEPT ![CurrentPartition] = t]
     /\ Dirty' = [Dirty EXCEPT ![CurrentDisk] = TRUE]
     /\ unsaved' = unsaved \cup {CurrentDisk}
     /\ Answer("setid", TRUE, NULL, NULL)
     /\ UNCHANGED <<focus, freed, BootIndicator, Signature, errno, visited>>

(* partlist.c: UpdateDiskLayout leaves the dirty flag cleared, and          *)
(* WritePartitions writes the entries of a dirty disk only.                 *)
UpdateEveryLayout(flags, d) == [e \in DOMAIN flags |-> FALSE]               \* faulty
UpdateDiskLayout(flags, d) == [flags EXCEPT ![d] = FALSE]
WritePartitions(flags, d, pending) == IF flags[d] THEN pending \ {d} ELSE pending

Inactive ==
  \/ /\ CurrentDisk = NULL \/ CurrentPartition = NULL
     /\ Report("inactive", FALSE, NULL)
  \/ /\ CurrentDisk # NULL /\ CurrentPartition # NULL
     /\ ~ BootIndicator[CurrentPartition]
     /\ Report("inactive", FALSE, NULL)        \* already inactive
  \/ /\ CurrentDisk # NULL /\ CurrentPartition # NULL
     /\ BootIndicator[CurrentPartition]
     /\ BootIndicator' = [BootIndicator EXCEPT ![CurrentPartition] = FALSE]
     /\ LET flags == UpdateDiskLayout([Dirty EXCEPT ![CurrentDisk] = TRUE], CurrentDisk)
        IN  /\ Dirty' = [flags EXCEPT ![CurrentDisk] = FALSE]
            /\ unsaved' = WritePartitions(flags, CurrentDisk, unsaved \cup {CurrentDisk})
     /\ Answer("inactive", TRUE, NULL, NULL)
     /\ UNCHANGED <<focus, freed, PartitionType, Signature, errno, visited>>

(* uniqueid disk: shows the signature, or sets it and resets errno. *)
UniqueIdShow ==
  \/ CurrentDisk # NULL /\ Report("uniqueid", TRUE, NULL)
  \/ Report("uniqueid", FALSE, NULL)           \* no disk, bad arguments

UniqueIdDisk(s) ==
  /\ CurrentDisk # NULL
  /\ errno' = "none"
  /\ Signature' = [Signature EXCEPT ![CurrentDisk] = s]
  /\ Dirty' = [Dirty EXCEPT ![CurrentDisk] = TRUE]
  /\ unsaved' = unsaved \cup {CurrentDisk}
  /\ Answer("uniqueid", TRUE, NULL, NULL)
  /\ UNCHANGED <<focus, freed, PartitionType, BootIndicator, visited>>

(* rescan: all four list functions it calls are empty (diskpart.c:53-73). *)
Rescan == Report("rescan", TRUE, NULL)

-----------------------------------------------------------------------------
Next ==
  \/ SelectDiskShow \/ SelectDiskSystem \/ SelectDiskNext
  \/ SelectPartitionShow \/ SelectVolumeShow \/ UniqueIdShow
  \/ \E n \in Typed : \/ SelectDiskNumber(n)
                      \/ SelectPartitionNumber(n)
                      \/ SelectVolumeNumber(n)
  \/ \E v \in Volume : RemoveVolume(v)
  \/ \E args \in IdArgs : SetId(args)
  \/ \E s \in Signatures : UniqueIdDisk(s)
  \/ Inactive \/ Rescan

Spec == Init /\ [][Next]_vars

-----------------------------------------------------------------------------
(* Every variable keeps its type: in particular the three selections are    *)
(* NULL or an entry, and a partition type stays a byte (setid.c:91).        *)
TypeOK ==
  /\ CurrentDisk \in Listed \cup {NULL}
  /\ CurrentPartition \in Partition \cup {NULL}
  /\ CurrentVolume \in Volume \cup {NULL}
  /\ freed \subseteq Volume
  /\ PartitionType \in [Partition -> TypeByte \ {LdmType}]
  /\ BootIndicator \in [Partition -> BOOLEAN]
  /\ Signature \in [Disk -> Signatures]
  /\ Dirty \in [Disk -> BOOLEAN]
  /\ errno \in {"none", "ERANGE"}
  /\ reply \in Replies
  /\ unsaved \subseteq Disk /\ visited \subseteq Disk

(* setid and inactive change CurrentPartition and mark CurrentDisk dirty as *)
(* if the one belonged to the other; select disk must therefore never leave *)
(* the partition of another disk in focus (select.c:102,118,124,143).       *)
PartitionOnDisk ==
  CurrentPartition # NULL =>
    CurrentDisk # NULL /\ CurrentPartition \in PartitionsOf[CurrentDisk]

(* select volume and list volume dereference CurrentVolume: it is never an  *)
(* entry that RemoveVolume has freed (partlist.c:235-239).                  *)
VolumeAlive == CurrentVolume \notin freed

(* list.c and select.c number partitions by separate traversals: the number *)
(* list partition prints is the one that selects that row, and no other     *)
(* number selects anything.                                                 *)
NumberingAgrees ==
  \A d \in Disk :
    LET rows == ListPartition(d)
        list == Entries(d)
    IN  /\ \A k \in DOMAIN rows, i \in DOMAIN list :
             PartitionFound(list, i, k) => list[i] = rows[k]
        /\ {k \in 0 .. Len(list) + 1 : \E i \in DOMAIN list : PartitionFound(list, i, k)}
             = DOMAIN rows

(* "select disk next" after "select disk system" (diskpart_msg.mc:6015-6020) *)
(* iterates over all disks: when it ends with no disk in focus, every disk   *)
(* of the list has had the focus.                                           *)
EnumerationEnds ==
  CurrentDisk # NULL /\ CurrentDisk' = NULL /\ visited # {} => visited' = Listed
EnumerationComplete == [][EnumerationEnds]_vars

(* An edit changes the partition in focus only, and it, its dirty flag and  *)
(* the signature all belong to the disk in focus.                           *)
EditOnFocus ==
  /\ \A p \in Partition :
       (PartitionType'[p] # PartitionType[p] \/ BootIndicator'[p] # BootIndicator[p])
         => /\ p = CurrentPartition /\ CurrentDisk # NULL
            /\ p \in PartitionsOf[CurrentDisk]
  /\ \A d \in Disk :
       (Dirty'[d] # Dirty[d] \/ Signature'[d] # Signature[d]) => d = CurrentDisk
EditsStayOnFocus == [][EditOnFocus]_vars

(* A command that fails leaves all three selections as they were; only the  *)
(* end of the enumeration drops the disk, and its partition with it, and    *)
(* leaves the volume (select.c:115-121).                                    *)
FailKeepsFocus ==
  ~ reply'.ok => \/ UNCHANGED focus
                 \/ reply'.cmd = "next" /\ focus' = <<NULL, NULL, CurrentVolume>>
FailureKeepsFocus == [][FailKeepsFocus]_vars

(* The session implements the focus that diskpart.h's globals promise.      *)
F == INSTANCE Focus WITH disk <- CurrentDisk, partition <- CurrentPartition,
       volume <- CurrentVolume,
       volumes <- {VolumeList[i] : i \in DOMAIN VolumeList} \ freed
ImplementsFocus == F!Spec

-----------------------------------------------------------------------------
(* What a message or a help text says, and the code does not do.            *)

(* setid.c:94 "Invalid partition type: 0 is not allowed.": the partition in *)
(* focus never becomes an unused entry, which list partition would not show.*)
FocusIsListed == CurrentPartition # NULL => PartitionType[CurrentPartition] # 0

(* inactive.c:39 "Update disk layout and write changes back to disk": a     *)
(* success of inactive leaves nothing of the disk unwritten.                *)
SuccessIsWritten ==
  [][reply'.cmd = "inactive" /\ reply'.ok => CurrentDisk \notin unsaved']_vars

(* diskpart_msg.mc:6001, of DISK=<N>: "The DiskPart disk index number of    *)
(* the disk to receive focus.": a disk receives it under its own number     *)
(* only, and a number that is in the list is never refused.                 *)
NumberIsHonoured ==
  reply.cmd = "disk" /\ reply.asked # NULL =>
    IF reply.ok THEN reply.said = reply.asked
    ELSE \A i \in DOMAIN DiskList : DiskNumber[DiskList[i]] # reply.asked
=============================================================================
