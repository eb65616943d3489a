------------------------------- MODULE Parted -------------------------------
(***************************************************************************)
(* The two programs that edit a partition table through libparted:         *)
(* active.c gives one partition the boot flag, create.c adds a partition   *)
(* in free space.  Each is a process of its own that reads the table of    *)
(* the device, edits its copy and commits it; nothing locks the device, so *)
(* several of them may run at once.  Any call may fail, each failure has   *)
(* its own list of what it releases, and a process may be killed between   *)
(* two calls.                                                              *)
(*                                                                         *)
(* libparted is external: a commit writes the whole table or nothing, and  *)
(* one that fails may have done either.  Sizes are in sectors.             *)
(***************************************************************************)
EXTENDS Integers

CONSTANTS Proc,              \* the processes
          Num, MbrNum,       \* partition numbers, and those that are not logical
          LastOfDisk,        \* the last sector of the device
          MB, SECTOR, Word,  \* 2^20, 512 and 2^64 in the code
          NULL

Types == {"normal", "extended", "logical"}
Sector == 0 .. LastOfDisk
CONSTANTS Tables,            \* what the device may hold at first
          Job                \* the arguments users give
ActiveJob == [tool : {"active"}, num : Int]
CreateJob == [tool : {"create"}, type : Types \cup {"other"}, size : Nat]  \* 0: no size

Partition(type, first, last, boot) ==
  [type |-> type, first |-> first, last |-> last, boot |-> boot]
Entry == [type : Types, first : Int, last : Int, boot : BOOLEAN]
Table == [Num -> Entry \cup {NULL}]
Used(t) == {n \in Num : t[n] # NULL}
(* A logical partition lies in the extended one. *)
Apart(a, b) == \/ a.last < b.first \/ b.last < a.first
               \/ {a.type, b.type} = {"extended", "logical"}
Disjoint(t) == \A m, n \in Used(t) : m # n => Apart(t[m], t[n])
Active(t) == {n \in Used(t) : t[n].type = "normal" /\ t[n].boot}
AtMostOne(set) == \A m, n \in set : m = n

ASSUME PartedAssumption ==
  /\ MbrNum \subseteq Num /\ Num \subseteq Nat \ {0}
  /\ LastOfDisk \in Nat /\ Job \subseteq ActiveJob \cup CreateJob /\ Job # {}
  /\ MB \in Nat \ {0} /\ SECTOR \in Nat \ {0} /\ Word \in Nat \ {0}
  /\ NULL \notin Entry /\ NULL \notin Proc
ASSUME TablesAssumption ==
  \A t \in Tables : t \in Table /\ Disjoint(t) /\ AtMostOne(Active(t))

VARIABLES
  device,          \* the table on the device
  table,           \* of each process: its copy, in libparted's memory
  pc, job,         \* of each process: where it is, and its arguments
  space,           \* of each create: the first and last sector of the partition
  held,            \* of each process: libparted's objects it owns
  misfreed,        \* of each process: where it released what it no longer owned
  said,            \* of each process: what it printed at its end
  latest,          \* history: the process that wrote the device last
  unset,           \* history: libparted refused to set the flag asked for
  uncleared        \* history: libparted once refused to clear a flag

vars == <<device, table, pc, job, space, held, misfreed, said, latest, unset, uncleared>>
history == <<latest, unset, uncleared>>

Labels == {"ended", "open", "read", "select", "flags", "find", "new", "add", "commit", "sync"}
Blank == [n \in Num |-> NULL]
Nowhere == <<0, -1>>

Init ==
  /\ device \in Tables
  /\ table = [p \in Proc |-> Blank]
  /\ pc = [p \in Proc |-> "ended"] /\ said = [p \in Proc |-> "nothing"]
  /\ \E j \in Job : job = [p \in Proc |-> j]
  /\ space = [p \in Proc |-> Nowhere]
  /\ held = [p \in Proc |-> {}] /\ misfreed = [p \in Proc |-> "no"]
  /\ latest = NULL /\ unset = [p \in Proc |-> FALSE] /\ uncleared = FALSE

Enter(p, label) == pc' = [pc EXCEPT ![p] = label] /\ UNCHANGED <<said, misfreed>>
Goto(p, label) == Enter(p, label) /\ UNCHANGED space

(* The program prints how it went, releases some of what it has, and exits; *)
(* what it created is remembered if it reported success.                    *)
Ends(p, how, has, freed) ==
  /\ pc' = [pc EXCEPT ![p] = "ended"] /\ said' = [said EXCEPT ![p] = how]
  /\ held' = [held EXCEPT ![p] = has \ freed]
  /\ misfreed' = [misfreed EXCEPT ![p] = IF freed \subseteq has THEN "no" ELSE pc[p]]
  /\ table' = [table EXCEPT ![p] = Blank]
  /\ space' = [space EXCEPT ![p] = IF how = "ok" THEN @ ELSE Nowhere]

OfDevice == {"open", "device"}         \* ped_device_close, ped_device_destroy
OfDisk == OfDevice \cup {"disk"}       \* and ped_disk_destroy before them
Lost == {"geometry", "constraint"}     \* what create gets and never destroys

-----------------------------------------------------------------------------
(* Both programs: the arguments, the device and its table. *)
Start(p, j) ==
  /\ pc[p] = "ended"
  /\ job' = [job EXCEPT ![p] = j]
  /\ space' = [space EXCEPT ![p] = Nowhere] /\ unset' = [unset EXCEPT ![p] = FALSE]
  /\ held' = [held EXCEPT ![p] = {}]          \* a new process
  /\ misfreed' = [misfreed EXCEPT ![p] = "no"]
  /\ \/ /\ j.tool = "active" => j.num > 0
        /\ pc' = [pc EXCEPT ![p] = "open"] /\ said' = [said EXCEPT ![p] = "nothing"]
     \/ /\ UNCHANGED pc /\ said' = [said EXCEPT ![p] = "failed"]  \* usage, bad option
  /\ UNCHANGED <<device, table, latest, uncleared>>

Open(p) ==
  /\ pc[p] = "open"
  /\ \/ Goto(p, "read") /\ held' = [held EXCEPT ![p] = OfDevice] /\ UNCHANGED table
     \/ Ends(p, "failed", {}, {})                        \* ped_device_get
     \/ Ends(p, "failed", {"device"}, {"device"})        \* ped_device_open
  /\ UNCHANGED <<device, job, history>>

ReadTable(p) ==
  /\ pc[p] = "read"
  /\ \/ /\ table' = [table EXCEPT ![p] = device]
        /\ held' = [held EXCEPT ![p] = OfDisk]
        /\ Goto(p, IF job[p].tool = "active" THEN "select" ELSE "find")
     \/ Ends(p, "failed", held[p], OfDevice)
  /\ UNCHANGED <<device, job, history>>

-----------------------------------------------------------------------------
(* active: select_partition and set_partition_active. *)
Unchecked(t, n) == TRUE                                          \* faulty
Found(t, n) == n \in Used(t)

SelectPartition(p) ==
  /\ pc[p] = "select"
  /\ \/ Found(table[p], job[p].num) /\ Goto(p, "flags") /\ UNCHANGED <<table, held>>
     \/ ~ Found(table[p], job[p].num) /\ Ends(p, "failed", held[p], OfDisk)
  /\ UNCHANGED <<device, job, history>>

(* The loop clears the flag of PED_PARTITION_NORMAL entries only, and what  *)
(* ped_partition_set_flag returns is ignored, for those and for the one     *)
(* that is to have it.                                                      *)
OthersOfTable(t) == {n \in Used(t) : t[n].type # "normal"}       \* faulty
Cleared(t) == {n \in Used(t) : t[n].type = "normal"}
WithFlags(t, off, on) ==
  [n \in Num |-> IF n \in on THEN [t[n] EXCEPT !.boot = TRUE]
                 ELSE IF n \in off THEN [t[n] EXCEPT !.boot = FALSE]
                 ELSE t[n]]

SetPartitionActive(p) ==
  /\ pc[p] = "flags"
  /\ \E refused \in SUBSET Cleared(table[p]), on \in {{}, {job[p].num}} :
       /\ table' = [table EXCEPT ![p] = WithFlags(@, Cleared(@) \ refused, on)]
       /\ uncleared' = (uncleared \/ refused # {})
       /\ unset' = [unset EXCEPT ![p] = (on = {})]
  /\ Goto(p, "commit")
  /\ UNCHANGED <<device, job, held, latest>>

-----------------------------------------------------------------------------
(* create: the size and the free space. *)
(* (PedSector)(mb * 1024 * 1024 / 512) in 64 bits, which wraps before the   *)
(* division.                                                                *)
SizeInSectors(mb) == ((mb * MB) % Word) \div SECTOR
OneMore(first, last, mb) ==                                      \* faulty
  IF mb > 0 THEN first + SizeInSectors(mb) ELSE last
EndSector(first, last, mb) ==
  IF mb > 0 THEN first + SizeInSectors(mb) - 1 ELSE last
Anywhere(first, last, mb) == TRUE                                \* faulty
NotFarBehind(first, last, mb) == EndSector(first, last, mb) <= last + 1  \* faulty
Fits(first, last, mb) == EndSector(first, last, mb) <= last

(* The region libparted offers lies in no partition at all; that it takes   *)
(* any part of the device for a new partition is left to the caller.  The   *)
(* caller owns the geometry that names the region, and keeps it to the end. *)
FreeSpace(t, first, last) ==
  /\ first <= last
  /\ \A n \in Used(t) : t[n].last < first \/ last < t[n].first

FindSpace(p) ==
  /\ pc[p] = "find"
  /\ \/ /\ job[p].type # "other"
        /\ \E first, last \in Sector :
             /\ FreeSpace(table[p], first, last)
             /\ \/ /\ Fits(first, last, job[p].size)
                   /\ space' = [space EXCEPT ![p] =
                                  <<first, EndSector(first, last, job[p].size)>>]
                   /\ held' = [held EXCEPT ![p] = @ \cup {"geometry"}]
                   /\ Enter(p, "new") /\ UNCHANGED table
                \/ /\ ~ Fits(first, last, job[p].size)
                   /\ Ends(p, "failed", held[p] \cup {"geometry"}, OfDisk)
     \/ Ends(p, "failed", held[p], OfDisk)  \* type, no space
  /\ UNCHANGED <<device, job, history>>

NewPartition(p) ==
  /\ pc[p] = "new"
  /\ \/ /\ space[p][1] <= space[p][2]     \* libparted refuses the others
        /\ Goto(p, "add") /\ held' = [held EXCEPT ![p] = @ \cup {"part"}] /\ UNCHANGED table
     \/ Ends(p, "failed", held[p], OfDisk)
  /\ UNCHANGED <<device, job, history>>

(* The table takes the partition over, under a number of libparted's choice.*)
(* The constraint is made for the call and outlives it either way.          *)
PartitionLeaks == OfDisk                                         \* faulty
AddFailedFrees == OfDisk \cup {"part"}

AddPartition(p) ==
  /\ pc[p] = "add"
  /\ \/ /\ \E n \in (IF job[p].type = "logical" THEN Num \ MbrNum ELSE MbrNum) \ Used(table[p]) :
             table' = [table EXCEPT ![p][n] =
                         Partition(job[p].type, space[p][1], space[p][2], FALSE)]
        /\ held' = [held EXCEPT ![p] = (@ \ {"part"}) \cup {"constraint"}]
        /\ Goto(p, "commit")
     \/ Ends(p, "failed", held[p] \cup {"constraint"}, AddFailedFrees)
  /\ UNCHANGED <<device, job, history>>

-----------------------------------------------------------------------------
(* Commit and exit.  A commit of active goes to the device and the kernel,  *)
(* the one of create to the device only; either may fail after the write.   *)
Writes(p) == device' = table[p] /\ latest' = p
WritesOrNot(p) == Writes(p) \/ UNCHANGED <<device, latest>>

CommitActive(p) ==
  /\ pc[p] = "commit" /\ job[p].tool = "active"
  /\ \/ Writes(p) /\ Goto(p, "sync") /\ UNCHANGED <<table, held>>
     \/ WritesOrNot(p) /\ Ends(p, "failed", held[p], OfDisk)
  /\ UNCHANGED <<job, unset, uncleared>>

SyncDevice(p) ==
  /\ pc[p] = "sync"
  /\ \E how \in {"ok", "failed"} : Ends(p, how, held[p], OfDisk)
  /\ UNCHANGED <<device, job, history>>

(* A failing commit releases the partition and then the table that owns it: *)
(* what happens in the second release is undefined, an abort included.      *)
CommitIgnored == "ok"                                            \* faulty
CommitFailed == "failed"

CommitNew(p) ==
  /\ pc[p] = "commit" /\ job[p].tool = "create"
  /\ \/ Writes(p) /\ Ends(p, "ok", held[p], OfDisk)
     \/ /\ WritesOrNot(p)
        /\ \E how \in {CommitFailed, "nothing"} : Ends(p, how, held[p], OfDisk \cup {"part"})
  /\ UNCHANGED <<job, unset, uncleared>>

(* The kernel takes back what a killed process holds. *)
Kill(p) ==
  /\ pc[p] # "ended"
  /\ Ends(p, "nothing", held[p], held[p])
  /\ UNCHANGED <<device, job, history>>

Next ==
  \E p \in Proc :
    \/ \E j \in Job : Start(p, j)
    \/ Open(p) \/ ReadTable(p)
    \/ SelectPartition(p) \/ SetPartitionActive(p)
    \/ FindSpace(p) \/ NewPartition(p) \/ AddPartition(p)
    \/ CommitActive(p) \/ SyncDevice(p) \/ CommitNew(p)
    \/ Kill(p)

Spec == Init /\ [][Next]_vars

-----------------------------------------------------------------------------
Object == OfDisk \cup Lost \cup {"part"}
TypeOK ==
  /\ device \in Table /\ table \in [Proc -> Table]
  /\ pc \in [Proc -> Labels] /\ job \in [Proc -> Job]
  /\ space \in [Proc -> Int \X Int]
  /\ held \in [Proc -> SUBSET Object]
  /\ misfreed \in [Proc -> Labels \cup {"no"}]
  /\ said \in [Proc -> {"nothing", "ok", "failed"}]
  /\ latest \in Proc \cup {NULL}
  /\ unset \in [Proc -> BOOLEAN] /\ uncleared \in BOOLEAN
  /\ \A p \in Proc :
       /\ pc[p] \in {"select", "flags", "sync"} => job[p].tool = "active"
       /\ pc[p] \in {"find", "new", "add"} => job[p].tool = "create"
       /\ pc[p] \in {"new", "add"} => job[p].type \in Types
       /\ pc[p] = "flags" => job[p].num \in Used(table[p])

(* create.c:110 compares the end of the new partition with the end of the   *)
(* free region: no two partitions of the device ever share a sector,        *)
(* whatever other process has written since the table was read.             *)
NoOverlap == Disjoint(device)

(* active.c:84-97 clears every flag before it sets one: unless libparted    *)
(* has refused to clear one, at most one primary partition is active, also  *)
(* when two processes choose different ones at the same time.               *)
OneActive == ~ uncleared => AtMostOne(Active(device))

(* The size a partition was asked to have, as long as the size in bytes     *)
(* does not wrap in 64 bits (create.c:31).                                  *)
Sized(j, first, last) ==
  j.size > 0 /\ j.size * MB < Word => last - first + 1 = (j.size * MB) \div SECTOR

(* create.c:147 and active.c:143 report success only when what was asked    *)
(* for is on the device, until another process writes its copy over it: the *)
(* flag, or a partition of the type and the size on the command line, at    *)
(* the place that was computed.  Two cases are excepted: active reports     *)
(* success also if libparted has refused the flag (active.c:97), and create *)
(* reports a size that wraps although the partition is smaller.             *)
ReportedIsOnDevice ==
  \A p \in Proc :
    said[p] = "ok" /\ latest = p =>
      IF job[p].tool = "active" THEN unset[p] \/ device[job[p].num].boot
      ELSE \E n \in Used(device) :
             /\ device[n].type = job[p].type
             /\ <<device[n].first, device[n].last>> = space[p]
             /\ Sized(job[p], device[n].first, device[n].last)

(* create.c:117: the space that goes into the table has the size asked for  *)
(* before anything is written, unless that size wraps.                      *)
SizeAsAsked ==
  \A p \in Proc :
    pc[p] \in {"add", "commit"} /\ job[p].tool = "create" =>
      Sized(job[p], space[p][1], space[p][2])

(* At the end of either program nothing of the device, its table or a       *)
(* partition is left unreleased, whatever call has failed (create.c:58-151, *)
(* active.c:49-59): each failing path releases them all, and none of them   *)
(* twice but a failed commit of create, which destroys the partition that   *)
(* the table owns (create.c:140-141).  What is left is no more than the     *)
(* geometry of create.c:95 and the constraint of create.c:129, which create *)
(* destroys on no path at all; active leaves nothing.                       *)
ReleasedOnce ==
  \A p \in Proc :
    pc[p] = "ended" =>
      /\ held[p] \subseteq IF job[p].tool = "create" THEN Lost ELSE {}
      /\ misfreed[p] # "no" =>
           misfreed[p] = "commit" /\ job[p].tool = "create" /\ said[p] # "ok"

(* However they interleave, fail or die, the programs do to the device what *)
(* TableEditing allows.                                                     *)
E == INSTANCE TableEditing WITH copy <- table
ImplementsTableEditing == E!Spec
=============================================================================
