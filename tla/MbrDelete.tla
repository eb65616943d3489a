----------------------------- MODULE MbrDelete -----------------------------
(***************************************************************************)
(* delete_partition (delete.c): each process reads the MBR, clears one     *)
(* entry of its copy, writes the copy back and asks the kernel to read the *)
(* table again.  Nothing locks the device between the read and the write,  *)
(* so several processes deleting at the same time interleave their calls.  *)
(***************************************************************************)
EXTENDS Integers

CONSTANTS Proc,             \* the running processes
          MAX_PARTITIONS,   \* 4 in the code
          Index             \* the indexes users type

ASSUME IndexAssumption == MAX_PARTITIONS \in Nat /\ Index \subseteq Int

VARIABLES mbr,       \* [Slot -> BOOLEAN]: whether the entry on disk is in use
          kernel,    \* the table the kernel read last
          pc, index, mbr_data,   \* of each process; mbr_data is its copy
          original,  \* history: the table before any deletion
          cleared,   \* history: the slots some process has written as cleared
          reported,  \* history: the slots some process has reported deleted
          raced,     \* history: a copy older than the disk has been written
          missed     \* history: the last request to the kernel was lost

vars == <<mbr, kernel, pc, index, mbr_data, original, cleared, reported, raced, missed>>
history == <<original, cleared, reported, raced, missed>>

Slot == 1 .. MAX_PARTITIONS
Table == [Slot -> BOOLEAN]

Init ==
  /\ mbr \in Table /\ kernel = mbr /\ original = mbr
  /\ pc = [p \in Proc |-> "idle"]
  /\ index \in [Proc -> Index]
  /\ mbr_data = [p \in Proc |-> mbr]
  /\ cleared = {} /\ reported = {} /\ raced = FALSE /\ missed = FALSE

Goto(p, label) == pc' = [pc EXCEPT ![p] = label]

(* A user runs the program again; the index must name a slot, and the       *)
(* device must open.                                                        *)
FromZero(i) == i \in 0 .. MAX_PARTITIONS                  \* faulty
ValidIndex(i) == i \in 1 .. MAX_PARTITIONS

Start(p, i) ==
  /\ pc[p] \in {"idle", "ok", "failed"}
  /\ index' = [index EXCEPT ![p] = i]
  /\ \/ ValidIndex(i) /\ Goto(p, "read")
     \/ Goto(p, "failed")
  /\ UNCHANGED <<mbr, kernel, mbr_data, history>>

(* pread() of the sector: all of it, or the command fails. *)
Read(p) ==
  /\ pc[p] = "read"
  /\ \/ mbr_data' = [mbr_data EXCEPT ![p] = mbr] /\ Goto(p, "write")
     \/ UNCHANGED mbr_data /\ Goto(p, "failed")
  /\ UNCHANGED <<mbr, kernel, index, history>>

(* memset() of one entry of the copy, and pwrite() of the sector. *)
ClearNext(table, i) == [table EXCEPT ![i + 1] = FALSE]    \* faulty
ClearNothing(table, i) == table                           \* faulty
Clear(table, i) == [table EXCEPT ![i] = FALSE]

Write(p) ==
  /\ pc[p] = "write"
  /\ \/ /\ mbr' = Clear(mbr_data[p], index[p])
        /\ raced' = (raced \/ mbr_data[p] # mbr)
        /\ cleared' = cleared \cup {index[p]}
        /\ Goto(p, "reread")
     \/ /\ Goto(p, "failed")
        /\ UNCHANGED <<mbr, raced, cleared>>
  /\ UNCHANGED <<kernel, index, mbr_data, original, reported, missed>>

(* ioctl(BLKRRPART): a failure (a partition is mounted) is only a warning.  *)
RereadForgotten(p) ==                                     \* faulty
  /\ pc[p] = "reread"
  /\ reported' = reported \cup {index[p]}
  /\ Goto(p, "ok")
  /\ UNCHANGED <<mbr, kernel, index, mbr_data, original, cleared, raced, missed>>
Reread(p) ==
  /\ pc[p] = "reread"
  /\ \/ kernel' = mbr /\ missed' = FALSE
     \/ UNCHANGED kernel /\ missed' = TRUE
  /\ reported' = reported \cup {index[p]}
  /\ Goto(p, "ok")
  /\ UNCHANGED <<mbr, index, mbr_data, original, cleared, raced>>

(* The process may be killed between two system calls. *)
Kill(p) ==
  /\ pc[p] \in {"read", "write", "reread"}
  /\ missed' = (missed \/ pc[p] = "reread")
  /\ Goto(p, "failed")
  /\ UNCHANGED <<mbr, kernel, index, mbr_data, original, cleared, reported, raced>>

Next ==
  \E p \in Proc :
    \/ \E i \in Index : Start(p, i)
    \/ Read(p) \/ Write(p) \/ Reread(p) \/ Kill(p)

Spec == Init /\ [][Next]_vars

-----------------------------------------------------------------------------
TypeOK ==
  /\ mbr \in Table /\ kernel \in Table /\ original \in Table
  /\ pc \in [Proc -> {"idle", "read", "write", "reread", "ok", "failed"}]
  /\ index \in [Proc -> Index]
  /\ \A p \in Proc : pc[p] \in {"read", "write", "reread"} => index[p] \in Slot
  /\ mbr_data \in [Proc -> Table]
  /\ cleared \subseteq Slot /\ reported \subseteq Slot
  /\ raced \in BOOLEAN /\ missed \in BOOLEAN

(* Writing back the whole sector (delete.c:56) never harms a partition that *)
(* nobody asked to delete and never invents one, however the processes      *)
(* interleave and wherever they die.                                        *)
OthersUntouched ==
  \A i \in Slot : /\ original[i] /\ i \notin cleared => mbr[i]
                  /\ mbr[i] => original[i]

(* As long as no process writes back a copy that another process has made   *)
(* out of date, a deleted entry stays deleted (delete.c:45-56).             *)
DeletionsStick == ~ raced => \A i \in cleared : ~ mbr[i]

(* The kernel works with the table on disk, unless a process has still to   *)
(* ask it to read it, or the last request was refused or lost with a killed *)
(* process (delete.c:64-67).                                                *)
KernelCurrent ==
  kernel = mbr \/ missed \/ \E p \in Proc : pc[p] = "reread"

-----------------------------------------------------------------------------
(* delete.c:71 "Partition %d deleted successfully on device %s".            *)
ReportedIsDeleted == \A i \in reported : ~ mbr[i]
=============================================================================
