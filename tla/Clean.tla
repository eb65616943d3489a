------------------------------- MODULE Clean -------------------------------
(***************************************************************************)
(* clean_main (clean.c): zero a whole disk ("all") or its first and last   *)
(* BUFFER_SIZE sectors, one system call per step.  write() may fail, may   *)
(* write less than it was asked to, and stops at the end of the device;    *)
(* the process may be killed between two calls.  Sizes are in sectors.     *)
(***************************************************************************)
EXTENDS Integers

CONSTANTS BUFFER_SIZE,   \* sectors one write() covers, 1 MB in the code
          DeviceSize,    \* sectors of the device
          SizeBytes,     \* the sizes CurrentDisk may carry, 0 if unknown
          Argument       \* the arguments the user may give

ASSUME SizeAssumption ==
  BUFFER_SIZE \in Nat \ {0} /\ DeviceSize \in Nat \ {0} /\ SizeBytes \subseteq Nat

VARIABLES pc, argument, size_bytes, total_size, written,
          zeroed         \* the sectors of the device that hold zeros

vars == <<pc, argument, size_bytes, total_size, written, zeroed>>

Sector == 0 .. DeviceSize - 1
Writing == {"all", "first", "seek", "last"}
Running == Writing \cup {"open", "size"}
Ended == {"done", "failed", "killed"}

Smaller(a, b) == IF a < b THEN a ELSE b
Sectors(from, count) == from .. from + count - 1

Init ==
  /\ pc = "open"
  /\ argument \in Argument /\ size_bytes \in SizeBytes
  /\ total_size = 0 /\ written = 0 /\ zeroed = {}

(* No disk in focus, a failing open() or a failing calloc() end the command.*)
Open ==
  /\ pc = "open"
  /\ pc' \in {"size", "failed"}
  /\ UNCHANGED <<argument, size_bytes, total_size, written, zeroed>>

(* strcmp(argv[i], "all"): the comparison is case-sensitive. *)
WipeAll == argument = "all"

(* The size the session carries, or else the one the device reports. *)
Size ==
  /\ pc = "size"
  /\ \/ /\ size_bytes > 0
        /\ total_size' = size_bytes
        /\ pc' = IF WipeAll THEN "all" ELSE "first"
     \/ /\ size_bytes <= 0
        /\ total_size' = DeviceSize
        /\ pc' = IF WipeAll THEN "all" ELSE "first"
     \/ /\ size_bytes <= 0                    \* the device cannot be opened again
        /\ pc' = "failed" /\ UNCHANGED total_size
  /\ written' = 0
  /\ UNCHANGED <<argument, size_bytes, zeroed>>

(* write(): it zeroes at most count sectors from there to the device's end. *)
Accepted(from, count) == 0 .. Smaller(count, DeviceSize - from)

WholeBuffer == BUFFER_SIZE                                      \* faulty
ToWrite == Smaller(BUFFER_SIZE, total_size - written)
Retried == "all"                                                \* faulty
WriteFailed == "failed"

(* write() of a positive count to a block device never returns 0: at the    *)
(* end of the device it fails with ENOSPC.                                  *)
WriteChunk ==
  /\ pc = "all" /\ written < total_size
  /\ \/ \E k \in Accepted(written, ToWrite) \ {0} :
          /\ zeroed' = zeroed \cup Sectors(written, k)
          /\ written' = written + k
          /\ UNCHANGED pc
     \/ pc' = WriteFailed /\ UNCHANGED <<zeroed, written>>
  /\ UNCHANGED <<argument, size_bytes, total_size>>

AllWritten ==
  /\ pc = "all" /\ written >= total_size
  /\ pc' = "done"
  /\ UNCHANGED <<argument, size_bytes, total_size, written, zeroed>>

(* Quick clean: one write() at each end, and a short one is a failure. *)
AnyWritten(k) == k > 0                                          \* faulty
FullyWritten(k) == k = BUFFER_SIZE

WriteEnd(at, from, next) ==
  /\ pc = at
  /\ \E k \in Accepted(from, BUFFER_SIZE) :
       /\ zeroed' = zeroed \cup Sectors(from, k)
       /\ pc' = IF FullyWritten(k) THEN next ELSE "failed"
  /\ UNCHANGED <<argument, size_bytes, total_size, written>>

EndOfDevice == DeviceSize - BUFFER_SIZE                         \* faulty
LastOffset == total_size - BUFFER_SIZE

WriteFirst == WriteEnd("first", 0, "seek")
WriteLast == WriteEnd("last", LastOffset, "done")

(* lseek() refuses an offset before the start or after the end. *)
Seek ==
  /\ pc = "seek"
  /\ pc' = IF LastOffset \in 0 .. DeviceSize THEN "last" ELSE "failed"
  /\ UNCHANGED <<argument, size_bytes, total_size, written, zeroed>>

Kill ==
  /\ pc \in Running
  /\ pc' = "killed"
  /\ UNCHANGED <<argument, size_bytes, total_size, written, zeroed>>

(* The user cleans again, at once or after having used the disk. *)
Again ==
  /\ pc \in Ended
  /\ pc' = "open"
  /\ argument' \in Argument /\ size_bytes' \in SizeBytes
  /\ zeroed' \in {zeroed, {}}
  /\ UNCHANGED <<total_size, written>>

Step == Open \/ Size \/ WriteChunk \/ AllWritten \/ WriteFirst \/ Seek \/ WriteLast
Next == Step \/ Kill \/ Again

(* A command that runs is not stopped forever by the scheduler. *)
Spec == Init /\ [][Next]_vars
FairSpec == Spec /\ WF_vars(Step)

-----------------------------------------------------------------------------
TypeOK ==
  /\ pc \in Running \cup Ended
  /\ argument \in Argument /\ size_bytes \in SizeBytes
  /\ total_size \in Nat /\ written \in 0 .. total_size
  /\ zeroed \subseteq Sector

(* What is to be zeroed of a disk of a size (diskpart_msg.mc:607-616): all  *)
(* of it, or its first and last 1 MB.  "ALL", as the help writes it, is not *)
(* the "all" of clean.c:44 and asks for no more than the two ends.          *)
Region(size) ==
  IF WipeAll THEN Sectors(0, size)
  ELSE Sectors(0, BUFFER_SIZE) \cup Sectors(size - BUFFER_SIZE, BUFFER_SIZE)
Target == Region(total_size)       \* of the size the command goes by
Promised == Region(DeviceSize)     \* of the disk there is

(* clean.c:117 reports success only when the disk is wiped as promised,     *)
(* whatever was written short or failed before: a recorded size behind the  *)
(* end of the device never ends in success.  One that falls short of it is  *)
(* excepted: clean.c:64 believes it, and then only the region of that size  *)
(* is zero, although more of the disk was promised.                         *)
SuccessMeansWiped ==
  pc = "done" =>
    /\ Target \subseteq zeroed
    /\ size_bytes \notin 1 .. DeviceSize - 1 => Promised \subseteq zeroed

(* A failure or a kill half-way never touches a sector outside the region   *)
(* of the size the command goes by: clean implements Wipe.                  *)
W == INSTANCE Wipe WITH
       region  <- IF pc \in Writing \cup {"done"} THEN Target \cap Sector ELSE {},
       outcome <- IF pc \in Writing THEN "wiping"
                  ELSE IF pc = "done" THEN "ok"
                  ELSE IF pc \in {"failed", "killed"} THEN "failed" ELSE "idle"
ImplementsWipe == W!Spec

(* The write loop of clean.c:78-92 ends: a command that runs comes to an    *)
(* end, however short the writes are, also when the size the session        *)
(* carries lies behind the end of the device, where every write fails.      *)
CleanEnds == pc \in Running ~> pc \in Ended

=============================================================================
