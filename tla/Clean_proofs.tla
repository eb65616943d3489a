---------------------------- MODULE Clean_proofs ----------------------------
(***************************************************************************)
(* Theorems about clean_main for every device, buffer and recorded size.   *)
(***************************************************************************)
EXTENDS Clean, TLAPS

(* What has been zeroed at each point of the command, and where its size    *)
(* comes from.  Needed because SuccessMeansWiped speaks of the end only.    *)
Progress ==
  /\ pc = "all" => WipeAll /\ Sectors(0, written) \subseteq zeroed
  /\ pc \in {"first", "seek", "last"} => ~ WipeAll
  /\ pc \in {"seek", "last"} => Sectors(0, BUFFER_SIZE) \subseteq zeroed
  /\ pc = "last" => total_size - BUFFER_SIZE \in 0 .. DeviceSize

RegionWiped == pc = "done" => Target \subseteq zeroed
SizeTaken ==
  pc \in Writing \cup {"done"} =>
    total_size = IF size_bytes > 0 THEN size_bytes ELSE DeviceSize

CleanInv == TypeOK /\ Progress /\ RegionWiped

(* A write stays on the device, whatever the kernel accepts of it. *)
LEMMA AcceptedOnDevice ==
  ASSUME NEW from \in Nat, NEW count \in Int, NEW k \in Accepted(from, count)
  PROVE  /\ k \in Nat /\ k <= count /\ from + k <= DeviceSize
         /\ Sectors(from, k) \subseteq Sector
         /\ Sectors(from, k) \subseteq Sectors(from, count)
  <1>1. k \in Nat /\ k <= count /\ from + k <= DeviceSize
    BY SizeAssumption DEF Accepted, Smaller
  <1> QED BY <1>1, SizeAssumption DEF Sectors, Sector

LEMMA SectorsJoin ==
  \A m, k \in Nat : Sectors(0, m + k) = Sectors(0, m) \cup Sectors(m, k)
  BY DEF Sectors

LEMMA ChunkStep ==
  ASSUME CleanInv, pc = "all",
         NEW k \in Accepted(written, Smaller(BUFFER_SIZE, total_size - written))
  PROVE  /\ k \in Nat /\ written + k \in 0 .. total_size
         /\ Sectors(written, k) \subseteq Target \cap Sector
         /\ Sectors(0, written + k) = Sectors(0, written) \cup Sectors(written, k)
  <1> DEFINE count == Smaller(BUFFER_SIZE, total_size - written)
  <1>1. written \in Nat /\ total_size \in Nat /\ written <= total_size
    BY DEF CleanInv, TypeOK
  <1>2. count \in Nat /\ count <= total_size - written
    BY <1>1, SizeAssumption DEF Smaller
  <1>3. k \in Nat /\ k <= count /\ Sectors(written, k) \subseteq Sector
    BY <1>1, <1>2, AcceptedOnDevice
  <1>4. written + k \in 0 .. total_size
    BY <1>1, <1>2, <1>3
  <1>5. Target = Sectors(0, total_size)
    BY DEF CleanInv, Progress, Target, Region
  <1>6. Sectors(written, k) \subseteq Sectors(0, total_size)
    BY <1>1, <1>3, <1>4 DEF Sectors
  <1> HIDE DEF count
  <1> QED BY <1>1, <1>3, <1>4, <1>5, <1>6, SectorsJoin

LEMMA InvInit == Init => CleanInv
  BY SizeAssumption
  DEF Init, CleanInv, TypeOK, Progress, RegionWiped, Running, Writing

LEMMA InvNext == CleanInv /\ [Next]_vars => CleanInv'
  <1> SUFFICES ASSUME CleanInv, [Next]_vars PROVE CleanInv'
    OBVIOUS
  <1> USE DEF CleanInv, Running, Writing, Ended
  <1>1. CASE Open
    BY <1>1 DEF Open, TypeOK, Progress, RegionWiped
  <1>2. CASE Size
    <2>1. TypeOK'
      BY <1>2, SizeAssumption DEF Size, TypeOK
    <2>2. Progress' /\ RegionWiped'
      BY <1>2 DEF Size, TypeOK, Progress, RegionWiped, WipeAll, Sectors
    <2> QED BY <2>1, <2>2
  <1>3. CASE WriteChunk
    <2>1. CASE pc' = "failed"
      BY <1>3, <2>1, ChunkStep DEF WriteChunk, TypeOK, Progress, RegionWiped, ToWrite, WriteFailed
    <2>2. CASE pc' = "all"
      <3>1. PICK k \in Accepted(written, Smaller(BUFFER_SIZE, total_size - written)) :
              /\ zeroed' = zeroed \cup Sectors(written, k)
              /\ written' = written + k
        BY <1>3, <2>2 DEF WriteChunk, ToWrite, WriteFailed
      <3>2. /\ UNCHANGED <<argument, size_bytes, total_size>> /\ pc = "all"
        BY <1>3 DEF WriteChunk, ToWrite, WriteFailed
      <3>3. TypeOK'
        BY <2>2, <3>1, <3>2, ChunkStep DEF TypeOK
      <3>4. Progress'
        BY <2>2, <3>1, <3>2, ChunkStep DEF Progress, WipeAll
      <3> QED BY <2>2, <3>3, <3>4 DEF RegionWiped
    <2> QED BY <1>3, <2>1, <2>2 DEF WriteChunk, ToWrite, WriteFailed
  <1>4. CASE AllWritten
    <2>1. written = total_size /\ WipeAll /\ Sectors(0, total_size) \subseteq zeroed
      BY <1>4 DEF AllWritten, TypeOK, Progress
    <2> QED BY <1>4, <2>1
            DEF AllWritten, TypeOK, Progress, RegionWiped, Target, Region, WipeAll
  <1>5. CASE WriteFirst
    <2>1. PICK k \in Accepted(0, BUFFER_SIZE) :
            /\ zeroed' = zeroed \cup Sectors(0, k)
            /\ pc' = IF k = BUFFER_SIZE THEN "seek" ELSE "failed"
      BY <1>5 DEF WriteFirst, WriteEnd, FullyWritten
    <2>2. Sectors(0, k) \subseteq Sector
      BY SizeAssumption, AcceptedOnDevice
    <2> QED BY <1>5, <2>1, <2>2
            DEF WriteFirst, WriteEnd, TypeOK, Progress, RegionWiped, WipeAll, FullyWritten
  <1>6. CASE Seek
    BY <1>6 DEF Seek, TypeOK, Progress, RegionWiped, WipeAll, LastOffset
  <1>7. CASE WriteLast
    <2> DEFINE from == total_size - BUFFER_SIZE
    <2>1. from \in Nat /\ pc = "last"
      BY <1>7, SizeAssumption DEF WriteLast, WriteEnd, Progress, TypeOK, FullyWritten, LastOffset
    <2>2. PICK k \in Accepted(from, BUFFER_SIZE) :
            /\ zeroed' = zeroed \cup Sectors(from, k)
            /\ pc' = IF k = BUFFER_SIZE THEN "done" ELSE "failed"
            /\ UNCHANGED <<argument, size_bytes, total_size, written>>
      BY <1>7 DEF WriteLast, WriteEnd, FullyWritten, LastOffset
    <2>3. Sectors(from, k) \subseteq Sector
      BY <2>1, SizeAssumption, AcceptedOnDevice
    <2>4. TypeOK' /\ Progress'
      BY <2>1, <2>2, <2>3 DEF TypeOK, Progress
    <2>5. RegionWiped'
      BY <2>1, <2>2 DEF RegionWiped, Progress, Target, Region, WipeAll
    <2> QED BY <2>4, <2>5
  <1>8. CASE Kill
    BY <1>8 DEF Kill, TypeOK, Progress, RegionWiped
  <1>9. CASE Again
    BY <1>9 DEF Again, TypeOK, Progress, RegionWiped
  <1>10. CASE UNCHANGED vars
    BY <1>10 DEF vars, TypeOK, Progress, RegionWiped, Target, Region, WipeAll
  <1> QED BY <1>1, <1>2, <1>3, <1>4, <1>5, <1>6, <1>7, <1>8, <1>9, <1>10
          DEF Next, Step

LEMMA Invariance == Spec => []CleanInv
  BY InvInit, InvNext, PTL DEF Spec

LEMMA SizeInvariance == Spec => []SizeTaken
  <1> USE DEF SizeTaken, Writing, Running, Ended
  <1>1. Init => SizeTaken
    BY DEF Init
  <1>2. TypeOK /\ SizeTaken /\ [Next]_vars => SizeTaken'
    <2> SUFFICES ASSUME TypeOK, SizeTaken, [Next]_vars PROVE SizeTaken'
      OBVIOUS
    <2>1. CASE Size
      BY <2>1, SizeAssumption DEF Size, TypeOK
    <2>2. CASE Open \/ WriteChunk \/ AllWritten \/ WriteFirst \/ Seek \/ WriteLast
      BY <2>2 DEF Open, WriteChunk, AllWritten, WriteFirst, Seek, WriteLast, WriteEnd, WriteFailed
    <2>3. CASE Kill \/ Again \/ UNCHANGED vars
      BY <2>3 DEF Kill, Again, vars
    <2> QED BY <2>1, <2>2, <2>3 DEF Next, Step
  <1>3. CleanInv => TypeOK
    BY DEF CleanInv
  <1> QED BY <1>1, <1>2, <1>3, Invariance, PTL DEF Spec

(* Every variable of a clean keeps its type; no sector outside of the device*)
(* is ever written (TypeOK).                                                *)
THEOREM CleanTypeCorrect == Spec => []TypeOK
  <1>1. CleanInv => TypeOK
    BY DEF CleanInv
  <1> QED BY <1>1, Invariance, PTL

(* "Disk cleaned successfully." is only said of a disk that is wiped as     *)
(* promised, whatever write() accepted on the way, unless the size recorded *)
(* for it falls short of the device (SuccessMeansWiped).                    *)
THEOREM SuccessIsWiped == Spec => []SuccessMeansWiped
  <1>1. CleanInv /\ SizeTaken => SuccessMeansWiped
    <2> SUFFICES ASSUME CleanInv, SizeTaken, pc = "done", size_bytes \notin 1 .. DeviceSize - 1
                 PROVE  Promised \subseteq zeroed
      BY DEF CleanInv, RegionWiped, SuccessMeansWiped
    <2>1. /\ Target \subseteq zeroed /\ zeroed \subseteq Sector
          /\ size_bytes \in Nat /\ total_size \in Nat
          /\ total_size = IF size_bytes > 0 THEN size_bytes ELSE DeviceSize
      BY SizeAssumption DEF CleanInv, RegionWiped, SizeTaken, TypeOK
    <2>2. DeviceSize \in Nat \ {0} /\ BUFFER_SIZE \in Nat \ {0} /\ total_size >= DeviceSize
      BY <2>1, SizeAssumption
    (* The last sector of the region is one of the device. *)
    <2>3. total_size - 1 \in Target
      BY <2>1, <2>2 DEF Target, Region, Sectors
    <2>4. total_size = DeviceSize
      BY <2>1, <2>2, <2>3 DEF Sector
    <2> QED BY <2>1, <2>4 DEF Target, Promised
  <1> QED BY <1>1, Invariance, SizeInvariance, PTL

-----------------------------------------------------------------------------
(* Every step of clean_main is a step of Wipe or leaves it alone. *)
LEMMA StepOfWipe == CleanInv /\ [Next]_vars => [W!Next]_(W!wipeVars)
  <1> SUFFICES ASSUME CleanInv, [Next]_vars PROVE [W!Next]_(W!wipeVars)
    OBVIOUS
  <1> USE DEF Writing, Running, Ended
  <1>1. ASSUME NEW s \in SUBSET Sector, W!Zero(s) \/ W!Fail(s) \/ W!Succeed(s)
        PROVE  W!Next
    BY <1>1 DEF W!Next
  <1>2. ASSUME pc \in Running, pc' \in {"failed", "killed"},
               UNCHANGED zeroed
        PROVE  W!Next
    <2>1. W!Fail({})
      BY <1>2 DEF W!Fail
    <2> QED BY <2>1, <1>1
  <1>3. CASE Open
    BY <1>2, <1>3 DEF Open, W!wipeVars
  <1>4. CASE Size
    <2>1. CASE pc' = "failed"
      BY <1>2, <1>4, <2>1 DEF Size
    <2>2. CASE pc' \in {"all", "first"}
      <3>1. W!Begin((Target \cap Sector)')
        BY <1>4, <2>2 DEF Size, W!Begin
      <3>2. (Target \cap Sector)' \in SUBSET Sector
        BY DEF Sector
      <3> QED BY <3>1, <3>2 DEF W!Next
    <2> QED BY <1>4, <2>1, <2>2 DEF Size
  <1>5. CASE WriteChunk
    <2>1. CASE pc' = "failed"
      BY <1>2, <1>5, <2>1 DEF WriteChunk, CleanInv, ToWrite, WriteFailed
    <2>2. CASE pc' = "all"
      <3>1. PICK k \in Accepted(written, Smaller(BUFFER_SIZE, total_size - written)) :
              zeroed' = zeroed \cup Sectors(written, k)
        BY <1>5, <2>2 DEF WriteChunk, ToWrite, WriteFailed
      <3>2. pc = "all" /\ UNCHANGED <<argument, total_size>>
        BY <1>5 DEF WriteChunk, ToWrite, WriteFailed
      <3>3. Sectors(written, k) \subseteq Target \cap Sector
        BY <3>2, ChunkStep
      <3>4. W!Zero(Sectors(written, k))
        BY <2>2, <3>1, <3>2, <3>3 DEF W!Zero, Target, Region, WipeAll
      <3> QED BY <1>1, <3>3, <3>4
    <2> QED BY <1>5, <2>1, <2>2 DEF WriteChunk, ToWrite, WriteFailed
  <1>6. CASE AllWritten
    <2>1. pc = "all" /\ pc' = "done" /\ UNCHANGED <<argument, total_size, zeroed>>
      BY <1>6 DEF AllWritten
    <2>2. Target \subseteq zeroed
      BY <1>6 DEF AllWritten, CleanInv, TypeOK, Progress, Target, Region
    <2>3. W!Succeed({})
      BY <2>1, <2>2 DEF W!Succeed, Target, Region, WipeAll
    <2> QED BY <1>1, <2>3
  <1>7. CASE WriteFirst
    <2>1. PICK k \in Accepted(0, BUFFER_SIZE) :
            /\ zeroed' = zeroed \cup Sectors(0, k)
            /\ pc' = IF k = BUFFER_SIZE THEN "seek" ELSE "failed"
      BY <1>7 DEF WriteFirst, WriteEnd, FullyWritten
    <2>2. pc = "first" /\ UNCHANGED <<argument, total_size>>
      BY <1>7 DEF WriteFirst, WriteEnd, FullyWritten
    <2>3. Sectors(0, k) \subseteq Target \cap Sector
      BY <2>2, SizeAssumption, AcceptedOnDevice DEF CleanInv, Progress, Target, Region
    <2>4. W!Zero(Sectors(0, k)) \/ W!Fail(Sectors(0, k))
      BY <2>1, <2>2, <2>3 DEF W!Zero, W!Fail, Target, Region, WipeAll
    <2> QED BY <1>1, <2>3, <2>4
  <1>8. CASE Seek
    BY <1>2, <1>8 DEF Seek, W!wipeVars, Target, Region, WipeAll, LastOffset
  <1>9. CASE WriteLast
    <2> DEFINE from == total_size - BUFFER_SIZE
    <2>1. from \in Nat /\ pc = "last" /\ ~ WipeAll
      BY <1>9, SizeAssumption DEF WriteLast, WriteEnd, CleanInv, Progress, TypeOK, FullyWritten, LastOffset
    <2>2. PICK k \in Accepted(from, BUFFER_SIZE) :
            /\ zeroed' = zeroed \cup Sectors(from, k)
            /\ pc' = IF k = BUFFER_SIZE THEN "done" ELSE "failed"
            /\ UNCHANGED <<argument, total_size>>
      BY <1>9 DEF WriteLast, WriteEnd, FullyWritten, LastOffset
    <2>3. Sectors(from, k) \subseteq Target \cap Sector
      BY <2>1, SizeAssumption, AcceptedOnDevice DEF Target, Region
    <2>4. CASE pc' = "failed"
      <3>1. W!Fail(Sectors(from, k))
        BY <2>1, <2>2, <2>3, <2>4 DEF W!Fail
      <3> QED BY <1>1, <2>3, <3>1
    <2>5. CASE pc' = "done"
      <3>1. (Target \subseteq zeroed)'
        BY <2>5, <1>9, InvNext DEF CleanInv, RegionWiped
      <3>2. W!Succeed(Sectors(from, k))
        BY <2>1, <2>2, <2>3, <2>5, <3>1 DEF W!Succeed, Target, Region, WipeAll
      <3> QED BY <1>1, <2>3, <3>2
    <2> QED BY <2>2, <2>4, <2>5
  <1>10. CASE Kill
    BY <1>2, <1>10 DEF Kill
  <1>11. CASE Again
    <2>1. W!Reuse
      BY <1>11 DEF Again, W!Reuse, CleanInv, TypeOK
    <2> QED BY <2>1 DEF W!Next
  <1>12. CASE UNCHANGED vars
    BY <1>12 DEF vars, W!wipeVars, Target, Region, WipeAll
  <1> QED BY <1>3, <1>4, <1>5, <1>6, <1>7, <1>8, <1>9, <1>10, <1>11, <1>12
          DEF Next, Step

(* clean implements Wipe: it zeroes sectors of the region only, before and  *)
(* after every failure, and says so only when it is done (ImplementsWipe).  *)
THEOREM CleanImplementsWipe == Spec => ImplementsWipe
  <1>1. Init => W!Init
    BY DEF Init, W!Init, Writing
  <1> QED BY <1>1, StepOfWipe, Invariance, PTL DEF Spec, ImplementsWipe, W!Spec
=============================================================================
