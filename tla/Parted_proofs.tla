--------------------------- MODULE Parted_proofs ---------------------------
(***************************************************************************)
(* Theorems about active and create for any number of processes, any       *)
(* device, any tables and any sizes.                                       *)
(***************************************************************************)
EXTENDS Parted, TLAPS

LEMMA SectorType == \A mb \in Nat : SizeInSectors(mb) \in Nat
  <1> SUFFICES ASSUME NEW mb \in Nat PROVE SizeInSectors(mb) \in Nat
    OBVIOUS
  <1>1. mb * MB \in Nat
    BY PartedAssumption
  <1>2. (mb * MB) % Word \in Nat
    BY <1>1, PartedAssumption
  <1> QED BY <1>2, PartedAssumption DEF SizeInSectors

LEMMA EndType ==
  \A first, last \in Int, mb \in Nat : EndSector(first, last, mb) \in Int
  BY SectorType DEF EndSector

LEMMA BlankType == Blank \in Table
  BY DEF Blank, Table

LEMMA FlagsType ==
  ASSUME NEW t \in Table, NEW off \in SUBSET Used(t), NEW on \in SUBSET Used(t)
  PROVE  /\ WithFlags(t, off, on) \in Table
         /\ Used(WithFlags(t, off, on)) = Used(t)
         /\ \A n \in Used(t) :
              /\ WithFlags(t, off, on)[n].type = t[n].type
              /\ WithFlags(t, off, on)[n].first = t[n].first
              /\ WithFlags(t, off, on)[n].last = t[n].last
  <1>1. ASSUME NEW n \in Used(t), NEW b \in BOOLEAN
        PROVE  [t[n] EXCEPT !.boot = b] \in Entry
    BY <1>1 DEF Used, Table, Entry
  <1>2. \A n \in Num : WithFlags(t, off, on)[n] \in Entry \cup {NULL}
    BY <1>1 DEF WithFlags, Used, Table
  <1>3. \A n \in Num : t[n] = NULL => WithFlags(t, off, on)[n] = NULL
    BY DEF WithFlags, Used
  <1>4. \A n \in Num : t[n] # NULL => WithFlags(t, off, on)[n] # NULL
    BY <1>1, PartedAssumption DEF WithFlags, Used, Table
  <1>5. WithFlags(t, off, on) \in Table
    BY <1>2 DEF WithFlags, Table
  <1>6. Used(WithFlags(t, off, on)) = Used(t)
    BY <1>3, <1>4 DEF Used
  <1>7. ASSUME NEW n \in Used(t)
        PROVE  /\ WithFlags(t, off, on)[n].type = t[n].type
               /\ WithFlags(t, off, on)[n].first = t[n].first
               /\ WithFlags(t, off, on)[n].last = t[n].last
    BY <1>7 DEF WithFlags, Used, Table, Entry
  <1> QED BY <1>5, <1>6, <1>7

(* What a process leaves behind when it ends is well-typed. *)
LEMMA EndsType ==
  ASSUME TypeOK, NEW p \in Proc, NEW how \in {"nothing", "ok", "failed"},
         NEW has \in SUBSET Object, NEW freed,
         Ends(p, how, has, freed)
  PROVE  /\ pc' \in [Proc -> Labels] /\ said' \in [Proc -> {"nothing", "ok", "failed"}]
         /\ held' \in [Proc -> SUBSET Object]
         /\ misfreed' \in [Proc -> Labels \cup {"no"}]
         /\ table' \in [Proc -> Table] /\ space' \in [Proc -> Int \X Int]
         /\ \A q \in Proc : pc'[q] = IF q = p THEN "ended" ELSE pc[q]
         /\ \A q \in Proc : table'[q] = IF q = p THEN Blank ELSE table[q]
  <1>1. Nowhere \in Int \X Int
    BY DEF Nowhere
  <1> QED BY <1>1, BlankType DEF Ends, TypeOK, Labels

(* An action that ends a process and does no more than write the device. *)
LEMMA EndsOK ==
  ASSUME TypeOK, NEW p \in Proc, NEW how \in {"nothing", "ok", "failed"},
         NEW has \in SUBSET Object, NEW freed,
         Ends(p, how, has, freed), job' = job, device' \in Table,
         latest' \in Proc \cup {NULL}, UNCHANGED <<unset, uncleared>>
  PROVE  TypeOK'
  <1>1. /\ pc' \in [Proc -> Labels] /\ said' \in [Proc -> {"nothing", "ok", "failed"}]
        /\ held' \in [Proc -> SUBSET Object]
        /\ misfreed' \in [Proc -> Labels \cup {"no"}]
        /\ table' \in [Proc -> Table] /\ space' \in [Proc -> Int \X Int]
        /\ \A q \in Proc : pc'[q] = IF q = p THEN "ended" ELSE pc[q]
        /\ \A q \in Proc : table'[q] = IF q = p THEN Blank ELSE table[q]
    BY EndsType
  <1>2. /\ job' \in [Proc -> Job] /\ unset' \in [Proc -> BOOLEAN]
        /\ uncleared' \in BOOLEAN
    BY DEF TypeOK
  <1>3. ASSUME NEW q \in Proc
        PROVE  /\ pc'[q] \in {"select", "flags", "sync"} => job'[q].tool = "active"
               /\ pc'[q] \in {"find", "new", "add"} => job'[q].tool = "create"
               /\ pc'[q] \in {"new", "add"} => job'[q].type \in Types
               /\ pc'[q] = "flags" => job'[q].num \in Used(table'[q])
    BY <1>1 DEF TypeOK
  <1> QED BY <1>1, <1>2, <1>3 DEF TypeOK

LEMMA EnterType ==
  ASSUME TypeOK, NEW p \in Proc, NEW label \in Labels, Enter(p, label)
  PROVE  /\ pc' \in [Proc -> Labels] /\ said' \in [Proc -> {"nothing", "ok", "failed"}]
         /\ misfreed' \in [Proc -> Labels \cup {"no"}]
         /\ \A q \in Proc : pc'[q] = IF q = p THEN label ELSE pc[q]
  BY DEF Enter, TypeOK

-----------------------------------------------------------------------------
(* Every variable keeps its type; a process that moves flags has found the  *)
(* partition it was asked for in its own copy of the table (TypeOK).        *)
THEOREM TypeCorrect == Spec => []TypeOK
  <1>1. Init => TypeOK
    <2> SUFFICES ASSUME Init PROVE TypeOK
      OBVIOUS
    <2>1. device \in Table
      BY TablesAssumption DEF Init
    <2>2. Nowhere \in Int \X Int
      BY DEF Nowhere
    <2> QED BY <2>1, <2>2, BlankType DEF Init, TypeOK, Labels
  <1>2. TypeOK /\ [Next]_vars => TypeOK'
    <2> SUFFICES ASSUME TypeOK, [Next]_vars PROVE TypeOK'
      OBVIOUS
    <2> USE DEF Labels
    <2>0. OfDevice \subseteq OfDisk /\ OfDevice \in SUBSET Object
          /\ {} \in SUBSET Object /\ {"device"} \in SUBSET Object
          /\ OfDisk \in SUBSET Object
          /\ \A p \in Proc : /\ held[p] \in SUBSET Object
                             /\ held[p] \cup {"geometry"} \in SUBSET Object
                             /\ held[p] \cup {"constraint"} \in SUBSET Object
      BY DEF OfDevice, OfDisk, Object, Lost, TypeOK
    <2>1. ASSUME NEW p \in Proc, NEW j \in Job, Start(p, j) PROVE TypeOK'
      <3>1. Nowhere \in Int \X Int
        BY DEF Nowhere
      <3> QED BY <2>1, <3>1 DEF Start, TypeOK
    <2>2. ASSUME NEW p \in Proc, Open(p) PROVE TypeOK'
      <3>1. CASE Goto(p, "read") /\ held' = [held EXCEPT ![p] = OfDevice] /\ UNCHANGED table
        BY <2>0, <2>2, <3>1, EnterType DEF Open, Goto, TypeOK, history
      <3>2. CASE Ends(p, "failed", {}, {}) \/ Ends(p, "failed", {"device"}, {"device"})
        BY <2>0, <2>2, <3>2, EndsType DEF Open, TypeOK, history
      <3> QED BY <2>2, <3>1, <3>2 DEF Open
    <2>3. ASSUME NEW p \in Proc, ReadTable(p) PROVE TypeOK'
      <3>1. CASE Ends(p, "failed", held[p], OfDevice)
        BY <2>0, <2>3, <3>1, EndsType DEF ReadTable, TypeOK, history
      <3>2. CASE table' = [table EXCEPT ![p] = device]
        <4>1. job[p].tool \in {"active", "create"}
          BY PartedAssumption DEF TypeOK, ActiveJob, CreateJob
        <4>2. table' \in [Proc -> Table]
          BY <3>2 DEF TypeOK
        <4>3. (IF job[p].tool = "active" THEN "select" ELSE "find") \in Labels
          OBVIOUS
        <4>4. CASE Goto(p, IF job[p].tool = "active" THEN "select" ELSE "find")
                   /\ held' = [held EXCEPT ![p] = OfDisk]
          BY <2>0, <2>3, <3>2, <4>1, <4>2, <4>3, <4>4, EnterType
             DEF ReadTable, Goto, TypeOK, history
        <4> QED BY <2>3, <3>1, <4>4 DEF ReadTable
      <3> QED BY <2>3, <3>1, <3>2 DEF ReadTable
    <2>4. ASSUME NEW p \in Proc, SelectPartition(p) PROVE TypeOK'
      <3>1. CASE Ends(p, "failed", held[p], OfDisk)
        BY <2>0, <2>4, <3>1, EndsType DEF SelectPartition, TypeOK, history
      <3>2. CASE Goto(p, "flags") /\ UNCHANGED <<table, held>> /\ Found(table[p], job[p].num)
        BY <2>4, <3>2, EnterType DEF SelectPartition, Goto, Found, TypeOK, history
      <3> QED BY <2>4, <3>1, <3>2 DEF SelectPartition
    <2>5. ASSUME NEW p \in Proc, SetPartitionActive(p) PROVE TypeOK'
      <3> PICK refused \in SUBSET Cleared(table[p]), on \in {{}, {job[p].num}} :
               /\ table' = [table EXCEPT ![p] = WithFlags(@, Cleared(@) \ refused, on)]
               /\ uncleared' = (uncleared \/ refused # {})
               /\ unset' = [unset EXCEPT ![p] = (on = {})]
        BY <2>5 DEF SetPartitionActive
      <3>1. WithFlags(table[p], Cleared(table[p]) \ refused, on) \in Table
        <4>1. table[p] \in Table /\ on \in SUBSET Used(table[p])
          BY <2>5 DEF SetPartitionActive, TypeOK, Used
        <4>2. Cleared(table[p]) \ refused \in SUBSET Used(table[p])
          BY DEF Cleared
        <4> DEFINE t == table[p]
        <4> DEFINE off == Cleared(t) \ refused
        <4>3. t \in Table /\ off \in SUBSET Used(t) /\ on \in SUBSET Used(t)
          BY <4>1, <4>2
        <4> HIDE DEF t, off
        <4>4. WithFlags(t, off, on) \in Table
          BY <4>3, FlagsType
        <4> QED BY <4>4 DEF t, off
      <3>2. table' \in [Proc -> Table]
        BY <3>1 DEF TypeOK
      <3>3. uncleared' \in BOOLEAN /\ unset' \in [Proc -> BOOLEAN]
        BY DEF TypeOK
      <3>4. \A q \in Proc : q # p => table'[q] = table[q]
        BY DEF TypeOK
      <3>5. job[p].tool = "active"
        BY <2>5 DEF SetPartitionActive, TypeOK
      <3> QED BY <2>5, <3>2, <3>3, <3>4, <3>5, EnterType DEF SetPartitionActive, Goto, TypeOK
    <2>6. ASSUME NEW p \in Proc, FindSpace(p) PROVE TypeOK'
      <3>1. CASE \/ Ends(p, "failed", held[p], OfDisk)
                 \/ Ends(p, "failed", held[p] \cup {"geometry"}, OfDisk)
        <4>1. PICK has \in SUBSET Object : Ends(p, "failed", has, OfDisk)
          BY <2>0, <3>1
        <4> QED BY <2>6, <4>1, EndsType DEF FindSpace, TypeOK, history
      <3>2. ASSUME NEW first \in Sector, NEW last \in Sector,
                   space' = [space EXCEPT ![p] =
                               <<first, EndSector(first, last, job[p].size)>>],
                   held' = [held EXCEPT ![p] = @ \cup {"geometry"}],
                   Enter(p, "new"), UNCHANGED table, job[p].type # "other"
            PROVE  TypeOK'
        <4>1. job[p].size \in Nat
          BY <2>6, PartedAssumption DEF FindSpace, TypeOK, ActiveJob, CreateJob
        <4>2. first \in Int /\ last \in Int
          BY PartedAssumption DEF Sector
        <4>3. EndSector(first, last, job[p].size) \in Int
          BY <4>1, <4>2, EndType
        <4>4. space' \in [Proc -> Int \X Int]
          BY <3>2, <4>2, <4>3 DEF TypeOK
        <4>5. job[p].type \in Types
          BY <2>6, <3>2, PartedAssumption DEF FindSpace, TypeOK, ActiveJob, CreateJob
        <4>6. held' \in [Proc -> SUBSET Object]
          BY <2>0, <3>2 DEF TypeOK
        <4> QED BY <2>6, <3>2, <4>4, <4>5, <4>6, EnterType DEF FindSpace, TypeOK, history
      <3> QED BY <2>6, <3>1, <3>2 DEF FindSpace
    <2>7. ASSUME NEW p \in Proc, NewPartition(p) PROVE TypeOK'
      <3>1. CASE Ends(p, "failed", held[p], OfDisk)
        BY <2>0, <2>7, <3>1, EndsType DEF NewPartition, TypeOK, history
      <3>2. CASE Goto(p, "add") /\ held' = [held EXCEPT ![p] = @ \cup {"part"}] /\ UNCHANGED table
        <4>1. held' \in [Proc -> SUBSET Object]
          BY <3>2 DEF TypeOK, Object
        <4> QED BY <2>7, <3>2, <4>1, EnterType DEF NewPartition, Goto, TypeOK, history
      <3> QED BY <2>7, <3>1, <3>2 DEF NewPartition
    <2>8. ASSUME NEW p \in Proc, AddPartition(p) PROVE TypeOK'
      <3>1. CASE Ends(p, "failed", held[p] \cup {"constraint"}, AddFailedFrees)
        BY <2>0, <2>8, <3>1, EndsType DEF AddPartition, TypeOK, history
      <3>2. ASSUME NEW n \in Num, n \notin Used(table[p]),
                   table' = [table EXCEPT ![p][n] =
                               Partition(job[p].type, space[p][1], space[p][2], FALSE)],
                   held' = [held EXCEPT ![p] = (@ \ {"part"}) \cup {"constraint"}],
                   Goto(p, "commit")
            PROVE  TypeOK'
        <4>1. job[p].tool = "create" /\ pc[p] = "add"
          BY <2>8 DEF AddPartition, TypeOK
        <4>2. Partition(job[p].type, space[p][1], space[p][2], FALSE) \in Entry
          BY <4>1, PartedAssumption DEF TypeOK, CreateJob, ActiveJob, Partition, Entry
        <4>3. table' \in [Proc -> Table] /\ \A q \in Proc : q # p => table'[q] = table[q]
          BY <3>2, <4>2 DEF TypeOK, Table
        <4>4. held' \in [Proc -> SUBSET Object]
          BY <3>2 DEF TypeOK, Object, Lost
        <4> QED BY <2>8, <3>2, <4>1, <4>3, <4>4, EnterType DEF AddPartition, TypeOK, Goto, history
      <3> QED BY <2>8, <3>1, <3>2, PartedAssumption DEF AddPartition
    <2>9. ASSUME NEW p \in Proc, CommitActive(p) PROVE TypeOK'
      <3>1. device' \in Table /\ latest' \in Proc \cup {NULL}
        BY <2>9 DEF CommitActive, Writes, WritesOrNot, TypeOK
      <3>2. CASE Goto(p, "sync") /\ UNCHANGED <<table, held>>
        BY <2>9, <3>1, <3>2, EnterType DEF CommitActive, Goto, TypeOK
      <3>3. CASE Ends(p, "failed", held[p], OfDisk)
        BY <2>0, <2>9, <3>1, <3>3, EndsType DEF CommitActive, TypeOK
      <3> QED BY <2>9, <3>2, <3>3 DEF CommitActive
    <2>10. ASSUME NEW p \in Proc, SyncDevice(p) PROVE TypeOK'
      <3>1. PICK how \in {"nothing", "ok", "failed"} : Ends(p, how, held[p], OfDisk)
        BY <2>10 DEF SyncDevice
      <3>2. job' = job /\ device' \in Table /\ latest' \in Proc \cup {NULL}
            /\ UNCHANGED <<unset, uncleared>>
        BY <2>10 DEF SyncDevice, TypeOK, history
      <3> QED BY <2>0, <3>1, <3>2, EndsOK
    <2>11. ASSUME NEW p \in Proc, CommitNew(p) PROVE TypeOK'
      <3>1. device' \in Table /\ latest' \in Proc \cup {NULL}
        BY <2>11 DEF CommitNew, Writes, WritesOrNot, TypeOK
      <3>2. PICK how \in {"nothing", "ok", "failed"} : \E freed : Ends(p, how, held[p], freed)
        BY <2>11 DEF CommitNew, CommitFailed
      <3>3. job' = job /\ UNCHANGED <<unset, uncleared>>
        BY <2>11 DEF CommitNew
      <3> QED BY <2>0, <3>1, <3>2, <3>3, EndsOK
    <2>12. ASSUME NEW p \in Proc, Kill(p) PROVE TypeOK'
      BY <2>0, <2>12, EndsType DEF Kill, TypeOK, history
    <2>13. CASE UNCHANGED vars
      BY <2>13 DEF vars, TypeOK
    <2> QED BY <2>1, <2>2, <2>3, <2>4, <2>5, <2>6, <2>7, <2>8, <2>9, <2>10, <2>11, <2>12, <2>13
            DEF Next
  <1> QED BY <1>1, <1>2, PTL DEF Spec

-----------------------------------------------------------------------------
(* The space a create has chosen lies in no partition of its copy.          *)
SpaceIsFree ==
  \A p \in Proc : pc[p] \in {"new", "add"} =>
    \A n \in Used(table[p]) :
      table[p][n].last < space[p][1] \/ space[p][2] < table[p][n].first

LEMMA EndedHasNoSpace ==
  ASSUME TypeOK, SpaceIsFree, NEW p \in Proc, NEW how, NEW has, NEW freed,
         Ends(p, how, has, freed)
  PROVE  SpaceIsFree'
  <1> SUFFICES ASSUME NEW q \in Proc, pc'[q] \in {"new", "add"}
               PROVE  /\ q # p /\ pc'[q] = pc[q]
                      /\ table'[q] = table[q] /\ space'[q] = space[q]
    BY DEF SpaceIsFree, Used
  <1> QED BY DEF Ends, TypeOK

LEMMA SpaceStays ==
  ASSUME TypeOK, SpaceIsFree, NEW p \in Proc,
         pc' = [pc EXCEPT ![p] = pc'[p]], pc'[p] \notin {"new", "add"},
         \A q \in Proc \ {p} : table'[q] = table[q] /\ space'[q] = space[q]
  PROVE  SpaceIsFree'
  BY DEF SpaceIsFree, TypeOK, Used

LEMMA SpaceNext == TypeOK /\ SpaceIsFree /\ [Next]_vars => SpaceIsFree'
  <1> SUFFICES ASSUME TypeOK, SpaceIsFree, [Next]_vars PROVE SpaceIsFree'
    OBVIOUS
  <1>1. ASSUME NEW p \in Proc, NEW j \in Job, Start(p, j) PROVE SpaceIsFree'
    BY <1>1 DEF Start, SpaceIsFree, TypeOK, Used
  <1>2. ASSUME NEW p \in Proc, Open(p) PROVE SpaceIsFree'
    BY <1>2, EndedHasNoSpace, SpaceStays DEF Open, Goto, Enter, TypeOK
  <1>3. ASSUME NEW p \in Proc, ReadTable(p) PROVE SpaceIsFree'
    BY <1>3, EndedHasNoSpace, SpaceStays DEF ReadTable, Goto, Enter, TypeOK
  <1>4. ASSUME NEW p \in Proc, SelectPartition(p) PROVE SpaceIsFree'
    BY <1>4, EndedHasNoSpace, SpaceStays DEF SelectPartition, Goto, Enter, TypeOK
  <1>5. ASSUME NEW p \in Proc, SetPartitionActive(p) PROVE SpaceIsFree'
    BY <1>5, SpaceStays DEF SetPartitionActive, Goto, Enter, TypeOK
  <1>6. ASSUME NEW p \in Proc, FindSpace(p) PROVE SpaceIsFree'
    <2>1. CASE \E has : Ends(p, "failed", has, OfDisk)
      BY <2>1, EndedHasNoSpace
    <2>2. ASSUME NEW first \in Sector, NEW last \in Sector,
                 FreeSpace(table[p], first, last), Fits(first, last, job[p].size),
                 space' = [space EXCEPT ![p] = <<first, EndSector(first, last, job[p].size)>>],
                 Enter(p, "new"), UNCHANGED table, job[p].type # "other"
          PROVE  SpaceIsFree'
      <3>1. job[p].size \in Nat
        BY <1>6, PartedAssumption DEF FindSpace, TypeOK, ActiveJob, CreateJob
      <3>2. first \in Int /\ last \in Int
        BY PartedAssumption DEF Sector
      <3>8. EndSector(first, last, job[p].size) \in Int
        BY <3>1, <3>2, EndType
      <3>3. space'[p][1] = first /\ space'[p][2] = EndSector(first, last, job[p].size)
        BY <2>2 DEF TypeOK
      <3>4. \A n \in Used(table[p]) : table[p][n] \in Entry
        BY DEF Used, TypeOK, Table
      <3>5. \A n \in Used(table[p]) :
              table[p][n].last < space'[p][1] \/ space'[p][2] < table[p][n].first
        BY <2>2, <3>2, <3>8, <3>3, <3>4 DEF FreeSpace, Fits, Entry
      <3>6. \A q \in Proc : pc'[q] = IF q = p THEN "new" ELSE pc[q]
        BY <2>2 DEF Enter, TypeOK
      <3>7. \A q \in Proc \ {p} : space'[q] = space[q]
        BY <2>2 DEF TypeOK
      <3> QED BY <2>2, <3>5, <3>6, <3>7 DEF SpaceIsFree, Used
    <2> QED BY <1>6, <2>1, <2>2 DEF FindSpace
  <1>7. ASSUME NEW p \in Proc, NewPartition(p) PROVE SpaceIsFree'
    <2>1. CASE Ends(p, "failed", held[p], OfDisk)
      BY <2>1, EndedHasNoSpace
    <2>2. CASE Goto(p, "add") /\ UNCHANGED table
      BY <1>7, <2>2 DEF NewPartition, Goto, Enter, SpaceIsFree, TypeOK, Used
    <2> QED BY <1>7, <2>1, <2>2 DEF NewPartition
  <1>8. ASSUME NEW p \in Proc, AddPartition(p) PROVE SpaceIsFree'
    <2>1. CASE Ends(p, "failed", held[p] \cup {"constraint"}, AddFailedFrees)
      BY <2>1, EndedHasNoSpace
    <2>2. ASSUME NEW n \in Num, NEW e, table' = [table EXCEPT ![p][n] = e], Goto(p, "commit")
          PROVE  SpaceIsFree'
      <3>1. \A q \in Proc \ {p} : table'[q] = table[q] /\ space'[q] = space[q]
        BY <2>2 DEF Goto, TypeOK
      <3>2. pc'[p] = "commit" /\ pc' = [pc EXCEPT ![p] = "commit"]
        BY <2>2 DEF Goto, Enter, TypeOK
      <3> QED BY <3>1, <3>2, SpaceStays
    <2> QED BY <1>8, <2>1, <2>2, PartedAssumption DEF AddPartition
  <1>9. ASSUME NEW p \in Proc, CommitActive(p) PROVE SpaceIsFree'
    BY <1>9, EndedHasNoSpace, SpaceStays DEF CommitActive, Goto, Enter, TypeOK
  <1>10. ASSUME NEW p \in Proc, SyncDevice(p) \/ CommitNew(p) \/ Kill(p) PROVE SpaceIsFree'
    BY <1>10, EndedHasNoSpace DEF SyncDevice, CommitNew, Kill
  <1>11. CASE UNCHANGED vars
    BY <1>11 DEF vars, SpaceIsFree, Used
  <1> QED BY <1>1, <1>2, <1>3, <1>4, <1>5, <1>6, <1>7, <1>8, <1>9, <1>10, <1>11 DEF Next

LEMMA SpaceInvariance == Spec => []SpaceIsFree
  <1>1. Init => SpaceIsFree
    BY DEF Init, SpaceIsFree
  <1> QED BY <1>1, SpaceNext, TypeCorrect, PTL DEF Spec

-----------------------------------------------------------------------------
(* Every step of the programs is one of TableEditing, or leaves the device  *)
(* and all copies alone.                                                    *)
LEMMA EndDrops ==
  ASSUME NEW p \in Proc, NEW how, NEW has, NEW freed, Ends(p, how, has, freed),
         UNCHANGED device
  PROVE  E!Next
  <1>1. E!Drop(p)
    BY DEF Ends, E!Drop
  <1> QED BY <1>1 DEF E!Next

LEMMA WriteIsWrite ==
  ASSUME NEW p \in Proc, Writes(p),
         UNCHANGED table \/ table' = [table EXCEPT ![p] = Blank]
  PROVE  E!Next
  <1>1. E!Write(p)
    BY DEF Writes, E!Write
  <1> QED BY <1>1 DEF E!Next

LEMMA FlagsAreMoved ==
  ASSUME TypeOK, NEW p \in Proc, SetPartitionActive(p)
  PROVE  E!Next
  <1> PICK refused \in SUBSET Cleared(table[p]), on \in {{}, {job[p].num}} :
           table' = [table EXCEPT ![p] = WithFlags(@, Cleared(@) \ refused, on)]
    BY DEF SetPartitionActive
  <1> DEFINE t == table[p]
  <1> DEFINE off == Cleared(t) \ refused
  <1> DEFINE new == WithFlags(t, off, on)
  <1>1. t \in Table /\ off \in SUBSET Used(t) /\ on \in SUBSET Used(t)
    BY DEF SetPartitionActive, TypeOK, Used, Cleared
  <1>2. table' = [table EXCEPT ![p] = new] /\ UNCHANGED device /\ table'[p] = new
    BY DEF SetPartitionActive, TypeOK
  <1> HIDE DEF t, off
  <1>3. /\ new \in Table /\ Used(new) = Used(t)
        /\ \A n \in Used(t) : E!SamePlace(new[n], t[n])
    <2>1. /\ WithFlags(t, off, on) \in Table /\ Used(WithFlags(t, off, on)) = Used(t)
          /\ \A n \in Used(t) :
               /\ WithFlags(t, off, on)[n].type = t[n].type
               /\ WithFlags(t, off, on)[n].first = t[n].first
               /\ WithFlags(t, off, on)[n].last = t[n].last
      BY <1>1, FlagsType
    <2>2. /\ new \in Table /\ Used(new) = Used(t)
          /\ \A n \in Used(t) : /\ new[n].type = t[n].type
                               /\ new[n].first = t[n].first /\ new[n].last = t[n].last
      BY <2>1
    <2> HIDE DEF new
    <2> QED BY <2>2 DEF E!SamePlace
  <1> HIDE DEF new
  <1>4. new \in [Num -> {NULL} \cup {table'[p][n] : n \in Num}]
    BY <1>2, <1>3 DEF Table
  <1>5. E!MoveFlags(p)
    BY <1>2, <1>3, <1>4 DEF E!MoveFlags, E!Used, Used, t
  <1> QED BY <1>5 DEF E!Next

LEMMA PartitionIsAdded ==
  ASSUME TypeOK, SpaceIsFree, NEW p \in Proc, AddPartition(p)
  PROVE  E!Next
  <1>1. CASE Ends(p, "failed", held[p] \cup {"constraint"}, AddFailedFrees)
    BY <1>1, EndDrops DEF AddPartition
  <1>2. ASSUME NEW n \in Num, n \notin Used(table[p]),
               table' = [table EXCEPT ![p][n] =
                           Partition(job[p].type, space[p][1], space[p][2], FALSE)]
        PROVE  E!Next
    <2> DEFINE new == Partition(job[p].type, space[p][1], space[p][2], FALSE)
    <2>1. new \in Entry /\ new # NULL /\ ~ new.boot
          /\ new.first = space[p][1] /\ new.last = space[p][2]
      <3>1. job[p].type \in Types /\ space[p] \in Int \X Int
        BY DEF AddPartition, TypeOK
      <3>2. space[p][1] \in Int /\ space[p][2] \in Int
        BY <3>1
      <3>3. new \in Entry
        BY <3>1, <3>2 DEF Partition, Entry
      <3>4. ~ new.boot /\ new.first = space[p][1] /\ new.last = space[p][2]
        BY DEF Partition
      <3> HIDE DEF new
      <3> QED BY <3>3, <3>4, PartedAssumption
    <2>2. \A m \in Used(table[p]) :
            table[p][m].last < space[p][1] \/ space[p][2] < table[p][m].first
      BY DEF SpaceIsFree, AddPartition
    <2>3. \A m \in Used(table[p]) : E!Apart(new, table[p][m])
      BY <2>1, <2>2 DEF E!Apart
    <2> HIDE DEF new
    <2>4. table' = [table EXCEPT ![p] = [@ EXCEPT ![n] = new]] /\ table'[p][n] = new
      BY <1>2 DEF TypeOK, Table, new
    <2>5. n \in Num \ E!Used(table[p]) /\ E!Used(table[p]) = Used(table[p])
      BY <1>2 DEF E!Used, Used
    <2>6. E!Add(p)
      BY <2>1, <2>3, <2>4, <2>5 DEF E!Add, AddPartition
    <2> QED BY <2>6 DEF E!Next
  <1> QED BY <1>1, <1>2, PartedAssumption DEF AddPartition

LEMMA StepOfTableEditing ==
  TypeOK /\ SpaceIsFree /\ [Next]_vars => [E!Next]_(E!tableVars)
  <1> SUFFICES ASSUME TypeOK, SpaceIsFree, [Next]_vars
               PROVE  E!Next \/ UNCHANGED <<device, table>>
    BY DEF E!tableVars
  <1>1. ASSUME NEW p \in Proc, NEW j \in Job, Start(p, j) PROVE UNCHANGED <<device, table>>
    BY <1>1 DEF Start
  <1>2. ASSUME NEW p \in Proc, Open(p) \/ SelectPartition(p) \/ FindSpace(p) \/ NewPartition(p)
        PROVE  E!Next \/ UNCHANGED <<device, table>>
    BY <1>2, EndDrops DEF Open, SelectPartition, FindSpace, NewPartition
  <1>3. ASSUME NEW p \in Proc, ReadTable(p) PROVE E!Next
    <2>1. CASE table' = [table EXCEPT ![p] = device]
      BY <1>3, <2>1 DEF ReadTable, E!Next, E!Load
    <2> QED BY <1>3, <2>1, EndDrops DEF ReadTable
  <1>4. ASSUME NEW p \in Proc, CommitActive(p) PROVE E!Next
    <2>1. CASE Writes(p) /\ (UNCHANGED table \/ table' = [table EXCEPT ![p] = Blank])
      BY <2>1, WriteIsWrite
    <2>2. CASE UNCHANGED device /\ Ends(p, "failed", held[p], OfDisk)
      BY <2>2, EndDrops
    <2> QED BY <1>4, <2>1, <2>2 DEF CommitActive, WritesOrNot, Ends
  <1>5. ASSUME NEW p \in Proc, CommitNew(p) PROVE E!Next
    <2>1. PICK how : \E freed : Ends(p, how, held[p], freed)
      BY <1>5 DEF CommitNew
    <2>2. CASE Writes(p)
      BY <2>1, <2>2, WriteIsWrite DEF Ends
    <2>3. CASE UNCHANGED device
      BY <2>1, <2>3, EndDrops
    <2> QED BY <1>5, <2>2, <2>3 DEF CommitNew, WritesOrNot
  <1>6. ASSUME NEW p \in Proc, SyncDevice(p) \/ Kill(p) PROVE E!Next
    BY <1>6, EndDrops DEF SyncDevice, Kill
  <1>7. CASE UNCHANGED vars
    BY <1>7 DEF vars
  <1> QED BY <1>1, <1>2, <1>3, <1>4, <1>5, <1>6, <1>7, FlagsAreMoved, PartitionIsAdded DEF Next

(* Any number of these programs, interleaved, failing and killed, do to the *)
(* device only what TableEditing allows (ImplementsTableEditing).           *)
THEOREM PartedImplementsTableEditing == Spec => ImplementsTableEditing
  <1>1. Init => E!Init
    BY TablesAssumption DEF Init, E!Init, Disjoint, E!Disjoint, Apart, E!Apart, Used, E!Used
  <1> QED BY <1>1, StepOfTableEditing, TypeCorrect, SpaceInvariance, PTL
          DEF Spec, ImplementsTableEditing, E!Spec

(* No two partitions on the device ever share a sector (NoOverlap): whoever *)
(* keeps to TableEditing has disjoint copies, and writes nothing else.      *)
THEOREM PartitionsNeverOverlap == Spec => []NoOverlap
  <1> DEFINE Inv == E!Disjoint(device) /\ \A p \in Proc : E!Disjoint(table[p])
  <1>1. Init => Inv
    <2> SUFFICES ASSUME Init PROVE Inv
      OBVIOUS
    <2>1. E!Disjoint(device)
      BY TablesAssumption DEF Init, Disjoint, E!Disjoint, Apart, E!Apart, Used, E!Used
    <2>2. E!Disjoint(Blank)
      BY DEF E!Disjoint, E!Used, Blank
    <2> QED BY <2>1, <2>2 DEF Init
  <1>2. TypeOK /\ Inv /\ [E!Next]_(E!tableVars) => Inv'
    <2> SUFFICES ASSUME TypeOK, Inv, [E!Next]_(E!tableVars) PROVE Inv'
      OBVIOUS
    <2>0. E!Disjoint(Blank)
      BY DEF E!Disjoint, E!Used, Blank
    <2>1. ASSUME NEW p \in Proc, E!Load(p) \/ E!Drop(p) \/ E!Write(p) PROVE Inv'
      BY <2>0, <2>1 DEF E!Load, E!Drop, E!Write, TypeOK, E!Disjoint, E!Used
    <2>2. ASSUME NEW p \in Proc, E!MoveFlags(p) PROVE Inv'
      <3>1. PICK t : /\ E!Used(t) = E!Used(table[p])
                     /\ \A n \in E!Used(t) : E!SamePlace(t[n], table[p][n])
                     /\ table' = [table EXCEPT ![p] = t] /\ UNCHANGED device
        BY <2>2 DEF E!MoveFlags
      <3>2. E!Disjoint(t)
        BY <3>1 DEF E!Disjoint, E!SamePlace, E!Apart
      <3>3. \A q \in Proc : table'[q] = IF q = p THEN t ELSE table[q]
        BY <3>1 DEF TypeOK
      <3> QED BY <3>1, <3>2, <3>3 DEF E!Disjoint, E!Used
    <2>3. ASSUME NEW p \in Proc, E!Add(p) PROVE Inv'
      <3>1. PICK n \in Num \ E!Used(table[p]) :
                /\ \A m \in E!Used(table[p]) : E!Apart(table'[p][n], table[p][m])
                /\ table' = [table EXCEPT ![p] = [@ EXCEPT ![n] = table'[p][n]]]
                /\ UNCHANGED device
        BY <2>3 DEF E!Add
      <3>2. \A q \in Proc \ {p} : table'[q] = table[q]
        BY <3>1 DEF TypeOK
      <3>3. \A m \in Num : m # n => table'[p][m] = table[p][m]
        BY <3>1 DEF TypeOK, Table
      <3>4. \A a, b : E!Apart(a, b) => E!Apart(b, a)
        BY DEF E!Apart
      <3>5. E!Disjoint(table'[p])
        BY <3>1, <3>3, <3>4 DEF E!Disjoint, E!Used
      <3> QED BY <3>1, <3>2, <3>5 DEF E!Disjoint, E!Used
    <2>4. CASE UNCHANGED E!tableVars
      BY <2>4 DEF E!tableVars, E!Disjoint, E!Used
    <2> QED BY <2>1, <2>2, <2>3, <2>4 DEF E!Next
  <1>3. Inv => NoOverlap
    BY DEF NoOverlap, Disjoint, E!Disjoint, Apart, E!Apart, Used, E!Used
  <1> QED BY <1>1, <1>2, <1>3, StepOfTableEditing, TypeCorrect, SpaceInvariance, PTL DEF Spec

-----------------------------------------------------------------------------
(* Until libparted refuses to clear a flag, no copy has two active primary  *)
(* partitions either.                                                       *)
OneActiveOfAll ==
  uncleared \/ (AtMostOne(Active(device)) /\ \A p \in Proc : AtMostOne(Active(table[p])))

LEMMA ClearedLeavesOne ==
  ASSUME NEW t \in Table, NEW n, NEW on \in {{}, {n}}
  PROVE  AtMostOne(Active(WithFlags(t, Cleared(t), on)))
  <1> DEFINE new == WithFlags(t, Cleared(t), on)
  <1>1. ASSUME NEW m \in Num, m \notin on, new[m] # NULL, new[m].type = "normal"
        PROVE  ~ new[m].boot
    <2>1. CASE t[m] = NULL
      BY <1>1, <2>1 DEF WithFlags, Cleared, Used
    <2>2. CASE t[m] # NULL /\ t[m].type = "normal"
      <3>1. m \in Cleared(t) /\ t[m] \in Entry
        BY <2>2 DEF Cleared, Used, Table
      <3>2. new[m] = [t[m] EXCEPT !.boot = FALSE]
        BY <1>1, <3>1 DEF WithFlags
      <3> QED BY <3>1, <3>2 DEF Entry
    <2>3. CASE t[m] # NULL /\ t[m].type # "normal"
      <3>1. new[m] = t[m]
        BY <1>1, <2>3 DEF WithFlags, Cleared
      <3> QED BY <1>1, <2>3, <3>1
    <2> QED BY <2>1, <2>2, <2>3
  <1> HIDE DEF new
  <1>2. Active(new) \subseteq on
    BY <1>1 DEF Active, Used
  <1> QED BY <1>2 DEF AtMostOne, new

LEMMA BlankHasNone == AtMostOne(Active(Blank))
  BY DEF AtMostOne, Active, Used, Blank

LEMMA OneActiveNext ==
  ASSUME TypeOK, OneActiveOfAll, [Next]_vars PROVE OneActiveOfAll'
  <1>1. ASSUME NEW p \in Proc, \/ UNCHANGED table
                               \/ table' = [table EXCEPT ![p] = Blank]
                               \/ table' = [table EXCEPT ![p] = device],
               device' \in {device, table[p]}, UNCHANGED uncleared
        PROVE  OneActiveOfAll'
    <2>1. \A q \in Proc : table'[q] \in {table[q], Blank, device}
      BY <1>1 DEF TypeOK
    <2>2. \A q \in Proc : Active(table[q])' = Active(table'[q])
      BY DEF Active, Used
    <2>3. Active(device)' = Active(device')
      BY DEF Active, Used
    <2> QED BY <1>1, <2>1, <2>2, <2>3, BlankHasNone DEF OneActiveOfAll
  <1>2. ASSUME NEW p \in Proc, SetPartitionActive(p) PROVE OneActiveOfAll'
    <2>1. PICK refused \in SUBSET Cleared(table[p]), on \in {{}, {job[p].num}} :
             /\ table' = [table EXCEPT ![p] = WithFlags(@, Cleared(@) \ refused, on)]
             /\ uncleared' = (uncleared \/ refused # {})
      BY <1>2 DEF SetPartitionActive
    <2>2. CASE refused # {}
      BY <2>1, <2>2 DEF OneActiveOfAll
    <2>3. CASE refused = {}
      <3> DEFINE new == WithFlags(table[p], Cleared(table[p]), on)
      <3>1. Cleared(table[p]) \ refused = Cleared(table[p])
        BY <2>3
      <3>2. table' = [table EXCEPT ![p] = new]
        BY <2>1, <3>1
      <3>3. table[p] \in Table
        BY DEF TypeOK
      <3>4. AtMostOne(Active(new))
        BY <3>3, ClearedLeavesOne
      <3> HIDE DEF new
      <3>5. \A q \in Proc : table'[q] \in {table[q], new}
        BY <3>2 DEF TypeOK
      <3>6. \A q \in Proc : Active(table[q])' = Active(table'[q])
        BY DEF Active, Used
      <3>7. device' = device /\ Active(device)' = Active(device)
        BY <1>2 DEF SetPartitionActive, Active, Used
      <3> QED BY <2>1, <3>4, <3>5, <3>6, <3>7 DEF OneActiveOfAll
    <2> QED BY <2>2, <2>3
  <1>3. ASSUME NEW p \in Proc, AddPartition(p) PROVE OneActiveOfAll'
    <2>1. CASE Ends(p, "failed", held[p] \cup {"constraint"}, AddFailedFrees)
      BY <1>1, <1>3, <2>1 DEF AddPartition, Ends, history
    <2>2. ASSUME NEW n \in Num,
                 table' = [table EXCEPT ![p][n] =
                             Partition(job[p].type, space[p][1], space[p][2], FALSE)]
          PROVE  OneActiveOfAll'
      <3> DEFINE new == Partition(job[p].type, space[p][1], space[p][2], FALSE)
      <3>1. ~ new.boot
        BY DEF Partition
      <3> HIDE DEF new
      <3>2. \A q \in Proc \ {p} : table'[q] = table[q]
        BY <2>2 DEF TypeOK
      <3>3. \A m \in Num : table'[p][m] = IF m = n THEN new ELSE table[p][m]
        BY <2>2 DEF TypeOK, Table, new
      <3>4. Active(table'[p]) \subseteq Active(table[p])
        BY <3>1, <3>3 DEF Active, Used
      <3>5. \A q \in Proc : Active(table[q])' = Active(table'[q])
        BY DEF Active, Used
      <3>6. Active(device)' = Active(device) /\ uncleared' = uncleared
        BY <1>3 DEF AddPartition, Active, Used, history
      <3> QED BY <3>2, <3>4, <3>5, <3>6 DEF OneActiveOfAll, AtMostOne
    <2> QED BY <1>3, <2>1, <2>2, PartedAssumption DEF AddPartition
  <1>4. ASSUME NEW p \in Proc, NEW j \in Job, Start(p, j) PROVE OneActiveOfAll'
    BY <1>1, <1>4 DEF Start
  <1>5. ASSUME NEW p \in Proc,
               \/ Open(p) \/ ReadTable(p) \/ SelectPartition(p) \/ FindSpace(p) \/ NewPartition(p)
        PROVE  OneActiveOfAll'
    BY <1>1, <1>5 DEF Open, ReadTable, SelectPartition, FindSpace, NewPartition,
                      Goto, Ends, history
  <1>6. ASSUME NEW p \in Proc, CommitActive(p) \/ CommitNew(p) \/ SyncDevice(p) \/ Kill(p)
        PROVE  OneActiveOfAll'
    BY <1>1, <1>6 DEF CommitActive, CommitNew, SyncDevice, Kill,
                      Writes, WritesOrNot, Goto, Ends, history
  <1>7. CASE UNCHANGED vars
    BY <1>7 DEF vars, OneActiveOfAll, Active, Used
  <1> QED BY <1>2, <1>3, <1>4, <1>5, <1>6, <1>7 DEF Next

(* Two processes that make different partitions active leave one of them    *)
(* active, not both, unless libparted has refused to clear a flag           *)
(* (OneActive).                                                             *)
THEOREM AtMostOneActive == Spec => []OneActive
  <1>1. Init => OneActiveOfAll
    BY TablesAssumption, BlankHasNone DEF Init, OneActiveOfAll
  <1>2. OneActiveOfAll => OneActive
    BY DEF OneActiveOfAll, OneActive
  <1> QED BY <1>1, <1>2, OneActiveNext, TypeCorrect, PTL DEF Spec

-----------------------------------------------------------------------------
(* What a program owns depends only on where it is, but for the objects     *)
(* that create gets on its way and never destroys.                          *)
HeldAt(label) == CASE label \in {"ended", "open"} -> {}
                   [] label = "read" -> OfDevice
                   [] label = "add" -> OfDisk \cup {"part"}
                   [] OTHER -> OfDisk
Holds(label, tool, set) ==
  IF tool = "create" THEN set \ Lost = HeldAt(label) ELSE set = HeldAt(label)
HoldsWhatItShould ==
  \A p \in Proc :
    /\ Holds(pc[p], job[p].tool, held[p])
    /\ misfreed[p] # "no" =>
         misfreed[p] = "commit" /\ job[p].tool = "create" /\ said[p] # "ok"

LEMMA ObjectsDiffer ==
  ASSUME NEW label PROVE HeldAt(label) \cap Lost = {}
  BY DEF HeldAt, OfDisk, OfDevice, Lost

(* An end that releases all but the lost objects, and no more unless it is  *)
(* the one of a failed commit of create.                                    *)
LEMMA EndsHeld ==
  ASSUME TypeOK, HoldsWhatItShould, NEW p \in Proc, UNCHANGED job,
         NEW how, NEW has, NEW freed, Ends(p, how, has, freed),
         Holds(pc[p], job[p].tool, has), HeldAt(pc[p]) \subseteq freed,
         \/ freed \subseteq has
         \/ pc[p] = "commit" /\ job[p].tool = "create" /\ how # "ok"
  PROVE  HoldsWhatItShould'
  <1>1. held'[p] = has \ freed /\ pc'[p] = "ended" /\ said'[p] = how
    BY DEF Ends, TypeOK
  <1>2. misfreed'[p] = "no" \/ (misfreed'[p] = "commit" /\ job[p].tool = "create" /\ how # "ok")
    BY DEF Ends, TypeOK
  <1>3. \A q \in Proc \ {p} : /\ held'[q] = held[q] /\ pc'[q] = pc[q]
                              /\ said'[q] = said[q] /\ misfreed'[q] = misfreed[q]
    BY DEF Ends, TypeOK
  <1>4. HeldAt("ended") = {}
    BY DEF HeldAt
  <1>5. Holds("ended", job[p].tool, has \ freed)
    BY <1>4 DEF Holds
  <1> QED BY <1>1, <1>2, <1>3, <1>5 DEF HoldsWhatItShould

LEMMA EnterHeld ==
  ASSUME TypeOK, HoldsWhatItShould, NEW p \in Proc, NEW label, Enter(p, label),
         NEW set, held' = [held EXCEPT ![p] = set] \/ (held' = held /\ set = held[p]),
         UNCHANGED job, Holds(label, job[p].tool, set)
  PROVE  HoldsWhatItShould'
  <1>1. \A q \in Proc : /\ pc'[q] = IF q = p THEN label ELSE pc[q]
                        /\ held'[q] = IF q = p THEN set ELSE held[q]
    BY DEF Enter, TypeOK
  <1> QED BY <1>1 DEF Enter, HoldsWhatItShould

LEMMA HeldNext ==
  ASSUME TypeOK, HoldsWhatItShould, [Next]_vars PROVE HoldsWhatItShould'
  <1>0. \A p \in Proc : Holds(pc[p], job[p].tool, held[p])
    BY DEF HoldsWhatItShould
  <1>1. ASSUME NEW p \in Proc, NEW j \in Job, Start(p, j) PROVE HoldsWhatItShould'
    <2>1. /\ held'[p] = {} /\ misfreed'[p] = "no" /\ pc'[p] \in {"open", "ended"}
          /\ \A q \in Proc \ {p} :
               /\ held'[q] = held[q] /\ pc'[q] = pc[q] /\ job'[q] = job[q]
               /\ said'[q] = said[q] /\ misfreed'[q] = misfreed[q]
      BY <1>1 DEF Start, TypeOK
    <2>2. \A tool : Holds(pc'[p], tool, {})
      BY <2>1 DEF Holds, HeldAt
    <2> QED BY <2>1, <2>2 DEF HoldsWhatItShould
  <1>2. ASSUME NEW p \in Proc, Open(p) PROVE HoldsWhatItShould'
    <2>0. pc[p] = "open" /\ UNCHANGED job /\ HeldAt("open") = {} /\ HeldAt("read") = OfDevice
      BY <1>2 DEF Open, HeldAt
    <2>1. CASE Goto(p, "read") /\ held' = [held EXCEPT ![p] = OfDevice]
      <3>1. Holds("read", job[p].tool, OfDevice)
        BY <2>0, ObjectsDiffer DEF Holds, OfDevice, Lost
      <3> QED BY <2>0, <2>1, <3>1, EnterHeld DEF Goto
    <2>2. CASE Ends(p, "failed", {}, {}) \/ Ends(p, "failed", {"device"}, {"device"})
      <3>1. ASSUME NEW set, Ends(p, "failed", set, set) PROVE HoldsWhatItShould'
        <4>1. held'[p] = {} /\ misfreed'[p] = "no" /\ pc'[p] = "ended"
          BY <3>1 DEF Ends, TypeOK
        <4>2. \A q \in Proc \ {p} : /\ held'[q] = held[q] /\ pc'[q] = pc[q]
                                    /\ said'[q] = said[q] /\ misfreed'[q] = misfreed[q]
          BY <3>1 DEF Ends, TypeOK
        <4>3. Holds("ended", job[p].tool, {})
          BY DEF Holds, HeldAt
        <4> QED BY <2>0, <4>1, <4>2, <4>3 DEF HoldsWhatItShould
      <3> QED BY <2>2, <3>1
    <2> QED BY <1>2, <2>1, <2>2 DEF Open
  <1>3. ASSUME NEW p \in Proc, ReadTable(p) PROVE HoldsWhatItShould'
    <2>1. pc[p] = "read" /\ HeldAt("read") = OfDevice /\ UNCHANGED job
      BY <1>3 DEF ReadTable, HeldAt
    <2>2. Holds("read", job[p].tool, held[p]) /\ OfDevice \subseteq held[p]
      BY <1>0, <2>1 DEF Holds
    <2>3. CASE Ends(p, "failed", held[p], OfDevice)
      BY <2>1, <2>2, <2>3, EndsHeld
    <2>4. ASSUME NEW l \in {"select", "find"}, held' = [held EXCEPT ![p] = OfDisk], Goto(p, l)
          PROVE  HoldsWhatItShould'
      <3>1. Holds(l, job[p].tool, OfDisk)
        BY DEF Holds, HeldAt, OfDisk, OfDevice, Lost
      <3> QED BY <2>1, <2>4, <3>1, EnterHeld DEF Goto
    <2> QED BY <1>3, <2>3, <2>4 DEF ReadTable
  <1>4. ASSUME NEW p \in Proc, pc[p] \in {"select", "flags", "find", "new", "commit", "sync"}
        PROVE  /\ HeldAt(pc[p]) = OfDisk /\ OfDisk \subseteq held[p]
               /\ \A l \in {"flags", "new", "commit", "sync"} : Holds(l, job[p].tool, held[p])
    BY <1>0, <1>4 DEF HeldAt, Holds
  <1>5. ASSUME NEW p \in Proc, NEW l \in {"flags", "new", "commit", "sync"}, UNCHANGED job,
               pc[p] \in {"select", "flags", "find", "new", "commit", "sync"},
               Enter(p, l), UNCHANGED held
        PROVE  HoldsWhatItShould'
    BY <1>4, <1>5, EnterHeld
  <1>6. ASSUME NEW p \in Proc, NEW how, UNCHANGED job,
               pc[p] \in {"select", "flags", "find", "new", "commit", "sync"},
               Ends(p, how, held[p], OfDisk)
        PROVE  HoldsWhatItShould'
    BY <1>0, <1>4, <1>6, EndsHeld
  <1>7. ASSUME NEW p \in Proc, SelectPartition(p) PROVE HoldsWhatItShould'
    BY <1>5, <1>6, <1>7 DEF SelectPartition, Goto
  <1>8. ASSUME NEW p \in Proc, SetPartitionActive(p) PROVE HoldsWhatItShould'
    BY <1>5, <1>8 DEF SetPartitionActive, Goto
  <1>9. ASSUME NEW p \in Proc, FindSpace(p) PROVE HoldsWhatItShould'
    <2>1. /\ pc[p] = "find" /\ job[p].tool = "create" /\ UNCHANGED job
      BY <1>9 DEF FindSpace, TypeOK
    <2> DEFINE more == held[p] \cup {"geometry"}
    <2>2. more \ Lost = held[p] \ Lost
      BY DEF Lost
    <2>3. Holds("find", job[p].tool, more) /\ Holds("new", job[p].tool, more)
      BY <1>0, <2>1, <2>2 DEF Holds, HeldAt
    <2>4. CASE held' = [held EXCEPT ![p] = more] /\ Enter(p, "new")
      BY <2>1, <2>3, <2>4, EnterHeld
    <2>5. CASE Ends(p, "failed", more, OfDisk)
      BY <1>4, <2>1, <2>3, <2>5, EndsHeld
    <2> QED BY <1>6, <1>9, <2>1, <2>4, <2>5 DEF FindSpace
  <1>10. ASSUME NEW p \in Proc, NewPartition(p) PROVE HoldsWhatItShould'
    <2>0. pc[p] = "new" /\ job[p].tool = "create" /\ UNCHANGED job
      BY <1>10 DEF NewPartition, TypeOK
    <2>1. CASE Goto(p, "add") /\ held' = [held EXCEPT ![p] = @ \cup {"part"}]
      <3>1. (held[p] \cup {"part"}) \ Lost = HeldAt("add")
        BY <1>0, <2>0 DEF Holds, HeldAt, Lost
      <3>2. Holds("add", job[p].tool, held[p] \cup {"part"})
        BY <2>0, <3>1 DEF Holds
      <3> QED BY <2>0, <2>1, <3>2, EnterHeld DEF Goto
    <2> QED BY <1>6, <1>10, <2>0, <2>1 DEF NewPartition
  <1>11. ASSUME NEW p \in Proc, AddPartition(p) PROVE HoldsWhatItShould'
    <2>0. /\ pc[p] = "add" /\ job[p].tool = "create" /\ UNCHANGED job
          /\ HeldAt("add") = OfDisk \cup {"part"} /\ HeldAt("commit") = OfDisk
      BY <1>11 DEF AddPartition, TypeOK, HeldAt
    <2>1. held[p] \ Lost = OfDisk \cup {"part"}
      BY <1>0, <2>0 DEF Holds
    <2>2. CASE Goto(p, "commit") /\ held' = [held EXCEPT ![p] = (@ \ {"part"}) \cup {"constraint"}]
      <3>1. ((held[p] \ {"part"}) \cup {"constraint"}) \ Lost = OfDisk
        BY <2>1 DEF OfDisk, OfDevice, Lost
      <3>2. Holds("commit", job[p].tool, (held[p] \ {"part"}) \cup {"constraint"})
        BY <2>0, <3>1 DEF Holds
      <3> QED BY <2>0, <2>2, <3>2, EnterHeld DEF Goto
    <2>3. CASE Ends(p, "failed", held[p] \cup {"constraint"}, AddFailedFrees)
      <3>1. (held[p] \cup {"constraint"}) \ Lost = HeldAt("add")
        BY <2>0, <2>1 DEF Lost
      <3>2. Holds("add", job[p].tool, held[p] \cup {"constraint"})
        BY <2>0, <3>1 DEF Holds
      <3>3. AddFailedFrees \subseteq held[p] \cup {"constraint"} /\ HeldAt("add") \subseteq AddFailedFrees
        BY <2>0, <2>1 DEF AddFailedFrees
      <3> QED BY <2>0, <2>3, <3>2, <3>3, EndsHeld
    <2> QED BY <1>11, <2>2, <2>3 DEF AddPartition
  <1>12. ASSUME NEW p \in Proc, CommitActive(p) PROVE HoldsWhatItShould'
    BY <1>5, <1>6, <1>12 DEF CommitActive, Goto
  <1>13. ASSUME NEW p \in Proc, SyncDevice(p) PROVE HoldsWhatItShould'
    BY <1>6, <1>13 DEF SyncDevice
  <1>14. ASSUME NEW p \in Proc, CommitNew(p) PROVE HoldsWhatItShould'
    <2>1. pc[p] = "commit" /\ job[p].tool = "create" /\ UNCHANGED job
      BY <1>14 DEF CommitNew
    <2>2. ASSUME NEW how \in {CommitFailed, "nothing"},
                 Ends(p, how, held[p], OfDisk \cup {"part"})
          PROVE  HoldsWhatItShould'
      <3>1. how # "ok"
        BY DEF CommitFailed
      <3> QED BY <1>0, <1>4, <2>1, <2>2, <3>1, EndsHeld
    <2> QED BY <1>6, <1>14, <2>1, <2>2 DEF CommitNew
  <1>15. ASSUME NEW p \in Proc, Kill(p) PROVE HoldsWhatItShould'
    <2>1. HeldAt(pc[p]) \subseteq held[p] /\ UNCHANGED job
      BY <1>0, <1>15 DEF Holds, Kill
    <2> QED BY <1>0, <1>15, <2>1, EndsHeld DEF Kill
  <1>16. CASE UNCHANGED vars
    BY <1>16 DEF vars, HoldsWhatItShould
  <1> QED BY <1>1, <1>2, <1>3, <1>7, <1>8, <1>9, <1>10, <1>11, <1>12, <1>13, <1>14,
             <1>15, <1>16 DEF Next

(* Whatever call fails, and wherever the process is killed, the device, its *)
(* table and a partition are released, and twice only when a commit of      *)
(* create fails; what is left is at most the geometry and the constraint    *)
(* of create (ReleasedOnce).                                                *)
THEOREM AllIsReleasedOnce == Spec => []ReleasedOnce
  <1>1. Init => HoldsWhatItShould
    BY DEF Init, HoldsWhatItShould, Holds, HeldAt
  <1>2. HoldsWhatItShould => ReleasedOnce
    BY DEF HoldsWhatItShould, ReleasedOnce, Holds, HeldAt
  <1> QED BY <1>1, <1>2, HeldNext, TypeCorrect, PTL DEF Spec

-----------------------------------------------------------------------------
(* From the search on, the space of a sized partition is its size.          *)
SizeFollows ==
  \A p \in Proc :
    pc[p] \in {"new", "add", "commit"} /\ job[p].tool = "create" /\ job[p].size > 0 =>
      space[p][2] = space[p][1] + SizeInSectors(job[p].size) - 1

LEMMA SizeStays ==
  ASSUME SizeFollows, NEW p \in Proc, UNCHANGED job,
         \A q \in Proc \ {p} : pc'[q] = pc[q] /\ space'[q] = space[q],
         \/ pc'[p] = "ended" \/ job[p].tool # "create"
         \/ pc[p] \in {"new", "add"} /\ space'[p] = space[p]
  PROVE  SizeFollows'
  <1>1. ASSUME NEW q \in Proc, pc'[q] \in {"new", "add", "commit"}, job[q].tool = "create",
               job[q].size > 0
        PROVE  pc[q] \in {"new", "add", "commit"} /\ space'[q] = space[q]
    BY <1>1
  <1> QED BY <1>1 DEF SizeFollows

LEMMA SizeNext ==
  ASSUME TypeOK, SizeFollows, [Next]_vars PROVE SizeFollows'
  <1>1. ASSUME NEW p \in Proc, NEW how, NEW has, NEW freed, Ends(p, how, has, freed),
               UNCHANGED job
        PROVE  SizeFollows'
    <2>1. /\ pc'[p] = "ended"
          /\ \A q \in Proc \ {p} : pc'[q] = pc[q] /\ space'[q] = space[q]
      BY <1>1 DEF Ends, TypeOK
    <2> QED BY <1>1, <2>1, SizeStays
  <1>2. ASSUME NEW p \in Proc, NEW label, Goto(p, label), UNCHANGED job,
               \/ label \in {"read", "select", "flags", "find", "sync"}
               \/ job[p].tool # "create" \/ pc[p] \in {"new", "add"}
        PROVE  SizeFollows'
    <2>1. /\ pc'[p] = label /\ space'[p] = space[p]
          /\ \A q \in Proc \ {p} : pc'[q] = pc[q] /\ space'[q] = space[q]
      BY <1>2 DEF Goto, Enter, TypeOK
    <2> QED BY <1>2, <2>1 DEF SizeFollows
  <1>3. ASSUME NEW p \in Proc, NEW j \in Job, Start(p, j) PROVE SizeFollows'
    <2>1. pc'[p] \in {"open", "ended"}
      BY <1>3 DEF Start, TypeOK
    <2>2. \A q \in Proc \ {p} : pc'[q] = pc[q] /\ space'[q] = space[q] /\ job'[q] = job[q]
      BY <1>3 DEF Start, TypeOK
    <2> QED BY <2>1, <2>2 DEF SizeFollows
  <1>4. ASSUME NEW p \in Proc,
               \/ Open(p) \/ ReadTable(p) \/ SelectPartition(p) \/ SyncDevice(p) \/ Kill(p)
        PROVE  SizeFollows'
    BY <1>1, <1>2, <1>4 DEF Open, ReadTable, SelectPartition, SyncDevice, Kill
  <1>5. ASSUME NEW p \in Proc, SetPartitionActive(p) PROVE SizeFollows'
    <2>1. job[p].tool = "active"
      BY <1>5 DEF SetPartitionActive, TypeOK
    <2> QED BY <1>2, <1>5, <2>1 DEF SetPartitionActive
  <1>6. ASSUME NEW p \in Proc, FindSpace(p) PROVE SizeFollows'
    <2>1. ASSUME NEW first \in Sector, NEW last \in Sector, Enter(p, "new"),
                 space' = [space EXCEPT ![p] =
                             <<first, EndSector(first, last, job[p].size)>>]
          PROVE  SizeFollows'
      <3>1. UNCHANGED job
        BY <1>6 DEF FindSpace
      <3>2. \A q \in Proc \ {p} : pc'[q] = pc[q] /\ space'[q] = space[q]
        BY <2>1 DEF Enter, TypeOK
      <3>3. job[p].size > 0 => space'[p][2] = space'[p][1] + SizeInSectors(job[p].size) - 1
        BY <2>1 DEF EndSector, TypeOK
      <3> QED BY <3>1, <3>2, <3>3 DEF SizeFollows
    <2> QED BY <1>1, <1>6, <2>1 DEF FindSpace
  <1>7. ASSUME NEW p \in Proc, NewPartition(p) \/ AddPartition(p) PROVE SizeFollows'
    BY <1>1, <1>2, <1>7 DEF NewPartition, AddPartition
  <1>8. ASSUME NEW p \in Proc, CommitActive(p) PROVE SizeFollows'
    BY <1>1, <1>2, <1>8 DEF CommitActive
  <1>9. ASSUME NEW p \in Proc, CommitNew(p) PROVE SizeFollows'
    BY <1>1, <1>9 DEF CommitNew
  <1>10. CASE UNCHANGED vars
    BY <1>10 DEF vars, SizeFollows
  <1> QED BY <1>3, <1>4, <1>5, <1>6, <1>7, <1>8, <1>9, <1>10 DEF Next

LEMMA SizeFollowsAsked == TypeOK /\ SizeFollows => SizeAsAsked
  <1> SUFFICES ASSUME TypeOK, SizeFollows, NEW p \in Proc, pc[p] \in {"add", "commit"},
                      job[p].tool = "create", job[p].size > 0, job[p].size * MB < Word
               PROVE  space[p][2] - space[p][1] + 1 = (job[p].size * MB) \div SECTOR
    BY DEF SizeAsAsked, Sized
  <1>1. job[p].size \in Nat
    BY PartedAssumption DEF TypeOK, ActiveJob, CreateJob
  <1> DEFINE bytes == job[p].size * MB
  <1>2. bytes \in Nat /\ bytes < Word /\ Word \in Nat \ {0}
    BY <1>1, PartedAssumption
  <1>3. SizeInSectors(job[p].size) = (bytes % Word) \div SECTOR
    BY DEF SizeInSectors
  <1> HIDE DEF bytes
  <1>4. bytes % Word = bytes
    BY <1>2
  <1>5. bytes \div SECTOR \in Int
    BY <1>2, PartedAssumption
  <1>6. space[p][2] = space[p][1] + bytes \div SECTOR - 1
    BY <1>3, <1>4 DEF SizeFollows
  <1>7. space[p][1] \in Int
    BY DEF TypeOK
  <1> QED BY <1>5, <1>6, <1>7 DEF bytes

(* A partition that was given a size has exactly that many sectors, unless  *)
(* the product wraps (SizeAsAsked).                                         *)
THEOREM PartitionHasItsSize == Spec => []SizeAsAsked
  <1>1. Init => SizeFollows
    BY DEF Init, SizeFollows
  <1> QED BY <1>1, SizeNext, SizeFollowsAsked, TypeCorrect, PTL DEF Spec

-----------------------------------------------------------------------------
(* What p was asked for is in table t.  It is so of p's copy when p commits *)
(* it, and of the device from p's write on, until another process writes.   *)
Fulfilled(p, t) ==
  IF job[p].tool = "active" THEN unset[p] \/ t[job[p].num].boot
  ELSE \E n \in Used(t) : /\ t[n].type = job[p].type
                          /\ <<t[n].first, t[n].last>> = space[p]
                          /\ Sized(job[p], t[n].first, t[n].last)
ReportOf(p) ==
  /\ pc[p] = "commit" => Fulfilled(p, table[p])
  /\ pc[p] = "sync" /\ latest = p => Fulfilled(p, device)
  /\ said[p] = "ok" => pc[p] = "ended" /\ (latest = p => Fulfilled(p, device))

StepOf(p) ==
  \/ \E j \in Job : Start(p, j)
  \/ Open(p) \/ ReadTable(p) \/ SelectPartition(p) \/ SetPartitionActive(p)
  \/ FindSpace(p) \/ NewPartition(p) \/ AddPartition(p)
  \/ CommitActive(p) \/ SyncDevice(p) \/ CommitNew(p) \/ Kill(p)

(* A step of one process leaves the others alone, but for the device.       *)
LEMMA StepIsOwn ==
  ASSUME TypeOK, NEW p \in Proc, StepOf(p), NEW q \in Proc, q # p
  PROVE  /\ pc'[q] = pc[q] /\ said'[q] = said[q] /\ job'[q] = job[q]
         /\ unset'[q] = unset[q] /\ space'[q] = space[q] /\ table'[q] = table[q]
         /\ latest' = p \/ UNCHANGED <<device, latest>>
  <1>1. ASSUME NEW how, NEW has, NEW freed, Ends(p, how, has, freed)
        PROVE  /\ pc'[q] = pc[q] /\ said'[q] = said[q]
               /\ space'[q] = space[q] /\ table'[q] = table[q]
    BY <1>1 DEF Ends, TypeOK
  <1>2. ASSUME NEW label, Enter(p, label) PROVE pc'[q] = pc[q] /\ said'[q] = said[q]
    BY <1>2 DEF Enter, TypeOK
  <1>3. CASE \E j \in Job : Start(p, j)
    BY <1>3 DEF Start, TypeOK
  <1>4. CASE Open(p) \/ ReadTable(p) \/ SelectPartition(p) \/ SyncDevice(p) \/ Kill(p)
    BY <1>1, <1>2, <1>4 DEF Open, ReadTable, SelectPartition, SyncDevice, Kill, Goto, history, TypeOK
  <1>5. CASE SetPartitionActive(p)
    BY <1>2, <1>5 DEF SetPartitionActive, Goto, TypeOK
  <1>6. CASE FindSpace(p) \/ NewPartition(p)
    BY <1>1, <1>2, <1>6 DEF FindSpace, NewPartition, Goto, history, TypeOK
  <1>7. CASE AddPartition(p)
    BY <1>1, <1>2, <1>7, PartedAssumption DEF AddPartition, Goto, history, TypeOK
  <1>8. CASE CommitActive(p) \/ CommitNew(p)
    BY <1>1, <1>2, <1>8 DEF CommitActive, CommitNew, Goto, Writes, WritesOrNot, TypeOK
  <1> QED BY <1>3, <1>4, <1>5, <1>6, <1>7, <1>8 DEF StepOf

LEMMA OtherReports ==
  ASSUME TypeOK, NEW p \in Proc, StepOf(p), NEW q \in Proc, q # p, ReportOf(q)
  PROVE  ReportOf(q)'
  <1>1. /\ pc'[q] = pc[q] /\ said'[q] = said[q] /\ job'[q] = job[q]
        /\ unset'[q] = unset[q] /\ space'[q] = space[q] /\ table'[q] = table[q]
        /\ latest' = p \/ UNCHANGED <<device, latest>>
    BY StepIsOwn
  <1>2. Fulfilled(q, table[q])' <=> Fulfilled(q, table[q])
    BY <1>1 DEF Fulfilled, Used
  <1>3. UNCHANGED device => (Fulfilled(q, device)' <=> Fulfilled(q, device))
    BY <1>1 DEF Fulfilled, Used
  <1> QED BY <1>1, <1>2, <1>3 DEF ReportOf

(* Ending without success, and moving on, claim nothing new. *)
LEMMA NoReport ==
  ASSUME TypeOK, NEW p \in Proc, pc'[p] \notin {"commit", "sync"}, said'[p] # "ok"
  PROVE  ReportOf(p)'
  BY DEF ReportOf

LEMMA OwnReport ==
  ASSUME TypeOK, SizeAsAsked, NEW p \in Proc, StepOf(p), ReportOf(p)
  PROVE  ReportOf(p)'
  <1>1. ASSUME NEW how \in {"failed", "nothing"}, NEW has, NEW freed, Ends(p, how, has, freed)
        PROVE  ReportOf(p)'
    BY <1>1, NoReport DEF Ends, TypeOK
  <1>2. pc[p] # "ended" => said[p] # "ok"
    BY DEF ReportOf
  <1>3. ASSUME NEW label \in {"read", "select", "find", "flags", "new", "add"},
               Enter(p, label), pc[p] # "ended"
        PROVE  ReportOf(p)'
    BY <1>2, <1>3, NoReport DEF Enter, TypeOK
  <1>4. CASE \E j \in Job : Start(p, j)
    BY <1>4, NoReport DEF Start, TypeOK
  <1>5. CASE Open(p) \/ ReadTable(p) \/ SelectPartition(p) \/ Kill(p)
    BY <1>1, <1>3, <1>5 DEF Open, ReadTable, SelectPartition, Kill, Goto
  <1>6. CASE FindSpace(p) \/ NewPartition(p)
    BY <1>1, <1>3, <1>6 DEF FindSpace, NewPartition, Goto
  <1>7. CASE SetPartitionActive(p)
    <2> DEFINE num == job[p].num
    <2>1. PICK refused \in SUBSET Cleared(table[p]), on \in {{}, {job[p].num}} :
             /\ table' = [table EXCEPT ![p] = WithFlags(@, Cleared(@) \ refused, on)]
             /\ unset' = [unset EXCEPT ![p] = (on = {})]
      BY <1>7, Zenon DEF SetPartitionActive
    <2>2. /\ pc[p] = "flags" /\ job' = job /\ pc'[p] = "commit" /\ said'[p] = said[p]
          /\ job[p].tool = "active" /\ num \in Used(table[p])
      BY <1>7 DEF SetPartitionActive, Goto, Enter, TypeOK
    <2>3. unset'[p] \/ on = {num}
      BY <2>1 DEF TypeOK
    <2>4. on = {num} => table'[p][num].boot
      <3>1. table[p][num] \in Entry /\ num \in Num
        BY <2>2 DEF Used, TypeOK, Table
      <3>2. on = {num} => table'[p][num] = [table[p][num] EXCEPT !.boot = TRUE]
        BY <2>1, <3>1 DEF WithFlags, TypeOK
      <3> QED BY <3>1, <3>2 DEF Entry
    <2>5. Fulfilled(p, table[p])'
      BY <2>2, <2>3, <2>4 DEF Fulfilled
    <2> QED BY <1>2, <2>2, <2>5 DEF ReportOf
  <1>8. CASE AddPartition(p)
    <2>1. CASE Ends(p, "failed", held[p] \cup {"constraint"}, AddFailedFrees)
      BY <1>1, <2>1
    <2>2. ASSUME NEW n \in Num, n \notin Used(table[p]), Goto(p, "commit"),
                 table' = [table EXCEPT ![p][n] =
                             Partition(job[p].type, space[p][1], space[p][2], FALSE)]
          PROVE  ReportOf(p)'
      <3> DEFINE new == Partition(job[p].type, space[p][1], space[p][2], FALSE)
      <3>1. job' = job /\ pc[p] = "add" /\ job[p].tool = "create" /\ job[p].type \in Types
        BY <1>8 DEF AddPartition, TypeOK
      <3>2. /\ pc'[p] = "commit" /\ said'[p] = said[p] /\ space' = space
        BY <2>2 DEF Goto, Enter, TypeOK
      <3>3. space[p] \in Int \X Int
        BY DEF TypeOK
      <3>4. /\ new.type = job[p].type /\ new \in Entry
            /\ <<new.first, new.last>> = space[p]
            /\ new.first = space[p][1] /\ new.last = space[p][2]
        BY <3>1, <3>3 DEF Partition, Entry
      <3>5. table'[p][n] = new
        BY <2>2 DEF TypeOK, Table
      <3> HIDE DEF new
      <3>6. new # NULL
        BY <3>4, PartedAssumption
      <3>7. Sized(job[p], new.first, new.last)
        BY <3>1, <3>4 DEF SizeAsAsked
      <3>8. Fulfilled(p, table[p])'
        BY <3>1, <3>2, <3>4, <3>5, <3>6, <3>7 DEF Fulfilled, Used
      <3> QED BY <1>2, <3>1, <3>2, <3>8 DEF ReportOf
    <2> QED BY <1>8, <2>1, <2>2, PartedAssumption DEF AddPartition
  <1>9. ASSUME pc[p] = "commit", Writes(p), UNCHANGED <<job, unset>>, space'[p] = space[p]
        PROVE  Fulfilled(p, device)'
    <2>1. Fulfilled(p, table[p]) /\ device' = table[p]
      BY <1>9 DEF ReportOf, Writes
    <2> QED BY <1>9, <2>1 DEF Fulfilled, Used
  <1>10. CASE CommitActive(p)
    <2>1. CASE Writes(p) /\ Goto(p, "sync")
      <3>1. Fulfilled(p, device)'
        BY <1>9, <1>10, <2>1 DEF CommitActive, Goto
      <3>2. pc'[p] = "sync" /\ said'[p] = said[p] /\ pc[p] = "commit"
        BY <1>10, <2>1 DEF CommitActive, Goto, Enter, TypeOK
      <3> QED BY <1>2, <3>1, <3>2 DEF ReportOf
    <2> QED BY <1>1, <1>10, <2>1 DEF CommitActive
  <1>11. CASE SyncDevice(p)
    <2>1. CASE Ends(p, "ok", held[p], OfDisk)
      <3>1. /\ pc'[p] = "ended" /\ space'[p] = space[p] /\ UNCHANGED <<device, job, history>>
            /\ pc[p] = "sync"
        BY <1>11, <2>1 DEF SyncDevice, Ends, TypeOK
      <3>2. latest = p => Fulfilled(p, device)'
        BY <3>1 DEF ReportOf, Fulfilled, Used, history
      <3> QED BY <3>1, <3>2 DEF ReportOf, history
    <2> QED BY <1>1, <1>11, <2>1 DEF SyncDevice
  <1>12. CASE CommitNew(p)
    <2>1. CASE Writes(p) /\ Ends(p, "ok", held[p], OfDisk)
      <3>1. pc'[p] = "ended" /\ space'[p] = space[p]
        BY <2>1 DEF Ends, TypeOK
      <3>2. Fulfilled(p, device)'
        BY <1>9, <1>12, <2>1, <3>1 DEF CommitNew
      <3> QED BY <3>1, <3>2 DEF ReportOf
    <2> QED BY <1>1, <1>12, <2>1 DEF CommitNew, CommitFailed
  <1> QED BY <1>4, <1>5, <1>6, <1>7, <1>8, <1>10, <1>11, <1>12 DEF StepOf

(* A success that create has reported means a partition of the type and,    *)
(* unless it wraps, the size asked for on the device, and one that active   *)
(* has reported the flag, unless libparted has refused it, until another    *)
(* process writes (ReportedIsOnDevice).                                     *)
THEOREM ReportsAreTrue == Spec => []ReportedIsOnDevice
  <1> DEFINE Inv == \A p \in Proc : ReportOf(p)
  <1>1. Init => Inv
    BY DEF Init, ReportOf
  <1>2. TypeOK /\ SizeAsAsked /\ Inv /\ [Next]_vars => Inv'
    <2> SUFFICES ASSUME TypeOK, SizeAsAsked, Inv, [Next]_vars, NEW q \in Proc PROVE ReportOf(q)'
      OBVIOUS
    <2>1. ASSUME NEW p \in Proc, StepOf(p) PROVE ReportOf(q)'
      BY <2>1, OwnReport, OtherReports
    <2>2. CASE UNCHANGED vars
      BY <2>2 DEF vars, ReportOf, Fulfilled, Used
    <2> QED BY <2>1, <2>2 DEF Next, StepOf
  <1>3. Inv => ReportedIsOnDevice
    BY DEF ReportOf, ReportedIsOnDevice, Fulfilled
  <1> QED BY <1>1, <1>2, <1>3, TypeCorrect, PartitionHasItsSize, PTL DEF Spec
=============================================================================
