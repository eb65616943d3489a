-------------------------- MODULE MbrDelete_proofs --------------------------
(***************************************************************************)
(* Theorems about any number of processes deleting entries of one MBR.     *)
(***************************************************************************)
EXTENDS MbrDelete, TLAPS

(* The copies the processes work on are tables that OthersUntouched would   *)
(* allow on the disk: that is what makes writing one back harmless.         *)
CopyUntouched ==
  \A p \in Proc, i \in Slot :
    /\ original[i] /\ i \notin cleared => mbr_data[p][i]
    /\ mbr_data[p][i] => original[i]

DeleteInv == TypeOK /\ OthersUntouched /\ CopyUntouched /\ DeletionsStick /\ KernelCurrent

LEMMA DeleteInit == Init => DeleteInv
  BY DEF Init, DeleteInv, TypeOK, OthersUntouched, CopyUntouched, DeletionsStick,
         KernelCurrent, Table

LEMMA TypeNext == TypeOK /\ [Next]_vars => TypeOK'
  <1> SUFFICES ASSUME TypeOK, [Next]_vars PROVE TypeOK'
    OBVIOUS
  <1> USE DEF TypeOK, Goto, history
  <1>1. ASSUME NEW p \in Proc, NEW i \in Index, Start(p, i) PROVE TypeOK'
    BY <1>1 DEF Start, ValidIndex, Slot
  <1>2. ASSUME NEW p \in Proc, Read(p) PROVE TypeOK'
    BY <1>2 DEF Read
  <1>3. ASSUME NEW p \in Proc, Write(p) PROVE TypeOK'
    <2>1. index[p] \in Slot /\ Clear(mbr_data[p], index[p]) \in Table
      BY <1>3 DEF Write, Clear, Table
    <2> QED BY <1>3, <2>1 DEF Write
  <1>4. ASSUME NEW p \in Proc, Reread(p) PROVE TypeOK'
    <2>1. index[p] \in Slot
      BY <1>4 DEF Reread
    <2> QED BY <1>4, <2>1 DEF Reread
  <1>5. ASSUME NEW p \in Proc, Kill(p) PROVE TypeOK'
    BY <1>5 DEF Kill
  <1>6. CASE UNCHANGED vars
    BY <1>6 DEF vars
  <1> QED BY <1>1, <1>2, <1>3, <1>4, <1>5, <1>6 DEF Next

(* OthersUntouched, with the copies: a write puts one of them on the disk.  *)
LEMMA UntouchedNext ==
  TypeOK /\ OthersUntouched /\ CopyUntouched /\ [Next]_vars
    => OthersUntouched' /\ CopyUntouched'
  <1> SUFFICES ASSUME TypeOK, OthersUntouched, CopyUntouched, [Next]_vars
               PROVE  OthersUntouched' /\ CopyUntouched'
    OBVIOUS
  <1> USE DEF OthersUntouched, CopyUntouched, history
  <1>1. ASSUME NEW p \in Proc, Read(p) PROVE OthersUntouched' /\ CopyUntouched'
    BY <1>1 DEF Read, TypeOK
  <1>2. ASSUME NEW p \in Proc, Write(p) PROVE OthersUntouched' /\ CopyUntouched'
    <2>1. CASE UNCHANGED <<mbr, cleared>>
      BY <1>2, <2>1 DEF Write
    <2>2. CASE /\ mbr' = Clear(mbr_data[p], index[p])
               /\ cleared' = cleared \cup {index[p]}
      <3>1. \A i \in Slot : mbr'[i] = IF i = index[p] THEN FALSE ELSE mbr_data[p][i]
        BY <2>2 DEF Clear, TypeOK, Table
      <3> QED BY <1>2, <2>2, <3>1 DEF Write
    <2> QED BY <1>2, <2>1, <2>2 DEF Write
  <1>3. CASE UNCHANGED <<mbr, mbr_data, original, cleared>>
    BY <1>3
  <1>4. CASE ~ \E p \in Proc : Read(p) \/ Write(p)
    BY <1>3, <1>4 DEF Next, Start, Reread, Kill, vars, ValidIndex, Slot
  <1> QED BY <1>1, <1>2, <1>4

LEMMA StickNext == TypeOK /\ DeletionsStick /\ [Next]_vars => DeletionsStick'
  <1> SUFFICES ASSUME TypeOK, DeletionsStick, [Next]_vars PROVE DeletionsStick'
    OBVIOUS
  <1> USE DEF DeletionsStick, history
  <1>1. ASSUME NEW p \in Proc, Write(p) PROVE DeletionsStick'
    <2>1. CASE UNCHANGED <<mbr, cleared, raced>>
      BY <2>1
    <2>2. CASE /\ mbr' = Clear(mbr_data[p], index[p])
               /\ cleared' = cleared \cup {index[p]}
               /\ raced' = (raced \/ mbr_data[p] # mbr)
      <3> SUFFICES ASSUME ~ raced', NEW i \in cleared' PROVE ~ mbr'[i]
        OBVIOUS
      <3>1. ~ raced /\ mbr_data[p] = mbr
        BY <2>2
      <3>2. mbr' = [mbr EXCEPT ![index[p]] = FALSE] /\ i \in Slot
        BY <1>1, <2>2, <3>1 DEF Clear, TypeOK, Write
      <3> QED BY <2>2, <3>1, <3>2 DEF TypeOK, Table
    <2> QED BY <1>1, <2>1, <2>2 DEF Write
  <1>2. CASE UNCHANGED <<mbr, cleared, raced>>
    BY <1>2
  <1>3. CASE ~ \E p \in Proc : Write(p)
    BY <1>2, <1>3 DEF Next, Start, Read, Reread, Kill, vars, ValidIndex, Slot
  <1> QED BY <1>1, <1>3

LEMMA KernelNext == TypeOK /\ KernelCurrent /\ [Next]_vars => KernelCurrent'
  <1> SUFFICES ASSUME TypeOK, KernelCurrent, [Next]_vars PROVE KernelCurrent'
    OBVIOUS
  <1> USE DEF KernelCurrent, TypeOK, Goto, history
  <1>1. ASSUME NEW p \in Proc, NEW i \in Index, Start(p, i) PROVE KernelCurrent'
    BY <1>1 DEF Start, ValidIndex, Slot
  <1>2. ASSUME NEW p \in Proc, Read(p) PROVE KernelCurrent'
    BY <1>2 DEF Read
  <1>3. ASSUME NEW p \in Proc, Write(p) PROVE KernelCurrent'
    BY <1>3 DEF Write
  <1>4. ASSUME NEW p \in Proc, Reread(p) PROVE KernelCurrent'
    BY <1>4 DEF Reread
  <1>5. ASSUME NEW p \in Proc, Kill(p) PROVE KernelCurrent'
    BY <1>5 DEF Kill
  <1>6. CASE UNCHANGED vars
    BY <1>6 DEF vars
  <1> QED BY <1>1, <1>2, <1>3, <1>4, <1>5, <1>6 DEF Next

LEMMA DeleteInvariance == Spec => []DeleteInv
  <1>1. DeleteInv /\ [Next]_vars => DeleteInv'
    BY TypeNext, UntouchedNext, StickNext, KernelNext DEF DeleteInv
  <1> QED BY <1>1, DeleteInit, PTL DEF Spec

(* A process that reads or writes the sector holds the index of a slot, and *)
(* the tables stay tables (TypeOK).                                         *)
THEOREM DeleteTypeCorrect == Spec => []TypeOK
  <1>1. DeleteInv => TypeOK
    BY DEF DeleteInv
  <1> QED BY <1>1, DeleteInvariance, PTL

(* A deletion never harms an entry nobody asked to delete and never invents *)
(* one, for any number of processes and any interleaving (OthersUntouched). *)
THEOREM DeleteTouchesNoOther == Spec => []OthersUntouched
  <1>1. DeleteInv => OthersUntouched
    BY DEF DeleteInv
  <1> QED BY <1>1, DeleteInvariance, PTL

(* Without a write of an outdated copy every deletion is permanent: the     *)
(* race is the only way to lose one (DeletionsStick).                       *)
THEOREM DeleteSticksUnlessRaced == Spec => []DeletionsStick
  <1>1. DeleteInv => DeletionsStick
    BY DEF DeleteInv
  <1> QED BY <1>1, DeleteInvariance, PTL

(* The kernel's table is the one on disk, except while a process still has  *)
(* to ask for it or a request was lost (KernelCurrent).                     *)
THEOREM KernelFollowsDisk == Spec => []KernelCurrent
  <1>1. DeleteInv => KernelCurrent
    BY DEF DeleteInv
  <1> QED BY <1>1, DeleteInvariance, PTL

-----------------------------------------------------------------------------
(* A copy that is about to be written is the table on disk, as long as no   *)
(* other process runs, and what was reported was cleared before.            *)
Alone ==
  /\ \A p \in Proc : pc[p] = "write" => mbr_data[p] = mbr
  /\ \A p \in Proc : pc[p] = "reread" => index[p] \in cleared
  /\ reported \subseteq cleared /\ ~ raced

(* "Partition %d deleted successfully" (delete.c:71) is true for a process  *)
(* that has the device to itself, whatever calls fail and wherever it is    *)
(* killed: the missing lock is all that makes it untrue (ReportedIsDeleted).*)
THEOREM AloneReportedIsDeleted ==
  ASSUME \A p, q \in Proc : p = q
  PROVE  Spec => []ReportedIsDeleted
  <1>1. Init => Alone
    BY DEF Init, Alone
  <1>2. TypeOK /\ Alone /\ [Next]_vars => Alone'
    <2> SUFFICES ASSUME TypeOK, Alone, [Next]_vars PROVE Alone'
      OBVIOUS
    <2> USE DEF TypeOK, Alone, Goto, history
    <2>1. ASSUME NEW p \in Proc, NEW i \in Index, Start(p, i) PROVE Alone'
      BY <2>1 DEF Start
    <2>2. ASSUME NEW p \in Proc, Read(p) PROVE Alone'
      BY <2>2 DEF Read
    <2>3. ASSUME NEW p \in Proc, Write(p) PROVE Alone'
      BY <2>3 DEF Write
    <2>4. ASSUME NEW p \in Proc, Reread(p) PROVE Alone'
      BY <2>4 DEF Reread
    <2>5. ASSUME NEW p \in Proc, Kill(p) PROVE Alone'
      BY <2>5 DEF Kill
    <2>6. CASE UNCHANGED vars
      BY <2>6 DEF vars
    <2> QED BY <2>1, <2>2, <2>3, <2>4, <2>5, <2>6 DEF Next
  <1>3. Alone /\ DeletionsStick => ReportedIsDeleted
    BY DEF Alone, DeletionsStick, ReportedIsDeleted
  <1> QED BY <1>1, <1>2, <1>3, DeleteTypeCorrect, DeleteSticksUnlessRaced, PTL DEF Spec
=============================================================================
