------------------------------- MODULE Focus -------------------------------
(***************************************************************************)
(* What the session globals of diskpart.h promise a command: at any time   *)
(* at most one disk, one partition of that disk and one existing volume    *)
(* have the focus.  A disk receives or loses the focus together with       *)
(* dropping the partition; nothing else is said about when.                *)
(***************************************************************************)
CONSTANTS Disk, Partition, Volume, NULL,
          PartitionsOf    \* [Disk -> SUBSET Partition]

VARIABLES disk, partition, volume, volumes

focusVars == <<disk, partition, volume, volumes>>

Init ==
  /\ disk = NULL /\ partition = NULL /\ volume = NULL
  /\ volumes \in SUBSET Volume

FocusDisk(d) ==
  /\ disk' = d /\ partition' = NULL
  /\ UNCHANGED <<volume, volumes>>

LoseDisk ==
  /\ disk' = NULL /\ partition' = NULL
  /\ UNCHANGED <<volume, volumes>>

FocusPartition(p) ==
  /\ disk # NULL /\ p \in PartitionsOf[disk]
  /\ partition' = p
  /\ UNCHANGED <<disk, volume, volumes>>

FocusVolume(v) ==
  /\ v \in volumes
  /\ volume' = v
  /\ UNCHANGED <<disk, partition, volumes>>

(* A volume that goes away takes the focus with it. *)
ForgetVolume(v) ==
  /\ v \in volumes
  /\ volumes' = volumes \ {v}
  /\ volume' = IF volume = v THEN NULL ELSE volume
  /\ UNCHANGED <<disk, partition>>

Next ==
  \/ \E d \in Disk : FocusDisk(d)
  \/ LoseDisk
  \/ \E p \in Partition : FocusPartition(p)
  \/ \E v \in Volume : FocusVolume(v) \/ ForgetVolume(v)

Spec == Init /\ [][Next]_focusVars
=============================================================================
