-------------------------------- MODULE Wipe --------------------------------
(***************************************************************************)
(* What cleaning a disk promises: while it runs it zeroes sectors of the   *)
(* region it was asked to wipe and no other, it may stop half-way, and it  *)
(* reports success only when the whole region is zero.                     *)
(***************************************************************************)
CONSTANT Sector

VARIABLES zeroed,    \* the sectors that hold zeros
          region,    \* the sectors to wipe, {} when no wipe is under way
          outcome    \* "idle", "wiping", "ok" or "failed"

wipeVars == <<zeroed, region, outcome>>

Init == zeroed \in SUBSET Sector /\ region = {} /\ outcome = "idle"

(* Between two wipes the disk may be used again. *)
Reuse ==
  /\ outcome # "wiping"
  /\ zeroed' \in SUBSET Sector
  /\ region' = {} /\ outcome' = "idle"

Begin(r) ==
  /\ outcome = "idle"
  /\ region' = r /\ outcome' = "wiping"
  /\ UNCHANGED zeroed

Zero(s) ==
  /\ outcome = "wiping"
  /\ s \subseteq region
  /\ zeroed' = zeroed \cup s
  /\ UNCHANGED <<region, outcome>>

(* The last write may do part of its work before it fails. *)
Fail(s) ==
  /\ outcome \in {"idle", "wiping"}
  /\ s \subseteq region
  /\ zeroed' = zeroed \cup s
  /\ region' = {} /\ outcome' = "failed"

Succeed(s) ==
  /\ outcome = "wiping"
  /\ s \subseteq region
  /\ zeroed' = zeroed \cup s
  /\ region \subseteq zeroed'
  /\ outcome' = "ok"
  /\ UNCHANGED region

Next ==
  \/ Reuse
  \/ \E r \in SUBSET Sector : Begin(r)
  \/ \E s \in SUBSET Sector : Zero(s) \/ Fail(s) \/ Succeed(s)

Spec == Init /\ [][Next]_wipeVars
=============================================================================
