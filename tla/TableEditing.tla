---------------------------- MODULE TableEditing ----------------------------
(***************************************************************************)
(* What tools that edit one partition table promise each other: a tool     *)
(* loads the table of the device, edits its copy and writes the copy back  *)
(* as a whole.  An edit moves flags, or adds one partition in space that   *)
(* is free; no edit moves, resizes or removes a partition of the copy.     *)
(***************************************************************************)
EXTENDS Integers

CONSTANTS Proc, Num, NULL,
          Blank             \* a copy that holds nothing

VARIABLES device,    \* [Num -> entry or NULL], the table on the device
          copy       \* [Proc -> table], the table each tool works on

tableVars == <<device, copy>>

Used(t) == {n \in Num : t[n] # NULL}
Apart(a, b) == \/ a.last < b.first \/ b.last < a.first
               \/ {a.type, b.type} = {"extended", "logical"}
Disjoint(t) == \A m, n \in Used(t) : m # n => Apart(t[m], t[n])

SamePlace(a, b) == a.type = b.type /\ a.first = b.first /\ a.last = b.last

Init ==
  /\ Disjoint(device)
  /\ copy = [p \in Proc |-> Blank]

Load(p) == copy' = [copy EXCEPT ![p] = device] /\ UNCHANGED device
Drop(p) == copy' = [copy EXCEPT ![p] = Blank] /\ UNCHANGED device

MoveFlags(p) ==
  /\ UNCHANGED device
  /\ \E t \in [Num -> {NULL} \cup {copy'[p][n] : n \in Num}] :
       /\ Used(t) = Used(copy[p])
       /\ \A n \in Used(t) : SamePlace(t[n], copy[p][n])
       /\ copy' = [copy EXCEPT ![p] = t]

Add(p) ==
  /\ UNCHANGED device
  /\ \E n \in Num \ Used(copy[p]) :
       /\ copy'[p][n] # NULL /\ ~ copy'[p][n].boot
       /\ \A m \in Used(copy[p]) : Apart(copy'[p][n], copy[p][m])
       /\ copy' = [copy EXCEPT ![p] = [@ EXCEPT ![n] = copy'[p][n]]]

(* A write may be the last thing a tool does. *)
Write(p) ==
  /\ device' = copy[p]
  /\ copy' = copy \/ copy' = [copy EXCEPT ![p] = Blank]

Next == \E p \in Proc : Load(p) \/ Drop(p) \/ MoveFlags(p) \/ Add(p) \/ Write(p)

Spec == Init /\ [][Next]_tableVars
=============================================================================
