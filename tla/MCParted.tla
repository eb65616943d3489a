------------------------------ MODULE MCParted ------------------------------
(***************************************************************************)
(* Two processes and a device of three sectors.  1 MB is two sectors, and *)
(* 4 MB wrap to none.  The tables: an empty one, and one of two primary    *)
(* partitions of which the first is active, with a free sector between.    *)
(***************************************************************************)
EXTENDS Parted, TLC

MCTables == {
  [n \in Num |-> NULL],
  [n \in Num |-> IF n = 1 THEN Partition("normal", 0, 0, TRUE)
                 ELSE IF n = 2 THEN Partition("normal", 2, 2, FALSE)
                 ELSE NULL] }
Create(type, size) == [tool |-> "create", type |-> type, size |-> size]
MCJob == {[tool |-> "active", num |-> n] : n \in {0, 2, 3}} \cup
  {Create("normal", 1), Create("logical", 0), Create("normal", 4)}
MCSymmetry == Permutations(Proc)
=============================================================================
