------------------------------- MODULE Units -------------------------------
(***************************************************************************)
(* How list shows sizes: a number of bytes is divided by the largest unit  *)
(* of which there are ten, and rounded (list.c, misc.c).  list disk knows  *)
(* no KB, and shows a size of at least 1.  Sums of 64 bits do not wrap     *)
(* here: the code's would, within half a GB of 2^64 bytes.                 *)
(***************************************************************************)
EXTENDS Integers

CONSTANT K              \* 1024

MegaByte == K * K
GigaByte == K * K * K

ASSUME UnitsAssumption == K \in Nat \ {0} /\ K % 2 = 0

Truncated(dividend, divisor) == dividend \div divisor            \* faulty
RoundingDivide(dividend, divisor) == (dividend + divisor \div 2) \div divisor

In(n, unit) == [count |-> RoundingDivide(n, unit), unit |-> unit]
Shown(n) == IF n >= 10 * GigaByte THEN In(n, GigaByte)
            ELSE IF n >= 10 * MegaByte THEN In(n, MegaByte)
            ELSE In(n, K)
ShownOfDisk(n) == IF n >= 10 * GigaByte THEN In(n, GigaByte)
                  ELSE IF In(n, MegaByte).count = 0 THEN [count |-> 1, unit |-> MegaByte]
                  ELSE In(n, MegaByte)

InBytes(shown) == shown.count * shown.unit
Distance(m, n) == IF m < n THEN n - m ELSE m - n

(* Within half a unit, so from ten KB on within a twentieth of the size.    *)
Near(n) ==
  /\ 2 * Distance(InBytes(Shown(n)), n) <= Shown(n).unit
  /\ n >= 10 * K => 20 * Distance(InBytes(Shown(n)), n) <= n

(* list disk: within half a unit, except that it never shows 0 (list.c:32). *)
NearOfDisk(n) ==
  /\ ShownOfDisk(n).count >= 1
  /\ 2 * n >= MegaByte =>
       2 * Distance(InBytes(ShownOfDisk(n)), n) <= ShownOfDisk(n).unit

(* Of two sizes the larger is never shown as the smaller, in whichever unit *)
(* each is shown (list.c:101-115, and list.c:24-35 for disks).              *)
ShownInOrder ==
  \A m, n \in Nat : m <= n =>
    /\ InBytes(Shown(m)) <= InBytes(Shown(n))
    /\ InBytes(ShownOfDisk(m)) <= InBytes(ShownOfDisk(n))
=============================================================================
