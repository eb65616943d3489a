---------------------------- MODULE Units_proofs ----------------------------
(***************************************************************************)
(* The sizes that list shows are near the true ones and keep their order,  *)
(* whatever the unit K is.                                                 *)
(***************************************************************************)
EXTENDS Units, TLAPS

(* What integer division gives, for any divisor. *)
LEMMA Division ==
  ASSUME NEW a \in Nat, NEW d \in Nat \ {0}
  PROVE  /\ a \div d \in Nat
         /\ (a \div d) * d <= a /\ a < (a \div d) * d + d
  OBVIOUS

(* A number of whole units is below another if their bytes are. *)
LEMMA WholeUnits ==
  ASSUME NEW q \in Nat, NEW r \in Nat, NEW d \in Nat \ {0}, q * d < r * d + d
  PROVE  q <= r
  <1>1. SUFFICES ASSUME q >= r + 1 PROVE FALSE
    OBVIOUS
  <1>2. q * d >= (r + 1) * d
    BY <1>1
  <1>3. (r + 1) * d = r * d + d
    OBVIOUS
  <1> QED BY <1>2, <1>3

LEMMA MoreUnits ==
  ASSUME NEW q \in Nat, NEW r \in Nat, NEW d \in Nat, q <= r
  PROVE  q * d <= r * d
  OBVIOUS

LEMMA UnitTypes ==
  /\ K \in Nat \ {0} /\ MegaByte \in Nat \ {0} /\ GigaByte \in Nat \ {0}
  /\ 10 * GigaByte = (10 * K) * MegaByte /\ 10 * MegaByte = (10 * K) * K
  BY UnitsAssumption DEF MegaByte, GigaByte

-----------------------------------------------------------------------------
(* RoundingDivide: within half a unit, and never over a number of whole     *)
(* units that the argument is not over.                                     *)
LEMMA Rounded ==
  ASSUME NEW n \in Nat, NEW d \in Nat \ {0}
  PROVE  /\ RoundingDivide(n, d) \in Nat
         /\ RoundingDivide(n, d) * d <= n + d \div 2
         /\ n + d \div 2 < RoundingDivide(n, d) * d + d
  <1>1. d \div 2 \in Nat /\ n + d \div 2 \in Nat
    OBVIOUS
  <1> QED BY <1>1, Division DEF RoundingDivide

LEMMA RoundedWithin ==
  ASSUME NEW n \in Nat, NEW d \in Nat \ {0}
  PROVE  2 * Distance(RoundingDivide(n, d) * d, n) <= d
  <1> DEFINE bytes == RoundingDivide(n, d) * d
  <1>1. bytes \in Int /\ bytes <= n + d \div 2 /\ n + d \div 2 < bytes + d
    BY Rounded
  <1> HIDE DEF bytes
  <1>2. 2 * (d \div 2) <= d /\ d <= 2 * (d \div 2) + 1
    OBVIOUS
  <1> QED BY <1>1, <1>2 DEF Distance, bytes

LEMMA RoundedNotOver ==
  ASSUME NEW n \in Nat, NEW d \in Nat \ {0}, NEW r \in Nat, n <= r * d
  PROVE  RoundingDivide(n, d) * d <= r * d
  <1> DEFINE c == RoundingDivide(n, d)
  <1>1. c \in Nat /\ c * d <= n + d \div 2 /\ d \div 2 < d
    BY Rounded
  <1> HIDE DEF c
  <1>2. c * d \in Nat /\ r * d \in Nat /\ d \div 2 \in Nat
    BY <1>1
  <1>3. c * d < r * d + d
    BY <1>1, <1>2
  <1>4. c <= r
    BY <1>1, <1>3, WholeUnits
  <1> QED BY <1>1, <1>4, MoreUnits DEF c

LEMMA RoundedNotUnder ==
  ASSUME NEW n \in Nat, NEW d \in Nat \ {0}, NEW r \in Nat, r * d <= n
  PROVE  r * d <= RoundingDivide(n, d) * d
  <1> DEFINE c == RoundingDivide(n, d)
  <1>1. c \in Nat /\ n + d \div 2 < c * d + d
    BY Rounded
  <1> HIDE DEF c
  <1>2. c * d \in Nat /\ r * d \in Nat /\ d \div 2 \in Nat
    BY <1>1
  <1>3. r * d < c * d + d
    BY <1>1, <1>2
  <1>4. r <= c
    BY <1>1, <1>3, WholeUnits
  <1> QED BY <1>1, <1>4, MoreUnits DEF c

LEMMA RoundedInOrder ==
  ASSUME NEW m \in Nat, NEW n \in Nat, m <= n, NEW d \in Nat \ {0}
  PROVE  /\ RoundingDivide(m, d) <= RoundingDivide(n, d)
         /\ RoundingDivide(m, d) * d <= RoundingDivide(n, d) * d
  <1> DEFINE b == RoundingDivide(m, d)
  <1> DEFINE c == RoundingDivide(n, d)
  <1>1. /\ b \in Nat /\ b * d <= m + d \div 2
        /\ c \in Nat /\ n + d \div 2 < c * d + d
    BY Rounded
  <1> HIDE DEF b, c
  <1>2. b * d \in Nat /\ c * d \in Nat /\ d \div 2 \in Nat
    BY <1>1
  <1>3. b * d < c * d + d
    BY <1>1, <1>2
  <1>4. b <= c
    BY <1>1, <1>3, WholeUnits
  <1> QED BY <1>1, <1>4, MoreUnits DEF b, c

-----------------------------------------------------------------------------
(* Every size that list shows is within half the unit it is shown in, and   *)
(* from ten KB on within a twentieth of itself.                             *)
THEOREM ShownIsNear == \A n \in Nat : Near(n)
  <1> SUFFICES ASSUME NEW n \in Nat PROVE Near(n)
    OBVIOUS
  <1>1. ASSUME NEW d \in {K, MegaByte, GigaByte}, Shown(n) = In(n, d),
               n >= 10 * K => n >= 10 * d
        PROVE  Near(n)
    <2> DEFINE far == Distance(RoundingDivide(n, d) * d, n)
    <2>1. d \in Nat \ {0}
      BY UnitTypes
    <2>2. 2 * far <= d /\ far \in Int
      <3>1. RoundingDivide(n, d) * d \in Int
        BY <2>1, Rounded
      <3> QED BY <2>1, <3>1, RoundedWithin DEF Distance
    <2>3. InBytes(Shown(n)) = RoundingDivide(n, d) * d /\ Shown(n).unit = d
      BY <1>1 DEF In, InBytes
    <2> HIDE DEF far
    <2>4. n >= 10 * K => 20 * far <= n
      BY <1>1, <2>1, <2>2, UnitTypes
    <2> QED BY <2>2, <2>3, <2>4 DEF Near, far
  <1>2. n >= 10 * GigaByte \/ n < 10 * GigaByte
    BY UnitTypes
  <1>3. n >= 10 * MegaByte \/ n < 10 * MegaByte
    BY UnitTypes
  <1> QED BY <1>1, <1>2, <1>3 DEF Shown

(* list disk shows a size within half its unit, or as 1 MB if it is less    *)
(* than half of one (NearOfDisk).                                           *)
THEOREM DiskIsNear == \A n \in Nat : NearOfDisk(n)
  <1> SUFFICES ASSUME NEW n \in Nat PROVE NearOfDisk(n)
    OBVIOUS
  <1>1. ASSUME NEW d \in {MegaByte, GigaByte}, ShownOfDisk(n) = In(n, d),
               RoundingDivide(n, d) # 0
        PROVE  NearOfDisk(n)
    <2>1. d \in Nat \ {0}
      BY UnitTypes
    <2>2. RoundingDivide(n, d) \in Nat /\ RoundingDivide(n, d) >= 1
      BY <1>1, <2>1, Rounded
    <2>3. /\ ShownOfDisk(n).count = RoundingDivide(n, d) /\ ShownOfDisk(n).unit = d
          /\ InBytes(ShownOfDisk(n)) = RoundingDivide(n, d) * d
      BY <1>1 DEF In, InBytes
    <2> QED BY <2>1, <2>2, <2>3, RoundedWithin DEF NearOfDisk
  <1>2. RoundingDivide(n, MegaByte) = 0 => ~(2 * n >= MegaByte)
    <2>1. MegaByte % 2 = 0
      BY UnitsAssumption DEF MegaByte
    <2>2. 2 * (MegaByte \div 2) = MegaByte
      BY <2>1, UnitTypes
    <2>3. n + MegaByte \div 2 < RoundingDivide(n, MegaByte) * MegaByte + MegaByte
      BY UnitTypes, Rounded
    <2> HIDE DEF MegaByte
    <2> QED BY <2>2, <2>3, UnitTypes
  <1>3. CASE n < 10 * GigaByte /\ RoundingDivide(n, MegaByte) = 0
    <2>1. ShownOfDisk(n).count = 1
      BY <1>3, UnitTypes DEF ShownOfDisk, In
    <2> QED BY <1>2, <1>3, <2>1 DEF NearOfDisk
  <1>4. CASE n < 10 * GigaByte /\ RoundingDivide(n, MegaByte) # 0
    BY <1>1, <1>4, UnitTypes DEF ShownOfDisk, In
  <1>5. CASE n >= 10 * GigaByte
    <2>1. 10 * GigaByte <= RoundingDivide(n, GigaByte) * GigaByte
      BY <1>5, UnitTypes, RoundedNotUnder
    <2>2. RoundingDivide(n, GigaByte) # 0
      BY <2>1, UnitTypes
    <2> QED BY <1>1, <1>5, <2>2 DEF ShownOfDisk
  <1> QED BY <1>3, <1>4, <1>5, UnitTypes

(* A larger size is never shown as a smaller one, across all thresholds     *)
(* (ShownInOrder).                                                          *)
THEOREM SizesKeepTheirOrder == ShownInOrder
  <1> SUFFICES ASSUME NEW m \in Nat, NEW n \in Nat, m <= n
               PROVE  /\ InBytes(Shown(m)) <= InBytes(Shown(n))
                      /\ InBytes(ShownOfDisk(m)) <= InBytes(ShownOfDisk(n))
    BY DEF ShownInOrder
  <1> DEFINE Bytes(x, d) == RoundingDivide(x, d) * d
  <1>0. \A x \in {m, n}, d \in {K, MegaByte, GigaByte} :
          Bytes(x, d) \in Nat /\ InBytes(In(x, d)) = Bytes(x, d)
    BY UnitTypes, Rounded DEF In, InBytes
  <1>1. \A d \in {K, MegaByte, GigaByte} : Bytes(m, d) <= Bytes(n, d)
    BY UnitTypes, RoundedInOrder
  <1>2. \A r \in Nat, d \in {K, MegaByte, GigaByte} : m < r * d => Bytes(m, d) <= r * d
    BY UnitTypes, RoundedNotOver
  <1>3. \A r \in Nat, d \in {K, MegaByte, GigaByte} : r * d <= n => r * d <= Bytes(n, d)
    BY UnitTypes, RoundedNotUnder
  <1> HIDE DEF Bytes
  <1>4. m < 10 * GigaByte => Bytes(m, MegaByte) <= 10 * GigaByte
    BY <1>2, UnitTypes
  <1>5. m < 10 * MegaByte => Bytes(m, K) <= 10 * MegaByte
    BY <1>2, UnitTypes
  <1>6. 10 * GigaByte <= n => 10 * GigaByte <= Bytes(n, GigaByte)
    BY <1>3, UnitTypes
  <1>7. 10 * MegaByte <= n => 10 * MegaByte <= Bytes(n, MegaByte)
    BY <1>3, UnitTypes
  <1>8. 10 * MegaByte <= 10 * GigaByte /\ MegaByte <= 10 * GigaByte
    <2>1. MegaByte <= GigaByte
      BY UnitTypes DEF MegaByte, GigaByte
    <2> QED BY <2>1, UnitTypes
  <1>9. InBytes(Shown(m)) <= InBytes(Shown(n))
    BY <1>0, <1>1, <1>4, <1>5, <1>6, <1>7, <1>8, UnitTypes DEF Shown
  <1>10. InBytes(ShownOfDisk(m)) <= InBytes(ShownOfDisk(n))
    <2>1. \A x \in {m, n} :
            InBytes(ShownOfDisk(x)) =
              IF x >= 10 * GigaByte THEN Bytes(x, GigaByte)
              ELSE IF RoundingDivide(x, MegaByte) = 0 THEN MegaByte ELSE Bytes(x, MegaByte)
      BY UnitTypes DEF ShownOfDisk, In, InBytes, Bytes
    <2>2. \A x \in {m, n} : RoundingDivide(x, MegaByte) # 0 => MegaByte <= Bytes(x, MegaByte)
      <3>1. \A x \in {m, n} : RoundingDivide(x, MegaByte) \in Nat
        BY UnitTypes, Rounded
      <3>2. \A q \in Nat : q # 0 => 1 * MegaByte <= q * MegaByte
        BY UnitTypes, MoreUnits
      <3> QED BY <3>1, <3>2, UnitTypes DEF Bytes
    <2>3. RoundingDivide(n, MegaByte) = 0 => RoundingDivide(m, MegaByte) = 0
      BY UnitTypes, Rounded, RoundedInOrder
    <2>4. m >= 10 * GigaByte => n >= 10 * GigaByte
      BY UnitTypes
    <2>5. MegaByte \in Nat /\ GigaByte \in Nat
      BY UnitTypes
    <2> QED BY <1>0, <1>1, <1>4, <1>6, <1>8, <2>1, <2>2, <2>3, <2>4, <2>5
  <1> QED BY <1>9, <1>10
=============================================================================
