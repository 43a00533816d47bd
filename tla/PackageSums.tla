----------------------------- MODULE PackageSums -----------------------------
(* Sums of quantities over chosen rows, taken as the number of packages in   *)
(* them: a package is a row and a serial number in it.                       *)
EXTENDS Integers, FiniteSets

Packages(rows, chosen) == UNION {{i} \X (1 .. rows[i].qty) : i \in chosen}
QtyOf(rows, chosen) == Cardinality(Packages(rows, chosen))
=============================================================================
