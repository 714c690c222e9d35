----------------------------- MODULE MCObjects -----------------------------
(***************************************************************************)
(* Instances of Objects for TLC.  A plain object has isa, a retain count   *)
(* and one ivar, one of class big an ivar more; spy is a subclass of plain *)
(* without ivars, raw a class in construction.  k1 and k2 fall into one    *)
(* bucket, k3 into another if there are two.  The extensions are those of  *)
(* extras/ (categories take no space in objects), or with one of the       *)
(* program before them.                                                    *)
(***************************************************************************)
EXTENDS Objects, TLC

CONSTANTS t1, t2, plain, spy, big, raw, k1, k2, k3

MCInstanceSize == [c \in Classes |-> IF c = big THEN 4 ELSE 3]
MCBucket == [k \in Keys |-> IF k = k3 THEN 2 ELSE 1]
MCSpaces == <<0, 1>>
OwnSpaces == <<1, 1>>
MCSwaps == {<<plain, spy>>}
BigSwaps == {<<plain, big>>}
=============================================================================
