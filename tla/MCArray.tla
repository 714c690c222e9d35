------------------------------- MODULE MCArray -------------------------------
(***************************************************************************)
(* Instances of ObjcArray for TLC.  Thread t1 appends x1, x2 and x3, t2    *)
(* appends y1.  x1 and x2 have one name, so that the later one is refused. *)
(* In the flattening instance every item is a Method array; x2 holds two.  *)
(* In the instance about names all items have one.                         *)
(***************************************************************************)
EXTENDS ObjcArray, TLC

CONSTANTS t1, t2, t3, x1, x2, x3, y1, n1, n2, n3

MCNameOf == (x1 :> n1) @@ (x2 :> n1) @@ (x3 :> n2) @@ (y1 :> n3)
MCOneName == [x \in Items |-> n1]
MCAddedBy == (x1 :> t1) @@ (x2 :> t1) @@ (x3 :> t1) @@ (y1 :> t2)
MCUnit == [x \in Items |-> 1]
MCWidth == (x1 :> 1) @@ (x2 :> 2) @@ (x3 :> 1) @@ (y1 :> 1)
=============================================================================
