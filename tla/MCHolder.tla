------------------------------ MODULE MCHolder ------------------------------
(***************************************************************************)
(* Instances of Holder for TLC.  All three objects fall into bucket b1, so *)
(* that inserts meet: o1 and o2 have the same key, and their order in the  *)
(* list decides which one a look-up finds; o3 has another key with the     *)
(* same hash.  No object has the key k3, whose bucket stays empty.         *)
(***************************************************************************)
EXTENDS Holder, TLC

CONSTANTS t1, t2, t3, o1, o2, o3, k1, k2, k3, b1, b2

MCKeyOf == (o1 :> k1) @@ (o2 :> k1) @@ (o3 :> k2)
MCBucketOf == (k1 :> b1) @@ (k2 :> b1) @@ (k3 :> b2)
=============================================================================
