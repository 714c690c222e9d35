-------------------------------- MODULE Sums --------------------------------
(***************************************************************************)
(* Sizes that are added up one after the other: the ivars of a prototype   *)
(* and the spaces of the extensions behind an object or a class.           *)
(***************************************************************************)
LOCAL INSTANCE Naturals
LOCAL INSTANCE Sequences

(* Sums(s)[i]: the first i numbers of s together. *)
Sums(s) == LET sum[i \in 0..Len(s)] == IF i = 0 THEN 0 ELSE sum[i - 1] + s[i] IN sum
=============================================================================
