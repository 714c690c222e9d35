------------------------------ MODULE MCRuntime ------------------------------
(***************************************************************************)
(* Instances of RuntimeInit for TLC: the initializers of extras/ (posix.c  *)
(* sets what is required, categs.c and ao-ext.c add an extension) and one  *)
(* of the program, which replaces the implementation of the class holder.  *)
(* A category takes space in a class, associated objects in an object; the *)
(* extension own takes both.                                               *)
(***************************************************************************)
EXTENDS RuntimeInit, TLC

CONSTANTS t1, t2, posix, categs, ao, holders, categories, associated, own

MCSets == (posix :> Required) @@ (categs :> {}) @@ (ao :> {})
          @@ (holders :> {"class_holder"})
MCAdds == (posix :> NoExt) @@ (categs :> categories) @@ (ao :> associated)
          @@ (holders :> NoExt)
MCClassSpace == (categories :> 2) @@ (associated :> 0) @@ (own :> 1)
MCObjectSpace == (categories :> 0) @@ (associated :> 2) @@ (own :> 1)
MCSettable == {"abort", "class_holder"}
=============================================================================
