---------------------------- MODULE MCConcurrent ----------------------------
(***************************************************************************)
(* Instances of ConcurrentDispatch for TLC: C and D are subclasses of A.   *)
(* A has the method a1 for the selector s1.  t1 and t2 send messages to    *)
(* instances of C; t2 has D for itself: it overrides a1 there, and flushes *)
(* its cache.  t2 also adds n2 to A, for s2, which nothing else implements. *)
(***************************************************************************)
EXTENDS ConcurrentDispatch, TLC

CONSTANTS t1, t2, A, C, D, a1, d1, n2, c2, s1, s2

MCSuper == (A :> Nil) @@ (C :> A) @@ (D :> A)
MCLineage == (A :> {A}) @@ (C :> {A, C}) @@ (D :> {A, D})
MCSelOf == [m \in Methods |-> IF m \in {a1, d1} THEN s1 ELSE s2]
MCOwn == (A :> <<a1>>) @@ (C :> <<>>) @@ (D :> <<>>)

MCLooks == {<<t1, C, s1>>, <<t1, C, s2>>, <<t2, C, s1>>, <<t2, D, s1>>}
MCAdds == {<<t2, D, d1>>, <<t2, A, n2>>}
MCFlushes == {<<t2, D>>}

(* The same with one difference: C is flushed, or overridden, or gets a    *)
(* method for s2 of its own.                                               *)
FlushesC == {<<t2, C>>}
OverridesC == {<<t2, C, d1>>}
AddsToBoth == {<<t2, C, c2>>, <<t2, A, n2>>}
=============================================================================
