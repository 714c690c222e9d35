----------------------------- MODULE MCDispatch -----------------------------
(***************************************************************************)
(* Instances of Dispatch for TLC: the class C is a subclass of B, which is *)
(* a subclass of A, as in the scenario of chap6.tex.  a1 is a method of A  *)
(* for the selector s1, n1 a method for s1 that nobody has attached yet,   *)
(* g1 a method for s1 in the category cat.  In the run about forwarding, f *)
(* and d are A's two forwarding methods.                                   *)
(***************************************************************************)
EXTENDS Dispatch, TLC

CONSTANTS A, B, C, a1, n1, g1, f, d, s1, sF, sD, cat, x1

MCSuper == (A :> Nil) @@ (B :> A) @@ (C :> B)
MCLineage == (A :> {A}) @@ (B :> {A, B}) @@ (C :> {A, B, C})
MCOrder == <<A, B, C>>
MCSelOf == [m \in Methods |-> CASE m = f -> sF [] m = d -> sD [] OTHER -> s1]

(* Every class has these lists of instance and of class methods. *)
Only(c, k, list) ==
  [b \in Classes |-> [j \in Kinds |-> IF b = c /\ j = k THEN list ELSE <<>>]]
InstanceOfA == Only(A, "instance", <<a1>>)
ClassOfA == Only(A, "class", <<a1>>)
ForwardingA == Only(A, "instance", <<f, d>>)

OnLeaf == [g \in Categories |-> C]
OnMiddle == [g \in Categories |-> B]
CatInstance == [g \in Categories |-> [k \in Kinds |->
                 IF g = cat /\ k = "instance" THEN <<g1>> ELSE <<>>]]
MCSiteSel == [x \in Sites |-> s1]
ToInstances == [x \in Sites |-> {"instance"}]
=============================================================================
