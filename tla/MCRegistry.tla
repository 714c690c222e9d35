----------------------------- MODULE MCRegistry -----------------------------
(***************************************************************************)
(* Instances of ClassRegistry for TLC.  The prototypes are those of        *)
(* MRObjects.c on a 32-bit machine, sizes in words: root (isa and a retain *)
(* count) and its subclass str, with a method of the same name each.  a1   *)
(* is made at run time, and b1 too, by a name that str wants as well.  sub *)
(* is a prototype whose superclass a1 may still be in construction.        *)
(***************************************************************************)
EXTENDS ClassRegistry, TLC

CONSTANTS t1, t2, root, str, sub, bad, old, a1, b1,
          nRoot, nStr, nSub, nA, retain, init

Of(f) == [c \in Classes |-> f[c]]
OfProtos(f) == [p \in Protos |-> f[p]]
Ivar(n, s, o) == [name |-> n, size |-> s, offset |-> o]

MCNameOf == Of((root :> nRoot) @@ (str :> nStr) @@ (sub :> nSub)
               @@ (bad :> nStr) @@ (old :> nStr) @@ (a1 :> nA) @@ (b1 :> nStr))
MCSuperName == OfProtos((root :> NoName) @@ (str :> nRoot) @@ (sub :> nA)
                        @@ (bad :> NoName) @@ (old :> nRoot))
MCProtoIvars ==
  OfProtos((root :> <<Ivar("isa", 1, 0), Ivar("retain_count", 1, 1)>>)
           @@ (str :> <<Ivar("cString", 1, 2)>>) @@ (sub :> <<>>)
           @@ (bad :> <<>>) @@ (old :> <<>>))
(* On a 64-bit machine a pointer takes two words and is aligned to two.    *)
LP64Ivars ==
  OfProtos((root :> <<Ivar("isa", 2, 0), Ivar("retain_count", 1, 2)>>)
           @@ (str :> <<Ivar("cString", 2, 4)>>) @@ (sub :> <<>>))
MCProtoSels ==
  OfProtos((root :> {retain}) @@ (str :> {retain}) @@ (sub :> {})
           @@ (bad :> {}) @@ (old :> {}))
MCOwnSels == (t1 :> {init}) @@ (t2 :> {})
(* A name that the prototypes use as well. *)
OwnRetain == (t1 :> {retain}) @@ (t2 :> {})
(* bad is malformed, old is a prototype of an older version.               *)
MCBatches == {<<root, str>>}
FlawedBatches == {<<bad, root, str>>, <<old>>}
SubBatches == {<<sub>>}
MCNewIvars == {[name |-> "data", size |-> 2, align |-> 2]}
=============================================================================
