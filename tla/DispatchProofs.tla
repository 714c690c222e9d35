--------------------------- MODULE DispatchProofs ---------------------------
(***************************************************************************)
(* Theorems about Dispatch, for any hierarchy of classes, any methods,     *)
(* categories and call sites: which method answers is settled by the order *)
(* of attachment, and under the conditions that the flushing code needs no *)
(* cache outlives the answer it holds.                                     *)
(***************************************************************************)
EXTENDS Dispatch, FiniteSetTheorems, SequenceTheorems, WellFoundedInduction, TLAPS

USE DispatchAssumption

-----------------------------------------------------------------------------
(* The hierarchy.                                                          *)

(* Every non-empty set of numbers has a least one, and that is Least.      *)
LEMMA LeastIs ==
  ASSUME NEW I \in SUBSET Nat, I # {}
  PROVE  Least(I) \in I /\ \A j \in I : Least(I) <= j
<1>1. PICK i \in I : \A j \in I : ~(<<j, i>> \in OpToRel(<, Nat))
  BY NatLessThanWellFounded, WFMin
<1>2. \A j \in I : ~(j < i)
  BY <1>1, Zenon DEF OpToRel
<1>3. \A j \in I : i <= j
  BY <1>2
<1> QED BY <1>3 DEF Least

LEMMA ClassesFinite == IsFiniteSet(Classes)
<1>1. ClassOrder \in Surjection(1..Len(ClassOrder), Classes)
  BY DEF Surjection
<1> QED BY <1>1, FS_Interval, FS_Surjection

(* Above a class come fewer and fewer: a set of classes that has some class *)
(* has one whose superclass it has not.                                     *)
LEMMA Topmost ==
  ASSUME NEW Bad \in SUBSET Classes, Bad # {}
  PROVE  \E c \in Bad : Super[c] = Nil \/ Super[c] \notin Bad
<1> DEFINE Height(c) == Cardinality(Lineage[c])
           I == {Height(c) : c \in Bad}
<1>1. \A c \in Classes : IsFiniteSet(Lineage[c]) /\ Height(c) \in Nat
  BY ClassesFinite, FS_Subset, FS_CardinalityType
<1>2. I \in SUBSET Nat /\ I # {}
  BY <1>1
<1>3. PICK c \in Bad : \A d \in Bad : Height(c) <= Height(d)
  <2> HIDE DEF I
  <2>1. PICK i \in I : \A j \in I : i <= j
    BY <1>2, LeastIs
  <2> QED BY <2>1 DEF I
<1>4. ASSUME Super[c] # Nil PROVE Super[c] \notin Bad
  <2>1. /\ Super[c] \in Classes /\ c \notin Lineage[Super[c]]
        /\ Lineage[c] = Lineage[Super[c]] \cup {c}
    BY <1>4
  <2>2. Height(c) = Height(Super[c]) + 1
    BY <1>1, <2>1, FS_AddElement
  <2> QED BY <1>1, <1>3, <2>1, <2>2
<1> QED BY <1>4

LEMMA LineageTransitive ==
  \A c \in Classes : \A a \in Lineage[c] : Lineage[a] \subseteq Lineage[c]
<1> DEFINE Bad == {c \in Classes : \E a \in Lineage[c] : ~(Lineage[a] \subseteq Lineage[c])}
<1>1. ASSUME Bad # {} PROVE FALSE
  <2>1. PICK c \in Bad : Super[c] = Nil \/ Super[c] \notin Bad
    BY <1>1, Topmost
  <2>2. CASE Super[c] = Nil
    BY <2>1, <2>2
  <2>3. CASE Super[c] # Nil
    <3>1. /\ Super[c] \in Classes /\ Lineage[c] = {c} \cup Lineage[Super[c]]
      BY <2>3
    <3>2. \A a \in Lineage[Super[c]] : Lineage[a] \subseteq Lineage[Super[c]]
      BY <2>1, <2>3, <3>1
    <3> QED BY <2>1, <3>1, <3>2
  <2> QED BY <2>2, <2>3
<1> QED BY <1>1

LEMMA LineageTotal ==
  \A c \in Classes : \A a, b \in Lineage[c] : a \in Lineage[b] \/ b \in Lineage[a]
<1> DEFINE Bad == {c \in Classes : \E a, b \in Lineage[c] :
                                     a \notin Lineage[b] /\ b \notin Lineage[a]}
<1>1. ASSUME Bad # {} PROVE FALSE
  <2>1. PICK c \in Bad : Super[c] = Nil \/ Super[c] \notin Bad
    BY <1>1, Topmost
  <2>2. PICK a \in Lineage[c], b \in Lineage[c] : a \notin Lineage[b] /\ b \notin Lineage[a]
    BY <2>1
  <2>3. a # c /\ b # c
    BY <2>2
  <2>4. Super[c] \in Classes /\ a \in Lineage[Super[c]] /\ b \in Lineage[Super[c]]
    BY <2>2, <2>3
  <2> QED BY <2>1, <2>2, <2>4
<1> QED BY <1>1

LEMMA LineageOrdered ==
  ASSUME NEW a \in Classes, NEW b \in Classes, a \in Lineage[b], b \in Lineage[a]
  PROVE  a = b
<1> SUFFICES ASSUME a # b PROVE FALSE
  OBVIOUS
<1>1. Super[b] \in Classes /\ a \in Lineage[Super[b]]
  OBVIOUS
<1>2. b \in Lineage[Super[b]]
  BY <1>1, LineageTransitive
<1> QED BY <1>1, <1>2

(* Of the classes in Q, one is the nearest on the climb from c. *)
Nearest(a, c, Q) == a \in Lineage[c] /\ a \in Q
                    /\ \A b \in Lineage[c] : b \in Lineage[a] \/ b \notin Q

LEMMA NearestExists ==
  ASSUME NEW Q, NEW c \in Classes, \E a \in Lineage[c] : a \in Q
  PROVE  \E a \in Lineage[c] : Nearest(a, c, Q)
<1> DEFINE Bad == {d \in Classes : /\ \E a \in Lineage[d] : a \in Q
                                   /\ ~\E a \in Lineage[d] : Nearest(a, d, Q)}
<1>1. ASSUME Bad # {} PROVE FALSE
  <2>1. PICK d \in Bad : Super[d] = Nil \/ Super[d] \notin Bad
    BY <1>1, Topmost
  <2>2. CASE d \in Q
    <3>1. Nearest(d, d, Q)
      BY <2>2 DEF Nearest
    <3> QED BY <2>1, <3>1
  <2>3. CASE d \notin Q
    <3>1. /\ Super[d] \in Classes /\ Lineage[d] = {d} \cup Lineage[Super[d]]
          /\ \E a \in Lineage[Super[d]] : a \in Q
      BY <2>1, <2>3
    <3>2. PICK a \in Lineage[Super[d]] : Nearest(a, Super[d], Q)
      BY <2>1, <3>1
    <3>3. Nearest(a, d, Q)
      BY <2>3, <3>1, <3>2 DEF Nearest
    <3> QED BY <2>1, <3>1, <3>3
  <2> QED BY <2>2, <2>3
<1> QED BY <1>1

LEMMA NearestUnique ==
  ASSUME NEW Q, NEW c \in Classes, NEW a, NEW b, Nearest(a, c, Q), Nearest(b, c, Q)
  PROVE  a = b
BY LineageOrdered DEF Nearest

-----------------------------------------------------------------------------
(* The lists.                                                              *)

LEMMA Constants ==
  /\ NullMethod \notin Methods /\ NilMethod \notin Methods /\ NullMethod # NilMethod
  /\ \A g \in Categories, k \in Kinds : CatMethods[g][k] \in Seq(Methods)
  /\ SelOf \in [Methods -> Sels]
OBVIOUS

HIDE DispatchAssumption

LEMMA FirstMatchIs ==
  ASSUME NEW seq \in Seq(Methods), NEW s
  PROVE  \/ /\ FirstMatch(seq, s) = NullMethod
            /\ \A i \in DOMAIN seq : SelOf[seq[i]] # s
         \/ \E i \in DOMAIN seq :
              /\ FirstMatch(seq, s) = seq[i] /\ seq[i] \in Methods /\ SelOf[seq[i]] = s
              /\ \A j \in DOMAIN seq : SelOf[seq[j]] = s => i <= j
<1> DEFINE I == {i \in DOMAIN seq : SelOf[seq[i]] = s}
<1>1. CASE I = {}
  BY <1>1 DEF FirstMatch
<1>2. CASE I # {}
  <2>1. I \in SUBSET Nat
    OBVIOUS
  <2>2. Least(I) \in I /\ \A j \in I : Least(I) <= j
    <3> HIDE DEF I
    <3> QED BY <1>2, <2>1, LeastIs
  <2>3. FirstMatch(seq, s) = seq[Least(I)]
    BY <2>2 DEF FirstMatch
  <2>4. seq[Least(I)] \in Methods
    BY <2>2
  <2> QED BY <2>2, <2>3, <2>4
<1> QED BY <1>1, <1>2

(* A list that grows at its end answers what it answered. *)
LEMMA FirstMatchGrows ==
  ASSUME NEW seq \in Seq(Methods), NEW more \in Seq(Methods), NEW s
  PROVE  /\ FirstMatch(seq, s) # NullMethod => FirstMatch(seq \o more, s) = FirstMatch(seq, s)
         /\ FirstMatch(seq \o more, s) = FirstMatch(seq, s)
            \/ \E i \in DOMAIN more : SelOf[more[i]] = s
<1> DEFINE all == seq \o more
<1>1. /\ all \in Seq(Methods) /\ Len(all) = Len(seq) + Len(more)
      /\ \A i \in DOMAIN seq : all[i] = seq[i] /\ i \in DOMAIN all
      /\ \A i \in DOMAIN all : i \notin DOMAIN seq =>
           i - Len(seq) \in DOMAIN more /\ all[i] = more[i - Len(seq)]
  OBVIOUS
<1> HIDE DEF all
<1>2. ASSUME FirstMatch(seq, s) # NullMethod PROVE FirstMatch(all, s) = FirstMatch(seq, s)
  <2>1. PICK i \in DOMAIN seq :
          /\ FirstMatch(seq, s) = seq[i] /\ SelOf[seq[i]] = s
          /\ \A j \in DOMAIN seq : SelOf[seq[j]] = s => i <= j
    BY <1>2, FirstMatchIs, Constants
  <2>2. PICK n \in DOMAIN all :
          /\ FirstMatch(all, s) = all[n] /\ SelOf[all[n]] = s
          /\ \A j \in DOMAIN all : SelOf[all[j]] = s => n <= j
    BY <1>1, <2>1, FirstMatchIs, Constants
  <2>3. n <= i
    BY <1>1, <2>1, <2>2
  <2>4. n \in DOMAIN seq
    BY <1>1, <2>3
  <2>5. i <= n
    BY <1>1, <2>1, <2>2, <2>4
  <2>6. n = i
    BY <2>3, <2>4, <2>5
  <2> QED BY <1>1, <2>1, <2>2, <2>6
<1>3. ASSUME FirstMatch(seq, s) = NullMethod, FirstMatch(all, s) # NullMethod
      PROVE  \E i \in DOMAIN more : SelOf[more[i]] = s
  <2>1. PICK n \in DOMAIN all : SelOf[all[n]] = s
    BY <1>1, <1>3, FirstMatchIs, Constants
  <2>2. n \notin DOMAIN seq
    BY <1>1, <1>3, <2>1, FirstMatchIs, Constants
  <2> QED BY <1>1, <2>1, <2>2
<1> QED BY <1>2, <1>3 DEF all

(* What the categories of a class answer, for a list g of them.            *)
HasIt(g, k, s) == \E n \in DOMAIN CatMethods[g][k] : SelOf[CatMethods[g][k][n]] = s
InCategories(list, k, s) ==
  IF \A i \in DOMAIN list : ~HasIt(list[i], k, s) THEN NullMethod
  ELSE FirstMatch(CatMethods[list[Least({i \in DOMAIN list : HasIt(list[i], k, s)})]][k], s)

LEMMA CategoryMatchIs ==
  \A c, k, s : /\ CategoryMatch(c, k, s) = InCategories(cats[c], k, s)
               /\ CategoryMatch(c, k, s)' = InCategories(cats'[c], k, s)
BY DEF CategoryMatch, InCategories, HasIt

LEMMA InCategoriesIs ==
  ASSUME NEW list \in Seq(Categories), NEW k \in Kinds, NEW s
  PROVE  \/ /\ InCategories(list, k, s) = NullMethod
            /\ \A i \in DOMAIN list : ~HasIt(list[i], k, s)
         \/ \E i \in DOMAIN list :
              /\ InCategories(list, k, s) = FirstMatch(CatMethods[list[i]][k], s)
              /\ InCategories(list, k, s) \in Methods
              /\ SelOf[InCategories(list, k, s)] = s
              /\ HasIt(list[i], k, s)
              /\ \A j \in DOMAIN list : HasIt(list[j], k, s) => i <= j
<1> DEFINE I == {i \in DOMAIN list : HasIt(list[i], k, s)}
<1>1. CASE I = {}
  BY <1>1 DEF InCategories
<1>2. CASE I # {}
  <2>1. I \in SUBSET Nat
    OBVIOUS
  <2>2. Least(I) \in I /\ \A j \in I : Least(I) <= j
    <3> HIDE DEF I
    <3> QED BY <1>2, <2>1, LeastIs
  <2>3. InCategories(list, k, s) = FirstMatch(CatMethods[list[Least(I)]][k], s)
    BY <2>2 DEF InCategories
  <2> DEFINE seq == CatMethods[list[Least(I)]][k]
  <2>4. seq \in Seq(Methods) /\ \E n \in DOMAIN seq : SelOf[seq[n]] = s
    <3>1. list[Least(I)] \in Categories
      BY <2>2
    <3>2. HasIt(list[Least(I)], k, s)
      BY <2>2
    <3> QED BY <3>1, <3>2, Constants DEF HasIt
  <2>5. FirstMatch(seq, s) \in Methods /\ SelOf[FirstMatch(seq, s)] = s
    <3> HIDE DEF seq
    <3> QED BY <2>4, FirstMatchIs, Constants
  <2> QED BY <2>2, <2>3, <2>5
<1> QED BY <1>1, <1>2

LEMMA InCategoriesGrows ==
  ASSUME NEW list \in Seq(Categories), NEW g \in Categories, NEW k \in Kinds, NEW s,
         InCategories(list, k, s) # NullMethod
  PROVE  InCategories(list \o <<g>>, k, s) = InCategories(list, k, s)
<1> DEFINE all == list \o <<g>>
<1>0. DOMAIN list = 1..Len(list) /\ DOMAIN all = 1..(Len(list) + 1) /\ Len(list) \in Nat
  OBVIOUS
<1>1. /\ all \in Seq(Categories)
      /\ \A i \in DOMAIN list : all[i] = list[i] /\ i \in DOMAIN all
      /\ \A i \in DOMAIN all : i \in Nat /\ (i \notin DOMAIN list => \A j \in DOMAIN list : j < i)
      /\ DOMAIN list \subseteq Nat
  BY <1>0
<1> HIDE DEF all
<1>2. PICK i \in DOMAIN list :
        /\ InCategories(list, k, s) = FirstMatch(CatMethods[list[i]][k], s)
        /\ HasIt(list[i], k, s)
        /\ \A j \in DOMAIN list : HasIt(list[j], k, s) => i <= j
  BY InCategoriesIs, Constants
<1>3. PICK n \in DOMAIN all :
        /\ InCategories(all, k, s) = FirstMatch(CatMethods[all[n]][k], s)
        /\ HasIt(all[n], k, s)
        /\ \A j \in DOMAIN all : HasIt(all[j], k, s) => n <= j
  <2>1. HasIt(all[i], k, s) /\ i \in DOMAIN all /\ all \in Seq(Categories)
    BY <1>1, <1>2
  <2> QED BY <2>1, InCategoriesIs
<1>4. n <= i
  BY <1>1, <1>2, <1>3
<1>5. n \in DOMAIN list
  BY <1>1, <1>4
<1>6. n = i
  BY <1>1, <1>2, <1>3, <1>4, <1>5
<1> QED BY <1>1, <1>2, <1>3, <1>6 DEF all

-----------------------------------------------------------------------------
(* The look-up.                                                            *)

Entries == [m : Methods \cup {NilMethod}, isa : Classes, version : Nat]
Types ==
  /\ own \in [Classes -> [Kinds -> Seq(Methods)]]
  /\ cats \in [Classes -> Seq(Categories)]
  /\ cache \in [Classes -> [Kinds -> (SUBSET Methods) \cup {NoCache}]]
  /\ version \in [Methods \cup {NilMethod} -> Nat]
  /\ inline \in [Sites -> Entries \cup {NoEntry}]
  /\ known \subseteq {FwdSel, DropSel}
  /\ outcome \in {"run", "not_understood", "abort_in_flush", "lock_corrupted"}

(* What a class offers, by its list o and its categories g. *)
Offer(o, g, k, s) == IF InCategories(g, k, s) # NullMethod THEN InCategories(g, k, s)
                     ELSE FirstMatch(o, s)

LEMMA LocalIsOffer ==
  \A c, k, s : /\ Local(c, k, s) = Offer(own[c][k], cats[c], k, s)
               /\ Local(c, k, s)' = Offer(own'[c][k], cats'[c], k, s)
BY CategoryMatchIs DEF Local, Offer, FirstMatch

LEMMA LocalIs ==
  ASSUME Types, NEW c \in Classes, NEW k \in Kinds, NEW s
  PROVE  \/ Local(c, k, s) = NullMethod
         \/ Local(c, k, s) \in Methods /\ SelOf[Local(c, k, s)] = s
<1>1. own[c][k] \in Seq(Methods) /\ cats[c] \in Seq(Categories)
  BY DEF Types
<1>2. InCategories(cats[c], k, s) # NullMethod =>
        /\ InCategories(cats[c], k, s) \in Methods
        /\ SelOf[InCategories(cats[c], k, s)] = s
  BY <1>1, InCategoriesIs
<1>3. FirstMatch(own[c][k], s) # NullMethod =>
        FirstMatch(own[c][k], s) \in Methods /\ SelOf[FirstMatch(own[c][k], s)] = s
  BY <1>1, FirstMatchIs
<1> QED BY <1>2, <1>3, LocalIsOffer DEF Offer

(* The class that answers is the nearest one that has an answer. *)
Answering(k, s) == {b \in Classes : Answers(b, k, s)}
ResolveFact ==
  \A c \in Classes : \A k, s :
    \/ Resolve(c, k, s) = NullMethod /\ \A a \in Lineage[c] : Local(a, k, s) = NullMethod
    \/ \E a \in Lineage[c] : /\ Nearest(a, c, Answering(k, s))
                             /\ Resolve(c, k, s) = Local(a, k, s)
                             /\ Local(a, k, s) # NullMethod

LEMMA Above ==
  \A c \in Classes : Lineage[c] \subseteq Classes /\ c \in Lineage[c]
BY DispatchAssumption

LEMMA ResolveIs == ResolveFact
<1> SUFFICES ASSUME NEW c \in Classes, NEW k, NEW s
             PROVE  \/ /\ Resolve(c, k, s) = NullMethod
                       /\ \A a \in Lineage[c] : Local(a, k, s) = NullMethod
                    \/ \E a \in Lineage[c] :
                         /\ Nearest(a, c, Answering(k, s))
                         /\ Resolve(c, k, s) = Local(a, k, s)
                         /\ Local(a, k, s) # NullMethod
  BY DEF ResolveFact
<1>1. CASE \A a \in Lineage[c] : Local(a, k, s) = NullMethod
  BY <1>1 DEF Resolve, Answers
<1>2. CASE \E a \in Lineage[c] : Local(a, k, s) # NullMethod
  <2>1. \E a \in Lineage[c] : a \in Answering(k, s)
    BY <1>2, Above DEF Answering, Answers
  <2>2. \E a \in Lineage[c] : Nearest(a, c, Answering(k, s))
    BY <2>1, NearestExists
  <2>3. \E a \in Lineage[c] :
          /\ Answers(a, k, s)
          /\ \A b \in Lineage[c] : b \in Lineage[a] \/ ~Answers(b, k, s)
    BY <2>2, Above DEF Nearest, Answering
  <2> DEFINE o == Owner(c, k, s)
  <2>4. /\ o \in Lineage[c] /\ Answers(o, k, s)
        /\ \A b \in Lineage[c] : b \in Lineage[o] \/ ~Answers(b, k, s)
    BY <2>3, Zenon DEF Owner
  <2>5. Resolve(c, k, s) = Local(o, k, s)
    BY <2>4 DEF Resolve
  <2> HIDE DEF o
  <2>6. Nearest(o, c, Answering(k, s)) /\ Local(o, k, s) # NullMethod
    BY <2>4, Above DEF Nearest, Answering, Answers
  <2> QED BY <2>4, <2>5, <2>6
<1> QED BY <1>1, <1>2

LEMMA ResolveIsNext == ResolveFact'
BY ResolveIs, PTL

LEMMA ResolveTypes ==
  ASSUME Types, NEW c \in Classes, NEW k \in Kinds, NEW s
  PROVE  \/ Resolve(c, k, s) = NullMethod
         \/ Resolve(c, k, s) \in Methods /\ SelOf[Resolve(c, k, s)] = s
BY ResolveIs, LocalIs, Above DEF ResolveFact

(* Where nothing changes on the climb, its end does not. *)
LEMMA SameClimb ==
  ASSUME NEW c \in Classes, NEW k, NEW s,
         \A a \in Lineage[c] : Local(a, k, s)' = Local(a, k, s)
  PROVE  Resolve(c, k, s)' = Resolve(c, k, s)
<1>1. CASE \A a \in Lineage[c] : Local(a, k, s) = NullMethod
  <2>1. Resolve(c, k, s) = NullMethod
    BY <1>1, ResolveIs DEF ResolveFact
  <2>2. Resolve(c, k, s)' = NullMethod
    BY <1>1, ResolveIsNext DEF ResolveFact
  <2> QED BY <2>1, <2>2
<1>2. CASE \E a \in Lineage[c] : Local(a, k, s) # NullMethod
  <2>1. PICK a \in Lineage[c] : /\ Nearest(a, c, Answering(k, s))
                                /\ Resolve(c, k, s) = Local(a, k, s)
    BY <1>2, ResolveIs DEF ResolveFact
  <2>2. PICK b \in Lineage[c] : /\ Nearest(b, c, Answering(k, s)')
                                /\ Resolve(c, k, s)' = Local(b, k, s)'
    BY <1>2, ResolveIsNext DEF ResolveFact
  <2>3. \A d \in Lineage[c] : d \in Answering(k, s) <=> d \in Answering(k, s)'
    BY Above DEF Answering, Answers
  <2>4. Nearest(b, c, Answering(k, s))
    BY <2>2, <2>3 DEF Nearest
  <2>5. a = b
    BY <2>1, <2>4, NearestUnique
  <2> QED BY <2>1, <2>2, <2>5
<1> QED BY <1>1, <1>2

(* Methods are put behind the list of c: only below c, and only if a class *)
(* above c answers already, another method can answer than before.         *)
Attaching(c, k, batch) == own' = [own EXCEPT ![c][k] = Extended(@, batch)] /\ cats' = cats

LEMMA AttachedLocal ==
  ASSUME Types, NEW c \in Classes, NEW k \in Kinds, NEW batch \in Seq(Methods),
         Attaching(c, k, batch)
  PROVE  \A a \in Classes, j \in Kinds : \A s :
           \/ Local(a, j, s)' = Local(a, j, s)
           \/ /\ a = c /\ j = k /\ Local(a, j, s) = NullMethod
              /\ \E i \in DOMAIN batch : SelOf[batch[i]] = s
<1> TAKE a \in Classes, j \in Kinds
<1> TAKE s
<1>1. /\ own[a][j] \in Seq(Methods)
      /\ own'[a][j] = IF a = c /\ j = k THEN own[a][j] \o batch ELSE own[a][j]
  BY DEF Types, Extended, Attaching
<1>2. CASE ~(a = c /\ j = k)
  BY <1>1, <1>2, LocalIsOffer DEF Attaching
<1>3. CASE a = c /\ j = k
  <2>1. \/ FirstMatch(own'[a][j], s) = FirstMatch(own[a][j], s)
        \/ /\ FirstMatch(own[a][j], s) = NullMethod
           /\ \E i \in DOMAIN batch : SelOf[batch[i]] = s
    <3> DEFINE seq == own[a][j]
    <3>1. seq \in Seq(Methods) /\ own'[a][j] = seq \o batch
      BY <1>1, <1>3
    <3> HIDE DEF seq
    <3>2. \/ FirstMatch(seq \o batch, s) = FirstMatch(seq, s)
          \/ /\ FirstMatch(seq, s) = NullMethod
             /\ \E i \in DOMAIN batch : SelOf[batch[i]] = s
      BY <3>1, FirstMatchGrows
    <3> QED BY <3>1, <3>2 DEF seq
  <2> QED BY <1>3, <2>1, LocalIsOffer DEF Offer, Attaching
<1> QED BY <1>2, <1>3

LEMMA AttachedResolve ==
  ASSUME Types, NEW c \in Classes, NEW k \in Kinds, NEW batch \in Seq(Methods),
         Attaching(c, k, batch),
         NEW d \in Classes, NEW j \in Kinds, NEW s, Resolve(d, j, s) # NullMethod
  PROVE  \/ Resolve(d, j, s)' = Resolve(d, j, s)
         \/ /\ c \in Lineage[d] /\ j = k /\ Super[c] # Nil
            /\ \E i \in DOMAIN batch : SelOf[batch[i]] = s
            /\ Resolve(Super[c], k, s) # NullMethod
<1>1. PICK a \in Lineage[d] : /\ Nearest(a, d, Answering(j, s)) /\ a \in Classes
                              /\ Resolve(d, j, s) = Local(a, j, s)
                              /\ Local(a, j, s) # NullMethod
  BY ResolveIs, Above DEF ResolveFact
<1>0. \A b \in Classes : \/ Local(b, j, s)' = Local(b, j, s)
                        \/ /\ b = c /\ j = k /\ Local(b, j, s) = NullMethod
                           /\ \E i \in DOMAIN batch : SelOf[batch[i]] = s
  BY AttachedLocal
<1>2. CASE \A b \in Lineage[d] : Local(b, j, s)' = Local(b, j, s)
  BY <1>2, SameClimb
<1>3. CASE \E b \in Lineage[d] : Local(b, j, s)' # Local(b, j, s)
  <2>1. /\ c \in Lineage[d] /\ j = k /\ Local(c, j, s) = NullMethod
        /\ \E i \in DOMAIN batch : SelOf[batch[i]] = s
    BY <1>0, <1>3, Above
  <2>2. a # c
    BY <1>1, <2>1
  <2>3. CASE a \in Lineage[c]
    <3>1. Super[c] \in Classes /\ Super[c] # Nil /\ a \in Lineage[Super[c]]
      BY <2>2, <2>3, DispatchAssumption
    <3>2. Resolve(Super[c], k, s) # NullMethod
      BY <1>1, <2>1, <3>1, ResolveIs DEF ResolveFact
    <3> QED BY <2>1, <3>1, <3>2
  <2>4. CASE a \notin Lineage[c]
    <3>1. c \in Lineage[a]
      BY <1>1, <2>1, <2>4, LineageTotal
    <3>2. \A b \in Classes : Local(b, j, s)' = Local(b, j, s) \/ b = c
      BY <1>0
    <3>3. Local(a, j, s)' = Local(a, j, s)
      BY <1>1, <2>2, <3>2
    <3>4. \A b \in Lineage[d] : b \in Lineage[a] \/ b \notin Answering(j, s)'
      BY <1>1, <3>1, <3>2, Above DEF Nearest, Answering, Answers
    <3>5. Nearest(a, d, Answering(j, s)')
      BY <1>1, <3>3, <3>4 DEF Nearest, Answering, Answers
    <3>6. PICK b \in Lineage[d] : /\ Nearest(b, d, Answering(j, s)')
                                  /\ Resolve(d, j, s)' = Local(b, j, s)'
      BY <1>1, <3>3, ResolveIsNext DEF ResolveFact
    <3>7. a = b
      BY <3>5, <3>6, NearestUnique
    <3> QED BY <1>1, <3>3, <3>6, <3>7
  <2> QED BY <2>3, <2>4
<1> QED BY <1>2, <1>3

-----------------------------------------------------------------------------
(* The caches.                                                             *)

Contents(v) == IF v = NoCache THEN {} ELSE v

LEMMA HitsAre ==
  \A c, k, s : /\ Hits(c, k, s) = {m \in Contents(cache[c][k]) : SelOf[m] = s}
               /\ Hits(c, k, s)' = {m \in Contents(cache'[c][k]) : SelOf[m] = s}
BY DEF Hits, Contents

(* What a look-up that asks the cache first may answer. *)
LEMMA FindsIs ==
  ASSUME Types, CacheCoherent, outcome = "run",
         NEW c \in Classes, NEW k \in Kinds, NEW s, NEW m \in Finds(c, k, s)
  PROVE  /\ m = Resolve(c, k, s)
         /\ m # NullMethod => m \in Methods /\ SelOf[m] = s
<1>1. CASE m \in Hits(c, k, s)
  <2>1. m \in Methods /\ SelOf[m] = s
    BY <1>1, HitsAre DEF Contents, Types
  <2>2. s \in Sels
    BY <2>1, Constants
  <2> QED BY <1>1, <2>1, <2>2 DEF CacheCoherent
<1>2. CASE m \notin Hits(c, k, s)
  BY <1>2, ResolveTypes DEF Finds
<1> QED BY <1>1, <1>2

(* Methods are added to one cache. *)
Adding(c, k, M) == \/ cache' = [cache EXCEPT ![c][k] = Cached(@, M)]
                   \/ cache' = [cache EXCEPT ![c][k] = IF M = {} THEN @ ELSE Cached(@, M)]
Caches == [Classes -> [Kinds -> (SUBSET Methods) \cup {NoCache}]]

LEMMA CacheAdds ==
  ASSUME Types, NEW c \in Classes, NEW k \in Kinds, NEW M \in SUBSET Methods,
         Adding(c, k, M)
  PROVE  /\ cache' \in Caches
         /\ \A d \in Classes, j \in Kinds :
              Contents(cache'[d][j]) = IF d = c /\ j = k THEN Contents(cache[d][j]) \cup M
                                       ELSE Contents(cache[d][j])
<1>0. \A A \in SUBSET Methods : A # NoCache
  BY DispatchAssumption
<1>1. PICK v \in (SUBSET Methods) \cup {NoCache} :
        /\ cache' = [cache EXCEPT ![c][k] = v]
        /\ Contents(v) = Contents(cache[c][k]) \cup M
  <2>1. cache[c][k] \in (SUBSET Methods) \cup {NoCache}
    BY DEF Types
  <2>2. Cached(cache[c][k], M) \in SUBSET Methods
    <3>1. CASE cache[c][k] = NoCache
      BY <3>1 DEF Cached
    <3>2. CASE cache[c][k] # NoCache
      <4>1. cache[c][k] \in SUBSET Methods
        BY <2>1, <3>2
      <4>2. Cached(cache[c][k], M) = cache[c][k] \cup M
        BY <3>2 DEF Cached
      <4> QED BY <4>1, <4>2
    <3> QED BY <3>1, <3>2
  <2>3. Contents(Cached(cache[c][k], M)) = Contents(cache[c][k]) \cup M
    BY <1>0, <2>1, <2>2 DEF Contents, Cached
  <2>4. CASE cache' = [cache EXCEPT ![c][k] = Cached(cache[c][k], M)]
    BY <2>2, <2>3, <2>4
  <2>5. CASE M = {} /\ cache' = [cache EXCEPT ![c][k] = cache[c][k]]
    BY <2>1, <2>5
  <2> QED BY <2>4, <2>5 DEF Types, Adding
<1> QED BY <1>1 DEF Types, Caches

(* What is left in the caches, or added to one, the climb still finds. *)
LEMMA CoherentKept ==
  ASSUME Types, CacheCoherent, outcome = "run",
         \A d \in Classes, j \in Kinds, s \in Sels : \A m \in Contents(cache'[d][j]) :
           SelOf[m] = s =>
             \/ m = Resolve(d, j, s)'
             \/ m \in Contents(cache[d][j]) /\ Resolve(d, j, s)' = Resolve(d, j, s)
  PROVE  CacheCoherent'
<1>1. ASSUME NEW d \in Classes, NEW j \in Kinds, NEW s \in Sels, NEW m \in Hits(d, j, s)'
      PROVE  m = Resolve(d, j, s)'
  <2>1. m \in Contents(cache'[d][j]) /\ SelOf[m] = s
    BY HitsAre
  <2>2. m \in Contents(cache[d][j]) => m = Resolve(d, j, s)
    BY <2>1, HitsAre DEF CacheCoherent
  <2> QED BY <2>1, <2>2
<1> QED BY <1>1 DEF CacheCoherent

LEMMA SameLists ==
  ASSUME UNCHANGED lists
  PROVE  \A c \in Classes : \A k, s : Resolve(c, k, s)' = Resolve(c, k, s)
<1> TAKE c \in Classes
<1> TAKE k, s
<1>1. \A a : Local(a, k, s)' = Local(a, k, s)
  BY LocalIsOffer DEF lists
<1> QED BY <1>1, SameClimb

(* Methods that the climb finds are added to one cache. *)
LEMMA CacheGrows ==
  ASSUME Types, CacheCoherent, outcome = "run", UNCHANGED lists,
         NEW c \in Classes, NEW k \in Kinds, NEW M \in SUBSET Methods,
         \A m \in M : m = Resolve(c, k, SelOf[m]), Adding(c, k, M)
  PROVE  CacheCoherent'
<1>1. \A d \in Classes, j \in Kinds :
        Contents(cache'[d][j]) = IF d = c /\ j = k THEN Contents(cache[d][j]) \cup M
                                 ELSE Contents(cache[d][j])
  BY CacheAdds
<1>2. \A d \in Classes : \A j, s : Resolve(d, j, s)' = Resolve(d, j, s)
  BY SameLists
<1>3. ASSUME NEW d \in Classes, NEW j \in Kinds, NEW s \in Sels,
             NEW m \in Contents(cache'[d][j]), SelOf[m] = s
      PROVE  \/ m = Resolve(d, j, s)'
             \/ m \in Contents(cache[d][j]) /\ Resolve(d, j, s)' = Resolve(d, j, s)
  <2>1. CASE m \in Contents(cache[d][j])
    BY <1>2, <2>1
  <2>2. CASE m \notin Contents(cache[d][j])
    <3>1. d = c /\ j = k /\ m \in M
      BY <1>1, <1>3, <2>2
    <3> QED BY <1>2, <1>3, <3>1
  <2> QED BY <2>1, <2>2
<1> QED BY <1>3, CoherentKept

-----------------------------------------------------------------------------
(* The actions, by what they do to lists, caches and versions.             *)

Versions == [Methods \cup {NilMethod} -> Nat]

LEMMA BumpedIs ==
  ASSUME Types, NEW M
  PROVE  /\ Bumped(M) \in Versions
         /\ \A m \in Methods \cup {NilMethod} :
              Bumped(M)[m] = IF m \in M THEN version[m] + 1 ELSE version[m]
BY DEF Types, Bumped, Versions

LEMMA FlushIs ==
  ASSUME Types, NEW c \in Classes, NEW K, Flush(c, K)
  PROVE  /\ cache' \in Caches
         /\ \A d \in Classes, j \in Kinds :
              cache'[d][j] = IF d = c /\ j \in K THEN NoCache ELSE cache[d][j]
         /\ version' \in Versions
         /\ \A m \in Methods \cup {NilMethod} :
              /\ version[m] <= version'[m]
              /\ (\E k \in K : m \in Contents(cache[c][k])) => version'[m] # version[m]
<1> DEFINE M == UNION {ContentOf(c, k) : k \in K}
<1>1. version' = Bumped(M) /\ version \in Versions
  BY DEF Flush, BumpedByDestroy, Types, Versions
<1>2. \A m : (\E k \in K : m \in Contents(cache[c][k])) => m \in M
  BY DEF ContentOf, Contents
<1> HIDE DEF M
<1>3. /\ version' \in Versions
      /\ \A m \in Methods \cup {NilMethod} :
           /\ version[m] \in Nat
           /\ version'[m] = IF m \in M THEN version[m] + 1 ELSE version[m]
  BY <1>1, BumpedIs DEF Versions
<1>4. \A m \in Methods \cup {NilMethod} :
        version[m] <= version'[m] /\ (m \in M => version'[m] # version[m])
  BY <1>3
<1> QED BY <1>2, <1>3, <1>4 DEF Types, Flush, Caches

LEMMA AskedIs ==
  ASSUME Types, NEW c \in Classes, NEW k \in Kinds, NEW s
  PROVE  /\ Finds(c, k, s) \subseteq Methods \cup {NullMethod}
         /\ Asked(c, k, s) \subseteq Methods
<1>1. Hits(c, k, s) \subseteq Methods
  BY HitsAre DEF Types, Contents
<1>2. Resolve(c, k, s) \in Methods \cup {NullMethod}
  BY ResolveTypes
<1> QED BY <1>1, <1>2 DEF Finds, Asked

(* A look-up adds what it finds on the way to one cache.                   *)
LEMMA LookupIs ==
  ASSUME Types, NEW c \in Classes, NEW k \in Kinds, NEW s, NEW m, LookupMethod(c, k, s, m)
  PROVE  /\ version' \in Versions
         /\ known' \subseteq {FwdSel, DropSel} /\ outcome' \in {outcome, "not_understood"}
         /\ cache' = cache \/ \E M \in SUBSET (Finds(c, k, s) \cup Asked(c, k, FwdSel)
                                              \cup Asked(c, k, DropSel)) :
                                 M \subseteq Methods /\ Adding(c, k, M)
<1>1. CASE Found(c, k, s, m)
  <2>1. {m} \subseteq Finds(c, k, s) /\ {m} \subseteq Methods /\ Adding(c, k, {m})
    BY <1>1, AskedIs DEF Found, IsMethod, Adding
  <2> QED BY <1>1, <2>1 DEF Found, Types, Versions
<1>2. CASE Forwarded(c, k, s, m)
  <2>1. Asked(c, k, FwdSel) \subseteq Methods /\ Adding(c, k, Asked(c, k, FwdSel))
    BY <1>2, AskedIs DEF Forwarded, CacheAsked, Adding
  <2>2. version' \in Versions
    BY <1>2, BumpedIs DEF Forwarded
  <2> QED BY <1>2, <2>1, <2>2 DEF Forwarded, Types
<1>3. CASE Dropped(c, k, s, m)
  <2> DEFINE M == Asked(c, k, FwdSel) \cup Asked(c, k, DropSel)
  <2>1. M \subseteq Methods /\ Adding(c, k, M)
    BY <1>3, AskedIs DEF Dropped, CacheAsked, Adding
  <2>2. version' \in Versions
    BY <1>3, BumpedIs DEF Dropped
  <2> QED BY <1>3, <2>1, <2>2 DEF Dropped, Types
<1>4. CASE NotUnderstood(c, k, s, m)
  BY <1>4 DEF NotUnderstood, Types, Versions
<1> QED BY <1>1, <1>2, <1>3, <1>4 DEF LookupMethod

LEMMA BatchIs ==
  \A batch \in Batches : batch \in Seq(Methods)
<1>1. \A m, n \in Methods : <<m>> \in Seq(Methods) /\ <<m, n>> \in Seq(Methods)
  OBVIOUS
<1>2. Unattached \subseteq Methods
  BY DEF Unattached
<1>3. ASSUME NEW batch \in Batches PROVE batch \in Seq(Methods)
  <2>1. \/ \E m \in Unattached : batch = <<m>>
        \/ \E m, n \in Unattached : batch = <<m, n>>
    BY DEF Batches
  <2> QED BY <1>1, <1>2, <2>1
<1> QED BY <1>3

(* Methods are attached, and the caches are flushed or the program stops.  *)
LEMMA AttachIs ==
  ASSUME Types, NEW c \in Classes, NEW k \in Kinds, NEW batch \in Seq(Methods),
         AttachMethods(c, k, batch)
  PROVE  /\ Attaching(c, k, batch)
         /\ own' \in [Classes -> [Kinds -> Seq(Methods)]] /\ cats' = cats
         /\ \/ ~SuperImplements(c, k, batch) /\ UNCHANGED <<cache, version, outcome>>
            \/ SubclassesAt(c) = {} /\ Flush(c, {k}) /\ UNCHANGED outcome
            \/ /\ outcome' \in {"abort_in_flush", "lock_corrupted"}
               /\ UNCHANGED <<cache, version>>
<1>1. Attaching(c, k, batch)
  BY DEF AttachMethods, Attaching
<1>2. own' \in [Classes -> [Kinds -> Seq(Methods)]]
  <2>1. own[c][k] \in Seq(Methods) /\ own[c] \in [Kinds -> Seq(Methods)]
    BY DEF Types
  <2>2. own[c][k] \o batch \in Seq(Methods)
    BY <2>1
  <2> QED BY <1>1, <2>1, <2>2 DEF Attaching, Extended, Types
<1> QED BY <1>1, <1>2 DEF AttachMethods, Attaching, FlushSubtree

LEMMA SentIs ==
  ASSUME Types, NEW x \in Sites, NEW c \in Classes, NEW k \in Kinds, Send(x, c, k)
  PROVE  \E m \in Methods \cup {NilMethod, NullMethod} :
           /\ LookupMethod(c, k, SiteSel[x], m)
           /\ \/ m = NullMethod /\ inline' = inline
              \/ /\ m \in Methods \cup {NilMethod}
                 /\ inline' = [inline EXCEPT ![x] =
                                 [m |-> m, isa |-> c, version |-> version'[m]]]
BY Constants DEF Send

LEMMA TypesInit == Init => Types
BY DispatchAssumption DEF Init, Types

LEMMA TypesStep == Types /\ [Next]_vars => Types'
<1> SUFFICES ASSUME Types, [Next]_vars PROVE Types'
  OBVIOUS
<1> USE DEF Caches, Versions
<1>1. ASSUME NEW c \in Classes, NEW k \in Kinds, NEW s, NEW m,
             LookupMethod(c, k, s, m), UNCHANGED lists,
             inline' \in [Sites -> Entries \cup {NoEntry}]
      PROVE  Types'
  <2>1. cache' \in Caches
    BY <1>1, LookupIs, CacheAdds DEF Types
  <2>2. /\ version' \in Versions /\ known' \subseteq {FwdSel, DropSel}
        /\ outcome' \in {outcome, "not_understood"}
    BY <1>1, LookupIs
  <2> QED BY <1>1, <2>1, <2>2 DEF Types, lists
<1>2. ASSUME NEW c \in Classes, NEW k \in Kinds, NEW s, Lookup(c, k, s) PROVE Types'
  BY <1>1, <1>2 DEF Lookup, Types
<1>3. ASSUME NEW x \in Sites, NEW c \in Classes, NEW k \in Kinds, Send(x, c, k)
      PROVE  Types'
  <2>1. PICK m : /\ LookupMethod(c, k, SiteSel[x], m)
                 /\ \/ inline' = inline
                    \/ /\ m \in Methods \cup {NilMethod}
                       /\ inline' = [inline EXCEPT ![x] =
                                       [m |-> m, isa |-> c, version |-> version'[m]]]
    BY <1>3, SentIs
  <2>2. version' \in Versions
    BY <2>1, LookupIs
  <2>3. inline' \in [Sites -> Entries \cup {NoEntry}]
    <3>1. CASE inline' = inline
      BY <3>1 DEF Types
    <3>2. CASE m \in Methods \cup {NilMethod}
      <4>1. [m |-> m, isa |-> c, version |-> version'[m]] \in Entries
        BY <2>2, <3>2 DEF Entries
      <4> QED BY <2>1, <3>1, <4>1 DEF Types
    <3> QED BY <2>1, <3>1, <3>2
  <2>4. UNCHANGED lists
    BY <1>3 DEF Send
  <2> QED BY <1>1, <2>1, <2>3, <2>4
<1>4. ASSUME NEW c \in Classes, NEW k \in Kinds, NEW s, LookupSuper(c, k, s) PROVE Types'
  <2>1. cache' \in Caches
    <3>1. CASE CacheAsked(c, k, Asked(c, k, FwdSel))
      <4>1. Asked(c, k, FwdSel) \in SUBSET Methods /\ Adding(c, k, Asked(c, k, FwdSel))
        BY <3>1, AskedIs DEF CacheAsked, Adding
      <4> QED BY <4>1, CacheAdds
    <3>2. CASE cache' = cache
      BY <3>2 DEF Types
    <3> QED BY <1>4, <3>1, <3>2 DEF LookupSuper
  <2>2. known' \subseteq {FwdSel, DropSel} /\ outcome' \in {outcome, "not_understood"}
    BY <1>4 DEF LookupSuper, Types
  <2> QED BY <1>4, <2>1, <2>2 DEF LookupSuper, Types, lists
<1>5. CASE LookupNil
  BY <1>5, BumpedIs DEF LookupNil, lists, Types
<1>6. ASSUME NEW c \in Classes, NEW k \in Kinds, NEW batch \in Seq(Methods),
             AttachMethods(c, k, batch), UNCHANGED <<inline, known>>
      PROVE  Types'
  <2>1. own' \in [Classes -> [Kinds -> Seq(Methods)]] /\ cats' = cats
    BY <1>6, AttachIs
  <2>2. cache' \in Caches /\ version' \in Versions
    <3>1. CASE Flush(c, {k})
      BY <3>1, FlushIs
    <3>2. CASE UNCHANGED <<cache, version>>
      BY <3>2 DEF Types
    <3> QED BY <1>6, <3>1, <3>2, AttachIs
  <2>3. outcome' \in {outcome, "abort_in_flush", "lock_corrupted"}
    BY <1>6, AttachIs
  <2> QED BY <1>6, <2>1, <2>2, <2>3 DEF Types
<1>7. ASSUME NEW c \in Classes, NEW k \in Kinds, NEW batch \in Batches,
             AddMethods(c, k, batch)
      PROVE  Types'
  BY <1>6, <1>7, BatchIs DEF AddMethods
<1>8. ASSUME NEW c \in Classes, NEW k \in Kinds, NEW s, ReplaceExisting(c, k, s)
      PROVE  Types'
  BY <1>8, BumpedIs DEF ReplaceExisting, lists, Types
<1>9. ASSUME NEW c \in Classes, NEW k \in Kinds, NEW s, ReplaceMissing(c, k, s)
      PROVE  Types'
  <2>1. PICK m \in Methods : AttachMethods(c, k, <<m>>)
    BY <1>9 DEF ReplaceMissing, Unattached
  <2>2. <<m>> \in Seq(Methods)
    OBVIOUS
  <2> QED BY <1>6, <1>9, <2>1, <2>2 DEF ReplaceMissing
<1>10. ASSUME NEW g \in Categories, AddCategory(g) PROVE Types'
  <2> DEFINE c == CatClass[g]
  <2>1. c \in Classes
    BY DispatchAssumption
  <2>2. Flush(c, Kinds) /\ UNCHANGED <<own, inline, known, outcome>>
    BY <1>10 DEF AddCategory
  <2>3. cache' \in Caches /\ version' \in Versions
    BY <2>1, <2>2, FlushIs
  <2>4. cats' \in [Classes -> Seq(Categories)]
    <3>1. cats[c] \o <<g>> \in Seq(Categories)
      BY <2>1 DEF Types
    <3>2. cats' = [cats EXCEPT ![c] = cats[c] \o <<g>>]
      BY <1>10 DEF AddCategory
    <3> QED BY <3>1, <3>2 DEF Types
  <2> QED BY <2>2, <2>3, <2>4 DEF Types
<1>11. ASSUME NEW c \in Classes, NEW K \in SUBSET Kinds, FlushCaches(c, K) PROVE Types'
  <2>1. cache' \in Caches /\ version' \in Versions
    BY <1>11, FlushIs DEF FlushCaches
  <2> QED BY <1>11, <2>1 DEF FlushCaches, lists, Types
<1>12. CASE UNCHANGED vars
  BY <1>12 DEF vars, lists, Types
<1>13. CASE Dispatching
  BY <1>2, <1>3, <1>4, <1>5, <1>13 DEF Dispatching
<1>14. CASE Changing
  BY <1>7, <1>8, <1>9, <1>10, <1>11, <1>14, DispatchAssumption DEF Changing
<1> QED BY <1>12, <1>13, <1>14 DEF Next

LEMMA DispatchTypes == Spec => []Types
BY TypesInit, TypesStep, PTL DEF Spec

(* Every variable keeps its type, whatever is sent, added and flushed.     *)
THEOREM DispatchTypesHold == Spec => []TypeOK
<1>1. Types => TypeOK
  BY DEF Types, TypeOK, Entries
<1> QED BY <1>1, DispatchTypes, PTL

-----------------------------------------------------------------------------
(* Which method answers.                                                   *)

LEMMA AttachCases ==
  ASSUME Changing, ~UNCHANGED lists
  PROVE  \/ \E c \in Classes, k \in AddKinds, batch \in Seq(Methods) :
              AttachMethods(c, k, batch) /\ UNCHANGED <<inline, known>>
         \/ \E g \in Categories : AddCategory(g)
<1>1. ASSUME NEW c \in Classes, NEW k \in AddKinds, NEW batch \in Batches,
             AddMethods(c, k, batch)
      PROVE  batch \in Seq(Methods) /\ AttachMethods(c, k, batch) /\ UNCHANGED <<inline, known>>
  BY <1>1, BatchIs DEF AddMethods
<1>2. ASSUME NEW c \in Classes, NEW k \in AddKinds, NEW s, ReplaceMissing(c, k, s)
      PROVE  \E batch \in Seq(Methods) :
               AttachMethods(c, k, batch) /\ UNCHANGED <<inline, known>>
  <2>1. PICK m \in Methods : AttachMethods(c, k, <<m>>)
    BY <1>2 DEF ReplaceMissing, Unattached
  <2>2. <<m>> \in Seq(Methods)
    OBVIOUS
  <2> QED BY <1>2, <2>1, <2>2 DEF ReplaceMissing
<1>3. ASSUME NEW c, NEW k, NEW s, ReplaceExisting(c, k, s) PROVE FALSE
  BY <1>3 DEF ReplaceExisting
<1>4. ASSUME NEW c, NEW K, FlushCaches(c, K) PROVE FALSE
  BY <1>4 DEF FlushCaches
<1> QED BY <1>1, <1>2, <1>3, <1>4 DEF Changing

LEMMA DispatchingKeepsLists == Dispatching => UNCHANGED lists
BY DEF Dispatching, Lookup, LookupSuper, Send, LookupNil

LEMMA CategoryAdded ==
  ASSUME Types, NEW g \in Categories, AddCategory(g),
         NEW c \in Classes, NEW k \in Kinds, NEW s
  PROVE  /\ c # CatClass[g] => Local(c, k, s)' = Local(c, k, s)
         /\ \/ Local(c, k, s)' = Local(c, k, s)
            \/ /\ CategoryMatch(c, k, s) = NullMethod
               /\ CategoryMatch(c, k, s)' = Local(c, k, s)'
<1>1. /\ own' = own /\ cats[c] \in Seq(Categories)
      /\ cats'[c] = IF c = CatClass[g] THEN cats[c] \o <<g>> ELSE cats[c]
  BY DispatchAssumption DEF AddCategory, Types
<1>2. CASE c # CatClass[g]
  BY <1>1, <1>2, LocalIsOffer
<1>3. CASE c = CatClass[g] /\ InCategories(cats[c], k, s) # NullMethod
  <2>1. InCategories(cats'[c], k, s) = InCategories(cats[c], k, s)
    BY <1>1, <1>3, InCategoriesGrows
  <2> QED BY <1>1, <1>3, <2>1, LocalIsOffer DEF Offer
<1>4. CASE c = CatClass[g] /\ InCategories(cats[c], k, s) = NullMethod
  <2>1. CategoryMatch(c, k, s) = NullMethod
    BY <1>4, CategoryMatchIs
  <2>2. CategoryMatch(c, k, s)' = InCategories(cats'[c], k, s)
    BY CategoryMatchIs
  <2>3. /\ Local(c, k, s) = FirstMatch(own[c][k], s)
        /\ Local(c, k, s)' = IF InCategories(cats'[c], k, s) # NullMethod
                             THEN InCategories(cats'[c], k, s)
                             ELSE FirstMatch(own[c][k], s)
    BY <1>1, <1>4, LocalIsOffer DEF Offer
  <2> QED BY <1>4, <2>1, <2>2, <2>3
<1> QED BY <1>2, <1>3, <1>4

(* Whatever is attached, in whatever order and batches, to classes and     *)
(* superclasses: a class that answers a selector answers it by the same    *)
(* method ever after, save that the first category with the selector       *)
(* displaces it (class.c:384, categs.c:45).                                *)
THEOREM FirstAttachedAnswers == Spec => FirstAttachedWins
<1>1. ASSUME Types, [Next]_vars, ~UNCHANGED lists,
             NEW c \in Classes, NEW k \in Kinds, NEW s \in Sels
      PROVE  \/ Local(c, k, s) = NullMethod
             \/ Local(c, k, s)' = Local(c, k, s)
             \/ /\ CategoryMatch(c, k, s) = NullMethod
                /\ CategoryMatch(c, k, s)' = Local(c, k, s)'
  <2>1. Changing
    BY <1>1, DispatchingKeepsLists DEF Next, vars
  <2>2. ASSUME NEW d \in Classes, NEW j \in AddKinds, NEW batch \in Seq(Methods),
               AttachMethods(d, j, batch)
        PROVE  Local(c, k, s) = NullMethod \/ Local(c, k, s)' = Local(c, k, s)
    <3>1. j \in Kinds
      BY DispatchAssumption
    <3>2. Attaching(d, j, batch)
      BY <1>1, <2>2, <3>1, AttachIs
    <3> QED BY <1>1, <3>1, <3>2, AttachedLocal
  <2>3. ASSUME NEW g \in Categories, AddCategory(g)
        PROVE  \/ Local(c, k, s)' = Local(c, k, s)
               \/ /\ CategoryMatch(c, k, s) = NullMethod
                  /\ CategoryMatch(c, k, s)' = Local(c, k, s)'
    BY <1>1, <2>3, CategoryAdded
  <2> QED BY <1>1, <2>1, <2>2, <2>3, AttachCases
<1>2. Types /\ [Next]_vars =>
        [\A c \in Classes, k \in Kinds, s \in Sels :
           \/ Local(c, k, s) = NullMethod
           \/ Local(c, k, s)' = Local(c, k, s)
           \/ /\ CategoryMatch(c, k, s) = NullMethod
              /\ CategoryMatch(c, k, s)' = Local(c, k, s)']_lists
  BY <1>1
<1> QED BY <1>2, DispatchTypes, PTL DEF Spec, FirstAttachedWins

-----------------------------------------------------------------------------
(* Coherence.                                                              *)

(* The flushing code leaves the caches of subclasses alone for categories, *)
(* and for methods asks for instance methods only.  So let methods that    *)
(* override be added to lists of instance methods, and categories to       *)
(* classes without subclasses.                                             *)
Leaf(c) == \A d \in Classes : c \in Lineage[d] => d = c
Flushable == AddKinds \subseteq {"instance"} /\ \A g \in Categories : Leaf(CatClass[g])

LEMMA NoSubclasses ==
  ASSUME NEW c \in Classes, SubclassesAt(c) = {}
  PROVE  Leaf(c)
BY DispatchAssumption DEF SubclassesAt, Leaf

LEMMA AttachCoherent ==
  ASSUME Flushable, Types, CacheCoherent, outcome = "run",
         NEW c \in Classes, NEW k \in AddKinds, NEW batch \in Seq(Methods),
         AttachMethods(c, k, batch)
  PROVE  CacheCoherent'
<1>1. k = "instance" /\ k \in Kinds
  BY DispatchAssumption DEF Flushable
<1>2. Attaching(c, k, batch)
  BY <1>1, AttachIs
<1>3. ASSUME NEW d \in Classes, NEW j \in Kinds, NEW s \in Sels,
             NEW m \in Contents(cache[d][j]), SelOf[m] = s
      PROVE  \/ Resolve(d, j, s)' = Resolve(d, j, s)
             \/ c \in Lineage[d] /\ j = k /\ SuperImplements(c, k, batch)
  <2>1. m \in Hits(d, j, s) /\ m \in Methods
    BY <1>3, HitsAre DEF Types, Contents
  <2>2. Resolve(d, j, s) # NullMethod
    BY <2>1, Constants DEF CacheCoherent
  <2>3. \/ Resolve(d, j, s)' = Resolve(d, j, s)
        \/ /\ c \in Lineage[d] /\ j = k /\ Super[c] # Nil
           /\ \E i \in DOMAIN batch : SelOf[batch[i]] = s
           /\ Resolve(Super[c], k, s) # NullMethod
    BY <1>1, <1>2, <2>2, AttachedResolve
  <2> QED BY <1>1, <2>3 DEF SuperImplements
<1>4. CASE ~SuperImplements(c, k, batch) /\ cache' = cache
  <2>1. ASSUME NEW d \in Classes, NEW j \in Kinds, NEW s \in Sels,
               NEW m \in Contents(cache'[d][j]), SelOf[m] = s
        PROVE  m \in Contents(cache[d][j]) /\ Resolve(d, j, s)' = Resolve(d, j, s)
    BY <1>3, <1>4, <2>1
  <2> QED BY <2>1, CoherentKept
<1>5. CASE SubclassesAt(c) = {} /\ Flush(c, {k})
  <2>1. \A d \in Classes, j \in Kinds :
          cache'[d][j] = IF d = c /\ j = k THEN NoCache ELSE cache[d][j]
    BY <1>5, FlushIs
  <2>2. Leaf(c)
    BY <1>5, NoSubclasses
  <2>3. ASSUME NEW d \in Classes, NEW j \in Kinds, NEW s \in Sels,
               NEW m \in Contents(cache'[d][j]), SelOf[m] = s
        PROVE  m \in Contents(cache[d][j]) /\ Resolve(d, j, s)' = Resolve(d, j, s)
    <3>1. ~(d = c /\ j = k) /\ m \in Contents(cache[d][j])
      BY <2>1, <2>3 DEF Contents
    <3> QED BY <1>3, <2>2, <2>3, <3>1 DEF Leaf
  <2> QED BY <2>3, CoherentKept
<1>6. CASE outcome' \in {"abort_in_flush", "lock_corrupted"}
  BY <1>6 DEF CacheCoherent
<1> QED BY <1>1, <1>4, <1>5, <1>6, AttachIs

LEMMA CategoryCoherent ==
  ASSUME Flushable, Types, CacheCoherent, outcome = "run",
         NEW g \in Categories, AddCategory(g)
  PROVE  CacheCoherent'
<1> DEFINE c == CatClass[g]
<1>1. c \in Classes /\ Leaf(c)
  BY DispatchAssumption DEF Flushable
<1>2. \A d \in Classes, j \in Kinds :
        cache'[d][j] = IF d = c THEN NoCache ELSE cache[d][j]
  <2>1. Flush(c, Kinds)
    BY DEF AddCategory
  <2> QED BY <1>1, <2>1, FlushIs
<1>3. ASSUME NEW d \in Classes, NEW j \in Kinds, NEW s \in Sels,
             NEW m \in Contents(cache'[d][j]), SelOf[m] = s
      PROVE  m \in Contents(cache[d][j]) /\ Resolve(d, j, s)' = Resolve(d, j, s)
  <2>1. d # c /\ m \in Contents(cache[d][j])
    BY <1>2, <1>3 DEF Contents
  <2>2. \A a \in Lineage[d] : Local(a, j, s)' = Local(a, j, s)
    BY <1>1, <2>1, Above, CategoryAdded DEF Leaf
  <2> QED BY <2>1, <2>2, SameClimb
<1> QED BY <1>3, CoherentKept

LEMMA CoherentStep ==
  ASSUME Flushable, Types, CacheCoherent, [Next]_vars
  PROVE  CacheCoherent'
<1>1. ASSUME UNCHANGED lists, outcome = "run",
             \A d \in Classes, j \in Kinds :
               Contents(cache'[d][j]) \subseteq Contents(cache[d][j])
      PROVE  CacheCoherent'
  <2>1. \A c \in Classes : \A k, s : Resolve(c, k, s)' = Resolve(c, k, s)
    BY <1>1, SameLists
  <2> QED BY <1>1, <2>1, CoherentKept
<1>2. ASSUME outcome = "run", NEW c \in Classes, NEW k \in Kinds, NEW s, NEW m,
             LookupMethod(c, k, s, m), UNCHANGED lists
      PROVE  CacheCoherent'
  <2>1. CASE cache' = cache
    BY <1>1, <1>2, <2>1
  <2>2. ASSUME NEW M \in SUBSET (Finds(c, k, s) \cup Asked(c, k, FwdSel)
                                \cup Asked(c, k, DropSel)),
               M \subseteq Methods, Adding(c, k, M)
        PROVE  CacheCoherent'
    <3>1. \A i \in M : i = Resolve(c, k, SelOf[i])
      BY <1>2, <2>2, FindsIs, Constants DEF Asked
    <3> QED BY <1>2, <2>2, <3>1, CacheGrows
  <2> QED BY <1>2, <2>1, <2>2, LookupIs
<1>3. ASSUME outcome = "run", NEW c \in Classes, NEW k \in Kinds, NEW s, LookupSuper(c, k, s)
      PROVE  CacheCoherent'
  <2>1. UNCHANGED lists
    BY <1>3 DEF LookupSuper
  <2>2. CASE cache' = cache
    BY <1>1, <1>3, <2>1, <2>2
  <2>3. CASE CacheAsked(c, k, Asked(c, k, FwdSel))
    <3>1. Adding(c, k, Asked(c, k, FwdSel)) /\ Asked(c, k, FwdSel) \subseteq Methods
      BY <2>3, AskedIs DEF CacheAsked, Adding
    <3>2. \A i \in Asked(c, k, FwdSel) : i = Resolve(c, k, SelOf[i])
      BY <1>3, FindsIs, Constants DEF Asked
    <3> QED BY <1>3, <2>1, <3>1, <3>2, CacheGrows
  <2> QED BY <1>3, <2>2, <2>3 DEF LookupSuper
<1>4. CASE outcome = "run" /\ Dispatching
  <2>1. ASSUME NEW c \in Classes, NEW k \in Kinds, NEW s, Lookup(c, k, s)
        PROVE  CacheCoherent'
    BY <1>2, <1>4, <2>1 DEF Lookup
  <2>2. ASSUME NEW x \in Sites, NEW c \in Classes, NEW k \in Kinds, Send(x, c, k)
        PROVE  CacheCoherent'
    BY <1>2, <1>4, <2>2 DEF Send
  <2>3. CASE LookupNil
    BY <1>1, <1>4, <2>3 DEF LookupNil
  <2> QED BY <1>3, <1>4, <2>1, <2>2, <2>3 DEF Dispatching
<1>5. CASE outcome = "run" /\ Changing /\ UNCHANGED lists
  <2>1. CASE \E g \in Categories : AddCategory(g)
    BY <1>5, <2>1, CategoryCoherent
  <2>2. ASSUME NEW c \in Classes, NEW k \in AddKinds, NEW batch \in Seq(Methods),
               AttachMethods(c, k, batch)
        PROVE  CacheCoherent'
    BY <1>5, <2>2, AttachCoherent
  <2>3. ASSUME NEW c \in Classes, NEW K \in SUBSET Kinds, FlushCaches(c, K)
        PROVE  CacheCoherent'
    <3>1. \A d \in Classes, j \in Kinds :
            cache'[d][j] = IF d = c /\ j \in K THEN NoCache ELSE cache[d][j]
      BY <2>3, FlushIs DEF FlushCaches
    <3> QED BY <1>1, <1>5, <3>1 DEF Contents
  <2>4. ASSUME NEW c \in Classes, NEW k \in AddKinds, NEW batch \in Batches,
               AddMethods(c, k, batch)
        PROVE  CacheCoherent'
    BY <2>2, <2>4, BatchIs DEF AddMethods
  <2>5. ASSUME NEW c \in Classes, NEW k \in AddKinds, NEW s, ReplaceMissing(c, k, s)
        PROVE  CacheCoherent'
    <3>1. PICK m \in Methods : AttachMethods(c, k, <<m>>)
      BY <2>5 DEF ReplaceMissing, Unattached
    <3>2. <<m>> \in Seq(Methods)
      OBVIOUS
    <3> QED BY <2>2, <3>1, <3>2
  <2>6. ASSUME NEW c, NEW k, NEW s, ReplaceExisting(c, k, s) PROVE CacheCoherent'
    BY <1>1, <1>5, <2>6 DEF ReplaceExisting
  <2> QED BY <1>5, <2>1, <2>3, <2>4, <2>5, <2>6 DEF Changing
<1>6. CASE outcome = "run" /\ Changing /\ ~UNCHANGED lists
  BY <1>6, AttachCases, AttachCoherent, CategoryCoherent
<1>7. CASE UNCHANGED vars
  <2>1. CASE outcome = "run"
    BY <1>1, <1>7, <2>1 DEF vars
  <2>2. CASE outcome # "run"
    BY <1>7, <2>2 DEF vars, CacheCoherent
  <2> QED BY <2>1, <2>2
<1> QED BY <1>4, <1>5, <1>6, <1>7 DEF Next

LEMMA CoherentInit == Init => CacheCoherent
BY DEF Init, CacheCoherent, Hits

(* No cache of a class outlives the answer it holds, in any hierarchy and  *)
(* for any methods, if what is overridden are instance methods and         *)
(* categories go to classes without subclasses (class.c:433, categs.c:77). *)
THEOREM CachesStayCoherent ==
  ASSUME Flushable
  PROVE  Spec => []CacheCoherent
<1>1. Types /\ CacheCoherent /\ [Next]_vars => CacheCoherent'
  BY CoherentStep
<1> QED BY <1>1, CoherentInit, DispatchTypes, PTL DEF Spec

-----------------------------------------------------------------------------
(* Inline caches.                                                          *)

(* A site serves messages to instances or to classes, not both, and no     *)
(* class forwards: an entry made by forwarding bumps a version that no     *)
(* destroyed cache bumps again.                                            *)
NoForwarding == \A m \in Methods : SelOf[m] \notin {FwdSel, DropSel}
OneKind == \A x \in Sites : \A j, k \in SiteKinds[x] : j = k

(* A trusted entry is one that the cache of the class holds as well: what  *)
(* drops it from there takes its trust away.                               *)
Backed(x) ==
  inline[x] # NoEntry =>
    /\ inline[x].version <= version[inline[x].m]
    /\ inline[x].version = version[inline[x].m] =>
         \A k \in SiteKinds[x] : /\ inline[x].m \in Contents(cache[inline[x].isa][k])
                                 /\ SelOf[inline[x].m] = SiteSel[x]
AllBacked == outcome = "run" => \A x \in Sites : Backed(x)

Trusts == /\ version' \in Versions
          /\ \A m \in Methods \cup {NilMethod} :
               /\ version[m] <= version'[m]
               /\ \A c \in Classes, k \in Kinds : m \in Contents(cache[c][k]) =>
                    m \in Contents(cache'[c][k]) \/ version'[m] # version[m]

LEMMA EntryKept ==
  ASSUME Types, NEW x \in Sites, Backed(x), inline'[x] = inline[x], Trusts
  PROVE  Backed(x)'
<1> SUFFICES ASSUME inline[x] # NoEntry
             PROVE  /\ inline[x].version <= version'[inline[x].m]
                    /\ inline[x].version = version'[inline[x].m] =>
                         \A k \in SiteKinds[x] :
                           /\ inline[x].m \in Contents(cache'[inline[x].isa][k])
                           /\ SelOf[inline[x].m] = SiteSel[x]
  BY DEF Backed, Contents
<1> DEFINE e == inline[x]
<1>1. e \in Entries /\ e.m \in Methods \cup {NilMethod} /\ e.isa \in Classes /\ e.version \in Nat
  BY DEF Types, Entries
<1>2. version[e.m] \in Nat /\ version'[e.m] \in Nat /\ version[e.m] <= version'[e.m]
  BY <1>1 DEF Types, Trusts, Versions
<1>3. e.version <= version[e.m]
  BY DEF Backed
<1>4. e.version <= version'[e.m]
  BY <1>1, <1>2, <1>3
<1>5. ASSUME e.version = version'[e.m], NEW k \in SiteKinds[x]
      PROVE  e.m \in Contents(cache'[e.isa][k]) /\ SelOf[e.m] = SiteSel[x]
  <2>1. e.version = version[e.m] /\ version'[e.m] = version[e.m]
    BY <1>1, <1>2, <1>3, <1>5
  <2>2. k \in Kinds
    BY DispatchAssumption
  <2>3. e.m \in Contents(cache[e.isa][k]) /\ SelOf[e.m] = SiteSel[x]
    BY <1>5, <2>1 DEF Backed
  <2> QED BY <1>1, <2>1, <2>2, <2>3 DEF Trusts
<1> QED BY <1>4, <1>5

LEMMA NothingAsked ==
  ASSUME NoForwarding, Types, NEW c \in Classes, NEW k \in Kinds
  PROVE  Asked(c, k, FwdSel) = {} /\ Asked(c, k, DropSel) = {}
<1>1. ASSUME NEW s \in {FwdSel, DropSel} PROVE Asked(c, k, s) = {}
  <2>1. Hits(c, k, s) = {}
    <3>1. Contents(cache[c][k]) \subseteq Methods
      BY DEF Contents, Types
    <3>2. Hits(c, k, s) = {m \in Contents(cache[c][k]) : SelOf[m] = s}
      BY HitsAre
    <3> QED BY <3>1, <3>2 DEF NoForwarding
  <2>2. Resolve(c, k, s) = NullMethod
    BY ResolveTypes DEF NoForwarding
  <2> QED BY <2>1, <2>2 DEF Finds, Asked
<1> QED BY <1>1

LEMMA TrustsIfSame ==
  ASSUME Types, UNCHANGED <<cache, version>>
  PROVE  Trusts
BY DEF Trusts, Types, Versions

LEMMA TrustsIfFlushed ==
  ASSUME Types, NEW c \in Classes, NEW K \in SUBSET Kinds, Flush(c, K)
  PROVE  Trusts
<1>1. /\ version' \in Versions
      /\ \A m \in Methods \cup {NilMethod} :
           /\ version[m] <= version'[m]
           /\ (\E k \in K : m \in Contents(cache[c][k])) => version'[m] # version[m]
      /\ \A d \in Classes, j \in Kinds :
           cache'[d][j] = IF d = c /\ j \in K THEN NoCache ELSE cache[d][j]
  BY FlushIs
<1> QED BY <1>1 DEF Trusts

LEMMA TrustsIfBumped ==
  ASSUME Types, NEW M, version' = Bumped(M), cache' = cache
  PROVE  Trusts
<1>1. \A m \in Methods \cup {NilMethod} : version[m] \in Nat
  BY DEF Types
<1>2. /\ version' \in Versions
      /\ \A m \in Methods \cup {NilMethod} :
           version'[m] = IF m \in M THEN version[m] + 1 ELSE version[m]
  BY BumpedIs
<1>3. \A m \in Methods \cup {NilMethod} : version[m] <= version'[m]
  BY <1>1, <1>2
<1> QED BY <1>2, <1>3 DEF Trusts

(* A look-up that no class forwards fills a cache or ends the program.     *)
LEMMA LookupTrusts ==
  ASSUME NoForwarding, Types, CacheCoherent, outcome = "run",
         NEW c \in Classes, NEW k \in Kinds, NEW s, NEW m,
         LookupMethod(c, k, s, m), outcome' = "run"
  PROVE  /\ Trusts
         /\ version' = version
         /\ m \in Methods /\ SelOf[m] = s /\ m \in Contents(cache'[c][k])
<1>1. Found(c, k, s, m)
  BY NothingAsked DEF LookupMethod, Forwarded, Dropped, NotUnderstood
<1>2. m \in Methods /\ SelOf[m] = s
  BY <1>1, FindsIs DEF Found, IsMethod
<1>3. {m} \in SUBSET Methods /\ Adding(c, k, {m})
  BY <1>1, <1>2 DEF Found, Adding
<1>4. \A d \in Classes, j \in Kinds :
        Contents(cache'[d][j]) = IF d = c /\ j = k THEN Contents(cache[d][j]) \cup {m}
                                 ELSE Contents(cache[d][j])
  BY <1>3, CacheAdds
<1>5. version' = version
  BY <1>1 DEF Found
<1>6. m \in Contents(cache'[c][k])
  BY <1>4
<1>7. Trusts
  <2>1. version \in Versions /\ \A i \in Methods \cup {NilMethod} : version[i] <= version[i]
    BY DEF Types, Versions
  <2>2. \A i : \A d \in Classes, j \in Kinds :
          i \in Contents(cache[d][j]) => i \in Contents(cache'[d][j])
    BY <1>4
  <2> QED BY <1>5, <2>1, <2>2 DEF Trusts
<1> QED BY <1>2, <1>5, <1>6, <1>7

LEMMA ChangingTrusts ==
  ASSUME Types, outcome = "run", Changing, outcome' = "run"
  PROVE  inline' = inline /\ Trusts
<1>1. ASSUME NEW c \in Classes, NEW k \in AddKinds, NEW batch \in Seq(Methods),
             AttachMethods(c, k, batch)
      PROVE  Trusts
  <2>1. k \in Kinds /\ {k} \in SUBSET Kinds
    BY DispatchAssumption
  <2>2. UNCHANGED <<cache, version>> \/ Flush(c, {k})
    BY <1>1, <2>1, AttachIs
  <2> QED BY <2>1, <2>2, TrustsIfSame, TrustsIfFlushed
<1>2. ASSUME NEW c \in Classes, NEW k \in AddKinds, NEW batch \in Batches,
             AddMethods(c, k, batch)
      PROVE  inline' = inline /\ Trusts
  BY <1>1, <1>2, BatchIs DEF AddMethods
<1>3. ASSUME NEW c \in Classes, NEW k \in AddKinds, NEW s, ReplaceMissing(c, k, s)
      PROVE  inline' = inline /\ Trusts
  <2>1. PICK m \in Methods : AttachMethods(c, k, <<m>>)
    BY <1>3 DEF ReplaceMissing, Unattached
  <2>2. <<m>> \in Seq(Methods)
    OBVIOUS
  <2> QED BY <1>1, <1>3, <2>1, <2>2 DEF ReplaceMissing
<1>4. ASSUME NEW c, NEW k, NEW s, ReplaceExisting(c, k, s)
      PROVE  inline' = inline /\ Trusts
  BY <1>4, TrustsIfBumped DEF ReplaceExisting
<1>5. ASSUME NEW g \in Categories, AddCategory(g) PROVE inline' = inline /\ Trusts
  <2>1. CatClass[g] \in Classes
    BY DispatchAssumption
  <2>2. Flush(CatClass[g], Kinds) /\ inline' = inline
    BY <1>5 DEF AddCategory
  <2> QED BY <2>1, <2>2, TrustsIfFlushed
<1>6. ASSUME NEW c \in Classes, NEW K \in SUBSET Kinds, FlushCaches(c, K)
      PROVE  inline' = inline /\ Trusts
  BY <1>6, TrustsIfFlushed DEF FlushCaches
<1> QED BY <1>2, <1>3, <1>4, <1>5, <1>6 DEF Changing

LEMMA BackedStep ==
  ASSUME NoForwarding, OneKind, Types, CacheCoherent, AllBacked, [Next]_vars
  PROVE  AllBacked'
<1> SUFFICES ASSUME outcome' = "run", NEW x \in Sites PROVE Backed(x)'
  BY DEF AllBacked
<1>0. outcome = "run" /\ Backed(x)
  <2>1. outcome = "run"
    BY DEF Next, vars
  <2> QED BY <2>1 DEF AllBacked
<1>1. ASSUME NEW c \in Classes, NEW k \in Kinds, NEW s, Lookup(c, k, s) PROVE Backed(x)'
  BY <1>0, <1>1, LookupTrusts, EntryKept DEF Lookup
<1>2. ASSUME NEW c \in Classes, NEW k \in Kinds, NEW s, LookupSuper(c, k, s)
      PROVE  Backed(x)'
  BY <1>2, NothingAsked DEF LookupSuper
<1>3. ASSUME NEW y \in Sites, NEW c \in Classes, NEW k \in Kinds, Send(y, c, k)
      PROVE  Backed(x)'
  <2>1. PICK m : /\ LookupMethod(c, k, SiteSel[y], m)
                 /\ \/ inline' = inline
                    \/ inline' = [inline EXCEPT ![y] =
                                    [m |-> m, isa |-> c, version |-> version'[m]]]
    BY <1>3, SentIs
  <2>2. /\ Trusts /\ version' = version
        /\ m \in Methods /\ SelOf[m] = SiteSel[y] /\ m \in Contents(cache'[c][k])
    BY <1>0, <2>1, LookupTrusts
  <2>3. CASE inline'[x] = inline[x]
    BY <1>0, <2>2, <2>3, EntryKept
  <2>4. CASE inline'[x] # inline[x]
    <3>1. x = y /\ inline'[x] = [m |-> m, isa |-> c, version |-> version'[m]]
      BY <2>1, <2>4 DEF Types
    <3>2. \A j \in SiteKinds[x] : j = k
      BY <1>3, <3>1 DEF Send, OneKind
    <3>3. version'[m] \in Nat
      BY <2>2 DEF Types
    <3>4. /\ inline'[x].m = m /\ inline'[x].isa = c /\ inline'[x].version = version'[m]
      BY <3>1
    <3>5. inline'[x].version <= version'[inline'[x].m]
      BY <3>3, <3>4
    <3>6. \A j \in SiteKinds[x] : /\ inline'[x].m \in Contents(cache'[inline'[x].isa][j])
                                  /\ SelOf[inline'[x].m] = SiteSel[x]
      BY <2>2, <3>1, <3>2, <3>4
    <3> QED BY <3>5, <3>6 DEF Backed, Contents
  <2> QED BY <2>3, <2>4
<1>4. CASE LookupNil
  BY <1>0, <1>4, TrustsIfBumped, EntryKept DEF LookupNil
<1>5. CASE Changing
  BY <1>0, <1>5, ChangingTrusts, EntryKept
<1>6. CASE UNCHANGED vars
  BY <1>0, <1>6, TrustsIfSame, EntryKept DEF vars
<1>7. CASE Dispatching
  BY <1>1, <1>2, <1>3, <1>4, <1>7 DEF Dispatching
<1> QED BY <1>5, <1>6, <1>7 DEF Next

LEMMA BackedInit == Init => AllBacked
BY DEF Init, AllBacked, Backed

(* A call site that trusts its inline cache calls what the climb would     *)
(* find, in any hierarchy, if also no site serves instances and classes    *)
(* alike and no class forwards (testing.h:332, class.c:751).               *)
THEOREM InlineCachesStayCoherent ==
  ASSUME Flushable, NoForwarding, OneKind
  PROVE  Spec => []InlineCoherent
<1>1. Types /\ CacheCoherent /\ AllBacked /\ [Next]_vars => AllBacked'
  BY BackedStep
<1>2. ASSUME Types, CacheCoherent, AllBacked PROVE InlineCoherent
  <2> SUFFICES ASSUME outcome = "run", NEW x \in Sites, NEW c \in Classes,
                      InlineHit(x, c), NEW k \in SiteKinds[x]
               PROVE  inline[x].m = Resolve(c, k, SiteSel[x])
    BY DEF InlineCoherent
  <2>1. k \in Kinds /\ SiteSel[x] \in Sels
    BY DispatchAssumption
  <2>2. inline[x].m \in Contents(cache[c][k]) /\ SelOf[inline[x].m] = SiteSel[x]
    BY <1>2 DEF InlineHit, AllBacked, Backed
  <2>3. inline[x].m \in Hits(c, k, SiteSel[x])
    BY <2>2, HitsAre
  <2> QED BY <1>2, <2>1, <2>3 DEF CacheCoherent
<1> QED BY <1>1, <1>2, BackedInit, CachesStayCoherent, DispatchTypes, PTL DEF Spec
=============================================================================
