-------------------------- MODULE ConcurrentProofs --------------------------
(***************************************************************************)
(* Theorems about ConcurrentDispatch, for any hierarchy, any methods and   *)
(* any number of threads.  If a class whose cache may be flushed is used   *)
(* by the thread that flushes it only, no thread meets a cache that is not *)
(* there (CachesIntact).  If moreover what overrides a method is added to  *)
(* classes whose subclasses nobody sends messages to, look-ups answer, and *)
(* caches hold, what the climb would find (AnswerIsCurrent, CachesCurrent).*)
(***************************************************************************)
EXTENDS ConcurrentDispatch, FiniteSetTheorems, SequenceTheorems,
        WellFoundedInduction, TLAPS

-----------------------------------------------------------------------------
(* The obligations of the callers.                                         *)

(* Class a has a method for s, or may get one. *)
Has(a, s) == \/ \E i \in DOMAIN InitOwn[a] : SelOf[InitOwn[a][i]] = s
             \/ \E add \in Adds : add[2] = a /\ SelOf[add[3]] = s

(* A method m of class c would take the place of an inherited one. *)
Displaces(c, m) == \E a \in Lineage[c] : a # c /\ Has(a, SelOf[m])

MayFlush(t, c) == \/ <<t, c>> \in Flushes
                  \/ \E m \in Methods : <<t, c, m>> \in Adds /\ Displaces(c, m)
LooksIn(t, c) == \E s \in Sels : <<t, c, s>> \in Looks

(* A class whose cache a thread may flush is flushed by nobody else, and   *)
(* nobody else sends messages to its instances.                            *)
FlushedByItsUser ==
  \A t, u \in Threads, c \in Classes :
     MayFlush(t, c) /\ (MayFlush(u, c) \/ LooksIn(u, c)) => t = u

(* Nobody sends messages to instances of a subclass of a class that may    *)
(* override what it inherits: only the cache of the class itself is flushed. *)
OverridesInLeaves ==
  \A t, u \in Threads, c, d \in Classes, m \in Methods :
     <<t, c, m>> \in Adds /\ Displaces(c, m) /\ LooksIn(u, d) /\ c \in Lineage[d]
       => c = d

-----------------------------------------------------------------------------
(* The hierarchy.                                                          *)

LEMMA Hierarchy ==
  /\ IsFiniteSet(Classes) /\ Nil \notin Classes /\ Super \in [Classes -> Classes \cup {Nil}]
  /\ Lineage \in [Classes -> SUBSET Classes]
  /\ \A c \in Classes : /\ c \in Lineage[c]
                        /\ Super[c] = Nil => Lineage[c] = {c}
                        /\ Super[c] # Nil => /\ Super[c] \in Classes
                                             /\ Lineage[c] = {c} \cup Lineage[Super[c]]
                                             /\ c \notin Lineage[Super[c]]
BY ConcurrentAssumption

LEMMA LeastIs ==
  ASSUME NEW I \in SUBSET Nat, I # {}
  PROVE  Least(I) \in I /\ \A j \in I : Least(I) <= j
<1>1. PICK i \in I : \A j \in I : ~(<<j, i>> \in OpToRel(<, Nat))
  BY NatLessThanWellFounded, WFMin
<1>2. \A j \in I : ~(j < i)
  BY <1>1, Zenon DEF OpToRel
<1>3. \A j \in I : i <= j
  BY <1>2
<1> QED BY <1>3 DEF Least

(* Among the classes that fail, if any, one has a superclass that does not. *)
LEMMA Topmost ==
  ASSUME NEW Bad \in SUBSET Classes, Bad # {}
  PROVE  \E c \in Bad : Super[c] = Nil \/ Super[c] \notin Bad
<1> DEFINE Height(c) == Cardinality(Lineage[c])
           I == {Height(c) : c \in Bad}
<1>1. \A c \in Classes : IsFiniteSet(Lineage[c]) /\ Height(c) \in Nat
  BY Hierarchy, FS_Subset, FS_CardinalityType
<1>2. I \in SUBSET Nat /\ I # {}
  BY <1>1
<1>3. PICK c \in Bad : \A d \in Bad : Height(c) <= Height(d)
  <2> HIDE DEF I
  <2>1. PICK i \in I : \A j \in I : i <= j
    BY <1>2, LeastIs
  <2> QED BY <2>1 DEF I
<1>4. ASSUME Super[c] # Nil PROVE Super[c] \notin Bad
  <2>1. /\ Super[c] \in Classes /\ c \notin Lineage[Super[c]]
        /\ Lineage[c] = Lineage[Super[c]] \cup {c}
    BY <1>4, Hierarchy
  <2>2. Height(c) = Height(Super[c]) + 1
    BY <1>1, <2>1, FS_AddElement
  <2> QED BY <1>1, <1>3, <2>1, <2>2
<1> QED BY <1>4

LEMMA LineageTransitive ==
  \A c \in Classes : \A a \in Lineage[c] : Lineage[a] \subseteq Lineage[c]
<1> DEFINE Bad == {c \in Classes : \E a \in Lineage[c] : ~(Lineage[a] \subseteq Lineage[c])}
<1>1. ASSUME Bad # {} PROVE FALSE
  <2>1. PICK c \in Bad : Super[c] = Nil \/ Super[c] \notin Bad
    BY <1>1, Topmost
  <2>2. CASE Super[c] = Nil
    BY <2>1, <2>2, Hierarchy
  <2>3. CASE Super[c] # Nil
    BY <2>1, <2>3, Hierarchy
  <2> QED BY <2>2, <2>3
<1> QED BY <1>1

LEMMA LineageOrdered ==
  ASSUME NEW a \in Classes, NEW b \in Classes, a \in Lineage[b], b \in Lineage[a]
  PROVE  a = b
<1> SUFFICES ASSUME a # b PROVE FALSE
  OBVIOUS
<1>1. Super[b] \in Classes /\ a \in Lineage[Super[b]] /\ b \notin Lineage[Super[b]]
  BY Hierarchy
<1> QED BY <1>1, LineageTransitive

LEMMA LineageLinear ==
  \A c \in Classes : \A a, b \in Lineage[c] : a \in Lineage[b] \/ b \in Lineage[a]
<1> DEFINE Bad == {c \in Classes : \E a, b \in Lineage[c] : a \notin Lineage[b] /\ b \notin Lineage[a]}
<1>1. ASSUME Bad # {} PROVE FALSE
  <2>1. PICK c \in Bad : Super[c] = Nil \/ Super[c] \notin Bad
    BY <1>1, Topmost
  <2>2. CASE Super[c] = Nil
    BY <2>1, <2>2, Hierarchy
  <2>3. CASE Super[c] # Nil
    BY <2>1, <2>3, Hierarchy
  <2> QED BY <2>2, <2>3
<1> QED BY <1>1

(* Of the classes in Q, one is the nearest on the climb from c. *)
Nearest(a, c, Q) == /\ a \in Lineage[c] /\ a \in Q
                    /\ \A b \in Lineage[c] : b \in Lineage[a] \/ b \notin Q

LEMMA NearestExists ==
  ASSUME NEW Q, NEW c \in Classes, \E a \in Lineage[c] : a \in Q
  PROVE  \E a \in Lineage[c] : Nearest(a, c, Q)
<1> DEFINE Bad == {d \in Classes : /\ \E a \in Lineage[d] : a \in Q
                                   /\ ~\E a \in Lineage[d] : Nearest(a, d, Q)}
<1>1. ASSUME Bad # {} PROVE FALSE
  <2>1. PICK d \in Bad : Super[d] = Nil \/ Super[d] \notin Bad
    BY <1>1, Topmost
  <2>2. CASE d \in Q
    BY <2>1, <2>2, Hierarchy DEF Nearest
  <2>3. CASE d \notin Q
    <3>1. /\ Super[d] \in Classes /\ Lineage[d] = {d} \cup Lineage[Super[d]]
          /\ \E a \in Lineage[Super[d]] : a \in Q
      BY <2>1, <2>3, Hierarchy
    <3>2. PICK a \in Lineage[Super[d]] : Nearest(a, Super[d], Q)
      BY <2>1, <3>1, Hierarchy
    <3>3. Nearest(a, d, Q)
      BY <2>3, <3>1, <3>2 DEF Nearest
    <3> QED BY <2>1, <3>1, <3>3
  <2> QED BY <2>2, <2>3
<1> QED BY <1>1

-----------------------------------------------------------------------------
(* The lists and the climb.                                                *)

LEMMA Methodical == NullMethod \notin Methods /\ SelOf \in [Methods -> Sels]
                    /\ InitOwn \in [Classes -> Seq(Methods)]
BY ConcurrentAssumption

LEMMA MatchIs ==
  ASSUME NEW list \in Seq(Methods), NEW s
  PROVE  \/ /\ MatchIn(list, s) = NullMethod
            /\ \A i \in DOMAIN list : SelOf[list[i]] # s
         \/ \E i \in DOMAIN list :
              /\ MatchIn(list, s) = list[i] /\ list[i] \in Methods /\ SelOf[list[i]] = s
              /\ \A j \in DOMAIN list : SelOf[list[j]] = s => i <= j
<1> DEFINE I == {i \in DOMAIN list : SelOf[list[i]] = s}
<1>1. CASE I = {}
  BY <1>1 DEF MatchIn
<1>2. CASE I # {}
  <2>1. I \in SUBSET Nat
    OBVIOUS
  <2>2. Least(I) \in I /\ \A j \in I : Least(I) <= j
    <3> HIDE DEF I
    <3> QED BY <1>2, <2>1, LeastIs
  <2>3. MatchIn(list, s) = list[Least(I)]
    BY <2>2 DEF MatchIn
  <2>4. list[Least(I)] \in Methods
    BY <2>2
  <2> QED BY <2>2, <2>3, <2>4
<1> QED BY <1>1, <1>2

LEMMA MatchType ==
  ASSUME NEW list \in Seq(Methods), NEW s
  PROVE  /\ MatchIn(list, s) \in Methods \cup {NullMethod}
         /\ MatchIn(list, s) # NullMethod => /\ MatchIn(list, s) \in Methods
                                             /\ SelOf[MatchIn(list, s)] = s
BY MatchIs

(* A list that grows at its end answers what it answered. *)
LEMMA MatchGrows ==
  ASSUME NEW list \in Seq(Methods), NEW m \in Methods, NEW s
  PROVE  MatchIn(Append(list, m), s) =
           IF MatchIn(list, s) # NullMethod THEN MatchIn(list, s)
           ELSE IF SelOf[m] = s THEN m ELSE NullMethod
<1> DEFINE all == Append(list, m)
<1>1. /\ all \in Seq(Methods) /\ DOMAIN all = 1..(Len(list) + 1)
      /\ DOMAIN list = 1..Len(list) /\ Len(list) \in Nat
      /\ \A i \in DOMAIN list : all[i] = list[i]
      /\ all[Len(list) + 1] = m
  OBVIOUS
<1> HIDE DEF all
<1>2. \/ /\ MatchIn(all, s) = NullMethod
         /\ \A i \in DOMAIN all : SelOf[all[i]] # s
      \/ \E i \in DOMAIN all :
           /\ MatchIn(all, s) = all[i] /\ all[i] \in Methods /\ SelOf[all[i]] = s
           /\ \A j \in DOMAIN all : SelOf[all[j]] = s => i <= j
  BY <1>1, MatchIs
<1>3. CASE MatchIn(list, s) # NullMethod
  <2>1. PICK i \in DOMAIN list :
          /\ MatchIn(list, s) = list[i] /\ SelOf[list[i]] = s
          /\ \A j \in DOMAIN list : SelOf[list[j]] = s => i <= j
    BY <1>3, MatchIs
  <2>2. i \in DOMAIN all /\ SelOf[all[i]] = s
    BY <1>1, <2>1
  <2>3. PICK n \in DOMAIN all :
          /\ MatchIn(all, s) = all[n] /\ SelOf[all[n]] = s
          /\ \A j \in DOMAIN all : SelOf[all[j]] = s => n <= j
    BY <1>2, <2>2
  <2>4. n <= i /\ n \in DOMAIN list
    BY <1>1, <2>2, <2>3
  <2>5. n = i
    BY <1>1, <2>1, <2>3, <2>4
  <2> QED BY <1>1, <1>3, <2>1, <2>3, <2>5 DEF all
<1>4. CASE MatchIn(list, s) = NullMethod
  <2>1. \A i \in DOMAIN list : SelOf[list[i]] # s
    BY <1>4, MatchIs, Methodical
  <2>2. \A i \in DOMAIN all : SelOf[all[i]] = s => i = Len(list) + 1
    BY <1>1, <2>1
  <2>3. CASE SelOf[m] = s
    BY <1>1, <1>2, <1>4, <2>2, <2>3 DEF all
  <2>4. CASE SelOf[m] # s
    BY <1>1, <1>2, <1>4, <2>2, <2>4 DEF all
  <2> QED BY <2>3, <2>4
<1> QED BY <1>3, <1>4

(* The nearest class that answers is the one the climb answers with. *)
LEMMA ResolveBy ==
  ASSUME NEW lists, NEW c \in Classes, NEW s, NEW a \in Lineage[c],
         MatchIn(lists[a], s) # NullMethod,
         \A b \in Lineage[c] : b \in Lineage[a] \/ MatchIn(lists[b], s) = NullMethod
  PROVE  Resolve(lists, c, s) = MatchIn(lists[a], s)
<1> DEFINE P(x) == /\ MatchIn(lists[x], s) # NullMethod
                   /\ \A b \in Lineage[c] :
                        b \in Lineage[x] \/ MatchIn(lists[b], s) = NullMethod
<1>1. \A x \in Lineage[c] : P(x) => x = a
  BY Hierarchy, LineageOrdered
<1>2. (CHOOSE x \in Lineage[c] : P(x)) = a
  BY <1>1
<1> QED BY <1>2 DEF Resolve

LEMMA ResolveIs ==
  ASSUME NEW lists \in [Classes -> Seq(Methods)], NEW c \in Classes, NEW s
  PROVE  \/ /\ Resolve(lists, c, s) = NullMethod
            /\ \A a \in Lineage[c] : MatchIn(lists[a], s) = NullMethod
         \/ \E a \in Lineage[c] :
              /\ Resolve(lists, c, s) = MatchIn(lists[a], s)
              /\ MatchIn(lists[a], s) \in Methods /\ SelOf[MatchIn(lists[a], s)] = s
              /\ \A b \in Lineage[c] : b \in Lineage[a] \/ MatchIn(lists[b], s) = NullMethod
<1>1. CASE \A a \in Lineage[c] : MatchIn(lists[a], s) = NullMethod
  BY <1>1 DEF Resolve
<1>2. CASE ~\A a \in Lineage[c] : MatchIn(lists[a], s) = NullMethod
  <2> DEFINE Q == {a \in Classes : MatchIn(lists[a], s) # NullMethod}
  <2>1. \E a \in Lineage[c] : a \in Q
    BY <1>2, Hierarchy
  <2>2. PICK a \in Lineage[c] : Nearest(a, c, Q)
    <3> HIDE DEF Q
    <3> QED BY <2>1, NearestExists
  <2>3. /\ a \in Classes /\ MatchIn(lists[a], s) # NullMethod
        /\ \A b \in Lineage[c] : b \in Lineage[a] \/ MatchIn(lists[b], s) = NullMethod
    BY <2>2, Hierarchy DEF Nearest
  <2>4. MatchIn(lists[a], s) \in Methods /\ SelOf[MatchIn(lists[a], s)] = s
    BY <2>3, MatchType
  <2>5. Resolve(lists, c, s) = MatchIn(lists[a], s)
    BY <2>3, ResolveBy
  <2> QED BY <2>3, <2>4, <2>5
<1> QED BY <1>1, <1>2

LEMMA ResolveNone ==
  ASSUME NEW lists \in [Classes -> Seq(Methods)], NEW c \in Classes, NEW s
  PROVE  /\ Resolve(lists, c, s) = NullMethod
              <=> \A a \in Lineage[c] : MatchIn(lists[a], s) = NullMethod
         /\ Resolve(lists, c, s) \in Methods \cup {NullMethod}
<1>1. \/ /\ Resolve(lists, c, s) = NullMethod
         /\ \A a \in Lineage[c] : MatchIn(lists[a], s) = NullMethod
      \/ \E a \in Lineage[c] :
           /\ Resolve(lists, c, s) = MatchIn(lists[a], s)
           /\ MatchIn(lists[a], s) \in Methods
  BY ResolveIs
<1> QED BY <1>1, Methodical

LEMMA ResolveSome ==
  ASSUME NEW lists \in [Classes -> Seq(Methods)], NEW c \in Classes, NEW s,
         NEW b \in Lineage[c], MatchIn(lists[b], s) # NullMethod
  PROVE  \E a \in Lineage[c] :
           /\ Resolve(lists, c, s) = MatchIn(lists[a], s)
           /\ MatchIn(lists[a], s) # NullMethod
           /\ \A e \in Lineage[c] : e \in Lineage[a] \/ MatchIn(lists[e], s) = NullMethod
<1> DEFINE Q == {a \in Classes : MatchIn(lists[a], s) # NullMethod}
<1>1. \E a \in Lineage[c] : a \in Q
  BY Hierarchy
<1>2. PICK a \in Lineage[c] : Nearest(a, c, Q)
  <2> HIDE DEF Q
  <2> QED BY <1>1, NearestExists
<1>3. /\ a \in Lineage[c] /\ MatchIn(lists[a], s) # NullMethod
      /\ \A e \in Lineage[c] : e \in Lineage[a] \/ MatchIn(lists[e], s) = NullMethod
  BY <1>2, Hierarchy DEF Nearest
<1>4. Resolve(lists, c, s) = MatchIn(lists[a], s)
  BY <1>3, ResolveBy
<1> QED BY <1>3, <1>4

(* The lists "more" are those of "lists" with one more method m of class d. *)
AddsTo(lists, more, d, m) ==
  /\ lists \in [Classes -> Seq(Methods)] /\ more \in [Classes -> Seq(Methods)]
  /\ \A a \in Classes : a # d => more[a] = lists[a]
  /\ d \in Classes /\ m \in Methods /\ more[d] = Append(lists[d], m)

LEMMA ResolveGrows ==
  ASSUME NEW lists, NEW more, NEW d, NEW m, AddsTo(lists, more, d, m),
         NEW c \in Classes, NEW s
  PROVE  \/ Resolve(more, c, s) = Resolve(lists, c, s)
         \/ /\ Resolve(more, c, s) = m /\ SelOf[m] = s /\ d \in Lineage[c]
            /\ MatchIn(lists[d], s) = NullMethod
            /\ \/ Resolve(lists, c, s) = NullMethod
               \/ \E a \in Lineage[d] : a # d /\ MatchIn(lists[a], s) # NullMethod
<1>1. /\ lists \in [Classes -> Seq(Methods)] /\ more \in [Classes -> Seq(Methods)]
      /\ \A a \in Classes : a # d => more[a] = lists[a]
      /\ d \in Classes /\ m \in Methods /\ more[d] = Append(lists[d], m)
  BY DEF AddsTo
<1>2. MatchIn(more[d], s) = IF MatchIn(lists[d], s) # NullMethod THEN MatchIn(lists[d], s)
                            ELSE IF SelOf[m] = s THEN m ELSE NullMethod
  BY <1>1, MatchGrows
<1>3. \A a \in Lineage[c] : MatchIn(lists[a], s) # NullMethod =>
                              MatchIn(more[a], s) = MatchIn(lists[a], s)
  BY <1>1, <1>2, Hierarchy
<1>4. \A a \in Lineage[c] : a # d \/ MatchIn(lists[d], s) # NullMethod \/ SelOf[m] # s =>
                              MatchIn(more[a], s) = MatchIn(lists[a], s)
  BY <1>1, <1>2, Hierarchy
<1>5. CASE \A a \in Lineage[c] : MatchIn(more[a], s) = MatchIn(lists[a], s)
  <2>1. CASE \A a \in Lineage[c] : MatchIn(lists[a], s) = NullMethod
    BY <1>5, <2>1 DEF Resolve
  <2>2. CASE ~\A a \in Lineage[c] : MatchIn(lists[a], s) = NullMethod
    <3>1. PICK a \in Lineage[c] :
            /\ Resolve(lists, c, s) = MatchIn(lists[a], s)
            /\ MatchIn(lists[a], s) # NullMethod
            /\ \A b \in Lineage[c] : b \in Lineage[a] \/ MatchIn(lists[b], s) = NullMethod
      <4>1. PICK b \in Lineage[c] : MatchIn(lists[b], s) # NullMethod
        BY <2>2
      <4>2. lists \in [Classes -> Seq(Methods)]
        BY <1>1
      <4> QED BY <4>1, <4>2, ResolveSome
    <3>2. Resolve(more, c, s) = MatchIn(more[a], s)
      BY <1>5, <3>1, ResolveBy
    <3> QED BY <1>5, <3>1, <3>2
  <2> QED BY <2>1, <2>2
<1>6. CASE ~\A a \in Lineage[c] : MatchIn(more[a], s) = MatchIn(lists[a], s)
  <2>1. /\ d \in Lineage[c] /\ MatchIn(lists[d], s) = NullMethod /\ SelOf[m] = s
        /\ MatchIn(more[d], s) = m /\ MatchIn(more[d], s) # NullMethod
    BY <1>2, <1>4, <1>6, Methodical
  <2>2. PICK a \in Lineage[c] :
          /\ Resolve(more, c, s) = MatchIn(more[a], s)
          /\ MatchIn(more[a], s) # NullMethod
          /\ \A b \in Lineage[c] : b \in Lineage[a] \/ MatchIn(more[b], s) = NullMethod
    <3>1. more \in [Classes -> Seq(Methods)] /\ d \in Lineage[c] /\ MatchIn(more[d], s) # NullMethod
      BY <1>1, <2>1
    <3> QED BY <3>1, ResolveSome
  <2>3. d \in Lineage[a]
    BY <2>1, <2>2, Methodical
  <2>4. CASE a = d
    <3>1. ASSUME Resolve(lists, c, s) # NullMethod
          PROVE  \E b \in Lineage[d] : b # d /\ MatchIn(lists[b], s) # NullMethod
      <4>1. PICK b \in Lineage[c] : MatchIn(lists[b], s) # NullMethod
        BY <1>1, <3>1, ResolveNone
      <4>2. MatchIn(more[b], s) # NullMethod
        BY <1>3, <4>1
      <4> QED BY <2>1, <2>2, <2>4, <4>1, <4>2
    <3> QED BY <2>1, <2>2, <2>4, <3>1
  <2>5. CASE a # d
    <3>1. MatchIn(lists[a], s) = MatchIn(more[a], s)
      BY <1>4, <2>5
    <3>2. \A b \in Lineage[c] : b \in Lineage[a] \/ MatchIn(lists[b], s) = NullMethod
      BY <1>3, <2>2
    <3>3. Resolve(lists, c, s) = MatchIn(lists[a], s)
      BY <2>2, <3>1, <3>2, ResolveBy
    <3> QED BY <2>2, <3>1, <3>3
  <2> QED BY <2>4, <2>5
<1> QED BY <1>5, <1>6

(* What a class overrides is above it. *)
LEMMA OverridesIs ==
  ASSUME own \in [Classes -> Seq(Methods)], NEW c \in Classes, NEW m
  PROVE  Overrides(c, m) <=> \E a \in Lineage[c] :
                               a # c /\ MatchIn(own[a], SelOf[m]) # NullMethod
<1>1. CASE Super[c] = Nil
  BY <1>1, Hierarchy DEF Overrides
<1>2. CASE Super[c] # Nil
  <2>1. /\ Super[c] \in Classes /\ Lineage[c] = {c} \cup Lineage[Super[c]]
        /\ c \notin Lineage[Super[c]]
    BY <1>2, Hierarchy
  <2>2. Resolve(own, Super[c], SelOf[m]) # NullMethod
          <=> \E a \in Lineage[Super[c]] : MatchIn(own[a], SelOf[m]) # NullMethod
    BY <2>1, ResolveNone
  <2> QED BY <1>2, <2>1, <2>2 DEF Overrides
<1> QED BY <1>1, <1>2

-----------------------------------------------------------------------------
(* The invariants.                                                         *)

(* A thread that will use, or destroy, the cache it has a pointer to. *)
Holds(t) == pc[t] \in {"l_fetch", "l_insert", "f_store", "f_destroy"}

(* A call is one of those that the callers make. *)
Calls ==
  \A t \in Threads :
    /\ pc[t] \in LookPCs => <<t, cls[t], sel[t]>> \in Looks
    /\ pc[t] \in AddPCs => <<t, cls[t], meth[t]>> \in Adds
    /\ pc[t] \in FlushPCs => MayFlush(t, cls[t])
    /\ pc[t] \in {"l_fetch", "l_climb"} => at[t] \in Lineage[cls[t]]
    /\ pc[t] = "l_fetch" => ptr[t] # NullCache
    /\ pc[t] \in {"l_null", "l_create", "l_reload", "l_insert"} =>
         meth[t] \in Methods /\ SelOf[meth[t]] = sel[t]

(* Methods are in the lists they were given to, caches where one looks.    *)
Sources ==
  /\ \A a \in Classes, s \in Sels : MatchIn(own[a], s) # NullMethod => Has(a, s)
  /\ \A c \in Classes : cache[c] # NullCache => \E t \in Threads : LooksIn(t, c)
  /\ \A h \in Caches : h \notin created => content[h] = {} /\ gone[h] = 0

(* A cache belongs to one class as long as anyone has a pointer to it.     *)
Owned ==
  /\ \A c, d \in Classes : cache[c] # NullCache /\ cache[c] = cache[d] => c = d
  /\ \A t \in Threads : Holds(t) =>
       /\ ptr[t] # NullCache /\ gone[ptr[t]] = 0
       /\ \A c \in Classes : cache[c] = ptr[t] => c = cls[t]
       /\ \A u \in Threads : Holds(u) /\ ptr[u] = ptr[t] => cls[u] = cls[t]
  /\ \A t \in Threads :
       /\ pc[t] = "f_store" => cache[cls[t]] = ptr[t]
       /\ pc[t] = "f_destroy" => cache[cls[t]] = NullCache
       /\ pc[t] \in {"l_reload", "f_load"} => cache[cls[t]] # NullCache

Basic == TypeOK /\ Calls /\ Sources

(* A cache whose entries may be outdated is about to be flushed. *)
Pending(c) == \E u \in Threads :
  /\ cls[u] = c
  /\ pc[u] \in FlushPCs \/ (pc[u] = "a_super" /\ Overrides(c, meth[u]))

Right(c, m) == m = Resolve(own, c, SelOf[m])

(* What is cached, or about to be, is what the climb finds. *)
Coherent ==
  /\ \A c \in Classes : cache[c] # NullCache =>
       Pending(c) \/ \A m \in content[cache[c]] : Right(c, m)
  /\ \A t \in Threads :
       /\ pc[t] = "l_fetch" => \A m \in content[ptr[t]] : Right(cls[t], m)
       /\ pc[t] \in {"l_null", "l_create", "l_reload", "l_insert"} => Right(cls[t], meth[t])

(* If a class that the climb has passed answers by now, nothing further up *)
(* will, and there was an instant at which nothing did.                    *)
Passed(t) == Lineage[cls[t]] \ Lineage[at[t]]
Climbs ==
  \A t \in Threads :
    /\ pc[t] \in LookPCs => Resolve(own, cls[t], sel[t]) \in current[t]
    /\ pc[t] \in {"l_fetch", "l_climb"} =>
         \/ \A e \in Passed(t) : MatchIn(own[e], sel[t]) = NullMethod
         \/ /\ \A a \in Lineage[at[t]] : ~Has(a, sel[t])
            /\ NullMethod \in current[t]
    /\ pc[t] = "l_ret" => meth[t] \in current[t]


-----------------------------------------------------------------------------
(* Types, calls and sources hold whatever the callers do.                  *)

LEMMA TypeStep ==
  ASSUME TypeOK, Calls, Next
  PROVE  TypeOK'
<1> USE DEF TypeOK, LookPCs, AddPCs, FlushPCs
<1>1. PICK t \in Threads : Begin(t) \/ Step(t)
  BY DEF Next
<1> USE DEF Goto, Set, caches, locals
<1>a. ASSUME NEW c \in Classes, NEW s \in Sels, BeginLookup(t, c, s) PROVE TypeOK'
  <2>1. Resolve(own, c, s) \in Methods \cup {NullMethod}
    BY ResolveNone
  <2> QED BY <1>a, <2>1, Hierarchy DEF BeginLookup
<1>b. ASSUME NEW c \in Classes, NEW m \in Methods, BeginAdd(t, c, m) PROVE TypeOK'
  BY <1>b, Hierarchy DEF BeginAdd
<1>c. ASSUME NEW c \in Classes, BeginFlush(t, c) PROVE TypeOK'
  BY <1>c, Hierarchy DEF BeginFlush
<1>d. ASSUME LoadCache(t) PROVE TypeOK'
  <2>1. cls[t] \in Classes /\ ptr' = [ptr EXCEPT ![t] = cache[cls[t]]]
        /\ UNCHANGED <<own, caches, cls, sel, meth, current, fault>> /\ pc[t] # "idle"
        /\ at' = [at EXCEPT ![t] = cls[t]]
    BY <1>d DEF LoadCache
  <2>2. pc' = [pc EXCEPT ![t] = IF cache[cls[t]] = NullCache THEN "l_climb" ELSE "l_fetch"]
    BY <1>d DEF LoadCache, NoCacheYet
  <2>3. ptr' \in [Threads -> created' \cup {NullCache}] /\ ptr'[t] = cache[cls[t]]
    BY <2>1
  <2> QED BY <2>1, <2>2, <2>3
<1>e. ASSUME Fetch(t) PROVE TypeOK'
  <2>1. CASE gone[ptr[t]] > 0
    BY <1>e, <2>1 DEF Fetch, Faulted
  <2>2. CASE ~(gone[ptr[t]] > 0)
    <3>1. ptr[t] \in Caches
      <4>1. pc[t] = "l_fetch"
        BY <1>e DEF Fetch
      <4>2. ptr[t] # NullCache /\ ptr[t] \in created \cup {NullCache} /\ created \subseteq Caches
        BY <4>1 DEF Calls
      <4> QED BY <4>2
    <3>2. HitsIn(ptr[t], sel[t]) \subseteq Methods
      BY <3>1 DEF HitsIn
    <3>3. meth' \in [Threads -> Methods \cup {NullMethod}]
      BY <1>e, <2>2, <3>2 DEF Fetch
    <3>4. pc' \in {[pc EXCEPT ![t] = "l_ret"], [pc EXCEPT ![t] = "l_climb"]}
      BY <1>e, <2>2 DEF Fetch
    <3>5. /\ UNCHANGED <<own, caches, cls, sel, at, ptr, current, fault>> /\ pc[t] = "l_fetch"
          /\ \A u \in Threads \ {t} : meth'[u] = meth[u] /\ pc'[u] = pc[u]
      BY <1>e, <2>2 DEF Fetch
    <3>6. pc'[t] \in {"l_ret", "l_climb"} /\ pc' \in [Threads -> {"idle"} \cup LookPCs \cup AddPCs \cup FlushPCs]
      BY <3>4
    <3> QED BY <3>3, <3>5, <3>6
  <2> QED BY <2>1, <2>2
<1>f. ASSUME Climb(t) PROVE TypeOK'
  <2>1. at[t] \in Classes
    <3>1. at[t] \in Lineage[cls[t]] /\ cls[t] \in Classes
      BY <1>f DEF Climb, Calls
    <3> QED BY <3>1, Hierarchy
  <2>2. MatchIn(own[at[t]], sel[t]) \in Methods \cup {NullMethod}
    BY <2>1, MatchType
  <2>3. NextClass(at[t]) \in Classes \cup {Nil}
    BY <2>1, Hierarchy DEF NextClass
  <2> QED BY <1>f, <2>2, <2>3 DEF Climb
<1>g. ASSUME TestCache(t) PROVE TypeOK'
  BY <1>g DEF TestCache
<1>h. ASSUME CreateCache(t) PROVE TypeOK'
  BY <1>h DEF CreateCache
<1>i. ASSUME InsertCache(t) PROVE TypeOK'
  <2> DEFINE h == ptr[t]
  <2>1. CASE h = NullCache \/ gone[h] > 0
    BY <1>i, <2>1 DEF InsertCache, Faulted
  <2>2. CASE ~(h = NullCache \/ gone[h] > 0)
    <3>1. meth[t] \in Methods
      BY <1>i DEF InsertCache, Calls
    <3>2. content' \in [Caches -> SUBSET Methods]
      <4>1. h \in Caches /\ content[h] \cup {meth[t]} \subseteq Methods
        BY <1>i, <2>2, <3>1 DEF InsertCache
      <4>2. content' = [content EXCEPT ![h] = @ \cup {meth[t]}]
        BY <1>i, <2>2 DEF InsertCache
      <4> QED BY <4>1, <4>2
    <3> QED BY <1>i, <2>2, <3>2 DEF InsertCache
  <2> QED BY <2>1, <2>2
<1>j. ASSUME ReturnMethod(t) PROVE TypeOK'
  BY <1>j DEF ReturnMethod, Leave
<1>k. ASSUME AppendMethod(t) PROVE TypeOK'
  <2>1. cls[t] \in Classes /\ meth[t] \in Methods
    <3>1. <<t, cls[t], meth[t]>> \in Adds
      BY <1>k DEF AppendMethod, Calls
    <3> QED BY <3>1, ConcurrentAssumption
  <2>2. own' \in [Classes -> Seq(Methods)]
    BY <1>k, <2>1 DEF AppendMethod
  <2>3. \A u \in Threads : pc[u] \in LookPCs =>
          Resolve(own', cls[u], sel[u]) \in Methods \cup {NullMethod}
    BY <2>2, ResolveNone
  <2>4. current' \in [Threads -> SUBSET (Methods \cup {NullMethod})]
    <3> HIDE DEF LookPCs
    <3>1. \A u \in Threads :
            (IF pc[u] \in LookPCs THEN current[u] \cup {Resolve(own', cls[u], sel[u])}
             ELSE current[u]) \in SUBSET (Methods \cup {NullMethod})
      BY <2>3
    <3> QED BY <1>k, <3>1 DEF AppendMethod
  <2> QED BY <1>k, <2>2, <2>4 DEF AppendMethod
<1>l. ASSUME AskSuper(t) PROVE TypeOK'
  <2>1. CASE Overrides(cls[t], meth[t])
    BY <1>l, <2>1 DEF AskSuper
  <2>2. CASE ~Overrides(cls[t], meth[t])
    <3>1. Leave(t) /\ UNCHANGED <<own, caches, current, fault>>
      BY <1>l, <2>2 DEF AskSuper
    <3> QED BY <3>1 DEF Leave
  <2> QED BY <2>1, <2>2
<1>m. ASSUME FlushTest(t) PROVE TypeOK'
  <2>1. CASE cache[cls[t]] = NullCache
    <3>1. Leave(t) /\ UNCHANGED <<own, caches, current, fault>>
      BY <1>m, <2>1 DEF FlushTest
    <3> QED BY <3>1 DEF Leave
  <2>2. CASE cache[cls[t]] # NullCache
    <3>1. /\ pc' = [pc EXCEPT ![t] = "f_load"] /\ pc[t] = "f_test"
          /\ UNCHANGED <<own, caches, locals, current, fault>>
      BY <1>m, <2>2 DEF FlushTest
    <3> QED BY <3>1
  <2> QED BY <2>1, <2>2
<1>n. ASSUME FlushLoad(t) \/ ReloadCache(t) PROVE TypeOK'
  <2>1. cls[t] \in Classes /\ cache[cls[t]] \in created \cup {NullCache}
    BY <1>n DEF FlushLoad, ReloadCache
  <2>2. ptr' = [ptr EXCEPT ![t] = cache[cls[t]]] /\ created' = created
    BY <1>n DEF FlushLoad, ReloadCache
  <2>3. ptr' \in [Threads -> created' \cup {NullCache}]
    BY <2>1, <2>2
  <2>4. CASE FlushLoad(t)
    BY <2>2, <2>3, <2>4 DEF FlushLoad
  <2>5. CASE ReloadCache(t)
    BY <2>2, <2>3, <2>5 DEF ReloadCache
  <2> QED BY <1>n, <2>4, <2>5
<1>o. ASSUME FlushStore(t) PROVE TypeOK'
  BY <1>o DEF FlushStore, Detached
<1>p. ASSUME FlushDestroy(t) PROVE TypeOK'
  <2>1. CASE ptr[t] = NullCache
    BY <1>p, <2>1 DEF FlushDestroy, Faulted
  <2>2. CASE ptr[t] # NullCache
    <3>1. /\ gone' = [gone EXCEPT ![ptr[t]] = @ + 1]
          /\ content' = [content EXCEPT ![ptr[t]] = {}]
          /\ Leave(t) /\ UNCHANGED <<own, cache, created, current, fault>>
      BY <1>p, <2>2 DEF FlushDestroy
    <3>2. ptr[t] \in Caches
      BY <2>2
    <3>3. content' \in [Caches -> SUBSET Methods] /\ gone' \in [Caches -> Nat]
      BY <3>1, <3>2
    <3> QED BY <3>1, <3>3 DEF Leave
  <2> QED BY <2>1, <2>2
<1> QED BY <1>1, <1>a, <1>b, <1>c, <1>d, <1>e, <1>f, <1>g, <1>h, <1>i, <1>j, <1>k, <1>l,
           <1>m, <1>n, <1>o, <1>p DEF Begin, Step

LEMMA CallsStep ==
  ASSUME TypeOK, Calls, Sources, Next
  PROVE  Calls'
<1> USE DEF Calls, Holds, LookPCs, AddPCs, FlushPCs
<1>1. PICK t \in Threads : Begin(t) \/ Step(t)
  BY DEF Next
<1>2. /\ pc \in [Threads -> {"idle"} \cup LookPCs \cup AddPCs \cup FlushPCs]
      /\ cls \in [Threads -> Classes \cup {Nil}] /\ sel \in [Threads -> Sels \cup {Nil}]
      /\ at \in [Threads -> Classes \cup {Nil}]
      /\ ptr \in [Threads -> created \cup {NullCache}]
      /\ meth \in [Threads -> Methods \cup {NullMethod}]
      /\ own \in [Classes -> Seq(Methods)]
      /\ \A u \in Threads : pc[u] # "idle" => cls[u] \in Classes
  BY DEF TypeOK
<1> USE DEF Goto, Set, caches, locals
<1>a. ASSUME NEW c \in Classes, NEW s \in Sels, BeginLookup(t, c, s) PROVE Calls'
  BY <1>2, <1>a DEF BeginLookup
<1>b. ASSUME NEW c \in Classes, NEW m \in Methods, BeginAdd(t, c, m) PROVE Calls'
  BY <1>2, <1>b DEF BeginAdd
<1>c. ASSUME NEW c \in Classes, BeginFlush(t, c) PROVE Calls'
  <2>1. MayFlush(t, c)
    BY <1>c DEF BeginFlush, MayFlush
  <2> QED BY <1>2, <1>c, <2>1 DEF BeginFlush
<1>d. ASSUME LoadCache(t) PROVE Calls'
  <2>1. cls[t] \in Lineage[cls[t]]
    BY <1>2, <1>d, Hierarchy DEF LoadCache
  <2> QED BY <1>2, <1>d, <2>1 DEF LoadCache, NoCacheYet
<1>e. ASSUME Fetch(t) PROVE Calls'
  <2>1. CASE gone[ptr[t]] > 0
    BY <1>e, <2>1 DEF Fetch, Faulted
  <2>2. CASE ~(gone[ptr[t]] > 0)
    <3>1. /\ pc[t] = "l_fetch" /\ UNCHANGED <<own, caches, cls, sel, at, ptr, current, fault>>
          /\ \/ pc' = [pc EXCEPT ![t] = "l_ret"]
                /\ \E m \in HitsIn(ptr[t], sel[t]) : meth' = [meth EXCEPT ![t] = m]
             \/ pc' = [pc EXCEPT ![t] = "l_climb"] /\ UNCHANGED meth
      BY <1>e, <2>2 DEF Fetch
    <3>2. /\ pc'[t] \in {"l_ret", "l_climb"}
          /\ \A u \in Threads : u # t => pc'[u] = pc[u] /\ meth'[u] = meth[u]
      BY <1>2, <3>1
    <3> QED BY <3>1, <3>2
  <2> QED BY <2>1, <2>2
<1>f. ASSUME Climb(t) PROVE Calls'
  <2>1. /\ at[t] \in Lineage[cls[t]] /\ cls[t] \in Classes
        /\ at[t] \in Classes
    <3>1. at[t] \in Lineage[cls[t]] /\ cls[t] \in Classes
      BY <1>2, <1>f DEF Climb
    <3> QED BY <3>1, Hierarchy
  <2> DEFINE m == MatchIn(own[at[t]], sel[t])
  <2>2. m # NullMethod => m \in Methods /\ SelOf[m] = sel[t]
    BY <1>2, <2>1, MatchType
  <2>3. NextClass(at[t]) # Nil => NextClass(at[t]) \in Lineage[cls[t]]
    <3>1. Super[at[t]] # Nil => Super[at[t]] \in Lineage[at[t]]
      BY <2>1, Hierarchy
    <3> QED BY <2>1, <3>1, LineageTransitive DEF NextClass
  <2>4. /\ meth' = [meth EXCEPT ![t] = m]
        /\ at' = IF m = NullMethod THEN [at EXCEPT ![t] = NextClass(at[t])] ELSE at
        /\ pc' = [pc EXCEPT ![t] = IF m # NullMethod THEN "l_null"
                                   ELSE IF NextClass(at[t]) = Nil THEN "l_ret" ELSE "l_climb"]
        /\ UNCHANGED <<cls, sel, ptr>> /\ pc[t] = "l_climb"
    BY <1>f DEF Climb
  <2> HIDE DEF m
  <2> QED BY <1>2, <2>1, <2>2, <2>3, <2>4
<1>g. ASSUME TestCache(t) PROVE Calls'
  BY <1>2, <1>g DEF TestCache
<1>h. ASSUME CreateCache(t) PROVE Calls'
  BY <1>2, <1>h DEF CreateCache
<1>i. ASSUME InsertCache(t) PROVE Calls'
  <2>1. CASE UNCHANGED pc
    BY <1>i, <2>1 DEF InsertCache, Faulted
  <2>2. CASE ~UNCHANGED pc
    BY <1>2, <1>i, <2>2 DEF InsertCache, Faulted
  <2> QED BY <2>1, <2>2
<1>j. ASSUME ReturnMethod(t) PROVE Calls'
  BY <1>2, <1>j DEF ReturnMethod, Leave
<1>k. ASSUME AppendMethod(t) PROVE Calls'
  BY <1>2, <1>k DEF AppendMethod
<1>l. ASSUME AskSuper(t) PROVE Calls'
  <2>1. CASE Overrides(cls[t], meth[t])
    <3>1. <<t, cls[t], meth[t]>> \in Adds /\ cls[t] \in Classes /\ meth[t] \in Methods
      <4>1. <<t, cls[t], meth[t]>> \in Adds
        BY <1>l DEF AskSuper
      <4> QED BY <4>1, ConcurrentAssumption
    <3>2. PICK a \in Lineage[cls[t]] : a # cls[t] /\ MatchIn(own[a], SelOf[meth[t]]) # NullMethod
      BY <1>2, <2>1, <3>1, OverridesIs
    <3>3. Has(a, SelOf[meth[t]])
      BY <3>1, <3>2, Hierarchy, Methodical DEF Sources
    <3>4. MayFlush(t, cls[t])
      BY <3>1, <3>2, <3>3 DEF MayFlush, Displaces
    <3> QED BY <1>2, <1>l, <2>1, <3>4 DEF AskSuper
  <2>2. CASE ~Overrides(cls[t], meth[t])
    <3>1. Leave(t)
      BY <1>l, <2>2 DEF AskSuper
    <3> QED BY <1>2, <3>1 DEF Leave
  <2> QED BY <2>1, <2>2
<1>m. ASSUME FlushTest(t) PROVE Calls'
  <2>1. CASE cache[cls[t]] = NullCache
    <3>1. Leave(t)
      BY <1>m, <2>1 DEF FlushTest
    <3> QED BY <1>2, <3>1 DEF Leave
  <2>2. CASE cache[cls[t]] # NullCache
    BY <1>2, <1>m, <2>2 DEF FlushTest
  <2> QED BY <2>1, <2>2
<1>n. ASSUME FlushLoad(t) \/ ReloadCache(t) PROVE Calls'
  BY <1>2, <1>n DEF FlushLoad, ReloadCache
<1>o. ASSUME FlushStore(t) PROVE Calls'
  BY <1>2, <1>o DEF FlushStore
<1>p. ASSUME FlushDestroy(t) PROVE Calls'
  <2>1. CASE ptr[t] = NullCache
    BY <1>p, <2>1 DEF FlushDestroy, Faulted
  <2>2. CASE ptr[t] # NullCache
    <3>1. Leave(t)
      BY <1>p, <2>2 DEF FlushDestroy
    <3> QED BY <1>2, <3>1 DEF Leave
  <2> QED BY <2>1, <2>2
<1> QED BY <1>1, <1>a, <1>b, <1>c, <1>d, <1>e, <1>f, <1>g, <1>h, <1>i, <1>j, <1>k, <1>l,
           <1>m, <1>n, <1>o, <1>p DEF Begin, Step

LEMMA SourcesStep ==
  ASSUME TypeOK, Calls, Sources, Next
  PROVE  Sources'
<1>1. PICK t \in Threads : Begin(t) \/ Step(t)
  BY DEF Next
<1> USE DEF Goto, Set, caches, locals
<1>a. CASE UNCHANGED <<own, cache, content, created, gone>>
  BY <1>a DEF Sources
<1>h. ASSUME CreateCache(t) PROVE Sources'
  <2>1. LooksIn(t, cls[t])
    <3>1. <<t, cls[t], sel[t]>> \in Looks
      BY <1>h DEF CreateCache, Calls, LookPCs
    <3> QED BY <3>1, ConcurrentAssumption DEF LooksIn
  <2> QED BY <1>h, <2>1 DEF CreateCache, Sources, TypeOK
<1>i. ASSUME InsertCache(t), ~UNCHANGED <<own, cache, content, created, gone>> PROVE Sources'
  <2>1. /\ content' = [content EXCEPT ![ptr[t]] = @ \cup {meth[t]}]
        /\ ptr[t] # NullCache /\ pc[t] = "l_insert"
        /\ UNCHANGED <<own, cache, created, gone>>
    BY <1>i DEF InsertCache, Faulted
  <2>2. ptr[t] \in created
    BY <2>1 DEF TypeOK
  <2> QED BY <2>1, <2>2 DEF Sources, TypeOK
<1>k. ASSUME AppendMethod(t) PROVE Sources'
  <2>1. <<t, cls[t], meth[t]>> \in Adds /\ cls[t] \in Classes /\ meth[t] \in Methods
    <3>1. <<t, cls[t], meth[t]>> \in Adds
      BY <1>k DEF AppendMethod, Calls, AddPCs
    <3> QED BY <3>1, ConcurrentAssumption
  <2>2. own \in [Classes -> Seq(Methods)]
    BY DEF TypeOK
  <2>3. own' = [own EXCEPT ![cls[t]] = Append(@, meth[t])]
    BY <1>k DEF AppendMethod
  <2>4. ASSUME NEW a \in Classes, NEW s \in Sels, MatchIn(own'[a], s) # NullMethod
        PROVE  Has(a, s)
    <3>1. CASE a # cls[t]
      BY <2>2, <2>3, <2>4, <3>1 DEF Sources
    <3>2. CASE a = cls[t]
      <4>1. own'[a] = Append(own[a], meth[t])
        BY <2>2, <2>3, <3>2
      <4>2. MatchIn(own[a], s) # NullMethod \/ SelOf[meth[t]] = s
        BY <2>1, <2>2, <2>4, <4>1, MatchGrows
      <4>3. CASE SelOf[meth[t]] = s
        BY <2>1, <3>2, <4>3 DEF Has
      <4> QED BY <4>2, <4>3 DEF Sources
    <3> QED BY <3>1, <3>2
  <2> QED BY <1>k, <2>4 DEF AppendMethod, Sources
<1>n. ASSUME FlushStore(t) PROVE Sources'
  BY <1>n DEF FlushStore, Detached, Sources, TypeOK
<1>o. ASSUME FlushDestroy(t), ~UNCHANGED <<own, cache, content, created, gone>> PROVE Sources'
  <2>1. /\ gone' = [gone EXCEPT ![ptr[t]] = @ + 1]
        /\ content' = [content EXCEPT ![ptr[t]] = {}]
        /\ ptr[t] # NullCache /\ UNCHANGED <<own, cache, created>>
    BY <1>o DEF FlushDestroy, Faulted
  <2>2. ptr[t] \in created
    BY <2>1 DEF TypeOK
  <2> QED BY <2>1, <2>2 DEF Sources, TypeOK
<1> QED BY <1>1, <1>a, <1>h, <1>i, <1>k, <1>n, <1>o
        DEF Begin, Step, BeginLookup, BeginAdd, BeginFlush, LoadCache, Fetch, Climb, TestCache,
            ReloadCache, ReturnMethod, AskSuper, FlushTest, FlushLoad, Leave, Faulted

LEMMA BasicHolds == Spec => []Basic
<1>1. Init => Basic
  <2> SUFFICES ASSUME Init PROVE Basic
    OBVIOUS
  <2>1. TypeOK
    BY Methodical DEF Init, TypeOK
  <2>2. Calls
    BY DEF Init, Calls, Holds, LookPCs, AddPCs, FlushPCs
  <2>3. Sources
    <3>1. ASSUME NEW a \in Classes, NEW s \in Sels, MatchIn(own[a], s) # NullMethod
          PROVE  Has(a, s)
      <4>1. own[a] = InitOwn[a] /\ InitOwn[a] \in Seq(Methods)
        BY Methodical DEF Init
      <4> QED BY <3>1, <4>1, MatchIs DEF Has
    <3> QED BY <3>1 DEF Init, Sources
  <2> QED BY <2>1, <2>2, <2>3 DEF Basic
<1>2. Basic /\ [Next]_vars => Basic'
  <2>1. ASSUME Basic, UNCHANGED vars PROVE Basic'
    BY <2>1 DEF Basic, TypeOK, Calls, Sources, Holds, vars, caches, locals
  <2> QED BY <2>1, TypeStep, CallsStep, SourcesStep DEF Basic
<1> QED BY <1>1, <1>2, PTL DEF Spec

(* No call of the run-time leaves its types, whatever the threads do: a    *)
(* call knows its class, _lookup_cached_method never asks a NULL cache     *)
(* (class.c:219) and _cache_method never caches a NULL method.             *)
THEOREM ConcurrentTypesHold == Spec => []TypeOK
<1>1. Basic => TypeOK
  BY DEF Basic
<1> QED BY <1>1, BasicHolds, PTL

-----------------------------------------------------------------------------
(* Caches, when the caches that are flushed have one user.                 *)

LEMMA Exclusive ==
  ASSUME FlushedByItsUser, TypeOK, Calls, NEW t \in Threads, NEW u \in Threads, u # t,
         pc[t] \in FlushPCs, pc[u] \in LookPCs \cup FlushPCs
  PROVE  cls[u] # cls[t]
<1> SUFFICES ASSUME cls[u] = cls[t] PROVE FALSE
  OBVIOUS
<1>1. MayFlush(t, cls[t]) /\ cls[t] \in Classes
  BY DEF Calls, TypeOK, FlushPCs
<1>2. pc[u] \in FlushPCs => MayFlush(u, cls[t])
  BY DEF Calls
<1>3. pc[u] \in LookPCs => LooksIn(u, cls[t])
  <2>1. pc[u] \in LookPCs => <<u, cls[t], sel[u]>> \in Looks
    BY DEF Calls
  <2> QED BY <2>1, ConcurrentAssumption DEF LooksIn
<1> QED BY <1>1, <1>2, <1>3 DEF FlushedByItsUser

LEMMA IntactStep ==
  ASSUME Basic, Owned, CachesIntact, FlushedByItsUser, Next
  PROVE  CachesIntact'
<1> USE DEF Basic
<1>1. PICK t \in Threads : Begin(t) \/ Step(t)
  BY DEF Next
<1>2. /\ pc \in [Threads -> {"idle"} \cup LookPCs \cup AddPCs \cup FlushPCs]
      /\ cache \in [Classes -> created \cup {NullCache}] /\ created \subseteq Caches
      /\ gone \in [Caches -> Nat] /\ ptr \in [Threads -> created \cup {NullCache}]
      /\ \A u \in Threads : pc[u] # "idle" => cls[u] \in Classes
      /\ NullCache \notin Caches
  BY ConcurrentAssumption DEF TypeOK
<1> USE DEF Goto, Set, caches, locals
<1>a. CASE UNCHANGED <<cache, gone, fault>>
  BY <1>a DEF CachesIntact
<1>e. ASSUME Fetch(t) PROVE UNCHANGED <<cache, gone, fault>>
  <2>1. gone[ptr[t]] = 0
    BY <1>e DEF Fetch, Owned, Holds
  <2> QED BY <1>e, <2>1 DEF Fetch
<1>h. ASSUME CreateCache(t) PROVE CachesIntact'
  <2>1. PICK h \in Caches \ created : cache' = [cache EXCEPT ![cls[t]] = h]
    BY <1>h DEF CreateCache
  <2>2. gone[h] = 0
    BY DEF Sources
  <2> QED BY <1>2, <1>h, <2>1, <2>2 DEF CreateCache, CachesIntact
<1>i. ASSUME InsertCache(t) PROVE UNCHANGED <<cache, gone, fault>>
  <2>1. ptr[t] # NullCache /\ gone[ptr[t]] = 0
    BY <1>i DEF InsertCache, Owned, Holds
  <2> QED BY <1>i, <2>1 DEF InsertCache
<1>n. ASSUME FlushStore(t) PROVE CachesIntact'
  BY <1>2, <1>n DEF FlushStore, Detached, CachesIntact
<1>o. ASSUME FlushDestroy(t) PROVE CachesIntact'
  <2>1. /\ ptr[t] \in Caches /\ ptr[t] # NullCache /\ gone[ptr[t]] = 0
        /\ cache[cls[t]] = NullCache
        /\ \A c \in Classes : cache[c] = ptr[t] => c = cls[t]
    <3>1. Holds(t) /\ pc[t] = "f_destroy"
      BY <1>o DEF FlushDestroy, Holds
    <3>2. ptr[t] # NullCache
      BY <3>1 DEF Owned
    <3> QED BY <1>2, <3>1, <3>2 DEF Owned
  <2>2. gone' = [gone EXCEPT ![ptr[t]] = 1]
    BY <1>o, <2>1 DEF FlushDestroy
  <2>3. \A c \in Classes : cache[c] # ptr[t]
    BY <1>2, <2>1
  <2> QED BY <1>2, <1>o, <2>1, <2>2, <2>3 DEF FlushDestroy, CachesIntact
<1> QED BY <1>1, <1>a, <1>e, <1>h, <1>i, <1>n, <1>o
        DEF Begin, Step, BeginLookup, BeginAdd, BeginFlush, LoadCache, Climb, TestCache,
            ReloadCache, ReturnMethod, AppendMethod, AskSuper, FlushTest, FlushLoad

LEMMA OwnedStep ==
  ASSUME Basic, Owned, CachesIntact, FlushedByItsUser, Next
  PROVE  Owned'
<1> USE DEF Basic
<1>1. PICK t \in Threads : Begin(t) \/ Step(t)
  BY DEF Next
<1>2. /\ pc \in [Threads -> {"idle"} \cup LookPCs \cup AddPCs \cup FlushPCs]
      /\ cls \in [Threads -> Classes \cup {Nil}]
      /\ cache \in [Classes -> created \cup {NullCache}] /\ created \subseteq Caches
      /\ gone \in [Caches -> Nat] /\ ptr \in [Threads -> created \cup {NullCache}]
      /\ \A u \in Threads : pc[u] # "idle" => cls[u] \in Classes
      /\ NullCache \notin Caches
  BY ConcurrentAssumption DEF TypeOK
<1>5. \A u \in Threads : Holds(u) => ptr[u] # NullCache
  BY DEF Owned
<1>3. \A u \in Threads : u # t /\ pc[t] \in FlushPCs /\ pc[u] \in LookPCs \cup FlushPCs
        => cls[u] # cls[t]
  BY Exclusive
<1>4. \A u \in Threads : u # t /\ pc[u] \in FlushPCs /\ pc[t] \in LookPCs \cup FlushPCs
        => cls[u] # cls[t]
  BY Exclusive
<1> USE DEF Goto, Set, caches, locals
<1>a. ASSUME UNCHANGED <<cache, gone>>,
             \A u \in Threads \ {t} : pc'[u] = pc[u] /\ cls'[u] = cls[u] /\ ptr'[u] = ptr[u],
             ~Holds(t)', pc'[t] \in {"l_reload", "f_load"} => cache[cls'[t]] # NullCache
      PROVE  Owned'
  BY <1>a DEF Owned, Holds
<1>b. ASSUME UNCHANGED <<cache, gone, cls>>, cache[cls[t]] # NullCache,
             \A u \in Threads \ {t} : pc'[u] = pc[u] /\ ptr'[u] = ptr[u],
             pc'[t] \in {"l_fetch", "l_insert", "f_store"}, ptr'[t] = cache[cls[t]], cls[t] \in Classes
      PROVE  Owned'
  <2>1. gone[cache[cls[t]]] = 0
    BY <1>b DEF CachesIntact
  <2> QED BY <1>b, <2>1 DEF Owned, Holds
<1>c. ASSUME UNCHANGED <<cache, gone, pc, cls, ptr>> PROVE Owned'
  BY <1>c DEF Owned, Holds
<1>d. ASSUME LoadCache(t) PROVE Owned'
  <2>1. cls[t] \in Classes
    BY <1>2, <1>d DEF LoadCache
  <2>2. CASE cache[cls[t]] = NullCache
    BY <1>2, <1>a, <1>d, <2>2 DEF LoadCache, NoCacheYet, Holds
  <2>3. CASE cache[cls[t]] # NullCache
    BY <1>2, <1>b, <1>d, <2>1, <2>3 DEF LoadCache, NoCacheYet
  <2> QED BY <2>2, <2>3
<1>e. ASSUME Fetch(t) PROVE Owned'
  BY <1>2, <1>a, <1>c, <1>e DEF Fetch, Faulted, Holds
<1>h. ASSUME CreateCache(t) PROVE Owned'
  <2>1. PICK h \in Caches \ created : cache' = [cache EXCEPT ![cls[t]] = h]
    BY <1>h DEF CreateCache
  <2>2. /\ pc' = [pc EXCEPT ![t] = "l_reload"] /\ UNCHANGED <<gone, cls, ptr>>
        /\ cls[t] \in Classes /\ pc[t] \in LookPCs
    BY <1>2, <1>h DEF CreateCache, LookPCs
  <2>3. \A u \in Threads : pc[u] \in FlushPCs => cls[u] # cls[t]
    BY <1>2, <1>4, <2>2 DEF LookPCs, FlushPCs
  <2> QED BY <1>2, <2>1, <2>2, <2>3 DEF Owned, Holds, FlushPCs
<1>i. ASSUME InsertCache(t) PROVE Owned'
  BY <1>2, <1>a, <1>c, <1>i DEF InsertCache, Faulted, Holds
<1>m. ASSUME FlushLoad(t) \/ ReloadCache(t) PROVE Owned'
  <2>1. /\ cls[t] \in Classes /\ cache[cls[t]] # NullCache /\ UNCHANGED <<cache, gone, cls>>
        /\ pc' \in {[pc EXCEPT ![t] = "f_store"], [pc EXCEPT ![t] = "l_insert"]}
        /\ ptr' = [ptr EXCEPT ![t] = cache[cls[t]]]
    BY <1>2, <1>m DEF FlushLoad, ReloadCache, Owned
  <2> QED BY <1>2, <1>b, <2>1
<1>n. ASSUME FlushStore(t) PROVE Owned'
  <2>1. /\ cache' = [cache EXCEPT ![cls[t]] = NullCache] /\ cls[t] \in Classes
        /\ pc' = [pc EXCEPT ![t] = "f_destroy"] /\ UNCHANGED <<gone, cls, ptr>>
        /\ pc[t] = "f_store"
    BY <1>2, <1>n DEF FlushStore, Detached
  <2>2. \A u \in Threads : u # t /\ pc[u] \in LookPCs \cup FlushPCs => cls[u] # cls[t]
    BY <1>3, <2>1 DEF FlushPCs
  <2> QED BY <1>2, <1>5, <2>1, <2>2 DEF Owned, Holds, LookPCs, FlushPCs
<1>o. ASSUME FlushDestroy(t) PROVE Owned'
  <2>1. /\ gone' = [gone EXCEPT ![ptr[t]] = @ + 1] /\ UNCHANGED cache /\ pc[t] = "f_destroy"
        /\ pc' = [pc EXCEPT ![t] = "idle"] /\ cls' = [cls EXCEPT ![t] = Nil]
        /\ ptr' = [ptr EXCEPT ![t] = NullCache]
    <3>1. pc[t] = "f_destroy" /\ ptr[t] # NullCache
      BY <1>5, <1>o DEF FlushDestroy, Holds
    <3> QED BY <1>o, <3>1 DEF FlushDestroy, Leave
  <2>2. \A u \in Threads : u # t /\ Holds(u) => ptr[u] # ptr[t]
    <3>1. \A u \in Threads : Holds(u) /\ ptr[u] = ptr[t] => cls[u] = cls[t]
      BY <2>1 DEF Owned, Holds
    <3> QED BY <1>3, <2>1, <3>1 DEF Holds, LookPCs, FlushPCs
  <2> QED BY <1>2, <2>1, <2>2 DEF Owned, Holds
<1>p. ASSUME TestCache(t) PROVE Owned'
  BY <1>2, <1>a, <1>p DEF TestCache, Holds
<1>q. ASSUME \/ \E c \in Classes, s \in Sels : BeginLookup(t, c, s)
             \/ \E c \in Classes, m \in Methods : BeginAdd(t, c, m)
             \/ \E c \in Classes : BeginFlush(t, c)
             \/ Climb(t) \/ AppendMethod(t)
      PROVE  Owned'
  <2>1. UNCHANGED <<cache, gone>> /\ UNCHANGED ptr
    BY <1>q DEF BeginLookup, BeginAdd, BeginFlush, Climb, AppendMethod
  <2>2. /\ \E l \in {"l_load", "a_append", "f_test", "l_null", "l_ret", "l_climb", "a_super"} :
             pc' = [pc EXCEPT ![t] = l]
        /\ \E c : cls' = [cls EXCEPT ![t] = c]
    <3>1. CASE Climb(t) \/ AppendMethod(t)
      <4>1. cls' = [cls EXCEPT ![t] = cls[t]]
        BY <1>2, <3>1 DEF Climb, AppendMethod
      <4> QED BY <3>1, <4>1, Zenon DEF Climb, AppendMethod
    <3>2. CASE ~(Climb(t) \/ AppendMethod(t))
      BY <1>q, <3>2, Zenon DEF BeginLookup, BeginAdd, BeginFlush
    <3> QED BY <3>1, <3>2
  <2> QED BY <1>2, <1>a, <2>1, <2>2 DEF Holds
<1>r. ASSUME ReturnMethod(t) \/ AskSuper(t) \/ FlushTest(t) PROVE Owned'
  <2>1. UNCHANGED <<cache, gone>>
    BY <1>r DEF ReturnMethod, AskSuper, FlushTest
  <2>2. CASE Leave(t)
    BY <1>2, <1>a, <2>1, <2>2 DEF Leave, Holds
  <2>3. CASE ~Leave(t)
    <3>1. CASE AskSuper(t)
      BY <1>2, <1>a, <2>1, <2>3, <3>1 DEF AskSuper, Holds
    <3>2. CASE FlushTest(t)
      BY <1>2, <1>a, <2>1, <2>3, <3>2 DEF FlushTest, Holds
    <3> QED BY <1>r, <2>3, <3>1, <3>2 DEF ReturnMethod
  <2> QED BY <2>2, <2>3
<1> QED BY <1>1, <1>d, <1>e, <1>h, <1>i, <1>m, <1>n, <1>o, <1>p, <1>q, <1>r DEF Begin, Step

LEMMA IntactHolds ==
  ASSUME FlushedByItsUser
  PROVE  Spec => [](Basic /\ Owned /\ CachesIntact)
<1>1. Init => Owned /\ CachesIntact
  BY DEF Init, Owned, Holds, CachesIntact
<1>2. Basic /\ Owned /\ CachesIntact /\ [Next]_vars => (Owned /\ CachesIntact)'
  <2>1. ASSUME Owned, CachesIntact, UNCHANGED vars PROVE (Owned /\ CachesIntact)'
    BY <2>1 DEF Owned, CachesIntact, Holds, vars, caches, locals
  <2> QED BY <2>1, IntactStep, OwnedStep
<1> QED BY <1>1, <1>2, BasicHolds, PTL DEF Spec

(* The look-ups and the flush take no lock, and nobody follows the pointer *)
(* of a cache that is NULL or destroyed, destroys one twice or leaves one  *)
(* behind in a class (class.c:231, 357), if the thread that flushes the    *)
(* cache of a class is the only one that uses or flushes it                *)
(* (ThreadsFlush.cfg is a run in which it is not).                         *)
THEOREM CachesStayIntact ==
  ASSUME FlushedByItsUser
  PROVE  Spec => []CachesIntact
BY IntactHolds, PTL

-----------------------------------------------------------------------------
(* Answers, when moreover what overrides is added to leaves.               *)

LEMMA CallIs ==
  ASSUME Basic, NEW t \in Threads
  PROVE  /\ pc[t] \in LookPCs => /\ cls[t] \in Classes /\ sel[t] \in Sels
                                 /\ LooksIn(t, cls[t])
         /\ pc[t] \in AddPCs => /\ cls[t] \in Classes /\ meth[t] \in Methods
                                /\ <<t, cls[t], meth[t]>> \in Adds
<1>1. pc[t] \in LookPCs => <<t, cls[t], sel[t]>> \in Looks
  BY DEF Basic, Calls
<1>2. pc[t] \in AddPCs => <<t, cls[t], meth[t]>> \in Adds
  BY DEF Basic, Calls
<1> QED BY <1>1, <1>2, ConcurrentAssumption DEF LooksIn

LEMMA OverridesDisplaces ==
  ASSUME Basic, NEW c \in Classes, NEW m \in Methods, Overrides(c, m)
  PROVE  Displaces(c, m)
<1>1. own \in [Classes -> Seq(Methods)]
  BY DEF Basic, TypeOK
<1>2. PICK a \in Lineage[c] : a # c /\ MatchIn(own[a], SelOf[m]) # NullMethod
  BY <1>1, OverridesIs
<1>3. Has(a, SelOf[m])
  BY <1>2, Hierarchy, Methodical DEF Basic, Sources
<1> QED BY <1>2, <1>3 DEF Displaces

LEMMA NotPending ==
  ASSUME Basic, FlushedByItsUser, NEW t \in Threads, pc[t] \in LookPCs
  PROVE  ~Pending(cls[t])
<1> SUFFICES ASSUME NEW u \in Threads, cls[u] = cls[t],
                    pc[u] \in FlushPCs \/ (pc[u] = "a_super" /\ Overrides(cls[t], meth[u]))
             PROVE  FALSE
  BY DEF Pending
<1>1. u # t
  BY DEF LookPCs, FlushPCs
<1>2. CASE pc[u] \in FlushPCs
  BY <1>1, <1>2, Exclusive DEF Basic
<1>3. CASE pc[u] = "a_super" /\ Overrides(cls[t], meth[u])
  <2>1. /\ cls[t] \in Classes /\ meth[u] \in Methods
        /\ <<u, cls[t], meth[u]>> \in Adds /\ LooksIn(t, cls[t])
    BY <1>3, CallIs DEF AddPCs
  <2>2. MayFlush(u, cls[t])
    BY <1>3, <2>1, OverridesDisplaces DEF MayFlush
  <2> QED BY <1>1, <2>1, <2>2 DEF FlushedByItsUser
<1> QED BY <1>2, <1>3

(* Who looks in c while t displaces a method of c is t itself. *)
LEMMA WhoDisplaces ==
  ASSUME FlushedByItsUser, OverridesInLeaves,
         NEW t \in Threads, NEW d \in Classes, NEW m \in Methods, <<t, d, m>> \in Adds,
         Displaces(d, m),
         NEW u \in Threads, NEW c \in Classes, LooksIn(u, c), d \in Lineage[c]
  PROVE  u = t /\ c = d
<1>1. c = d
  BY DEF OverridesInLeaves
<1>2. MayFlush(t, d)
  BY DEF MayFlush
<1> QED BY <1>1, <1>2 DEF FlushedByItsUser

(* What an addition may do to an answer that somebody may have cached. *)
LEMMA AppendKeeps ==
  ASSUME Basic, FlushedByItsUser, OverridesInLeaves, NEW t \in Threads, AppendMethod(t),
         NEW u \in Threads, NEW c \in Classes, LooksIn(u, c),
         NEW s \in Sels, Resolve(own, c, s) # NullMethod
  PROVE  \/ Resolve(own', c, s) = Resolve(own, c, s)
         \/ u = t /\ c = cls[t] /\ Overrides(c, meth[t])
<1>1. /\ cls[t] \in Classes /\ meth[t] \in Methods /\ <<t, cls[t], meth[t]>> \in Adds
      /\ own' = [own EXCEPT ![cls[t]] = Append(@, meth[t])]
      /\ own \in [Classes -> Seq(Methods)]
  BY CallIs DEF AppendMethod, AddPCs, Basic, TypeOK
<1>2. SUFFICES ASSUME Resolve(own', c, s) # Resolve(own, c, s)
               PROVE  u = t /\ c = cls[t] /\ Overrides(c, meth[t])
  OBVIOUS
<1>3. /\ SelOf[meth[t]] = s /\ cls[t] \in Lineage[c]
      /\ \E a \in Lineage[cls[t]] : a # cls[t] /\ MatchIn(own[a], s) # NullMethod
  <2>1. \/ Resolve(own', c, s) = Resolve(own, c, s)
        \/ /\ Resolve(own', c, s) = meth[t] /\ SelOf[meth[t]] = s /\ cls[t] \in Lineage[c]
           /\ MatchIn(own[cls[t]], s) = NullMethod
           /\ \/ Resolve(own, c, s) = NullMethod
              \/ \E a \in Lineage[cls[t]] : a # cls[t] /\ MatchIn(own[a], s) # NullMethod
    <3>1. AddsTo(own, own', cls[t], meth[t])
      BY <1>1 DEF AddsTo
    <3> QED BY <3>1, ResolveGrows
  <2> QED BY <1>2, <2>1
<1>4. Overrides(cls[t], meth[t])
  BY <1>1, <1>3, OverridesIs
<1>5. Displaces(cls[t], meth[t])
  BY <1>1, <1>4, OverridesDisplaces
<1>6. u = t /\ c = cls[t]
  BY <1>1, <1>3, <1>5, WhoDisplaces
<1> QED BY <1>4, <1>6

LEMMA OverridesGrows ==
  ASSUME Basic, NEW t \in Threads, AppendMethod(t), NEW c \in Classes, NEW m, Overrides(c, m)
  PROVE  Overrides(c, m)'
<1>1. /\ cls[t] \in Classes /\ meth[t] \in Methods
      /\ own' = [own EXCEPT ![cls[t]] = Append(@, meth[t])]
      /\ own \in [Classes -> Seq(Methods)] /\ own' \in [Classes -> Seq(Methods)]
  <2>1. /\ cls[t] \in Classes /\ meth[t] \in Methods
        /\ own' = [own EXCEPT ![cls[t]] = Append(@, meth[t])]
        /\ own \in [Classes -> Seq(Methods)]
    BY CallIs DEF AppendMethod, AddPCs, Basic, TypeOK
  <2> QED BY <2>1
<1>2. Super[c] # Nil /\ Super[c] \in Classes
      /\ Resolve(own, Super[c], SelOf[m]) # NullMethod
  BY Hierarchy DEF Overrides
<1>3. PICK a \in Lineage[Super[c]] : MatchIn(own[a], SelOf[m]) # NullMethod
  BY <1>1, <1>2, ResolveNone
<1>4. a \in Classes
  BY <1>2, <1>3, Hierarchy
<1>5. MatchIn(own'[a], SelOf[m]) # NullMethod
  <2>1. CASE a # cls[t]
    BY <1>1, <1>3, <1>4, <2>1
  <2>2. CASE a = cls[t]
    BY <1>1, <1>3, <1>4, <2>2, MatchGrows
  <2> QED BY <2>1, <2>2
<1>6. Resolve(own', Super[c], SelOf[m]) # NullMethod
  <2>1. Resolve(own', Super[c], SelOf[m]) = NullMethod
            <=> \A b \in Lineage[Super[c]] : MatchIn(own'[b], SelOf[m]) = NullMethod
    BY <1>1, <1>2, ResolveNone
  <2> QED BY <1>3, <1>5, <2>1
<1> QED BY <1>2, <1>6 DEF Overrides

Steady == Basic /\ Owned /\ CachesIntact

LEMMA CoherentStep ==
  ASSUME Steady, Coherent, Climbs, FlushedByItsUser, OverridesInLeaves, Next
  PROVE  Coherent'
<1> USE DEF Steady
<1>1. PICK t \in Threads : Begin(t) \/ Step(t)
  BY DEF Next
<1>2. /\ pc \in [Threads -> {"idle"} \cup LookPCs \cup AddPCs \cup FlushPCs]
      /\ cls \in [Threads -> Classes \cup {Nil}] /\ sel \in [Threads -> Sels \cup {Nil}]
      /\ cache \in [Classes -> created \cup {NullCache}] /\ created \subseteq Caches
      /\ content \in [Caches -> SUBSET Methods]
      /\ ptr \in [Threads -> created \cup {NullCache}]
      /\ meth \in [Threads -> Methods \cup {NullMethod}]
      /\ own \in [Classes -> Seq(Methods)]
      /\ \A u \in Threads : pc[u] # "idle" => cls[u] \in Classes
      /\ NullCache \notin Caches
  BY ConcurrentAssumption DEF Basic, TypeOK
<1>3. \A u \in Threads : Holds(u) => ptr[u] # NullCache
  BY DEF Owned
<1>4. \A c \in Classes, m \in Methods : own' = own => (Right(c, m) <=> Right(c, m)')
  BY DEF Right
<1>5. \A c \in Classes, m \in Methods : own' = own => (Overrides(c, m) <=> Overrides(c, m)')
  BY DEF Overrides
<1> USE DEF Goto, Set, caches, locals
(* A step of t that changes neither lists nor caches. *)
<1>a. ASSUME UNCHANGED <<own, cache, content>>,
             \A u \in Threads \ {t} : /\ pc'[u] = pc[u] /\ cls'[u] = cls[u]
                                      /\ ptr'[u] = ptr[u] /\ meth'[u] = meth[u],
             \/ pc[t] \notin {"a_super"} \cup FlushPCs
             \/ pc'[t] \in FlushPCs /\ cls'[t] = cls[t]
             \/ pc[t] = "a_super" /\ ~Overrides(cls[t], meth[t])
             \/ cache[cls[t]] = NullCache,
             pc'[t] = "l_fetch" => \A m \in content[ptr'[t]] : Right(cls'[t], m),
             pc'[t] \in {"l_null", "l_create", "l_reload", "l_insert"} => Right(cls'[t], meth'[t])
      PROVE  Coherent'
  <2>1. ASSUME NEW c \in Classes, cache[c] # NullCache, Pending(c) PROVE Pending(c)'
    <3>1. PICK u \in Threads :
            /\ cls[u] = c
            /\ pc[u] \in FlushPCs \/ (pc[u] = "a_super" /\ Overrides(c, meth[u]))
      BY <2>1 DEF Pending
    <3>2. CASE u = t
      BY <1>a, <2>1, <3>1, <3>2 DEF Pending, FlushPCs
    <3>3. CASE u # t
      BY <1>a, <2>1, <3>1, <3>3 DEF Pending, Overrides
    <3> QED BY <3>2, <3>3
  <2>2. ASSUME NEW c \in Classes, cache'[c] # NullCache
        PROVE  Pending(c)' \/ \A m \in content'[cache'[c]] : Right(c, m)'
    BY <1>a, <2>1, <2>2 DEF Coherent, Right
  <2>3. ASSUME NEW u \in Threads
        PROVE  /\ pc'[u] = "l_fetch" => \A m \in content'[ptr'[u]] : Right(cls[u], m)'
               /\ pc'[u] \in {"l_null", "l_create", "l_reload", "l_insert"} => Right(cls[u], meth[u])'
    BY <1>a, <2>3 DEF Coherent, Right
  <2> QED BY <2>2, <2>3 DEF Coherent
<1>b. ASSUME NEW c \in Classes, NEW s \in Sels, BeginLookup(t, c, s) PROVE Coherent'
  BY <1>2, <1>a, <1>b DEF BeginLookup, FlushPCs
<1>c. ASSUME NEW c \in Classes, NEW m \in Methods, BeginAdd(t, c, m) PROVE Coherent'
  BY <1>2, <1>a, <1>c DEF BeginAdd, FlushPCs
<1>d. ASSUME NEW c \in Classes, BeginFlush(t, c) PROVE Coherent'
  BY <1>2, <1>a, <1>d DEF BeginFlush, FlushPCs
<1>e. ASSUME LoadCache(t) PROVE Coherent'
  <2>1. ~Pending(cls[t]) /\ cls[t] \in Classes /\ pc[t] \notin {"a_super"} \cup FlushPCs
    BY <1>2, <1>e, NotPending DEF LoadCache, LookPCs, FlushPCs
  <2>2. cache[cls[t]] # NullCache => \A m \in content[cache[cls[t]]] : Right(cls[t], m)
    BY <2>1 DEF Coherent
  <2> QED BY <1>2, <1>a, <1>e, <2>1, <2>2 DEF LoadCache, NoCacheYet
<1>f. ASSUME Fetch(t) PROVE Coherent'
  <2>1. gone[ptr[t]] = 0
    BY <1>f DEF Fetch, Owned, Holds
  <2>2. /\ UNCHANGED <<own, cache, content, cls, ptr>>
        /\ pc' \in {[pc EXCEPT ![t] = "l_ret"], [pc EXCEPT ![t] = "l_climb"]}
        /\ pc[t] = "l_fetch"
        /\ \A u \in Threads \ {t} : meth'[u] = meth[u]
    BY <1>2, <1>f, <2>1 DEF Fetch
  <2> QED BY <1>2, <1>a, <2>2 DEF FlushPCs
<1>g. ASSUME Climb(t) PROVE Coherent'
  <2> DEFINE m == MatchIn(own[at[t]], sel[t])
  <2>1. /\ cls[t] \in Classes /\ sel[t] \in Sels /\ at[t] \in Lineage[cls[t]]
        /\ pc[t] = "l_climb"
    BY <1>g, CallIs DEF Climb, LookPCs, Basic, Calls
  <2>2. ASSUME m # NullMethod PROVE Right(cls[t], m)
    <3>1. m \in Methods /\ SelOf[m] = sel[t] /\ at[t] \in Classes
      BY <1>2, <2>1, <2>2, Hierarchy, MatchType
    <3>2. Has(at[t], sel[t]) /\ at[t] \in Lineage[at[t]]
      BY <2>1, <2>2, <3>1, Hierarchy DEF Basic, Sources
    <3>3. \A e \in Lineage[cls[t]] : e \in Lineage[at[t]] \/ MatchIn(own[e], sel[t]) = NullMethod
      BY <2>1, <3>2 DEF Climbs, Passed
    <3>4. Resolve(own, cls[t], sel[t]) = m
      BY <2>1, <2>2, <3>3, ResolveBy
    <3> QED BY <3>1, <3>4 DEF Right
  <2>3. /\ meth' = [meth EXCEPT ![t] = m] /\ UNCHANGED <<own, cache, content, cls, ptr>>
        /\ pc' = [pc EXCEPT ![t] = IF m # NullMethod THEN "l_null"
                                   ELSE IF NextClass(at[t]) = Nil THEN "l_ret" ELSE "l_climb"]
    BY <1>g DEF Climb
  <2> HIDE DEF m
  <2> QED BY <1>2, <1>a, <2>1, <2>2, <2>3 DEF FlushPCs
<1>h. ASSUME TestCache(t) \/ ReloadCache(t) PROVE Coherent'
  <2>1. Right(cls[t], meth[t])
    BY <1>h DEF TestCache, ReloadCache, Coherent
  <2> QED BY <1>2, <1>a, <1>h, <2>1 DEF TestCache, ReloadCache, FlushPCs
<1>i. ASSUME CreateCache(t) PROVE Coherent'
  <2>1. PICK h \in Caches \ created : cache' = [cache EXCEPT ![cls[t]] = h]
    BY <1>i DEF CreateCache
  <2>2. /\ pc' = [pc EXCEPT ![t] = "l_reload"] /\ UNCHANGED <<own, content, cls, ptr, meth>>
        /\ cls[t] \in Classes /\ pc[t] = "l_create"
    BY <1>2, <1>i DEF CreateCache
  <2>3. content[h] = {}
    BY DEF Basic, Sources
  <2>4. ASSUME NEW c \in Classes, Pending(c) PROVE Pending(c)'
    BY <1>2, <2>2, <2>4 DEF Pending, Overrides, FlushPCs
  <2>5. ASSUME NEW c \in Classes, cache'[c] # NullCache
        PROVE  Pending(c)' \/ \A m \in content'[cache'[c]] : Right(c, m)'
    BY <1>2, <2>1, <2>2, <2>3, <2>4, <2>5 DEF Coherent, Right
  <2>6. ASSUME NEW u \in Threads
        PROVE  /\ pc'[u] = "l_fetch" => \A m \in content'[ptr'[u]] : Right(cls[u], m)'
               /\ pc'[u] \in {"l_null", "l_create", "l_reload", "l_insert"} => Right(cls[u], meth[u])'
    BY <1>2, <2>2, <2>6 DEF Coherent, Right
  <2> QED BY <2>5, <2>6 DEF Coherent
<1>j. ASSUME InsertCache(t) PROVE Coherent'
  <2> DEFINE h == ptr[t]
  <2>1. cls[t] \in Classes /\ pc[t] = "l_insert" /\ Holds(t)
    BY <1>2, <1>j DEF InsertCache, Holds
  <2>2. h # NullCache /\ gone[h] = 0 /\ h \in Caches
    BY <1>2, <2>1 DEF Owned
  <2>3. /\ content' = [content EXCEPT ![h] = @ \cup {meth[t]}]
        /\ pc' = [pc EXCEPT ![t] = "l_ret"] /\ UNCHANGED <<own, cache, cls, ptr, meth>>
    BY <1>j, <2>1, <2>2 DEF InsertCache
  <2>4. Right(cls[t], meth[t])
    BY <2>1 DEF Coherent
  <2>5. \A c \in Classes : cache[c] = h => c = cls[t]
    BY <2>1 DEF Owned
  <2>6. \A u \in Threads : pc[u] = "l_fetch" /\ ptr[u] = h => cls[t] = cls[u]
    BY <2>1 DEF Owned, Holds
  <2>7. ASSUME NEW c \in Classes, Pending(c) PROVE Pending(c)'
    BY <1>2, <2>1, <2>3, <2>7 DEF Pending, Overrides, FlushPCs
  <2> HIDE DEF h
  <2>8. ASSUME NEW c \in Classes, cache'[c] # NullCache
        PROVE  Pending(c)' \/ \A m \in content'[cache'[c]] : Right(c, m)'
    <3>1. content'[cache[c]] = content[cache[c]] \/ (c = cls[t] /\ cache[c] = h)
      BY <1>2, <2>2, <2>3, <2>5, <2>8
    <3> QED BY <1>2, <2>2, <2>3, <2>4, <2>7, <2>8, <3>1 DEF Coherent, Right
  <2>9. ASSUME NEW u \in Threads
        PROVE  /\ pc'[u] = "l_fetch" => \A m \in content'[ptr'[u]] : Right(cls[u], m)'
               /\ pc'[u] \in {"l_null", "l_create", "l_reload", "l_insert"} => Right(cls[u], meth[u])'
    <3>1. ASSUME pc'[u] = "l_fetch" PROVE \A m \in content'[ptr'[u]] : Right(cls[u], m)'
      <4>1. pc[u] = "l_fetch" /\ ptr[u] \in Caches
        BY <1>2, <1>3, <2>3, <3>1 DEF Holds
      <4>2. \A m \in content[ptr[u]] : Right(cls[u], m)
        BY <4>1 DEF Coherent
      <4>3. \A m \in content'[ptr[u]] : m \in content[ptr[u]] \/ (m = meth[t] /\ cls[u] = cls[t])
        BY <1>2, <2>2, <2>3, <2>6, <4>1
      <4> QED BY <2>3, <2>4, <4>2, <4>3 DEF Right
    <3>2. ASSUME pc'[u] \in {"l_null", "l_create", "l_reload", "l_insert"} PROVE Right(cls[u], meth[u])'
      BY <1>2, <2>3, <3>2 DEF Coherent, Right
    <3> QED BY <3>1, <3>2
  <2> QED BY <2>8, <2>9 DEF Coherent
<1>k. ASSUME ReturnMethod(t) PROVE Coherent'
  BY <1>2, <1>a, <1>k DEF ReturnMethod, Leave, FlushPCs
<1>l. ASSUME AppendMethod(t) PROVE Coherent'
  <2>1. /\ UNCHANGED <<cache, content, cls, ptr, meth>> /\ pc[t] = "a_append"
        /\ pc' = [pc EXCEPT ![t] = "a_super"]
    BY <1>l DEF AppendMethod
  <2>2. ASSUME NEW u \in Threads, NEW c \in Classes, LooksIn(u, c),
               NEW m \in Methods, Right(c, m)
        PROVE  Right(c, m)' \/ (u = t /\ c = cls[t] /\ Overrides(c, meth[t]))
    <3>1. SelOf[m] \in Sels /\ Resolve(own, c, SelOf[m]) # NullMethod
      BY <2>2, Methodical DEF Right
    <3>2. \/ Resolve(own', c, SelOf[m]) = Resolve(own, c, SelOf[m])
          \/ u = t /\ c = cls[t] /\ Overrides(c, meth[t])
      BY <1>l, <2>2, <3>1, AppendKeeps
    <3> QED BY <2>2, <3>2 DEF Right
  <2>3. ASSUME NEW c \in Classes, Pending(c) PROVE Pending(c)'
    <3>1. PICK u \in Threads :
            /\ cls[u] = c
            /\ pc[u] \in FlushPCs \/ (pc[u] = "a_super" /\ Overrides(c, meth[u]))
      BY <2>3 DEF Pending
    <3>2. pc'[u] = pc[u] /\ cls'[u] = c /\ meth'[u] = meth[u]
      BY <1>2, <2>1, <3>1 DEF FlushPCs
    <3>3. Overrides(c, meth[u]) => Overrides(c, meth[u])'
      BY <1>l, <2>1, OverridesGrows
    <3> QED BY <3>1, <3>2, <3>3 DEF Pending
  <2>4. ASSUME NEW c \in Classes, cache'[c] # NullCache
        PROVE  Pending(c)' \/ \A m \in content'[cache'[c]] : Right(c, m)'
    <3>1. PICK u \in Threads : LooksIn(u, c)
      BY <2>1, <2>4 DEF Basic, Sources
    <3>2. CASE Pending(c)
      BY <2>3, <3>2
    <3>3. CASE c = cls[t] /\ Overrides(c, meth[t])
      <4>1. Overrides(c, meth[t])'
        BY <1>l, <2>1, <3>3, OverridesGrows
      <4> QED BY <1>2, <2>1, <3>3, <4>1 DEF Pending
    <3>4. CASE ~Pending(c) /\ ~(c = cls[t] /\ Overrides(c, meth[t]))
      <4>1. \A m \in content[cache[c]] : m \in Methods /\ Right(c, m)
        BY <1>2, <2>1, <2>4, <3>4 DEF Coherent
      <4>2. \A m \in content[cache[c]] : Right(c, m)'
        BY <2>2, <3>1, <3>4, <4>1
      <4> QED BY <2>1, <4>2
    <3> QED BY <3>2, <3>3, <3>4
  <2>5. ASSUME NEW u \in Threads
        PROVE  /\ pc'[u] = "l_fetch" => \A m \in content'[ptr'[u]] : Right(cls[u], m)'
               /\ pc'[u] \in {"l_null", "l_create", "l_reload", "l_insert"} => Right(cls[u], meth[u])'
    <3>1. ASSUME pc'[u] \in {"l_fetch", "l_null", "l_create", "l_reload", "l_insert"}
          PROVE  pc[u] = pc'[u] /\ u # t /\ LooksIn(u, cls[u]) /\ cls[u] \in Classes
      <4>1. pc[u] = pc'[u] /\ u # t /\ pc[u] \in LookPCs
        BY <1>2, <2>1, <3>1 DEF LookPCs
      <4> QED BY <4>1, CallIs
    <3>2. ASSUME pc'[u] = "l_fetch" PROVE \A m \in content'[ptr'[u]] : Right(cls[u], m)'
      <4>1. ptr[u] \in Caches /\ \A m \in content[ptr[u]] : Right(cls[u], m)
        BY <1>2, <1>3, <3>1, <3>2 DEF Coherent, Holds
      <4>2. \A m \in content[ptr[u]] : m \in Methods /\ Right(cls[u], m)
        BY <1>2, <4>1
      <4>3. \A m \in content[ptr[u]] : m \in Methods /\ m = Resolve(own', cls[u], SelOf[m])
        BY <2>2, <3>1, <3>2, <4>2 DEF Right
      <4> QED BY <2>1, <4>3 DEF Right
    <3>3. ASSUME pc'[u] \in {"l_null", "l_create", "l_reload", "l_insert"} PROVE Right(cls[u], meth[u])'
      <4>1. meth[u] \in Methods /\ Right(cls[u], meth[u])
        BY <3>1, <3>3 DEF Coherent, Basic, Calls
      <4>2. meth[u] = Resolve(own', cls[u], SelOf[meth[u]])
        BY <2>2, <3>1, <3>3, <4>1 DEF Right
      <4> QED BY <2>1, <4>2 DEF Right
    <3> QED BY <3>2, <3>3
  <2> QED BY <2>4, <2>5 DEF Coherent
<1>m. ASSUME AskSuper(t) PROVE Coherent'
  <2>1. CASE Overrides(cls[t], meth[t])
    BY <1>2, <1>a, <1>m, <2>1 DEF AskSuper, FlushPCs
  <2>2. CASE ~Overrides(cls[t], meth[t])
    <3>1. Leave(t) /\ UNCHANGED <<own, caches>> /\ pc[t] = "a_super"
      BY <1>m, <2>2 DEF AskSuper
    <3> QED BY <1>2, <1>a, <2>2, <3>1 DEF Leave
  <2> QED BY <2>1, <2>2
<1>n. ASSUME FlushTest(t) \/ FlushLoad(t) PROVE Coherent'
  <2>1. CASE FlushTest(t) /\ cache[cls[t]] = NullCache
    <3>1. Leave(t) /\ UNCHANGED <<own, caches>>
      BY <2>1 DEF FlushTest
    <3> QED BY <1>2, <1>a, <2>1, <3>1 DEF Leave
  <2>2. CASE FlushTest(t) /\ cache[cls[t]] # NullCache
    BY <1>2, <1>a, <2>2 DEF FlushTest, FlushPCs
  <2>3. CASE FlushLoad(t)
    BY <1>2, <1>a, <2>3 DEF FlushLoad, FlushPCs
  <2> QED BY <1>n, <2>1, <2>2, <2>3
<1>o. ASSUME FlushStore(t) PROVE Coherent'
  <2>1. /\ cache' = [cache EXCEPT ![cls[t]] = NullCache] /\ cls[t] \in Classes
        /\ pc' = [pc EXCEPT ![t] = "f_destroy"] /\ pc[t] = "f_store"
        /\ UNCHANGED <<own, content, cls, ptr, meth>>
    BY <1>2, <1>o DEF FlushStore, Detached
  <2>2. ASSUME NEW c \in Classes, Pending(c) PROVE Pending(c)'
    BY <1>2, <2>1, <2>2 DEF Pending, Overrides, FlushPCs
  <2>3. ASSUME NEW c \in Classes, cache'[c] # NullCache
        PROVE  Pending(c)' \/ \A m \in content'[cache'[c]] : Right(c, m)'
    BY <1>2, <2>1, <2>2, <2>3 DEF Coherent, Right
  <2>4. ASSUME NEW u \in Threads
        PROVE  /\ pc'[u] = "l_fetch" => \A m \in content'[ptr'[u]] : Right(cls[u], m)'
               /\ pc'[u] \in {"l_null", "l_create", "l_reload", "l_insert"} => Right(cls[u], meth[u])'
    BY <1>2, <2>1, <2>4 DEF Coherent, Right
  <2> QED BY <2>3, <2>4 DEF Coherent
<1>p. ASSUME FlushDestroy(t) PROVE Coherent'
  <2>1. /\ content' = [content EXCEPT ![ptr[t]] = {}] /\ pc[t] = "f_destroy"
        /\ Leave(t) /\ UNCHANGED <<own, cache>>
    BY <1>3, <1>p DEF FlushDestroy, Holds
  <2>2. /\ cls[t] \in Classes /\ cache[cls[t]] = NullCache /\ ptr[t] \in Caches
    BY <1>2, <1>3, <2>1 DEF Owned, Holds
  <2>3. \A h \in Caches : content'[h] \subseteq content[h]
    BY <1>2, <2>1
  <2>4. \A u \in Threads \ {t} : /\ pc'[u] = pc[u] /\ cls'[u] = cls[u] /\ ptr'[u] = ptr[u]
                                 /\ meth'[u] = meth[u]
    BY <1>2, <2>1 DEF Leave
  <2>5. ASSUME NEW c \in Classes, cache[c] # NullCache, Pending(c) PROVE Pending(c)'
    BY <2>1, <2>2, <2>4, <2>5 DEF Pending, Overrides
  <2>6. ASSUME NEW c \in Classes, cache'[c] # NullCache
        PROVE  Pending(c)' \/ \A m \in content'[cache'[c]] : Right(c, m)'
    <3>1. cache[c] \in Caches
      BY <1>2, <2>1, <2>6
    <3> QED BY <2>1, <2>3, <2>5, <2>6, <3>1 DEF Coherent, Right
  <2>7. ASSUME NEW u \in Threads
        PROVE  /\ pc'[u] = "l_fetch" => \A m \in content'[ptr'[u]] : Right(cls[u], m)'
               /\ pc'[u] \in {"l_null", "l_create", "l_reload", "l_insert"} => Right(cls[u], meth[u])'
    <3>1. CASE u = t
      BY <1>2, <2>1, <3>1 DEF Leave
    <3>2. CASE u # t
      <4>1. pc[u] = "l_fetch" => ptr[u] \in Caches
        BY <1>2, <1>3 DEF Holds
      <4> QED BY <2>1, <2>3, <2>4, <3>2, <4>1 DEF Coherent, Right
    <3> QED BY <3>1, <3>2
  <2> QED BY <2>6, <2>7 DEF Coherent
<1> QED BY <1>1, <1>b, <1>c, <1>d, <1>e, <1>f, <1>g, <1>h, <1>i, <1>j, <1>k, <1>l,
           <1>m, <1>n, <1>o, <1>p DEF Begin, Step

LEMMA ClimbsStep ==
  ASSUME Steady, Coherent, Climbs, FlushedByItsUser, OverridesInLeaves, Next
  PROVE  Climbs'
<1> USE DEF Steady
<1>1. PICK t \in Threads : Begin(t) \/ Step(t)
  BY DEF Next
<1>2. /\ pc \in [Threads -> {"idle"} \cup LookPCs \cup AddPCs \cup FlushPCs]
      /\ cls \in [Threads -> Classes \cup {Nil}] /\ sel \in [Threads -> Sels \cup {Nil}]
      /\ at \in [Threads -> Classes \cup {Nil}]
      /\ ptr \in [Threads -> created \cup {NullCache}]
      /\ meth \in [Threads -> Methods \cup {NullMethod}]
      /\ current \in [Threads -> SUBSET (Methods \cup {NullMethod})]
      /\ content \in [Caches -> SUBSET Methods] /\ created \subseteq Caches
      /\ own \in [Classes -> Seq(Methods)]
  BY DEF Basic, TypeOK
<1> DEFINE Good(u) ==
      /\ pc[u] \in LookPCs => Resolve(own, cls[u], sel[u]) \in current[u]
      /\ pc[u] \in {"l_fetch", "l_climb"} =>
           \/ \A e \in Passed(u) : MatchIn(own[e], sel[u]) = NullMethod
           \/ /\ \A a \in Lineage[at[u]] : ~Has(a, sel[u])
              /\ NullMethod \in current[u]
      /\ pc[u] = "l_ret" => meth[u] \in current[u]
<1>3. (Climbs <=> \A u \in Threads : Good(u)) /\ (Climbs' <=> \A u \in Threads : Good(u)')
  BY DEF Climbs
<1> USE DEF Goto, Set, caches, locals
<1>a. ASSUME UNCHANGED own,
             \A u \in Threads \ {t} :
                /\ pc'[u] = pc[u] /\ cls'[u] = cls[u] /\ sel'[u] = sel[u] /\ at'[u] = at[u]
                /\ meth'[u] = meth[u] /\ current'[u] = current[u],
             Good(t)'
      PROVE  Climbs'
  <2>1. ASSUME NEW u \in Threads \ {t} PROVE Good(u)'
    <3>1. Good(u)
      BY <1>3
    <3> QED BY <1>a, <2>1, <3>1 DEF Passed
  <2> QED BY <1>3, <1>a, <2>1
<1>b. ASSUME NEW c \in Classes, NEW s \in Sels, BeginLookup(t, c, s) PROVE Climbs'
  <2>1. Good(t)'
    BY <1>2, <1>b DEF BeginLookup
  <2> QED BY <1>2, <1>a, <1>b, <2>1 DEF BeginLookup
<1>c. ASSUME \/ \E c \in Classes, m \in Methods : BeginAdd(t, c, m)
             \/ \E c \in Classes : BeginFlush(t, c)
             \/ ReturnMethod(t) \/ AskSuper(t) \/ FlushTest(t) \/ FlushLoad(t)
             \/ FlushStore(t) \/ FlushDestroy(t)
      PROVE  Climbs'
  <2>0. FlushDestroy(t) => ptr[t] # NullCache
    BY DEF FlushDestroy, Owned, Holds
  <2>1. pc'[t] \notin LookPCs
    <3>1. \E l \in {"idle", "a_append", "f_test", "f_load", "f_store", "f_destroy"} :
            pc' = [pc EXCEPT ![t] = l]
      BY <1>c, <2>0, Zenon DEF BeginAdd, BeginFlush, ReturnMethod, AskSuper, FlushTest, FlushLoad,
                      FlushStore, FlushDestroy, Leave
    <3> QED BY <1>2, <3>1 DEF LookPCs
  <2>2. Good(t)'
    BY <2>1 DEF LookPCs
  <2>3. CASE Leave(t)
    BY <1>2, <1>a, <1>c, <2>0, <2>2, <2>3
       DEF BeginAdd, BeginFlush, ReturnMethod, AskSuper, FlushTest, FlushLoad, FlushStore,
           FlushDestroy, Leave
  <2>4. CASE ~Leave(t)
    BY <1>2, <1>a, <1>c, <2>0, <2>2, <2>4
       DEF BeginAdd, BeginFlush, ReturnMethod, AskSuper, FlushTest, FlushLoad, FlushStore,
           FlushDestroy
  <2> QED BY <2>3, <2>4
<1>d. ASSUME LoadCache(t) PROVE Climbs'
  <2>1. /\ UNCHANGED <<own, cls, sel, current, meth>> /\ at'[t] = cls[t]
        /\ pc'[t] \in {"l_climb", "l_fetch"} /\ pc[t] \in LookPCs
    BY <1>2, <1>d DEF LoadCache, LookPCs
  <2>2. Good(t)'
    BY <1>3, <2>1 DEF Passed
  <2> QED BY <1>2, <1>a, <1>d, <2>1, <2>2 DEF LoadCache
<1>e. ASSUME Fetch(t) PROVE Climbs'
  <2>1. gone[ptr[t]] = 0 /\ pc[t] = "l_fetch" /\ ptr[t] \in Caches
    <3>1. Holds(t)
      BY <1>e DEF Fetch, Holds
    <3>2. ptr[t] # NullCache
      BY <3>1 DEF Owned
    <3> QED BY <1>2, <1>e, <3>1, <3>2 DEF Fetch, Owned
  <2>2. UNCHANGED <<own, cls, sel, at, current>> /\ pc[t] \in LookPCs
    BY <1>e, <2>1 DEF Fetch, LookPCs
  <2>3. Good(t)
    BY <1>3
  <2>4. CASE pc' = [pc EXCEPT ![t] = "l_climb"] /\ UNCHANGED meth
    <3>1. Good(t)'
      BY <1>2, <2>1, <2>2, <2>3, <2>4 DEF Passed
    <3> QED BY <1>2, <1>a, <2>2, <2>4, <3>1
  <2>5. CASE /\ pc' = [pc EXCEPT ![t] = "l_ret"]
             /\ \E m \in HitsIn(ptr[t], sel[t]) : meth' = [meth EXCEPT ![t] = m]
    <3>1. PICK m \in content[ptr[t]] : SelOf[m] = sel[t] /\ meth' = [meth EXCEPT ![t] = m]
      BY <2>5 DEF HitsIn
    <3>2. Right(cls[t], m)
      BY <2>1 DEF Coherent
    <3>3. m \in current[t]
      BY <2>2, <2>3, <3>1, <3>2 DEF Right
    <3>4. Good(t)'
      BY <1>2, <2>2, <2>3, <2>5, <3>1, <3>3
    <3> QED BY <1>2, <1>a, <2>2, <2>5, <3>1, <3>4
  <2> QED BY <1>e, <2>1, <2>4, <2>5 DEF Fetch
<1>f. ASSUME Climb(t) PROVE Climbs'
  <2> DEFINE m == MatchIn(own[at[t]], sel[t])
  <2>1. /\ cls[t] \in Classes /\ sel[t] \in Sels /\ at[t] \in Lineage[cls[t]]
        /\ pc[t] = "l_climb" /\ pc[t] \in LookPCs
    BY <1>f, CallIs DEF Climb, LookPCs, Basic, Calls
  <2>2. /\ meth' = [meth EXCEPT ![t] = m] /\ UNCHANGED <<own, cls, sel, current>>
        /\ at' = IF m = NullMethod THEN [at EXCEPT ![t] = Super[at[t]]] ELSE at
        /\ pc' = [pc EXCEPT ![t] = IF m # NullMethod THEN "l_null"
                                   ELSE IF Super[at[t]] = Nil THEN "l_ret" ELSE "l_climb"]
    BY <1>f DEF Climb, NextClass
  <2>3. Good(t)
    BY <1>3
  <2>4. /\ at[t] \in Classes
        /\ Super[at[t]] = Nil => Lineage[at[t]] = {at[t]}
        /\ Super[at[t]] # Nil => Lineage[at[t]] = {at[t]} \cup Lineage[Super[at[t]]]
    <3>1. at[t] \in Classes
      BY <2>1, Hierarchy
    <3> QED BY <3>1, Hierarchy
  <2>5. CASE m # NullMethod
    <3>1. Good(t)'
      BY <1>2, <2>1, <2>2, <2>3, <2>5
    <3> QED BY <1>2, <1>a, <2>2, <2>5, <3>1
  <2>6. CASE m = NullMethod /\ Super[at[t]] # Nil
    <3>1. pc'[t] = "l_climb" /\ at'[t] = Super[at[t]]
      BY <1>2, <2>2, <2>6
    <3>2. ASSUME \A e \in Passed(t) : MatchIn(own[e], sel[t]) = NullMethod
          PROVE  \A e \in Passed(t)' : MatchIn(own[e], sel[t]) = NullMethod
      BY <2>2, <2>4, <2>6, <3>1, <3>2 DEF Passed
    <3>3. Good(t)'
      BY <2>1, <2>2, <2>3, <2>4, <2>6, <3>1, <3>2
    <3> QED BY <1>2, <1>a, <2>2, <2>6, <3>3
  <2>7. CASE m = NullMethod /\ Super[at[t]] = Nil
    <3>1. NullMethod \in current[t]
      <4>1. CASE \A e \in Passed(t) : MatchIn(own[e], sel[t]) = NullMethod
        <5>1. \A e \in Lineage[cls[t]] : MatchIn(own[e], sel[t]) = NullMethod
          BY <2>4, <2>7, <4>1 DEF Passed
        <5>2. Resolve(own, cls[t], sel[t]) = NullMethod
          BY <1>2, <2>1, <5>1, ResolveNone
        <5> QED BY <2>1, <2>3, <5>2
      <4> QED BY <2>1, <2>3, <4>1
    <3>2. Good(t)'
      BY <1>2, <2>1, <2>2, <2>3, <2>7, <3>1
    <3> QED BY <1>2, <1>a, <2>2, <2>7, <3>2
  <2> QED BY <2>5, <2>6, <2>7
<1>g. ASSUME TestCache(t) \/ CreateCache(t) \/ ReloadCache(t) PROVE Climbs'
  <2>1. /\ UNCHANGED <<own, cls, sel, at, meth, current>> /\ pc[t] \in LookPCs
        /\ pc' \in {[pc EXCEPT ![t] = l] : l \in {"l_create", "l_reload", "l_insert"}}
    BY <1>g DEF TestCache, CreateCache, ReloadCache, LookPCs
  <2>2. Good(t)
    BY <1>3
  <2>3. Good(t)'
    BY <1>2, <2>1, <2>2
  <2> QED BY <1>2, <1>a, <2>1, <2>3
<1>h. ASSUME InsertCache(t) PROVE Climbs'
  <2>1. pc[t] = "l_insert" /\ cls[t] \in Classes /\ Holds(t)
    BY <1>h, CallIs DEF InsertCache, Holds, LookPCs
  <2>2. ptr[t] # NullCache /\ gone[ptr[t]] = 0
    BY <2>1 DEF Owned
  <2>3. pc' = [pc EXCEPT ![t] = "l_ret"] /\ UNCHANGED <<own, cls, sel, at, meth, current>>
    BY <1>h, <2>1, <2>2 DEF InsertCache
  <2>4. Right(cls[t], meth[t]) /\ SelOf[meth[t]] = sel[t]
    BY <2>1 DEF Coherent, Basic, Calls
  <2>5. Good(t) /\ pc[t] \in LookPCs
    BY <1>3, <2>1 DEF LookPCs
  <2>6. Good(t)'
    BY <1>2, <2>3, <2>4, <2>5 DEF Right
  <2> QED BY <1>2, <1>a, <2>3, <2>6
<1>i. ASSUME AppendMethod(t) PROVE Climbs'
  <2>1. /\ cls[t] \in Classes /\ meth[t] \in Methods /\ <<t, cls[t], meth[t]>> \in Adds
        /\ pc[t] = "a_append" /\ pc' = [pc EXCEPT ![t] = "a_super"]
        /\ UNCHANGED <<cls, sel, at, meth>>
        /\ AddsTo(own, own', cls[t], meth[t])
    <3>1. /\ cls[t] \in Classes /\ meth[t] \in Methods /\ <<t, cls[t], meth[t]>> \in Adds
      BY <1>i, CallIs DEF AppendMethod, AddPCs
    <3> QED BY <1>2, <1>i, <3>1 DEF AppendMethod, AddsTo
  <2>2. /\ \A u \in Threads : current[u] \subseteq current'[u]
        /\ \A u \in Threads : pc[u] \in LookPCs => Resolve(own', cls[u], sel[u]) \in current'[u]
    BY <1>i DEF AppendMethod
  <2>3. ASSUME NEW u \in Threads, u # t, pc[u] \in {"l_fetch", "l_climb"}
        PROVE  \/ \A e \in Passed(u) : MatchIn(own'[e], sel[u]) = NullMethod
               \/ /\ \A a \in Lineage[at[u]] : ~Has(a, sel[u])
                  /\ NullMethod \in current'[u]
    <3>1. /\ Good(u) /\ pc[u] \in LookPCs
          /\ cls[u] \in Classes /\ LooksIn(u, cls[u]) /\ at[u] \in Lineage[cls[u]]
      BY <1>3, <2>3, CallIs DEF LookPCs, Basic, Calls
    <3> DEFINE d == cls[t]
    <3>2. CASE /\ \A e \in Passed(u) : MatchIn(own[e], sel[u]) = NullMethod
               /\ \E e \in Passed(u) : MatchIn(own'[e], sel[u]) # NullMethod
      <4>1. d \in Passed(u) /\ SelOf[meth[t]] = sel[u]
        <5>1. PICK e \in Passed(u) : MatchIn(own'[e], sel[u]) # NullMethod
          BY <3>2
        <5>2. e \in Classes /\ MatchIn(own[e], sel[u]) = NullMethod
          BY <3>1, <3>2, <5>1, Hierarchy DEF Passed
        <5>3. e = d
          BY <2>1, <5>1, <5>2 DEF AddsTo
        <5>4. SelOf[meth[t]] = sel[u]
          <6>1. own'[e] = Append(own[e], meth[t]) /\ own[e] \in Seq(Methods)
            BY <2>1, <5>3 DEF AddsTo
          <6>2. MatchIn(own'[e], sel[u]) =
                  IF MatchIn(own[e], sel[u]) # NullMethod THEN MatchIn(own[e], sel[u])
                  ELSE IF SelOf[meth[t]] = sel[u] THEN meth[t] ELSE NullMethod
            BY <2>1, <6>1, MatchGrows
          <6> QED BY <5>1, <5>2, <6>2
        <5> QED BY <5>1, <5>3, <5>4
      <4>2. d \in Lineage[cls[u]] /\ d \notin Lineage[at[u]]
        BY <4>1 DEF Passed
      <4>3. at[u] \in Lineage[d]
        BY <3>1, <4>2, LineageLinear
      <4>4. ASSUME NEW a \in Lineage[at[u]], Has(a, sel[u]) PROVE FALSE
        <5>1. a \in Lineage[d] /\ a # d
          BY <2>1, <4>2, <4>3, <4>4, LineageTransitive
        <5>2. Displaces(d, meth[t])
          BY <4>1, <4>4, <5>1 DEF Displaces
        <5> QED BY <2>1, <2>3, <3>1, <4>2, <5>2, WhoDisplaces
      <4>5. \A a \in Lineage[at[u]] : MatchIn(own[a], sel[u]) = NullMethod
        <5>1. at[u] \in Classes /\ sel[u] \in Sels
          BY <3>1, Hierarchy, CallIs
        <5> QED BY <4>4, <5>1, Hierarchy DEF Basic, Sources
      <4>6. \A a \in Lineage[cls[u]] : MatchIn(own[a], sel[u]) = NullMethod
        BY <3>2, <4>5 DEF Passed
      <4>7. Resolve(own, cls[u], sel[u]) = NullMethod
        BY <1>2, <3>1, <4>6, ResolveNone
      <4> QED BY <2>2, <3>1, <4>4, <4>7
    <3> QED BY <2>2, <2>3, <3>1, <3>2
  <2>4. ASSUME NEW u \in Threads PROVE Good(u)'
    <3>1. CASE u = t
      BY <1>2, <2>1, <3>1 DEF LookPCs
    <3>2. CASE u # t
      <4>1. Good(u) /\ pc'[u] = pc[u]
        BY <1>2, <1>3, <2>1, <3>2
      <4> QED BY <2>1, <2>2, <2>3, <3>2, <4>1 DEF Passed
    <3> QED BY <3>1, <3>2
  <2> QED BY <1>3, <2>4
<1> QED BY <1>1, <1>b, <1>c, <1>d, <1>e, <1>f, <1>g, <1>h, <1>i DEF Begin, Step

LEMMA CoherenceHolds ==
  ASSUME FlushedByItsUser, OverridesInLeaves
  PROVE  Spec => [](Steady /\ Coherent /\ Climbs)
<1>1. Init => Coherent /\ Climbs
  BY DEF Init, Coherent, Climbs, LookPCs
<1>2. Steady /\ Coherent /\ Climbs /\ [Next]_vars => (Coherent /\ Climbs)'
  <2>1. ASSUME Coherent, Climbs, UNCHANGED vars PROVE (Coherent /\ Climbs)'
    BY <2>1 DEF Coherent, Climbs, Pending, Overrides, Right, Passed, vars, caches, locals
  <2> QED BY <2>1, CoherentStep, ClimbsStep
<1>3. Spec => []Steady
  BY IntactHolds, PTL DEF Steady
<1> QED BY <1>1, <1>2, <1>3, PTL DEF Spec

(* Though a look-up reads the cache and the lists of the classes at        *)
(* different instants, while methods are added (class.c:295), it answers   *)
(* with what the climb would have found at one instant of the call.        *)
THEOREM AnswersAreCurrent ==
  ASSUME FlushedByItsUser, OverridesInLeaves
  PROVE  Spec => []AnswerIsCurrent
<1>1. Climbs => AnswerIsCurrent
  BY DEF Climbs, AnswerIsCurrent
<1> QED BY <1>1, CoherenceHolds, PTL

(* What a cache holds is what the climb would find, except while the       *)
(* thread that has displaced it is about to flush (class.c:736): no        *)
(* look-up writes an outdated method into a cache behind the flush.        *)
THEOREM CachesStayCurrent ==
  ASSUME FlushedByItsUser, OverridesInLeaves
  PROVE  Spec => []CachesCurrent
<1>1. Steady /\ Coherent => CachesCurrent
  <2>1. ASSUME NEW c \in Classes, Pending(c) PROVE Displacing(c)
    BY <2>1, Hierarchy DEF Pending, Displacing
  <2> QED BY <2>1 DEF Coherent, CachesCurrent, Right
<1> QED BY <1>1, CoherenceHolds, PTL

=============================================================================
