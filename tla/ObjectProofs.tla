---------------------------- MODULE ObjectProofs ----------------------------
(***************************************************************************)
(* Theorems about Objects, for any number of threads, objects, classes and *)
(* extensions.  If one thread makes the first instance, and an object gets *)
(* no class whose instances have another size, the memory of each object   *)
(* holds its ivars and the space of all extensions (AreasInside), and the  *)
(* retain count is the number of references (RefsCounted).  If moreover    *)
(* one thread associates objects, and none copies an object that has       *)
(* associations, objects and tables are freed once, after their last use   *)
(* (FreedOnce), and associations are read as they were made (WordsKept).   *)
(***************************************************************************)
EXTENDS Objects, SumProofs, FiniteSetTheorems

-----------------------------------------------------------------------------
(* The obligations of the callers.                                         *)

OneFirstSizer == \A t, u \in FirstSizers : t = u
SwapsKeepSize == \A p \in Swaps : InstanceSize[p[1]] = InstanceSize[p[2]]
OneSetter == \A t, u \in Setters : t = u

-----------------------------------------------------------------------------
(* The sums of the space of the extensions.                                *)

LEMMA Constants ==
  /\ InstanceSize \in [Classes -> Nat] /\ IvarAt \in Nat
  /\ \A c \in Classes : 2 <= IvarAt /\ IvarAt < InstanceSize[c]
  /\ Spaces \in Seq(Nat) /\ Len(Spaces) \in Nat
  /\ \A i \in 1..Len(Spaces) : Spaces[i] \in Nat
  /\ AoIndex \in 1..Len(Spaces) /\ Spaces[AoIndex] > 0
  /\ Null \notin Objects /\ Null \notin Tables /\ Objects \cap Tables = {}
  /\ MaxHeld \in Nat /\ MaxHeld > 0
  /\ IsFiniteSet(Threads) /\ Made \subseteq Classes
BY ObjectsAssumption

LEMMA SpaceUpToIs ==
  /\ SpaceUpTo \in [0..Len(Spaces) -> Nat] /\ SpaceUpTo[0] = 0
  /\ \A i \in 1..Len(Spaces) : SpaceUpTo[i] = SpaceUpTo[i - 1] + Spaces[i]
BY Constants, SumsAre DEF SpaceUpTo

LEMMA SpaceGrows ==
  \A i \in 0..Len(Spaces) : \A j \in i..Len(Spaces) : SpaceUpTo[i] <= SpaceUpTo[j]
BY Constants, SumsGrow DEF SpaceUpTo

LEMMA SpaceIs ==
  /\ ObjectSpace \in Nat /\ ObjectSpace > 0
  /\ SpaceUpTo[AoIndex - 1] \in Nat /\ SpaceUpTo[AoIndex - 1] < ObjectSpace
<1>1. AoIndex \in 1..Len(Spaces) /\ AoIndex - 1 \in 0..Len(Spaces) /\ AoIndex \in 0..Len(Spaces)
  BY Constants
<1>2. Len(Spaces) \in AoIndex..Len(Spaces)
  BY Constants
<1>3. /\ SpaceUpTo[AoIndex] \in Nat /\ SpaceUpTo[AoIndex - 1] \in Nat
      /\ SpaceUpTo[Len(Spaces)] \in Nat
      /\ SpaceUpTo[AoIndex] = SpaceUpTo[AoIndex - 1] + Spaces[AoIndex]
  <2>1. Len(Spaces) \in 0..Len(Spaces)
    BY <1>2
  <2>2. \A j \in 0..Len(Spaces) : SpaceUpTo[j] \in Nat
    BY SpaceUpToIs
  <2>3. SpaceUpTo[AoIndex] = SpaceUpTo[AoIndex - 1] + Spaces[AoIndex]
    BY <1>1, SpaceUpToIs
  <2> QED BY <1>1, <2>1, <2>2, <2>3
<1>4. SpaceUpTo[AoIndex] <= SpaceUpTo[Len(Spaces)]
  BY <1>1, <1>2, SpaceGrows
<1>5. Spaces[AoIndex] \in Nat
  BY <1>1, Constants
<1> QED BY <1>3, <1>4, <1>5, Constants DEF ObjectSpace

-----------------------------------------------------------------------------
(* References are counted one by one.                                      *)

Owned(h, o) == {r \in Threads \X (1..MaxHeld) : r[2] <= h[r[1]][o]}

LEMMA OwnedFinite == \A h, o : IsFiniteSet(Owned(h, o)) /\ Cardinality(Owned(h, o)) \in Nat
<1>1. IsFiniteSet(Threads \X (1..MaxHeld))
  <2>1. IsFiniteSet(Threads) /\ IsFiniteSet(1..MaxHeld)
    BY Constants, FS_Interval
  <2> QED BY <2>1, FS_Product
<1>2. \A h, o : Owned(h, o) \subseteq Threads \X (1..MaxHeld)
  BY DEF Owned
<1> QED BY <1>1, <1>2, FS_Subset, FS_CardinalityType

LEMMA OwnedNone ==
  ASSUME NEW h \in [Threads -> [Objects -> 0..MaxHeld]], NEW o \in Objects
  PROVE  Cardinality(Owned(h, o)) = 0 <=> \A t \in Threads : h[t][o] = 0
<1>1. Cardinality(Owned(h, o)) = 0 <=> Owned(h, o) = {}
  BY OwnedFinite, FS_EmptySet
<1>2. ASSUME Owned(h, o) = {}, NEW t \in Threads PROVE h[t][o] = 0
  <2>1. ASSUME h[t][o] # 0 PROVE FALSE
    <3>1. h[t][o] \in 1..MaxHeld
      BY <2>1, Constants
    <3>2. <<t, h[t][o]>> \in Owned(h, o)
      BY <3>1, Constants DEF Owned
    <3> QED BY <1>2, <3>2
  <2> QED BY <2>1
<1>3. ASSUME \A t \in Threads : h[t][o] = 0 PROVE Owned(h, o) = {}
  BY <1>3, Constants DEF Owned
<1> QED BY <1>1, <1>2, <1>3

More(h, g, t, o) == g = [h EXCEPT ![t][o] = @ + 1]
Fewer(h, g, t, o) == g = [h EXCEPT ![t][o] = @ - 1]

LEMMA OwnedMore ==
  ASSUME NEW h \in [Threads -> [Objects -> 0..MaxHeld]], NEW t \in Threads, NEW o \in Objects,
         h[t][o] < MaxHeld, NEW g, More(h, g, t, o)
  PROVE  Cardinality(Owned(g, o)) = Cardinality(Owned(h, o)) + 1
<1> DEFINE r == <<t, h[t][o] + 1>>
<1>1. /\ h[t][o] \in Nat /\ h[t][o] + 1 \in 1..MaxHeld
      /\ \A u \in Threads : h[u][o] \in Nat /\ g[u][o] = IF u = t THEN h[t][o] + 1 ELSE h[u][o]
  BY Constants DEF More
<1>2. Owned(g, o) = Owned(h, o) \cup {r} /\ r \notin Owned(h, o)
  BY <1>1, Constants DEF Owned
<1> QED BY <1>2, OwnedFinite, FS_AddElement

LEMMA OwnedFewer ==
  ASSUME NEW h \in [Threads -> [Objects -> 0..MaxHeld]], NEW t \in Threads, NEW o \in Objects,
         h[t][o] > 0, NEW g, Fewer(h, g, t, o)
  PROVE  Cardinality(Owned(h, o)) = Cardinality(Owned(g, o)) + 1
<1>1. g \in [Threads -> [Objects -> 0..MaxHeld]] /\ g[t][o] < MaxHeld
  BY Constants DEF Fewer
<1>2. More(g, h, t, o)
  <2>1. /\ g[t] = [h[t] EXCEPT ![o] = @ - 1] /\ \A u \in Threads : u # t => g[u] = h[u]
        /\ h[t] \in [Objects -> 0..MaxHeld] /\ h[t][o] \in Nat
    BY Constants DEF Fewer
  <2>2. h[t] = [g[t] EXCEPT ![o] = @ + 1]
    <3>1. \A x \in Objects : h[t][x] = [g[t] EXCEPT ![o] = @ + 1][x]
      BY <2>1
    <3> QED BY <2>1, <3>1
  <2>3. \A u \in Threads : h[u] = [g EXCEPT ![t] = [g[t] EXCEPT ![o] = @ + 1]][u]
    BY <2>1, <2>2, <1>1
  <2> QED BY <1>1, <2>3 DEF More
<1> QED BY <1>1, <1>2, OwnedMore

LEMMA OwnedAlike ==
  ASSUME NEW h, NEW g, NEW o, \A t \in Threads : h[t][o] = g[t][o]
  PROVE  Owned(h, o) = Owned(g, o)
BY DEF Owned

LEMMA ReferencesAre == \A o : References(o) = Cardinality(Owned(holds, o))
BY DEF References, Owned

-----------------------------------------------------------------------------
(* The invariants about memory and references.                             *)

Born(o) == mem[o] # <<>>
Room(c) == 0..(InstanceSize[c] + ObjectSpace - 1)

(* Types, and what the memory of an object in use looks like.              *)
Shapes ==
  /\ cached \in Nat /\ DOMAIN mem = Objects
  /\ \A o \in Objects : Born(o) =>
       /\ IsaOf(o) \in Classes /\ RetainCount(o) \in Nat
       /\ DOMAIN mem[o] = Room(IsaOf(o))
       /\ mem[o][AoAt(o)] \in Tables \cup {Null}
  /\ freed \in [Objects \cup Tables -> Nat] /\ used \subseteq Tables
  /\ holds \in [Threads -> [Objects -> 0..MaxHeld]]
  /\ pc \in [Threads -> {"idle"} \cup SizePCs \cup SetPCs \cup GetPCs
                         \cup DeallocPCs \cup OtherPCs]
  /\ obj \in [Threads -> Objects \cup {Null}] /\ cls \in [Threads -> Classes \cup {Null}]
  /\ tbl \in [Threads -> Tables \cup {Null}]
  /\ ext \in [Threads -> Nat] /\ sum \in [Threads -> Nat] /\ size \in [Threads -> Nat]
  /\ count \in [Threads -> Int]

UsePCs == {"copy"} \cup SetPCs \cup GetPCs

(* A call has its object, and a reference to it if it is going to use it.  *)
Calls ==
  \A t \in Threads :
    /\ pc[t] \in UsePCs \cup DeallocPCs \cup {"k_test"} => obj[t] \in Objects
    /\ pc[t] \in {"idle", "make"} => obj[t] = Null
    /\ obj[t] \in Objects /\ pc[t] \in SizePCs \cup UsePCs => holds[t][obj[t]] > 0
    /\ obj[t] \in Objects => ~Unborn(obj[t])
    /\ pc[t] = "k_test" => count[t] \in Nat
    /\ pc[t] = "d_bucket" => tbl[t] \in Tables

(* The cached size is a sum that one thread makes, and 0 or complete for   *)
(* the others.                                                             *)
Sizes ==
  /\ (\A t \in Threads : pc[t] \notin {"z_load", "z_store"}) => cached \in {0, ObjectSpace}
  /\ \A t \in Threads :
       /\ pc[t] = "z_test" => SizeIsCached \/ t \in FirstSizers
       /\ pc[t] \in {"z_load", "z_store"} =>
            t \in FirstSizers /\ ext[t] \in 1..Len(Spaces) /\ cached = SpaceUpTo[ext[t] - 1]
       /\ pc[t] = "z_store" => sum[t] = SpaceUpTo[ext[t]]
       /\ pc[t] = "z_ret" => SizeIsCached
       /\ pc[t] \in {"make", "copy"} => size[t] = InstanceSize[cls[t]] + ObjectSpace
       /\ pc[t] \in SizePCs \cup {"make", "copy"} => cls[t] \in Classes
       /\ pc[t] \in SizePCs \cup {"copy"} /\ obj[t] # Null =>
            InstanceSize[IsaOf(obj[t])] = InstanceSize[cls[t]]
  /\ fault # "overread"

(* An object lives as long as there are references to it, and a thread to  *)
(* free it after the last one.                                             *)
RefsOf(o) ==
  /\ \A t \in Threads : holds[t][o] > 0 => Born(o)
  /\ Born(o) => /\ freed[o] = 0
                /\ References(o) <= RetainCount(o)
                /\ o \notin copied => References(o) = RetainCount(o)
                /\ RetainCount(o) = 0 => \E t \in Threads : Ends(t, o)
  /\ \A t \in Threads : Ends(t, o) =>
       /\ Born(o) /\ RetainCount(o) = 0
       /\ \A u \in Threads : Ends(u, o) => u = t
  /\ freed[o] <= 1
Refs == \A o \in Objects : RefsOf(o)

Counted == Shapes /\ Calls /\ Sizes /\ Refs

LEMMA Layout ==
  ASSUME NEW c \in Classes
  PROVE  /\ InstanceSize[c] \in Nat
         /\ 0 \in Room(c) /\ 1 \in Room(c) /\ IvarAt \in Room(c)
         /\ InstanceSize[c] + SpaceUpTo[AoIndex - 1] \in Room(c)
         /\ IvarAt \notin {0, 1} /\ IvarAt < InstanceSize[c] + SpaceUpTo[AoIndex - 1]
         /\ InstanceSize[c] + SpaceUpTo[AoIndex - 1] \notin {0, 1}
<1>1. /\ InstanceSize[c] \in Nat /\ IvarAt \in Nat /\ 2 <= IvarAt /\ IvarAt < InstanceSize[c]
  BY Constants
<1> QED BY <1>1, SpaceIs DEF Room

LEMMA RoomHas ==
  ASSUME NEW c, InstanceSize[c] \in Nat
  PROVE  Cardinality(Room(c)) = InstanceSize[c] + ObjectSpace
<1>1. \A m \in Nat : m > 0 => Cardinality(0..(m - 1)) = m
  <2>1. \A m \in Nat : m > 0 => 0 <= m - 1 /\ m - 1 \in Int /\ (m - 1) - 0 + 1 = m
    OBVIOUS
  <2> QED BY <2>1, FS_Interval
<1>2. /\ InstanceSize[c] + ObjectSpace \in Nat /\ InstanceSize[c] + ObjectSpace > 0
      /\ (InstanceSize[c] + ObjectSpace) - 1 = InstanceSize[c] + (ObjectSpace - 1)
  BY SpaceIs
<1>3. Cardinality(0..((InstanceSize[c] + ObjectSpace) - 1)) = InstanceSize[c] + ObjectSpace
  BY <1>1, <1>2
<1> QED BY <1>2, <1>3 DEF Room

LEMMA NotEmpty == \A f : 0 \in DOMAIN f => f # <<>>
OBVIOUS

(* An object in use has the words the run-time uses. *)
LEMMA BornIs ==
  ASSUME Shapes, NEW o \in Objects, Born(o)
  PROVE  /\ IsaOf(o) \in Classes /\ RetainCount(o) \in Nat
         /\ 0 \in DOMAIN mem[o] /\ 1 \in DOMAIN mem[o] /\ IvarAt \in DOMAIN mem[o]
         /\ AoAt(o) \in DOMAIN mem[o] /\ AoAt(o) \notin {0, 1, IvarAt} /\ IvarAt \notin {0, 1}
         /\ mem[o][AoAt(o)] \in Tables \cup {Null}
<1>1. /\ IsaOf(o) \in Classes /\ RetainCount(o) \in Nat /\ DOMAIN mem[o] = Room(IsaOf(o))
      /\ mem[o][AoAt(o)] \in Tables \cup {Null}
  BY DEF Shapes
<1>2. /\ IvarAt \in Nat /\ AoAt(o) = InstanceSize[IsaOf(o)] + SpaceUpTo[AoIndex - 1]
      /\ InstanceSize[IsaOf(o)] \in Nat /\ SpaceUpTo[AoIndex - 1] \in Nat
  BY <1>1, Constants, SpaceIs DEF AoAt
<1> QED BY <1>1, <1>2, Layout

Writes(o, i, v) == mem' = [mem EXCEPT ![o][i] = v]

LEMMA WriteWord ==
  ASSUME Shapes, NEW o \in Objects, Born(o), NEW i, NEW v, Writes(o, i, v)
  PROVE  /\ DOMAIN mem' = Objects
         /\ \A p \in Objects : p # o => mem'[p] = mem[p]
         /\ DOMAIN mem'[o] = DOMAIN mem[o]
         /\ \A j \in DOMAIN mem[o] : mem'[o][j] = IF j = i THEN v ELSE mem[o][j]
         /\ \A p \in Objects : Born(p)' <=> Born(p)
<1>1. /\ DOMAIN mem = Objects
      /\ mem' = [mem EXCEPT ![o] = [mem[o] EXCEPT ![i] = v]]
  BY DEF Shapes, Writes
<1>2. /\ DOMAIN mem' = Objects
      /\ \A p \in Objects : p # o => mem'[p] = mem[p]
      /\ mem'[o] = [mem[o] EXCEPT ![i] = v]
  BY <1>1
<1>3. /\ DOMAIN mem'[o] = DOMAIN mem[o]
      /\ \A j \in DOMAIN mem[o] : mem'[o][j] = IF j = i THEN v ELSE mem[o][j]
  BY <1>2
<1>4. Born(o)'
  BY <1>3, BornIs, NotEmpty DEF Born
<1> QED BY <1>2, <1>3, <1>4 DEF Born

(* What is left of the memory when one word changes that is not in the     *)
(* way of another.                                                         *)
LEMMA ShapesWrite ==
  ASSUME Shapes, NEW o \in Objects, Born(o), NEW i, NEW v, Writes(o, i, v),
         i = 0 => v \in Classes /\ InstanceSize[v] = InstanceSize[IsaOf(o)],
         i = 1 => v \in Nat,
         i = AoAt(o) => v \in Tables \cup {Null}
  PROVE  /\ DOMAIN mem' = Objects
         /\ \A p \in Objects : Born(p)' =>
              /\ IsaOf(p)' \in Classes /\ RetainCount(p)' \in Nat
              /\ (DOMAIN mem[p])' = Room(IsaOf(p))'
              /\ (mem[p][AoAt(p)])' \in Tables \cup {Null}
         /\ AoAt(o)' = AoAt(o)
<1>1. /\ DOMAIN mem' = Objects
      /\ \A p \in Objects : p # o => mem'[p] = mem[p]
      /\ DOMAIN mem'[o] = DOMAIN mem[o]
      /\ \A j \in DOMAIN mem[o] : mem'[o][j] = IF j = i THEN v ELSE mem[o][j]
      /\ \A p \in Objects : Born(p)' <=> Born(p)
  BY WriteWord
<1>2. ASSUME NEW p \in Objects, p # o, Born(p)'
      PROVE  /\ IsaOf(p)' \in Classes /\ RetainCount(p)' \in Nat
             /\ (DOMAIN mem[p])' = Room(IsaOf(p))'
             /\ (mem[p][AoAt(p)])' \in Tables \cup {Null}
  BY <1>1, <1>2 DEF Shapes, IsaOf, RetainCount, AoAt, Room
<1>3. /\ IsaOf(o)' \in Classes /\ InstanceSize[IsaOf(o)'] = InstanceSize[IsaOf(o)]
      /\ RetainCount(o)' \in Nat
  BY <1>1, BornIs DEF IsaOf, RetainCount
<1>4. AoAt(o)' = AoAt(o) /\ Room(IsaOf(o))' = Room(IsaOf(o))
  BY <1>3 DEF AoAt, Room
<1>5. DOMAIN mem[o] = Room(IsaOf(o))
  BY DEF Shapes
<1>6. mem'[o][AoAt(o)] \in Tables \cup {Null}
  BY <1>1, BornIs
<1> QED BY <1>1, <1>2, <1>3, <1>4, <1>5, <1>6

(* Who holds a reference has an object whose count is not 0. *)
LEMMA HeldIs ==
  ASSUME Shapes, Refs, NEW t \in Threads, NEW o \in Objects, holds[t][o] > 0
  PROVE  Born(o) /\ freed[o] = 0 /\ RetainCount(o) \in Nat /\ RetainCount(o) >= 1
<1>1. Born(o) /\ freed[o] = 0 /\ References(o) <= RetainCount(o)
  BY DEF Refs, RefsOf
<1>2. RetainCount(o) \in Nat /\ holds \in [Threads -> [Objects -> 0..MaxHeld]]
  BY <1>1 DEF Shapes
<1>3. References(o) \in Nat /\ References(o) # 0
  BY <1>2, OwnedFinite, OwnedNone, ReferencesAre
<1> QED BY <1>1, <1>2, <1>3

(* The object that is going to be used, or freed, is there. *)
LEMMA UsedIs ==
  ASSUME Shapes, Calls, Refs, NEW t \in Threads, pc[t] \in UsePCs \cup DeallocPCs
  PROVE  obj[t] \in Objects /\ Born(obj[t]) /\ freed[obj[t]] = 0
<1>1. obj[t] \in Objects
  BY DEF Calls
<1>2. CASE pc[t] \in UsePCs
  <2>1. holds[t][obj[t]] > 0
    BY <1>1, <1>2 DEF Calls
  <2> QED BY <1>1, <2>1, HeldIs
<1>3. CASE pc[t] \in DeallocPCs
  <2>1. Ends(t, obj[t])
    BY <1>3 DEF Ends
  <2> QED BY <1>1, <2>1 DEF Refs, RefsOf
<1> QED BY <1>2, <1>3

LEMMA ShapesStep ==
  ASSUME Shapes, Calls, Sizes, Refs, SwapsKeepSize, Next
  PROVE  Shapes'
<1>1. PICK t \in Threads : Begin(t) \/ Finish(t) \/ Step(t)
  BY DEF Next
<1> USE DEF SizePCs, SetPCs, GetPCs, DeallocPCs, OtherPCs
<1> DEFINE Types ==
      /\ cached \in Nat
      /\ freed \in [Objects \cup Tables -> Nat] /\ used \subseteq Tables
      /\ holds \in [Threads -> [Objects -> 0..MaxHeld]]
      /\ pc \in [Threads -> {"idle"} \cup SizePCs \cup SetPCs \cup GetPCs
                             \cup DeallocPCs \cup OtherPCs]
      /\ obj \in [Threads -> Objects \cup {Null}] /\ cls \in [Threads -> Classes \cup {Null}]
      /\ tbl \in [Threads -> Tables \cup {Null}]
      /\ ext \in [Threads -> Nat] /\ sum \in [Threads -> Nat] /\ size \in [Threads -> Nat]
      /\ count \in [Threads -> Int]
    Bodies == /\ DOMAIN mem = Objects
              /\ \A o \in Objects : Born(o) =>
                   /\ IsaOf(o) \in Classes /\ RetainCount(o) \in Nat
                   /\ DOMAIN mem[o] = Room(IsaOf(o))
                   /\ mem[o][AoAt(o)] \in Tables \cup {Null}
<1>2. (Shapes <=> Types /\ Bodies) /\ (Shapes' <=> Types' /\ Bodies')
  BY DEF Shapes
<1>3. Types /\ Bodies
  BY <1>2
<1>4. mem' = mem => Bodies'
  BY <1>3 DEF Born, IsaOf, RetainCount, AoAt, Room
<1>5. Leave(t) /\ UNCHANGED <<cached, freed, used, holds>> => Types'
  BY <1>3 DEF Leave, Goto, Set
<1> USE DEF Goto, Set, memory, args, temps, history
<1>a. ASSUME SizeStep(t) PROVE Shapes'
  <2>1. CASE SizeTest(t)
    BY <1>2, <1>3, <1>4, <2>1 DEF SizeTest
  <2>2. CASE SizeLoad(t)
    <3>1. Spaces[ext[t]] \in Nat
      BY <2>2, Constants DEF SizeLoad, Sizes
    <3>2. cached + Spaces[ext[t]] \in Nat
      BY <1>3, <3>1
    <3> QED BY <1>2, <1>3, <1>4, <2>2, <3>2 DEF SizeLoad
  <2>3. CASE SizeStore(t)
    BY <1>2, <1>3, <1>4, <2>3 DEF SizeStore
  <2>4. CASE SizeReturn(t)
    <3>1. cls[t] \in Classes /\ cached \in Nat
      BY <1>3, <2>4 DEF SizeReturn, Sizes
    <3>2. InstanceSize[cls[t]] \in Nat
      BY <3>1, Constants
    <3>3. InstanceSize[cls[t]] + cached \in Nat
      BY <3>1, <3>2
    <3> QED BY <1>2, <1>3, <1>4, <2>4, <3>3 DEF SizeReturn, WithSpace, AfterSize
  <2> QED BY <1>a, <2>1, <2>2, <2>3, <2>4 DEF SizeStep
<1>b. ASSUME NEW c \in Made, BeginAlloc(t, c) PROVE Shapes'
  <2>1. c \in Classes
    BY Constants
  <2> QED BY <1>2, <1>3, <1>4, <1>b, <2>1 DEF BeginAlloc, Faulted
<1>c. ASSUME Make(t) PROVE Shapes'
  <2>1. PICK o \in Objects :
          /\ mem' = [mem EXCEPT ![o] = [i \in 0..(size[t] - 1) |->
                       CASE i = 0 -> cls[t] [] i = 1 -> 1 [] OTHER -> Null]]
          /\ holds' = [holds EXCEPT ![t][o] = 1]
    BY <1>c DEF Make
  <2>2. size[t] = InstanceSize[cls[t]] + ObjectSpace /\ cls[t] \in Classes
    BY <1>c DEF Make, Sizes
  <2> DEFINE w == [i \in Room(cls[t]) |-> CASE i = 0 -> cls[t] [] i = 1 -> 1 [] OTHER -> Null]
  <2>3. mem' = [mem EXCEPT ![o] = w]
    <3>1. 0..(size[t] - 1) = Room(cls[t])
      BY <2>2, Constants, SpaceIs DEF Room
    <3> QED BY <2>1, <3>1
  <2>4. /\ w[0] = cls[t] /\ w[1] = 1 /\ DOMAIN w = Room(cls[t])
        /\ w[InstanceSize[cls[t]] + SpaceUpTo[AoIndex - 1]] = Null
    BY <2>2, Layout
  <2>5. Bodies'
    <3> HIDE DEF w
    <3>1. /\ DOMAIN mem' = Objects /\ mem'[o] = w
          /\ \A p \in Objects : p # o => mem'[p] = mem[p]
      BY <1>3, <2>3
    <3>2. ASSUME NEW p \in Objects, p # o, Born(p)'
          PROVE  /\ IsaOf(p)' \in Classes /\ RetainCount(p)' \in Nat
                 /\ (DOMAIN mem[p])' = Room(IsaOf(p))'
                 /\ (mem[p][AoAt(p)])' \in Tables \cup {Null}
      BY <1>3, <3>1, <3>2 DEF Born, IsaOf, RetainCount, AoAt, Room
    <3>3. /\ IsaOf(o)' = cls[t] /\ RetainCount(o)' = 1
          /\ (DOMAIN mem[o])' = Room(cls[t]) /\ (mem[o][AoAt(o)])' = Null
      BY <2>4, <3>1 DEF IsaOf, RetainCount, AoAt
    <3>4. (DOMAIN mem[o])' = Room(IsaOf(o))'
      BY <3>3 DEF Room
    <3> QED BY <2>2, <3>1, <3>2, <3>3, <3>4
  <2>6. Types'
    <3>1. holds' \in [Threads -> [Objects -> 0..MaxHeld]]
      BY SMTT(20), <1>3, <2>1, Constants
    <3>2. Leave(t) /\ UNCHANGED <<cached, freed, used>>
      BY <1>c DEF Make
    <3>3. /\ pc' \in [Threads -> {"idle"} \cup SizePCs \cup SetPCs \cup GetPCs
                                \cup DeallocPCs \cup OtherPCs]
          /\ obj' \in [Threads -> Objects \cup {Null}] /\ cls' \in [Threads -> Classes \cup {Null}]
          /\ tbl' \in [Threads -> Tables \cup {Null}]
      BY <1>3, <3>2 DEF Leave
    <3>4. /\ ext' \in [Threads -> Nat] /\ sum' \in [Threads -> Nat]
          /\ size' \in [Threads -> Nat] /\ count' \in [Threads -> Int]
      BY <1>3, <3>2 DEF Leave
    <3> QED BY <1>3, <3>1, <3>2, <3>3, <3>4
  <2> QED BY <1>2, <2>5, <2>6
<1>d. ASSUME NEW o \in Objects, BeginCopy(t, o) PROVE Shapes'
  <2>1. IsaOf(o) \in Classes
    BY <1>d, HeldIs, BornIs DEF BeginCopy
  <2> QED BY <1>2, <1>3, <1>4, <1>d, <2>1 DEF BeginCopy
<1>e. ASSUME CopyMemory(t) PROVE Shapes'
  <2>1. CASE size[t] > Allocated(obj[t])
    BY <1>2, <1>3, <1>4, <1>e, <2>1 DEF CopyMemory, Faulted
  <2>2. CASE ~(size[t] > Allocated(obj[t]))
    <3>1. PICK o \in Objects : /\ mem' = [mem EXCEPT ![o] = mem[obj[t]]]
                               /\ holds' = [holds EXCEPT ![t][o] = 1]
      BY <1>e, <2>2 DEF CopyMemory
    <3>2. obj[t] \in Objects
      BY <1>e DEF CopyMemory, Calls, UsePCs
    <3>3. Bodies'
      <4>1. /\ DOMAIN mem' = Objects /\ mem'[o] = mem[obj[t]]
            /\ \A p \in Objects : p # o => mem'[p] = mem[p]
        BY <1>3, <3>1
      <4>2. ASSUME NEW p \in Objects, p # o, Born(p)'
            PROVE  /\ IsaOf(p)' \in Classes /\ RetainCount(p)' \in Nat
                   /\ (DOMAIN mem[p])' = Room(IsaOf(p))'
                   /\ (mem[p][AoAt(p)])' \in Tables \cup {Null}
        BY <1>3, <4>1, <4>2 DEF Born, IsaOf, RetainCount, AoAt, Room
      <4>3. ASSUME Born(o)'
            PROVE  /\ IsaOf(o)' \in Classes /\ RetainCount(o)' \in Nat
                   /\ (DOMAIN mem[o])' = Room(IsaOf(o))'
                   /\ (mem[o][AoAt(o)])' \in Tables \cup {Null}
        BY <1>3, <3>2, <4>1, <4>3 DEF Born, IsaOf, RetainCount, AoAt, Room
      <4> QED BY <4>1, <4>2, <4>3
    <3>4. Types'
      <4>1. holds' \in [Threads -> [Objects -> 0..MaxHeld]]
        BY SMTT(20), <1>3, <3>1, Constants
      <4>2. Leave(t) /\ UNCHANGED <<cached, freed, used>>
        BY <1>e, <2>2 DEF CopyMemory
      <4> QED BY <1>3, <4>1, <4>2 DEF Leave
    <3> QED BY <1>2, <3>3, <3>4
  <2> QED BY <2>1, <2>2
<1>f. ASSUME NEW o \in Objects, NEW c \in Classes, SetClass(t, o, c) PROVE Shapes'
  <2>1. Born(o) /\ InstanceSize[c] = InstanceSize[IsaOf(o)]
    BY <1>f, HeldIs DEF SetClass, SwapsKeepSize
  <2>2. Bodies'
    <3>1. AoAt(o) # 0
      BY <2>1, BornIs
    <3>2. Writes(o, 0, c)
      BY <1>f DEF SetClass, Writes
    <3> QED BY <2>1, <3>1, <3>2, ShapesWrite
  <2> QED BY <1>2, <1>3, <1>f, <2>2 DEF SetClass
<1>g. ASSUME NEW o \in Objects, NEW v \in Values, SetVariable(t, o, v) PROVE Shapes'
  <2>1. Born(o)
    BY <1>g, HeldIs DEF SetVariable
  <2>2. IvarAt # 0 /\ IvarAt # 1 /\ IvarAt # AoAt(o)
    BY <2>1, BornIs
  <2>3. Bodies'
    <3>1. Writes(o, IvarAt, v)
      BY <1>g DEF SetVariable, Writes
    <3> QED BY <2>1, <2>2, <3>1, ShapesWrite
  <2> QED BY <1>2, <1>3, <1>g, <2>3 DEF SetVariable
<1>h. ASSUME NEW o \in Objects, NEW u \in Threads, Retain(t, u, o) PROVE Shapes'
  <2>1. Born(o) /\ RetainCount(o) \in Nat
    BY <1>h, HeldIs DEF Retain
  <2>2. Bodies'
    <3>1. Writes(o, 1, RetainCount(o) + 1)
      BY <1>h DEF Retain, RetainCount, Writes
    <3>2. AoAt(o) # 1 /\ RetainCount(o) + 1 \in Nat
      BY <2>1, BornIs
    <3> QED BY <2>1, <3>1, <3>2, ShapesWrite
  <2>3. holds' \in [Threads -> [Objects -> 0..MaxHeld]]
    <3>1. holds[u][o] \in Nat /\ holds[u][o] < MaxHeld /\ MaxHeld \in Nat
      BY <1>3, <1>h, Constants DEF Retain
    <3>2. holds[u][o] + 1 \in 0..MaxHeld
      BY <3>1
    <3> QED BY <1>3, <1>h, <3>2 DEF Retain
  <2> QED BY <1>2, <1>3, <1>h, <2>2, <2>3 DEF Retain
<1>i. ASSUME NEW o \in Objects, Release(t, o) PROVE Shapes'
  <2>1. Born(o) /\ RetainCount(o) \in Nat /\ RetainCount(o) >= 1
    BY <1>i, HeldIs DEF Release
  <2>2. Bodies'
    <3>1. Writes(o, 1, RetainCount(o) - 1)
      BY <1>i DEF Release, RetainCount, Writes
    <3>2. AoAt(o) # 1 /\ RetainCount(o) - 1 \in Nat
      BY <2>1, BornIs
    <3> QED BY <2>1, <3>1, <3>2, ShapesWrite
  <2>3. holds' \in [Threads -> [Objects -> 0..MaxHeld]]
    BY SMTT(20), <1>3, <1>i, Constants DEF Release
  <2> QED BY <1>2, <1>3, <1>i, <2>1, <2>2, <2>3 DEF Release
<1>j. ASSUME CountTest(t) PROVE Shapes'
  <2>1. CASE Leave(t) /\ UNCHANGED <<memory, holds>>
    BY <1>2, <1>4, <1>5, <2>1
  <2>2. CASE ~Leave(t)
    BY <1>2, <1>3, <1>4, <1>j, <2>2 DEF CountTest, Faulted
  <2> QED BY <1>j, <2>1, <2>2 DEF CountTest, Faulted
<1>k. ASSUME DestroyTable(t) PROVE Shapes'
  <2>1. mem[obj[t]][AoAt(obj[t])] \in Tables \cup {Null}
    BY <1>k, UsedIs, BornIs DEF DestroyTable
  <2> QED BY <1>2, <1>3, <1>4, <1>k, <2>1 DEF DestroyTable
<1>l. ASSUME DestroyBucket(t) PROVE Shapes'
  BY <1>2, <1>3, <1>4, <1>l DEF DestroyBucket, Faulted
<1>m. ASSUME FreeTable(t) PROVE Shapes'
  <2>1. freed' \in [Objects \cup Tables -> Nat]
    <3>1. tbl[t] \in Objects \cup Tables /\ freed[tbl[t]] + 1 \in Nat
      BY <1>3, <1>m DEF FreeTable, Calls
    <3> QED BY <1>3, <1>m, <3>1 DEF FreeTable
  <2> QED BY <1>2, <1>3, <1>4, <1>m, <2>1 DEF FreeTable
<1>n. ASSUME FreeObject(t) PROVE Shapes'
  <2>1. obj[t] \in Objects
    BY <1>n DEF FreeObject, Calls
  <2>2. freed' \in [Objects \cup Tables -> Nat]
    <3>1. freed[obj[t]] + 1 \in Nat
      BY <1>3, <2>1
    <3> QED BY <1>3, <1>n, <3>1 DEF FreeObject
  <2>3. Bodies'
    <3>1. /\ DOMAIN mem' = Objects /\ mem'[obj[t]] = <<>>
          /\ \A p \in Objects : p # obj[t] => mem'[p] = mem[p]
      BY <1>3, <1>n, <2>1 DEF FreeObject
    <3> QED BY <1>3, <3>1 DEF Born, IsaOf, RetainCount, AoAt
  <2> QED BY <1>2, <1>3, <1>n, <2>2, <2>3 DEF FreeObject, Leave
<1>o. ASSUME NEW o \in Objects, NEW k \in Keys, BeginGet(t, o, k) PROVE Shapes'
  BY <1>2, <1>3, <1>4, <1>o DEF BeginGet
<1>p. ASSUME NEW o \in Objects, NEW k \in Keys, NEW v \in Values, BeginSet(t, o, k, v)
      PROVE  Shapes'
  BY <1>2, <1>3, <1>4, <1>p DEF BeginSet
<1>q. ASSUME GetLoad(t) PROVE Shapes'
  <2>1. mem[obj[t]][AoAt(obj[t])] \in Tables \cup {Null}
    BY <1>q, UsedIs, BornIs DEF GetLoad, UsePCs
  <2> DEFINE tb == mem[obj[t]][AoAt(obj[t])]
  <2>2. /\ tbl' \in {tbl, [tbl EXCEPT ![t] = tb]}
        /\ pc' \in {[pc EXCEPT ![t] = "g_ret"], [pc EXCEPT ![t] = "g_bucket"]}
        /\ UNCHANGED <<memory, holds, obj, cls, ext, sum, size, count>>
    BY <1>q DEF GetLoad
  <2> HIDE DEF tb
  <2>3. tbl' \in [Threads -> Tables \cup {Null}]
    BY <1>3, <2>1, <2>2 DEF tb
  <2> QED BY <1>2, <1>3, <1>4, <2>2, <2>3
<1>r. ASSUME GetBucket(t) \/ GetWalk(t) PROVE Shapes'
  BY <1>2, <1>3, <1>4, <1>r DEF GetBucket, GetWalk
<1>s. ASSUME GetReturn(t) PROVE Shapes'
  BY <1>2, <1>4, <1>5, <1>s DEF GetReturn
<1>t. ASSUME SetLoad(t) PROVE Shapes'
  <2>1. mem[obj[t]][AoAt(obj[t])] \in Tables \cup {Null}
    BY <1>t, UsedIs, BornIs DEF SetLoad, UsePCs
  <2>2. tbl' \in [Threads -> Tables \cup {Null}]
    BY <1>3, <1>t, <2>1 DEF SetLoad
  <2> QED BY <1>2, <1>3, <1>4, <1>t, <2>2 DEF SetLoad
<1>u. ASSUME SetTable(t) PROVE Shapes'
  <2>1. PICK tb \in Tables \ used : /\ used' = used \cup {tb} /\ tbl' = [tbl EXCEPT ![t] = tb]
                                    /\ mem' = [mem EXCEPT ![obj[t]][AoAt(obj[t])] = tb]
    BY <1>u DEF SetTable
  <2>2. /\ obj[t] \in Objects /\ Born(obj[t])
        /\ AoAt(obj[t]) # 0 /\ AoAt(obj[t]) # 1
    BY <1>u, UsedIs, BornIs DEF SetTable, UsePCs
  <2>3. Bodies'
    <3>1. Writes(obj[t], AoAt(obj[t]), tb)
      BY <2>1 DEF Writes
    <3> QED BY <2>2, <3>1, ShapesWrite
  <2> QED BY <1>2, <1>3, <1>u, <2>1, <2>3 DEF SetTable
<1>v. ASSUME SetBucket(t) \/ SetNext(t) PROVE Shapes'
  BY <1>2, <1>3, <1>4, <1>v DEF SetBucket, SetNext
<1>w. ASSUME SetFirst(t) \/ SetFound(t) \/ SetLink(t) PROVE Shapes'
  <2>1. Leave(t) /\ UNCHANGED <<cached, mem, freed, used, holds>>
    BY <1>w DEF SetFirst, SetFound, SetLink, Store
  <2> QED BY <1>2, <1>4, <1>5, <2>1
<1> QED BY <1>1, <1>a, <1>b, <1>c, <1>d, <1>e, <1>f, <1>g, <1>h, <1>i, <1>j, <1>k, <1>l,
           <1>m, <1>n, <1>o, <1>p, <1>q, <1>r, <1>s, <1>t, <1>u, <1>v, <1>w
        DEF Begin, Finish, Step, EndStep, AssocStep

LEMMA CallsStep ==
  ASSUME Shapes, Calls, Sizes, Refs, SwapsKeepSize, Next
  PROVE  Calls'
<1>1. PICK t \in Threads : Begin(t) \/ Finish(t) \/ Step(t)
  BY DEF Next
<1> USE DEF SizePCs, SetPCs, GetPCs, DeallocPCs, OtherPCs, UsePCs
<1> DEFINE Good(u) ==
      /\ pc[u] \in UsePCs \cup DeallocPCs \cup {"k_test"} => obj[u] \in Objects
      /\ pc[u] \in {"idle", "make"} => obj[u] = Null
      /\ obj[u] \in Objects /\ pc[u] \in SizePCs \cup UsePCs => holds[u][obj[u]] > 0
      /\ obj[u] \in Objects => ~Unborn(obj[u])
      /\ pc[u] = "k_test" => count[u] \in Nat
      /\ pc[u] = "d_bucket" => tbl[u] \in Tables
<1>2. (Calls <=> \A u \in Threads : Good(u)) /\ (Calls' <=> \A u \in Threads : Good(u)')
  BY DEF Calls
<1>3. Good(t)
  BY <1>2
<1>4. /\ pc \in [Threads -> {"idle"} \cup SizePCs \cup SetPCs \cup GetPCs
                            \cup DeallocPCs \cup OtherPCs]
      /\ obj \in [Threads -> Objects \cup {Null}] /\ tbl \in [Threads -> Tables \cup {Null}]
      /\ cls \in [Threads -> Classes \cup {Null}]
      /\ size \in [Threads -> Nat] /\ ext \in [Threads -> Nat]
      /\ count \in [Threads -> Int] /\ holds \in [Threads -> [Objects -> 0..MaxHeld]]
      /\ Null \notin Objects
  BY Constants DEF Shapes
<1>5. /\ DOMAIN mem = Objects /\ freed \in [Objects \cup Tables -> Nat]
      /\ Objects \cap Tables = {}
  BY Constants DEF Shapes
<1>6. \A o \in Objects, u \in Threads : holds[u][o] > 0 => Born(o)
  BY HeldIs
<1> DEFINE Others == \A u \in Threads \ {t} : /\ pc'[u] = pc[u] /\ obj'[u] = obj[u]
                                              /\ count'[u] = count[u] /\ tbl'[u] = tbl[u]
(* A step of t, for the other threads. *)
<1>7. ASSUME Others, Good(t)',
             \A u \in Threads \ {t}, o \in Objects : holds[u][o] > 0 => holds'[u][o] > 0,
             \A o \in Objects : Unborn(o)' => Unborn(o)
      PROVE  Calls'
  <2>1. ASSUME NEW u \in Threads, u # t PROVE Good(u)'
    <3>1. Good(u)
      BY <1>2
    <3> QED BY <1>7, <2>1, <3>1
  <2> QED BY <1>2, <1>7, <2>1
<1>8. ASSUME Others, Good(t)', UNCHANGED <<mem, freed, holds>> PROVE Calls'
  BY <1>7, <1>8 DEF Unborn
<1> USE DEF Goto, Set, memory, args, temps, history
<1>9. ASSUME Leave(t) PROVE Others /\ Good(t)'
  BY <1>4, <1>9 DEF Leave
<1>10. ASSUME UNCHANGED <<mem, freed, holds, pc, args, temps>> PROVE Calls'
  BY <1>3, <1>8, <1>10 DEF Unborn
<1>a. ASSUME SizeStep(t) PROVE Calls'
  <2>1. CASE SizeTest(t)
    BY <1>3, <1>4, <1>8, <2>1 DEF SizeTest, Unborn
  <2>2. CASE SizeLoad(t)
    BY <1>3, <1>4, <1>8, <2>2 DEF SizeLoad, Unborn
  <2>3. CASE SizeStore(t)
    BY <1>3, <1>4, <1>8, <2>3 DEF SizeStore, Unborn
  <2>4. CASE SizeReturn(t)
    BY <1>3, <1>4, <1>8, <2>4 DEF SizeReturn, AfterSize, Unborn
  <2> QED BY <1>a, <2>1, <2>2, <2>3, <2>4 DEF SizeStep
<1>b. ASSUME NEW c \in Made, BeginAlloc(t, c) PROVE Calls'
  <2>1. CASE c \in Unfinished
    BY <1>b, <1>10, <2>1 DEF BeginAlloc, Faulted
  <2>2. CASE c \notin Unfinished
    BY <1>3, <1>4, <1>8, <1>b, <2>2 DEF BeginAlloc
  <2> QED BY <2>1, <2>2
<1>c. ASSUME Make(t) PROVE Calls'
  <2>1. PICK o \in Objects :
          /\ Unborn(o)
          /\ mem' = [mem EXCEPT ![o] = [i \in 0..(size[t] - 1) |->
                       CASE i = 0 -> cls[t] [] i = 1 -> 1 [] OTHER -> Null]]
          /\ holds' = [holds EXCEPT ![t][o] = 1]
    BY <1>c DEF Make, Fresh
  <2>2. Leave(t) /\ UNCHANGED freed
    BY <1>c DEF Make
  <2>3. \A u \in Threads \ {t}, x \in Objects : holds[u][x] > 0 => holds'[u][x] > 0
    BY <1>4, <2>1
  <2>4. ASSUME NEW x \in Objects, Unborn(x)' PROVE Unborn(x)
    BY <1>5, <2>1, <2>2, <2>4 DEF Unborn
  <2> QED BY <1>7, <1>9, <2>2, <2>3, <2>4
<1>d. ASSUME NEW o \in Objects, BeginCopy(t, o) PROVE Calls'
  <2>1. Born(o)
    BY <1>6, <1>d DEF BeginCopy
  <2> QED BY <1>3, <1>4, <1>8, <1>d, <2>1 DEF BeginCopy, Unborn, Born
<1>e. ASSUME CopyMemory(t) PROVE Calls'
  <2>1. CASE size[t] > Allocated(obj[t])
    BY <1>10, <1>e, <2>1 DEF CopyMemory, Faulted
  <2>2. CASE ~(size[t] > Allocated(obj[t]))
    <3>1. PICK o \in Objects :
            /\ Unborn(o) /\ mem' = [mem EXCEPT ![o] = mem[obj[t]]]
            /\ holds' = [holds EXCEPT ![t][o] = 1]
      BY <1>e, <2>2 DEF CopyMemory, Fresh
    <3>2. Leave(t) /\ UNCHANGED freed
      BY <1>e, <2>2 DEF CopyMemory
    <3>3. \A u \in Threads \ {t}, x \in Objects : holds[u][x] > 0 => holds'[u][x] > 0
      BY <1>4, <3>1
    <3>4. ASSUME NEW x \in Objects, Unborn(x)' PROVE Unborn(x)
      BY <1>5, <3>1, <3>2, <3>4 DEF Unborn
    <3> QED BY <1>7, <1>9, <3>2, <3>3, <3>4
  <2> QED BY <2>1, <2>2
<1>f. ASSUME NEW o \in Objects, NEW i, NEW v, Writes(o, i, v), Born(o), freed' = freed
      PROVE  \A x \in Objects : Unborn(x)' => Unborn(x)
  BY <1>f, WriteWord DEF Unborn, Born
<1>g. ASSUME NEW o \in Objects,
             \/ \E c \in Classes : SetClass(t, o, c)
             \/ \E v \in Values : SetVariable(t, o, v)
      PROVE  Calls'
  <2>1. Born(o)
    BY <1>6, <1>g DEF SetClass, SetVariable
  <2>2. /\ UNCHANGED <<freed, holds, pc, args, temps>>
        /\ \E i, v : Writes(o, i, v)
    BY <1>g DEF SetClass, SetVariable, Writes
  <2>3. \A x \in Objects : Unborn(x)' => Unborn(x)
    BY <1>f, <2>1, <2>2
  <2>4. Good(t)'
    BY <1>3, <1>4, <2>2, <2>3
  <2> QED BY <1>7, <2>2, <2>3, <2>4
<1>h. ASSUME NEW o \in Objects, NEW u \in Threads, Retain(t, u, o) PROVE Calls'
  <2>1. Born(o)
    BY <1>6, <1>h DEF Retain
  <2>2. Writes(o, 1, mem[o][1] + 1) /\ UNCHANGED <<freed, pc, args, temps>>
    BY <1>h DEF Retain, Writes
  <2>3. \A x \in Objects : Unborn(x)' => Unborn(x)
    BY <1>f, <2>1, <2>2
  <2>4. \A w \in Threads, x \in Objects : holds[w][x] > 0 => holds'[w][x] > 0
    BY <1>4, <1>h DEF Retain
  <2>5. Good(t)'
    BY <1>3, <1>4, <2>2, <2>3, <2>4
  <2> QED BY <1>7, <2>2, <2>3, <2>4, <2>5
<1>i. ASSUME NEW o \in Objects, Release(t, o) PROVE Calls'
  <2>1. Born(o) /\ RetainCount(o) - 1 \in Nat
    <3>1. Born(o) /\ RetainCount(o) \in Nat /\ RetainCount(o) >= 1
      BY <1>i, HeldIs DEF Release
    <3> QED BY <3>1
  <2>2. Writes(o, 1, mem[o][1] - 1) /\ UNCHANGED <<freed, tbl>>
    BY <1>i DEF Release, Writes
  <2>3. \A x \in Objects : Unborn(x)' => Unborn(x)
    BY <1>f, <2>1, <2>2
  <2>4. \A w \in Threads \ {t}, x \in Objects : holds[w][x] > 0 => holds'[w][x] > 0
    BY <1>4, <1>i DEF Release
  <2>5. Others /\ Good(t)'
    BY <1>4, <1>i, <2>1, <2>3 DEF Release, Unborn, Born
  <2> QED BY <1>7, <2>3, <2>4, <2>5
<1>j. ASSUME CountTest(t) PROVE Calls'
  <2>1. CASE Leave(t) /\ UNCHANGED <<memory, holds>>
    BY <1>8, <1>9, <2>1
  <2>2. CASE UNCHANGED <<mem, freed, holds, pc, args, temps>>
    BY <1>10, <2>2
  <2>3. CASE pc' = [pc EXCEPT ![t] = "d_table"] /\ UNCHANGED <<args, temps, memory, holds>>
                /\ pc[t] = "k_test"
    BY <1>3, <1>4, <1>8, <2>3 DEF Unborn
  <2> QED BY <1>j, <2>1, <2>2, <2>3 DEF CountTest, Faulted
<1>k. ASSUME DestroyTable(t) PROVE Calls'
  <2>1. mem[obj[t]][AoAt(obj[t])] \in Tables \cup {Null}
    BY <1>k, UsedIs, BornIs DEF DestroyTable
  <2> QED BY <1>3, <1>4, <1>8, <1>k, <2>1 DEF DestroyTable, Unborn
<1>l. ASSUME DestroyBucket(t) PROVE Calls'
  <2>1. CASE UNCHANGED pos
    BY <1>10, <1>l, <2>1 DEF DestroyBucket, Faulted
  <2>2. CASE ~UNCHANGED pos
    BY <1>3, <1>4, <1>8, <1>l, <2>2 DEF DestroyBucket, Faulted, Unborn
  <2> QED BY <2>1, <2>2
<1>m. ASSUME FreeTable(t) PROVE Calls'
  <2>1. \A x \in Objects : freed'[x] = freed[x]
    BY <1>3, <1>5, <1>m DEF FreeTable
  <2>2. \A x \in Objects : Unborn(x)' => Unborn(x)
    BY <1>m, <2>1 DEF FreeTable, Unborn
  <2> QED BY <1>3, <1>4, <1>7, <1>m, <2>2 DEF FreeTable
<1>n. ASSUME FreeObject(t) PROVE Calls'
  <2>1. \A x \in Objects : Unborn(x)' => Unborn(x)
    BY <1>3, <1>5, <1>n DEF FreeObject, Unborn
  <2> QED BY <1>7, <1>9, <1>n, <2>1 DEF FreeObject
<1>o. ASSUME NEW o \in Objects, NEW k \in Keys, BeginGet(t, o, k) PROVE Calls'
  <2>1. Born(o)
    BY <1>6, <1>o DEF BeginGet
  <2> QED BY <1>3, <1>4, <1>8, <1>o, <2>1 DEF BeginGet, Unborn, Born
<1>p. ASSUME NEW o \in Objects, NEW k \in Keys, NEW v \in Values, BeginSet(t, o, k, v)
      PROVE  Calls'
  <2>1. Born(o)
    BY <1>6, <1>p DEF BeginSet
  <2> QED BY <1>3, <1>4, <1>8, <1>p, <2>1 DEF BeginSet, Unborn, Born
<1>q. ASSUME GetLoad(t) PROVE Calls'
  <2>1. /\ pc' \in {[pc EXCEPT ![t] = "g_ret"], [pc EXCEPT ![t] = "g_bucket"]}
        /\ pc[t] = "g_load" /\ UNCHANGED <<mem, freed, holds, obj, count>>
        /\ \A u \in Threads \ {t} : tbl'[u] = tbl[u]
    BY <1>4, <1>q DEF GetLoad
  <2> QED BY <1>3, <1>4, <1>8, <2>1 DEF Unborn
<1>r. ASSUME GetBucket(t) \/ GetWalk(t) PROVE Calls'
  <2>1. /\ pc' \in {[pc EXCEPT ![t] = "g_ret"], [pc EXCEPT ![t] = "g_walk"], pc}
        /\ pc[t] \in {"g_bucket", "g_walk"} /\ UNCHANGED <<mem, freed, holds, obj, count, tbl>>
    BY <1>4, <1>r DEF GetBucket, GetWalk
  <2> QED BY <1>3, <1>4, <1>8, <2>1 DEF Unborn
<1>s. ASSUME GetReturn(t) PROVE Calls'
  BY <1>8, <1>9, <1>s DEF GetReturn
<1>t. ASSUME SetLoad(t) PROVE Calls'
  BY <1>3, <1>4, <1>8, <1>t DEF SetLoad, Unborn
<1>u. ASSUME SetTable(t) PROVE Calls'
  <2>1. PICK tb \in Tables \ used : /\ tbl' = [tbl EXCEPT ![t] = tb]
                                    /\ Writes(obj[t], AoAt(obj[t]), tb)
    BY <1>u DEF SetTable, Writes
  <2>2. obj[t] \in Objects /\ Born(obj[t]) /\ UNCHANGED freed
    BY <1>u, UsedIs DEF SetTable
  <2>3. \A x \in Objects : Unborn(x)' => Unborn(x)
    BY <1>f, <2>1, <2>2
  <2>4. /\ pc' = [pc EXCEPT ![t] = "s_bucket"] /\ pc[t] = "s_table"
        /\ UNCHANGED <<obj, holds, count>>
    BY <1>u DEF SetTable
  <2>5. Others /\ Good(t)'
    BY <1>3, <1>4, <2>1, <2>3, <2>4
  <2> QED BY <1>7, <2>3, <2>4, <2>5
<1>v. ASSUME SetBucket(t) \/ SetNext(t) PROVE Calls'
  BY <1>3, <1>4, <1>8, <1>v DEF SetBucket, SetNext, Unborn
<1>w. ASSUME SetFirst(t) \/ SetFound(t) \/ SetLink(t) PROVE Calls'
  <2>1. Leave(t) /\ UNCHANGED <<mem, freed, holds>>
    BY <1>w DEF SetFirst, SetFound, SetLink, Store
  <2> QED BY <1>8, <1>9, <2>1
<1> QED BY <1>1, <1>a, <1>b, <1>c, <1>d, <1>e, <1>g, <1>h, <1>i, <1>j, <1>k, <1>l,
           <1>m, <1>n, <1>o, <1>p, <1>q, <1>r, <1>s, <1>t, <1>u, <1>v, <1>w
        DEF Begin, Finish, Step, EndStep, AssocStep

(* Nobody has a reference to an object that a thread is about to free. *)
LEMMA EndedIs ==
  ASSUME Shapes, Refs, NEW t \in Threads, NEW o \in Objects, Ends(t, o)
  PROVE  \A u \in Threads : holds[u][o] = 0
<1>1. Born(o) /\ RetainCount(o) = 0
  BY DEF Refs, RefsOf
<1> SUFFICES ASSUME NEW u \in Threads, holds[u][o] # 0 PROVE FALSE
  OBVIOUS
<1>2. holds[u][o] > 0
  BY DEF Shapes
<1> QED BY <1>1, <1>2, HeldIs

(* An object to which somebody has a reference keeps its size. *)
LEMMA SizeKept ==
  ASSUME Shapes, Calls, Sizes, Refs, SwapsKeepSize, Next,
         NEW w \in Threads, NEW p \in Objects, holds[w][p] > 0
  PROVE  InstanceSize[IsaOf(p)]' = InstanceSize[IsaOf(p)]
<1>1. PICK t \in Threads : Begin(t) \/ Finish(t) \/ Step(t)
  BY DEF Next
<1>2. Born(p) /\ DOMAIN mem = Objects
  BY HeldIs DEF Shapes
<1>3. ASSUME NEW o \in Objects, NEW i, NEW v, Writes(o, i, v), Born(o),
             i = 0 => v \in Classes /\ InstanceSize[v] = InstanceSize[IsaOf(o)]
      PROVE  InstanceSize[IsaOf(p)]' = InstanceSize[IsaOf(p)]
  <2>1. CASE p # o
    BY <1>3, <2>1, WriteWord DEF IsaOf
  <2>2. CASE p = o
    <3>1. mem'[p][0] = IF 0 = i THEN v ELSE mem[p][0]
      BY <1>3, <2>2, WriteWord, BornIs
    <3> QED BY <1>3, <2>2, <3>1 DEF IsaOf
  <2> QED BY <2>1, <2>2
<1>4. CASE mem' = mem
  BY <1>4 DEF IsaOf
<1>a. ASSUME NEW o \in Objects, Unborn(o), NEW x, mem' = [mem EXCEPT ![o] = x]
      PROVE  InstanceSize[IsaOf(p)]' = InstanceSize[IsaOf(p)]
  <2>1. p # o
    BY <1>2, <1>a DEF Unborn, Born
  <2> QED BY <1>2, <1>a, <2>1 DEF IsaOf
<1>b. ASSUME Make(t) PROVE InstanceSize[IsaOf(p)]' = InstanceSize[IsaOf(p)]
  BY <1>a, <1>b DEF Make, Fresh
<1>c. ASSUME CopyMemory(t) PROVE InstanceSize[IsaOf(p)]' = InstanceSize[IsaOf(p)]
  BY <1>4, <1>a, <1>c DEF CopyMemory, Fresh, Faulted, memory
<1>d. ASSUME NEW o \in Objects, NEW c \in Classes, SetClass(t, o, c)
      PROVE  InstanceSize[IsaOf(p)]' = InstanceSize[IsaOf(p)]
  <2>1. Writes(o, 0, c) /\ Born(o) /\ InstanceSize[c] = InstanceSize[IsaOf(o)]
    BY <1>d, HeldIs DEF SetClass, Writes, SwapsKeepSize
  <2> QED BY <1>3, <2>1
<1>e. ASSUME NEW o \in Objects, NEW v \in Values, SetVariable(t, o, v)
      PROVE  InstanceSize[IsaOf(p)]' = InstanceSize[IsaOf(p)]
  <2>1. Writes(o, IvarAt, v) /\ Born(o)
    BY <1>e, HeldIs DEF SetVariable, Writes
  <2>2. IvarAt # 0
    BY <2>1, BornIs
  <2> QED BY <1>3, <2>1, <2>2
<1>f. ASSUME NEW o \in Objects, Release(t, o) \/ \E u \in Threads : Retain(t, u, o)
      PROVE  InstanceSize[IsaOf(p)]' = InstanceSize[IsaOf(p)]
  <2>1. \E v : Writes(o, 1, v) /\ Born(o)
    BY <1>f, HeldIs DEF Retain, Release, Writes
  <2> QED BY <1>3, <2>1
<1>g. ASSUME SetTable(t) PROVE InstanceSize[IsaOf(p)]' = InstanceSize[IsaOf(p)]
  <2>1. obj[t] \in Objects /\ Born(obj[t]) /\ \E v : Writes(obj[t], AoAt(obj[t]), v)
    BY <1>g, UsedIs DEF SetTable, UsePCs, SetPCs, Writes
  <2>2. AoAt(obj[t]) # 0
    BY <2>1, BornIs
  <2> QED BY <1>3, <2>1, <2>2
<1>h. ASSUME FreeObject(t) PROVE InstanceSize[IsaOf(p)]' = InstanceSize[IsaOf(p)]
  <2>1. obj[t] # p
    BY <1>h, EndedIs DEF FreeObject, Ends, DeallocPCs
  <2> QED BY <1>2, <1>h, <2>1 DEF FreeObject, IsaOf
<1> QED BY <1>1, <1>4, <1>b, <1>c, <1>d, <1>e, <1>f, <1>g, <1>h
        DEF Begin, Finish, Step, SizeStep, EndStep, AssocStep, BeginAlloc, BeginCopy, BeginGet,
            BeginSet, SizeTest, SizeLoad, SizeStore, SizeReturn, CountTest, DestroyTable,
            DestroyBucket, FreeTable, GetLoad, GetBucket, GetWalk, GetReturn, SetLoad, SetBucket, SetFirst,
            SetFound, SetLink, SetNext, Store, Faulted, memory

LEMMA CopyFits ==
  ASSUME Shapes, Calls, Sizes, Refs, NEW t \in Threads, pc[t] = "copy"
  PROVE  ~(size[t] > Allocated(obj[t]))
<1>1. /\ obj[t] \in Objects /\ Born(obj[t])
      /\ size[t] = InstanceSize[cls[t]] + ObjectSpace
  BY UsedIs DEF UsePCs, Sizes
<1>2. InstanceSize[IsaOf(obj[t])] = InstanceSize[cls[t]]
  BY <1>1, Constants DEF Sizes
<1>3. DOMAIN mem[obj[t]] = Room(IsaOf(obj[t])) /\ InstanceSize[IsaOf(obj[t])] \in Nat
  BY <1>1, Constants DEF Shapes
<1>4. Allocated(obj[t]) = InstanceSize[IsaOf(obj[t])] + ObjectSpace
  BY <1>3, RoomHas DEF Allocated
<1> QED BY <1>1, <1>2, <1>3, <1>4, SpaceIs

LEMMA SizesStep ==
  ASSUME Shapes, Calls, Sizes, Refs, OneFirstSizer, SwapsKeepSize, Next
  PROVE  Sizes'
<1>1. PICK t \in Threads : Begin(t) \/ Finish(t) \/ Step(t)
  BY DEF Next
<1> USE DEF SizePCs, SetPCs, GetPCs, DeallocPCs, OtherPCs, SizeIsCached
<1>2. /\ pc \in [Threads -> {"idle"} \cup SizePCs \cup SetPCs \cup GetPCs
                            \cup DeallocPCs \cup OtherPCs]
      /\ obj \in [Threads -> Objects \cup {Null}] /\ cls \in [Threads -> Classes \cup {Null}]
      /\ ext \in [Threads -> Nat] /\ sum \in [Threads -> Nat] /\ size \in [Threads -> Nat]
      /\ Null \notin Objects /\ cached \in Nat /\ Len(Spaces) \in Nat /\ Len(Spaces) > 0
      /\ ObjectSpace \in Nat /\ ObjectSpace > 0
  <2>1. Null \notin Objects /\ Len(Spaces) \in Nat /\ Len(Spaces) > 0
    BY Constants
  <2>2. ObjectSpace \in Nat /\ ObjectSpace > 0
    BY SpaceIs
  <2> QED BY <2>1, <2>2, Zenon DEF Shapes
<1> DEFINE Good(u) ==
      /\ pc[u] = "z_test" => SizeIsCached \/ u \in FirstSizers
      /\ pc[u] \in {"z_load", "z_store"} =>
           u \in FirstSizers /\ ext[u] \in 1..Len(Spaces) /\ cached = SpaceUpTo[ext[u] - 1]
      /\ pc[u] = "z_store" => sum[u] = SpaceUpTo[ext[u]]
      /\ pc[u] = "z_ret" => SizeIsCached
      /\ pc[u] \in {"make", "copy"} => size[u] = InstanceSize[cls[u]] + ObjectSpace
      /\ pc[u] \in SizePCs \cup {"make", "copy"} => cls[u] \in Classes
      /\ pc[u] \in SizePCs \cup {"copy"} /\ obj[u] # Null =>
           InstanceSize[IsaOf(obj[u])] = InstanceSize[cls[u]]
    Sum == (\A u \in Threads : pc[u] \notin {"z_load", "z_store"}) => cached \in {0, ObjectSpace}
<1>3. /\ Sizes <=> (\A u \in Threads : Good(u)) /\ Sum /\ fault # "overread"
      /\ Sizes' <=> (\A u \in Threads : Good(u)') /\ Sum' /\ fault' # "overread"
  BY DEF Sizes
<1>4. Good(t) /\ Sum /\ fault # "overread"
  BY <1>3
<1>6. ASSUME NEW u \in Threads, pc[u] \in SizePCs \cup {"copy"}, obj[u] # Null, obj'[u] = obj[u],
             cls'[u] = cls[u]
      PROVE  InstanceSize[IsaOf(obj[u])]' = InstanceSize[cls[u]]'
  <2>1. obj[u] \in Objects /\ holds[u][obj[u]] > 0
    BY <1>2, <1>6 DEF Calls, UsePCs
  <2>2. InstanceSize[IsaOf(obj[u])] = InstanceSize[cls[u]]
    BY <1>3, <1>6
  <2>3. \A p \in Objects : holds[u][p] > 0 => InstanceSize[IsaOf(p)]' = InstanceSize[IsaOf(p)]
    BY SizeKept
  <2>4. InstanceSize[mem'[obj[u]][0]] = InstanceSize[IsaOf(obj[u])]
    BY <2>1, <2>3 DEF IsaOf
  <2> QED BY <1>6, <2>2, <2>4 DEF IsaOf
<1> DEFINE Others == \A u \in Threads \ {t} :
             /\ pc'[u] = pc[u] /\ obj'[u] = obj[u] /\ cls'[u] = cls[u]
             /\ ext'[u] = ext[u] /\ sum'[u] = sum[u] /\ size'[u] = size[u]
(* A step of t that leaves the cached sum alone. *)
<1>7. ASSUME Others, cached' = cached, Good(t)', fault' # "overread",
             pc[t] \in {"z_load", "z_store"} => pc'[t] \in {"z_load", "z_store"}
      PROVE  Sizes'
  <2>1. ASSUME NEW u \in Threads, u # t PROVE Good(u)'
    <3>1. Good(u)
      BY <1>3
    <3> QED BY <1>6, <1>7, <2>1, <3>1
  <2>2. Sum'
    BY <1>2, <1>4, <1>7
  <2> QED BY <1>3, <1>7, <2>1, <2>2
<1>8. ASSUME Others, cached' = cached, pc[t] \notin SizePCs, fault' = fault,
             pc'[t] \notin SizePCs \cup {"make", "copy"}
      PROVE  Sizes'
  BY <1>4, <1>7, <1>8
<1> USE DEF Goto, Set, memory, args, temps, history
<1>9. ASSUME Leave(t) PROVE Others /\ pc'[t] = "idle"
  BY <1>2, <1>9 DEF Leave
<1>10. ASSUME UNCHANGED <<cached, pc, args, temps>>, fault' # "overread" PROVE Sizes'
  <2>1. Good(t)'
    BY <1>4, <1>6, <1>10
  <2> QED BY <1>7, <1>10, <2>1
<1>a. ASSUME SizeStep(t) PROVE Sizes'
  <2>1. CASE SizeTest(t)
    <3>1. cached # 0 => SizeIsCached
      <4>1. CASE SizeIsCached
        BY <4>1
      <4>2. CASE ~SizeIsCached
        <5>1. \A u \in Threads : pc[u] \notin {"z_load", "z_store"}
          <6>1. t \in FirstSizers /\ pc[t] = "z_test"
            BY <1>4, <2>1, <4>2 DEF SizeTest
          <6>2. \A u \in Threads : pc[u] \in {"z_load", "z_store"} => u \in FirstSizers
            BY <1>3
          <6> QED BY <6>1, <6>2 DEF OneFirstSizer
        <5> QED BY <1>4, <5>1
      <4> QED BY <4>1, <4>2
    <3>2. Spaces # <<>>
      BY <1>2
    <3>3. cached = 0 => t \in FirstSizers
      BY <1>2, <1>4, <2>1 DEF SizeTest
    <3>4. /\ ext' = [ext EXCEPT ![t] = 1] /\ pc[t] = "z_test"
          /\ pc' = [pc EXCEPT ![t] = IF cached # 0 THEN "z_ret" ELSE "z_load"]
          /\ UNCHANGED <<cached, obj, cls, sum, size, fault>>
      BY <2>1, <3>2 DEF SizeTest
    <3>5. Good(t)'
      <4>1. obj[t] # Null => InstanceSize[IsaOf(obj[t])]' = InstanceSize[cls[t]]'
        BY <1>6, <3>4
      <4> QED BY <1>2, <1>4, <3>1, <3>3, <3>4, <4>1, SpaceUpToIs
    <3> QED BY <1>2, <1>4, <1>7, <3>4, <3>5
  <2>2. CASE SizeLoad(t)
    <3>1. /\ sum' = [sum EXCEPT ![t] = cached + Spaces[ext[t]]] /\ pc[t] = "z_load"
          /\ pc' = [pc EXCEPT ![t] = "z_store"]
          /\ UNCHANGED <<cached, obj, cls, ext, size, fault>>
      BY <2>2 DEF SizeLoad
    <3>2. cached + Spaces[ext[t]] = SpaceUpTo[ext[t]]
      BY <1>4, <3>1, SpaceUpToIs
    <3>3. Good(t)'
      <4>1. obj[t] # Null => InstanceSize[IsaOf(obj[t])]' = InstanceSize[cls[t]]'
        BY <1>6, <3>1
      <4> QED BY <1>2, <1>4, <3>1, <3>2, <4>1
    <3> QED BY <1>2, <1>4, <1>7, <3>1, <3>3
  <2>3. CASE SizeStore(t)
    <3>1. /\ cached' = SpaceUpTo[ext[t]] /\ pc[t] = "z_store" /\ t \in FirstSizers
          /\ ext[t] \in 1..Len(Spaces) /\ cached = SpaceUpTo[ext[t] - 1]
      BY <1>4, <2>3 DEF SizeStore
    <3>2. /\ ext' = [ext EXCEPT ![t] = @ + 1]
          /\ pc' = [pc EXCEPT ![t] = IF ext[t] < Len(Spaces) THEN "z_load" ELSE "z_ret"]
          /\ UNCHANGED <<obj, cls, sum, size, fault>>
      BY <2>3 DEF SizeStore
    <3>3. SizeIsCached => cached' = ObjectSpace
      <4>1. /\ ext[t] - 1 \in 0..Len(Spaces) /\ ext[t] \in (ext[t] - 1)..Len(Spaces)
            /\ ext[t] \in 0..Len(Spaces) /\ Len(Spaces) \in ext[t]..Len(Spaces)
            /\ Len(Spaces) \in 0..Len(Spaces)
        BY <1>2, <3>1
      <4>2. /\ SpaceUpTo[ext[t] - 1] <= SpaceUpTo[ext[t]]
            /\ SpaceUpTo[ext[t]] <= SpaceUpTo[Len(Spaces)]
        BY <4>1, SpaceGrows
      <4>3. SpaceUpTo[ext[t]] \in Nat
        BY <4>1, SpaceUpToIs
      <4> QED BY <1>2, <3>1, <4>2, <4>3 DEF ObjectSpace
    <3>4. \A u \in Threads : u # t => pc[u] \notin {"z_load", "z_store"}
      BY <1>3, <3>1 DEF OneFirstSizer
    <3>5. ASSUME NEW u \in Threads, u # t PROVE Good(u)'
      <4>1. Good(u) /\ pc[u] \notin {"z_load", "z_store"}
        BY <1>3, <3>4, <3>5
      <4>2. /\ pc'[u] = pc[u] /\ obj'[u] = obj[u] /\ cls'[u] = cls[u] /\ size'[u] = size[u]
        BY <1>2, <3>2, <3>5
      <4> QED BY <1>6, <3>3, <4>1, <4>2
    <3>6. Good(t)'
      <4>1. obj[t] # Null => InstanceSize[IsaOf(obj[t])]' = InstanceSize[cls[t]]'
        BY <1>6, <3>1, <3>2
      <4>2. CASE ext[t] < Len(Spaces)
        <5>1. ext'[t] = ext[t] + 1 /\ pc'[t] = "z_load"
          BY <1>2, <3>2, <4>2
        <5>2. ext[t] + 1 - 1 = ext[t] /\ ext[t] + 1 \in 1..Len(Spaces)
          BY <1>2, <3>1, <4>2
        <5> QED BY <1>2, <1>4, <3>1, <3>2, <4>1, <5>1, <5>2
      <4>3. CASE ~(ext[t] < Len(Spaces))
        <5>1. ext[t] = Len(Spaces) /\ pc'[t] = "z_ret"
          BY <1>2, <3>1, <3>2, <4>3
        <5> QED BY <1>2, <1>4, <3>1, <3>2, <4>1, <5>1 DEF ObjectSpace
      <4> QED BY <4>2, <4>3
    <3>7. Sum'
      <4>1. CASE ext[t] < Len(Spaces)
        BY <1>2, <3>2, <4>1
      <4>2. CASE ~(ext[t] < Len(Spaces))
        BY <1>2, <3>1, <4>2 DEF ObjectSpace
      <4> QED BY <4>1, <4>2
    <3> QED BY <1>3, <1>4, <3>2, <3>5, <3>6, <3>7
  <2>4. CASE SizeReturn(t)
    <3>1. /\ size' = [size EXCEPT ![t] = InstanceSize[cls[t]] + cached] /\ pc[t] = "z_ret"
          /\ pc' = [pc EXCEPT ![t] = IF obj[t] = Null THEN "make" ELSE "copy"]
          /\ UNCHANGED <<cached, obj, cls, ext, sum, fault>>
      BY <2>4 DEF SizeReturn, WithSpace, AfterSize
    <3>2. Good(t)'
      <4>1. obj[t] # Null => InstanceSize[IsaOf(obj[t])]' = InstanceSize[cls[t]]'
        BY <1>6, <3>1
      <4> QED BY <1>2, <1>4, <3>1, <4>1
    <3> QED BY <1>2, <1>4, <1>7, <3>1, <3>2
  <2> QED BY <1>a, <2>1, <2>2, <2>3, <2>4 DEF SizeStep
<1>b. ASSUME NEW c \in Made, BeginAlloc(t, c) PROVE Sizes'
  <2>1. CASE c \in Unfinished
    BY <1>b, <1>10, <2>1 DEF BeginAlloc, Faulted
  <2>2. CASE c \notin Unfinished
    <3>1. /\ cls' = [cls EXCEPT ![t] = c] /\ pc' = [pc EXCEPT ![t] = "z_test"] /\ pc[t] = "idle"
          /\ SizeIsCached \/ t \in FirstSizers
          /\ UNCHANGED <<cached, obj, ext, sum, size, fault>>
      BY <1>b, <2>2 DEF BeginAlloc, MayAsk
    <3>2. obj[t] = Null /\ c \in Classes
      BY <3>1, Constants DEF Calls
    <3>3. Good(t)'
      BY <1>2, <3>1, <3>2
    <3> QED BY <1>2, <1>4, <1>7, <3>1, <3>3
  <2> QED BY <2>1, <2>2
<1>c. ASSUME Make(t) PROVE Sizes'
  BY <1>2, <1>8, <1>9, <1>c DEF Make
<1>d. ASSUME NEW o \in Objects, BeginCopy(t, o) PROVE Sizes'
  <2>1. /\ cls' = [cls EXCEPT ![t] = IsaOf(o)] /\ obj' = [obj EXCEPT ![t] = o]
        /\ pc' = [pc EXCEPT ![t] = "z_test"] /\ pc[t] = "idle" /\ mem' = mem
        /\ SizeIsCached \/ t \in FirstSizers
        /\ UNCHANGED <<cached, ext, sum, size, fault>>
    BY <1>d DEF BeginCopy, MayAsk
  <2>2. IsaOf(o) \in Classes
    BY <1>d, HeldIs, BornIs DEF BeginCopy
  <2>3. Good(t)'
    BY <1>2, <2>1, <2>2 DEF IsaOf
  <2> QED BY <1>2, <1>4, <1>7, <2>1, <2>3
<1>e. ASSUME CopyMemory(t) PROVE Sizes'
  <2>1. Leave(t) /\ UNCHANGED <<cached, fault>> /\ pc[t] = "copy"
    BY <1>e, CopyFits DEF CopyMemory
  <2> QED BY <1>8, <1>9, <2>1
<1>f. ASSUME NEW o \in Objects,
             \/ \E c \in Classes : SetClass(t, o, c)
             \/ \E v \in Values : SetVariable(t, o, v)
             \/ \E u \in Threads : Retain(t, u, o)
      PROVE  Sizes'
  BY <1>4, <1>10, <1>f DEF SetClass, SetVariable, Retain
<1>i. ASSUME NEW o \in Objects, Release(t, o) PROVE Sizes'
  BY <1>2, <1>8, <1>i DEF Release
<1>j. ASSUME CountTest(t) PROVE Sizes'
  <2>1. CASE Leave(t) /\ UNCHANGED <<memory, fault>> /\ pc[t] = "k_test"
    BY <1>8, <1>9, <2>1
  <2>2. CASE UNCHANGED <<memory, pc, args, temps>> /\ fault' = "abort"
    BY <1>10, <2>2
  <2>3. CASE pc' = [pc EXCEPT ![t] = "d_table"] /\ UNCHANGED <<args, temps, memory, fault>>
                /\ pc[t] = "k_test"
    BY <1>2, <1>8, <2>3
  <2> QED BY <1>j, <2>1, <2>2, <2>3 DEF CountTest, Faulted
<1>k. ASSUME DestroyTable(t) \/ FreeTable(t) PROVE Sizes'
  BY <1>2, <1>8, <1>k DEF DestroyTable, FreeTable
<1>l. ASSUME DestroyBucket(t) PROVE Sizes'
  <2>1. CASE chain[tbl[t]][pos[t]] = <<>>
    <3>1. UNCHANGED <<memory, pc, args, temps>> /\ fault' = "null_bucket"
      BY <1>l, <2>1 DEF DestroyBucket, Faulted
    <3> QED BY <1>10, <3>1
  <2>2. CASE chain[tbl[t]][pos[t]] # <<>>
    <3>1. UNCHANGED <<cached, pc, args, ext, sum, size, fault>> /\ pc[t] = "d_bucket"
      BY <1>l, <2>2 DEF DestroyBucket
    <3> QED BY <1>2, <1>8, <3>1
  <2> QED BY <2>1, <2>2
<1>n. ASSUME FreeObject(t) \/ GetReturn(t) PROVE Sizes'
  BY <1>8, <1>9, <1>n DEF FreeObject, GetReturn
<1>o. ASSUME NEW o \in Objects, NEW k \in Keys,
             BeginGet(t, o, k) \/ \E v \in Values : BeginSet(t, o, k, v)
      PROVE  Sizes'
  BY <1>2, <1>8, <1>o DEF BeginGet, BeginSet
<1>q. ASSUME GetLoad(t) PROVE Sizes'
  <2>1. /\ pc' \in {[pc EXCEPT ![t] = "g_ret"], [pc EXCEPT ![t] = "g_bucket"]}
        /\ pc[t] = "g_load" /\ UNCHANGED <<cached, obj, cls, ext, sum, size, fault>>
    BY <1>q DEF GetLoad
  <2> QED BY <1>2, <1>8, <2>1
<1>r. ASSUME GetBucket(t) \/ GetWalk(t) PROVE Sizes'
  <2>1. /\ pc' \in {[pc EXCEPT ![t] = "g_ret"], [pc EXCEPT ![t] = "g_walk"], pc}
        /\ pc[t] \in {"g_bucket", "g_walk"} /\ UNCHANGED <<cached, obj, cls, ext, sum, size, fault>>
    BY <1>r DEF GetBucket, GetWalk
  <2> QED BY <1>2, <1>8, <2>1
<1>t. ASSUME SetLoad(t) \/ SetTable(t) \/ SetBucket(t) \/ SetNext(t) PROVE Sizes'
  BY <1>2, <1>8, <1>t DEF SetLoad, SetTable, SetBucket, SetNext
<1>w. ASSUME SetFirst(t) \/ SetFound(t) \/ SetLink(t) PROVE Sizes'
  <2>1. Leave(t) /\ UNCHANGED <<cached, fault>> /\ pc[t] \in SetPCs
    BY <1>w DEF SetFirst, SetFound, SetLink, Store
  <2> QED BY <1>8, <1>9, <2>1
<1> QED BY <1>1, <1>a, <1>b, <1>c, <1>d, <1>e, <1>f, <1>i, <1>j, <1>k, <1>l,
           <1>n, <1>o, <1>q, <1>r, <1>t, <1>w
        DEF Begin, Finish, Step, EndStep, AssocStep


(* What keeps the facts about an object, or about all. *)
SameRefs(o) ==
  /\ Born(o)' <=> Born(o)
  /\ Born(o) => RetainCount(o)' = RetainCount(o)
  /\ freed'[o] = freed[o]
  /\ \A t \in Threads : holds'[t][o] = holds[t][o]
  /\ o \in copied' <=> o \in copied
  /\ \A t \in Threads : Ends(t, o)' <=> Ends(t, o)

LEMMA RefsKept ==
  ASSUME NEW o \in Objects, RefsOf(o), SameRefs(o)
  PROVE  RefsOf(o)'
<1>1. References(o)' = References(o)
  <2>1. Owned(holds', o) = Owned(holds, o)
    BY OwnedAlike DEF SameRefs
  <2>2. References(o)' = Cardinality(Owned(holds', o))
    BY DEF References, Owned
  <2> QED BY <2>1, <2>2, ReferencesAre
<1> QED BY <1>1 DEF RefsOf, SameRefs

LEMMA RefsStep ==
  ASSUME Shapes, Calls, Sizes, Refs, SwapsKeepSize, Next
  PROVE  Refs'
<1>1. PICK t \in Threads : Begin(t) \/ Finish(t) \/ Step(t)
  BY DEF Next
<1> USE DEF DeallocPCs
<1>2. /\ pc \in [Threads -> {"idle"} \cup SizePCs \cup SetPCs \cup GetPCs
                            \cup DeallocPCs \cup OtherPCs]
      /\ obj \in [Threads -> Objects \cup {Null}] /\ count \in [Threads -> Int]
      /\ holds \in [Threads -> [Objects -> 0..MaxHeld]] /\ DOMAIN mem = Objects
      /\ freed \in [Objects \cup Tables -> Nat]
  BY DEF Shapes
<1> DEFINE Others == \A u \in Threads \ {t} :
             pc'[u] = pc[u] /\ obj'[u] = obj[u] /\ count'[u] = count[u]
    EndPCs == DeallocPCs \cup {"k_test"}
<1>3. ASSUME Others PROVE \A u \in Threads \ {t}, o \in Objects : Ends(u, o)' <=> Ends(u, o)
  BY <1>3 DEF Ends
(* A step about no count, of a thread that ends nothing. *)
<1>4. ASSUME NEW o \in Objects, mem'[o] = mem[o], freed'[o] = freed[o],
             \A u \in Threads : holds'[u][o] = holds[u][o], o \in copied' <=> o \in copied,
             Others, Ends(t, o)' <=> Ends(t, o)
      PROVE  RefsOf(o)'
  <2>1. \A u \in Threads : Ends(u, o)' <=> Ends(u, o)
    BY <1>3, <1>4
  <2>2. SameRefs(o)
    BY <1>4, <2>1 DEF SameRefs, Born, RetainCount
  <2> QED BY <2>2, RefsKept DEF Refs
<1>5. ASSUME UNCHANGED <<mem, freed, holds, copied>>, Others,
             \A o \in Objects : Ends(t, o)' <=> Ends(t, o)
      PROVE  Refs'
  BY <1>4, <1>5 DEF Refs
<1>6. ASSUME pc[t] \notin EndPCs, pc'[t] \notin EndPCs
      PROVE  \A o \in Objects : ~Ends(t, o) /\ ~Ends(t, o)'
  BY <1>6 DEF Ends
<1>7. ASSUME UNCHANGED <<mem, freed, holds, copied>>, Others,
             pc[t] \notin EndPCs, pc'[t] \notin EndPCs
      PROVE  Refs'
  BY <1>5, <1>6, <1>7
(* A word that is not the count is written. *)
<1>8. ASSUME NEW o \in Objects, NEW i, NEW v, Born(o), Writes(o, i, v), i # 1,
             UNCHANGED <<freed, holds, copied>>, Others,
             pc[t] \notin EndPCs, pc'[t] \notin EndPCs
      PROVE  Refs'
  <2>1. /\ \A p \in Objects : p # o => mem'[p] = mem[p]
        /\ \A p \in Objects : Born(p)' <=> Born(p)
        /\ \A j \in DOMAIN mem[o] : mem'[o][j] = IF j = i THEN v ELSE mem[o][j]
    BY <1>8, WriteWord
  <2>2. mem'[o][1] = mem[o][1]
    BY <1>8, <2>1, BornIs
  <2>3. \A p \in Objects : SameRefs(p)
    <3>1. \A p \in Objects : RetainCount(p)' = RetainCount(p)
      BY <2>1, <2>2 DEF RetainCount
    <3>2. \A u \in Threads, p \in Objects : Ends(u, p)' <=> Ends(u, p)
      BY <1>3, <1>6, <1>8
    <3> QED BY <1>8, <2>1, <3>1, <3>2 DEF SameRefs
  <2> QED BY <2>3, RefsKept DEF Refs
<1>9. ASSUME Leave(t) PROVE Others /\ pc'[t] = "idle"
  BY <1>2, <1>9 DEF Leave, Goto, Set
<1>10. ASSUME UNCHANGED <<mem, freed, holds, copied, pc, obj, count>> PROVE Refs'
  BY <1>5, <1>10 DEF Ends
(* An object nobody has heard of. *)
<1>11. ASSUME NEW o \in Objects, Unborn(o)
       PROVE  /\ \A u \in Threads : holds[u][o] = 0 /\ ~Ends(u, o)
              /\ Cardinality(Owned(holds, o)) = 0
  <2>1. \A u \in Threads : ~(holds[u][o] > 0) /\ ~Ends(u, o)
    BY <1>11 DEF Refs, RefsOf, Unborn, Born
  <2>2. \A u \in Threads : holds[u][o] = 0
    BY <1>2, <2>1
  <2> QED BY <1>2, <2>1, <2>2, OwnedNone
<1>12. ASSUME NEW o \in Objects, Unborn(o), holds' = [holds EXCEPT ![t][o] = 1], Born(o)',
              RetainCount(o)' \in Nat, RetainCount(o)' >= 1,
              o \notin copied' => RetainCount(o)' = 1,
              freed' = freed, Others, pc'[t] = "idle"
       PROVE  RefsOf(o)'
  <2>1. References(o)' = 1
    <3>0. holds[t][o] = 0 /\ Cardinality(Owned(holds, o)) = 0
      BY <1>11, <1>12
    <3>1. More(holds, holds', t, o) /\ holds[t][o] < MaxHeld
      BY <1>12, <3>0, Constants DEF More
    <3>2. Cardinality(Owned(holds', o)) = 0 + 1
      BY <1>2, <3>0, <3>1, OwnedMore
    <3> QED BY <3>2 DEF References, Owned
  <2>2. \A u \in Threads : ~Ends(u, o)'
    BY <1>3, <1>11, <1>12 DEF Ends
  <2>3. freed'[o] = 0
    BY <1>12 DEF Unborn
  <2> QED BY <1>12, <2>1, <2>2, <2>3 DEF RefsOf
<1> USE DEF Goto, Set, memory, args, temps, history
<1>a. ASSUME SizeStep(t) PROVE Refs'
  <2>1. /\ UNCHANGED <<mem, freed, holds, copied, obj, count>> /\ pc[t] \in SizePCs
        /\ \E l \in SizePCs \cup {"make", "copy"} : pc' = [pc EXCEPT ![t] = l]
    BY <1>a DEF SizeStep, SizeTest, SizeLoad, SizeStore, SizeReturn, AfterSize, SizePCs
  <2> QED BY <1>2, <1>7, <2>1 DEF SizePCs
<1>b. ASSUME NEW c \in Made, BeginAlloc(t, c) PROVE Refs'
  <2>1. CASE c \in Unfinished
    BY <1>10, <1>b, <2>1 DEF BeginAlloc, Faulted
  <2>2. CASE c \notin Unfinished
    BY <1>2, <1>7, <1>b, <2>2 DEF BeginAlloc
  <2> QED BY <2>1, <2>2
<1>c. ASSUME Make(t) PROVE Refs'
  <2>1. PICK o \in Objects :
          /\ Unborn(o)
          /\ mem' = [mem EXCEPT ![o] = [i \in 0..(size[t] - 1) |->
                       CASE i = 0 -> cls[t] [] i = 1 -> 1 [] OTHER -> Null]]
          /\ holds' = [holds EXCEPT ![t][o] = 1]
    BY <1>c DEF Make, Fresh
  <2>2. UNCHANGED <<freed, copied>> /\ pc[t] = "make" /\ pc'[t] = "idle" /\ Others
    BY <1>9, <1>c DEF Make
  <2>3. mem'[o][1] = 1 /\ Born(o)'
    <3>1. size[t] \in Nat /\ size[t] > 1
      <4>1. size[t] = InstanceSize[cls[t]] + ObjectSpace /\ cls[t] \in Classes
        BY <2>2 DEF Sizes
      <4>2. InstanceSize[cls[t]] \in Nat /\ ObjectSpace \in Nat /\ InstanceSize[cls[t]] > 2
        <5>1. IvarAt \in Nat /\ 2 <= IvarAt /\ IvarAt < InstanceSize[cls[t]]
          BY <4>1, Constants
        <5> QED BY <4>1, <5>1, Constants, SpaceIs
      <4> QED BY <4>1, <4>2
    <3>2. 0 \in DOMAIN mem'[o] /\ mem'[o][1] = 1
      BY <1>2, <2>1, <3>1
    <3> QED BY <3>2, NotEmpty DEF Born
  <2>4. RefsOf(o)'
    <3>1. RetainCount(o)' = 1
      BY <2>3 DEF RetainCount
    <3>2. RetainCount(o)' \in Nat /\ RetainCount(o)' >= 1 /\ freed' = freed
      BY <2>2, <3>1
    <3> QED BY <1>12, <2>1, <2>2, <2>3, <3>1, <3>2
  <2>5. ASSUME NEW p \in Objects, p # o PROVE RefsOf(p)'
    BY <1>2, <1>4, <1>6, <2>1, <2>2, <2>5
  <2> QED BY <2>4, <2>5 DEF Refs
<1>d. ASSUME NEW o \in Objects, BeginCopy(t, o) PROVE Refs'
  BY <1>2, <1>7, <1>d DEF BeginCopy
<1>e. ASSUME CopyMemory(t) PROVE Refs'
  <2>1. CASE size[t] > Allocated(obj[t])
    BY <1>10, <1>e, <2>1 DEF CopyMemory, Faulted
  <2>2. CASE ~(size[t] > Allocated(obj[t]))
    <3>1. PICK o \in Objects :
            /\ Unborn(o) /\ mem' = [mem EXCEPT ![o] = mem[obj[t]]]
            /\ holds' = [holds EXCEPT ![t][o] = 1] /\ copied' = copied \cup {o}
      BY <1>e, <2>2 DEF CopyMemory, Fresh
    <3>2. freed' = freed /\ pc[t] = "copy" /\ pc'[t] = "idle" /\ Others
      BY <1>9, <1>e, <2>2 DEF CopyMemory
    <3>3. obj[t] \in Objects /\ Born(obj[t]) /\ RetainCount(obj[t]) \in Nat
          /\ RetainCount(obj[t]) >= 1
      <4>1. obj[t] \in Objects /\ holds[t][obj[t]] > 0
        BY <3>2 DEF Calls, UsePCs
      <4> QED BY <4>1, HeldIs
    <3>4. RefsOf(o)'
      <4>1. mem'[o] = mem[obj[t]]
        BY <1>2, <3>1
      <4> QED BY <1>12, <3>1, <3>2, <3>3, <4>1 DEF RetainCount, Born
    <3>5. ASSUME NEW p \in Objects, p # o PROVE RefsOf(p)'
      BY <1>2, <1>4, <1>6, <3>1, <3>2, <3>5
    <3> QED BY <3>4, <3>5 DEF Refs
  <2> QED BY <2>1, <2>2
<1>f. ASSUME NEW o \in Objects, NEW c \in Classes, SetClass(t, o, c) PROVE Refs'
  <2>1. Writes(o, 0, c) /\ Born(o)
    BY <1>f, HeldIs DEF SetClass, Writes
  <2> QED BY <1>8, <1>f, <2>1 DEF SetClass
<1>g. ASSUME NEW o \in Objects, NEW v \in Values, SetVariable(t, o, v) PROVE Refs'
  <2>1. Writes(o, IvarAt, v) /\ Born(o)
    BY <1>g, HeldIs DEF SetVariable, Writes
  <2>2. IvarAt # 1
    BY <2>1, BornIs
  <2> QED BY <1>8, <1>g, <2>1, <2>2 DEF SetVariable
<1>h. ASSUME NEW u \in Threads, NEW o \in Objects, Retain(t, u, o) PROVE Refs'
  <2>1. /\ holds[t][o] > 0 /\ holds[u][o] < MaxHeld /\ Writes(o, 1, mem[o][1] + 1)
        /\ holds' = [holds EXCEPT ![u][o] = @ + 1] /\ pc[t] = "idle"
        /\ UNCHANGED <<freed, copied, pc, obj, count>>
    BY <1>h DEF Retain, Writes
  <2>2. Born(o) /\ freed[o] = 0 /\ RetainCount(o) \in Nat /\ RetainCount(o) >= 1
    BY <2>1, HeldIs
  <2>3. /\ \A p \in Objects : p # o => mem'[p] = mem[p]
        /\ Born(o)' /\ RetainCount(o)' = RetainCount(o) + 1
    BY <2>1, <2>2, WriteWord, BornIs DEF RetainCount
  <2>4. ASSUME NEW p \in Objects, p # o PROVE RefsOf(p)'
    <3>1. \A w \in Threads : holds'[w][p] = holds[w][p]
      BY <1>2, <2>1, <2>4
    <3> QED BY <1>4, <2>1, <2>3, <2>4, <3>1 DEF Ends
  <2>5. References(o)' = References(o) + 1
    <3>1. Cardinality(Owned(holds', o)) = Cardinality(Owned(holds, o)) + 1
      <4>1. More(holds, holds', u, o)
        BY <2>1 DEF More
      <4> QED BY <1>2, <2>1, <4>1, OwnedMore
    <3>2. References(o)' = Cardinality(Owned(holds', o))
      BY DEF References, Owned
    <3> QED BY <3>1, <3>2, ReferencesAre
  <2>6. \A w \in Threads : ~Ends(w, o)'
    <3>1. \A w \in Threads : ~Ends(w, o)
      BY <2>2 DEF Refs, RefsOf
    <3> QED BY <2>1, <3>1 DEF Ends
  <2>7. References(o) \in Nat
    BY OwnedFinite, ReferencesAre
  <2>8. References(o) <= RetainCount(o) /\ (o \notin copied => References(o) = RetainCount(o))
    BY <2>2 DEF Refs, RefsOf
  <2>9. RefsOf(o)'
    <3>1. /\ References(o)' <= RetainCount(o)' /\ RetainCount(o)' # 0
          /\ o \notin copied => References(o)' = RetainCount(o)'
      BY <2>2, <2>3, <2>5, <2>7, <2>8
    <3>2. freed'[o] = 0
      BY <2>1, <2>2
    <3> QED BY <2>1, <2>3, <2>6, <3>1, <3>2 DEF RefsOf
  <2> QED BY <2>4, <2>9 DEF Refs
<1>i. ASSUME NEW o \in Objects, Release(t, o) PROVE Refs'
  <2>1. /\ holds[t][o] > 0 /\ Writes(o, 1, mem[o][1] - 1)
        /\ holds' = [holds EXCEPT ![t][o] = @ - 1] /\ pc[t] = "idle"
        /\ count' = [count EXCEPT ![t] = RetainCount(o) - 1]
        /\ obj' = [obj EXCEPT ![t] = o] /\ pc' = [pc EXCEPT ![t] = "k_test"]
        /\ UNCHANGED <<freed, copied>>
    BY <1>i DEF Release, Writes
  <2>2. Born(o) /\ freed[o] = 0 /\ RetainCount(o) \in Nat /\ RetainCount(o) >= 1
    BY <2>1, HeldIs
  <2>3. /\ \A p \in Objects : p # o => mem'[p] = mem[p]
        /\ Born(o)' /\ RetainCount(o)' = RetainCount(o) - 1
    BY <2>1, <2>2, WriteWord, BornIs DEF RetainCount
  <2>a. Others /\ obj'[t] = o /\ pc'[t] = "k_test" /\ count'[t] = RetainCount(o) - 1
    BY <1>2, <2>1
  <2>4. ASSUME NEW p \in Objects, p # o PROVE RefsOf(p)'
    <3>1. \A w \in Threads : holds'[w][p] = holds[w][p]
      BY <1>2, <2>1, <2>4
    <3>2. ~Ends(t, p) /\ ~Ends(t, p)'
      BY <2>1, <2>4, <2>a DEF Ends
    <3> QED BY <1>4, <2>1, <2>3, <2>4, <2>a, <3>1, <3>2
  <2>5. References(o)' + 1 = References(o) /\ References(o)' \in Nat
    <3>1. Cardinality(Owned(holds, o)) = Cardinality(Owned(holds', o)) + 1
      <4>1. Fewer(holds, holds', t, o)
        BY <2>1 DEF Fewer
      <4> QED BY SMTT(20), <1>2, <2>1, <4>1, OwnedFewer
    <3>2. References(o)' = Cardinality(Owned(holds', o))
      BY DEF References, Owned
    <3> QED BY <3>1, <3>2, ReferencesAre, OwnedFinite
  <2>6. \A w \in Threads : Ends(w, o)' <=> w = t /\ RetainCount(o)' = 0
    <3>1. \A w \in Threads : ~Ends(w, o)
      BY <2>2 DEF Refs, RefsOf
    <3>2. \A w \in Threads \ {t} : ~Ends(w, o)'
      BY <1>3, <2>a, <3>1
    <3>3. Ends(t, o)' <=> RetainCount(o)' = 0
      BY <2>3, <2>a DEF Ends
    <3> QED BY <3>2, <3>3
  <2>7. References(o) <= RetainCount(o) /\ (o \notin copied => References(o) = RetainCount(o))
    BY <2>2 DEF Refs, RefsOf
  <2>8. RefsOf(o)'
    <3>1. /\ References(o)' <= RetainCount(o)'
          /\ o \notin copied => References(o)' = RetainCount(o)'
      BY <2>2, <2>3, <2>5, <2>7
    <3>2. freed'[o] = 0
      BY <2>1, <2>2
    <3> QED BY <2>1, <2>3, <2>6, <3>1, <3>2 DEF RefsOf
  <2> QED BY <2>4, <2>8 DEF Refs
<1>j. ASSUME CountTest(t) PROVE Refs'
  <2>1. CASE Leave(t) /\ UNCHANGED <<memory, holds, history>> /\ pc[t] = "k_test" /\ count[t] # 0
    <3>1. \A o \in Objects : ~Ends(t, o) /\ ~Ends(t, o)'
      BY <1>9, <2>1 DEF Ends
    <3> QED BY <1>5, <1>9, <2>1, <3>1
  <2>2. CASE UNCHANGED <<memory, pc, args, temps, holds, history>>
    BY <1>10, <2>2
  <2>3. CASE pc' = [pc EXCEPT ![t] = "d_table"] /\ UNCHANGED <<args, temps, memory, holds, history>>
             /\ pc[t] = "k_test" /\ count[t] = 0
    <3>1. Others /\ pc'[t] = "d_table"
      BY <1>2, <2>3
    <3>2. \A o \in Objects : Ends(t, o)' <=> Ends(t, o)
      BY <2>3, <3>1 DEF Ends
    <3> QED BY <1>5, <2>3, <3>1, <3>2
  <2> QED BY <1>j, <2>1, <2>2, <2>3 DEF CountTest, Faulted, Fetched
<1>k. ASSUME UNCHANGED <<mem, holds, copied, obj, count>>, Others, pc[t] \in DeallocPCs,
             pc'[t] \in DeallocPCs, \A o \in Objects : freed'[o] = freed[o]
      PROVE  Refs'
  <2>1. \A o \in Objects : Ends(t, o)' <=> Ends(t, o)
    BY <1>k DEF Ends
  <2> QED BY <1>4, <1>k, <2>1 DEF Refs
<1>l. ASSUME DestroyTable(t) PROVE Refs'
  BY <1>2, <1>k, <1>l DEF DestroyTable
<1>m. ASSUME DestroyBucket(t) PROVE Refs'
  <2>1. UNCHANGED <<mem, freed, holds, copied, pc, obj, count>>
    BY <1>m DEF DestroyBucket, Faulted
  <2> QED BY <1>10, <2>1
<1>n. ASSUME FreeTable(t) PROVE Refs'
  <2>1. tbl[t] \in Tables
    BY <1>n DEF FreeTable, Calls
  <2>2. \A o \in Objects : freed'[o] = freed[o]
    BY <1>2, <1>n, <2>1, Constants DEF FreeTable
  <2> QED BY <1>2, <1>k, <1>n, <2>2 DEF FreeTable
<1>o. ASSUME FreeObject(t) PROVE Refs'
  <2>1. /\ pc[t] = "d_free" /\ Leave(t) /\ UNCHANGED <<holds, copied>>
        /\ freed' = [freed EXCEPT ![obj[t]] = @ + 1] /\ mem' = [mem EXCEPT ![obj[t]] = <<>>]
    BY <1>o DEF FreeObject
  <2>2. PICK o \in Objects : o = obj[t] /\ freed[o] = 0 /\ Ends(t, o)
    BY <2>1, UsedIs DEF Ends
  <2>3. Others /\ pc'[t] = "idle"
    BY <1>9, <2>1
  <2>4. ASSUME NEW p \in Objects, p # o PROVE RefsOf(p)'
    <3>1. ~Ends(t, p) /\ ~Ends(t, p)'
      BY <2>2, <2>3, <2>4 DEF Ends
    <3> QED BY <1>2, <1>4, <2>1, <2>2, <2>3, <2>4, <3>1
  <2>5. RefsOf(o)'
    <3>1. ~Born(o)' /\ freed'[o] = 1
      BY <1>2, <2>1, <2>2 DEF Born
    <3>2. \A u \in Threads : holds'[u][o] = 0
      BY <2>1, <2>2, EndedIs
    <3>3. \A u \in Threads : ~Ends(u, o)'
      <4>1. \A u \in Threads : Ends(u, o) => u = t
        BY <2>2 DEF Refs, RefsOf
      <4>2. ~Ends(t, o)'
        BY <2>3 DEF Ends
      <4> QED BY <1>3, <2>2, <2>3, <4>1, <4>2
    <3>4. \A u \in Threads : ~(holds'[u][o] > 0)
      BY <3>2
    <3> QED BY <3>1, <3>3, <3>4 DEF RefsOf
  <2> QED BY <2>4, <2>5 DEF Refs
<1>q. ASSUME NEW o \in Objects, NEW k \in Keys,
             BeginGet(t, o, k) \/ \E v \in Values : BeginSet(t, o, k, v)
      PROVE  Refs'
  <2>1. /\ UNCHANGED <<mem, freed, holds, copied, count>> /\ obj' = [obj EXCEPT ![t] = o]
        /\ pc[t] = "idle"
        /\ pc' = [pc EXCEPT ![t] = "g_load"] \/ pc' = [pc EXCEPT ![t] = "s_load"]
    BY <1>q DEF BeginGet, BeginSet
  <2> QED BY <1>2, <1>7, <2>1
<1>r. ASSUME AssocStep(t), ~SetTable(t) PROVE Refs'
  <2>1. CASE UNCHANGED <<mem, freed, holds, copied, obj, count>>
             /\ \E l \in GetPCs \cup SetPCs : pc[t] \in GetPCs \cup SetPCs
                                              /\ pc' = [pc EXCEPT ![t] = l]
    BY <1>2, <1>7, <2>1 DEF GetPCs, SetPCs
  <2>2. CASE UNCHANGED <<mem, freed, holds, copied, obj, count, pc>>
    BY <1>10, <2>2
  <2>3. CASE UNCHANGED <<mem, freed, holds, copied>> /\ Leave(t) /\ pc[t] \in GetPCs \cup SetPCs
    BY <1>7, <1>9, <2>3 DEF GetPCs, SetPCs
  <2>4. CASE GetLoad(t) \/ GetBucket(t)
    BY <2>1, <2>4 DEF GetLoad, GetBucket, GetPCs
  <2>5. CASE GetWalk(t)
    BY <2>1, <2>2, <2>5 DEF GetWalk, GetPCs
  <2>6. CASE SetLoad(t) \/ SetBucket(t) \/ SetNext(t)
    BY <2>1, <2>2, <2>6 DEF SetLoad, SetBucket, SetNext, SetPCs
  <2>7. CASE GetReturn(t) \/ SetFirst(t) \/ SetFound(t) \/ SetLink(t)
    BY <2>3, <2>7 DEF GetReturn, SetFirst, SetFound, SetLink, Store, GetPCs, SetPCs
  <2> QED BY <1>r, <2>4, <2>5, <2>6, <2>7 DEF AssocStep
<1>s. ASSUME SetTable(t) PROVE Refs'
  <2>1. /\ \E v : Writes(obj[t], AoAt(obj[t]), v)
        /\ UNCHANGED <<freed, holds, copied, obj, count>>
        /\ pc[t] = "s_table" /\ pc' = [pc EXCEPT ![t] = "s_bucket"]
    BY <1>s DEF SetTable, Writes
  <2>2. obj[t] \in Objects /\ Born(obj[t])
    BY <2>1, UsedIs DEF UsePCs, SetPCs
  <2>3. AoAt(obj[t]) # 1
    BY <2>2, BornIs
  <2> QED BY <1>2, <1>8, <2>1, <2>2, <2>3
<1> QED BY <1>1, <1>a, <1>b, <1>c, <1>d, <1>e, <1>f, <1>g, <1>h, <1>i, <1>j, <1>l, <1>m,
           <1>n, <1>o, <1>q, <1>r, <1>s
        DEF Begin, Finish, Step, EndStep

LEMMA CountedInit == Init => Counted
<1> SUFFICES ASSUME Init PROVE Counted
  OBVIOUS
<1> USE DEF SizePCs, SetPCs, GetPCs, DeallocPCs, OtherPCs, UsePCs
<1>1. /\ \A o \in Objects : ~Born(o) /\ freed[o] = 0
      /\ \A t \in Threads : pc[t] = "idle" /\ obj[t] = Null
      /\ \A t \in Threads, o \in Objects : holds[t][o] = 0
  BY DEF Init, Born
<1>2. Shapes
  <2>1. 0 \in 0..MaxHeld
    BY Constants
  <2> QED BY <1>1, <2>1 DEF Shapes, Init
<1>3. Calls
  BY <1>1, Constants DEF Calls
<1>4. Sizes
  BY <1>1, SpaceIs DEF Sizes, Init
<1>5. Refs
  BY <1>1 DEF Refs, RefsOf, Ends
<1> QED BY <1>2, <1>3, <1>4, <1>5 DEF Counted

LEMMA CountedUnchanged == Counted /\ UNCHANGED vars => Counted'
<1> SUFFICES ASSUME Counted, UNCHANGED vars PROVE Counted'
  OBVIOUS
<1> USE DEF vars, memory, args, temps, history
<1>1. Shapes'
  BY DEF Counted, Shapes, Born, IsaOf, RetainCount, AoAt, Room
<1>2. Calls'
  BY DEF Counted, Calls, Unborn
<1>3. Sizes'
  BY DEF Counted, Sizes, SizeIsCached, IsaOf
<1>4. Refs'
  <2>1. \A o \in Objects : SameRefs(o)
    BY DEF SameRefs, Born, RetainCount, Ends
  <2> QED BY <2>1, RefsKept DEF Counted, Refs
<1> QED BY <1>1, <1>2, <1>3, <1>4 DEF Counted

LEMMA CountedHolds ==
  ASSUME OneFirstSizer, SwapsKeepSize
  PROVE  Spec => []Counted
<1>1. Counted /\ [Next]_vars => Counted'
  <2>1. Counted /\ Next => Counted'
    BY ShapesStep, CallsStep, SizesStep, RefsStep DEF Counted
  <2> QED BY <2>1, CountedUnchanged
<1> QED BY <1>1, CountedInit, PTL DEF Spec

(* The memory of an object holds its ivars and the space of the extensions, *)
(* and objc_object_copy reads no more: if one thread asks for the first     *)
(* size (class.c:99), and objc_object_set_class keeps the size (1185).      *)
THEOREM AreasStayInside ==
  ASSUME OneFirstSizer, SwapsKeepSize
  PROVE  Spec => []AreasInside
<1>1. Counted => AreasInside
  <2> SUFFICES ASSUME Counted PROVE AreasInside
    OBVIOUS
  <2>1. ASSUME NEW o \in Objects, Live(o)
        PROVE  Allocated(o) >= InstanceSize[IsaOf(o)] + ObjectSpace
    <3>1. IsaOf(o) \in Classes /\ DOMAIN mem[o] = Room(IsaOf(o))
      BY <2>1 DEF Counted, Shapes, Live, Born
    <3>2. InstanceSize[IsaOf(o)] \in Nat
      BY <3>1, Constants
    <3>3. Allocated(o) = InstanceSize[IsaOf(o)] + ObjectSpace
      BY <3>1, <3>2, RoomHas DEF Allocated
    <3> QED BY <3>2, <3>3, SpaceIs
  <2> QED BY <2>1 DEF AreasInside, Counted, Sizes
<1> QED BY <1>1, CountedHolds, PTL

(* The retain count is the number of references that threads own, and an   *)
(* object whose count is 0 has a thread that destroys it, however the      *)
(* atomic increments and decrements interleave (MRObjectMethods.c:38).     *)
THEOREM ReferencesAreCounted ==
  ASSUME OneFirstSizer, SwapsKeepSize
  PROVE  Spec => []RefsCounted
<1>1. Counted => RefsCounted
  BY DEF Counted, Refs, RefsOf, RefsCounted, Live, Born
<1> QED BY <1>1, CountedHolds, PTL

-----------------------------------------------------------------------------
(* The invariants about tables and associations, with one setter and no    *)
(* copy of an object that has a table.                                     *)

TableOf(o) == mem[o][AoAt(o)]
TablePCs == {"s_bucket", "s_first", "s_walk", "g_bucket", "g_walk", "d_bucket"}

(* A table is used by one object, and freed by the thread that frees it.   *)
Apart ==
  \A o \in Objects : Born(o) =>
    /\ TableOf(o) \in used \cup {Null}
    /\ \A p \in Objects : Born(p) /\ TableOf(p) = TableOf(o) /\ TableOf(o) # Null => p = o
    /\ TableOf(o) # Null /\ freed[TableOf(o)] # 0 =>
         \E t \in Threads : obj[t] = o /\ pc[t] = "d_free"
FreedTables == \A tb \in Tables : freed[tb] <= 1 /\ (tb \notin used => freed[tb] = 0)

(* What a thread knows of the table of its object is true. *)
Place(t) ==
  /\ pc[t] \in SetPCs => t \in Setters
  /\ pc[t] \in SizePCs \cup {"copy"} /\ obj[t] # Null =>
       t \in Setters /\ TableOf(obj[t]) = Null
  /\ pc[t] = "s_table" => TableOf(obj[t]) = Null
  /\ pc[t] \in TablePCs => tbl[t] = TableOf(obj[t]) /\ tbl[t] # Null
Places == \A t \in Threads : Place(t)

(* The nodes of a bucket: one of each key. *)
NodeSet == [key : Keys, object : Values]
KeyedNodes(s, b) ==
  /\ s \in Seq(NodeSet)
  /\ \A i \in DOMAIN s : Bucket[s[i].key] = b
  /\ \A i, j \in DOMAIN s : s[i].key = s[j].key => i = j
Chains ==
  /\ DOMAIN chain = Tables /\ \A tb \in Tables : DOMAIN chain[tb] = 1..Buckets
  /\ \A tb \in Tables, b \in 1..Buckets :
       KeyedNodes(chain[tb][b], b) /\ (tb \notin used => chain[tb][b] = <<>>)

(* A thread that walks has its key still before it. *)
Walk(t) ==
  /\ pc[t] \in SetPCs \cup GetPCs => key[t] \in Keys
  /\ pc[t] \in SetPCs => val[t] \in Values
  /\ pc[t] = "d_bucket" => pos[t] > 0
  /\ pc[t] = "s_first" => Nodes(t) = <<>>
  /\ pc[t] \in {"s_walk", "g_walk"} =>
       /\ pos[t] \in DOMAIN Nodes(t)
       /\ \A i \in 1..(pos[t] - 1) : Nodes(t)[i].key # key[t]
Walks == /\ key \in [Threads -> Keys \cup {Null}] /\ pos \in [Threads -> Nat]
         /\ val \in [Threads -> Values \cup {Null, NoThing}]
         /\ fault \in {"none", "nil_instance", "overread", "abort", "null_bucket"}
         /\ \A t \in Threads : Walk(t)

(* The words of an object are those written through its owner. *)
Ending(o) == \E t \in Threads : obj[t] = o /\ pc[t] \in DeallocPCs
WordsOf(o) ==
  IF Born(o) THEN /\ mem[o][IvarAt] = ivar[o]
                  /\ ~Ending(o) => \A k \in Keys : Lookup(o, k) = assoc[o][k]
             ELSE ivar[o] = Null /\ \A k \in Keys : assoc[o][k] = NoThing
Words == /\ DOMAIN ivar = Objects /\ DOMAIN assoc = Objects
         /\ \A o \in Objects : DOMAIN assoc[o] = Keys /\ WordsOf(o)

Kept == Counted /\ Apart /\ FreedTables /\ Places /\ Chains /\ Walks /\ Words

-----------------------------------------------------------------------------
(* Which table an object has changes when it is made, when its setter      *)
(* gives it one, and when it is freed.                                     *)

LEMMA TableWritten ==
  ASSUME Shapes, NEW o \in Objects, Born(o), NEW i, NEW v, Writes(o, i, v), i # AoAt(o),
         i = 0 => v \in Classes /\ InstanceSize[v] = InstanceSize[IsaOf(o)]
  PROVE  \A p \in Objects : (Born(p)' <=> Born(p)) /\ (Born(p) => TableOf(p)' = TableOf(p))
<1>1. /\ \A p \in Objects : p # o => mem'[p] = mem[p]
      /\ \A j \in DOMAIN mem[o] : mem'[o][j] = IF j = i THEN v ELSE mem[o][j]
      /\ \A p \in Objects : Born(p)' <=> Born(p)
  BY WriteWord
<1>2. ASSUME NEW p \in Objects, p # o PROVE TableOf(p)' = TableOf(p)
  BY <1>1, <1>2 DEF TableOf, AoAt, IsaOf
<1>3. AoAt(o)' = AoAt(o)
  <2>1. InstanceSize[mem'[o][0]] = InstanceSize[mem[o][0]]
    BY <1>1, BornIs DEF IsaOf
  <2> QED BY <2>1 DEF AoAt, IsaOf
<1>4. mem'[o][AoAt(o)] = mem[o][AoAt(o)]
  BY <1>1, BornIs
<1>5. TableOf(o)' = TableOf(o)
  BY <1>3, <1>4 DEF TableOf
<1> QED BY <1>1, <1>2, <1>5

LEMMA TablesSteady ==
  ASSUME Shapes, Calls, Sizes, Refs, SwapsKeepSize, NEW t \in Threads,
         Begin(t) \/ Finish(t) \/ Step(t),
         ~Make(t), ~CopyMemory(t), ~SetTable(t), ~FreeObject(t)
  PROVE  /\ used' = used
         /\ \A p \in Objects : (Born(p)' <=> Born(p)) /\ (Born(p) => TableOf(p)' = TableOf(p))
<1> DEFINE Steady == /\ used' = used
                     /\ \A p \in Objects : /\ Born(p)' <=> Born(p)
                                           /\ Born(p) => TableOf(p)' = TableOf(p)
<1>1. UNCHANGED <<mem, used>> => Steady
  BY DEF Born, TableOf, AoAt, IsaOf
<1>2. ASSUME NEW o \in Objects, NEW c \in Classes, SetClass(t, o, c) PROVE Steady
  <2>1. Writes(o, 0, c) /\ Born(o) /\ InstanceSize[c] = InstanceSize[IsaOf(o)] /\ used' = used
    BY <1>2, HeldIs DEF SetClass, Writes, SwapsKeepSize
  <2>2. 0 # AoAt(o)
    BY <2>1, BornIs
  <2> QED BY <2>1, <2>2, TableWritten
<1>3. ASSUME NEW o \in Objects, NEW v \in Values, SetVariable(t, o, v) PROVE Steady
  <2>1. Writes(o, IvarAt, v) /\ Born(o) /\ used' = used
    BY <1>3, HeldIs DEF SetVariable, Writes
  <2>2. IvarAt # 0 /\ IvarAt # AoAt(o)
    BY <2>1, BornIs
  <2> QED BY <2>1, <2>2, TableWritten
<1>4. ASSUME NEW o \in Objects, Release(t, o) \/ \E u \in Threads : Retain(t, u, o)
      PROVE  Steady
  <2>1. PICK v : Writes(o, 1, v) /\ Born(o) /\ used' = used
    BY <1>4, HeldIs DEF Retain, Release, Writes
  <2>2. 1 # AoAt(o)
    BY <2>1, BornIs
  <2> QED BY <2>1, <2>2, TableWritten
<1> HIDE DEF Steady
<1>5. Steady
  BY <1>1, <1>2, <1>3, <1>4
     DEF Begin, Finish, Step, SizeStep, EndStep, AssocStep, BeginAlloc, BeginCopy, BeginGet,
         BeginSet, SizeTest, SizeLoad, SizeStore, SizeReturn, CountTest, DestroyTable,
         DestroyBucket, FreeTable, GetLoad, GetBucket, GetWalk, GetReturn, SetLoad, SetBucket, SetFirst,
         SetFound, SetLink, SetNext, Store, Faulted, memory
<1> QED BY <1>5 DEF Steady

(* A new object has no table; the others keep theirs. *)
LEMMA TablesMade ==
  ASSUME Shapes, Calls, Sizes, Refs, Places, NEW t \in Threads, Make(t) \/ CopyMemory(t)
  PROVE  \E o \in Objects :
           /\ Unborn(o) /\ Born(o)' /\ TableOf(o)' = Null
           /\ \A p \in Objects : p # o => mem'[p] = mem[p]
           /\ \/ UNCHANGED <<assoc, ivar>> /\ mem'[o][IvarAt] = Null
              \/ \E p \in Objects :
                    /\ Born(p) /\ holds[t][p] > 0 /\ TableOf(p) = Null
                    /\ assoc' = [assoc EXCEPT ![o] = assoc[p]] /\ mem'[o] = mem[p]
                    /\ ivar' = [ivar EXCEPT ![o] = ivar[p]]
<1>1. DOMAIN mem = Objects
  BY DEF Shapes
<1>2. CASE Make(t)
  <2>1. PICK o \in Objects :
          /\ Unborn(o)
          /\ mem' = [mem EXCEPT ![o] = [i \in 0..(size[t] - 1) |->
                       CASE i = 0 -> cls[t] [] i = 1 -> 1 [] OTHER -> Null]]
    BY <1>2 DEF Make, Fresh
  <2>2. size[t] = InstanceSize[cls[t]] + ObjectSpace /\ cls[t] \in Classes
    BY <1>2 DEF Make, Sizes
  <2> DEFINE w == [i \in Room(cls[t]) |-> CASE i = 0 -> cls[t] [] i = 1 -> 1 [] OTHER -> Null]
  <2>3. mem' = [mem EXCEPT ![o] = w]
    <3>1. 0..(size[t] - 1) = Room(cls[t])
      BY <2>2, Constants, SpaceIs DEF Room
    <3> QED BY <2>1, <3>1
  <2>4. /\ w[0] = cls[t] /\ 0 \in DOMAIN w
        /\ w[InstanceSize[cls[t]] + SpaceUpTo[AoIndex - 1]] = Null
        /\ w[IvarAt] = Null
    BY <2>2, Layout
  <2> HIDE DEF w
  <2>5. mem'[o] = w /\ \A p \in Objects : p # o => mem'[p] = mem[p]
    BY <1>1, <2>3
  <2>6. Born(o)' /\ TableOf(o)' = Null
    BY <2>4, <2>5, NotEmpty DEF Born, TableOf, AoAt, IsaOf
  <2>7. UNCHANGED <<assoc, ivar>>
    BY <1>2 DEF Make, history
  <2> QED BY <2>1, <2>4, <2>5, <2>6, <2>7
<1>3. CASE CopyMemory(t)
  <2>0. pc[t] = "copy"
    BY <1>3 DEF CopyMemory
  <2>1. PICK o \in Objects :
          /\ Unborn(o) /\ mem' = [mem EXCEPT ![o] = mem[obj[t]]]
          /\ assoc' = [assoc EXCEPT ![o] = assoc[obj[t]]]
          /\ ivar' = [ivar EXCEPT ![o] = ivar[obj[t]]]
    BY <1>3, <2>0, CopyFits DEF CopyMemory, Fresh
  <2>2. PICK p \in Objects : p = obj[t] /\ Born(p) /\ holds[t][p] > 0
    BY <2>0, UsedIs DEF UsePCs, Calls
  <2>3. TableOf(p) = Null
    BY <2>0, <2>2, Constants DEF Places, Place
  <2>4. mem'[o] = mem[p] /\ \A q \in Objects : q # o => mem'[q] = mem[q]
    BY <1>1, <2>1, <2>2
  <2>5. Born(o)' /\ TableOf(o)' = Null
    BY <2>2, <2>3, <2>4 DEF Born, TableOf, AoAt, IsaOf
  <2> QED BY <2>1, <2>2, <2>3, <2>4, <2>5
<1> QED BY <1>2, <1>3

(* The setter has an object without a table, and gives it an unused one. *)
LEMMA TableGiven ==
  ASSUME Shapes, Calls, Sizes, Refs, NEW t \in Threads, SetTable(t)
  PROVE  \E o \in Objects, tb \in Tables \ used :
           /\ obj[t] = o /\ Born(o) /\ tb # Null
           /\ \A p \in Objects : Born(p)' <=> Born(p)
           /\ \A p \in Objects : p # o => mem'[p] = mem[p]
           /\ TableOf(o)' = tb /\ mem'[o][IvarAt] = mem[o][IvarAt]
           /\ used' = used \cup {tb} /\ tbl' = [tbl EXCEPT ![t] = tb]
<1>1. PICK tb \in Tables \ used :
        /\ used' = used \cup {tb} /\ tbl' = [tbl EXCEPT ![t] = tb]
        /\ Writes(obj[t], AoAt(obj[t]), tb)
  BY DEF SetTable, Set, Writes
<1>2. PICK o \in Objects : o = obj[t] /\ Born(o)
  BY UsedIs DEF SetTable, UsePCs, SetPCs
<1>3. /\ \A p \in Objects : p # o => mem'[p] = mem[p]
      /\ \A j \in DOMAIN mem[o] : mem'[o][j] = IF j = AoAt(o) THEN tb ELSE mem[o][j]
      /\ \A p \in Objects : Born(p)' <=> Born(p)
  BY <1>1, <1>2, WriteWord
<1>4. /\ mem'[o][0] = mem[o][0] /\ mem'[o][AoAt(o)] = tb
      /\ mem'[o][IvarAt] = mem[o][IvarAt]
  BY <1>2, <1>3, BornIs
<1>5. TableOf(o)' = tb
  BY <1>4 DEF TableOf, AoAt, IsaOf
<1> QED BY <1>1, <1>2, <1>3, <1>4, <1>5, Constants

LEMMA ObjectFreed ==
  ASSUME Shapes, Calls, Sizes, Refs, NEW t \in Threads, FreeObject(t)
  PROVE  \E o \in Objects :
           /\ obj[t] = o /\ Ends(t, o) /\ ~Born(o)' /\ pc[t] = "d_free"
           /\ \A p \in Objects : p # o => mem'[p] = mem[p]
           /\ \A tb \in Tables : freed'[tb] = freed[tb]
<1>1. PICK o \in Objects : o = obj[t] /\ Ends(t, o) /\ pc[t] = "d_free"
  BY UsedIs DEF FreeObject, DeallocPCs, Ends
<1>2. mem' = [mem EXCEPT ![o] = <<>>] /\ freed' = [freed EXCEPT ![o] = @ + 1]
  BY <1>1 DEF FreeObject
<1> QED BY <1>1, <1>2, Constants DEF Shapes, Born

(* What the other threads are at. *)
LEMMA OthersWait ==
  ASSUME Shapes, Walks, NEW t \in Threads, Begin(t) \/ Finish(t) \/ Step(t)
  PROVE  \A u \in Threads \ {t} :
           /\ pc'[u] = pc[u] /\ obj'[u] = obj[u] /\ tbl'[u] = tbl[u] /\ pos'[u] = pos[u]
           /\ key'[u] = key[u] /\ val'[u] = val[u]
<1>1. /\ pc \in [Threads -> {"idle"} \cup SizePCs \cup SetPCs \cup GetPCs
                            \cup DeallocPCs \cup OtherPCs]
      /\ obj \in [Threads -> Objects \cup {Null}] /\ tbl \in [Threads -> Tables \cup {Null}]
      /\ pos \in [Threads -> Nat] /\ key \in [Threads -> Keys \cup {Null}]
      /\ val \in [Threads -> Values \cup {Null, NoThing}]
  BY DEF Shapes, Walks
<1> USE DEF Goto, Set, memory, args, temps, history
<1> DEFINE Wait == \A u \in Threads \ {t} :
             /\ pc'[u] = pc[u] /\ obj'[u] = obj[u] /\ tbl'[u] = tbl[u] /\ pos'[u] = pos[u]
             /\ key'[u] = key[u] /\ val'[u] = val[u]
<1>2. Leave(t) => Wait
  BY <1>1 DEF Leave
<1>3. UNCHANGED <<pc, args, temps>> => Wait
  OBVIOUS
<1>4. Faulted("nil_instance") \/ Faulted("overread") \/ Faulted("abort") \/ Faulted("null_bucket")
        => Wait
  BY <1>3 DEF Faulted
<1>a. SizeTest(t) \/ SizeLoad(t) \/ SizeStore(t) \/ SizeReturn(t) => Wait
  BY <1>1 DEF SizeTest, SizeLoad, SizeStore, SizeReturn
<1>b. \A c \in Made : BeginAlloc(t, c) => Wait
  BY <1>1, <1>4 DEF BeginAlloc
<1>c. \A o \in Objects : BeginCopy(t, o) => Wait
  BY <1>1 DEF BeginCopy
<1>d. \A o \in Objects, k \in Keys :
        BeginGet(t, o, k) \/ (\E v \in Values : BeginSet(t, o, k, v)) => Wait
  BY <1>1 DEF BeginGet, BeginSet
<1>e. \A o \in Objects : /\ (\E c \in Classes : SetClass(t, o, c)) => Wait
                         /\ (\E v \in Values : SetVariable(t, o, v)) => Wait
                         /\ (\E u \in Threads : Retain(t, u, o)) => Wait
  BY <1>3 DEF SetClass, SetVariable, Retain
<1>f. \A o \in Objects : Release(t, o) => Wait
  BY <1>1 DEF Release
<1>g. Make(t) \/ CopyMemory(t) \/ FreeObject(t) \/ GetReturn(t) => Wait
  BY <1>2, <1>4 DEF Make, CopyMemory, FreeObject, GetReturn
<1>h. CountTest(t) => Wait
  BY <1>1, <1>2, <1>4 DEF CountTest
<1>i. DestroyTable(t) \/ FreeTable(t) => Wait
  BY <1>1 DEF DestroyTable, FreeTable
<1>j. DestroyBucket(t) => Wait
  <2>1. DestroyBucket(t) =>
          Faulted("null_bucket") \/ (UNCHANGED <<pc, args, tbl>> /\ pos' = [pos EXCEPT ![t] = @ + 1])
    BY DEF DestroyBucket
  <2> QED BY <1>1, <1>4, <2>1
<1>k. GetLoad(t) \/ GetBucket(t) => Wait
  BY <1>1 DEF GetLoad, GetBucket
<1>l. GetWalk(t) => Wait
  BY <1>1 DEF GetWalk
<1>m. SetLoad(t) \/ SetTable(t) \/ SetBucket(t) \/ SetNext(t) => Wait
  BY <1>1 DEF SetLoad, SetTable, SetBucket, SetNext
<1>n. SetFirst(t) \/ SetFound(t) \/ SetLink(t) => Wait
  BY <1>2 DEF SetFirst, SetFound, SetLink, Store
<1> HIDE DEF Wait
<1>o. Wait
  BY <1>a, <1>b, <1>c, <1>d, <1>e, <1>f, <1>g, <1>h, <1>i, <1>j, <1>k, <1>l, <1>m, <1>n
     DEF Begin, Finish, Step, SizeStep, EndStep, AssocStep
<1> QED BY <1>o DEF Wait

LEMMA ApartStep ==
  ASSUME Shapes, Calls, Sizes, Refs, Apart, FreedTables, Places, Walks, SwapsKeepSize,
         NEW t \in Threads, Begin(t) \/ Finish(t) \/ Step(t)
  PROVE  Apart' /\ FreedTables'
<1> USE DEF Goto, Set, memory, args, temps, history
<1>1. /\ \A u \in Threads \ {t} : pc'[u] = pc[u] /\ obj'[u] = obj[u]
      /\ pc \in [Threads -> {"idle"} \cup SizePCs \cup SetPCs \cup GetPCs
                            \cup DeallocPCs \cup OtherPCs]
      /\ freed \in [Objects \cup Tables -> Nat] /\ used \subseteq Tables
      /\ Null \notin Tables /\ Objects \cap Tables = {}
  BY OthersWait, Constants DEF Shapes
(* Who is about to free an object goes on to do it. *)
<1>2. ASSUME ~FreeObject(t), NEW o \in Objects, NEW u \in Threads, obj[u] = o, pc[u] = "d_free"
      PROVE  obj'[u] = o /\ pc'[u] = "d_free"
  <2>1. CASE u # t
    BY <1>1, <1>2, <2>1
  <2>2. CASE u = t
    BY <1>2, <2>2
       DEF Begin, Finish, Step, SizeStep, EndStep, AssocStep, BeginAlloc, BeginCopy, BeginGet,
         BeginSet, SizeTest, SizeLoad, SizeStore, SizeReturn, CountTest, DestroyTable,
         DestroyBucket, FreeTable, GetLoad, GetBucket, GetWalk, GetReturn, SetLoad, SetBucket, SetFirst,
         SetFound, SetLink, SetNext, Faulted, Retain, Release, SetClass,
         SetVariable, Make, CopyMemory, SetTable
  <2> QED BY <2>1, <2>2
<1>3. ASSUME ~FreeObject(t), NEW o \in Objects, \E u \in Threads : obj[u] = o /\ pc[u] = "d_free"
      PROVE  \E u \in Threads : obj'[u] = o /\ pc'[u] = "d_free"
  BY <1>2, <1>3
<1>4. ASSUME ~FreeTable(t), ~FreeObject(t) PROVE freed' = freed
  BY <1>4
     DEF Begin, Finish, Step, SizeStep, EndStep, AssocStep, BeginAlloc, BeginCopy, BeginGet,
         BeginSet, SizeTest, SizeLoad, SizeStore, SizeReturn, CountTest, DestroyTable,
         DestroyBucket, GetLoad, GetBucket, GetWalk, GetReturn, SetLoad, SetBucket, SetFirst,
         SetFound, SetLink, SetNext, Store, Faulted, Retain, Release, SetClass,
         SetVariable, Make, CopyMemory, SetTable
<1>5. CASE Make(t) \/ CopyMemory(t)
  <2>1. PICK o \in Objects :
           /\ Unborn(o) /\ Born(o)' /\ TableOf(o)' = Null
           /\ \A p \in Objects : p # o => mem'[p] = mem[p]
    BY <1>5, TablesMade
  <2>2. \A p \in Objects : p # o => (Born(p)' <=> Born(p)) /\ TableOf(p)' = TableOf(p)
    BY <2>1 DEF Born, TableOf, AoAt, IsaOf
  <2>3. UNCHANGED <<freed, used>> /\ ~FreeObject(t)
    BY <1>5, CopyFits DEF Make, CopyMemory, FreeObject
  <2>4. Apart'
    BY <1>3, <2>1, <2>2, <2>3 DEF Apart
  <2> QED BY <2>3, <2>4 DEF FreedTables
<1>6. CASE SetTable(t)
  <2>1. PICK o \in Objects, tb \in Tables \ used :
           /\ obj[t] = o /\ Born(o) /\ tb # Null
           /\ \A p \in Objects : Born(p)' <=> Born(p)
           /\ \A p \in Objects : p # o => mem'[p] = mem[p]
           /\ TableOf(o)' = tb /\ used' = used \cup {tb}
    BY <1>6, TableGiven
  <2>2. \A p \in Objects : p # o => TableOf(p)' = TableOf(p)
    BY <2>1 DEF TableOf, AoAt, IsaOf
  <2>3. freed' = freed /\ ~FreeObject(t)
    BY <1>6 DEF SetTable, FreeObject
  <2>4. freed[tb] = 0
    BY <2>1 DEF FreedTables
  <2>5. Apart'
    <3>1. ASSUME NEW p \in Objects, Born(p)'
          PROVE  /\ TableOf(p)' \in used' \cup {Null}
                 /\ \A q \in Objects :
                      Born(q)' /\ TableOf(q)' = TableOf(p)' /\ TableOf(p)' # Null => q = p
                 /\ TableOf(p)' # Null /\ freed'[TableOf(p)'] # 0 =>
                      \E u \in Threads : obj'[u] = p /\ pc'[u] = "d_free"
      <4>1. CASE p = o
        BY <1>1, <2>1, <2>2, <2>3, <2>4, <4>1 DEF Apart
      <4>2. CASE p # o
        <5>1. /\ Born(p) /\ TableOf(p)' = TableOf(p) /\ TableOf(p) \in used \cup {Null}
          BY <2>1, <2>2, <3>1, <4>2 DEF Apart
        <5> QED BY <1>1, <1>3, <2>1, <2>2, <2>3, <5>1 DEF Apart
      <4> QED BY <4>1, <4>2
    <3> QED BY <3>1 DEF Apart
  <2>6. FreedTables'
    BY <2>1, <2>3 DEF FreedTables
  <2> QED BY <2>5, <2>6
<1>7. CASE FreeObject(t)
  <2>1. PICK o \in Objects :
           /\ obj[t] = o /\ ~Born(o)' /\ pc[t] = "d_free"
           /\ \A p \in Objects : p # o => mem'[p] = mem[p]
           /\ \A tb \in Tables : freed'[tb] = freed[tb]
    BY <1>7, ObjectFreed
  <2>2. \A p \in Objects : p # o => (Born(p)' <=> Born(p)) /\ TableOf(p)' = TableOf(p)
    BY <2>1 DEF Born, TableOf, AoAt, IsaOf
  <2>3. used' = used
    BY <1>7 DEF FreeObject
  <2>4. ASSUME NEW p \in Objects, Born(p)'
        PROVE  /\ TableOf(p)' \in used' \cup {Null}
               /\ \A q \in Objects :
                    Born(q)' /\ TableOf(q)' = TableOf(p)' /\ TableOf(p)' # Null => q = p
               /\ TableOf(p)' # Null /\ freed'[TableOf(p)'] # 0 =>
                    \E u \in Threads : obj'[u] = p /\ pc'[u] = "d_free"
    <3>1. p # o /\ Born(p) /\ TableOf(p)' = TableOf(p) /\ TableOf(p) \in used \cup {Null}
      BY <2>1, <2>2, <2>4 DEF Apart
    <3>2. \A q \in Objects : Born(q)' => Born(q) /\ TableOf(q)' = TableOf(q)
      BY <2>1, <2>2
    <3>3. ASSUME TableOf(p) # Null, freed[TableOf(p)] # 0
          PROVE  \E u \in Threads : obj'[u] = p /\ pc'[u] = "d_free"
      <4>1. PICK u \in Threads : obj[u] = p /\ pc[u] = "d_free"
        BY <3>1, <3>3 DEF Apart
      <4>2. u # t
        BY <2>1, <3>1, <4>1
      <4> QED BY <1>1, <4>1, <4>2
    <3>4. TableOf(p) # Null => freed'[TableOf(p)] = freed[TableOf(p)]
      BY <1>1, <2>1, <3>1
    <3> QED BY <2>3, <3>1, <3>2, <3>3, <3>4 DEF Apart
  <2>5. Apart'
    BY <2>4 DEF Apart
  <2> QED BY <2>1, <2>3, <2>5 DEF FreedTables
<1>8. CASE FreeTable(t)
  <2>1. PICK o \in Objects : o = obj[t] /\ Born(o)
    BY <1>8, UsedIs DEF FreeTable, DeallocPCs
  <2>2. /\ tbl[t] \in Tables /\ TableOf(o) = tbl[t] /\ TableOf(o) # Null
        /\ freed' = [freed EXCEPT ![tbl[t]] = @ + 1] /\ pc[t] = "d_bucket"
        /\ pc'[t] = "d_free" /\ obj'[t] = o
    BY <1>1, <1>8, <2>1 DEF FreeTable, Calls, Places, Place, TablePCs
  <2>3. freed[TableOf(o)] = 0
    <3>1. ASSUME NEW u \in Threads, obj[u] = o, pc[u] = "d_free" PROVE FALSE
      <4>1. Ends(u, o) /\ Ends(t, o)
        BY <2>1, <2>2, <3>1 DEF Ends, DeallocPCs
      <4>2. u = t
        BY <4>1 DEF Refs, RefsOf
      <4> QED BY <2>2, <3>1, <4>2
    <3> QED BY <2>1, <2>2, <3>1 DEF Apart
  <2>4. /\ used' = used /\ ~FreeObject(t)
        /\ \A p \in Objects : (Born(p)' <=> Born(p)) /\ TableOf(p)' = TableOf(p)
    BY <1>8 DEF FreeTable, FreeObject, Born, TableOf, AoAt, IsaOf
  <2>5. freed'[tbl[t]] = 1 /\ \A tb \in Tables : tb # tbl[t] => freed'[tb] = freed[tb]
    BY <1>1, <2>2, <2>3
  <2>6. ASSUME NEW p \in Objects, Born(p)'
        PROVE  /\ TableOf(p)' \in used' \cup {Null}
               /\ \A q \in Objects :
                    Born(q)' /\ TableOf(q)' = TableOf(p)' /\ TableOf(p)' # Null => q = p
               /\ TableOf(p)' # Null /\ freed'[TableOf(p)'] # 0 =>
                    \E u \in Threads : obj'[u] = p /\ pc'[u] = "d_free"
    <3>1. Born(p) /\ TableOf(p)' = TableOf(p) /\ TableOf(p) \in used \cup {Null}
      BY <2>4, <2>6 DEF Apart
    <3>2. ASSUME TableOf(p) # Null, freed'[TableOf(p)] # 0
          PROVE  \E u \in Threads : obj'[u] = p /\ pc'[u] = "d_free"
      <4>1. CASE p = o
        BY <2>2, <4>1
      <4>2. CASE p # o
        <5>1. TableOf(p) # tbl[t] /\ TableOf(p) \in Tables
          BY <1>1, <2>1, <2>2, <3>1, <3>2, <4>2 DEF Apart
        <5>2. freed[TableOf(p)] # 0
          BY <2>5, <3>2, <5>1
        <5> QED BY <1>3, <2>4, <3>1, <3>2, <5>2 DEF Apart
      <4> QED BY <4>1, <4>2
    <3> QED BY <2>4, <3>1, <3>2 DEF Apart
  <2>7. FreedTables'
    <3>1. tbl[t] \in used
      BY <2>1, <2>2 DEF Apart
    <3> QED BY <2>4, <2>5, <3>1 DEF FreedTables
  <2> QED BY <2>6, <2>7 DEF Apart
<1>9. CASE ~(Make(t) \/ CopyMemory(t) \/ SetTable(t) \/ FreeObject(t) \/ FreeTable(t))
  <2>1. /\ used' = used
        /\ \A p \in Objects : (Born(p)' <=> Born(p)) /\ (Born(p) => TableOf(p)' = TableOf(p))
    BY <1>9, TablesSteady
  <2>2. freed' = freed /\ ~FreeObject(t)
    BY <1>4, <1>9
  <2>3. Apart'
    BY <1>3, <2>1, <2>2 DEF Apart
  <2> QED BY <2>1, <2>2, <2>3 DEF FreedTables
<1> QED BY <1>5, <1>6, <1>7, <1>8, <1>9

LEMMA PlacesStep ==
  ASSUME Shapes, Calls, Sizes, Refs, Apart, Places, Walks, SwapsKeepSize,
         OneSetter, ~CopyAssociated, NEW t \in Threads, Begin(t) \/ Finish(t) \/ Step(t)
  PROVE  Places'
<1> USE DEF Goto, Set, memory, args, temps, history
<1>1. /\ \A u \in Threads \ {t} : pc'[u] = pc[u] /\ obj'[u] = obj[u] /\ tbl'[u] = tbl[u]
      /\ pc \in [Threads -> {"idle"} \cup SizePCs \cup SetPCs \cup GetPCs
                            \cup DeallocPCs \cup OtherPCs]
      /\ obj \in [Threads -> Objects \cup {Null}] /\ tbl \in [Threads -> Tables \cup {Null}]
      /\ Null \notin Tables /\ Null \notin Objects
  BY OthersWait, Constants DEF Shapes
<1> DEFINE Looks(u) == (pc[u] \in SizePCs \cup {"copy"} /\ obj[u] # Null)
                       \/ pc[u] = "s_table" \/ pc[u] \in TablePCs
(* The object of which a thread knows something. *)
<1>2. ASSUME NEW u \in Threads, Looks(u)
      PROVE  /\ obj[u] \in Objects /\ Born(obj[u])
             /\ holds[u][obj[u]] > 0 \/ Ends(u, obj[u])
  <2>1. CASE pc[u] \in SizePCs \cup UsePCs
    <3>1. obj[u] \in Objects
      BY <1>1, <1>2, <2>1 DEF Calls, TablePCs, SetPCs, GetPCs, UsePCs, SizePCs
    <3>2. holds[u][obj[u]] > 0
      BY <2>1, <3>1 DEF Calls
    <3> QED BY <3>1, <3>2, HeldIs
  <2>2. CASE pc[u] = "d_bucket"
    BY <2>2, UsedIs DEF Ends, DeallocPCs
  <2> QED BY <1>2, <2>1, <2>2 DEF TablePCs, UsePCs, SetPCs, GetPCs
<1>3. ASSUME NEW u \in Threads, u # t, Looks(u) => TableOf(obj[u])' = TableOf(obj[u])
      PROVE  Place(u)'
  <2>1. Place(u) /\ pc'[u] = pc[u] /\ obj'[u] = obj[u] /\ tbl'[u] = tbl[u]
    BY <1>1, <1>3 DEF Places
  <2> QED BY <1>3, <2>1 DEF Place
<1>4. ASSUME \A u \in Threads \ {t} : Looks(u) => TableOf(obj[u])' = TableOf(obj[u]), Place(t)'
      PROVE  Places'
  BY <1>3, <1>4 DEF Places
<1>5. ASSUME pc'[t] \notin SetPCs \cup SizePCs \cup {"copy"} \cup TablePCs PROVE Place(t)'
  BY <1>5 DEF Place, SetPCs
<1>6. Leave(t) => pc'[t] = "idle"
  BY <1>1 DEF Leave
<1>a. CASE Make(t) \/ CopyMemory(t)
  <2>1. PICK o \in Objects : Unborn(o) /\ \A p \in Objects : p # o => mem'[p] = mem[p]
    BY <1>a, TablesMade
  <2>2. ASSUME NEW u \in Threads \ {t}, Looks(u) PROVE TableOf(obj[u])' = TableOf(obj[u])
    <3>1. PICK p \in Objects : p = obj[u] /\ Born(p)
      BY <1>2, <2>2
    <3>2. obj'[u] = p /\ mem'[p] = mem[p]
      BY <1>1, <2>1, <2>2, <3>1 DEF Unborn, Born
    <3> QED BY <3>1, <3>2 DEF TableOf, AoAt, IsaOf
  <2>3. Leave(t)
    BY <1>a, CopyFits DEF Make, CopyMemory
  <2>4. Place(t)'
    BY <1>5, <1>6, <2>3 DEF SetPCs, SizePCs, TablePCs
  <2> QED BY <1>4, <2>2, <2>4
<1>b. CASE SetTable(t)
  <2>1. PICK o \in Objects, tb \in Tables \ used :
           /\ obj[t] = o /\ Born(o) /\ tb # Null
           /\ \A p \in Objects : p # o => mem'[p] = mem[p]
           /\ TableOf(o)' = tb /\ tbl' = [tbl EXCEPT ![t] = tb]
    BY <1>b, TableGiven
  <2>2. t \in Setters /\ TableOf(o) = Null
    BY <1>b, <2>1 DEF SetTable, Places, Place, SetPCs
  <2>3. ASSUME NEW u \in Threads \ {t}, Looks(u) PROVE TableOf(obj[u])' = TableOf(obj[u])
    <3>1. PICK p \in Objects : p = obj[u] /\ Born(p)
      BY <1>2, <2>3
    <3>2. u \notin Setters
      BY <2>2 DEF OneSetter
    <3>3. pc[u] \in TablePCs /\ TableOf(p) # Null
      BY <2>3, <3>1, <3>2 DEF Places, Place, SetPCs
    <3>4. obj'[u] = p /\ mem'[p] = mem[p]
      BY <1>1, <2>1, <2>2, <2>3, <3>1, <3>3
    <3> QED BY <3>1, <3>4 DEF TableOf, AoAt, IsaOf
  <2>4. Place(t)'
    <3>1. pc'[t] = "s_bucket" /\ obj'[t] = o /\ tbl'[t] = tb
      BY <1>1, <1>b, <2>1 DEF SetTable
    <3> QED BY <2>1, <2>2, <3>1 DEF Place, SizePCs, SetPCs
  <2> QED BY <1>4, <2>3, <2>4
<1>c. CASE FreeObject(t)
  <2>1. PICK o \in Objects :
           /\ obj[t] = o /\ Ends(t, o) /\ \A p \in Objects : p # o => mem'[p] = mem[p]
    BY <1>c, ObjectFreed
  <2>2. ASSUME NEW u \in Threads \ {t}, Looks(u) PROVE TableOf(obj[u])' = TableOf(obj[u])
    <3>1. PICK p \in Objects : p = obj[u] /\ (holds[u][p] > 0 \/ Ends(u, p))
      BY <1>2, <2>2
    <3>2. p # o
      <4>1. ASSUME p = o PROVE FALSE
        <5>1. holds[u][o] = 0
          BY <2>1, EndedIs
        <5>2. ~Ends(u, o)
          BY <2>1, <2>2 DEF Refs, RefsOf
        <5> QED BY <3>1, <4>1, <5>1, <5>2
      <4> QED BY <4>1
    <3>3. obj'[u] = p /\ mem'[p] = mem[p]
      BY <1>1, <2>1, <2>2, <3>1, <3>2
    <3> QED BY <3>1, <3>3 DEF TableOf, AoAt, IsaOf
  <2>3. Place(t)'
    BY <1>5, <1>6, <1>c DEF FreeObject, SetPCs, SizePCs, TablePCs
  <2> QED BY <1>4, <2>2, <2>3
<1>d. CASE ~(Make(t) \/ CopyMemory(t) \/ SetTable(t) \/ FreeObject(t))
  <2>1. \A p \in Objects : Born(p) => TableOf(p)' = TableOf(p)
    BY <1>d, TablesSteady
  <2>2. ASSUME NEW u \in Threads, Looks(u), obj'[u] = obj[u]
        PROVE  TableOf(obj[u])' = TableOf(obj[u])
    <3>1. PICK p \in Objects : p = obj[u] /\ Born(p)
      BY <1>2, <2>2
    <3>2. TableOf(p)' = TableOf(p)
      BY <2>1, <3>1
    <3> QED BY <2>2, <3>1, <3>2 DEF TableOf, AoAt, IsaOf
  <2>3. ASSUME NEW u \in Threads \ {t}, Looks(u) PROVE TableOf(obj[u])' = TableOf(obj[u])
    BY <1>1, <2>2, <2>3
  <2>4. ASSUME UNCHANGED <<pc, obj, tbl>> PROVE Place(t)'
    <3>1. Looks(t) => TableOf(obj[t])' = TableOf(obj[t])
      BY <2>2, <2>4
    <3> QED BY <2>4, <3>1 DEF Places, Place
  <2> HIDE DEF Looks
  <2>a. ASSUME SizeStep(t) PROVE Place(t)'
    <3>1. /\ pc[t] \in SizePCs /\ pc'[t] \in SizePCs \cup {"copy", "make"} /\ UNCHANGED <<obj, mem>>
      BY <1>1, <2>a DEF SizeStep, SizeTest, SizeLoad, SizeStore, SizeReturn, AfterSize, SizePCs
    <3>2. obj[t] # Null => t \in Setters /\ TableOf(obj[t]) = Null
      BY <3>1 DEF Places, Place
    <3>3. TableOf(obj[t])' = TableOf(obj[t])
      BY <3>1 DEF TableOf, AoAt, IsaOf
    <3> QED BY <3>1, <3>2, <3>3 DEF Place, SizePCs, SetPCs, TablePCs
  <2>b. ASSUME NEW c \in Made, BeginAlloc(t, c) PROVE Place(t)'
    <3>1. CASE c \in Unfinished
      BY <2>4, <2>b, <3>1 DEF BeginAlloc, Faulted
    <3>2. CASE c \notin Unfinished
      <4>1. pc'[t] = "z_test" /\ obj'[t] = obj[t] /\ pc[t] = "idle"
        BY <1>1, <2>b, <3>2 DEF BeginAlloc
      <4>2. obj[t] = Null
        BY <4>1 DEF Calls
      <4> QED BY <4>1, <4>2 DEF Place, SetPCs, TablePCs
    <3> QED BY <3>1, <3>2
  <2>c. ASSUME NEW o \in Objects, BeginCopy(t, o) PROVE Place(t)'
    <3>1. /\ t \in Setters /\ TableOf(o) = Null /\ pc'[t] = "z_test" /\ obj'[t] = o /\ mem' = mem
      BY <1>1, <2>c DEF BeginCopy, TableOf
    <3> QED BY <3>1 DEF Place, SetPCs, TablePCs, TableOf, AoAt, IsaOf
  <2>d. ASSUME NEW o \in Objects, \/ \E c \in Classes : SetClass(t, o, c)
                                  \/ \E v \in Values : SetVariable(t, o, v)
                                  \/ \E u \in Threads : Retain(t, u, o)
        PROVE  Place(t)'
    BY <2>4, <2>d DEF SetClass, SetVariable, Retain
  <2>e. ASSUME NEW o \in Objects, Release(t, o) PROVE Place(t)'
    <3>1. pc'[t] = "k_test"
      BY <1>1, <2>e DEF Release
    <3> QED BY <1>5, <3>1 DEF SetPCs, SizePCs, TablePCs
  <2>f. ASSUME CountTest(t) PROVE Place(t)'
    <3>1. CASE Leave(t)
      BY <1>5, <1>6, <3>1 DEF SetPCs, SizePCs, TablePCs
    <3>2. CASE pc' = [pc EXCEPT ![t] = "d_table"]
      BY <1>1, <1>5, <3>2 DEF SetPCs, SizePCs, TablePCs
    <3>3. CASE UNCHANGED <<pc, args, temps>>
      BY <2>4, <3>3
    <3> QED BY <2>f, <3>1, <3>2, <3>3 DEF CountTest, Faulted
  <2>g. ASSUME DestroyTable(t) PROVE Place(t)'
    <3>1. /\ tbl'[t] = TableOf(obj[t]) /\ mem' = mem /\ obj' = obj
          /\ pc'[t] = IF TableOf(obj[t]) = Null THEN "d_free" ELSE "d_bucket"
      BY <1>1, <2>g DEF DestroyTable, TableOf
    <3>2. TableOf(obj[t])' = TableOf(obj[t])
      BY <3>1 DEF TableOf, AoAt, IsaOf
    <3> QED BY <3>1, <3>2 DEF Place, SetPCs, SizePCs, TablePCs
  <2>h. ASSUME DestroyBucket(t) \/ SetNext(t) PROVE Place(t)'
    BY <2>4, <2>h DEF DestroyBucket, SetNext, Faulted
  <2>i. ASSUME FreeTable(t) PROVE Place(t)'
    <3>1. pc'[t] = "d_free"
      BY <1>1, <2>i DEF FreeTable
    <3> QED BY <1>5, <3>1 DEF SetPCs, SizePCs, TablePCs
  <2>j. ASSUME NEW o \in Objects, NEW k \in Keys, BeginGet(t, o, k) PROVE Place(t)'
    <3>1. pc'[t] = "g_load"
      BY <1>1, <2>j DEF BeginGet
    <3> QED BY <1>5, <3>1 DEF SetPCs, SizePCs, TablePCs
  <2>k. ASSUME NEW o \in Objects, NEW k \in Keys, NEW v \in Values, BeginSet(t, o, k, v)
        PROVE Place(t)'
    <3>1. pc'[t] = "s_load" /\ t \in Setters
      BY <1>1, <2>k DEF BeginSet
    <3> QED BY <3>1 DEF Place, SetPCs, SizePCs, TablePCs
  <2>l. ASSUME GetLoad(t) PROVE Place(t)'
    <3>1. CASE pc' = [pc EXCEPT ![t] = "g_ret"]
      BY <1>1, <1>5, <3>1 DEF SetPCs, SizePCs, TablePCs
    <3>2. CASE pc' # [pc EXCEPT ![t] = "g_ret"]
      <4>1. /\ tbl'[t] = TableOf(obj[t]) /\ TableOf(obj[t]) # Null /\ UNCHANGED <<mem, obj>>
            /\ pc'[t] = "g_bucket"
        BY <1>1, <2>l, <3>2 DEF GetLoad, TableOf
      <4>2. TableOf(obj[t])' = TableOf(obj[t])
        BY <4>1 DEF TableOf, AoAt, IsaOf
      <4> QED BY <4>1, <4>2 DEF Place, SetPCs, SizePCs, TablePCs
    <3> QED BY <3>1, <3>2
  <2>ma. ASSUME GetBucket(t) PROVE Place(t)'
    <3>1. CASE pc' = [pc EXCEPT ![t] = "g_ret"]
      BY <1>1, <1>5, <3>1 DEF SetPCs, SizePCs, TablePCs
    <3>2. CASE pc' # [pc EXCEPT ![t] = "g_ret"]
      <4>1. /\ pc[t] = "g_bucket" /\ pc'[t] = "g_walk" /\ UNCHANGED <<mem, obj, tbl>>
        BY <1>1, <2>ma, <3>2 DEF GetBucket
      <4>2. TableOf(obj[t])' = TableOf(obj[t])
        BY <4>1 DEF TableOf, AoAt, IsaOf
      <4> QED BY <4>1, <4>2 DEF Places, Place, SetPCs, SizePCs, TablePCs
    <3> QED BY <3>1, <3>2
  <2>m. ASSUME GetWalk(t) PROVE Place(t)'
    <3>1. CASE pc' = [pc EXCEPT ![t] = "g_ret"]
      BY <1>1, <1>5, <3>1 DEF SetPCs, SizePCs, TablePCs
    <3>2. CASE pc' # [pc EXCEPT ![t] = "g_ret"]
      BY <2>4, <2>m, <3>2 DEF GetWalk
    <3> QED BY <3>1, <3>2
  <2>n. ASSUME Leave(t) PROVE Place(t)'
    BY <1>5, <1>6, <2>n DEF SetPCs, SizePCs, TablePCs
  <2>o. ASSUME SetLoad(t) PROVE Place(t)'
    <3>1. /\ tbl'[t] = TableOf(obj[t]) /\ UNCHANGED <<mem, obj>> /\ pc[t] = "s_load"
          /\ pc'[t] = IF TableOf(obj[t]) = Null THEN "s_table" ELSE "s_bucket"
      BY <1>1, <2>o DEF SetLoad, TableOf
    <3>2. TableOf(obj[t])' = TableOf(obj[t])
      BY <3>1 DEF TableOf, AoAt, IsaOf
    <3>3. t \in Setters
      BY <3>1 DEF Places, Place, SetPCs
    <3> QED BY <3>1, <3>2, <3>3 DEF Place, SetPCs, SizePCs, TablePCs
  <2>p. ASSUME SetBucket(t) PROVE Place(t)'
    <3>1. /\ pc[t] = "s_bucket" /\ pc'[t] \in {"s_first", "s_walk"} /\ UNCHANGED <<mem, obj, tbl>>
      BY <1>1, <2>p DEF SetBucket
    <3>2. TableOf(obj[t])' = TableOf(obj[t])
      BY <3>1 DEF TableOf, AoAt, IsaOf
    <3> QED BY <3>1, <3>2 DEF Places, Place, SetPCs, SizePCs, TablePCs
  <2>q. Place(t)'
    BY <1>d, <2>a, <2>b, <2>c, <2>d, <2>e, <2>f, <2>g, <2>h, <2>i, <2>j, <2>k, <2>l, <2>m, <2>ma, <2>n,
       <2>o, <2>p
       DEF Begin, Finish, Step, EndStep, AssocStep, SetFirst, SetFound, SetLink, Store, GetReturn
  <2> QED BY <1>4, <2>3, <2>q DEF Looks
<1> QED BY <1>a, <1>b, <1>c, <1>d

-----------------------------------------------------------------------------
(* What is done with the nodes of a bucket.                                *)

(* The nodes r are the nodes s, and the node of key k has the object v.    *)
Stored(s, r, k, v) ==
  /\ DOMAIN s \subseteq DOMAIN r
  /\ \A i \in DOMAIN s : r[i].key = s[i].key
  /\ \E i \in DOMAIN r : r[i].key = k /\ r[i].object = v
  /\ \A i \in DOMAIN r : r[i].key # k => i \in DOMAIN s /\ r[i] = s[i]

LEMMA OneNode ==
  ASSUME NEW k \in Keys, NEW v \in Values
  PROVE  /\ KeyedNodes(<<[key |-> k, object |-> v]>>, Bucket[k])
         /\ Stored(<<>>, <<[key |-> k, object |-> v]>>, k, v)
BY DEF KeyedNodes, NodeSet, Stored

LEMMA FoundNode ==
  ASSUME NEW b, NEW s, KeyedNodes(s, b), NEW i \in DOMAIN s, NEW v \in Values
  PROVE  /\ KeyedNodes([s EXCEPT ![i].object = v], b)
         /\ Stored(s, [s EXCEPT ![i].object = v], s[i].key, v)
<1> DEFINE n == [s[i] EXCEPT !.object = v]
           r == [s EXCEPT ![i] = n]
<1>1. s \in Seq(NodeSet) /\ s[i] \in NodeSet
  BY DEF KeyedNodes
<1>2. n \in NodeSet /\ n.key = s[i].key /\ n.object = v
  BY <1>1 DEF NodeSet
<1>3. r = [s EXCEPT ![i].object = v]
  OBVIOUS
<1> HIDE DEF n
<1>4. /\ r \in Seq(NodeSet) /\ Len(r) = Len(s) /\ DOMAIN r = DOMAIN s /\ r[i] = n
      /\ \A j \in DOMAIN s : j # i => r[j] = s[j]
  BY <1>1, <1>2
<1> HIDE DEF r
<1>5. \A j \in DOMAIN s : r[j].key = s[j].key
  BY <1>2, <1>4
<1>6. KeyedNodes(r, b)
  BY <1>4, <1>5 DEF KeyedNodes
<1>7. Len(s) \in Nat
  BY <1>1
<1>8. Stored(s, r, s[i].key, v)
  BY <1>2, <1>4, <1>5, <1>7 DEF Stored
<1> QED BY <1>3, <1>6, <1>8

LEMMA LinkedNode ==
  ASSUME NEW b, NEW s, KeyedNodes(s, b), NEW k \in Keys, Bucket[k] = b, NEW v \in Values,
         \A i \in DOMAIN s : s[i].key # k
  PROVE  /\ KeyedNodes(Append(s, [key |-> k, object |-> v]), b)
         /\ Stored(s, Append(s, [key |-> k, object |-> v]), k, v)
<1> DEFINE n == [key |-> k, object |-> v]
           r == Append(s, n)
<1>1. n \in NodeSet /\ n.key = k /\ n.object = v
  BY DEF NodeSet
<1> HIDE DEF n
<1>2. s \in Seq(NodeSet) /\ Len(s) \in Nat /\ DOMAIN s = 1..Len(s)
  BY DEF KeyedNodes
<1>3. /\ r \in Seq(NodeSet) /\ Len(r) = Len(s) + 1 /\ DOMAIN r = 1..(Len(s) + 1)
      /\ \A i \in 1..Len(s) : r[i] = s[i]
      /\ r[Len(s) + 1] = n
  BY <1>1, <1>2
<1> HIDE DEF r
<1>4. \A i \in DOMAIN r : i \in DOMAIN s \/ i = Len(s) + 1
  BY <1>2, <1>3
<1>5. KeyedNodes(r, b)
  <2>1. \A i \in DOMAIN r : Bucket[r[i].key] = b
    BY <1>1, <1>2, <1>3, <1>4 DEF KeyedNodes
  <2>2. \A i, j \in DOMAIN r : r[i].key = r[j].key => i = j
    BY <1>1, <1>2, <1>3, <1>4 DEF KeyedNodes
  <2> QED BY <1>3, <2>1, <2>2 DEF KeyedNodes
<1>6. Stored(s, r, k, v)
  <2>1. Len(s) + 1 \in DOMAIN r /\ DOMAIN s \subseteq DOMAIN r
    BY <1>2, <1>3
  <2> QED BY <1>1, <1>2, <1>3, <1>4, <2>1 DEF Stored
<1>7. KeyedNodes(Append(s, n), b) /\ Stored(s, Append(s, n), k, v)
  BY <1>5, <1>6 DEF r
<1> QED BY <1>7 DEF n

LEMMA LastNode ==
  ASSUME NEW b, NEW s, KeyedNodes(s, b), s # <<>>
  PROVE  KeyedNodes(<<Last(s)>>, b)
<1>1. s \in Seq(NodeSet) /\ Len(s) \in DOMAIN s
  BY DEF KeyedNodes
<1>2. Last(s) = s[Len(s)] /\ Last(s) \in NodeSet /\ Bucket[Last(s).key] = b
  BY <1>1 DEF Last, KeyedNodes
<1> HIDE DEF KeyedNodes
<1>3. /\ <<Last(s)>> \in Seq(NodeSet) /\ DOMAIN <<Last(s)>> = {1}
      /\ <<Last(s)>>[1] = Last(s)
  BY <1>2
<1> QED BY <1>2, <1>3 DEF KeyedNodes

Replaces(tb, b, r) == chain' = [chain EXCEPT ![tb][b] = r]

LEMMA ChainReplaced ==
  ASSUME Chains, NEW tb \in Tables, NEW b \in 1..Buckets, NEW r, Replaces(tb, b, r)
  PROVE  /\ DOMAIN chain' = Tables /\ \A x \in Tables : DOMAIN chain'[x] = 1..Buckets
         /\ chain'[tb][b] = r
         /\ \A x \in Tables, c \in 1..Buckets :
              x # tb \/ c # b => chain'[x][c] = chain[x][c]
<1>1. /\ DOMAIN chain = Tables /\ \A x \in Tables : DOMAIN chain[x] = 1..Buckets
      /\ chain' = [chain EXCEPT ![tb] = [chain[tb] EXCEPT ![b] = r]]
  BY DEF Chains, Replaces
<1>2. /\ DOMAIN chain' = Tables /\ chain'[tb] = [chain[tb] EXCEPT ![b] = r]
      /\ \A x \in Tables : x # tb => chain'[x] = chain[x]
  BY <1>1
<1> QED BY <1>1, <1>2

(* The bucket a thread is at. *)
LEMMA BucketIs ==
  ASSUME Shapes, Calls, Refs, Apart, Places, Chains, Walks,
         NEW t \in Threads, pc[t] \in TablePCs \ {"d_bucket"}
  PROVE  /\ tbl[t] \in used /\ tbl[t] \in Tables /\ key[t] \in Keys
         /\ Bucket[key[t]] \in 1..Buckets /\ KeyedNodes(Nodes(t), Bucket[key[t]])
         /\ tbl[t] = TableOf(obj[t]) /\ obj[t] \in Objects /\ Born(obj[t])
<1>1. pc[t] \in UsePCs /\ pc[t] \in SetPCs \cup GetPCs
  BY DEF TablePCs, UsePCs, SetPCs, GetPCs
<1>2. obj[t] \in Objects /\ Born(obj[t])
  BY <1>1, UsedIs
<1>3. tbl[t] = TableOf(obj[t]) /\ tbl[t] # Null
  BY DEF Places, Place
<1>4. tbl[t] \in used /\ tbl[t] \in Tables
  BY <1>2, <1>3 DEF Apart, Shapes
<1>5. key[t] \in Keys /\ Bucket[key[t]] \in 1..Buckets
  BY <1>1, ObjectsAssumption DEF Walks, Walk
<1> QED BY <1>2, <1>3, <1>4, <1>5 DEF Chains, Nodes

LEMMA NodesStored ==
  ASSUME Shapes, Calls, Refs, Apart, Places, Chains, Walks,
         NEW t \in Threads, SetFirst(t) \/ SetFound(t) \/ SetLink(t)
  PROVE  \E r : /\ Replaces(tbl[t], Bucket[key[t]], r) /\ KeyedNodes(r, Bucket[key[t]])
                /\ Stored(Nodes(t), r, key[t], val[t])
<1>1. /\ pc[t] \in {"s_first", "s_walk"} /\ pc[t] \in TablePCs \ {"d_bucket"}
      /\ key[t] \in Keys /\ val[t] \in Values
  BY DEF SetFirst, SetFound, SetLink, TablePCs, Walks, Walk, SetPCs
<1>2. KeyedNodes(Nodes(t), Bucket[key[t]])
  BY <1>1, BucketIs
<1> DEFINE b == Bucket[key[t]]
<1>3. CASE SetFirst(t)
  <2>1. Nodes(t) = <<>> /\ Replaces(tbl[t], b, <<[key |-> key[t], object |-> val[t]]>>)
    BY <1>3 DEF SetFirst, Store, Node, Walks, Walk, Replaces
  <2> QED BY <1>1, <2>1, OneNode
<1>4. CASE SetFound(t)
  <2>1. /\ pos[t] \in DOMAIN Nodes(t) /\ Nodes(t)[pos[t]].key = key[t]
        /\ Replaces(tbl[t], b, [Nodes(t) EXCEPT ![pos[t]].object = val[t]])
    BY <1>4 DEF SetFound, Store, SameKey, Walks, Walk, Replaces
  <2> HIDE DEF b
  <2>2. /\ KeyedNodes([Nodes(t) EXCEPT ![pos[t]].object = val[t]], b)
        /\ Stored(Nodes(t), [Nodes(t) EXCEPT ![pos[t]].object = val[t]],
                  Nodes(t)[pos[t]].key, val[t])
    BY <1>1, <1>2, <2>1, FoundNode DEF b
  <2> QED BY <2>1, <2>2 DEF b
<1>5. CASE SetLink(t)
  <2>1. /\ pos[t] \in DOMAIN Nodes(t) /\ pos[t] = Len(Nodes(t)) /\ Nodes(t)[pos[t]].key # key[t]
        /\ \A i \in 1..(pos[t] - 1) : Nodes(t)[i].key # key[t]
        /\ Replaces(tbl[t], b, Append(Nodes(t), [key |-> key[t], object |-> val[t]]))
    BY <1>5 DEF SetLink, Store, SameKey, Walks, Walk, Replaces, Node
  <2>2. DOMAIN Nodes(t) = 1..Len(Nodes(t)) /\ Len(Nodes(t)) \in Nat
    BY <1>2 DEF KeyedNodes
  <2>3. \A i \in DOMAIN Nodes(t) : Nodes(t)[i].key # key[t]
    <3>1. \A n \in Nat : \A i \in 1..n : i = n \/ i \in 1..(n - 1)
      OBVIOUS
    <3> QED BY <2>1, <2>2, <3>1
  <2> HIDE DEF b
  <2>4. /\ KeyedNodes(Append(Nodes(t), [key |-> key[t], object |-> val[t]]), b)
        /\ Stored(Nodes(t), Append(Nodes(t), [key |-> key[t], object |-> val[t]]),
                  key[t], val[t])
    BY <1>1, <1>2, <2>3, LinkedNode DEF b
  <2> QED BY <2>1, <2>4 DEF b
<1> QED BY <1>3, <1>4, <1>5

(* The destructor is at a bucket of a table nobody else is at. *)
LEMMA BucketDestroyed ==
  ASSUME Shapes, Calls, Refs, Apart, Places, Chains, Walks,
         NEW t \in Threads, DestroyBucket(t), chain[tbl[t]][pos[t]] # <<>>
  PROVE  /\ tbl[t] \in used /\ tbl[t] \in Tables /\ pos[t] \in 1..Buckets
         /\ Replaces(tbl[t], pos[t], <<Last(chain[tbl[t]][pos[t]])>>)
         /\ tbl[t] = TableOf(obj[t]) /\ obj[t] \in Objects /\ Born(obj[t]) /\ Ends(t, obj[t])
<1>1. pc[t] = "d_bucket" /\ pos[t] <= Buckets /\ pos[t] > 0 /\ pos[t] \in Nat /\ Buckets \in Nat
  BY ObjectsAssumption DEF DestroyBucket, Walks, Walk
<1>2. obj[t] \in Objects /\ Born(obj[t]) /\ Ends(t, obj[t])
  BY <1>1, UsedIs DEF DeallocPCs, Ends
<1>3. tbl[t] = TableOf(obj[t]) /\ tbl[t] # Null
  BY <1>1 DEF Places, Place, TablePCs
<1>4. tbl[t] \in used /\ tbl[t] \in Tables
  BY <1>2, <1>3 DEF Apart, Shapes
<1> QED BY <1>1, <1>2, <1>3, <1>4 DEF DestroyBucket, Replaces

LEMMA ChainsStep ==
  ASSUME Shapes, Calls, Sizes, Refs, Apart, Places, Chains, Walks,
         NEW t \in Threads, Begin(t) \/ Finish(t) \/ Step(t)
  PROVE  Chains'
<1>1. used \subseteq used'
  BY DEF Begin, Finish, Step, SizeStep, EndStep, AssocStep, BeginAlloc, BeginCopy, BeginGet,
         BeginSet, SizeTest, SizeLoad, SizeStore, SizeReturn, CountTest, DestroyTable,
         DestroyBucket, FreeTable, GetLoad, GetBucket, GetWalk, GetReturn, SetLoad, SetBucket, SetFirst,
         SetFound, SetLink, SetNext, Store, Faulted, Retain, Release, SetClass,
         SetVariable, Make, CopyMemory, FreeObject, SetTable, memory
<1>2. chain' = chain => Chains'
  BY <1>1 DEF Chains
<1>3. ASSUME NEW tb \in used, tb \in Tables, NEW b \in 1..Buckets, NEW r,
             Replaces(tb, b, r), KeyedNodes(r, b)
      PROVE  Chains'
  <2>1. /\ DOMAIN chain' = Tables /\ \A x \in Tables : DOMAIN chain'[x] = 1..Buckets
        /\ chain'[tb][b] = r
        /\ \A x \in Tables, c \in 1..Buckets :
              x # tb \/ c # b => chain'[x][c] = chain[x][c]
    BY <1>3, ChainReplaced
  <2>2. ASSUME NEW x \in Tables, NEW c \in 1..Buckets
        PROVE  KeyedNodes(chain'[x][c], c) /\ (x \notin used' => chain'[x][c] = <<>>)
    BY <1>1, <1>3, <2>1 DEF Chains
  <2> QED BY <2>1, <2>2 DEF Chains
<1>4. CASE SetFirst(t) \/ SetFound(t) \/ SetLink(t)
  <2>1. pc[t] \in TablePCs \ {"d_bucket"}
    BY <1>4 DEF SetFirst, SetFound, SetLink, TablePCs
  <2> QED BY <1>3, <1>4, <2>1, BucketIs, NodesStored
<1>5. CASE DestroyBucket(t)
  <2>1. CASE chain[tbl[t]][pos[t]] = <<>>
    BY <1>2, <1>5, <2>1 DEF DestroyBucket, Faulted, memory
  <2>2. CASE chain[tbl[t]][pos[t]] # <<>>
    <3>1. KeyedNodes(chain[tbl[t]][pos[t]], pos[t])
      BY <1>5, <2>2, BucketDestroyed DEF Chains
    <3>2. KeyedNodes(<<Last(chain[tbl[t]][pos[t]])>>, pos[t])
      BY <2>2, <3>1, LastNode
    <3> QED BY <1>3, <1>5, <2>2, <3>2, BucketDestroyed
  <2> QED BY <2>1, <2>2
<1>6. CASE ~(SetFirst(t) \/ SetFound(t) \/ SetLink(t) \/ DestroyBucket(t))
  <2>1. chain' = chain
    BY <1>6
       DEF Begin, Finish, Step, SizeStep, EndStep, AssocStep, BeginAlloc, BeginCopy, BeginGet,
         BeginSet, SizeTest, SizeLoad, SizeStore, SizeReturn, CountTest, DestroyTable,
         FreeTable, GetLoad, GetBucket, GetWalk, GetReturn, SetLoad, SetBucket,
         SetNext, Faulted, Retain, Release, SetClass,
         SetVariable, Make, CopyMemory, FreeObject, SetTable, memory
  <2> QED BY <1>2, <2>1
<1> QED BY <1>4, <1>5, <1>6

(* What another thread sees of the nodes it walks on: the setter may store *)
(* one, of any key.                                                        *)
LEMMA NodesMove ==
  ASSUME Shapes, Calls, Sizes, Refs, Apart, Places, Chains, Walks, OneSetter,
         NEW t \in Threads, Begin(t) \/ Finish(t) \/ Step(t),
         NEW u \in Threads, u # t, pc[u] \in TablePCs \ {"d_bucket"}
  PROVE  \/ Nodes(u)' = Nodes(u)
         \/ /\ pc[u] \in {"g_bucket", "g_walk"}
            /\ \E k, v : Stored(Nodes(u), Nodes(u)', k, v)
<1>1. tbl'[u] = tbl[u] /\ key'[u] = key[u]
  BY OthersWait
<1>2. /\ tbl[u] \in Tables /\ Bucket[key[u]] \in 1..Buckets
      /\ tbl[u] = TableOf(obj[u]) /\ obj[u] \in Objects /\ Born(obj[u]) /\ tbl[u] # Null
  BY BucketIs DEF Places, Place
<1>3. chain' = chain => Nodes(u)' = Nodes(u)
  BY <1>1 DEF Nodes
<1>4. ASSUME NEW tb \in Tables, NEW b \in 1..Buckets, NEW r, Replaces(tb, b, r),
             tb # tbl[u] \/ b # Bucket[key[u]]
      PROVE  Nodes(u)' = Nodes(u)
  <2>1. \A x \in Tables, c \in 1..Buckets : x # tb \/ c # b => chain'[x][c] = chain[x][c]
    BY <1>4, ChainReplaced
  <2>2. chain'[tbl[u]][Bucket[key[u]]] = chain[tbl[u]][Bucket[key[u]]]
    BY <1>2, <1>4, <2>1
  <2> QED BY <1>1, <2>2 DEF Nodes
<1>5. CASE SetFirst(t) \/ SetFound(t) \/ SetLink(t)
  <2>1. pc[t] \in TablePCs \ {"d_bucket"} /\ pc[t] \in SetPCs
    BY <1>5 DEF SetFirst, SetFound, SetLink, TablePCs, SetPCs
  <2>2. PICK r : /\ Replaces(tbl[t], Bucket[key[t]], r)
                 /\ Stored(Nodes(t), r, key[t], val[t])
    BY <1>5, NodesStored
  <2>3. tbl[t] \in Tables /\ Bucket[key[t]] \in 1..Buckets
    BY <2>1, BucketIs
  <2>4. pc[u] \in {"g_bucket", "g_walk"}
    <3>1. t \in Setters /\ (pc[u] \in SetPCs => u \in Setters)
      BY <2>1 DEF Places, Place
    <3>2. pc[u] \notin SetPCs
      BY <3>1 DEF OneSetter
    <3> QED BY <3>2 DEF TablePCs, SetPCs
  <2>5. CASE tbl[t] # tbl[u] \/ Bucket[key[t]] # Bucket[key[u]]
    BY <1>4, <2>2, <2>3, <2>5
  <2>6. CASE tbl[t] = tbl[u] /\ Bucket[key[t]] = Bucket[key[u]]
    <3>1. chain'[tbl[t]][Bucket[key[t]]] = r
      BY <2>2, <2>3, ChainReplaced
    <3>2. Nodes(u)' = r /\ Nodes(u) = Nodes(t)
      BY <1>1, <2>6, <3>1 DEF Nodes
    <3> QED BY <2>2, <2>4, <3>2
  <2> QED BY <2>5, <2>6
<1>6. CASE DestroyBucket(t)
  <2>1. CASE chain[tbl[t]][pos[t]] = <<>>
    BY <1>3, <1>6, <2>1 DEF DestroyBucket, Faulted, memory
  <2>2. CASE chain[tbl[t]][pos[t]] # <<>>
    <3>1. /\ tbl[t] \in Tables /\ pos[t] \in 1..Buckets
          /\ Replaces(tbl[t], pos[t], <<Last(chain[tbl[t]][pos[t]])>>)
          /\ tbl[t] = TableOf(obj[t]) /\ obj[t] \in Objects /\ Born(obj[t]) /\ Ends(t, obj[t])
      BY <1>6, <2>2, BucketDestroyed
    <3>2. tbl[u] # tbl[t]
      <4>1. ASSUME tbl[u] = tbl[t] PROVE FALSE
        <5>1. obj[u] = obj[t]
          BY <1>2, <3>1, <4>1 DEF Apart
        <5>2. holds[u][obj[u]] = 0
          BY <3>1, <5>1, EndedIs
        <5>3. holds[u][obj[u]] > 0
          BY <1>2 DEF Calls, UsePCs, TablePCs, SetPCs, GetPCs
        <5> QED BY <5>2, <5>3
      <4> QED BY <4>1
    <3> QED BY <1>4, <3>1, <3>2
  <2> QED BY <2>1, <2>2
<1>7. CASE ~(SetFirst(t) \/ SetFound(t) \/ SetLink(t) \/ DestroyBucket(t))
  <2>1. chain' = chain
    BY <1>7
       DEF Begin, Finish, Step, SizeStep, EndStep, AssocStep, BeginAlloc, BeginCopy, BeginGet,
         BeginSet, SizeTest, SizeLoad, SizeStore, SizeReturn, CountTest, DestroyTable,
         FreeTable, GetLoad, GetBucket, GetWalk, GetReturn, SetLoad, SetBucket,
         SetNext, Faulted, Retain, Release, SetClass,
         SetVariable, Make, CopyMemory, FreeObject, SetTable, memory
  <2> QED BY <1>3, <2>1
<1> QED BY <1>5, <1>6, <1>7

LEMMA WalksStep ==
  ASSUME Shapes, Calls, Sizes, Refs, Apart, Places, Chains, Walks, OneSetter,
         NEW t \in Threads, Begin(t) \/ Finish(t) \/ Step(t)
  PROVE  Walks'
<1> USE DEF Goto, Set, memory, args, temps, history
<1>1. /\ \A u \in Threads \ {t} : /\ pc'[u] = pc[u] /\ tbl'[u] = tbl[u]
                                  /\ pos'[u] = pos[u] /\ key'[u] = key[u] /\ val'[u] = val[u]
      /\ pc \in [Threads -> {"idle"} \cup SizePCs \cup SetPCs \cup GetPCs
                            \cup DeallocPCs \cup OtherPCs]
      /\ tbl \in [Threads -> Tables \cup {Null}]
      /\ key \in [Threads -> Keys \cup {Null}] /\ pos \in [Threads -> Nat]
      /\ val \in [Threads -> Values \cup {Null, NoThing}]
      /\ fault \in {"none", "nil_instance", "overread", "abort", "null_bucket"}
  BY OthersWait DEF Shapes, Walks
<1> DEFINE Types == /\ key \in [Threads -> Keys \cup {Null}] /\ pos \in [Threads -> Nat]
                    /\ val \in [Threads -> Values \cup {Null, NoThing}]
                    /\ fault \in {"none", "nil_instance", "overread", "abort", "null_bucket"}
           Done == Types' /\ Walk(t)'
(* The nodes before the one a thread is at keep their keys. *)
<1>2. ASSUME NEW u \in Threads, u # t PROVE Walk(u)'
  <2>1. Walk(u)
    BY DEF Walks
  <2>2. CASE pc[u] \notin TablePCs \ {"d_bucket"}
    BY <1>1, <1>2, <2>1, <2>2 DEF Walk, TablePCs
  <2>3. CASE Nodes(u)' = Nodes(u)
    BY <1>1, <1>2, <2>1, <2>3 DEF Walk
  <2>3a. CASE pc[u] = "g_bucket"
    <3>1. pc'[u] = "g_bucket" /\ pos'[u] = pos[u] /\ key'[u] = key[u] /\ val'[u] = val[u]
      BY <1>1, <1>2, <2>3a
    <3> QED BY <2>1, <2>3a, <3>1 DEF Walk, SetPCs, GetPCs
  <2>4. CASE pc[u] = "g_walk" /\ \E k, v : Stored(Nodes(u), Nodes(u)', k, v)
    <3>1. PICK k, v : Stored(Nodes(u), Nodes(u)', k, v)
      BY <2>4
    <3>2. /\ pos[u] \in DOMAIN Nodes(u) /\ Nodes(u) \in Seq(NodeSet)
          /\ \A i \in 1..(pos[u] - 1) : Nodes(u)[i].key # key[u]
      BY <2>1, <2>4, BucketIs DEF Walk, TablePCs, KeyedNodes
    <3>3. \A i \in 1..(pos[u] - 1) : i \in DOMAIN Nodes(u)
      BY <3>2
    <3>4. /\ pos[u] \in DOMAIN Nodes(u)'
          /\ \A i \in 1..(pos[u] - 1) : Nodes(u)'[i].key # key[u]
      BY <3>1, <3>2, <3>3 DEF Stored
    <3>5. pc'[u] = "g_walk" /\ pos'[u] = pos[u] /\ key'[u] = key[u]
      BY <1>1, <1>2, <2>4
    <3> QED BY <2>1, <2>4, <3>4, <3>5 DEF Walk, SetPCs, GetPCs
  <2> QED BY <1>2, <2>2, <2>3, <2>3a, <2>4, NodesMove
<1>3. Walk(t)
  BY DEF Walks
<1>4. ASSUME pc'[t] \notin SetPCs \cup GetPCs \cup {"d_bucket"} PROVE Walk(t)'
  BY <1>4 DEF Walk, SetPCs, GetPCs
<1>5. UNCHANGED <<pc, args, temps, chain>> => Walk(t)'
  BY <1>3 DEF Walk, Nodes
<1>6. Leave(t) => pc'[t] = "idle" /\ key' \in [Threads -> Keys \cup {Null}]
                  /\ pos' \in [Threads -> Nat] /\ val' \in [Threads -> Values \cup {Null, NoThing}]
  BY <1>1 DEF Leave
<1>7. ASSUME Leave(t), fault' = fault PROVE Done
  BY <1>1, <1>4, <1>6, <1>7 DEF SetPCs, GetPCs
<1>a. SizeStep(t) => Done
  BY <1>1, <1>4 DEF SizeStep, SizeTest, SizeLoad, SizeStore, SizeReturn, AfterSize, SetPCs, GetPCs
<1>b. ASSUME NEW c \in Made, BeginAlloc(t, c) PROVE Done
  <2>1. CASE c \in Unfinished
    BY <1>1, <1>5, <1>b, <2>1 DEF BeginAlloc, Faulted
  <2>2. CASE c \notin Unfinished
    BY <1>1, <1>4, <1>b, <2>2 DEF BeginAlloc, SetPCs, GetPCs
  <2> QED BY <2>1, <2>2
<1>c. ASSUME NEW o \in Objects, BeginCopy(t, o) PROVE Done
  BY <1>1, <1>4, <1>c DEF BeginCopy, SetPCs, GetPCs
<1>d. ASSUME NEW o \in Objects, \/ \E c \in Classes : SetClass(t, o, c)
                                \/ \E v \in Values : SetVariable(t, o, v)
                                \/ \E u \in Threads : Retain(t, u, o)
      PROVE Done
  BY <1>1, <1>5, <1>d DEF SetClass, SetVariable, Retain
<1>e. ASSUME NEW o \in Objects, Release(t, o) PROVE Done
  BY <1>1, <1>4, <1>e DEF Release, SetPCs, GetPCs
<1>f. ASSUME CountTest(t) PROVE Done
  <2>1. CASE UNCHANGED <<pc, args, temps, chain>> /\ fault' = "abort"
    BY <1>1, <1>5, <2>1
  <2>2. CASE UNCHANGED <<args, temps, fault>> /\ pc' = [pc EXCEPT ![t] = "d_table"]
    BY <1>1, <1>4, <2>2 DEF SetPCs, GetPCs
  <2>3. CASE Leave(t) /\ fault' = fault
    BY <1>7, <2>3
  <2> QED BY <1>f, <2>1, <2>2, <2>3 DEF CountTest, Faulted
<1>g. ASSUME Make(t) \/ FreeObject(t) \/ GetReturn(t) \/ CopyMemory(t) PROVE Done
  <2>1. Leave(t) /\ fault' = fault
    BY <1>g, CopyFits DEF Make, FreeObject, GetReturn, CopyMemory
  <2> QED BY <1>7, <2>1
<1>h. ASSUME SetFirst(t) \/ SetFound(t) \/ SetLink(t) PROVE Done
  BY <1>7, <1>h DEF SetFirst, SetFound, SetLink, Store
<1>i. ASSUME DestroyTable(t) PROVE Done
  <2>1. /\ pc'[t] \in {"d_free", "d_bucket"} /\ pos' = [pos EXCEPT ![t] = 1]
        /\ UNCHANGED <<key, val, fault>>
    BY <1>1, <1>i DEF DestroyTable
  <2> QED BY <1>1, <2>1 DEF Walk, SetPCs, GetPCs
<1>j. ASSUME DestroyBucket(t) PROVE Done
  <2>1. CASE chain[tbl[t]][pos[t]] = <<>>
    BY <1>1, <1>5, <1>j, <2>1 DEF DestroyBucket, Faulted
  <2>2. CASE chain[tbl[t]][pos[t]] # <<>>
    <3>1. /\ pc[t] = "d_bucket" /\ pos' = [pos EXCEPT ![t] = @ + 1]
          /\ UNCHANGED <<pc, key, val, fault>>
      BY <1>j, <2>2 DEF DestroyBucket
    <3> QED BY <1>1, <3>1 DEF Walk, SetPCs, GetPCs
  <2> QED BY <2>1, <2>2
<1>k. ASSUME FreeTable(t) PROVE Done
  BY <1>1, <1>4, <1>k DEF FreeTable, SetPCs, GetPCs
<1>l. ASSUME NEW o \in Objects, NEW k \in Keys, BeginGet(t, o, k) PROVE Done
  <2>1. /\ pc'[t] = "g_load" /\ key' = [key EXCEPT ![t] = k] /\ UNCHANGED <<pos, val, fault>>
    BY <1>1, <1>l DEF BeginGet
  <2>2. key'[t] = k
    BY <1>1, <2>1
  <2> QED BY <1>1, <2>1, <2>2 DEF Walk, SetPCs, GetPCs
<1>m. ASSUME NEW o \in Objects, NEW k \in Keys, NEW v \in Values, BeginSet(t, o, k, v) PROVE Done
  <2>1. /\ pc'[t] = "s_load" /\ key' = [key EXCEPT ![t] = k] /\ val' = [val EXCEPT ![t] = v]
        /\ UNCHANGED <<pos, fault>>
    BY <1>1, <1>m DEF BeginSet
  <2>2. key'[t] = k /\ val'[t] = v
    BY <1>1, <2>1
  <2> QED BY <1>1, <2>1, <2>2 DEF Walk, SetPCs, GetPCs
<1>n. ASSUME GetLoad(t) PROVE Done
  <2>1. /\ pc[t] = "g_load" /\ key[t] \in Keys /\ UNCHANGED <<key, pos, chain, fault>>
        /\ pc'[t] \in {"g_ret", "g_bucket"} /\ val' \in {val, [val EXCEPT ![t] = NoThing]}
    BY <1>1, <1>3, <1>n DEF GetLoad, Walk, GetPCs
  <2>2. pc'[t] = "g_ret" => val'[t] = NoThing
    BY <1>1, <1>n DEF GetLoad
  <2> QED BY <1>1, <2>1, <2>2 DEF Walk, SetPCs, GetPCs
<1>na. ASSUME GetBucket(t) PROVE Done
  <2>1. pc[t] = "g_bucket" /\ key[t] \in Keys /\ UNCHANGED <<key, tbl, chain, fault>>
    BY <1>3, <1>na DEF GetBucket, Walk, GetPCs
  <2>2. CASE Nodes(t) = <<>>
    <3>1. val' = [val EXCEPT ![t] = NoThing] /\ pos' = pos /\ pc'[t] = "g_ret"
      BY <1>1, <1>na, <2>2 DEF GetBucket
    <3> QED BY <1>1, <2>1, <3>1 DEF Walk, SetPCs, GetPCs
  <2>3. CASE Nodes(t) # <<>>
    <3>1. pc'[t] = "g_walk" /\ pos' = [pos EXCEPT ![t] = 1] /\ val' = val
      BY <1>1, <1>na, <2>3 DEF GetBucket
    <3>2. Nodes(t)' = Nodes(t) /\ Nodes(t) \in Seq(NodeSet)
      BY <2>1, BucketIs DEF Nodes, TablePCs, KeyedNodes
    <3>3. 1 \in DOMAIN Nodes(t)' /\ pos'[t] = 1
      BY <1>1, <2>3, <3>1, <3>2
    <3>4. Walk(t)'
      BY <2>1, <3>1, <3>3 DEF Walk, SetPCs, GetPCs
    <3> QED BY <1>1, <2>1, <3>1, <3>4
  <2> QED BY <2>2, <2>3
<1>o. ASSUME GetWalk(t) PROVE Done
  <2>1. /\ pc[t] = "g_walk" /\ key[t] \in Keys /\ UNCHANGED <<key, tbl, chain, fault>>
        /\ pos[t] \in DOMAIN Nodes(t)
        /\ \A i \in 1..(pos[t] - 1) : Nodes(t)[i].key # key[t]
    BY <1>3, <1>o DEF GetWalk, Walk, GetPCs
  <2>2. Nodes(t) \in Seq(NodeSet)
    BY <2>1, BucketIs DEF TablePCs, KeyedNodes
  <2>3. Nodes(t)[pos[t]].object \in Values
    <3>1. Nodes(t)[pos[t]] \in NodeSet
      BY <2>1, <2>2
    <3> QED BY <3>1 DEF NodeSet
  <2>4. CASE pc' = [pc EXCEPT ![t] = "g_ret"]
    <3>1. /\ pos' = pos /\ pc'[t] = "g_ret"
          /\ val' = [val EXCEPT ![t] = Nodes(t)[pos[t]].object] \/ val' = [val EXCEPT ![t] = NoThing]
             \/ val' = val
      BY <1>1, <1>o, <2>4 DEF GetWalk
    <3> QED BY <1>1, <2>1, <2>3, <3>1 DEF Walk, SetPCs, GetPCs
  <2>5. CASE pc' # [pc EXCEPT ![t] = "g_ret"]
    <3>1. /\ pc' = pc /\ val' = val /\ pos' = [pos EXCEPT ![t] = @ + 1]
          /\ Nodes(t)[pos[t]].key # key[t] /\ pos[t] < Len(Nodes(t))
      BY <1>o, <2>5 DEF GetWalk, SameKey
    <3>2. Nodes(t)' = Nodes(t)
      BY <2>1 DEF Nodes
    <3>3. pos[t] + 1 \in DOMAIN Nodes(t) /\ \A i \in 1..((pos[t] + 1) - 1) : Nodes(t)[i].key # key[t]
      BY <2>1, <2>2, <3>1
    <3>4. Walk(t)'
      BY <1>1, <2>1, <3>1, <3>2, <3>3 DEF Walk, SetPCs, GetPCs
    <3> QED BY <1>1, <2>1, <3>1, <3>4
  <2> QED BY <2>4, <2>5
<1>p. ASSUME SetLoad(t) \/ SetTable(t) PROVE Done
  <2>1. /\ pc[t] \in SetPCs /\ pc'[t] \in {"s_table", "s_bucket"} /\ UNCHANGED <<key, val, pos, fault>>
    BY <1>1, <1>p DEF SetLoad, SetTable, SetPCs
  <2> QED BY <1>1, <1>3, <2>1 DEF Walk, SetPCs, GetPCs
<1>q. ASSUME SetBucket(t) PROVE Done
  <2>1. /\ pc[t] = "s_bucket" /\ UNCHANGED <<key, val, tbl, chain, fault>>
        /\ pos' = [pos EXCEPT ![t] = 1] /\ pos'[t] = 1
        /\ pc'[t] = IF Nodes(t) = <<>> THEN "s_first" ELSE "s_walk"
    BY <1>1, <1>q DEF SetBucket
  <2>2. Nodes(t)' = Nodes(t) /\ Nodes(t) \in Seq(NodeSet)
    BY <2>1, BucketIs DEF Nodes, TablePCs, KeyedNodes
  <2>3. Nodes(t) # <<>> => 1 \in DOMAIN Nodes(t)
    BY <2>2
  <2>4. Walk(t)'
    BY <1>3, <2>1, <2>2, <2>3 DEF Walk, SetPCs, GetPCs
  <2> QED BY <1>1, <2>1, <2>4
<1>r. ASSUME SetNext(t) PROVE Done
  <2>1. /\ pc[t] = "s_walk" /\ UNCHANGED <<pc, key, val, tbl, chain, fault>>
        /\ pos[t] \in DOMAIN Nodes(t) /\ pos' = [pos EXCEPT ![t] = @ + 1]
        /\ \A i \in 1..(pos[t] - 1) : Nodes(t)[i].key # key[t]
        /\ Nodes(t)[pos[t]].key # key[t] /\ pos[t] < Len(Nodes(t))
    BY <1>3, <1>r DEF SetNext, Walk, SameKey
  <2>2. Nodes(t)' = Nodes(t) /\ Nodes(t) \in Seq(NodeSet)
    BY <2>1, BucketIs DEF Nodes, TablePCs, KeyedNodes
  <2>3. pos[t] + 1 \in DOMAIN Nodes(t) /\ \A i \in 1..((pos[t] + 1) - 1) : Nodes(t)[i].key # key[t]
    BY <2>1, <2>2
  <2>4. Walk(t)'
    BY <1>1, <1>3, <2>1, <2>2, <2>3 DEF Walk, SetPCs, GetPCs
  <2> QED BY <1>1, <2>1, <2>4
<1>s. Done
  <2> HIDE DEF Done
  <2> QED BY <1>a, <1>b, <1>c, <1>d, <1>e, <1>f, <1>g, <1>h, <1>i, <1>j, <1>k, <1>l, <1>m, <1>n,
             <1>na, <1>o, <1>p, <1>q, <1>r DEF Begin, Finish, Step, EndStep, AssocStep
<1> QED BY <1>2, <1>s DEF Walks

-----------------------------------------------------------------------------
(* What is found in a bucket.                                              *)

LEMMA LookupIs ==
  ASSUME NEW o, NEW k
  PROVE  Lookup(o, k) = IF TableOf(o) \in Tables
                          THEN LookIn(chain[TableOf(o)][Bucket[k]], k) ELSE NoThing
BY DEF Lookup, TableOf

LEMMA LookFound ==
  ASSUME NEW b, NEW s, KeyedNodes(s, b), NEW i \in DOMAIN s
  PROVE  LookIn(s, s[i].key) = s[i].object
<1>1. Found(s, s[i].key) = {s[i]}
  BY DEF KeyedNodes, Found
<1> QED BY <1>1 DEF LookIn

LEMMA LookNone ==
  ASSUME NEW s, NEW k, \A i \in DOMAIN s : s[i].key # k
  PROVE  LookIn(s, k) = NoThing
BY DEF LookIn, Found

LEMMA LookStored ==
  ASSUME NEW b, NEW s, NEW r, KeyedNodes(r, b), NEW k, NEW v, Stored(s, r, k, v)
  PROVE  /\ LookIn(r, k) = v
         /\ \A j : j # k => LookIn(r, j) = LookIn(s, j)
<1>1. LookIn(r, k) = v
  <2>1. PICK i \in DOMAIN r : r[i].key = k /\ r[i].object = v
    BY DEF Stored
  <2> QED BY <2>1, LookFound
<1>2. ASSUME NEW j, j # k PROVE LookIn(r, j) = LookIn(s, j)
  <2>1. Found(r, j) = Found(s, j)
    <3>1. \A i \in DOMAIN s : s[i].key = j => i \in DOMAIN r /\ r[i] = s[i]
      BY <1>2 DEF Stored
    <3>2. \A i \in DOMAIN r : r[i].key = j => i \in DOMAIN s /\ r[i] = s[i]
      BY <1>2 DEF Stored
    <3> QED BY <3>1, <3>2 DEF Found
  <2> QED BY <2>1 DEF LookIn
<1> QED BY <1>1, <1>2

-----------------------------------------------------------------------------
(* What keeps what is known of the words of an object.                     *)
SameWords(o) ==
  /\ Born(o)' <=> Born(o)
  /\ Born(o) => mem'[o][IvarAt] = mem[o][IvarAt] /\ TableOf(o)' = TableOf(o)
  /\ ivar'[o] = ivar[o] /\ assoc'[o] = assoc[o]
  /\ Born(o) /\ TableOf(o) \in Tables => chain'[TableOf(o)] = chain[TableOf(o)]
  /\ Ending(o) => Ending(o)'

LEMMA WordsSame ==
  ASSUME NEW o \in Objects, WordsOf(o), SameWords(o)
  PROVE  WordsOf(o)'
<1>1. CASE ~Born(o)
  BY <1>1 DEF WordsOf, SameWords
<1>2. CASE Born(o)
  <2>1. ASSUME NEW k \in Keys PROVE Lookup(o, k)' = Lookup(o, k)
    <3>1. Lookup(o, k)' = IF TableOf(o)' \in Tables
                            THEN LookIn(chain'[TableOf(o)'][Bucket[k]], k) ELSE NoThing
      BY DEF Lookup, TableOf
    <3> QED BY <1>2, <3>1, LookupIs DEF SameWords
  <2> QED BY <1>2, <2>1 DEF WordsOf, SameWords
<1> QED BY <1>1, <1>2

LEMMA IvarWritten ==
  ASSUME Shapes, NEW o \in Objects, Born(o), NEW i, NEW v, Writes(o, i, v), i # IvarAt
  PROVE  \A p \in Objects : Born(p) => mem'[p][IvarAt] = mem[p][IvarAt]
<1>1. /\ \A p \in Objects : p # o => mem'[p] = mem[p]
      /\ \A j \in DOMAIN mem[o] : mem'[o][j] = IF j = i THEN v ELSE mem[o][j]
  BY WriteWord
<1>2. mem'[o][IvarAt] = mem[o][IvarAt]
  BY <1>1, BornIs
<1> QED BY <1>1, <1>2

LEMMA WordsStep ==
  ASSUME Shapes, Calls, Sizes, Refs, Apart, Places, Chains, Walks, Words, SwapsKeepSize,
         NEW t \in Threads, Begin(t) \/ Finish(t) \/ Step(t)
  PROVE  Words'
<1> USE DEF Goto, Set, memory, args, temps, history
<1>1. /\ \A u \in Threads \ {t} : pc'[u] = pc[u] /\ obj'[u] = obj[u]
      /\ pc \in [Threads -> {"idle"} \cup SizePCs \cup SetPCs \cup GetPCs
                            \cup DeallocPCs \cup OtherPCs]
      /\ obj \in [Threads -> Objects \cup {Null}] /\ Null \notin Objects
      /\ DOMAIN ivar = Objects /\ DOMAIN assoc = Objects /\ DOMAIN mem = Objects
      /\ DOMAIN chain = Tables /\ Null \notin Tables
      /\ \A o \in Objects : DOMAIN assoc[o] = Keys
  BY OthersWait, Constants DEF Shapes, Words, Chains
<1>2. ASSUME ~FreeObject(t), NEW o \in Objects, Ending(o) PROVE Ending(o)'
  <2>1. PICK u \in Threads : obj[u] = o /\ pc[u] \in DeallocPCs
    BY <1>2 DEF Ending
  <2>2. CASE u # t
    BY <1>1, <2>1, <2>2 DEF Ending
  <2>3. CASE u = t
    <3>1. DestroyTable(t) \/ DestroyBucket(t) \/ FreeTable(t)
      BY <1>2, <2>1, <2>3
         DEF Begin, Finish, Step, SizeStep, EndStep, AssocStep, BeginAlloc, BeginCopy, BeginGet,
           BeginSet, SizeTest, SizeLoad, SizeStore, SizeReturn, CountTest,
           GetLoad, GetBucket, GetWalk, GetReturn, SetLoad, SetBucket, SetFirst, DeallocPCs,
           SetFound, SetLink, SetNext, Retain, Release, SetClass,
           SetVariable, Make, CopyMemory, SetTable
    <3>2. obj'[t] = obj[t] /\ pc'[t] \in DeallocPCs
      BY <1>1, <2>1, <2>3, <3>1 DEF DestroyTable, DestroyBucket, FreeTable, Faulted, DeallocPCs
    <3> QED BY <2>1, <2>3, <3>2 DEF Ending
  <2> QED BY <2>2, <2>3
<1>3. ASSUME DOMAIN ivar' = Objects, DOMAIN assoc' = Objects,
             \A o \in Objects : DOMAIN assoc'[o] = Keys /\ (SameWords(o) \/ WordsOf(o)')
      PROVE  Words'
  BY <1>3, WordsSame DEF Words
<1>4. CASE Make(t) \/ CopyMemory(t)
  <2>1. PICK o \in Objects :
           /\ Unborn(o) /\ Born(o)' /\ TableOf(o)' = Null
           /\ \A p \in Objects : p # o => mem'[p] = mem[p]
           /\ \/ UNCHANGED <<assoc, ivar>> /\ mem'[o][IvarAt] = Null
              \/ \E p \in Objects :
                    /\ Born(p) /\ holds[t][p] > 0 /\ TableOf(p) = Null
                    /\ assoc' = [assoc EXCEPT ![o] = assoc[p]] /\ mem'[o] = mem[p]
                    /\ ivar' = [ivar EXCEPT ![o] = ivar[p]]
    BY <1>4, TablesMade
  <2>2. chain' = chain /\ ~FreeObject(t)
    BY <1>4, CopyFits DEF Make, CopyMemory, FreeObject
  <2>3. /\ DOMAIN ivar' = Objects /\ DOMAIN assoc' = Objects
        /\ \A p \in Objects : DOMAIN assoc'[p] = Keys
        /\ \A p \in Objects : p # o => ivar'[p] = ivar[p] /\ assoc'[p] = assoc[p]
    BY <1>1, <2>1
  <2>4. ASSUME NEW q \in Objects, q # o PROVE SameWords(q)
    <3>1. mem'[q] = mem[q]
      BY <2>1, <2>4
    <3> QED BY <1>2, <2>2, <2>3, <2>4, <3>1 DEF SameWords, Born, TableOf, AoAt, IsaOf
  <2>5. \A k \in Keys : Lookup(o, k)' = NoThing
    BY <1>1, <2>1 DEF Lookup, TableOf
  <2>6. WordsOf(o)'
    <3>1. CASE UNCHANGED <<assoc, ivar>> /\ mem'[o][IvarAt] = Null
      <4>1. ivar[o] = Null /\ \A k \in Keys : assoc[o][k] = NoThing
        BY <2>1 DEF Words, WordsOf, Unborn, Born
      <4> QED BY <2>1, <2>5, <3>1, <4>1 DEF WordsOf
    <3>2. ASSUME NEW p \in Objects, Born(p), holds[t][p] > 0, TableOf(p) = Null,
                 assoc' = [assoc EXCEPT ![o] = assoc[p]], mem'[o] = mem[p],
                 ivar' = [ivar EXCEPT ![o] = ivar[p]]
          PROVE  WordsOf(o)'
      <4>1. ~Ending(p)
        <5>1. \A u \in Threads : obj[u] = p /\ pc[u] \in DeallocPCs => Ends(u, p)
          BY DEF Ends
        <5>2. \A u \in Threads : ~Ends(u, p)
          <6>1. RetainCount(p) # 0
            BY <3>2, HeldIs
          <6> QED BY <6>1 DEF Refs, RefsOf
        <5> QED BY <5>1, <5>2 DEF Ending
      <4>2. \A k \in Keys : Lookup(p, k) = NoThing
        BY <1>1, <3>2 DEF Lookup, TableOf
      <4>3. mem[p][IvarAt] = ivar[p] /\ \A k \in Keys : assoc[p][k] = NoThing
        BY <3>2, <4>1, <4>2 DEF Words, WordsOf
      <4>4. ivar'[o] = ivar[p] /\ assoc'[o] = assoc[p]
        BY <1>1, <3>2
      <4> QED BY <2>1, <2>5, <3>2, <4>3, <4>4 DEF WordsOf
    <3> QED BY <2>1, <3>1, <3>2
  <2> QED BY <1>3, <2>3, <2>4, <2>6
<1>5. CASE SetTable(t)
  <2>1. PICK o \in Objects, tb \in Tables \ used :
           /\ obj[t] = o /\ Born(o)
           /\ \A p \in Objects : Born(p)' <=> Born(p)
           /\ \A p \in Objects : p # o => mem'[p] = mem[p]
           /\ TableOf(o)' = tb /\ mem'[o][IvarAt] = mem[o][IvarAt]
    BY <1>5, TableGiven
  <2>2. UNCHANGED <<chain, assoc, ivar>> /\ ~FreeObject(t) /\ pc[t] = "s_table"
    BY <1>5 DEF SetTable, FreeObject
  <2>3. ASSUME NEW q \in Objects, q # o PROVE SameWords(q)
    <3>1. mem'[q] = mem[q]
      BY <2>1, <2>3
    <3> QED BY <1>2, <2>2, <2>3, <3>1 DEF SameWords, Born, TableOf, AoAt, IsaOf
  <2>4. ASSUME NEW k \in Keys PROVE Lookup(o, k)' = NoThing /\ Lookup(o, k) = NoThing
    <3>1. Bucket[k] \in 1..Buckets
      BY ObjectsAssumption
    <3>2. chain'[tb][Bucket[k]] = <<>>
      BY <2>1, <2>2, <3>1 DEF Chains
    <3>3. Lookup(o, k)' = LookIn(<<>>, k)
      BY <2>1, <3>2 DEF Lookup, TableOf
    <3>4. LookIn(<<>>, k) = NoThing
      BY LookNone
    <3>5. TableOf(o) = Null
      BY <2>1, <2>2 DEF Places, Place
    <3>6. Lookup(o, k) = NoThing
      BY <1>1, <3>5 DEF Lookup, TableOf
    <3> QED BY <3>3, <3>4, <3>6
  <2>5. WordsOf(o)'
    BY <1>2, <2>1, <2>2, <2>4 DEF Words, WordsOf
  <2> QED BY <1>1, <1>3, <2>2, <2>3, <2>5
<1>6. CASE FreeObject(t)
  <2>1. PICK o \in Objects :
           /\ obj[t] = o /\ Ends(t, o) /\ ~Born(o)' /\ pc[t] = "d_free"
           /\ \A p \in Objects : p # o => mem'[p] = mem[p]
    BY <1>6, ObjectFreed
  <2>2. /\ assoc' = [assoc EXCEPT ![o] = [k \in Keys |-> NoThing]]
        /\ ivar' = [ivar EXCEPT ![o] = Null] /\ chain' = chain
    BY <1>6, <2>1 DEF FreeObject
  <2>3. /\ DOMAIN ivar' = Objects /\ DOMAIN assoc' = Objects
        /\ \A p \in Objects : DOMAIN assoc'[p] = Keys
        /\ \A p \in Objects : p # o => ivar'[p] = ivar[p] /\ assoc'[p] = assoc[p]
        /\ ivar'[o] = Null /\ \A k \in Keys : assoc'[o][k] = NoThing
    BY <1>1, <2>2
  <2>4. ASSUME NEW q \in Objects, q # o PROVE SameWords(q)
    <3>1. mem'[q] = mem[q]
      BY <2>1, <2>4
    <3>2. Ending(q) => Ending(q)'
      BY <1>1, <2>1, <2>4 DEF Ending
    <3> QED BY <2>2, <2>3, <2>4, <3>1, <3>2 DEF SameWords, Born, TableOf, AoAt, IsaOf
  <2>5. WordsOf(o)'
    BY <2>1, <2>3 DEF WordsOf
  <2> QED BY <1>3, <2>3, <2>4, <2>5
<1>7. CASE SetFirst(t) \/ SetFound(t) \/ SetLink(t)
  <2>0. pc[t] \in TablePCs \ {"d_bucket"}
    BY <1>7 DEF SetFirst, SetFound, SetLink, TablePCs
  <2>1. PICK o \in Objects :
          /\ o = obj[t] /\ Born(o) /\ tbl[t] \in Tables /\ tbl[t] = TableOf(o)
          /\ key[t] \in Keys /\ Bucket[key[t]] \in 1..Buckets
    BY <2>0, BucketIs
  <2>2. PICK r : /\ Replaces(tbl[t], Bucket[key[t]], r) /\ KeyedNodes(r, Bucket[key[t]])
                 /\ Stored(Nodes(t), r, key[t], val[t])
    BY <1>7, NodesStored
  <2>3. /\ assoc' = [assoc EXCEPT ![o][key[t]] = val[t]] /\ UNCHANGED <<mem, ivar>>
        /\ ~FreeObject(t)
    BY <1>7, <2>1 DEF SetFirst, SetFound, SetLink, Store, FreeObject
  <2>4. /\ DOMAIN assoc' = Objects
        /\ \A p \in Objects : DOMAIN assoc'[p] = Keys
        /\ \A p \in Objects : p # o => assoc'[p] = assoc[p]
        /\ \A k \in Keys : assoc'[o][k] = IF k = key[t] THEN val[t] ELSE assoc[o][k]
    BY <1>1, <2>1, <2>3
  <2>5. /\ \A x \in Tables : x # tbl[t] => chain'[x] = chain[x]
        /\ chain'[tbl[t]][Bucket[key[t]]] = r
        /\ \A c \in 1..Buckets : c # Bucket[key[t]] => chain'[tbl[t]][c] = chain[tbl[t]][c]
    <3>1. \A x \in Tables : x # tbl[t] => chain'[x] = chain[x]
      BY <1>1, <2>1, <2>2 DEF Replaces
    <3> QED BY <2>1, <2>2, <3>1, ChainReplaced
  <2>6. ASSUME NEW q \in Objects, q # o PROVE SameWords(q)
    <3>1. Born(q) /\ TableOf(q) \in Tables => TableOf(q) # tbl[t]
      BY <1>1, <2>1, <2>6 DEF Apart
    <3> QED BY <1>2, <2>3, <2>4, <2>5, <2>6, <3>1 DEF SameWords, Born, TableOf, AoAt, IsaOf
  <2>7. /\ TableOf(o)' = TableOf(o) /\ Born(o)' /\ (Ending(o) => Ending(o)')
        /\ mem'[o][IvarAt] = ivar'[o]
    BY <1>2, <2>1, <2>3 DEF Born, TableOf, AoAt, IsaOf, Words, WordsOf
  <2>8. ASSUME ~Ending(o), NEW k \in Keys PROVE Lookup(o, k)' = assoc'[o][k]
    <3>1. Lookup(o, k)' = LookIn(chain'[tbl[t]][Bucket[k]], k)
      BY <2>1, <2>7 DEF Lookup, TableOf
    <3>2. Lookup(o, k) = LookIn(chain[tbl[t]][Bucket[k]], k)
      BY <2>1, LookupIs
    <3>3. Lookup(o, k) = assoc[o][k]
      BY <2>1, <2>8 DEF Words, WordsOf
    <3>4. CASE k = key[t]
      BY <2>2, <2>4, <2>5, <3>1, <3>4, LookStored
    <3>5. CASE k # key[t]
      <4>1. LookIn(r, k) = LookIn(Nodes(t), k)
        BY <2>2, <3>5, LookStored
      <4>2. LookIn(chain'[tbl[t]][Bucket[k]], k) = LookIn(chain[tbl[t]][Bucket[k]], k)
        <5>1. Bucket[k] \in 1..Buckets
          BY ObjectsAssumption
        <5> QED BY <2>5, <4>1, <5>1 DEF Nodes
      <4> QED BY <2>4, <3>1, <3>2, <3>3, <3>5, <4>2
    <3> QED BY <3>4, <3>5
  <2>9. WordsOf(o)'
    BY <2>7, <2>8 DEF WordsOf
  <2> QED BY <1>1, <1>3, <2>3, <2>4, <2>6, <2>9
<1>8. CASE DestroyBucket(t)
  <2>1. CASE chain[tbl[t]][pos[t]] = <<>>
    <3>1. UNCHANGED <<mem, chain, assoc, ivar>> /\ ~FreeObject(t)
      BY <1>8, <2>1 DEF DestroyBucket, Faulted, FreeObject
    <3>2. \A q \in Objects : SameWords(q)
      BY <1>2, <3>1 DEF SameWords, Born, TableOf, AoAt, IsaOf
    <3> QED BY <1>1, <1>3, <3>1, <3>2
  <2>2. CASE chain[tbl[t]][pos[t]] # <<>>
    <3>1. PICK o \in Objects :
            /\ o = obj[t] /\ Born(o) /\ Ends(t, o) /\ tbl[t] \in Tables /\ tbl[t] = TableOf(o)
            /\ \E r : Replaces(tbl[t], pos[t], r)
      BY <1>8, <2>2, BucketDestroyed
    <3>2. UNCHANGED <<mem, assoc, ivar, pc, obj>> /\ ~FreeObject(t) /\ pc[t] = "d_bucket"
      BY <1>8, <2>2 DEF DestroyBucket, FreeObject
    <3>3. \A x \in Tables : x # tbl[t] => chain'[x] = chain[x]
      BY <1>1, <3>1 DEF Replaces
    <3>4. ASSUME NEW q \in Objects, q # o PROVE SameWords(q)
      <4>1. Born(q) /\ TableOf(q) \in Tables => TableOf(q) # tbl[t]
        BY <1>1, <3>1, <3>4 DEF Apart
      <4> QED BY <1>2, <3>2, <3>3, <3>4, <4>1 DEF SameWords, Born, TableOf, AoAt, IsaOf
    <3>5. Ending(o)' /\ Born(o)' /\ mem'[o][IvarAt] = ivar'[o]
      BY <3>1, <3>2 DEF Ending, Born, Words, WordsOf, DeallocPCs
    <3>6. WordsOf(o)'
      BY <3>5 DEF WordsOf
    <3> QED BY <1>1, <1>3, <3>2, <3>4, <3>6
  <2> QED BY <2>1, <2>2
<1>9. ASSUME NEW o \in Objects, NEW v \in Values, SetVariable(t, o, v) PROVE Words'
  <2>1. /\ Writes(o, IvarAt, v) /\ Born(o) /\ ivar' = [ivar EXCEPT ![o] = v]
        /\ UNCHANGED <<chain, assoc, pc, obj>>
    BY <1>9, HeldIs DEF SetVariable, Writes
  <2>2. IvarAt # 0 /\ IvarAt # AoAt(o) /\ IvarAt \in DOMAIN mem[o]
    BY <2>1, BornIs
  <2>3. \A p \in Objects : (Born(p)' <=> Born(p)) /\ (Born(p) => TableOf(p)' = TableOf(p))
    BY <2>1, <2>2, TableWritten
  <2>4. mem'[o][IvarAt] = v /\ \A p \in Objects : p # o => mem'[p] = mem[p]
    BY <2>1, <2>2, WriteWord
  <2>5. \A p \in Objects : Ending(p)' <=> Ending(p)
    BY <2>1 DEF Ending
  <2>6. ASSUME NEW q \in Objects, q # o PROVE SameWords(q)
    BY <2>1, <2>3, <2>4, <2>5, <2>6 DEF SameWords
  <2>7. WordsOf(o)'
    <3>1. ASSUME NEW k \in Keys PROVE Lookup(o, k)' = Lookup(o, k)
      <4>1. Lookup(o, k)' = IF TableOf(o)' \in Tables
                              THEN LookIn(chain'[TableOf(o)'][Bucket[k]], k) ELSE NoThing
        BY DEF Lookup, TableOf
      <4> QED BY <2>1, <2>3, <4>1, LookupIs
    <3>2. mem'[o][IvarAt] = ivar'[o] /\ Born(o)'
      BY <1>1, <2>1, <2>3, <2>4
    <3> QED BY <2>1, <2>5, <3>1, <3>2 DEF Words, WordsOf
  <2> QED BY <1>1, <1>3, <2>1, <2>6, <2>7
<1>a. CASE ~(Make(t) \/ CopyMemory(t) \/ SetTable(t) \/ FreeObject(t) \/ DestroyBucket(t)
             \/ SetFirst(t) \/ SetFound(t) \/ SetLink(t)
             \/ \E o \in Objects, v \in Values : SetVariable(t, o, v))
  <2>1. \A p \in Objects : (Born(p)' <=> Born(p)) /\ (Born(p) => TableOf(p)' = TableOf(p))
    BY <1>a, TablesSteady
  <2>2. UNCHANGED <<chain, assoc, ivar>>
    BY <1>a
       DEF Begin, Finish, Step, SizeStep, EndStep, AssocStep, BeginAlloc, BeginCopy, BeginGet,
         BeginSet, SizeTest, SizeLoad, SizeStore, SizeReturn, CountTest, DestroyTable,
         FreeTable, GetLoad, GetBucket, GetWalk, GetReturn, SetLoad, SetBucket,
         SetNext, Faulted, Retain, Release, SetClass
  <2> DEFINE Stays(p) == Born(p) => mem'[p][IvarAt] = mem[p][IvarAt]
  <2>3. mem' = mem => \A p \in Objects : Stays(p)
    OBVIOUS
  <2>4. ASSUME NEW o \in Objects, NEW c \in Classes, SetClass(t, o, c)
        PROVE  \A p \in Objects : Stays(p)
    <3>1. Writes(o, 0, c) /\ Born(o)
      BY <2>4, HeldIs DEF SetClass, Writes
    <3>2. 0 # IvarAt
      BY <3>1, BornIs
    <3> QED BY <3>1, <3>2, IvarWritten
  <2>5. ASSUME NEW o \in Objects, Release(t, o) \/ \E u \in Threads : Retain(t, u, o)
        PROVE  \A p \in Objects : Stays(p)
    <3>1. PICK v : Writes(o, 1, v) /\ Born(o)
      BY <2>5, HeldIs DEF Retain, Release, Writes
    <3>2. 1 # IvarAt
      BY <3>1, BornIs
    <3> QED BY <3>1, <3>2, IvarWritten
  <2> HIDE DEF Stays
  <2>6. \A p \in Objects : Stays(p)
    BY <1>a, <2>3, <2>4, <2>5
       DEF Begin, Finish, Step, SizeStep, EndStep, AssocStep, BeginAlloc, BeginCopy, BeginGet,
         BeginSet, SizeTest, SizeLoad, SizeStore, SizeReturn, CountTest, DestroyTable,
         FreeTable, GetLoad, GetBucket, GetWalk, GetReturn, SetLoad, SetBucket,
         SetNext, Faulted
  <2>7. \A p \in Objects : SameWords(p)
    BY <1>2, <1>a, <2>1, <2>2, <2>6 DEF SameWords, Stays
  <2> QED BY <1>1, <1>3, <2>2, <2>7
<1> QED BY <1>4, <1>5, <1>6, <1>7, <1>8, <1>9, <1>a

-----------------------------------------------------------------------------
LEMMA KeptInit == Init => Kept
<1> SUFFICES ASSUME Init PROVE Kept
  OBVIOUS
<1>1. /\ \A o \in Objects : ~Born(o)
      /\ \A x \in Objects \cup Tables : freed[x] = 0
      /\ \A t \in Threads : pc[t] = "idle" /\ obj[t] = Null
  BY DEF Init, Born
<1>2. Apart /\ FreedTables
  BY <1>1 DEF Apart, FreedTables
<1>3. Places
  BY <1>1 DEF Places, Place, SetPCs, SizePCs, TablePCs
<1>4. Chains
  <2>1. \A tb \in Tables, b \in 1..Buckets : chain[tb][b] = <<>>
    BY DEF Init
  <2>2. \A b : KeyedNodes(<<>>, b)
    BY DEF KeyedNodes
  <2>3. DOMAIN chain = Tables /\ \A tb \in Tables : DOMAIN chain[tb] = 1..Buckets
    BY DEF Init
  <2> QED BY <2>1, <2>2, <2>3 DEF Chains
<1>5. Walks
  <2>1. \A t \in Threads : Walk(t)
    BY <1>1 DEF Walk, SetPCs, GetPCs
  <2> QED BY <2>1 DEF Walks, Init
<1>6. Words
  BY <1>1 DEF Words, WordsOf, Init
<1> QED BY CountedInit, <1>2, <1>3, <1>4, <1>5, <1>6 DEF Kept

LEMMA KeptUnchanged == Kept /\ UNCHANGED vars => Kept'
<1> SUFFICES ASSUME Kept, UNCHANGED vars PROVE Kept'
  OBVIOUS
<1> USE DEF vars, memory, args, temps, history
<1>1. Counted'
  BY CountedUnchanged DEF Kept
<1>2. Apart' /\ FreedTables'
  BY DEF Kept, Apart, FreedTables, Born, TableOf, AoAt, IsaOf
<1>3. Places'
  BY DEF Kept, Places, Place, TableOf, AoAt, IsaOf
<1>4. Chains'
  BY DEF Kept, Chains
<1>5. Walks'
  BY DEF Kept, Walks, Walk, Nodes
<1>6. Words'
  <2>1. \A o \in Objects : SameWords(o)
    BY DEF SameWords, Born, TableOf, AoAt, IsaOf, Ending
  <2> QED BY <2>1, WordsSame DEF Kept, Words
<1> QED BY <1>1, <1>2, <1>3, <1>4, <1>5, <1>6 DEF Kept

LEMMA KeptHolds ==
  ASSUME OneFirstSizer, SwapsKeepSize, OneSetter, ~CopyAssociated
  PROVE  Spec => []Kept
<1>1. ASSUME Kept, Next PROVE Kept'
  <2>1. PICK t \in Threads : Begin(t) \/ Finish(t) \/ Step(t)
    BY <1>1 DEF Next
  <2>2. Counted'
    BY <1>1, ShapesStep, CallsStep, SizesStep, RefsStep DEF Kept, Counted
  <2>3. Apart' /\ FreedTables'
    BY <1>1, <2>1, ApartStep DEF Kept, Counted
  <2>4. Places'
    BY <1>1, <2>1, PlacesStep DEF Kept, Counted
  <2>5. Chains'
    BY <1>1, <2>1, ChainsStep DEF Kept, Counted
  <2>6. Walks'
    BY <1>1, <2>1, WalksStep DEF Kept, Counted
  <2>7. Words'
    BY <1>1, <2>1, WordsStep DEF Kept, Counted
  <2> QED BY <2>2, <2>3, <2>4, <2>5, <2>6, <2>7 DEF Kept
<1>2. Kept /\ [Next]_vars => Kept'
  BY <1>1, KeptUnchanged
<1> QED BY <1>2, KeptInit, PTL DEF Spec

(* The types of all the program keeps and each call works on: in           *)
(* particular what a walk reads is a node of its bucket.                   *)
THEOREM ObjectTypesHold ==
  ASSUME OneFirstSizer, SwapsKeepSize, OneSetter, ~CopyAssociated
  PROVE  Spec => []TypeOK
<1>1. Kept => TypeOK
  <2> SUFFICES ASSUME Kept PROVE TypeOK
    OBVIOUS
  <2>1. ASSUME NEW tb \in Tables, NEW b \in 1..Buckets, NEW i \in DOMAIN chain[tb][b]
        PROVE  /\ chain[tb][b][i].key \in Keys /\ Bucket[chain[tb][b][i].key] = b
               /\ chain[tb][b][i].object \in Values
    <3>1. KeyedNodes(chain[tb][b], b)
      BY DEF Kept, Chains
    <3>2. chain[tb][b][i] \in NodeSet /\ Bucket[chain[tb][b][i].key] = b
      BY <3>1 DEF KeyedNodes
    <3> QED BY <3>2 DEF NodeSet
  <2>2. \A o \in Objects : mem[o] # <<>> => IsaOf(o) \in Classes /\ RetainCount(o) \in Nat
    BY DEF Kept, Counted, Shapes, Born
  <2> QED BY <2>1, <2>2 DEF TypeOK, Kept, Counted, Shapes, Walks
<1> QED BY <1>1, KeptHolds, PTL

(* An object and its table are freed at most once, and while a thread      *)
(* frees an object nobody has a reference to it or a call on it: the       *)
(* threads whose decrement did not lead to 0 do not touch it any more      *)
(* (MRObjectMethods.c:50, class.c:1231).                                   *)
THEOREM FreedAtMostOnce ==
  ASSUME OneFirstSizer, SwapsKeepSize, OneSetter, ~CopyAssociated
  PROVE  Spec => []FreedOnce
<1>1. Kept => FreedOnce
  <2> SUFFICES ASSUME Kept PROVE FreedOnce
    OBVIOUS
  <2>1. \A x \in Objects \cup Tables : freed[x] <= 1
    BY DEF Kept, Counted, Refs, RefsOf, FreedTables
  <2>2. ASSUME NEW o \in Objects, NEW t \in Threads,
               (obj[t] = o /\ pc[t] \in DeallocPCs) \/ freed[o] = 1, NEW u \in Threads
        PROVE  /\ holds[u][o] = 0
               /\ (u # t /\ obj[u] = o) => pc[u] = "k_test" /\ count[u] > 0
    <3>1. Ends(t, o) \/ ~Born(o)
      BY <2>2 DEF Ends, Kept, Counted, Refs, RefsOf
    <3>2. holds[u][o] = 0
      <4>1. CASE Ends(t, o)
        BY <4>1, EndedIs DEF Kept, Counted
      <4>2. CASE ~Born(o)
        <5>1. ~(holds[u][o] > 0) /\ holds[u][o] \in 0..MaxHeld
          BY <4>2 DEF Kept, Counted, Refs, RefsOf, Shapes
        <5> QED BY <5>1, Constants
      <4> QED BY <3>1, <4>1, <4>2
    <3>3. ASSUME u # t, obj[u] = o PROVE pc[u] = "k_test" /\ count[u] > 0
      <4>1. ~Ends(u, o)
        BY <3>1, <3>3 DEF Kept, Counted, Refs, RefsOf
      <4>2. /\ pc[u] \notin {"idle", "make"} /\ pc[u] \notin SizePCs \cup UsePCs
            /\ pc[u] = "k_test" => count[u] \in Nat
        BY <3>2, <3>3, Constants DEF Kept, Counted, Calls
      <4>3. pc[u] \in {"idle"} \cup SizePCs \cup SetPCs \cup GetPCs \cup DeallocPCs \cup OtherPCs
        BY DEF Kept, Counted, Shapes
      <4>4. pc[u] = "k_test"
        BY <3>3, <4>1, <4>2, <4>3 DEF UsePCs, OtherPCs, Ends
      <4>5. count[u] # 0
        BY <3>3, <4>1, <4>4 DEF Ends
      <4> QED BY <4>2, <4>4, <4>5
    <3> QED BY <3>2, <3>3
  <2> QED BY <2>1, <2>2 DEF FreedOnce
<1> QED BY <1>1, KeptHolds, PTL

(* The ivar of an object is what was written last, and its associations    *)
(* are what its table leads to, though the space of the extensions lies    *)
(* behind the ivars and the class of the object changes (ao-ext.c:118,     *)
(* class.c:1185).                                                          *)
THEOREM WordsStay ==
  ASSUME OneFirstSizer, SwapsKeepSize, OneSetter, ~CopyAssociated
  PROVE  Spec => []WordsKept
<1>1. Kept => WordsKept
  BY DEF Kept, Words, WordsOf, WordsKept, Live, Born, Ending
<1> QED BY <1>1, KeptHolds, PTL

(* A thread that gets an association while another makes some answers with *)
(* what the object has at that instant (ao-ext.c:75, 84).                  *)
THEOREM GetsStayCurrent ==
  ASSUME OneFirstSizer, SwapsKeepSize, OneSetter, ~CopyAssociated
  PROVE  Spec => GetsAreCurrent
<1> DEFINE Current == \A t \in Threads : pc[t] \in GetPCs \ {"g_ret"} /\ pc'[t] = "g_ret"
                        => val'[t] = assoc[obj[t]][key[t]]
<1>1. ASSUME Kept, Next PROVE Current
  <2> SUFFICES ASSUME NEW u \in Threads, pc[u] \in GetPCs \ {"g_ret"}, pc'[u] = "g_ret"
               PROVE  val'[u] = assoc[obj[u]][key[u]]
    OBVIOUS
  <2>1. PICK t \in Threads : Begin(t) \/ Finish(t) \/ Step(t)
    BY <1>1 DEF Next
  <2>2. u = t
    <3>1. u # t => pc'[u] = pc[u]
      BY <1>1, <2>1, OthersWait DEF Kept, Counted
    <3> QED BY <3>1
  <2>3. GetLoad(t) \/ GetBucket(t) \/ GetWalk(t)
    BY <2>1, <2>2
       DEF Begin, Finish, Step, SizeStep, EndStep, AssocStep, BeginAlloc, BeginCopy, BeginGet,
         BeginSet, SizeTest, SizeLoad, SizeStore, SizeReturn, CountTest, DestroyTable,
         DestroyBucket, FreeTable, GetReturn, SetLoad, SetBucket, SetFirst, GetPCs,
         SetFound, SetLink, SetNext, Retain, Release, SetClass,
         SetVariable, Make, CopyMemory, FreeObject, SetTable
  <2>4. PICK o \in Objects : o = obj[t] /\ Born(o) /\ holds[t][o] > 0
    BY <1>1, <2>2, UsedIs DEF Kept, Counted, Calls, UsePCs
  <2>5. key[t] \in Keys /\ val \in [Threads -> Values \cup {Null, NoThing}]
        /\ pc \in [Threads -> {"idle"} \cup SizePCs \cup SetPCs \cup GetPCs
                              \cup DeallocPCs \cup OtherPCs]
    BY <1>1, <2>2 DEF Kept, Walks, Walk, Counted, Shapes
  <2>6. Lookup(o, key[t]) = assoc[o][key[t]]
    <3>1. ~Ending(o)
      <4>1. \A w \in Threads : ~Ends(w, o)
        <5>1. RetainCount(o) # 0
          BY <1>1, <2>4, HeldIs DEF Kept, Counted
        <5> QED BY <1>1, <5>1 DEF Kept, Counted, Refs, RefsOf
      <4> QED BY <4>1 DEF Ending, Ends
    <3> QED BY <1>1, <2>4, <2>5, <3>1 DEF Kept, Words, WordsOf
  <2>7. CASE GetLoad(t)
    <3>1. val' = [val EXCEPT ![t] = NoThing] /\ TableOf(o) = Null
      BY <2>2, <2>4, <2>5, <2>7 DEF GetLoad, TableOf, Goto, Set
    <3>2. Lookup(o, key[t]) = NoThing
      <4>1. LookIn(<<>>, key[t]) = NoThing
        BY LookNone
      <4> QED BY <3>1, <4>1, LookupIs, Constants
    <3> QED BY <2>2, <2>4, <2>5, <2>6, <3>1, <3>2
  <2>7a. CASE GetBucket(t)
    <3>1. pc[t] = "g_bucket"
      BY <2>7a DEF GetBucket
    <3>2. tbl[t] \in Tables /\ tbl[t] = TableOf(o)
      BY <1>1, <2>4, <3>1, BucketIs DEF Kept, Counted, TablePCs
    <3>3. val' = [val EXCEPT ![t] = NoThing] /\ chain[TableOf(o)][Bucket[key[t]]] = <<>>
      BY <2>2, <2>4, <2>5, <2>7a, <3>2 DEF GetBucket, Nodes, Goto, Set
    <3>4. Lookup(o, key[t]) = NoThing
      <4>1. LookIn(<<>>, key[t]) = NoThing
        BY LookNone
      <4> QED BY <3>2, <3>3, <4>1, LookupIs, Constants
    <3> QED BY <2>2, <2>4, <2>5, <2>6, <3>3, <3>4
  <2>8. CASE GetWalk(t)
    <3>1. pc[t] = "g_walk"
      BY <2>8 DEF GetWalk
    <3>2. /\ tbl[t] \in Tables /\ tbl[t] = TableOf(o) /\ KeyedNodes(Nodes(t), Bucket[key[t]])
      BY <1>1, <2>4, <3>1, BucketIs DEF Kept, Counted, TablePCs
    <3>3. /\ pos[t] \in DOMAIN Nodes(t)
          /\ \A i \in 1..(pos[t] - 1) : Nodes(t)[i].key # key[t]
      BY <1>1, <3>1 DEF Kept, Walks, Walk
    <3>4. Lookup(o, key[t]) = LookIn(Nodes(t), key[t])
      BY <3>2, LookupIs DEF Nodes
    <3>5. CASE SameKey(Nodes(t)[pos[t]], key[t])
      <4>1. val'[t] = Nodes(t)[pos[t]].object /\ Nodes(t)[pos[t]].key = key[t]
        BY <2>5, <2>8, <3>5 DEF GetWalk, SameKey, Set
      <4>2. LookIn(Nodes(t), Nodes(t)[pos[t]].key) = Nodes(t)[pos[t]].object
        BY <3>2, <3>3, LookFound
      <4> QED BY <2>2, <2>4, <2>6, <3>4, <4>1, <4>2
    <3>6. CASE ~SameKey(Nodes(t)[pos[t]], key[t])
      <4>1. /\ val' = [val EXCEPT ![t] = NoThing] /\ pos[t] = Len(Nodes(t))
            /\ Nodes(t)[pos[t]].key # key[t]
        BY <2>2, <2>5, <2>8, <3>1, <3>6 DEF GetWalk, SameKey, Set
      <4>2. \A i \in DOMAIN Nodes(t) : Nodes(t)[i].key # key[t]
        <5>1. DOMAIN Nodes(t) = 1..Len(Nodes(t)) /\ Len(Nodes(t)) \in Nat
          BY <3>2 DEF KeyedNodes
        <5>2. \A n \in Nat : \A i \in 1..n : i = n \/ i \in 1..(n - 1)
          OBVIOUS
        <5> QED BY <3>3, <4>1, <5>1, <5>2
      <4>3. LookIn(Nodes(t), key[t]) = NoThing
        BY <4>2, LookNone
      <4> QED BY <2>2, <2>4, <2>5, <2>6, <3>4, <4>1, <4>3
    <3> QED BY <3>5, <3>6
  <2> QED BY <2>3, <2>7, <2>7a, <2>8
<1>2. Kept /\ [Next]_vars => [Current]_vars
  BY <1>1
<1> QED BY <1>2, KeptHolds, PTL DEF Spec, GetsAreCurrent
=============================================================================
