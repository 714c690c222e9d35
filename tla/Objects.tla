------------------------------ MODULE Objects ------------------------------
(***************************************************************************)
(* Objects: how class.c allocates, copies, re-classes and destroys them,   *)
(* the retain count of classes/MRObjectMethods.c, and the associated       *)
(* objects of extras/ao-ext.c, which keep a pointer to a hash table in the *)
(* words an extension gets behind the instance variables of an object.     *)
(*                                                                         *)
(* The memory of an object is a function from offsets, in words, to words: *)
(* isa, the retain count, the ivars, and from instance_size[isa] on the    *)
(* space of the extensions.  One action per access another thread can      *)
(* observe; memory is sequentially consistent.  A call that leaves its     *)
(* memory or follows a NULL is recorded in "fault" and all stops.          *)
(***************************************************************************)
EXTENDS Integers, Sequences, FiniteSets, SequencesExt, Sums

CONSTANTS Threads, Objects, Tables,
          Classes,      \* the classes of which there are instances
          Made,         \* those +alloc is sent to
          Unfinished,   \* those that are in construction
          InstanceSize, \* instance_size: without the space of extensions
          IvarAt,       \* offset of an ivar every class has
          Spaces,       \* extra_object_space of the extensions, in order
          AoIndex,      \* which of them is ao_extension
          Keys, Values,
          Bucket,       \* Bucket[k]: the low bits of a key
          Buckets,      \* AO_HASH_MAP_BUCKET_COUNT
          FirstSizers,  \* threads that may ask for a size before it is cached
          Getters,      \* threads that ask for associated objects
          Setters,      \* threads that associate objects
          Swaps,        \* pairs of classes for objc_object_set_class
          CopyAssociated,  \* objects that have associations may be copied
          MaxHeld,      \* bound on the references a thread has to an object
          Null, NoThing

ASSUME ObjectsAssumption ==
  /\ IsFiniteSet(Threads)
  /\ Null \notin Objects \cup Tables /\ Objects \cap Tables = {}
  /\ InstanceSize \in [Classes -> Nat \ {0, 1}]
  /\ IvarAt \in Nat /\ \A c \in Classes : IvarAt \in 2..(InstanceSize[c] - 1)
  /\ Spaces \in Seq(Nat) /\ AoIndex \in DOMAIN Spaces /\ Spaces[AoIndex] > 0
  /\ Buckets \in Nat \ {0} /\ Bucket \in [Keys -> 1..Buckets]
  /\ FirstSizers \cup Getters \cup Setters \subseteq Threads
  /\ Unfinished \cup Made \subseteq Classes /\ Swaps \subseteq Classes \X Classes
  /\ CopyAssociated \in BOOLEAN /\ MaxHeld \in Nat \ {0}

VARIABLES
  cached,      \* cached_object_result
  mem,         \* mem[o]: the words of the object, <<>> if not allocated
  freed,       \* freed[x]: how often the object or the table was deallocated
  chain,       \* chain[tb][b]: the nodes of a bucket, <<>> for NULL
  used,        \* the tables that have been allocated
  holds,       \* holds[t][o]: references the thread owns
  pc,
  obj, cls,    \* the object and the class of a call
  key, val,    \* arguments about an association, and its result
  ext, sum, size,  \* locals of _instance_size
  tbl, pos,    \* hash table; node of a bucket, or bucket of a table
  count,       \* what __sync_sub_and_fetch has returned
  assoc,       \* history: the association each object should have
  ivar,        \* history: the value the ivar of each object should have
  copied,      \* history: objects that were made by objc_object_copy
  fault

memory == <<cached, mem, freed, chain, used>>
args == <<obj, cls, key, val>>
temps == <<ext, sum, size, tbl, pos, count>>
history == <<assoc, ivar, copied>>
vars == <<memory, holds, pc, args, temps, history, fault>>

SizePCs == {"z_test", "z_load", "z_store", "z_ret"}
SetPCs == {"s_load", "s_table", "s_bucket", "s_first", "s_walk"}
GetPCs == {"g_load", "g_bucket", "g_walk", "g_ret"}
DeallocPCs == {"d_table", "d_bucket", "d_free"}
OtherPCs == {"make", "copy", "k_test"}

Goto(t, l) == pc' = [pc EXCEPT ![t] = l]
Set(f, t, v) == [f EXCEPT ![t] = v]

(* The call is over: its locals die. *)
Leave(t) == /\ Goto(t, "idle")
            /\ obj' = Set(obj, t, Null) /\ cls' = Set(cls, t, Null)
            /\ key' = Set(key, t, Null) /\ val' = Set(val, t, Null)
            /\ ext' = Set(ext, t, 0) /\ sum' = Set(sum, t, 0)
            /\ size' = Set(size, t, 0) /\ tbl' = Set(tbl, t, Null)
            /\ pos' = Set(pos, t, 0) /\ count' = Set(count, t, 0)

Faulted(what) == /\ fault' = what
                 /\ UNCHANGED <<memory, holds, pc, args, temps, history>>

Init ==
  /\ cached = 0
  /\ mem = [o \in Objects |-> <<>>]
  /\ freed = [x \in Objects \cup Tables |-> 0]
  /\ chain = [tb \in Tables |-> [b \in 1..Buckets |-> <<>>]]
  /\ used = {}
  /\ holds = [t \in Threads |-> [o \in Objects |-> 0]]
  /\ pc = [t \in Threads |-> "idle"]
  /\ obj = [t \in Threads |-> Null] /\ cls = [t \in Threads |-> Null]
  /\ key = [t \in Threads |-> Null] /\ val = [t \in Threads |-> Null]
  /\ ext = [t \in Threads |-> 0] /\ sum = [t \in Threads |-> 0]
  /\ size = [t \in Threads |-> 0] /\ tbl = [t \in Threads |-> Null]
  /\ pos = [t \in Threads |-> 0] /\ count = [t \in Threads |-> 0]
  /\ assoc = [o \in Objects |-> [k \in Keys |-> NoThing]]
  /\ ivar = [o \in Objects |-> Null]
  /\ copied = {}
  /\ fault = "none"

(* Words 0 and 1 of an object. *)
IsaOf(o) == mem[o][0]
RetainCount(o) == mem[o][1]
Live(o) == mem[o] # <<>> /\ freed[o] = 0
Unborn(o) == mem[o] = <<>> /\ freed[o] = 0
Allocated(o) == Cardinality(DOMAIN mem[o])

(* objc_object_extensions_beginning_for_extension *)
SpaceUpTo == Sums(Spaces)
ObjectSpace == SpaceUpTo[Len(Spaces)]
AoAt(o) == InstanceSize[IsaOf(o)] + SpaceUpTo[AoIndex - 1]

-----------------------------------------------------------------------------
(* _instance_size: the sum of the space of the extensions is made in the   *)
(* variable that caches it, one extension after the other.                 *)

(* The pool of objects is a bound: a call reserves the one it will make.   *)
MemoryLeft == Cardinality({t \in Threads : pc[t] \in SizePCs \cup {"make", "copy"}})
                < Cardinality({o \in Objects : Unborn(o)})

SizeIsCached == cached = ObjectSpace
MayAsk(t) == SizeIsCached \/ t \in FirstSizers

AfterSize(t) == IF obj[t] = Null THEN "make" ELSE "copy"

SizeTest(t) ==
  /\ pc[t] = "z_test"
  /\ ext' = Set(ext, t, 1)
  /\ Goto(t, IF cached # 0 \/ Spaces = <<>> THEN "z_ret" ELSE "z_load")
  /\ UNCHANGED <<memory, holds, args, sum, size, tbl, pos, count, history, fault>>

SizeLoad(t) ==
  /\ pc[t] = "z_load"
  /\ sum' = Set(sum, t, cached + Spaces[ext[t]])
  /\ Goto(t, "z_store")
  /\ UNCHANGED <<memory, holds, args, ext, size, tbl, pos, count, history, fault>>

SizeStore(t) ==
  /\ pc[t] = "z_store"
  /\ cached' = sum[t]
  /\ ext' = [ext EXCEPT ![t] = @ + 1]
  /\ Goto(t, IF ext[t] < Len(Spaces) THEN "z_load" ELSE "z_ret")
  /\ UNCHANGED <<mem, freed, chain, used, holds, args, sum, size, tbl, pos,
                 count, history, fault>>

WithoutSpace(c) == InstanceSize[c]
WithSpace(c) == InstanceSize[c] + cached

SizeReturn(t) ==
  /\ pc[t] = "z_ret"
  /\ size' = Set(size, t, WithSpace(cls[t]))
  /\ Goto(t, AfterSize(t))
  /\ UNCHANGED <<memory, holds, args, ext, sum, tbl, pos, count, history, fault>>

-----------------------------------------------------------------------------
(* +alloc of MRObject, with objc_class_create_instance.  No extension of   *)
(* the repository has an allocator or an initializer of objects.           *)

BeginAlloc(t, c) ==
  /\ pc[t] = "idle" /\ MayAsk(t)
  /\ MemoryLeft
  /\ IF c \in Unfinished THEN Faulted("nil_instance")
     ELSE /\ cls' = Set(cls, t, c)
          /\ Goto(t, "z_test")
          /\ UNCHANGED <<memory, holds, obj, key, val, temps, history, fault>>

Fresh(o) == Unborn(o) /\ o = CHOOSE x \in Objects : Unborn(x)

(* objc_zero_alloc, isa and the retain count: nobody else has the object.  *)
Make(t) ==
  /\ pc[t] = "make"
  /\ \E o \in Objects :
       /\ Fresh(o)
       /\ mem' = [mem EXCEPT ![o] = [i \in 0..(size[t] - 1) |->
                     CASE i = 0 -> cls[t] [] i = 1 -> 1 [] OTHER -> Null]]
       /\ holds' = [holds EXCEPT ![t][o] = 1]
  /\ Leave(t)
  /\ UNCHANGED <<cached, freed, chain, used, history, fault>>

(* objc_object_copy: the words of the object, retain count and extensions  *)
(* included.                                                               *)
BeginCopy(t, o) ==
  /\ pc[t] = "idle" /\ MayAsk(t) /\ holds[t][o] > 0
  /\ MemoryLeft
  /\ ~CopyAssociated => t \in Setters /\ mem[o][AoAt(o)] = Null
  /\ obj' = Set(obj, t, o) /\ cls' = Set(cls, t, IsaOf(o))
  /\ Goto(t, "z_test")
  /\ UNCHANGED <<memory, holds, key, val, temps, history, fault>>

CopyMemory(t) ==
  /\ pc[t] = "copy"
  /\ IF size[t] > Allocated(obj[t]) THEN Faulted("overread")
     ELSE /\ \E o \in Objects :
               /\ Fresh(o)
               /\ mem' = [mem EXCEPT ![o] = mem[obj[t]]]
               /\ holds' = [holds EXCEPT ![t][o] = 1]
               /\ assoc' = [assoc EXCEPT ![o] = assoc[obj[t]]]
               /\ ivar' = [ivar EXCEPT ![o] = ivar[obj[t]]]
               /\ copied' = copied \cup {o}
          /\ Leave(t)
          /\ UNCHANGED <<cached, freed, chain, used, fault>>

(* objc_object_set_class *)
SetClass(t, o, c) ==
  /\ pc[t] = "idle" /\ holds[t][o] > 0 /\ <<IsaOf(o), c>> \in Swaps
  /\ mem' = [mem EXCEPT ![o][0] = c]
  /\ UNCHANGED <<cached, freed, chain, used, holds, pc, args, temps, history, fault>>

(* objc_object_set_variable: the value is copied to the offset of the ivar. *)
SetVariable(t, o, v) ==
  /\ pc[t] = "idle" /\ holds[t][o] > 0
  /\ mem' = [mem EXCEPT ![o][IvarAt] = v]
  /\ ivar' = [ivar EXCEPT ![o] = v]
  /\ UNCHANGED <<cached, freed, chain, used, holds, pc, args, temps, assoc,
                 copied, fault>>

-----------------------------------------------------------------------------
(* retain and release of MRObject, both atomic, and what follows a release. *)

(* A thread retains an object it has a reference to, for itself or for u.  *)
Retain(t, u, o) ==
  /\ pc[t] = "idle" /\ holds[t][o] > 0 /\ holds[u][o] < MaxHeld
  /\ mem' = [mem EXCEPT ![o][1] = @ + 1]
  /\ holds' = [holds EXCEPT ![u][o] = @ + 1]
  /\ UNCHANGED <<cached, freed, chain, used, pc, args, temps, history, fault>>

Release(t, o) ==
  /\ pc[t] = "idle" /\ holds[t][o] > 0
  /\ mem' = [mem EXCEPT ![o][1] = @ - 1]
  /\ count' = Set(count, t, RetainCount(o) - 1)
  /\ holds' = [holds EXCEPT ![t][o] = @ - 1]
  /\ obj' = Set(obj, t, o)
  /\ Goto(t, "k_test")
  /\ UNCHANGED <<cached, freed, chain, used, cls, key, val, ext, sum, size, tbl,
                 pos, history, fault>>

FetchedBefore(t) == count[t] + 1
Reread(t) == RetainCount(obj[t])
Fetched(t) == count[t]

CountTest(t) ==
  /\ pc[t] = "k_test"
  /\ IF Fetched(t) < 0 THEN Faulted("abort")
     ELSE /\ IF Fetched(t) = 0
             THEN Goto(t, "d_table") /\ UNCHANGED <<args, temps>>
             ELSE Leave(t)
          /\ UNCHANGED <<memory, holds, history, fault>>

(* objc_object_deallocate: the destructor of ao_extension, then the memory. *)
DestroyTable(t) ==
  /\ pc[t] = "d_table"
  /\ LET tb == mem[obj[t]][AoAt(obj[t])]
     IN  /\ tbl' = Set(tbl, t, tb)
         /\ Goto(t, IF tb = Null THEN "d_free" ELSE "d_bucket")
  /\ pos' = Set(pos, t, 1)
  /\ UNCHANGED <<memory, holds, args, ext, sum, size, count, history, fault>>

(* _deallocate_ao_bucket: a NULL bucket is read, and the node at the end   *)
(* of a chain stays.                                                       *)
DestroyBucket(t) ==
  /\ pc[t] = "d_bucket" /\ pos[t] <= Buckets
  /\ IF chain[tbl[t]][pos[t]] = <<>> THEN Faulted("null_bucket")
     ELSE /\ chain' = [chain EXCEPT ![tbl[t]][pos[t]] = <<Last(@)>>]
          /\ pos' = [pos EXCEPT ![t] = @ + 1]
          /\ UNCHANGED <<cached, mem, freed, used, holds, pc, args, ext, sum, size,
                         tbl, count, history, fault>>

FreeTable(t) ==
  /\ pc[t] = "d_bucket" /\ pos[t] > Buckets
  /\ freed' = [freed EXCEPT ![tbl[t]] = @ + 1]
  /\ Goto(t, "d_free")
  /\ UNCHANGED <<cached, mem, chain, used, holds, args, temps, history, fault>>

FreeObject(t) ==
  /\ pc[t] = "d_free"
  /\ freed' = [freed EXCEPT ![obj[t]] = @ + 1]
  /\ mem' = [mem EXCEPT ![obj[t]] = <<>>]
  /\ assoc' = [assoc EXCEPT ![obj[t]] = [k \in Keys |-> NoThing]]
  /\ ivar' = [ivar EXCEPT ![obj[t]] = Null]
  /\ Leave(t)
  /\ UNCHANGED <<cached, chain, used, holds, copied, fault>>

-----------------------------------------------------------------------------
(* objc_object_get_associated_object and objc_object_set_associated_object *)

AnyKey(node, k) == TRUE
SameKey(node, k) == node.key = k

BeginGet(t, o, k) ==
  /\ pc[t] = "idle" /\ t \in Getters /\ holds[t][o] > 0
  /\ obj' = Set(obj, t, o) /\ key' = Set(key, t, k)
  /\ Goto(t, "g_load")
  /\ UNCHANGED <<memory, holds, cls, val, temps, history, fault>>

(* A load of the table pointer, and one of the bucket it leads to. *)
GetLoad(t) ==
  /\ pc[t] = "g_load"
  /\ LET tb == mem[obj[t]][AoAt(obj[t])]
     IN  IF tb = Null
         THEN val' = Set(val, t, NoThing) /\ Goto(t, "g_ret") /\ UNCHANGED tbl
         ELSE tbl' = Set(tbl, t, tb) /\ Goto(t, "g_bucket") /\ UNCHANGED val
  /\ UNCHANGED <<memory, holds, obj, cls, key, ext, sum, size, pos, count, history, fault>>

Nodes(t) == chain[tbl[t]][Bucket[key[t]]]

GetBucket(t) ==
  /\ pc[t] = "g_bucket"
  /\ IF Nodes(t) = <<>>
     THEN val' = Set(val, t, NoThing) /\ Goto(t, "g_ret") /\ UNCHANGED pos
     ELSE pos' = Set(pos, t, 1) /\ Goto(t, "g_walk") /\ UNCHANGED val
  /\ UNCHANGED <<memory, holds, obj, cls, key, ext, sum, size, tbl, count, history, fault>>

GetWalk(t) ==
  /\ pc[t] = "g_walk"
  /\ \/ /\ SameKey(Nodes(t)[pos[t]], key[t])
        /\ val' = Set(val, t, Nodes(t)[pos[t]].object)
        /\ Goto(t, "g_ret") /\ UNCHANGED pos
     \/ /\ ~SameKey(Nodes(t)[pos[t]], key[t]) /\ pos[t] < Len(Nodes(t))
        /\ pos' = [pos EXCEPT ![t] = @ + 1]
        /\ UNCHANGED <<val, pc>>
     \/ /\ ~SameKey(Nodes(t)[pos[t]], key[t]) /\ pos[t] = Len(Nodes(t))
        /\ val' = Set(val, t, NoThing)
        /\ Goto(t, "g_ret") /\ UNCHANGED pos
  /\ UNCHANGED <<memory, holds, obj, cls, key, ext, sum, size, tbl, count,
                 history, fault>>

GetReturn(t) ==
  /\ pc[t] = "g_ret"
  /\ Leave(t)
  /\ UNCHANGED <<memory, holds, history, fault>>

(* The pool of tables is a bound too. *)
TableLeft(o) ==
  mem[o][AoAt(o)] # Null \/ Cardinality({t \in Threads : pc[t] \in SetPCs})
                              < Cardinality(Tables \ used)

BeginSet(t, o, k, v) ==
  /\ pc[t] = "idle" /\ t \in Setters /\ holds[t][o] > 0 /\ TableLeft(o)
  /\ obj' = Set(obj, t, o) /\ key' = Set(key, t, k) /\ val' = Set(val, t, v)
  /\ Goto(t, "s_load")
  /\ UNCHANGED <<memory, holds, cls, temps, history, fault>>

SetLoad(t) ==
  /\ pc[t] = "s_load"
  /\ tbl' = Set(tbl, t, mem[obj[t]][AoAt(obj[t])])
  /\ Goto(t, IF tbl'[t] = Null THEN "s_table" ELSE "s_bucket")
  /\ UNCHANGED <<memory, holds, args, ext, sum, size, pos, count, history, fault>>

SetTable(t) ==
  /\ pc[t] = "s_table"
  /\ \E tb \in Tables \ used :
       /\ tb = CHOOSE x \in Tables \ used : TRUE
       /\ used' = used \cup {tb}
       /\ mem' = [mem EXCEPT ![obj[t]][AoAt(obj[t])] = tb]
       /\ tbl' = Set(tbl, t, tb)
  /\ Goto(t, "s_bucket")
  /\ UNCHANGED <<cached, freed, chain, holds, args, ext, sum, size, pos, count,
                 history, fault>>

SetBucket(t) ==
  /\ pc[t] = "s_bucket"
  /\ pos' = Set(pos, t, 1)
  /\ Goto(t, IF Nodes(t) = <<>> THEN "s_first" ELSE "s_walk")
  /\ UNCHANGED <<memory, holds, args, ext, sum, size, tbl, count, history, fault>>

NodeSwapped(t) == [key |-> val[t], object |-> key[t]]
Node(t) == [key |-> key[t], object |-> val[t]]

(* The nodes of the bucket are replaced and the call returns. *)
Store(t, nodes) ==
  /\ chain' = [chain EXCEPT ![tbl[t]][Bucket[key[t]]] = nodes]
  /\ assoc' = [assoc EXCEPT ![obj[t]][key[t]] = val[t]]
  /\ Leave(t)
  /\ UNCHANGED <<cached, mem, freed, used, holds, ivar, copied, fault>>

SetFirst(t) == pc[t] = "s_first" /\ Store(t, <<Node(t)>>)

SetFound(t) == /\ pc[t] = "s_walk" /\ SameKey(Nodes(t)[pos[t]], key[t])
               /\ Store(t, [Nodes(t) EXCEPT ![pos[t]].object = val[t]])

SetLink(t) == /\ pc[t] = "s_walk" /\ ~SameKey(Nodes(t)[pos[t]], key[t])
              /\ pos[t] = Len(Nodes(t))
              /\ Store(t, Append(Nodes(t), Node(t)))

SetNext(t) ==
  /\ pc[t] = "s_walk" /\ ~SameKey(Nodes(t)[pos[t]], key[t])
  /\ pos[t] < Len(Nodes(t))
  /\ pos' = [pos EXCEPT ![t] = @ + 1]
  /\ UNCHANGED <<memory, holds, pc, args, ext, sum, size, tbl, count, history, fault>>

-----------------------------------------------------------------------------
SizeStep(t) == SizeTest(t) \/ SizeLoad(t) \/ SizeStore(t) \/ SizeReturn(t)
EndStep(t) == CountTest(t) \/ DestroyTable(t) \/ DestroyBucket(t)
              \/ FreeTable(t) \/ FreeObject(t)
AssocStep(t) == \/ GetLoad(t) \/ GetBucket(t) \/ GetWalk(t) \/ GetReturn(t)
                \/ SetLoad(t) \/ SetTable(t) \/ SetBucket(t) \/ SetFirst(t)
                \/ SetFound(t) \/ SetLink(t) \/ SetNext(t)

Step(t) == fault = "none" /\ (SizeStep(t) \/ Make(t) \/ CopyMemory(t)
                              \/ EndStep(t) \/ AssocStep(t))

(* What the program does with the objects it has references to. *)
Begin(t) ==
  /\ fault = "none"
  /\ \/ \E c \in Made : BeginAlloc(t, c)
     \/ \E o \in Objects :
          \/ BeginCopy(t, o)
          \/ \E c \in Classes : SetClass(t, o, c)
          \/ \E v \in Values : SetVariable(t, o, v)
          \/ \E u \in Threads : Retain(t, u, o)
          \/ \E k \in Keys : BeginGet(t, o, k)
          \/ \E k \in Keys, v \in Values : BeginSet(t, o, k, v)

Finish(t) == fault = "none" /\ \E o \in Objects : Release(t, o)

Next == \E t \in Threads : Begin(t) \/ Finish(t) \/ Step(t)

Spec == Init /\ [][Next]_vars /\ \A t \in Threads : WF_vars(Step(t))

-----------------------------------------------------------------------------
(* Types; only an object in use is named by a call or a reference.         *)
TypeOK ==
  /\ cached \in Nat /\ used \subseteq Tables
  /\ \A o \in Objects : mem[o] # <<>> => IsaOf(o) \in Classes /\ RetainCount(o) \in Nat
  /\ freed \in [Objects \cup Tables -> Nat]
  /\ \A tb \in Tables, b \in 1..Buckets : \A i \in DOMAIN chain[tb][b] :
        /\ chain[tb][b][i].key \in Keys /\ Bucket[chain[tb][b][i].key] = b
        /\ chain[tb][b][i].object \in Values
  /\ holds \in [Threads -> [Objects -> 0..MaxHeld]]
  /\ pc \in [Threads -> {"idle"} \cup SizePCs \cup SetPCs \cup GetPCs
                         \cup DeallocPCs \cup OtherPCs]
  /\ obj \in [Threads -> Objects \cup {Null}] /\ cls \in [Threads -> Classes \cup {Null}]
  /\ key \in [Threads -> Keys \cup {Null}]
  /\ val \in [Threads -> Values \cup {Null, NoThing}]
  /\ tbl \in [Threads -> Tables \cup {Null}]
  /\ fault \in {"none", "nil_instance", "overread", "abort", "null_bucket"}

(* The memory of a live object holds its ivars and the space of all        *)
(* extensions, whatever class it has by now, and a copy reads no more than *)
(* there is (class.c:1208, 1256).                                          *)
AreasInside ==
  /\ \A o \in Objects : Live(o) => Allocated(o) >= InstanceSize[IsaOf(o)] + ObjectSpace
  /\ fault # "overread"

(* The words of an object are those last written through their owner: an   *)
(* ivar is not overwritten by the extensions behind it, and the table of   *)
(* the associations leads to what was associated (ao-ext.c, classext.h).   *)
Found(nodes, k) == {n \in {nodes[i] : i \in DOMAIN nodes} : n.key = k}
LookIn(nodes, k) == IF Found(nodes, k) = {} THEN NoThing
                    ELSE (CHOOSE n \in Found(nodes, k) : TRUE).object
Lookup(o, k) == LET tb == mem[o][AoAt(o)]
                IN  IF tb \in Tables THEN LookIn(chain[tb][Bucket[k]], k) ELSE NoThing
WordsKept ==
  \A o \in Objects : Live(o) /\ (\A t \in Threads : obj[t] = o => pc[t] \notin DeallocPCs) =>
    /\ mem[o][IvarAt] = ivar[o]
    /\ \A k \in Keys : Lookup(o, k) = assoc[o][k]

(* Every call that gets an association answers with what it was at one     *)
(* instant of the call, though it walks a chain that grows (ao-ext.c:69).  *)
GetsAreCurrent ==
  [][\A t \in Threads : pc[t] \in GetPCs \ {"g_ret"} /\ pc'[t] = "g_ret"
        => val'[t] = assoc[obj[t]][key[t]]]_vars

(* An object and its table are deallocated once, by one thread, and only   *)
(* when nobody has a reference to the object or a call that reads it: the  *)
(* one whose decrement has not led to 0 does not.                          *)
FreedOnce ==
  /\ \A x \in Objects \cup Tables : freed[x] <= 1
  /\ \A o \in Objects, t \in Threads :
        ((obj[t] = o /\ pc[t] \in DeallocPCs) \/ freed[o] = 1) =>
          \A u \in Threads :
            /\ holds[u][o] = 0
            /\ (u # t /\ obj[u] = o) => pc[u] = "k_test" /\ count[u] > 0

(* The retain count is the number of references, and while it is 0 there   *)
(* is a thread that deallocates the object: nothing leaks and the last     *)
(* release is never missed (MRObjectMethods.c:48).  A copy starts with the *)
(* count of its original and is left out.                                  *)
References(o) ==  \* the n-th reference of a thread
  Cardinality({r \in Threads \X (1..MaxHeld) : r[2] <= holds[r[1]][o]})
Ends(t, o) ==
  obj[t] = o /\ (pc[t] \in DeallocPCs \/ (pc[t] = "k_test" /\ count[t] = 0))
RefsCounted ==
  \A o \in Objects : (Live(o) /\ o \notin copied) =>
    /\ RetainCount(o) = References(o)
    /\ RetainCount(o) = 0 => \E t \in Threads : Ends(t, o)

(* The destructor gives all the memory of the table back (classext.h:65):  *)
(* it reads no bucket that does not exist and leaves no node behind.       *)
TableIsFreed ==
  /\ fault # "null_bucket"
  /\ \A tb \in Tables : freed[tb] > 0 => \A b \in 1..Buckets : chain[tb][b] = <<>>
=============================================================================
