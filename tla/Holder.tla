------------------------------- MODULE Holder -------------------------------
(***************************************************************************)
(* structs/holder.c: the hash table behind the class holder, the selector  *)
(* holder and the method cache, one action per memory access that another  *)
(* thread can observe.  Inserts take the write lock; look-ups take none.   *)
(* Buckets are singly linked lists that grow at the head only, so a bucket *)
(* is a sequence and the pointer a look-up loads is a snapshot of it.      *)
(* extras/holder-inline.h is this as inline code, without the versions.    *)
(*                                                                         *)
(* Memory accesses are sequentially consistent.  ++readers and --readers   *)
(* are a load followed by a store: the field is a plain unsigned int.      *)
(* A touch of freed memory, of a destroyed lock or of a NULL bucket array  *)
(* has no defined successor: it is recorded in "fault" and all stops.      *)
(***************************************************************************)
EXTENDS Naturals, Sequences

CONSTANTS Threads, Objs, Keys, Buckets,
          KeyOf,        \* key field of an object (key_offset_in_object)
          BucketOf,     \* hash of a key, masked to the number of buckets
          First,        \* object inserted before the threads start, or NullObj
          Inserters, Fetchers, Destroyers,  \* threads by what they may call
          IsCache,      \* holder->type == holder_type_cache
          ReaderMod,    \* stands for 2^32, the range of holder->readers
          NullObj, NoThread, Destroyed

ASSUME HolderAssumption ==
  /\ KeyOf \in [Objs -> Keys]
  /\ BucketOf \in [Keys -> Buckets]
  /\ NullObj \notin Objs \cup Keys
  /\ First \in Objs \cup {NullObj}
  /\ Inserters \subseteq Threads /\ Fetchers \subseteq Threads
  /\ Destroyers \subseteq Threads
  /\ IsCache \in BOOLEAN
  /\ ReaderMod \in Nat \ {0, 1}
  /\ NoThread \notin Threads /\ Destroyed \notin Threads
  /\ NoThread # Destroyed

VARIABLES
  allocated,  \* holder->buckets # NULL
  chain,      \* chain[b]: the list holder->buckets[b], head first
  freed,      \* the buckets and their array have been deallocated
  version,    \* version[o]: the version of the Method o
  lock,       \* owner of the write lock, NoThread or Destroyed
  readers,    \* holder->readers
  mark,       \* holder->dealloc_mark
  published,  \* the pointer to this holder can still be loaded by a caller
  pc, arg, snap, tmp, res,  \* control and locals of each thread
  acked,      \* history: objects whose insert has returned
  fault       \* the first access without defined behaviour, or "none"

memory == <<allocated, chain, freed, version>>
counters == <<readers, mark, published>>
locals == <<arg, snap, tmp, res>>
vars == <<memory, lock, counters, pc, locals, acked, fault>>

InsertPCs == {"i_buckets", "i_alloc", "i_head", "i_walk", "i_lock",
              "i_recheck", "i_prepare", "i_publish", "i_unlock", "i_ret"}
FetchPCs  == {"f_buckets", "f_inc", "f_incst", "f_mark", "f_head", "f_walk",
              "f_dec", "f_decst", "f_last", "f_ret"}
FreePCs   == {"d_lock", "d_sweep", "d_unlock", "d_destroy"}
MarkPCs   == {"m_mark", "m_check"}
PCs       == {"idle"} \cup InsertPCs \cup FetchPCs \cup FreePCs \cup MarkPCs
Faults    == {"none", "use_after_free", "double_free", "lock_destroyed",
              "null_buckets"}

Hash(o) == BucketOf[KeyOf[o]]
Elems(s) == {s[i] : i \in DOMAIN s}
Present == UNION {Elems(chain[b]) : b \in Buckets}

(* The first object in a list whose key is k: an index, 0 if there is none. *)
IsFirstWithKey(s, i, k) ==
  /\ i \in DOMAIN s /\ KeyOf[s[i]] = k
  /\ \A j \in DOMAIN s : KeyOf[s[j]] = k => i <= j

LookupReturningKey(s, k) ==
  IF \E i \in DOMAIN s : KeyOf[s[i]] = k THEN k ELSE NullObj

(* _holder_object_in_bucket_for_key *)
Lookup(s, k) == IF \E i \in DOMAIN s : KeyOf[s[i]] = k
                THEN s[CHOOSE i \in DOMAIN s : IsFirstWithKey(s, i, k)]
                ELSE NullObj

(* _holder_contains_object_in_bucket: by pointer, not by key. *)
Contains(s, o) == o \in Elems(s)

Goto(t, l) == pc' = [pc EXCEPT ![t] = l]

(* The call returns: locals die. *)
Leave(t) == /\ Goto(t, "idle")
            /\ arg' = [arg EXCEPT ![t] = NullObj]
            /\ snap' = [snap EXCEPT ![t] = <<>>]
            /\ tmp' = [tmp EXCEPT ![t] = 0]
            /\ res' = [res EXCEPT ![t] = NullObj]

Crash(kind) == /\ fault' = kind
               /\ UNCHANGED <<memory, lock, counters, pc, locals, acked>>

Init ==
  /\ allocated = (First # NullObj)
  /\ chain = [b \in Buckets |-> IF First # NullObj /\ b = Hash(First)
                                THEN <<First>> ELSE <<>>]
  /\ freed = FALSE
  /\ version = [o \in Objs |-> 0]
  /\ lock = NoThread
  /\ readers = 0
  /\ mark = FALSE
  /\ published = TRUE
  /\ pc = [t \in Threads |-> "idle"]
  /\ arg = [t \in Threads |-> NullObj]
  /\ snap = [t \in Threads |-> <<>>]
  /\ tmp = [t \in Threads |-> 0]
  /\ res = [t \in Threads |-> NullObj]
  /\ acked = (IF First # NullObj THEN {First} ELSE {})
  /\ fault = "none"

-----------------------------------------------------------------------------
(* holder_insert_object_internal *)

BeginInsert(t, o) ==
  /\ pc[t] = "idle" /\ t \in Inserters /\ published
  /\ Goto(t, "i_buckets")
  /\ arg' = [arg EXCEPT ![t] = o]
  /\ UNCHANGED <<memory, lock, counters, snap, tmp, res, acked, fault>>

BucketsAreNull == ~allocated

(* if (holder->buckets == NULL) *)
InsertTestBuckets(t) ==
  /\ pc[t] = "i_buckets"
  /\ Goto(t, IF BucketsAreNull THEN "i_alloc" ELSE "i_head")
  /\ UNCHANGED <<memory, lock, counters, locals, acked, fault>>

(* _holder_initialize_buckets, outside the lock: any array already there  *)
(* is replaced and leaks.                                                  *)
InitializeBuckets(t) ==
  /\ pc[t] = "i_alloc"
  /\ allocated' = TRUE
  /\ chain' = [b \in Buckets |-> <<>>]
  /\ Goto(t, "i_head")
  /\ UNCHANGED <<freed, version, lock, counters, locals, acked, fault>>

(* The unlocked search loads the head of the bucket ... *)
InsertLoadHead(t) ==
  /\ pc[t] = "i_head"
  /\ IF freed THEN Crash("use_after_free")
     ELSE /\ snap' = [snap EXCEPT ![t] = chain[Hash(arg[t])]]
          /\ Goto(t, "i_walk")
          /\ UNCHANGED <<memory, lock, counters, arg, tmp, res, acked, fault>>

(* ... and follows the list from there. *)
InsertWalk(t) ==
  /\ pc[t] = "i_walk"
  /\ IF freed /\ snap[t] # <<>> THEN Crash("use_after_free")
     ELSE /\ Goto(t, IF Contains(snap[t], arg[t]) THEN "i_ret" ELSE "i_lock")
          /\ UNCHANGED <<memory, lock, counters, locals, acked, fault>>

WithoutLock == TRUE
LockIsFree == lock = NoThread

LockKept == lock
LockReleased == NoThread

InsertLock(t) ==
  /\ pc[t] = "i_lock"
  /\ \/ /\ lock = Destroyed
        /\ Crash("lock_destroyed")
     \/ /\ LockIsFree
        /\ lock' = t
        /\ Goto(t, "i_recheck")
        /\ UNCHANGED <<memory, counters, locals, acked, fault>>

NotSearchedAgain(t) == FALSE

(* "Someone might have inserted it between searching and locking" *)
FoundUnderLock(t) == Contains(chain[Hash(arg[t])], arg[t])

InsertRecheck(t) ==
  /\ pc[t] = "i_recheck"
  /\ IF freed THEN Crash("use_after_free")
     ELSE /\ Goto(t, IF FoundUnderLock(t) THEN "i_unlock" ELSE "i_prepare")
          /\ UNCHANGED <<memory, lock, counters, locals, acked, fault>>

(* bucket->next = head *)
InsertPrepare(t) ==
  /\ pc[t] = "i_prepare"
  /\ snap' = [snap EXCEPT ![t] = chain[Hash(arg[t])]]
  /\ Goto(t, "i_publish")
  /\ UNCHANGED <<memory, lock, counters, arg, tmp, res, acked, fault>>

LinkedAlone(o, s) == <<o>>

(* The list a new node heads. *)
Linked(o, s) == <<o>> \o s

(* head = bucket *)
InsertPublish(t) ==
  /\ pc[t] = "i_publish"
  /\ chain' = [chain EXCEPT ![Hash(arg[t])] = Linked(arg[t], snap[t])]
  /\ Goto(t, "i_unlock")
  /\ UNCHANGED <<allocated, freed, version, lock, counters, locals,
                 acked, fault>>

InsertUnlock(t) ==
  /\ pc[t] = "i_unlock"
  /\ lock' = LockReleased
  /\ Goto(t, "i_ret")
  /\ UNCHANGED <<memory, counters, locals, acked, fault>>

InsertReturn(t) ==
  /\ pc[t] = "i_ret"
  /\ acked' = acked \cup {arg[t]}
  /\ Leave(t)
  /\ UNCHANGED <<memory, lock, counters, fault>>

-----------------------------------------------------------------------------
(* holder_fetch_object *)

BeginFetch(t, k) ==
  /\ pc[t] = "idle" /\ t \in Fetchers /\ published
  /\ Goto(t, "f_buckets")
  /\ arg' = [arg EXCEPT ![t] = k]
  /\ UNCHANGED <<memory, lock, counters, snap, tmp, res, acked, fault>>

FetchTestBuckets(t) ==
  /\ pc[t] = "f_buckets"
  /\ Goto(t, IF allocated THEN "f_inc" ELSE "f_ret")
  /\ UNCHANGED <<memory, lock, counters, locals, acked, fault>>

LoadReaders(t) ==
  /\ tmp' = [tmp EXCEPT ![t] = readers]
  /\ UNCHANGED <<memory, lock, counters, arg, snap, res, acked, fault>>

FetchLoadForInc(t) ==
  /\ pc[t] = "f_inc" /\ LoadReaders(t) /\ Goto(t, "f_incst")

FetchStoreInc(t) ==
  /\ pc[t] = "f_incst"
  /\ readers' = (tmp[t] + 1) % ReaderMod
  /\ Goto(t, "f_mark")
  /\ UNCHANGED <<memory, lock, mark, published, locals, acked, fault>>

(* A marked holder is freed on the spot: readers is neither tested nor     *)
(* decremented.                                                            *)
FetchTestMark(t) ==
  /\ pc[t] = "f_mark"
  /\ Goto(t, IF mark THEN "d_lock" ELSE "f_head")
  /\ UNCHANGED <<memory, lock, counters, locals, acked, fault>>

FetchLoadHead(t) ==
  /\ pc[t] = "f_head"
  /\ IF freed THEN Crash("use_after_free")
     ELSE /\ snap' = [snap EXCEPT ![t] = chain[BucketOf[arg[t]]]]
          /\ Goto(t, "f_walk")
          /\ UNCHANGED <<memory, lock, counters, arg, tmp, res, acked, fault>>

FetchWalk(t) ==
  /\ pc[t] = "f_walk"
  /\ IF freed /\ snap[t] # <<>> THEN Crash("use_after_free")
     ELSE /\ res' = [res EXCEPT ![t] = Lookup(snap[t], arg[t])]
          /\ Goto(t, "f_dec")
          /\ UNCHANGED <<memory, lock, counters, arg, snap, tmp, acked, fault>>

FetchLoadForDec(t) ==
  /\ pc[t] = "f_dec" /\ LoadReaders(t) /\ Goto(t, "f_decst")

OneLess(n) == (n + ReaderMod - 1) % ReaderMod

FetchStoreDec(t) ==
  /\ pc[t] = "f_decst"
  /\ readers' = OneLess(tmp[t])
  /\ Goto(t, "f_last")
  /\ UNCHANGED <<memory, lock, mark, published, locals, acked, fault>>

LeftToOthers == FALSE
LastReader == mark /\ readers = 0

(* if (holder->dealloc_mark && holder->readers == 0) *)
FetchTestLast(t) ==
  /\ pc[t] = "f_last"
  /\ Goto(t, IF LastReader THEN "d_lock" ELSE "f_ret")
  /\ UNCHANGED <<memory, lock, counters, locals, acked, fault>>

FetchReturn(t) ==
  /\ pc[t] = "f_ret"
  /\ Leave(t)
  /\ UNCHANGED <<memory, lock, counters, acked, fault>>

-----------------------------------------------------------------------------
(* holder_mark_to_deallocate.  Its caller, _flush_cache, first takes the   *)
(* pointer away from the class, so no call begins after that; calls that   *)
(* have begun hold the pointer and go on.                                  *)

BeginDestroy(t) ==
  /\ pc[t] = "idle" /\ t \in Destroyers /\ published
  /\ published' = FALSE
  /\ Goto(t, "m_mark")
  /\ UNCHANGED <<memory, lock, readers, mark, locals, acked, fault>>

SetMark(t) ==
  /\ pc[t] = "m_mark"
  /\ mark' = TRUE
  /\ Goto(t, "m_check")
  /\ UNCHANGED <<memory, lock, readers, published, locals, acked, fault>>

ReadersIgnored == TRUE
NoReaders == readers = 0

MarkTestReaders(t) ==
  /\ pc[t] = "m_check"
  /\ Goto(t, IF NoReaders THEN "d_lock" ELSE "idle")
  /\ UNCHANGED <<memory, lock, counters, locals, acked, fault>>

-----------------------------------------------------------------------------
(* _holder_deallocate *)

DeallocLock(t) ==
  /\ pc[t] = "d_lock"
  /\ \/ /\ lock = Destroyed
        /\ Crash("lock_destroyed")
     \/ /\ LockIsFree
        /\ lock' = t
        /\ Goto(t, "d_sweep")
        /\ UNCHANGED <<memory, counters, locals, acked, fault>>

NotBumped == version

(* _holder_deallocate_bucket on each bucket: the methods of a cache get a  *)
(* new version.                                                            *)
Bumped == [o \in Objs |-> IF IsCache /\ o \in Present
                          THEN version[o] + 1 ELSE version[o]]

(* Frees the lists and the array.  holder->buckets keeps its value; it is  *)
(* indexed without a test for NULL.                                        *)
DeallocSweep(t) ==
  /\ pc[t] = "d_sweep"
  /\ IF ~allocated THEN Crash("null_buckets")
     ELSE IF freed THEN Crash("double_free")
     ELSE /\ version' = Bumped
          /\ freed' = TRUE
          /\ chain' = [b \in Buckets |-> <<>>]
          /\ Goto(t, "d_unlock")
          /\ UNCHANGED <<allocated, lock, counters, locals, acked, fault>>

DeallocUnlock(t) ==
  /\ pc[t] = "d_unlock"
  /\ lock' = LockReleased
  /\ Goto(t, "d_destroy")
  /\ UNCHANGED <<memory, counters, locals, acked, fault>>

(* objc_rw_lock_destroy; the holder structure itself is never freed.       *)
DeallocDestroyLock(t) ==
  /\ pc[t] = "d_destroy"
  /\ IF lock # NoThread THEN Crash("lock_destroyed")
     ELSE /\ lock' = Destroyed
          /\ Leave(t)
          /\ UNCHANGED <<memory, counters, acked, fault>>

-----------------------------------------------------------------------------
Insert(t) == \/ InsertTestBuckets(t) \/ InitializeBuckets(t)
             \/ InsertLoadHead(t) \/ InsertWalk(t) \/ InsertLock(t)
             \/ InsertRecheck(t) \/ InsertPrepare(t) \/ InsertPublish(t)
             \/ InsertUnlock(t) \/ InsertReturn(t)

Fetch(t) == \/ FetchTestBuckets(t) \/ FetchLoadForInc(t) \/ FetchStoreInc(t)
            \/ FetchTestMark(t) \/ FetchLoadHead(t) \/ FetchWalk(t)
            \/ FetchLoadForDec(t) \/ FetchStoreDec(t) \/ FetchTestLast(t)
            \/ FetchReturn(t)

Destroy(t) == \/ SetMark(t) \/ MarkTestReaders(t)
              \/ DeallocLock(t) \/ DeallocSweep(t) \/ DeallocUnlock(t)
              \/ DeallocDestroyLock(t)

Begin(t) == \/ \E o \in Objs : BeginInsert(t, o)
            \/ \E k \in Keys : BeginFetch(t, k)
            \/ BeginDestroy(t)

Step(t) == fault = "none" /\ (Insert(t) \/ Fetch(t) \/ Destroy(t))

Next == \E t \in Threads : Step(t) \/ (fault = "none" /\ Begin(t))

(* A thread inside a call keeps running; nobody has to call.               *)
Fairness == \A t \in Threads : WF_vars(Step(t))

Spec == Init /\ [][Next]_vars /\ Fairness

-----------------------------------------------------------------------------
(* Types of the state, and of the locals at each point of the program.     *)
TypeOK ==
  /\ allocated \in BOOLEAN /\ freed \in BOOLEAN
  /\ chain \in [Buckets -> Seq(Objs)]
  /\ version \in [Objs -> Nat]
  /\ lock \in Threads \cup {NoThread, Destroyed}
  /\ readers \in 0 .. ReaderMod - 1
  /\ mark \in BOOLEAN /\ published \in BOOLEAN
  /\ pc \in [Threads -> PCs]
  /\ arg \in [Threads -> Objs \cup Keys \cup {NullObj}]
  /\ \A t \in Threads : /\ pc[t] \in InsertPCs => arg[t] \in Objs
                        /\ pc[t] \in FetchPCs => arg[t] \in Keys
  /\ snap \in [Threads -> Seq(Objs)]
  /\ tmp \in [Threads -> 0 .. ReaderMod - 1]
  /\ res \in [Threads -> Objs \cup {NullObj}]
  /\ acked \subseteq Objs
  /\ fault \in Faults

(* No object is linked twice: the search without the lock is repeated with *)
(* the lock, so two threads that insert one object leave one node.         *)
NoRepeats(s) == \A i, j \in DOMAIN s : s[i] = s[j] => i = j

NoDuplicate == \A b \in Buckets : NoRepeats(chain[b])

(* An object whose insert has returned stays reachable by later look-ups,  *)
(* whoever inserts beside it; once the holder is freed, the version of     *)
(* every such method has been bumped, so no inline cache still trusts it.  *)
AckedReachable ==
  IF freed THEN IsCache => \A o \in acked : version[o] > 0
  ELSE acked \subseteq Present

(* Between its increment and its decrement a look-up is counted, and       *)
(* nothing else is: readers is what holder.c says it is.                   *)
Counted == {t \in Threads : pc[t] \in {"f_mark", "f_head", "f_walk", "f_dec",
                                       "f_decst"}}
ReadersExact == Counted = {} /\ ~mark => readers = 0

(* A look-up that has passed the test of the mark is not overtaken by the  *)
(* deallocation: the lists it reads are there until it is done.            *)
ReaderKeepsMemory ==
  \A t \in Threads : pc[t] \in {"f_head", "f_walk", "f_dec", "f_decst"}
                       => ~freed

(* The holder is deallocated once: nobody sweeps freed buckets or takes a  *)
(* lock that has been destroyed.                                           *)
DeallocatedOnce == fault \notin {"double_free", "lock_destroyed"}

(* A holder that is marked is freed in the end.                            *)
MarkedIsFreed == mark ~> freed

-----------------------------------------------------------------------------
(* What makes NoDuplicate and AckedReachable inductive; see HolderProofs.  *)

CriticalPCs == {"i_recheck", "i_prepare", "i_publish", "i_unlock",
                "d_sweep", "d_unlock"}

(* A thread between lock and unlock is the owner of the lock. *)
LockHeld == \A t \in Threads : pc[t] \in CriticalPCs => lock = t

(* The node about to be linked is for an object that is not in its list. *)
NewNodeIsNew ==
  \A t \in Threads :
    /\ pc[t] = "i_prepare" => ~FoundUnderLock(t)
    /\ pc[t] = "i_publish" => ~Contains(snap[t], arg[t]) /\ NoRepeats(snap[t])

(* The object can be found or, once the holder is freed, has been bumped.  *)
Settled(o) == IF freed THEN IsCache => version[o] > 0
              ELSE Contains(chain[Hash(o)], o)

(* The point from which an insert counts as done. *)
InsertDone(t) == \/ pc[t] \in {"i_unlock", "i_ret"}
                 \/ pc[t] = "i_walk" /\ Contains(snap[t], arg[t])

(* Once the buckets exist they are not replaced, what is linked is linked  *)
(* to the whole list, and what is done is settled.                         *)
WarmInv ==
  /\ allocated
  /\ \A t \in Threads :
       /\ pc[t] # "i_alloc"
       /\ pc[t] \in {"i_prepare", "i_publish"} => ~freed
       /\ pc[t] = "i_publish" => snap[t] = chain[Hash(arg[t])]
       /\ InsertDone(t) => Settled(arg[t])
  /\ \A o \in acked : Settled(o)

ListInv == /\ LockHeld /\ NewNodeIsNew /\ NoDuplicate
           /\ First # NullObj => WarmInv

-----------------------------------------------------------------------------
(* A holder nobody destroys implements AtomicHolder.  A look-up takes      *)
(* effect where it loads the head of the bucket (or finds no buckets); an  *)
(* insert where it links the node or loads a list that has the object.     *)
AbstractInsert(t) ==
  [op |-> "insert", arg |-> arg[t], res |-> NullObj,
   done |-> InsertDone(t)]

AbstractFetch(t) ==
  [op |-> "fetch", arg |-> arg[t],
   res |-> IF pc[t] = "f_walk" THEN Lookup(snap[t], arg[t]) ELSE res[t],
   done |-> pc[t] \in {"f_walk", "f_dec", "f_decst", "f_last", "f_ret"}]

AbstractCall(t) ==
  IF pc[t] \in InsertPCs THEN AbstractInsert(t)
  ELSE IF pc[t] \in FetchPCs THEN AbstractFetch(t)
  ELSE [op |-> "none", arg |-> NullObj, done |-> FALSE, res |-> NullObj]

Abstract == INSTANCE AtomicHolder WITH
  present <- Present, call <- [t \in Threads |-> AbstractCall(t)]

ImplementsAtomicHolder == Abstract!Spec
=============================================================================
