---------------------------- MODULE HolderProofs ----------------------------
(***************************************************************************)
(* Theorems about Holder, for any threads, objects, keys, buckets and      *)
(* hash, and any division of the threads into inserters, fetchers and      *)
(* destroyers.                                                             *)
(***************************************************************************)
EXTENDS Holder, SequenceTheorems, WellFoundedInduction, TLAPS

(* A non-empty set of natural numbers has a least element. *)
LEMMA LeastNumber ==
  ASSUME NEW S, S \subseteq Nat, S # {}
  PROVE  \E i \in S : \A j \in S : i <= j
<1>1. \E i \in S : \A j \in S : <<j, i>> \notin OpToRel(<, Nat)
  BY NatLessThanWellFounded, WFMin
<1>2. PICK i \in S : \A j \in S : <<j, i>> \notin OpToRel(<, Nat)
  BY <1>1
<1>3. ASSUME NEW j \in S PROVE i <= j
  <2>1. i \in Nat /\ j \in Nat
    OBVIOUS
  <2>2. ~(j < i)
    BY <1>2, <2>1 DEF OpToRel
  <2> QED BY <2>1, <2>2
<1> QED BY <1>3

LEMMA ElemsAreObjects ==
  ASSUME NEW s \in Seq(Objs) PROVE Elems(s) \subseteq Objs
BY LenProperties DEF Elems

(* What a look-up in a list returns: NULL, or an object of the list with   *)
(* the key.                                                                *)
LEMMA LookupFinds ==
  ASSUME NEW s \in Seq(Objs), NEW k
  PROVE  IF \E i \in DOMAIN s : KeyOf[s[i]] = k
         THEN Lookup(s, k) \in Elems(s) /\ KeyOf[Lookup(s, k)] = k
         ELSE Lookup(s, k) = NullObj
<1>1. CASE \E i \in DOMAIN s : KeyOf[s[i]] = k
  <2> DEFINE S == {i \in DOMAIN s : KeyOf[s[i]] = k}
  <2>1. S \subseteq Nat /\ S # {}
    BY <1>1, LenProperties
  <2>2. PICK i \in S : \A j \in S : i <= j
    BY <2>1, LeastNumber
  <2>3. IsFirstWithKey(s, i, k)
    BY <2>2 DEF IsFirstWithKey
  <2> DEFINE c == CHOOSE m \in DOMAIN s : IsFirstWithKey(s, m, k)
  <2>4. c \in DOMAIN s /\ IsFirstWithKey(s, c, k)
    BY <2>3 DEF IsFirstWithKey
  <2> HIDE DEF c
  <2>5. Lookup(s, k) = s[c]
    BY <1>1 DEF Lookup, c
  <2> QED BY <1>1, <2>4, <2>5 DEF IsFirstWithKey, Elems
<1>2. CASE ~ \E i \in DOMAIN s : KeyOf[s[i]] = k
  BY <1>2 DEF Lookup
<1> QED BY <1>1, <1>2

(* Linking a node in front of a list: the list stays as its suffix, the    *)
(* node is in it, and it has no duplicate if the object was not there.     *)
Extends(n, o, s) ==
  /\ DOMAIN n = 1 .. (Len(s) + 1)
  /\ n[1] = o
  /\ \A i \in DOMAIN s : n[i + 1] = s[i]
  /\ \A i \in DOMAIN n : i # 1 => i - 1 \in DOMAIN s /\ n[i] = s[i - 1]

LEMMA LinkedList ==
  ASSUME NEW s \in Seq(Objs), NEW o \in Objs
  PROVE  /\ Linked(o, s) \in Seq(Objs)
         /\ Extends(Linked(o, s), o, s)
<1>1. <<o>> \in Seq(Objs) /\ Len(<<o>>) = 1 /\ <<o>>[1] = o
  OBVIOUS
<1>2. /\ <<o>> \o s \in Seq(Objs)
      /\ Len(<<o>> \o s) = 1 + Len(s)
      /\ \A i \in 1 .. 1 + Len(s) :
           (<<o>> \o s)[i] = IF i <= 1 THEN <<o>>[i] ELSE s[i - 1]
  BY <1>1, ConcatProperties
<1>3. Len(s) \in Nat /\ DOMAIN s = 1 .. Len(s)
  BY LenProperties
<1>4. DOMAIN (<<o>> \o s) = 1 .. (Len(s) + 1)
  BY <1>2, <1>3, LenProperties
<1> QED BY <1>1, <1>2, <1>3, <1>4 DEF Linked, Extends

-----------------------------------------------------------------------------
(* Type correctness. *)

USE HolderAssumption

LEMMA HashInBuckets == \A o \in Objs : Hash(o) \in Buckets
BY DEF Hash

(* The points of the program by the call they belong to. *)
LEMMA ProgramPoints ==
  /\ \A l \in InsertPCs : l \in PCs /\ l \notin FetchPCs
  /\ \A l \in FetchPCs : l \in PCs /\ l \notin InsertPCs
  /\ \A l \in {"idle"} \cup MarkPCs \cup FreePCs :
       l \in PCs /\ l \notin InsertPCs /\ l \notin FetchPCs
  /\ {"i_buckets", "i_alloc", "i_head", "i_walk", "i_lock", "i_recheck",
      "i_prepare", "i_publish", "i_unlock", "i_ret"} \subseteq InsertPCs
  /\ {"f_buckets", "f_inc", "f_incst", "f_mark", "f_head", "f_walk", "f_dec",
      "f_decst", "f_last", "f_ret"} \subseteq FetchPCs
  /\ {"m_mark", "m_check"} \subseteq MarkPCs
  /\ {"d_lock", "d_sweep", "d_unlock", "d_destroy"} \subseteq FreePCs
BY DEF PCs, InsertPCs, FetchPCs, MarkPCs, FreePCs

(* What a crash and a return leave of the types. *)
LEMMA CrashKeepsTypes ==
  ASSUME TypeOK, NEW kind \in Faults, Crash(kind)
  PROVE  TypeOK'
BY DEF TypeOK, Crash, memory, counters, locals

LEMMA TypeInit == Init => TypeOK
<1> SUFFICES ASSUME Init PROVE TypeOK
  OBVIOUS
<1>1. chain \in [Buckets -> Seq(Objs)]
  BY DEF Init
<1>2. snap \in [Threads -> Seq(Objs)]
  BY DEF Init
<1>3. pc \in [Threads -> PCs]
  BY ProgramPoints DEF Init
<1>4. \A t \in Threads : pc[t] \notin InsertPCs /\ pc[t] \notin FetchPCs
  BY ProgramPoints DEF Init
<1>5. readers \in 0 .. ReaderMod - 1 /\ tmp \in [Threads -> 0 .. ReaderMod - 1]
  BY DEF Init
<1>6. version \in [Objs -> Nat] /\ acked \subseteq Objs
  BY DEF Init
<1> QED BY <1>1, <1>2, <1>3, <1>4, <1>5, <1>6 DEF Init, TypeOK, Faults

LEMMA BeginKeepsTypes ==
  ASSUME TypeOK, NEW t \in Threads, Begin(t)
  PROVE  TypeOK'
<1>1. ASSUME NEW o \in Objs, BeginInsert(t, o) PROVE TypeOK'
  BY <1>1, ProgramPoints DEF BeginInsert, TypeOK, Goto, Leave, memory, counters, locals
<1>2. ASSUME NEW k \in Keys, BeginFetch(t, k) PROVE TypeOK'
  BY <1>2, ProgramPoints DEF BeginFetch, TypeOK, Goto, Leave, memory, counters, locals
<1>3. CASE BeginDestroy(t)
  BY <1>3, ProgramPoints DEF BeginDestroy, TypeOK, Goto, Leave, memory, counters, locals
<1> QED BY <1>1, <1>2, <1>3 DEF Begin

LEMMA InsertKeepsTypes ==
  ASSUME TypeOK, NEW t \in Threads, Insert(t)
  PROVE  TypeOK'
<1>1. CASE InsertTestBuckets(t)
  BY <1>1, ProgramPoints
  DEF InsertTestBuckets, BucketsAreNull, TypeOK, Goto, Leave, memory, counters, locals
<1>2. CASE InitializeBuckets(t)
  BY <1>2, ProgramPoints
  DEF InitializeBuckets, TypeOK, Goto, Leave, memory, counters, locals
<1>3. CASE InsertLoadHead(t)
  <2>1. CASE freed
    <3>1. Crash("use_after_free")
      BY <1>3, <2>1, Zenon DEF InsertLoadHead
    <3> QED BY <3>1, CrashKeepsTypes DEF Faults
  <2>2. CASE ~(freed)
    <3>1. /\ pc[t] = "i_head"
          /\ snap' = [snap EXCEPT ![t] = chain[Hash(arg[t])]]
          /\ pc' = [pc EXCEPT ![t] = "i_walk"]
          /\ UNCHANGED <<memory, lock, counters, arg, tmp, res, acked, fault>>
      BY <1>3, <2>2, Zenon DEF InsertLoadHead, Goto
    <3>2. chain[Hash(arg[t])] \in Seq(Objs)
      BY <3>1, ProgramPoints, HashInBuckets DEF TypeOK
    <3>3. snap' \in [Threads -> Seq(Objs)]
      BY <3>1, <3>2 DEF TypeOK
    <3>4. pc' \in [Threads -> PCs]
      BY <3>1, ProgramPoints DEF TypeOK
    <3> QED BY <3>1, <3>2, <3>3, <3>4, ProgramPoints
        DEF TypeOK, memory, counters, locals
  <2> QED BY <2>1, <2>2
<1>4. CASE InsertWalk(t)
  <2>1. CASE freed /\ snap[t] # <<>>
    <3>1. Crash("use_after_free")
      BY <1>4, <2>1, Zenon DEF InsertWalk
    <3> QED BY <3>1, CrashKeepsTypes DEF Faults
  <2>2. CASE ~(freed /\ snap[t] # <<>>)
    <3>1. /\ pc[t] = "i_walk"
          /\ \E l \in {"i_ret", "i_lock"} : pc' = [pc EXCEPT ![t] = l]
          /\ UNCHANGED <<memory, lock, counters, locals, acked, fault>>
      BY <1>4, <2>2, Zenon DEF InsertWalk, Goto
    <3>2. pc' \in [Threads -> PCs]
      BY <3>1, ProgramPoints DEF TypeOK
    <3> QED BY <3>1, <3>2, ProgramPoints
        DEF TypeOK, memory, counters, locals
  <2> QED BY <2>1, <2>2
<1>5. CASE InsertLock(t)
  <2>1. CASE Crash("lock_destroyed")
    BY <2>1, CrashKeepsTypes DEF Faults
<2>2. CASE ~Crash("lock_destroyed")
    <3>1. /\ pc[t] = "i_lock"
          /\ lock' = t
          /\ pc' = [pc EXCEPT ![t] = "i_recheck"]
          /\ UNCHANGED <<memory, counters, locals, acked, fault>>
      BY <1>5, <2>2, Zenon DEF InsertLock, Goto
    <3>2. pc' \in [Threads -> PCs]
      BY <3>1, ProgramPoints DEF TypeOK
    <3> QED BY <3>1, <3>2, ProgramPoints
        DEF TypeOK, memory, counters, locals
  <2> QED BY <2>1, <2>2
<1>6. CASE InsertRecheck(t)
  <2>1. CASE freed
    <3>1. Crash("use_after_free")
      BY <1>6, <2>1, Zenon DEF InsertRecheck
    <3> QED BY <3>1, CrashKeepsTypes DEF Faults
  <2>2. CASE ~(freed)
    <3>1. /\ pc[t] = "i_recheck"
          /\ \E l \in {"i_unlock", "i_prepare"} : pc' = [pc EXCEPT ![t] = l]
          /\ UNCHANGED <<memory, lock, counters, locals, acked, fault>>
      BY <1>6, <2>2, Zenon DEF InsertRecheck, Goto
    <3>2. pc' \in [Threads -> PCs]
      BY <3>1, ProgramPoints DEF TypeOK
    <3> QED BY <3>1, <3>2, ProgramPoints
        DEF TypeOK, memory, counters, locals
  <2> QED BY <2>1, <2>2
<1>7. CASE InsertPrepare(t)
  BY <1>7, ProgramPoints, HashInBuckets
  DEF InsertPrepare, TypeOK, Goto, Leave, memory, counters, locals
<1>8. CASE InsertPublish(t)
  <2>1. arg[t] \in Objs /\ Hash(arg[t]) \in Buckets
    BY <1>8, ProgramPoints, HashInBuckets DEF InsertPublish, TypeOK
  <2>2. Linked(arg[t], snap[t]) \in Seq(Objs)
    BY <2>1, LinkedList DEF TypeOK
  <2>3. chain' \in [Buckets -> Seq(Objs)]
    BY <1>8, <2>2 DEF InsertPublish, TypeOK
  <2> QED BY <1>8, <2>3, ProgramPoints
      DEF InsertPublish, TypeOK, Goto, memory, counters, locals
<1>9. CASE InsertUnlock(t)
  BY <1>9, ProgramPoints
  DEF InsertUnlock, LockReleased, TypeOK, Goto, Leave, memory, counters, locals
<1>10. CASE InsertReturn(t)
  BY <1>10, ProgramPoints
  DEF InsertReturn, TypeOK, Goto, Leave, memory, counters, locals
<1> QED BY <1>1, <1>2, <1>3, <1>4, <1>5, <1>6, <1>7, <1>8, <1>9, <1>10 DEF Insert

LEMMA FetchKeepsTypes ==
  ASSUME TypeOK, NEW t \in Threads, Fetch(t)
  PROVE  TypeOK'
<1>1. CASE FetchTestBuckets(t)
  BY <1>1, ProgramPoints
  DEF FetchTestBuckets, TypeOK, Goto, Leave, memory, counters, locals
<1>2. CASE FetchLoadForInc(t)
  BY <1>2, ProgramPoints
  DEF FetchLoadForInc, LoadReaders, TypeOK, Goto, Leave, memory, counters, locals
<1>3. CASE FetchStoreInc(t)
  BY <1>3, ProgramPoints
  DEF FetchStoreInc, TypeOK, Goto, Leave, memory, counters, locals
<1>4. CASE FetchTestMark(t)
  BY <1>4, ProgramPoints
  DEF FetchTestMark, TypeOK, Goto, Leave, memory, counters, locals
<1>5. CASE FetchLoadHead(t)
  <2>1. CASE freed
    <3>1. Crash("use_after_free")
      BY <1>5, <2>1, Zenon DEF FetchLoadHead
    <3> QED BY <3>1, CrashKeepsTypes DEF Faults
  <2>2. CASE ~(freed)
    <3>1. /\ pc[t] = "f_head"
          /\ snap' = [snap EXCEPT ![t] = chain[BucketOf[arg[t]]]]
          /\ pc' = [pc EXCEPT ![t] = "f_walk"]
          /\ UNCHANGED <<memory, lock, counters, arg, tmp, res, acked, fault>>
      BY <1>5, <2>2, Zenon DEF FetchLoadHead, Goto
    <3>2. chain[BucketOf[arg[t]]] \in Seq(Objs)
      BY <3>1, ProgramPoints DEF TypeOK
    <3>3. snap' \in [Threads -> Seq(Objs)]
      BY <3>1, <3>2 DEF TypeOK
    <3>4. pc' \in [Threads -> PCs]
      BY <3>1, ProgramPoints DEF TypeOK
    <3> QED BY <3>1, <3>2, <3>3, <3>4, ProgramPoints
        DEF TypeOK, memory, counters, locals
  <2> QED BY <2>1, <2>2
<1>6. CASE FetchWalk(t)
  <2>1. CASE freed /\ snap[t] # <<>>
    <3>1. Crash("use_after_free")
      BY <1>6, <2>1, Zenon DEF FetchWalk
    <3> QED BY <3>1, CrashKeepsTypes DEF Faults
  <2>2. CASE ~(freed /\ snap[t] # <<>>)
    <3>1. /\ pc[t] = "f_walk"
          /\ res' = [res EXCEPT ![t] = Lookup(snap[t], arg[t])]
          /\ pc' = [pc EXCEPT ![t] = "f_dec"]
          /\ UNCHANGED <<memory, lock, counters, arg, snap, tmp, acked, fault>>
      BY <1>6, <2>2, Zenon DEF FetchWalk, Goto
    <3>2. Lookup(snap[t], arg[t]) \in Objs \cup {NullObj}
      <4>1. snap[t] \in Seq(Objs)
        BY DEF TypeOK
      <4> QED BY <4>1, LookupFinds, ElemsAreObjects
    <3>3. res' \in [Threads -> Objs \cup {NullObj}]
      BY <3>1, <3>2 DEF TypeOK
    <3>4. pc' \in [Threads -> PCs]
      BY <3>1, ProgramPoints DEF TypeOK
    <3> QED BY <3>1, <3>2, <3>3, <3>4, ProgramPoints
        DEF TypeOK, memory, counters, locals
  <2> QED BY <2>1, <2>2
<1>7. CASE FetchLoadForDec(t)
  BY <1>7, ProgramPoints
  DEF FetchLoadForDec, LoadReaders, TypeOK, Goto, Leave, memory, counters, locals
<1>8. CASE FetchStoreDec(t)
  BY <1>8, ProgramPoints
  DEF FetchStoreDec, OneLess, TypeOK, Goto, Leave, memory, counters, locals
<1>9. CASE FetchTestLast(t)
  BY <1>9, ProgramPoints
  DEF FetchTestLast, LastReader, TypeOK, Goto, Leave, memory, counters, locals
<1>10. CASE FetchReturn(t)
  BY <1>10, ProgramPoints
  DEF FetchReturn, TypeOK, Goto, Leave, memory, counters, locals
<1> QED BY <1>1, <1>2, <1>3, <1>4, <1>5, <1>6, <1>7, <1>8, <1>9, <1>10 DEF Fetch

LEMMA DestroyKeepsTypes ==
  ASSUME TypeOK, NEW t \in Threads, Destroy(t)
  PROVE  TypeOK'
<1>1. CASE SetMark(t)
  BY <1>1, ProgramPoints
  DEF SetMark, TypeOK, Goto, Leave, memory, counters, locals
<1>2. CASE MarkTestReaders(t)
  BY <1>2, ProgramPoints
  DEF MarkTestReaders, NoReaders, TypeOK, Goto, Leave, memory, counters, locals
<1>3. CASE DeallocLock(t)
  <2>1. CASE Crash("lock_destroyed")
    BY <2>1, CrashKeepsTypes DEF Faults
<2>2. CASE ~Crash("lock_destroyed")
    <3>1. /\ pc[t] = "d_lock"
          /\ lock' = t
          /\ pc' = [pc EXCEPT ![t] = "d_sweep"]
          /\ UNCHANGED <<memory, counters, locals, acked, fault>>
      BY <1>3, <2>2, Zenon DEF DeallocLock, Goto
    <3>2. pc' \in [Threads -> PCs]
      BY <3>1, ProgramPoints DEF TypeOK
    <3> QED BY <3>1, <3>2, ProgramPoints
        DEF TypeOK, memory, counters, locals
  <2> QED BY <2>1, <2>2
<1>4. CASE DeallocSweep(t)
  <2>1. CASE ~allocated \/ freed
    <3>1. Crash("null_buckets") \/ Crash("double_free")
      BY <1>4, <2>1, Zenon DEF DeallocSweep
    <3> QED BY <3>1, CrashKeepsTypes DEF Faults
  <2>2. CASE ~(~allocated \/ freed)
    <3>1. /\ pc[t] = "d_sweep"
          /\ version' = Bumped
          /\ freed' = TRUE
          /\ chain' = [b \in Buckets |-> <<>>]
          /\ pc' = [pc EXCEPT ![t] = "d_unlock"]
          /\ UNCHANGED <<allocated, lock, counters, locals, acked, fault>>
      BY <1>4, <2>2, Zenon DEF DeallocSweep, Goto
    <3>2. version' \in [Objs -> Nat]
      BY <3>1 DEF Bumped, TypeOK
    <3>3. chain' \in [Buckets -> Seq(Objs)]
      <4>1. <<>> \in Seq(Objs)
        BY EmptySeq
      <4> QED BY <3>1, <4>1
    <3>4. pc' \in [Threads -> PCs]
      BY <3>1, ProgramPoints DEF TypeOK
    <3> QED BY <3>1, <3>2, <3>3, <3>4, ProgramPoints
        DEF TypeOK, counters, locals
  <2> QED BY <2>1, <2>2
<1>5. CASE DeallocUnlock(t)
  BY <1>5, ProgramPoints
  DEF DeallocUnlock, LockReleased, TypeOK, Goto, Leave, memory, counters, locals
<1>6. CASE DeallocDestroyLock(t)
  <2>1. CASE lock # NoThread
    <3>1. Crash("lock_destroyed")
      BY <1>6, <2>1, Zenon DEF DeallocDestroyLock
    <3> QED BY <3>1, CrashKeepsTypes DEF Faults
  <2>2. CASE ~(lock # NoThread)
    <3>1. /\ pc[t] = "d_destroy"
          /\ lock' = Destroyed
          /\ Leave(t)
          /\ UNCHANGED <<memory, counters, acked, fault>>
      BY <1>6, <2>2, Zenon DEF DeallocDestroyLock, Goto
    <3>2. pc' = [pc EXCEPT ![t] = "idle"]
      BY <3>1, Zenon DEF Leave, Goto
    <3>3. /\ arg' = [arg EXCEPT ![t] = NullObj]
          /\ snap' = [snap EXCEPT ![t] = <<>>]
          /\ tmp' = [tmp EXCEPT ![t] = 0]
          /\ res' = [res EXCEPT ![t] = NullObj]
      BY <3>1, Zenon DEF Leave
    <3>4. pc' \in [Threads -> PCs]
      BY <3>2, ProgramPoints DEF TypeOK
    <3>5. snap' \in [Threads -> Seq(Objs)]
      BY <3>3, EmptySeq DEF TypeOK
    <3> QED BY <3>1, <3>2, <3>3, <3>4, <3>5, ProgramPoints
        DEF TypeOK, memory, counters, locals
  <2> QED BY <2>1, <2>2
<1> QED BY <1>1, <1>2, <1>3, <1>4, <1>5, <1>6 DEF Destroy

(* Every variable, and every local at its point of the program, keeps its  *)
(* type.                                                                   *)
THEOREM TypeCorrect == Spec => []TypeOK
<1>1. TypeOK /\ [Next]_vars => TypeOK'
  <2> SUFFICES ASSUME TypeOK, [Next]_vars PROVE TypeOK'
    OBVIOUS
  <2>1. ASSUME NEW t \in Threads, Step(t) PROVE TypeOK'
    BY <2>1, InsertKeepsTypes, FetchKeepsTypes, DestroyKeepsTypes DEF Step
  <2>2. ASSUME NEW t \in Threads, Begin(t) PROVE TypeOK'
    BY <2>2, BeginKeepsTypes
  <2>3. CASE UNCHANGED vars
    BY <2>3 DEF vars, memory, counters, locals, TypeOK
  <2> QED BY <2>1, <2>2, <2>3 DEF Next
<1> QED BY TypeInit, <1>1, PTL DEF Spec

-----------------------------------------------------------------------------
(* No duplicates, and no insert lost: ListInv is inductive. *)

(* Other threads keep their place and their locals. *)
Others(t) == \A u \in Threads \ {t} :
               pc'[u] = pc[u] /\ arg'[u] = arg[u] /\ snap'[u] = snap[u]

(* Steps that concern neither the lists nor the lock. *)
Quiet(t) ==
  /\ UNCHANGED <<chain, freed, version, allocated, lock, acked>>
  /\ Others(t)
  /\ pc'[t] \notin CriticalPCs \cup {"i_walk", "i_ret"}
  /\ pc'[t] = "i_alloc" => ~allocated

LEMMA QuietKeepsListInv ==
  ASSUME TypeOK, ListInv, NEW t \in Threads, Quiet(t)
  PROVE  ListInv'
<1>1. LockHeld'
  BY DEF ListInv, LockHeld, Quiet, Others
<1>2. NewNodeIsNew'
  BY DEF ListInv, NewNodeIsNew, Quiet, Others, FoundUnderLock, Contains,
         CriticalPCs
<1>3. NoDuplicate'
  BY DEF ListInv, NoDuplicate, Quiet
<1>4. ASSUME First # NullObj PROVE WarmInv'
  <2>1. WarmInv
    BY <1>4 DEF ListInv
  <2>2. \A o : Settled(o)' <=> Settled(o)
    BY DEF Settled, Quiet
  <2>3. ASSUME NEW u \in Threads \ {t}
        PROVE  /\ pc'[u] # "i_alloc"
               /\ pc'[u] \in {"i_prepare", "i_publish"} => ~freed'
               /\ pc'[u] = "i_publish" => snap'[u] = chain'[Hash(arg'[u])]
               /\ InsertDone(u)' => Settled(arg[u])'
    BY <2>1, <2>2 DEF WarmInv, Quiet, Others, InsertDone
  <2>4. pc'[t] \notin {"i_alloc", "i_prepare", "i_publish"} /\ ~InsertDone(t)'
    BY <2>1 DEF WarmInv, Quiet, InsertDone, CriticalPCs
  <2> QED BY <2>1, <2>2, <2>3, <2>4 DEF WarmInv, Quiet
<1> QED BY <1>1, <1>2, <1>3, <1>4 DEF ListInv

LEMMA UnchangedKeepsListInv ==
  ASSUME ListInv, UNCHANGED <<memory, lock, pc, locals, acked>>
  PROVE  ListInv'
BY DEF ListInv, LockHeld, NewNodeIsNew, NoDuplicate, WarmInv, FoundUnderLock,
       Contains, Settled, InsertDone, memory, locals

LEMMA CrashKeepsListInv ==
  ASSUME ListInv, NEW kind, Crash(kind)
  PROVE  ListInv'
BY UnchangedKeepsListInv DEF Crash

LEMMA BeginIsQuiet ==
  ASSUME TypeOK, NEW t \in Threads, Begin(t)
  PROVE  Quiet(t)
<1>1. ASSUME NEW o \in Objs, BeginInsert(t, o) PROVE Quiet(t)
  BY <1>1 DEF BeginInsert, Quiet, Others, Goto, TypeOK, memory, counters, locals, CriticalPCs
<1>2. ASSUME NEW k \in Keys, BeginFetch(t, k) PROVE Quiet(t)
  BY <1>2 DEF BeginFetch, Quiet, Others, Goto, TypeOK, memory, counters, locals, CriticalPCs
<1>3. CASE BeginDestroy(t)
  BY <1>3 DEF BeginDestroy, Quiet, Others, Goto, TypeOK, memory, counters, locals, CriticalPCs
<1> QED BY <1>1, <1>2, <1>3 DEF Begin

LEMMA FetchIsQuiet ==
  ASSUME TypeOK, NEW t \in Threads, Fetch(t)
  PROVE  Quiet(t) \/ Crash("use_after_free")
<1>1. CASE FetchTestBuckets(t)
  BY <1>1 DEF FetchTestBuckets, Quiet, Others, Goto, TypeOK, memory, counters, locals, CriticalPCs
<1>2. CASE FetchLoadForInc(t)
  BY <1>2 DEF FetchLoadForInc, LoadReaders, Quiet, Others, Goto, TypeOK, memory, counters, locals, CriticalPCs
<1>3. CASE FetchStoreInc(t)
  BY <1>3 DEF FetchStoreInc, Quiet, Others, Goto, TypeOK, memory, counters, locals, CriticalPCs
<1>4. CASE FetchTestMark(t)
  BY <1>4 DEF FetchTestMark, Quiet, Others, Goto, TypeOK, memory, counters, locals, CriticalPCs
<1>5. CASE FetchLoadHead(t)
  <2>1. SUFFICES ASSUME ~Crash("use_after_free") PROVE Quiet(t)
    OBVIOUS
  <2>2. /\ pc' = [pc EXCEPT ![t] = "f_walk"]
        /\ snap' = [snap EXCEPT ![t] = chain[BucketOf[arg[t]]]]
        /\ UNCHANGED <<memory, lock, arg, acked>>
    BY <1>5, <2>1, Zenon DEF FetchLoadHead, Goto
  <2> QED BY <2>2 DEF Quiet, Others, TypeOK, memory, CriticalPCs
<1>6. CASE FetchWalk(t)
  <2>1. SUFFICES ASSUME ~Crash("use_after_free") PROVE Quiet(t)
    OBVIOUS
  <2>2. /\ pc' = [pc EXCEPT ![t] = "f_dec"]
        /\ UNCHANGED <<memory, lock, arg, snap, acked>>
    BY <1>6, <2>1, Zenon DEF FetchWalk, Goto
  <2> QED BY <2>2 DEF Quiet, Others, TypeOK, memory, CriticalPCs
<1>7. CASE FetchLoadForDec(t)
  BY <1>7 DEF FetchLoadForDec, LoadReaders, Quiet, Others, Goto, TypeOK, memory, counters, locals, CriticalPCs
<1>8. CASE FetchStoreDec(t)
  BY <1>8 DEF FetchStoreDec, Quiet, Others, Goto, TypeOK, memory, counters, locals, CriticalPCs
<1>9. CASE FetchTestLast(t)
  BY <1>9 DEF FetchTestLast, Quiet, Others, Goto, TypeOK, memory, counters, locals, CriticalPCs
<1>10. CASE FetchReturn(t)
  BY <1>10 DEF FetchReturn, Leave, Quiet, Others, Goto, TypeOK, memory, counters, locals, CriticalPCs
<1> QED BY <1>1, <1>2, <1>3, <1>4, <1>5, <1>6, <1>7, <1>8, <1>9, <1>10 DEF Fetch

(* ListInv, thread by thread. *)
ThreadInv(u) ==
  /\ pc[u] \in CriticalPCs => lock = u
  /\ pc[u] = "i_prepare" => ~FoundUnderLock(u)
  /\ pc[u] = "i_publish" => ~Contains(snap[u], arg[u]) /\ NoRepeats(snap[u])
  /\ First # NullObj =>
       /\ pc[u] # "i_alloc"
       /\ pc[u] \in {"i_prepare", "i_publish"} => ~freed
       /\ pc[u] = "i_publish" => snap[u] = chain[Hash(arg[u])]
       /\ InsertDone(u) => Settled(arg[u])

LEMMA ListInvByThread ==
  ListInv <=> /\ NoDuplicate
              /\ \A u \in Threads : ThreadInv(u)
              /\ First # NullObj => allocated /\ \A o \in acked : Settled(o)
BY DEF ListInv, LockHeld, NewNodeIsNew, WarmInv, ThreadInv

LEMMA Reassemble ==
  ASSUME NoDuplicate', \A u \in Threads : ThreadInv(u)',
         First # NullObj => allocated' /\ \A o \in acked' : Settled(o)'
  PROVE  ListInv'
BY DEF ListInv, LockHeld, NewNodeIsNew, WarmInv, ThreadInv

(* A step that leaves the lists alone, and the lock if another thread is   *)
(* in its critical section, keeps the invariant of the other threads.      *)
LEMMA OtherThreads ==
  ASSUME ListInv, NEW t \in Threads, Others(t),
         UNCHANGED <<chain, freed, version>>,
         \A v \in Threads \ {t} : pc[v] \in CriticalPCs => lock' = lock,
         NEW u \in Threads \ {t}
  PROVE  ThreadInv(u)'
<1>1. ThreadInv(u)
  BY ListInvByThread
<1>2. Settled(arg[u])' <=> Settled(arg[u])
  BY DEF Settled, Others
<1>3. InsertDone(u)' <=> InsertDone(u)
  BY DEF InsertDone, Others
<1> QED BY <1>1, <1>2, <1>3 DEF ThreadInv, Others, FoundUnderLock

(* The same for the objects whose insert has returned. *)
LEMMA ListsUntouched ==
  ASSUME ListInv, UNCHANGED <<chain, freed, version>>
  PROVE  /\ NoDuplicate'
         /\ \A o : Settled(o)' <=> Settled(o)
         /\ First # NullObj => allocated /\ \A o \in acked : Settled(o)'
BY ListInvByThread DEF NoDuplicate, Settled

(* Threads in their critical section exclude each other. *)
LEMMA CriticalSection ==
  ASSUME ListInv, NEW t \in Threads, NEW u \in Threads,
         pc[u] \in CriticalPCs, lock = t \/ pc[t] \in CriticalPCs
  PROVE  u = t
BY DEF ListInv, LockHeld

(* A free lock has no owner, so nobody is in a critical section. *)
LEMMA NoOwner ==
  ASSUME ListInv, lock = NoThread, NEW u \in Threads
  PROVE  pc[u] \notin CriticalPCs
BY DEF ListInv, LockHeld

LEMMA LinkKeepsList ==
  ASSUME NEW s \in Seq(Objs), NEW o \in Objs,
         ~Contains(s, o), NoRepeats(s)
  PROVE  /\ NoRepeats(Linked(o, s))
         /\ Contains(Linked(o, s), o)
         /\ \A x : Contains(s, x) => Contains(Linked(o, s), x)
<1>1. Len(s) \in Nat /\ DOMAIN s = 1 .. Len(s)
  BY LenProperties
<1>2. PICK n : n = Linked(o, s) /\ Extends(n, o, s)
  BY LinkedList
<1>3. ASSUME NEW i \in DOMAIN n, NEW j \in DOMAIN n, n[i] = n[j]
      PROVE  i = j
  <2>1. CASE i = 1 /\ j = 1
    BY <2>1
  <2>2. CASE i = 1 /\ j # 1
    BY <1>2, <1>3, <2>2 DEF Contains, Elems, Extends
  <2>3. CASE i # 1 /\ j = 1
    BY <1>2, <1>3, <2>3 DEF Contains, Elems, Extends
  <2>4. CASE i # 1 /\ j # 1
    <3>1. i - 1 = j - 1
      BY <1>2, <1>3, <2>4 DEF NoRepeats, Extends
    <3> QED BY <1>1, <1>2, <3>1 DEF Extends
  <2> QED BY <2>1, <2>2, <2>3, <2>4
<1>4. Contains(n, o)
  BY <1>1, <1>2 DEF Contains, Elems, Extends
<1>5. ASSUME NEW x, Contains(s, x) PROVE Contains(n, x)
  <2>1. PICK i \in DOMAIN s : s[i] = x
    BY <1>5 DEF Contains, Elems, Extends
  <2>2. i + 1 \in DOMAIN n
    BY <1>1, <1>2 DEF Extends
  <2> QED BY <1>2, <2>1, <2>2 DEF Contains, Elems, Extends
<1> QED BY <1>2, <1>3, <1>4, <1>5 DEF NoRepeats

LEMMA InsertKeepsListInv ==
  ASSUME TypeOK, ListInv, NEW t \in Threads, Insert(t)
  PROVE  ListInv'
<1> USE DEF memory, locals
<1>0. ThreadInv(t)
  BY ListInvByThread
<1>1. CASE InsertTestBuckets(t)
  <2>1. Quiet(t)
    BY <1>1 DEF InsertTestBuckets, BucketsAreNull, Quiet, Others, Goto, TypeOK,
                counters, CriticalPCs
  <2> QED BY <2>1, QuietKeepsListInv
<1>2. CASE InitializeBuckets(t)
  <2>1. /\ pc[t] = "i_alloc" /\ pc' = [pc EXCEPT ![t] = "i_head"]
        /\ allocated' = TRUE
        /\ chain' = [b \in Buckets |-> <<>>]
        /\ UNCHANGED <<lock, arg, snap, acked>>
    BY <1>2, Zenon DEF InitializeBuckets, Goto
  <2>2. First = NullObj
    BY <1>0, <2>1 DEF ThreadInv
  <2>3. NoDuplicate'
    BY <2>1 DEF NoDuplicate, NoRepeats
  <2>4. ASSUME NEW u \in Threads PROVE ThreadInv(u)'
    <3>1. pc'[u] \in CriticalPCs => pc[u] = pc'[u]
      BY <2>1 DEF TypeOK, CriticalPCs
    <3>2. pc'[u] = "i_prepare" => ~FoundUnderLock(u)'
      BY <2>1, <3>1, HashInBuckets, ProgramPoints
      DEF FoundUnderLock, Contains, Elems, TypeOK, CriticalPCs
    <3> QED BY <2>1, <2>2, <3>1, <3>2, ListInvByThread
        DEF ThreadInv, CriticalPCs
  <2> QED BY <2>2, <2>3, <2>4, Reassemble
<1>3. CASE InsertLoadHead(t)
  <2> SUFFICES ASSUME ~Crash("use_after_free") PROVE ListInv'
    BY CrashKeepsListInv
  <2>1. /\ pc[t] = "i_head" /\ pc' = [pc EXCEPT ![t] = "i_walk"]
        /\ ~freed
        /\ snap' = [snap EXCEPT ![t] = chain[Hash(arg[t])]]
        /\ UNCHANGED <<memory, lock, arg, acked>>
    BY <1>3, Zenon DEF InsertLoadHead, Goto
  <2>2. Others(t)
    BY <2>1 DEF Others, TypeOK, locals
  <2>3. ThreadInv(t)'
    BY <1>0, <2>1 DEF ThreadInv, TypeOK, CriticalPCs, InsertDone, Settled, Contains
  <2>4. \A u \in Threads \ {t} : ThreadInv(u)'
    BY <2>1, <2>2, OtherThreads DEF memory
  <2> QED BY <2>1, <2>3, <2>4, ListsUntouched, Reassemble DEF memory
<1>4. CASE InsertWalk(t)
  <2> SUFFICES ASSUME ~Crash("use_after_free") PROVE ListInv'
    BY CrashKeepsListInv
  <2>1. /\ pc[t] = "i_walk"
        /\ pc' = [pc EXCEPT ![t] = IF Contains(snap[t], arg[t]) THEN "i_ret"
                                                      ELSE "i_lock"]
        /\ UNCHANGED <<memory, lock, locals, acked>>
    BY <1>4, Zenon DEF InsertWalk, Goto
  <2>2. Others(t)
    BY <2>1 DEF Others, TypeOK, locals
  <2>3. ThreadInv(t)'
    BY <1>0, <2>1, ListsUntouched DEF ThreadInv, TypeOK, CriticalPCs, InsertDone
  <2>4. \A u \in Threads \ {t} : ThreadInv(u)'
    BY <2>1, <2>2, OtherThreads DEF memory
  <2> QED BY <2>1, <2>3, <2>4, ListsUntouched, Reassemble DEF memory
<1>5. CASE InsertLock(t)
  <2> SUFFICES ASSUME ~Crash("lock_destroyed") PROVE ListInv'
    BY CrashKeepsListInv
  <2>1. /\ pc[t] = "i_lock" /\ pc' = [pc EXCEPT ![t] = "i_recheck"]
        /\ lock = NoThread
        /\ lock' = t
        /\ UNCHANGED <<memory, locals, acked>>
    BY <1>5, Zenon DEF InsertLock, Goto, LockIsFree
  <2>2. Others(t)
    BY <2>1 DEF Others, TypeOK, locals
  <2>3. ThreadInv(t)'
    BY <1>0, <2>1, ListsUntouched DEF ThreadInv, TypeOK, CriticalPCs, InsertDone
  <2>4. \A u \in Threads \ {t} : ThreadInv(u)'
    BY <2>1, <2>2, OtherThreads, CriticalSection, NoOwner DEF memory
  <2> QED BY <2>1, <2>3, <2>4, ListsUntouched, Reassemble DEF memory
<1>6. CASE InsertRecheck(t)
  <2> SUFFICES ASSUME ~Crash("use_after_free") PROVE ListInv'
    BY CrashKeepsListInv
  <2>1. /\ pc[t] = "i_recheck"
        /\ ~freed
        /\ pc' = [pc EXCEPT ![t] = IF FoundUnderLock(t) THEN "i_unlock"
                                                       ELSE "i_prepare"]
        /\ UNCHANGED <<memory, lock, locals, acked>>
    BY <1>6, Zenon DEF InsertRecheck, Goto
  <2>2. Others(t)
    BY <2>1 DEF Others, TypeOK, locals
  <2>3. ThreadInv(t)'
    BY <1>0, <2>1 DEF ThreadInv, TypeOK, CriticalPCs, InsertDone, Settled, FoundUnderLock
  <2>4. \A u \in Threads \ {t} : ThreadInv(u)'
    BY <2>1, <2>2, OtherThreads DEF memory
  <2> QED BY <2>1, <2>3, <2>4, ListsUntouched, Reassemble DEF memory
<1>7. CASE InsertPrepare(t)
  <2>1. /\ pc[t] = "i_prepare" /\ pc' = [pc EXCEPT ![t] = "i_publish"]
        /\ snap' = [snap EXCEPT ![t] = chain[Hash(arg[t])]]
        /\ UNCHANGED <<memory, lock, arg, acked>>
    BY <1>7, Zenon DEF InsertPrepare, Goto
  <2>2. Others(t)
    BY <2>1 DEF Others, TypeOK, locals
  <2>3. ThreadInv(t)'
    <3>1. NoRepeats(chain[Hash(arg[t])]) /\ ~FoundUnderLock(t)
      BY <1>0, <2>1, ListInvByThread, HashInBuckets, ProgramPoints
      DEF NoDuplicate, ThreadInv, TypeOK
    <3> QED BY <1>0, <2>1, <3>1 DEF ThreadInv, TypeOK, CriticalPCs, InsertDone, FoundUnderLock, NoRepeats
  <2>4. \A u \in Threads \ {t} : ThreadInv(u)'
    BY <2>1, <2>2, OtherThreads DEF memory
  <2> QED BY <2>1, <2>3, <2>4, ListsUntouched, Reassemble DEF memory
<1>8. CASE InsertPublish(t)
  <2>1. /\ pc[t] = "i_publish" /\ pc' = [pc EXCEPT ![t] = "i_unlock"]
        /\ chain' = [chain EXCEPT ![Hash(arg[t])] = Linked(arg[t], snap[t])]
        /\ UNCHANGED <<allocated, freed, version, lock, arg, snap, acked>>
    BY <1>8, Zenon DEF InsertPublish, Goto
  <2> DEFINE o == arg[t]
             new == Linked(arg[t], snap[t])
  <2>2. o \in Objs /\ Hash(o) \in Buckets /\ snap[t] \in Seq(Objs)
    BY <2>1, ProgramPoints, HashInBuckets DEF TypeOK
  <2>3. NoRepeats(new) /\ Contains(new, o)
        /\ \A x : Contains(snap[t], x) => Contains(new, x)
    <3>1. ~Contains(snap[t], o) /\ NoRepeats(snap[t])
      BY <1>0, <2>1 DEF ThreadInv
    <3> QED BY <2>2, <3>1, LinkKeepsList
  <2>4. NoDuplicate'
    BY <2>1, <2>2, <2>3, ListInvByThread DEF NoDuplicate, TypeOK, NoRepeats
  <2>5. ASSUME First # NullObj, NEW x \in Objs, Settled(x) PROVE Settled(x)'
    <3>1. ~freed /\ snap[t] = chain[Hash(o)]
      BY <1>0, <2>1, <2>5 DEF ThreadInv
    <3>2. Contains(chain[Hash(x)], x)
      BY <2>5, <3>1 DEF Settled
    <3>3. Contains(chain'[Hash(x)], x)
      BY <2>1, <2>2, <2>3, <3>1, <3>2, HashInBuckets DEF TypeOK
    <3> QED BY <2>1, <3>1, <3>3 DEF Settled
  <2>6. ASSUME First # NullObj PROVE Settled(o)'
    <3>1. ~freed'
      BY <1>0, <2>1, <2>6 DEF ThreadInv
    <3>2. chain'[Hash(o)] = new
      BY <2>1, <2>2 DEF TypeOK
    <3> QED BY <2>1, <2>3, <3>1, <3>2 DEF Settled
  <2>7. ThreadInv(t)'
    BY <1>0, <2>1, <2>6 DEF ThreadInv, TypeOK, CriticalPCs
  <2>8. ASSUME NEW u \in Threads \ {t} PROVE ThreadInv(u)'
    <3>1. pc'[u] = pc[u] /\ pc[u] \notin CriticalPCs
      BY <2>1, CriticalSection DEF TypeOK, CriticalPCs
    <3>2. ThreadInv(u)
      BY ListInvByThread
    <3>3. First # NullObj /\ InsertDone(u)' => Settled(arg[u])'
      <4> SUFFICES ASSUME First # NullObj, InsertDone(u)' PROVE Settled(arg[u])'
        OBVIOUS
      <4>1. InsertDone(u) /\ Settled(arg[u])
        BY <2>1, <3>1, <3>2 DEF InsertDone, ThreadInv
      <4>2. arg[u] \in Objs
        BY <4>1, ProgramPoints DEF InsertDone, TypeOK
      <4>3. Settled(arg[u])'
        BY <2>1, <2>5, <4>1, <4>2 DEF Settled
      <4> QED BY <4>3
    <3> QED BY <3>1, <3>2, <3>3 DEF ThreadInv, CriticalPCs
  <2>9. First # NullObj => allocated' /\ \A x \in acked' : Settled(x)'
    BY <2>1, <2>5, ListInvByThread DEF TypeOK
  <2> QED BY <2>4, <2>7, <2>8, <2>9, Reassemble
<1>9. CASE InsertUnlock(t)
  <2>1. /\ pc[t] = "i_unlock" /\ pc' = [pc EXCEPT ![t] = "i_ret"]
        /\ lock' = NoThread
        /\ UNCHANGED <<memory, locals, acked>>
    BY <1>9, Zenon DEF InsertUnlock, Goto, LockReleased
  <2>2. Others(t)
    BY <2>1 DEF Others, TypeOK, locals
  <2>3. ThreadInv(t)'
    BY <1>0, <2>1, ListsUntouched DEF ThreadInv, TypeOK, CriticalPCs, InsertDone
  <2>4. \A u \in Threads \ {t} : ThreadInv(u)'
    BY <2>1, <2>2, OtherThreads, CriticalSection DEF CriticalPCs
  <2> QED BY <2>1, <2>3, <2>4, ListsUntouched, Reassemble DEF memory
<1>10. CASE InsertReturn(t)
  <2>1. /\ pc[t] = "i_ret" /\ pc' = [pc EXCEPT ![t] = "idle"]
        /\ acked' = acked \cup {arg[t]}
        /\ arg' = [arg EXCEPT ![t] = NullObj]
        /\ snap' = [snap EXCEPT ![t] = <<>>]
        /\ UNCHANGED <<memory, lock>>
    BY <1>10, Zenon DEF InsertReturn, Leave, Goto
  <2>2. Others(t)
    BY <2>1 DEF Others, TypeOK
  <2>3. ThreadInv(t)'
    BY <1>0, <2>1 DEF ThreadInv, TypeOK, CriticalPCs, InsertDone
  <2>4. \A u \in Threads \ {t} : ThreadInv(u)'
    BY <2>1, <2>2, OtherThreads
  <2>5. First # NullObj => Settled(arg[t])
    BY <1>0, <2>1 DEF ThreadInv, InsertDone
  <2>6. First # NullObj => allocated' /\ \A o \in acked' : Settled(o)'
    BY <2>1, <2>5, ListsUntouched
  <2> QED BY <2>1, <2>3, <2>4, <2>6, ListsUntouched, Reassemble
<1> QED BY <1>1, <1>2, <1>3, <1>4, <1>5, <1>6, <1>7, <1>8, <1>9, <1>10 DEF Insert

LEMMA DestroyKeepsListInv ==
  ASSUME TypeOK, ListInv, NEW t \in Threads, Destroy(t)
  PROVE  ListInv'
<1> USE DEF memory, locals
<1>0. ThreadInv(t)
  BY ListInvByThread
<1>1. CASE SetMark(t)
  <2>1. Quiet(t)
    BY <1>1 DEF SetMark, Quiet, Others, Goto, TypeOK, counters, CriticalPCs
  <2> QED BY <2>1, QuietKeepsListInv
<1>2. CASE MarkTestReaders(t)
  <2>1. Quiet(t)
    BY <1>2 DEF MarkTestReaders, Quiet, Others, Goto, TypeOK, counters, CriticalPCs
  <2> QED BY <2>1, QuietKeepsListInv
<1>3. CASE DeallocLock(t)
  <2> SUFFICES ASSUME ~Crash("lock_destroyed") PROVE ListInv'
    BY CrashKeepsListInv
  <2>1. /\ pc[t] = "d_lock" /\ pc' = [pc EXCEPT ![t] = "d_sweep"]
        /\ lock = NoThread
        /\ lock' = t
        /\ UNCHANGED <<memory, locals, acked>>
    BY <1>3, Zenon DEF DeallocLock, Goto, LockIsFree
  <2>2. Others(t)
    BY <2>1 DEF Others, TypeOK, locals
  <2>3. ThreadInv(t)'
    BY <2>1 DEF ThreadInv, TypeOK, CriticalPCs, InsertDone
  <2>4. \A u \in Threads \ {t} : ThreadInv(u)'
    BY <2>1, <2>2, OtherThreads, NoOwner DEF memory
  <2> QED BY <2>1, <2>3, <2>4, ListsUntouched, Reassemble DEF memory
<1>4. CASE DeallocSweep(t)
  <2> SUFFICES ASSUME ~(Crash("null_buckets") \/ Crash("double_free"))
               PROVE  ListInv'
    BY CrashKeepsListInv
  <2>1. /\ pc[t] = "d_sweep" /\ pc' = [pc EXCEPT ![t] = "d_unlock"]
        /\ allocated /\ ~freed /\ freed' = TRUE
        /\ version' = Bumped
        /\ chain' = [b \in Buckets |-> <<>>]
        /\ UNCHANGED <<allocated, lock, arg, snap, acked>>
    BY <1>4, Zenon DEF DeallocSweep, Goto
  <2>2. NoDuplicate'
    BY <2>1 DEF NoDuplicate, NoRepeats
  <2>3. ASSUME NEW o \in Objs, Settled(o) PROVE Settled(o)'
    <3>1. o \in Present
      <4>1. o \in Elems(chain[Hash(o)])
        BY <2>1, <2>3 DEF Settled, Contains
      <4> QED BY <4>1, HashInBuckets DEF Present
    <3>2. IsCache => version'[o] = version[o] + 1
      BY <2>1, <3>1 DEF Bumped
    <3>3. version[o] \in Nat
      BY DEF TypeOK
    <3>4. IsCache => version'[o] > 0
      BY <3>2, <3>3
    <3> QED BY <2>1, <3>4 DEF Settled
  <2>4. ThreadInv(t)'
    BY <1>0, <2>1 DEF ThreadInv, TypeOK, CriticalPCs, InsertDone
  <2>5. ASSUME NEW u \in Threads \ {t} PROVE ThreadInv(u)'
    <3>1. pc'[u] = pc[u] /\ pc[u] \notin CriticalPCs
      BY <2>1, CriticalSection DEF TypeOK, CriticalPCs
    <3>2. ThreadInv(u)
      BY ListInvByThread
    <3>3. First # NullObj /\ InsertDone(u)' => Settled(arg[u])'
      <4> SUFFICES ASSUME First # NullObj, InsertDone(u)' PROVE Settled(arg[u])'
        OBVIOUS
      <4>1. InsertDone(u) /\ Settled(arg[u])
        BY <2>1, <3>1, <3>2 DEF InsertDone, ThreadInv
      <4>2. arg[u] \in Objs
        BY <4>1, ProgramPoints DEF InsertDone, TypeOK
      <4>3. Settled(arg[u])'
        BY <2>1, <2>3, <4>1, <4>2 DEF Settled
      <4> QED BY <4>3
    <3> QED BY <3>1, <3>2, <3>3 DEF ThreadInv, CriticalPCs
  <2>6. First # NullObj => allocated' /\ \A o \in acked' : Settled(o)'
    BY <2>1, <2>3, ListInvByThread DEF TypeOK
  <2> QED BY <2>2, <2>4, <2>5, <2>6, Reassemble
<1>5. CASE DeallocUnlock(t)
  <2>1. /\ pc[t] = "d_unlock" /\ pc' = [pc EXCEPT ![t] = "d_destroy"]
        /\ lock' = NoThread
        /\ UNCHANGED <<memory, locals, acked>>
    BY <1>5, Zenon DEF DeallocUnlock, Goto, LockReleased
  <2>2. Others(t)
    BY <2>1 DEF Others, TypeOK, locals
  <2>3. ThreadInv(t)'
    BY <2>1 DEF ThreadInv, TypeOK, CriticalPCs, InsertDone
  <2>4. \A u \in Threads \ {t} : ThreadInv(u)'
    BY <2>1, <2>2, OtherThreads, CriticalSection DEF CriticalPCs
  <2> QED BY <2>1, <2>3, <2>4, ListsUntouched, Reassemble DEF memory
<1>6. CASE DeallocDestroyLock(t)
  <2> SUFFICES ASSUME ~Crash("lock_destroyed") PROVE ListInv'
    BY CrashKeepsListInv
  <2>1. /\ pc' = [pc EXCEPT ![t] = "idle"]
        /\ lock = NoThread
        /\ arg' = [arg EXCEPT ![t] = NullObj]
        /\ snap' = [snap EXCEPT ![t] = <<>>]
        /\ UNCHANGED <<memory, acked>>
    BY <1>6, Zenon DEF DeallocDestroyLock, Leave, Goto
  <2>2. Others(t)
    BY <2>1 DEF Others, TypeOK
  <2>3. ThreadInv(t)'
    BY <2>1 DEF ThreadInv, TypeOK, CriticalPCs, InsertDone
  <2>4. \A u \in Threads \ {t} : ThreadInv(u)'
    BY <2>1, <2>2, OtherThreads, NoOwner
  <2> QED BY <2>1, <2>3, <2>4, ListsUntouched, Reassemble
<1> QED BY <1>1, <1>2, <1>3, <1>4, <1>5, <1>6 DEF Destroy

LEMMA ListInvInit == Init => ListInv
<1> SUFFICES ASSUME Init PROVE ListInv
  OBVIOUS
<1>1. LockHeld /\ NewNodeIsNew
  BY DEF Init, LockHeld, NewNodeIsNew, CriticalPCs
<1>2. NoDuplicate
  BY DEF Init, NoDuplicate, NoRepeats
<1>3. ASSUME First # NullObj PROVE WarmInv
  <2>1. First \in Objs /\ Hash(First) \in Buckets
    BY <1>3, HashInBuckets
  <2>2. chain[Hash(First)] = <<First>>
    BY <1>3, <2>1 DEF Init
  <2>3. Contains(chain[Hash(First)], First)
    BY <2>2 DEF Contains, Elems
  <2>4. \A o \in acked : Settled(o)
    BY <1>3, <2>3 DEF Init, Settled
  <2>5. allocated /\ \A t \in Threads : pc[t] = "idle"
    BY <1>3 DEF Init
  <2> QED BY <2>4, <2>5 DEF WarmInv, InsertDone
<1> QED BY <1>1, <1>2, <1>3 DEF ListInv

LEMMA ListInvInductive == TypeOK /\ ListInv /\ [Next]_vars => ListInv'
<1> SUFFICES ASSUME TypeOK, ListInv, [Next]_vars PROVE ListInv'
  OBVIOUS
<1>1. ASSUME NEW t \in Threads, Step(t) PROVE ListInv'
  <2>1. CASE Insert(t)
    BY <2>1, InsertKeepsListInv
  <2>2. CASE Fetch(t)
    BY <2>2, FetchIsQuiet, QuietKeepsListInv, CrashKeepsListInv
  <2>3. CASE Destroy(t)
    BY <2>3, DestroyKeepsListInv
  <2> QED BY <1>1, <2>1, <2>2, <2>3 DEF Step
<1>2. ASSUME NEW t \in Threads, Begin(t) PROVE ListInv'
  BY <1>2, BeginIsQuiet, QuietKeepsListInv
<1>3. CASE UNCHANGED vars
  BY <1>3, UnchangedKeepsListInv DEF vars, memory, locals
<1> QED BY <1>1, <1>2, <1>3 DEF Next

LEMMA ListInvAlways == Spec => []ListInv
<1>1. Init => ListInv
  BY ListInvInit
<1>2. TypeOK /\ ListInv /\ [Next]_vars => ListInv'
  BY ListInvInductive
<1> QED BY <1>1, <1>2, TypeCorrect, PTL DEF Spec

(* However many threads insert the same object at once, it is linked once. *)
THEOREM NeverLinkedTwice == Spec => []NoDuplicate
<1>1. ListInv => NoDuplicate
  BY DEF ListInv
<1> QED BY <1>1, ListInvAlways, PTL

(* Once the buckets exist, an object whose insert has returned stays       *)
(* reachable however many threads insert beside it, and the deallocation   *)
(* of a cache bumps the version of every such method.                      *)
THEOREM InsertsAreKept ==
  ASSUME First # NullObj PROVE Spec => []AckedReachable
<1>1. TypeOK /\ ListInv => AckedReachable
  <2> SUFFICES ASSUME TypeOK, ListInv PROVE AckedReachable
    OBVIOUS
  <2>1. \A o \in acked : o \in Objs /\ Settled(o)
    BY ListInvByThread DEF TypeOK
  <2>2. CASE freed
    BY <2>1, <2>2 DEF AckedReachable, Settled
  <2>3. CASE ~freed
    <3>1. ASSUME NEW o \in acked PROVE o \in Present
      <4>1. o \in Elems(chain[Hash(o)]) /\ Hash(o) \in Buckets
        BY <2>1, <2>3, HashInBuckets DEF Settled, Contains
      <4> QED BY <4>1 DEF Present
    <3> QED BY <2>3, <3>1 DEF AckedReachable
  <2> QED BY <2>2, <2>3
<1> QED BY <1>1, TypeCorrect, ListInvAlways, PTL

-----------------------------------------------------------------------------
(* One thread that looks things up, whoever inserts and destroys beside    *)
(* it: the plain ++readers and --readers count it exactly, and the holder  *)
(* is not freed while it reads.  With two, neither holds (HolderCounter,   *)
(* HolderLateReader).                                                      *)

ReadingPCs == {"f_head", "f_walk", "f_dec", "f_decst"}
CountedPCs == {"f_mark"} \cup ReadingPCs
UncountedPCs == {"f_buckets", "f_inc", "f_incst", "f_last", "f_ret"}
Frees == freed \/ \E t \in Threads : pc[t] \in FreePCs

OneReader(f) ==
  /\ \A t \in Threads \ {f} : pc[t] \notin FetchPCs
  /\ \A t \in Threads : pc[t] = "m_mark" => ~published
  /\ \A t \in Threads : pc[t] = "m_check" => mark
  /\ mark => ~published
  /\ pc[f] \in CountedPCs => readers = 1
  /\ pc[f] \in UncountedPCs \/ (~mark /\ pc[f] \notin CountedPCs) => readers = 0
  /\ pc[f] = "f_incst" => tmp[f] = 0
  /\ pc[f] = "f_decst" => tmp[f] = 1
  /\ Frees => mark /\ pc[f] \notin ReadingPCs

LEMMA FetchPCsAre ==
  /\ FetchPCs = CountedPCs \cup UncountedPCs
  /\ CountedPCs \cap UncountedPCs = {} /\ ReadingPCs \subseteq CountedPCs
  /\ \A l \in FreePCs \cup MarkPCs \cup InsertPCs \cup {"idle"} :
       l \notin CountedPCs /\ l \notin UncountedPCs
BY DEF FetchPCs, CountedPCs, UncountedPCs, ReadingPCs, FreePCs, MarkPCs, InsertPCs

LEMMA CountsToOne == (0 + 1) % ReaderMod = 1 /\ OneLess(1) = 0
<1>1. PICK m \in Nat \ {0, 1} : m = ReaderMod
  BY HolderAssumption
<1>2. (0 + 1) % m = 1
  BY <1>1
<1>3. (1 + m - 1) % m = 0
  <2>1. 1 + m - 1 = m
    BY <1>1
  <2>2. m % m = 0
    BY <1>1
  <2> QED BY <2>1, <2>2
<1> QED BY <1>1, <1>2, <1>3 DEF OneLess

LEMMA OneReaderInit == ASSUME NEW f \in Threads, Init PROVE OneReader(f)
<1>1. \A t \in Threads : pc[t] = "idle"
  BY DEF Init
<1>2. ~freed /\ readers = 0 /\ ~mark
  BY DEF Init
<1>3. "idle" \notin FetchPCs /\ "idle" \notin FreePCs /\ "idle" \notin CountedPCs
                             /\ "idle" \notin ReadingPCs
  BY DEF FetchPCs, FreePCs, CountedPCs, ReadingPCs
<1> QED BY <1>1, <1>2, <1>3 DEF OneReader, Frees

LEMMA OneReaderStays ==
  ASSUME NEW f \in Threads, OneReader(f), UNCHANGED <<freed, counters, pc, tmp>>
  PROVE  OneReader(f)'
BY DEF OneReader, Frees, counters

(* A step of another call: no look-up, no destruction. *)
LEMMA AwayKeepsReader ==
  ASSUME TypeOK, NEW f \in Threads, OneReader(f), NEW t \in Threads,
         NEW l \in InsertPCs \cup {"idle"}, pc' = [pc EXCEPT ![t] = l],
         pc[t] \notin FetchPCs, UNCHANGED <<freed, counters>>,
         \A u \in Threads \ {t} : tmp'[u] = tmp[u]
  PROVE  OneReader(f)'
<1>1. /\ pc'[t] = l /\ \A u \in Threads \ {t} : pc'[u] = pc[u]
  BY DEF TypeOK
<1>2. /\ l \notin FetchPCs /\ l \notin FreePCs /\ l \notin CountedPCs
      /\ l \notin UncountedPCs /\ l \notin ReadingPCs
      /\ l \notin {"m_mark", "m_check", "f_incst", "f_decst"}
  BY FetchPCsAre, ProgramPoints DEF InsertPCs, FreePCs, FetchPCs
<1>3. Frees' => Frees
  BY <1>1, <1>2 DEF Frees
<1>4. pc[t] \notin CountedPCs
  BY FetchPCsAre
<1>5. CASE t = f
  BY <1>1, <1>2, <1>3, <1>4, <1>5 DEF OneReader, counters
<1>6. CASE t # f
  BY <1>1, <1>2, <1>3, <1>6 DEF OneReader, counters
<1> QED BY <1>5, <1>6

LEMMA InsertKeepsReader ==
  ASSUME TypeOK, NEW f \in Threads, OneReader(f), NEW t \in Threads, Insert(t)
  PROVE  OneReader(f)'
<1>1. CASE Crash("use_after_free") \/ Crash("lock_destroyed")
  BY <1>1, OneReaderStays DEF Crash, memory, locals
<1>2. CASE ~(Crash("use_after_free") \/ Crash("lock_destroyed"))
  <2>1. pc[t] \in InsertPCs
    BY Zenon DEF Insert, InsertTestBuckets, InitializeBuckets, InsertLoadHead, InsertWalk,
                 InsertLock, InsertRecheck, InsertPrepare, InsertPublish, InsertUnlock,
                 InsertReturn, InsertPCs
  <2>2. \E l \in {"i_alloc", "i_head", "i_walk", "i_lock", "i_recheck", "i_prepare",
                  "i_publish", "i_unlock", "i_ret", "idle"} : pc' = [pc EXCEPT ![t] = l]
    BY <1>2, Zenon DEF Insert, InsertTestBuckets, InitializeBuckets, InsertLoadHead, InsertWalk,
                 InsertLock, InsertRecheck, InsertPrepare, InsertPublish, InsertUnlock,
                 InsertReturn, Leave, Goto
  <2>3. UNCHANGED <<freed, counters>>
    BY <1>2, Zenon DEF Insert, InsertTestBuckets, InitializeBuckets, InsertLoadHead, InsertWalk,
                 InsertLock, InsertRecheck, InsertPrepare, InsertPublish, InsertUnlock,
                 InsertReturn, memory
  <2>4. tmp' = tmp \/ tmp' = [tmp EXCEPT ![t] = 0]
    BY <1>2, Zenon DEF Insert, InsertTestBuckets, InitializeBuckets, InsertLoadHead, InsertWalk,
                 InsertLock, InsertRecheck, InsertPrepare, InsertPublish, InsertUnlock,
                 InsertReturn, Leave, locals
  <2>5. pc[t] \notin FetchPCs
    BY <2>1, ProgramPoints
  <2>6. \A u \in Threads \ {t} : tmp'[u] = tmp[u]
    BY <2>4 DEF TypeOK
  <2>7. PICK l \in InsertPCs \cup {"idle"} : pc' = [pc EXCEPT ![t] = l]
    BY <2>2 DEF InsertPCs
  <2> QED BY <2>3, <2>5, <2>6, <2>7, AwayKeepsReader
<1> QED BY <1>1, <1>2

(* Where the one reader is, and where it goes. *)
LEMMA ReaderGoes ==
  ASSUME TypeOK, NEW f \in Threads, OneReader(f), NEW l, pc' = [pc EXCEPT ![f] = l],
         l \notin MarkPCs, UNCHANGED <<freed, mark, published>>,
         l \in CountedPCs => readers' = 1,
         l \in UncountedPCs \/ (~mark /\ l \notin CountedPCs) => readers' = 0,
         l = "f_incst" => tmp'[f] = 0,
         l = "f_decst" => tmp'[f] = 1,
         l \in FreePCs => mark,
         l \in ReadingPCs => pc[f] \in ReadingPCs \/ ~mark
  PROVE  OneReader(f)'
<1>1. pc'[f] = l /\ \A u \in Threads \ {f} : pc'[u] = pc[u]
  BY DEF TypeOK
<1>2. Frees' => Frees \/ l \in FreePCs
  BY <1>1 DEF Frees
<1>3. l \in FreePCs => l \notin ReadingPCs
  BY DEF FreePCs, ReadingPCs
<1>4. l \notin {"m_mark", "m_check"}
  BY DEF MarkPCs
<1> QED BY <1>1, <1>2, <1>3, <1>4 DEF OneReader

LEMMA FetchKeepsReader ==
  ASSUME TypeOK, NEW f \in Threads, OneReader(f), NEW t \in Threads, Fetch(t)
  PROVE  OneReader(f)'
<1>0. pc[t] \in FetchPCs
  BY Zenon DEF Fetch, FetchTestBuckets, FetchLoadForInc, FetchStoreInc, FetchTestMark,
               FetchLoadHead, FetchWalk, FetchLoadForDec, FetchStoreDec, FetchTestLast,
               FetchReturn, FetchPCs
<1>1. t = f
  BY <1>0 DEF OneReader
<1> USE DEF CountedPCs, UncountedPCs, ReadingPCs, MarkPCs, FreePCs
<1>2. CASE Crash("use_after_free")
  BY <1>2, OneReaderStays DEF Crash, memory, locals
<1>3. CASE FetchTestBuckets(f)
  <2>1. /\ pc[f] = "f_buckets" /\ UNCHANGED <<freed, counters>>
        /\ \E l \in {"f_inc", "f_ret"} : pc' = [pc EXCEPT ![f] = l]
    BY <1>3, Zenon DEF FetchTestBuckets, Goto, memory
  <2> QED BY <2>1, ReaderGoes DEF OneReader, counters
<1>4. CASE FetchLoadForInc(f)
  <2>1. /\ pc[f] = "f_inc" /\ pc' = [pc EXCEPT ![f] = "f_incst"]
        /\ UNCHANGED <<freed, counters>> /\ tmp' = [tmp EXCEPT ![f] = readers]
    BY <1>4 DEF FetchLoadForInc, LoadReaders, Goto, memory
  <2>2. readers = 0 /\ tmp'[f] = 0
    BY <2>1 DEF OneReader, TypeOK
  <2>3. /\ "f_incst" \notin MarkPCs /\ "f_incst" \notin FreePCs
        /\ "f_incst" \notin CountedPCs
        /\ "f_incst" # "f_decst" /\ "f_incst" \notin ReadingPCs
    BY <2>1
  <2> HIDE DEF CountedPCs, UncountedPCs, ReadingPCs, MarkPCs, FreePCs
  <2> QED BY <2>1, <2>2, <2>3, ReaderGoes DEF counters
<1>5. CASE FetchStoreInc(f)
  <2>1. /\ pc[f] = "f_incst" /\ pc' = [pc EXCEPT ![f] = "f_mark"]
        /\ UNCHANGED <<freed, mark, published>> /\ readers' = (tmp[f] + 1) % ReaderMod
    BY <1>5 DEF FetchStoreInc, Goto, memory
  <2>2. readers' = 1
    BY <2>1, CountsToOne DEF OneReader
  <2>3. /\ "f_mark" \notin MarkPCs /\ "f_mark" \notin FreePCs
        /\ "f_mark" \in CountedPCs
        /\ "f_mark" \notin UncountedPCs \cup ReadingPCs \cup {"f_incst", "f_decst"}
    BY <2>1
  <2> HIDE DEF CountedPCs, UncountedPCs, ReadingPCs, MarkPCs, FreePCs
  <2> QED BY <2>1, <2>2, <2>3, ReaderGoes DEF counters
<1>6. CASE FetchTestMark(f)
  <2>1. /\ pc[f] = "f_mark" /\ UNCHANGED <<freed, counters>>
        /\ \/ mark /\ pc' = [pc EXCEPT ![f] = "d_lock"]
           \/ ~mark /\ pc' = [pc EXCEPT ![f] = "f_head"]
    BY <1>6, Zenon DEF FetchTestMark, Goto, memory
  <2>2. readers = 1 /\ (mark => ~published)
    BY <2>1 DEF OneReader
  <2> QED BY <2>1, <2>2, ReaderGoes DEF counters
<1>7. CASE FetchLoadHead(f) \/ FetchWalk(f)
  <2> SUFFICES ASSUME ~Crash("use_after_free") PROVE OneReader(f)'
    BY <1>2
  <2>1. /\ pc[f] \in {"f_head", "f_walk"} /\ UNCHANGED <<freed, counters>>
        /\ \E l \in {"f_walk", "f_dec"} : pc' = [pc EXCEPT ![f] = l]
    BY <1>7, Zenon DEF FetchLoadHead, FetchWalk, Goto, memory
  <2>2. readers = 1
    BY <2>1 DEF OneReader
  <2> QED BY <2>1, <2>2, ReaderGoes DEF counters
<1>8. CASE FetchLoadForDec(f)
  <2>1. /\ pc[f] = "f_dec" /\ pc' = [pc EXCEPT ![f] = "f_decst"]
        /\ UNCHANGED <<freed, counters>> /\ tmp' = [tmp EXCEPT ![f] = readers]
    BY <1>8 DEF FetchLoadForDec, LoadReaders, Goto, memory
  <2>2. readers = 1 /\ tmp'[f] = 1
    BY <2>1 DEF OneReader, TypeOK
  <2>3. /\ "f_decst" \notin MarkPCs /\ "f_decst" \notin FreePCs
        /\ "f_decst" \in CountedPCs
        /\ pc[f] \in ReadingPCs /\ "f_decst" \notin UncountedPCs \cup {"f_incst"}
    BY <2>1
  <2> HIDE DEF CountedPCs, UncountedPCs, ReadingPCs, MarkPCs, FreePCs
  <2> QED BY <2>1, <2>2, <2>3, ReaderGoes DEF counters
<1>9. CASE FetchStoreDec(f)
  <2>1. /\ pc[f] = "f_decst" /\ pc' = [pc EXCEPT ![f] = "f_last"]
        /\ UNCHANGED <<freed, mark, published>> /\ readers' = OneLess(tmp[f])
    BY <1>9 DEF FetchStoreDec, Goto, memory
  <2>2. readers' = 0
    BY <2>1, CountsToOne DEF OneReader
  <2>3. /\ "f_last" \notin MarkPCs /\ "f_last" \notin FreePCs
        /\ "f_last" \notin CountedPCs
        /\ "f_last" \notin ReadingPCs \cup {"f_incst", "f_decst"}
    BY <2>1
  <2> HIDE DEF CountedPCs, UncountedPCs, ReadingPCs, MarkPCs, FreePCs
  <2> QED BY <2>1, <2>2, <2>3, ReaderGoes DEF counters
<1>10. CASE FetchTestLast(f)
  <2>1. /\ pc[f] = "f_last" /\ UNCHANGED <<freed, counters>>
        /\ \/ mark /\ pc' = [pc EXCEPT ![f] = "d_lock"]
           \/ pc' = [pc EXCEPT ![f] = "f_ret"]
    BY <1>10, Zenon DEF FetchTestLast, LastReader, Goto, memory
  <2>2. readers = 0
    BY <2>1 DEF OneReader
  <2> QED BY <2>1, <2>2, ReaderGoes DEF counters
<1>11. CASE FetchReturn(f)
  <2>1. /\ pc[f] = "f_ret" /\ UNCHANGED <<freed, counters>>
        /\ pc' = [pc EXCEPT ![f] = "idle"]
    BY <1>11 DEF FetchReturn, Leave, Goto, memory
  <2>2. readers = 0
    BY <2>1 DEF OneReader
  <2>3. /\ "idle" \notin MarkPCs /\ "idle" \notin FreePCs
        /\ "idle" \notin CountedPCs
        /\ "idle" \notin ReadingPCs \cup {"f_incst", "f_decst"}
    BY <2>1
  <2> HIDE DEF CountedPCs, UncountedPCs, ReadingPCs, MarkPCs, FreePCs
  <2> QED BY <2>1, <2>2, <2>3, ReaderGoes DEF counters
<1> QED BY <1>1, <1>3, <1>4, <1>5, <1>6, <1>7, <1>8, <1>9, <1>10, <1>11 DEF Fetch

LEMMA DestroyKeepsReader ==
  ASSUME TypeOK, NEW f \in Threads, OneReader(f), NEW t \in Threads, Destroy(t)
  PROVE  OneReader(f)'
<1> USE DEF MarkPCs, FreePCs
<1>0. /\ \A l \in FreePCs \cup MarkPCs \cup {"idle"} :
           l \notin CountedPCs /\ l \notin UncountedPCs /\ l \notin ReadingPCs /\ l \notin FetchPCs
      /\ ReadingPCs \subseteq CountedPCs
  BY FetchPCsAre
<1>1. CASE \E kind \in Faults : Crash(kind)
  BY <1>1, OneReaderStays DEF Crash, memory, locals
<1>2. CASE SetMark(t)
  <2>1. /\ pc[t] = "m_mark" /\ pc' = [pc EXCEPT ![t] = "m_check"] /\ mark' = TRUE
        /\ UNCHANGED <<freed, readers, published, tmp>>
    BY <1>2 DEF SetMark, Goto, memory, locals
  <2>2. pc'[t] = "m_check" /\ ~published /\ \A u \in Threads \ {t} : pc'[u] = pc[u]
    BY <2>1 DEF OneReader, TypeOK
  <2>3. Frees' => Frees
    BY <2>1, <2>2 DEF Frees
  <2>4. CASE t = f
    BY <1>0, <2>1, <2>2, <2>3, <2>4 DEF OneReader
  <2>5. CASE t # f
    BY <1>0, <2>1, <2>2, <2>3, <2>5 DEF OneReader
  <2> QED BY <2>4, <2>5
<1>3. CASE MarkTestReaders(t)
  <2>1. /\ pc[t] = "m_check"
        /\ \/ readers = 0 /\ pc' = [pc EXCEPT ![t] = "d_lock"]
           \/ pc' = [pc EXCEPT ![t] = "idle"]
        /\ UNCHANGED <<freed, readers, mark, published, tmp>>
    BY <1>3, Zenon DEF MarkTestReaders, NoReaders, Goto, memory, locals, counters
  <2>2. /\ pc'[t] \in {"d_lock", "idle"} /\ \A u \in Threads \ {t} : pc'[u] = pc[u]
        /\ mark /\ ~published
    BY <2>1 DEF OneReader, TypeOK
  <2>3. Frees' => Frees \/ readers = 0
    BY <2>1, <2>2 DEF Frees, TypeOK
  <2>4. CASE t = f
    BY <1>0, <2>1, <2>2, <2>3, <2>4 DEF OneReader
  <2>5. CASE t # f
    BY <1>0, <2>1, <2>2, <2>3, <2>5 DEF OneReader
  <2> QED BY <2>4, <2>5
<1>4. CASE DeallocLock(t) \/ DeallocSweep(t) \/ DeallocUnlock(t) \/ DeallocDestroyLock(t)
  <2> SUFFICES ASSUME ~\E kind \in Faults : Crash(kind) PROVE OneReader(f)'
    BY <1>1
  <2>1. ~Crash("lock_destroyed") /\ ~Crash("null_buckets") /\ ~Crash("double_free")
    BY DEF Faults
  <2>2. /\ pc[t] \in FreePCs
        /\ \E l \in {"d_sweep", "d_unlock", "d_destroy", "idle"} : pc' = [pc EXCEPT ![t] = l]
        /\ UNCHANGED counters
        /\ tmp' = tmp \/ tmp' = [tmp EXCEPT ![t] = 0]
    BY <1>4, <2>1, Zenon DEF DeallocLock, DeallocSweep, DeallocUnlock, DeallocDestroyLock,
                             Leave, Goto, locals
  <2>3. /\ \E l \in {"d_sweep", "d_unlock", "d_destroy", "idle"} : pc'[t] = l
        /\ \A u \in Threads \ {t} : pc'[u] = pc[u] /\ tmp'[u] = tmp[u]
    BY <2>2 DEF TypeOK
  <2>4. mark /\ ~published /\ pc[f] \notin ReadingPCs
    BY <2>2 DEF OneReader, Frees
  <2>5. CASE t = f
    BY <1>0, <2>2, <2>3, <2>4, <2>5 DEF OneReader, counters
  <2>6. CASE t # f
    BY <1>0, <2>2, <2>3, <2>4, <2>6 DEF OneReader, counters
  <2> QED BY <2>5, <2>6
<1> QED BY <1>2, <1>3, <1>4 DEF Destroy

LEMMA BeginKeepsReader ==
  ASSUME TypeOK, NEW f \in Threads, Fetchers \subseteq {f}, OneReader(f),
         NEW t \in Threads, Begin(t)
  PROVE  OneReader(f)'
<1>0. "idle" \notin FetchPCs /\ "idle" \notin CountedPCs
  BY DEF FetchPCs, CountedPCs, ReadingPCs
<1>1. ASSUME NEW o \in Objs, BeginInsert(t, o) PROVE OneReader(f)'
  <2>1. /\ pc[t] = "idle" /\ pc' = [pc EXCEPT ![t] = "i_buckets"]
        /\ UNCHANGED <<freed, counters, tmp>>
    BY <1>1 DEF BeginInsert, Goto, memory
  <2> QED BY <1>0, <2>1, AwayKeepsReader DEF InsertPCs
<1>2. ASSUME NEW k \in Keys, BeginFetch(t, k) PROVE OneReader(f)'
  <2>1. /\ pc[t] = "idle" /\ pc' = [pc EXCEPT ![t] = "f_buckets"] /\ t = f /\ published
        /\ UNCHANGED <<freed, counters, tmp>>
    BY <1>2 DEF BeginFetch, Goto, memory
  <2>2. readers = 0
    BY <1>0, <2>1 DEF OneReader
  <2>3. /\ "f_buckets" \notin MarkPCs /\ "f_buckets" \notin FreePCs
        /\ "f_buckets" \notin CountedPCs
        /\ "f_buckets" \notin ReadingPCs \cup {"f_incst", "f_decst"}
    BY DEF CountedPCs, ReadingPCs, MarkPCs, FreePCs
  <2> QED BY <2>1, <2>2, <2>3, ReaderGoes DEF counters
<1>3. CASE BeginDestroy(t)
  <2>1. /\ pc[t] = "idle" /\ pc' = [pc EXCEPT ![t] = "m_mark"] /\ published' = FALSE
        /\ UNCHANGED <<freed, readers, mark, tmp>>
    BY <1>3 DEF BeginDestroy, Goto, memory, locals
  <2>2. pc'[t] = "m_mark" /\ \A u \in Threads \ {t} : pc'[u] = pc[u]
    BY <2>1 DEF TypeOK
  <2>3. /\ "m_mark" \notin FetchPCs /\ "m_mark" \notin CountedPCs
        /\ "m_mark" \notin UncountedPCs /\ "m_mark" \notin ReadingPCs /\ "m_mark" \notin FreePCs
    BY DEF FetchPCs, CountedPCs, UncountedPCs, ReadingPCs, FreePCs
  <2>4. Frees' => Frees
    BY <2>1, <2>2, <2>3 DEF Frees
  <2>5. CASE t = f
    BY <1>0, <2>1, <2>2, <2>3, <2>4, <2>5 DEF OneReader
  <2>6. CASE t # f
    BY <2>1, <2>2, <2>3, <2>4, <2>6 DEF OneReader
  <2> QED BY <2>5, <2>6
<1> QED BY <1>1, <1>2, <1>3 DEF Begin

LEMMA OneReaderAlways ==
  ASSUME NEW f \in Threads, Fetchers \subseteq {f} PROVE Spec => []OneReader(f)
<1>1. Init => OneReader(f)
  BY OneReaderInit
<1>2. TypeOK /\ OneReader(f) /\ [Next]_vars => OneReader(f)'
  <2> SUFFICES ASSUME TypeOK, OneReader(f), [Next]_vars PROVE OneReader(f)'
    OBVIOUS
  <2>1. ASSUME NEW t \in Threads, Step(t) PROVE OneReader(f)'
    BY <2>1, InsertKeepsReader, FetchKeepsReader, DestroyKeepsReader DEF Step
  <2>2. ASSUME NEW t \in Threads, Begin(t) PROVE OneReader(f)'
    BY <2>2, BeginKeepsReader
  <2>3. CASE UNCHANGED vars
    BY <2>3, OneReaderStays DEF vars, memory, locals
  <2> QED BY <2>1, <2>2, <2>3 DEF Next
<1> QED BY <1>1, <1>2, TypeCorrect, PTL DEF Spec

(* holder.c:232: the mark, and the test of readers after it, keep the      *)
(* lists of a single reader until it is done, whatever thread destroys the *)
(* holder and wherever the reader is when it does.                         *)
THEOREM ReaderIsWaitedFor ==
  ASSUME NEW f \in Threads, Fetchers \subseteq {f} PROVE Spec => []ReaderKeepsMemory
<1>1. OneReader(f) => ReaderKeepsMemory
  <2> SUFFICES ASSUME OneReader(f), NEW t \in Threads, pc[t] \in ReadingPCs PROVE ~freed
    BY DEF ReaderKeepsMemory, ReadingPCs
  <2>1. t = f
    BY FetchPCsAre DEF OneReader
  <2> QED BY <2>1 DEF OneReader, Frees
<1> QED BY <1>1, OneReaderAlways, PTL

-----------------------------------------------------------------------------
(* A holder whose buckets exist and that nobody destroys is the atomic one *)
(* of AtomicHolder.                                                        *)

EarlyPCs == {"idle", "f_buckets", "f_inc", "f_incst", "f_mark", "f_head", "f_walk"}
AnsweredPCs == {"f_walk", "f_dec", "f_decst", "f_last", "f_ret"}

(* What the refinement needs beyond ListInv: an object is in the bucket of *)
(* its hash, and a look-up has no result before it has walked.             *)
Extra ==
  /\ ~mark /\ ~freed
  /\ \A t \in Threads : pc[t] \notin MarkPCs \cup FreePCs
  /\ \A t \in Threads : pc[t] \in EarlyPCs => res[t] = NullObj
  /\ \A b \in Buckets : \A o \in Elems(chain[b]) : Hash(o) = b

call == [t \in Threads |-> AbstractCall(t)]
Moves == Abstract!Next \/ UNCHANGED Abstract!vars

Rec(op, a, d, r) == [op |-> op, arg |-> a, done |-> d, res |-> r]
Nothing == Rec("none", NullObj, FALSE, NullObj)

(* The call of a thread that is at l, with its locals. *)
Shows(c, l, a, s, r) ==
  /\ l \notin InsertPCs \cup FetchPCs => c = Nothing
  /\ l \in InsertPCs \ {"i_walk", "i_unlock", "i_ret"} => c = Rec("insert", a, FALSE, NullObj)
  /\ l \in {"i_unlock", "i_ret"} => c = Rec("insert", a, TRUE, NullObj)
  /\ l = "i_walk" => c = Rec("insert", a, Contains(s, a), NullObj)
  /\ l \in FetchPCs \ AnsweredPCs => c = Rec("fetch", a, FALSE, r)
  /\ l = "f_walk" => c = Rec("fetch", a, TRUE, Lookup(s, a))
  /\ l \in AnsweredPCs \ {"f_walk"} => c = Rec("fetch", a, TRUE, r)

LEMMA PointsAre ==
  /\ \A l \in {"i_walk", "i_unlock", "i_ret"} : l \in InsertPCs
  /\ \A l \in AnsweredPCs : l \in FetchPCs
  /\ InsertPCs \cap FetchPCs = {}
BY DEF InsertPCs, FetchPCs, AnsweredPCs

CallAt(l, a, s, r) ==
  IF l \in InsertPCs
  THEN Rec("insert", a, l \in {"i_unlock", "i_ret"} \/ (l = "i_walk" /\ Contains(s, a)), NullObj)
  ELSE IF l \in FetchPCs
  THEN Rec("fetch", a, l \in AnsweredPCs, IF l = "f_walk" THEN Lookup(s, a) ELSE r)
  ELSE Nothing

LEMMA CallIs ==
  ASSUME NEW l, NEW a, NEW s, NEW r
  PROVE  Shows(CallAt(l, a, s, r), l, a, s, r)
<1> DEFINE c == CallAt(l, a, s, r)
<1>1. ASSUME l \notin InsertPCs \cup FetchPCs PROVE c = Nothing
  BY <1>1 DEF CallAt
<1>2. ASSUME l \in InsertPCs \ {"i_walk", "i_unlock", "i_ret"}
      PROVE  c = Rec("insert", a, FALSE, NullObj)
  <2>1. (l \in {"i_unlock", "i_ret"} \/ (l = "i_walk" /\ Contains(s, a))) = FALSE
    BY <1>2
  <2> QED BY <1>2, <2>1 DEF CallAt
<1>3. ASSUME l \in {"i_unlock", "i_ret"} PROVE c = Rec("insert", a, TRUE, NullObj)
  <2>1. l \in InsertPCs
    BY <1>3, PointsAre
  <2>2. (l \in {"i_unlock", "i_ret"} \/ (l = "i_walk" /\ Contains(s, a))) = TRUE
    BY <1>3
  <2> QED BY <2>1, <2>2 DEF CallAt
<1>4. ASSUME l = "i_walk" PROVE c = Rec("insert", a, Contains(s, a), NullObj)
  <2>1. l \in InsertPCs
    BY <1>4, PointsAre
  <2>2. (l \in {"i_unlock", "i_ret"} \/ (l = "i_walk" /\ Contains(s, a))) = Contains(s, a)
    BY <1>4 DEF Contains
  <2> QED BY <2>1, <2>2 DEF CallAt
<1>5. ASSUME l \in FetchPCs \ AnsweredPCs PROVE c = Rec("fetch", a, FALSE, r)
  <2>1. l \notin InsertPCs /\ l # "f_walk"
    BY <1>5, PointsAre DEF AnsweredPCs
  <2>2. (l \in AnsweredPCs) = FALSE
    BY <1>5
  <2> QED BY <1>5, <2>1, <2>2 DEF CallAt
<1>6. ASSUME l \in AnsweredPCs
      PROVE  c = Rec("fetch", a, TRUE, IF l = "f_walk" THEN Lookup(s, a) ELSE r)
  <2>1. l \in FetchPCs /\ l \notin InsertPCs
    BY <1>6, PointsAre
  <2>2. (l \in AnsweredPCs) = TRUE
    BY <1>6
  <2> QED BY <2>1, <2>2 DEF CallAt
<1>7. "f_walk" \in AnsweredPCs
  BY DEF AnsweredPCs
<1> HIDE DEF c
<1>8. Shows(c, l, a, s, r)
  BY <1>1, <1>2, <1>3, <1>4, <1>5, <1>6, <1>7 DEF Shows
<1> QED BY <1>8 DEF c

LEMMA TheCall ==
  \A t : /\ Shows(AbstractCall(t), pc[t], arg[t], snap[t], res[t])
         /\ Shows(AbstractCall(t)', pc'[t], arg'[t], snap'[t], res'[t])
<1> TAKE t
<1>1. AbstractCall(t) = CallAt(pc[t], arg[t], snap[t], res[t])
  BY DEF AbstractCall, AbstractInsert, AbstractFetch, InsertDone, CallAt, Rec, Nothing,
         AnsweredPCs
<1>2. AbstractCall(t)' = CallAt(pc'[t], arg'[t], snap'[t], res'[t])
  BY DEF AbstractCall, AbstractInsert, AbstractFetch, InsertDone, CallAt, Rec, Nothing,
         AnsweredPCs, Contains, Lookup, IsFirstWithKey
<1> QED BY <1>1, <1>2, CallIs

LEMMA SameCall ==
  ASSUME NEW t, pc'[t] = pc[t], arg'[t] = arg[t], snap'[t] = snap[t], res'[t] = res[t]
  PROVE  AbstractCall(t)' = AbstractCall(t)
BY DEF AbstractCall, AbstractInsert, AbstractFetch, InsertDone, Contains, Lookup, IsFirstWithKey

(* The steps of the abstract holder, by what happens to the call of t.     *)
LEMMA AbsInit == Init => Abstract!Init
<1> SUFFICES ASSUME Init PROVE Abstract!Init
  OBVIOUS
<1>1. \A t \in Threads : AbstractCall(t) = Abstract!NoCall
  <2>1. "idle" \notin InsertPCs \cup FetchPCs
    BY ProgramPoints
  <2>2. \A t \in Threads : AbstractCall(t) = Nothing
    BY <2>1, TheCall DEF Shows, Init
  <2> QED BY <2>2 DEF Nothing, Rec, Abstract!NoCall
<1>2. Present \in SUBSET Objs
  <2>1. TypeOK
    BY TypeInit
  <2> QED BY <2>1, ElemsAreObjects DEF Present, TypeOK
<1> QED BY <1>1, <1>2 DEF Abstract!Init

LEMMA AbsStutter ==
  ASSUME \A u \in Threads : AbstractCall(u)' = AbstractCall(u), Present' = Present
  PROVE  Moves
BY DEF Moves, Abstract!vars

LEMMA AbsBegin ==
  ASSUME NEW t \in Threads, NEW op, NEW a,
         \/ op = "insert" /\ a \in Objs
         \/ op = "fetch" /\ a \in Keys,
         \A u \in Threads \ {t} : AbstractCall(u)' = AbstractCall(u),
         AbstractCall(t) = Nothing,
         AbstractCall(t)' = Rec(op, a, FALSE, NullObj),
         Present' = Present
  PROVE  Moves
<1>1. call[t] = Abstract!NoCall
  BY DEF call, Nothing, Rec, Abstract!NoCall
<1>2. call' = [call EXCEPT ![t] = Rec(op, a, FALSE, NullObj)]
  BY DEF call
<1>3. CASE op = "insert" /\ a \in Objs
  <2>1. Abstract!BeginInsert(t, a)
    BY <1>1, <1>2, <1>3, Zenon DEF Abstract!BeginInsert, call, Rec
  <2> QED BY <1>3, <2>1 DEF Moves, Abstract!Next
<1>4. CASE op = "fetch" /\ a \in Keys
  <2>1. Abstract!BeginFetch(t, a)
    BY <1>1, <1>2, <1>4, Zenon DEF Abstract!BeginFetch, call, Rec
  <2> QED BY <1>4, <2>1 DEF Moves, Abstract!Next
<1> QED BY <1>3, <1>4

LEMMA AbsReturn ==
  ASSUME NEW t \in Threads, NEW op, NEW a, NEW r,
         \A u \in Threads \ {t} : AbstractCall(u)' = AbstractCall(u),
         AbstractCall(t) = Rec(op, a, TRUE, r),
         AbstractCall(t)' = Nothing,
         Present' = Present
  PROVE  Moves
<1>1. call[t].done
  BY DEF call, Rec
<1>2. call' = [call EXCEPT ![t] = Abstract!NoCall]
  BY DEF call, Nothing, Rec, Abstract!NoCall
<1>3. Abstract!Return(t)
  BY <1>1, <1>2, Zenon DEF Abstract!Return, call
<1> QED BY <1>3 DEF Moves, Abstract!Next

LEMMA AbsEnds ==
  ASSUME NEW t \in Threads, NEW op, NEW a, NEW r,
         \A u \in Threads \ {t} : AbstractCall(u)' = AbstractCall(u),
         AbstractCall(t) = Rec(op, a, FALSE, NullObj),
         AbstractCall(t)' = Rec(op, a, TRUE, r)
  PROVE  Abstract!Ended(t, r) /\ call[t].op = op /\ ~call[t].done /\ call[t].arg = a
<1>1. call[t].op = op /\ ~call[t].done /\ call[t].arg = a
  BY DEF call, Rec
<1>2. call' = [call EXCEPT ![t] = Rec(op, a, TRUE, r)]
  BY DEF call
<1>3. call' = [call EXCEPT ![t] = [op |-> call[t].op, arg |-> call[t].arg,
                                   done |-> TRUE, res |-> r]]
  BY <1>1, <1>2, Zenon DEF Rec
<1>4. Abstract!Ended(t, r)
  BY <1>3, Zenon DEF Abstract!Ended, call
<1> QED BY <1>1, <1>4

LEMMA AbsInsert ==
  ASSUME NEW t \in Threads, NEW a,
         \A u \in Threads \ {t} : AbstractCall(u)' = AbstractCall(u),
         AbstractCall(t) = Rec("insert", a, FALSE, NullObj),
         AbstractCall(t)' = Rec("insert", a, TRUE, NullObj),
         Present' = Present \cup {a}
  PROVE  Moves
<1>1. Abstract!Ended(t, NullObj) /\ call[t].op = "insert" /\ ~call[t].done /\ call[t].arg = a
  BY AbsEnds
<1>2. Abstract!ApplyInsert(t)
  BY <1>1, Zenon DEF Abstract!ApplyInsert, call
<1> QED BY <1>2 DEF Moves, Abstract!Next, Abstract!Apply

LEMMA AbsFetch ==
  ASSUME NEW t \in Threads, NEW k, NEW r,
         \A u \in Threads \ {t} : AbstractCall(u)' = AbstractCall(u),
         AbstractCall(t) = Rec("fetch", k, FALSE, NullObj),
         AbstractCall(t)' = Rec("fetch", k, TRUE, r),
         r \in Abstract!Answers(Present, k), Present' = Present
  PROVE  Moves
<1>1. Abstract!Ended(t, r) /\ call[t].op = "fetch" /\ ~call[t].done /\ call[t].arg = k
  BY AbsEnds
<1>2. Abstract!ApplyFetch(t)
  BY <1>1, Zenon DEF Abstract!ApplyFetch, call
<1> QED BY <1>2 DEF Moves, Abstract!Next, Abstract!Apply

(* The call of a thread by its place, before and after a step.             *)
OpenPCs == {"i_buckets", "i_head", "i_lock", "i_recheck", "i_prepare", "i_publish"}
AskedPCs == {"f_buckets", "f_inc", "f_incst", "f_mark", "f_head"}
EndedPCs == {"f_dec", "f_decst", "f_last", "f_ret"}

ByPlace(c, l, a, s, r) ==
  /\ l = "idle" => c = Nothing
  /\ l \in OpenPCs => c = Rec("insert", a, FALSE, NullObj)
  /\ l = "i_walk" => c = Rec("insert", a, Contains(s, a), NullObj)
  /\ l \in {"i_unlock", "i_ret"} => c = Rec("insert", a, TRUE, NullObj)
  /\ l \in AskedPCs => c = Rec("fetch", a, FALSE, r)
  /\ l = "f_walk" => c = Rec("fetch", a, TRUE, Lookup(s, a))
  /\ l \in EndedPCs => c = Rec("fetch", a, TRUE, r)

LEMMA PlacesAre ==
  /\ "idle" \notin InsertPCs \cup FetchPCs
  /\ OpenPCs \subseteq InsertPCs \ {"i_walk", "i_unlock", "i_ret"}
  /\ AskedPCs \subseteq FetchPCs \ AnsweredPCs
  /\ EndedPCs \subseteq AnsweredPCs \ {"f_walk"}
BY DEF OpenPCs, AskedPCs, EndedPCs, InsertPCs, FetchPCs, AnsweredPCs

LEMMA ShownByPlace ==
  ASSUME NEW c, NEW l, NEW a, NEW s, NEW r, Shows(c, l, a, s, r)
  PROVE  ByPlace(c, l, a, s, r)
BY PlacesAre DEF Shows, ByPlace

LEMMA CallByPlace ==
  \A t : /\ ByPlace(AbstractCall(t), pc[t], arg[t], snap[t], res[t])
         /\ ByPlace(AbstractCall(t)', pc'[t], arg'[t], snap'[t], res'[t])
BY TheCall, ShownByPlace

Alone(t) == \A u \in Threads \ {t} : /\ pc'[u] = pc[u] /\ arg'[u] = arg[u]
                                     /\ snap'[u] = snap[u] /\ res'[u] = res[u]

AtWork(l, r) == l \notin MarkPCs \cup FreePCs /\ (l \in EarlyPCs => r = NullObj)

LEMMA OthersAsBefore ==
  ASSUME NEW t, Alone(t)
  PROVE  \A u \in Threads \ {t} : AbstractCall(u)' = AbstractCall(u)
BY SameCall DEF Alone

LEMMA ExtraKept ==
  ASSUME Extra, NEW t \in Threads, Alone(t), UNCHANGED <<chain, mark, freed>>,
         AtWork(pc'[t], res'[t])
  PROVE  Extra' /\ Present' = Present
<1>1. Present' = Present
  BY DEF Present
<1>2. \A u \in Threads : pc'[u] \notin MarkPCs \cup FreePCs /\ (pc'[u] \in EarlyPCs => res'[u] = NullObj)
  BY DEF Extra, Alone, AtWork
<1> QED BY <1>1, <1>2 DEF Extra, Elems

(* A step after which the call is where it was.                            *)
LEMMA Stutters ==
  ASSUME Extra, NEW t \in Threads, Alone(t), UNCHANGED <<chain, mark, freed>>,
         AtWork(pc'[t], res'[t]), AbstractCall(t)' = AbstractCall(t)
  PROVE  Extra' /\ Moves
<1>1. Extra' /\ Present' = Present
  BY ExtraKept
<1>2. \A u \in Threads : AbstractCall(u)' = AbstractCall(u)
  BY OthersAsBefore
<1> QED BY <1>1, <1>2, AbsStutter

LEMMA CrashStutters ==
  ASSUME Extra, NEW kind, Crash(kind) PROVE Extra' /\ Moves
<1>1. UNCHANGED <<chain, freed, mark, pc, arg, snap, res>>
  BY DEF Crash, memory, counters, locals
<1>2. Extra' /\ Present' = Present
  BY <1>1 DEF Extra, Present, Elems
<1>3. \A u \in Threads : AbstractCall(u)' = AbstractCall(u)
  BY <1>1, SameCall
<1> QED BY <1>2, <1>3, AbsStutter

LEMMA PlacesAtWork ==
  /\ \A r : \A l \in InsertPCs \cup EndedPCs : AtWork(l, r)
  /\ \A l \in AskedPCs \cup {"idle", "f_walk"} : AtWork(l, NullObj)
BY DEF AtWork, InsertPCs, EndedPCs, AskedPCs, EarlyPCs, MarkPCs, FreePCs

(* A step of an insert that changes pc and snap only, with the effect on   *)
(* the call left to show.                                                  *)
LEMMA InsertStays ==
  ASSUME TypeOK, Extra, NEW t \in Threads, NEW l \in InsertPCs,
         pc' = [pc EXCEPT ![t] = l], UNCHANGED <<chain, mark, freed, arg, res>>,
         \A u \in Threads \ {t} : snap'[u] = snap[u]
  PROVE  /\ Alone(t) /\ Extra' /\ Present' = Present /\ pc'[t] = l
         /\ AbstractCall(t)' = AbstractCall(t) => Moves
<1>1. pc'[t] = l /\ Alone(t)
  BY DEF Alone, TypeOK
<1>2. AtWork(pc'[t], res'[t])
  BY <1>1, PlacesAtWork
<1>3. Extra' /\ Present' = Present
  BY <1>1, <1>2, ExtraKept
<1> QED BY <1>1, <1>2, <1>3, Stutters

(* The step at which an insert takes effect on an object that is there.    *)
LEMMA InsertFinds ==
  ASSUME NEW t \in Threads, Alone(t), Present' = Present, arg[t] \in Present,
         arg'[t] = arg[t],
         AbstractCall(t) = Rec("insert", arg[t], FALSE, NullObj),
         AbstractCall(t)' = Rec("insert", arg[t], TRUE, NullObj)
  PROVE  Moves
<1>1. Present' = Present \cup {arg[t]}
  OBVIOUS
<1> QED BY <1>1, OthersAsBefore, AbsInsert

LEMMA CallReturns ==
  ASSUME TypeOK, Extra, NEW t \in Threads, NEW op, NEW a, NEW r, Leave(t),
         UNCHANGED <<chain, mark, freed>>, AbstractCall(t) = Rec(op, a, TRUE, r)
  PROVE  Extra' /\ Moves
<1>1. /\ pc' = [pc EXCEPT ![t] = "idle"]
      /\ arg' = [arg EXCEPT ![t] = NullObj]
      /\ snap' = [snap EXCEPT ![t] = <<>>]
      /\ res' = [res EXCEPT ![t] = NullObj]
  BY DEF Leave, Goto
<1>2. pc'[t] = "idle" /\ res'[t] = NullObj /\ Alone(t)
  BY <1>1 DEF Alone, TypeOK
<1>3. AtWork(pc'[t], res'[t])
  BY <1>2, PlacesAtWork
<1>4. Extra' /\ Present' = Present
  BY <1>2, <1>3, ExtraKept
<1>5. AbstractCall(t)' = Nothing
  BY <1>2, CallByPlace DEF ByPlace
<1>6. \A u \in Threads \ {t} : AbstractCall(u)' = AbstractCall(u)
  BY <1>2, OthersAsBefore
<1>7. Moves
  BY ONLY <1>4, <1>5, <1>6, AbstractCall(t) = Rec(op, a, TRUE, r), t \in Threads, AbsReturn
<1> QED BY <1>4, <1>7

LEMMA PublishLinks ==
  ASSUME TypeOK, Extra, NEW b \in Buckets, NEW o \in Objs, Hash(o) = b,
         chain' = [chain EXCEPT ![b] = Linked(o, chain[b])]
  PROVE  /\ Present' = Present \cup {o}
         /\ \A c \in Buckets : \A x \in Elems(chain'[c]) : Hash(x) = c
<1>1. chain[b] \in Seq(Objs)
  BY DEF TypeOK
<1>2. Elems(Linked(o, chain[b])) = Elems(chain[b]) \cup {o}
  <2>1. PICK s \in Seq(Objs) : s = chain[b]
    BY <1>1
  <2>2. PICK n : n = Linked(o, s) /\ Extends(n, o, s)
    BY LinkedList
  <2>3. Len(s) \in Nat /\ DOMAIN s = 1 .. Len(s)
    BY LenProperties
  <2>4. \A x \in Elems(n) : x \in Elems(s) \cup {o}
    BY <2>2 DEF Extends, Elems
  <2>5. o \in Elems(n)
    BY <2>2, <2>3 DEF Extends, Elems
  <2>6. \A x \in Elems(s) : x \in Elems(n)
    <3> SUFFICES ASSUME NEW i \in DOMAIN s PROVE s[i] \in Elems(n)
      BY DEF Elems
    <3>1. i + 1 \in DOMAIN n /\ n[i + 1] = s[i]
      BY <2>2, <2>3 DEF Extends
    <3> QED BY <3>1 DEF Elems
  <2> QED BY <2>1, <2>2, <2>4, <2>5, <2>6
<1>3. \A c \in Buckets :
        Elems(chain'[c]) = IF c = b THEN Elems(chain[b]) \cup {o} ELSE Elems(chain[c])
  BY <1>2 DEF TypeOK
<1>4. Present' = UNION {Elems(chain'[c]) : c \in Buckets}
  BY DEF Present, Elems
<1>5. Present' = Present \cup {o}
  BY <1>3, <1>4 DEF Present
<1> QED BY <1>3, <1>5 DEF Extra

LEMMA InsertMoves ==
  ASSUME First # NullObj, TypeOK, ListInv, Extra, NEW t \in Threads, Insert(t)
  PROVE  Extra' /\ Moves
<1> USE DEF memory, locals, counters
<1> USE ProgramPoints
<1> USE DEF OpenPCs
<1>0. ThreadInv(t) /\ ~freed
  BY ListInvByThread DEF Extra
<1>1. CASE InsertTestBuckets(t)
  <2>1. allocated
    BY ListInvByThread
  <2>2. /\ pc[t] = "i_buckets" /\ pc' = [pc EXCEPT ![t] = "i_head"]
        /\ UNCHANGED <<chain, mark, freed, arg, snap, res>>
    BY <1>1, <2>1 DEF InsertTestBuckets, BucketsAreNull, Goto
  <2>3. /\ AbstractCall(t)' = AbstractCall(t) => Moves
        /\ Extra' /\ pc'[t] = "i_head"
    BY <2>2, InsertStays
  <2> QED BY <2>2, <2>3, CallByPlace DEF ByPlace
<1>2. CASE InitializeBuckets(t)
  BY <1>0, <1>2 DEF InitializeBuckets, ThreadInv
<1>3. CASE InsertLoadHead(t)
  <2>1. /\ pc[t] = "i_head" /\ pc' = [pc EXCEPT ![t] = "i_walk"]
        /\ snap' = [snap EXCEPT ![t] = chain[Hash(arg[t])]]
        /\ UNCHANGED <<chain, mark, freed, arg, res>>
    BY <1>0, <1>3, Zenon DEF InsertLoadHead, Goto
  <2>2. \A u \in Threads \ {t} : snap'[u] = snap[u]
    BY <2>1 DEF TypeOK
  <2>3. snap'[t] = chain[Hash(arg[t])] /\ arg[t] \in Objs
    BY <2>1 DEF TypeOK
  <2>4. /\ Alone(t) /\ Extra' /\ Present' = Present /\ pc'[t] = "i_walk"
        /\ AbstractCall(t)' = AbstractCall(t) => Moves
    BY <2>1, <2>2, InsertStays
  <2>5. /\ AbstractCall(t) = Rec("insert", arg[t], FALSE, NullObj)
        /\ AbstractCall(t)' = Rec("insert", arg[t], Contains(snap'[t], arg[t]), NullObj)
    BY <2>1, <2>4, CallByPlace DEF ByPlace
  <2>6. CASE Contains(snap'[t], arg[t])
    <3>1. arg[t] \in Present
      BY <2>3, <2>6, HashInBuckets DEF Contains, Present
    <3>2. Contains(snap'[t], arg[t]) = TRUE
      BY <2>6 DEF Contains
    <3> QED BY <2>1, <2>4, <2>5, <3>1, <3>2, InsertFinds
  <2>7. CASE ~Contains(snap'[t], arg[t])
    <3>1. Contains(snap'[t], arg[t]) = FALSE
      BY <2>7
    <3> QED BY <2>4, <2>5, <3>1
  <2> QED BY <2>6, <2>7
<1>4. CASE InsertWalk(t)
  <2>1. /\ pc[t] = "i_walk"
        /\ pc' = [pc EXCEPT ![t] = IF Contains(snap[t], arg[t]) THEN "i_ret" ELSE "i_lock"]
        /\ UNCHANGED <<chain, mark, freed, arg, snap, res>>
    BY <1>0, <1>4, Zenon DEF InsertWalk, Goto
  <2>2. AbstractCall(t) = Rec("insert", arg[t], Contains(snap[t], arg[t]), NullObj)
    BY <2>1, CallByPlace DEF ByPlace
  <2>3. CASE Contains(snap[t], arg[t])
    <3>1. /\ AbstractCall(t)' = AbstractCall(t) => Moves
          /\ Extra' /\ pc'[t] = "i_ret"
      BY <2>1, <2>3, InsertStays
    <3>2. Contains(snap[t], arg[t]) = TRUE
      BY <2>3 DEF Contains
    <3> QED BY <2>1, <2>2, <3>1, <3>2, CallByPlace DEF ByPlace
  <2>4. CASE ~Contains(snap[t], arg[t])
    <3>1. /\ AbstractCall(t)' = AbstractCall(t) => Moves
          /\ Extra' /\ pc'[t] = "i_lock"
      BY <2>1, <2>4, InsertStays
    <3>2. Contains(snap[t], arg[t]) = FALSE
      BY <2>4
    <3> QED BY <2>1, <2>2, <3>1, <3>2, CallByPlace DEF ByPlace
  <2> QED BY <2>3, <2>4
<1>5. CASE InsertLock(t)
  <2> SUFFICES ASSUME ~Crash("lock_destroyed") PROVE Extra' /\ Moves
    BY CrashStutters
  <2>1. /\ pc[t] = "i_lock" /\ pc' = [pc EXCEPT ![t] = "i_recheck"]
        /\ UNCHANGED <<chain, mark, freed, arg, snap, res>>
    BY <1>5, Zenon DEF InsertLock, Goto
  <2>2. /\ AbstractCall(t)' = AbstractCall(t) => Moves
        /\ Extra' /\ pc'[t] = "i_recheck"
    BY <2>1, InsertStays
  <2> QED BY <2>1, <2>2, CallByPlace DEF ByPlace
<1>6. CASE InsertRecheck(t)
  <2>1. /\ pc[t] = "i_recheck"
        /\ pc' = [pc EXCEPT ![t] = IF FoundUnderLock(t) THEN "i_unlock" ELSE "i_prepare"]
        /\ UNCHANGED <<chain, mark, freed, arg, snap, res>>
    BY <1>0, <1>6, Zenon DEF InsertRecheck, Goto
  <2>2. AbstractCall(t) = Rec("insert", arg[t], FALSE, NullObj)
    BY <2>1, CallByPlace DEF ByPlace
  <2>3. CASE FoundUnderLock(t)
    <3>1. Extra' /\ Alone(t) /\ Present' = Present /\ pc'[t] = "i_unlock"
      BY <2>1, <2>3, InsertStays
    <3>2. arg[t] \in Present
      <4>1. arg[t] \in Objs
        BY <2>1 DEF TypeOK
      <4> QED BY <2>3, <4>1, HashInBuckets DEF FoundUnderLock, Contains, Present
    <3>3. AbstractCall(t)' = Rec("insert", arg[t], TRUE, NullObj)
      BY <2>1, <3>1, CallByPlace DEF ByPlace
    <3> QED BY <2>1, <2>2, <3>1, <3>2, <3>3, InsertFinds
  <2>4. CASE ~FoundUnderLock(t)
    <3>1. /\ AbstractCall(t)' = AbstractCall(t) => Moves
          /\ Extra' /\ pc'[t] = "i_prepare"
      BY <2>1, <2>4, InsertStays
    <3> QED BY <2>1, <2>2, <3>1, CallByPlace DEF ByPlace
  <2> QED BY <2>3, <2>4
<1>7. CASE InsertPrepare(t)
  <2>1. /\ pc[t] = "i_prepare" /\ pc' = [pc EXCEPT ![t] = "i_publish"]
        /\ snap' = [snap EXCEPT ![t] = chain[Hash(arg[t])]]
        /\ UNCHANGED <<chain, mark, freed, arg, res>>
    BY <1>7, Zenon DEF InsertPrepare, Goto
  <2>2. \A u \in Threads \ {t} : snap'[u] = snap[u]
    BY <2>1 DEF TypeOK
  <2>3. /\ AbstractCall(t)' = AbstractCall(t) => Moves
        /\ Extra' /\ pc'[t] = "i_publish"
    BY <2>1, <2>2, InsertStays
  <2> QED BY <2>1, <2>3, CallByPlace DEF ByPlace
<1>8. CASE InsertPublish(t)
  <2>1. /\ pc[t] = "i_publish" /\ pc' = [pc EXCEPT ![t] = "i_unlock"]
        /\ chain' = [chain EXCEPT ![Hash(arg[t])] = Linked(arg[t], snap[t])]
        /\ UNCHANGED <<mark, freed, arg, snap, res>>
    BY <1>8, Zenon DEF InsertPublish, Goto
  <2>2. arg[t] \in Objs /\ Hash(arg[t]) \in Buckets
    BY <2>1, HashInBuckets DEF TypeOK
  <2>3. snap[t] = chain[Hash(arg[t])]
    BY <1>0, <2>1 DEF ThreadInv
  <2>4. /\ Present' = Present \cup {arg[t]}
        /\ \A c \in Buckets : \A x \in Elems(chain'[c]) : Hash(x) = c
    BY <2>1, <2>2, <2>3, PublishLinks
  <2>5. pc'[t] = "i_unlock" /\ Alone(t)
    BY <2>1 DEF Alone, TypeOK
  <2>6. /\ AbstractCall(t) = Rec("insert", arg[t], FALSE, NullObj)
        /\ AbstractCall(t)' = Rec("insert", arg[t], TRUE, NullObj)
    BY <2>1, <2>5, CallByPlace DEF ByPlace
  <2>7. Moves
    BY <2>4, <2>5, <2>6, OthersAsBefore, AbsInsert
  <2>8. AtWork(pc'[t], res'[t])
    BY <2>5, PlacesAtWork
  <2>9. Extra'
    <3>1. \A u \in Threads : AtWork(pc'[u], res'[u])
      BY <2>5, <2>8 DEF Extra, Alone, AtWork
    <3> QED BY <2>1, <2>4, <3>1 DEF Extra, AtWork, Elems
  <2> QED BY <2>7, <2>9
<1>9. CASE InsertUnlock(t)
  <2>1. /\ pc[t] = "i_unlock" /\ pc' = [pc EXCEPT ![t] = "i_ret"]
        /\ UNCHANGED <<chain, mark, freed, arg, snap, res>>
    BY <1>9, Zenon DEF InsertUnlock, Goto
  <2>2. /\ AbstractCall(t)' = AbstractCall(t) => Moves
        /\ Extra' /\ pc'[t] = "i_ret"
    BY <2>1, InsertStays
  <2> QED BY <2>1, <2>2, CallByPlace DEF ByPlace
<1>10. CASE InsertReturn(t)
  <2>1. /\ pc[t] = "i_ret" /\ Leave(t) /\ UNCHANGED <<chain, mark, freed>>
    BY <1>10 DEF InsertReturn
  <2>2. AbstractCall(t) = Rec("insert", arg[t], TRUE, NullObj)
    BY <2>1, CallByPlace DEF ByPlace
  <2> QED BY <2>1, <2>2, CallReturns
<1> QED BY <1>1, <1>2, <1>3, <1>4, <1>5, <1>6, <1>7, <1>8, <1>9, <1>10 DEF Insert

(* What a look-up finds in the bucket of its key is an answer for all that *)
(* is in the holder.                                                       *)
LEMMA BucketAnswers ==
  ASSUME TypeOK, Extra, NEW k \in Keys
  PROVE  Lookup(chain[BucketOf[k]], k) \in Abstract!Answers(Present, k)
<1> DEFINE M == {o \in Present : KeyOf[o] = k}
<1>1. Abstract!Answers(Present, k) = IF M = {} THEN {NullObj} ELSE M
  BY DEF Abstract!Answers
<1>2. PICK s \in Seq(Objs) : s = chain[BucketOf[k]]
  BY DEF TypeOK
<1>3. Elems(s) \subseteq Present
  BY <1>2 DEF Present
<1>4. CASE \E i \in DOMAIN s : KeyOf[s[i]] = k
  <2>1. Lookup(s, k) \in Elems(s) /\ KeyOf[Lookup(s, k)] = k
    BY <1>4, LookupFinds
  <2>2. Lookup(s, k) \in M
    BY <1>3, <2>1
  <2> QED BY <1>1, <1>2, <2>2
<1>5. CASE ~\E i \in DOMAIN s : KeyOf[s[i]] = k
  <2>1. Lookup(s, k) = NullObj
    BY <1>5, LookupFinds
  <2>2. M = {}
    <3> SUFFICES ASSUME NEW o \in Present, KeyOf[o] = k PROVE FALSE
      OBVIOUS
    <3>1. PICK b \in Buckets : o \in Elems(chain[b])
      BY DEF Present
    <3>2. Hash(o) = b
      BY <3>1 DEF Extra
    <3>3. o \in Elems(s)
      BY <1>2, <3>1, <3>2 DEF Hash
    <3> QED BY <1>5, <3>3 DEF Elems
  <2> QED BY <1>1, <1>2, <2>1, <2>2
<1> QED BY <1>4, <1>5

(* A step of a look-up that changes pc, snap and its result, with the      *)
(* effect on the call left to show.                                        *)
LEMMA FetchStays ==
  ASSUME TypeOK, Extra, NEW t \in Threads, NEW l \in AskedPCs \cup EndedPCs \cup {"f_walk"},
         pc' = [pc EXCEPT ![t] = l], UNCHANGED <<chain, mark, freed, arg>>,
         \A u \in Threads \ {t} : snap'[u] = snap[u] /\ res'[u] = res[u],
         l \notin EndedPCs => res'[t] = NullObj
  PROVE  /\ Alone(t) /\ Extra' /\ Present' = Present /\ pc'[t] = l
         /\ AbstractCall(t)' = AbstractCall(t) => Moves
<1>1. pc'[t] = l /\ Alone(t)
  BY DEF Alone, TypeOK
<1>2. AtWork(pc'[t], res'[t])
  BY <1>1, PlacesAtWork
<1>3. Extra' /\ Present' = Present
  BY <1>1, <1>2, ExtraKept
<1> QED BY <1>1, <1>2, <1>3, Stutters

(* A step within the look-up, before its answer or after it.               *)
LEMMA FetchWithin ==
  ASSUME TypeOK, Extra, NEW t \in Threads, NEW l,
         \/ pc[t] \in AskedPCs /\ l \in AskedPCs
         \/ pc[t] \in EndedPCs /\ l \in EndedPCs,
         pc' = [pc EXCEPT ![t] = l], UNCHANGED <<chain, mark, freed, arg, snap, res>>
  PROVE  Extra' /\ Moves
<1>1. l \notin EndedPCs => res'[t] = NullObj
  BY DEF Extra, EarlyPCs, AskedPCs
<1>2. /\ Extra' /\ pc'[t] = l
      /\ AbstractCall(t)' = AbstractCall(t) => Moves
  BY <1>1, FetchStays
<1>3. /\ ByPlace(AbstractCall(t), pc[t], arg[t], snap[t], res[t])
      /\ ByPlace(AbstractCall(t)', pc'[t], arg'[t], snap'[t], res'[t])
  BY CallByPlace
<1>4. CASE pc[t] \in AskedPCs /\ l \in AskedPCs
  BY <1>2, <1>3, <1>4 DEF ByPlace
<1>5. CASE pc[t] \in EndedPCs /\ l \in EndedPCs
  BY <1>2, <1>3, <1>5 DEF ByPlace
<1> QED BY <1>4, <1>5

LEMMA FetchMoves ==
  ASSUME First # NullObj, TypeOK, ListInv, Extra, NEW t \in Threads, Fetch(t)
  PROVE  Extra' /\ Moves
<1> USE DEF memory, locals, counters
<1>0. ~freed /\ ~mark
  BY DEF Extra
<1>1. CASE FetchTestBuckets(t)
  <2>1. allocated
    BY ListInvByThread
  <2>2. /\ pc[t] = "f_buckets" /\ pc' = [pc EXCEPT ![t] = "f_inc"]
        /\ UNCHANGED <<chain, mark, freed, arg, snap, res>>
    BY <1>1, <2>1 DEF FetchTestBuckets, Goto
  <2> QED BY <2>2, FetchWithin DEF AskedPCs
<1>2. CASE FetchLoadForInc(t)
  <2>1. /\ pc[t] = "f_inc" /\ pc' = [pc EXCEPT ![t] = "f_incst"]
        /\ UNCHANGED <<chain, mark, freed, arg, snap, res>>
    BY <1>2 DEF FetchLoadForInc, LoadReaders, Goto
  <2> QED BY <2>1, FetchWithin DEF AskedPCs
<1>3. CASE FetchStoreInc(t)
  <2>1. /\ pc[t] = "f_incst" /\ pc' = [pc EXCEPT ![t] = "f_mark"]
        /\ UNCHANGED <<chain, mark, freed, arg, snap, res>>
    BY <1>3 DEF FetchStoreInc, Goto
  <2> QED BY <2>1, FetchWithin DEF AskedPCs
<1>4. CASE FetchTestMark(t)
  <2>1. /\ pc[t] = "f_mark" /\ pc' = [pc EXCEPT ![t] = "f_head"]
        /\ UNCHANGED <<chain, mark, freed, arg, snap, res>>
    BY <1>0, <1>4 DEF FetchTestMark, Goto
  <2> QED BY <2>1, FetchWithin DEF AskedPCs
<1>5. CASE FetchLoadHead(t)
  <2>1. /\ pc[t] = "f_head" /\ pc' = [pc EXCEPT ![t] = "f_walk"]
        /\ snap' = [snap EXCEPT ![t] = chain[BucketOf[arg[t]]]]
        /\ UNCHANGED <<chain, mark, freed, arg, res>>
    BY <1>0, <1>5, Zenon DEF FetchLoadHead, Goto
  <2>2. /\ \A u \in Threads \ {t} : snap'[u] = snap[u]
        /\ snap'[t] = chain[BucketOf[arg[t]]] /\ arg[t] \in Keys
    BY <2>1, ProgramPoints DEF TypeOK
  <2>3. res[t] = NullObj /\ "f_head" \in AskedPCs
    BY <2>1 DEF Extra, EarlyPCs, AskedPCs
  <2>4. Extra' /\ Alone(t) /\ Present' = Present /\ pc'[t] = "f_walk"
    <3>1. /\ res'[t] = NullObj
          /\ \A u \in Threads \ {t} : snap'[u] = snap[u] /\ res'[u] = res[u]
          /\ pc' = [pc EXCEPT ![t] = "f_walk"] /\ UNCHANGED <<chain, mark, freed, arg>>
      BY <2>1, <2>2, <2>3
    <3>2. "f_walk" \in AskedPCs \cup EndedPCs \cup {"f_walk"}
      OBVIOUS
    <3> HIDE DEF memory, locals, counters
    <3> QED BY <3>1, <3>2, FetchStays
  <2>5. AbstractCall(t) = Rec("fetch", arg[t], FALSE, NullObj)
    BY <2>1, <2>3, CallByPlace DEF ByPlace
  <2>6. AbstractCall(t)' = Rec("fetch", arg[t], TRUE, Lookup(snap'[t], arg[t]))
    BY <2>1, <2>4, CallByPlace DEF ByPlace
  <2>7. Lookup(snap'[t], arg[t]) \in Abstract!Answers(Present, arg[t])
    BY <2>2, BucketAnswers
  <2> QED BY <2>4, <2>5, <2>6, <2>7, OthersAsBefore, AbsFetch
<1>6. CASE FetchWalk(t)
  <2>1. /\ pc[t] = "f_walk" /\ pc' = [pc EXCEPT ![t] = "f_dec"]
        /\ res' = [res EXCEPT ![t] = Lookup(snap[t], arg[t])]
        /\ UNCHANGED <<chain, mark, freed, arg, snap>>
    BY <1>0, <1>6, Zenon DEF FetchWalk, Goto
  <2>2. /\ \A u \in Threads \ {t} : res'[u] = res[u]
        /\ res'[t] = Lookup(snap[t], arg[t])
    BY <2>1 DEF TypeOK
  <2>3. "f_dec" \in EndedPCs
    BY DEF EndedPCs
  <2>4. /\ Extra' /\ pc'[t] = "f_dec"
        /\ AbstractCall(t)' = AbstractCall(t) => Moves
    BY <2>1, <2>2, <2>3, FetchStays
  <2>5. AbstractCall(t) = Rec("fetch", arg[t], TRUE, Lookup(snap[t], arg[t]))
    BY <2>1, CallByPlace DEF ByPlace
  <2>6. AbstractCall(t)' = Rec("fetch", arg[t], TRUE, res'[t])
    BY <2>1, <2>3, <2>4, CallByPlace DEF ByPlace
  <2> QED BY <2>2, <2>4, <2>5, <2>6
<1>7. CASE FetchLoadForDec(t)
  <2>1. /\ pc[t] = "f_dec" /\ pc' = [pc EXCEPT ![t] = "f_decst"]
        /\ UNCHANGED <<chain, mark, freed, arg, snap, res>>
    BY <1>7 DEF FetchLoadForDec, LoadReaders, Goto
  <2> QED BY <2>1, FetchWithin DEF EndedPCs
<1>8. CASE FetchStoreDec(t)
  <2>1. /\ pc[t] = "f_decst" /\ pc' = [pc EXCEPT ![t] = "f_last"]
        /\ UNCHANGED <<chain, mark, freed, arg, snap, res>>
    BY <1>8 DEF FetchStoreDec, Goto
  <2> QED BY <2>1, FetchWithin DEF EndedPCs
<1>9. CASE FetchTestLast(t)
  <2>1. /\ pc[t] = "f_last" /\ pc' = [pc EXCEPT ![t] = "f_ret"]
        /\ UNCHANGED <<chain, mark, freed, arg, snap, res>>
    BY <1>0, <1>9 DEF FetchTestLast, LastReader, Goto
  <2> QED BY <2>1, FetchWithin DEF EndedPCs
<1>10. CASE FetchReturn(t)
  <2>1. /\ pc[t] = "f_ret" /\ Leave(t) /\ UNCHANGED <<chain, mark, freed>>
    BY <1>10 DEF FetchReturn
  <2>2. AbstractCall(t) = Rec("fetch", arg[t], TRUE, res[t])
    BY <2>1, CallByPlace DEF ByPlace, EndedPCs
  <2> QED BY <2>1, <2>2, CallReturns
<1> QED BY <1>1, <1>2, <1>3, <1>4, <1>5, <1>6, <1>7, <1>8, <1>9, <1>10 DEF Fetch

LEMMA BeginMoves ==
  ASSUME Destroyers = {}, TypeOK, Extra, NEW t \in Threads, Begin(t)
  PROVE  Extra' /\ Moves
<1> USE DEF memory, locals, counters
<1>1. ASSUME NEW l \in {"i_buckets", "f_buckets"}, NEW op, NEW a,
             \/ l = "i_buckets" /\ op = "insert" /\ a \in Objs
             \/ l = "f_buckets" /\ op = "fetch" /\ a \in Keys,
             pc[t] = "idle", pc' = [pc EXCEPT ![t] = l], arg' = [arg EXCEPT ![t] = a],
             UNCHANGED <<chain, mark, freed, snap, res>>
      PROVE  Extra' /\ Moves
  <2>1. pc'[t] = l /\ arg'[t] = a /\ Alone(t)
    BY <1>1 DEF Alone, TypeOK
  <2>2. res'[t] = NullObj
    BY <1>1 DEF Extra, EarlyPCs
  <2>3. AtWork(pc'[t], res'[t])
    BY <1>1, <2>1, <2>2, PlacesAtWork, ProgramPoints DEF AskedPCs
  <2>4. Extra' /\ Present' = Present
    BY <1>1, <2>1, <2>3, ExtraKept
  <2>5. AbstractCall(t) = Nothing
    BY <1>1, CallByPlace DEF ByPlace
  <2>6. ByPlace(AbstractCall(t)', l, a, snap'[t], NullObj)
    BY <2>1, <2>2, CallByPlace
  <2>7. AbstractCall(t)' = Rec(op, a, FALSE, NullObj)
    BY <1>1, <2>6 DEF ByPlace, OpenPCs, AskedPCs
  <2> QED BY <1>1, <2>1, <2>4, <2>5, <2>7, OthersAsBefore, AbsBegin
<1>2. ASSUME NEW o \in Objs, BeginInsert(t, o) PROVE Extra' /\ Moves
  BY <1>1, <1>2 DEF BeginInsert, Goto
<1>3. ASSUME NEW k \in Keys, BeginFetch(t, k) PROVE Extra' /\ Moves
  BY <1>1, <1>3 DEF BeginFetch, Goto
<1>4. ~BeginDestroy(t)
  BY DEF BeginDestroy
<1> QED BY <1>2, <1>3, <1>4 DEF Begin

LEMMA NobodyDestroys ==
  ASSUME Extra, NEW t \in Threads PROVE ~Destroy(t)
BY DEF Extra, Destroy, SetMark, MarkTestReaders, DeallocLock, DeallocSweep, DeallocUnlock,
       DeallocDestroyLock, MarkPCs, FreePCs

LEMMA ExtraInit == Init => Extra
<1> SUFFICES ASSUME Init PROVE Extra
  OBVIOUS
<1>1. "idle" \notin MarkPCs \cup FreePCs
  BY DEF MarkPCs, FreePCs
<1>2. ASSUME NEW b \in Buckets, NEW o \in Elems(chain[b]) PROVE Hash(o) = b
  <2>1. chain[b] = IF First # NullObj /\ b = Hash(First) THEN <<First>> ELSE <<>>
    BY DEF Init
  <2> QED BY <2>1 DEF Elems
<1> QED BY <1>1, <1>2 DEF Init, Extra

(* holder.h and ftypes.h: while nobody destroys it, a holder with buckets  *)
(* behaves, whatever number of threads inserts and looks up, as a set on   *)
(* which each call takes effect at one instant.  The steps of the code are *)
(* steps of AtomicHolder or leave its state alone.                         *)
THEOREM CallsTakeEffectAtOnce ==
  ASSUME First # NullObj, Destroyers = {}
  PROVE  Spec => Abstract!Init /\ [][Abstract!Next]_(Abstract!vars)
<1>1. Init => Abstract!Init
  BY AbsInit
<1>2. TypeOK /\ ListInv /\ Extra /\ [Next]_vars => Extra' /\ Moves
  <2> SUFFICES ASSUME TypeOK, ListInv, Extra, [Next]_vars PROVE Extra' /\ Moves
    OBVIOUS
  <2>1. ASSUME NEW t \in Threads, Step(t) PROVE Extra' /\ Moves
    BY <2>1, InsertMoves, FetchMoves, NobodyDestroys DEF Step
  <2>2. ASSUME NEW t \in Threads, Begin(t) PROVE Extra' /\ Moves
    BY <2>2, BeginMoves
  <2>3. CASE UNCHANGED vars
    BY <2>3, CrashStutters DEF Crash, vars, memory, locals, counters
  <2> QED BY <2>1, <2>2, <2>3 DEF Next
<1>3. Moves <=> [Abstract!Next]_(Abstract!vars)
  BY DEF Moves
<1> QED BY <1>1, <1>2, <1>3, ExtraInit, TypeCorrect, ListInvAlways, PTL DEF Spec
=============================================================================
