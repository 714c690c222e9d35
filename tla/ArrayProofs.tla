----------------------------- MODULE ArrayProofs -----------------------------
(***************************************************************************)
(* Theorems about ObjcArray, for any threads, items, names and widths, and *)
(* whoever creates the array, several threads at once included.            *)
(***************************************************************************)
EXTENDS ObjcArray, SequenceTheorems, TLAPS

PCs == {"idle"} \cup AppendPCs \cup ReadPCs

(* Where a call has not linked its node yet, has an array, has its lock.   *)
FreshPCs == {"a_null", "a_make", "a_load", "c_first", "c_walk", "a_lock",
             "a_test", "a_first", "a_next"}
ArrPCs == {"c_first", "c_walk", "a_lock", "a_test", "a_first", "a_next",
           "a_last", "a_unlock", "a_yes", "a_no", "r_first", "r_count",
           "r_again", "r_copy", "r_end"}
LockPCs == {"a_test", "a_first", "a_next", "a_last", "a_unlock"}

(* An item that no array holds, and an array nobody has worked on.         *)
Fresh(x) == \A a \in Threads : x \notin Elems(log[a])
Empty(a) == /\ log[a] = <<>> /\ first[a] = NoItem
            /\ \A u \in Threads : arr[u] # a
Untouched(a) == field # a /\ Empty(a)

Types ==
  /\ field \in Threads \cup {NoThread}
  /\ first \in [Threads -> Items \cup {NoItem}]
  /\ last \in [Threads -> Items \cup {Wild}]
  /\ next \in [Items -> Items \cup {NoItem}]
  /\ lock \in [Threads -> Threads \cup {NoThread}]
  /\ log \in [Threads -> Seq(Items)]
  /\ pc \in [Threads -> PCs]
  /\ arr \in [Threads -> Threads \cup {NoThread}]
  /\ node \in [Threads -> Items \cup {NoItem}]

Walks ==
  /\ at \in [Threads -> Items \cup {NoItem}]
  /\ count \in [Threads -> Nat] /\ filled \in [Threads -> Nat]
  /\ seen \in [Threads -> Nat]
  /\ out \in [Threads -> Seq(Items)]
  /\ acked \subseteq Items
  /\ fault \in {"none", "overrun"}

Ok(t) ==
  /\ pc[t] \in AppendPCs => node[t] \in Items /\ AddedBy[node[t]] = t
  /\ pc[t] \in FreshPCs => Fresh(node[t])
  /\ pc[t] \in ArrPCs => arr[t] \in Threads
  /\ pc[t] = "a_load" => field # NoThread
  /\ pc[t] = "a_make" => Untouched(t)
  /\ pc[t] \in LockPCs => lock[arr[t]] = t
  /\ pc[t] = "a_first" => first[arr[t]] = NoItem
  /\ pc[t] = "a_next" => first[arr[t]] # NoItem
  /\ pc[t] = "a_last" => /\ log[arr[t]] # <<>>
                         /\ node[t] = log[arr[t]][Len(log[arr[t]])]

(* "last" is the last node, except between the two stores of an append.    *)
AtLast(a) == \E t \in Threads : pc[t] = "a_last" /\ arr[t] = a
LastIs(a) == log[a] # <<>> => /\ last[a] \in Items
                              /\ AtLast(a) \/ last[a] = log[a][Len(log[a])]

(* No node is in two places, and one in no list has no successor.          *)
Apart == \A a, b \in Threads : \A i \in DOMAIN log[a], j \in DOMAIN log[b] :
           log[a][i] = log[b][j] => a = b /\ i = j
NextFree == \A x \in Items : Fresh(x) => next[x] = NoItem

Inv ==
  /\ Types
  /\ \A t \in Threads : Ok(t)
  /\ ChainIsLog
  /\ \A a \in Threads : LastIs(a)
  /\ Apart /\ NextFree
  /\ field = NoThread => \A a \in Threads : Empty(a)

USE ArrayAssumption

LEMMA PointsAre ==
  PCs = {"idle", "a_null", "a_make", "a_load", "c_first", "c_walk", "a_lock",
         "a_test", "a_first", "a_next", "a_last", "a_unlock", "a_yes", "a_no",
         "r_load", "r_first", "r_count", "r_again", "r_copy", "r_end", "r_ret"}
BY DEF PCs, AppendPCs, ReadPCs

LEMMA FreshIsNowhere ==
  ASSUME NEW x
  PROVE  Fresh(x) <=> \A a \in Threads : \A i \in DOMAIN log[a] : log[a][i] # x
BY DEF Fresh, Elems

LEMMA InvInit == Init => Inv
<1> SUFFICES ASSUME Init PROVE Inv
  OBVIOUS
<1>1. Types
  BY PointsAre DEF Init, Types
<1>2. ASSUME NEW t \in Threads PROVE Ok(t)
  BY DEF Init, Ok, AppendPCs, FreshPCs, ArrPCs, LockPCs
<1>3. \A a \in Threads : log[a] = <<>> /\ first[a] = NoItem /\ arr[a] = NoThread
  BY DEF Init
<1>4. ChainIsLog /\ Apart /\ \A a \in Threads : LastIs(a) /\ Empty(a)
  BY <1>3 DEF ChainIsLog, Follows, Apart, LastIs, Empty
<1>5. NextFree
  BY DEF Init, NextFree
<1> QED BY <1>1, <1>2, <1>4, <1>5 DEF Inv

(* A step that leaves all arrays alone, or takes or gives back a lock,     *)
(* disturbs only what holds of the thread that takes it.                   *)
LEMMA LocalKeeps ==
  ASSUME Inv, Types', NEW t \in Threads,
         UNCHANGED <<field, first, last, next, log>>,
         \A u \in Threads \ {t} :
           pc'[u] = pc[u] /\ arr'[u] = arr[u] /\ node'[u] = node[u],
         \A a \in Threads : \/ lock'[a] = lock[a]
                            \/ lock[a] = NoThread \/ lock[a] = t,
         arr'[t] \in {arr[t], field, NoThread},
         pc[t] # "a_last", pc'[t] # "a_last",
         Ok(t)'
  PROVE  Inv'
<1>1. ASSUME NEW u \in Threads \ {t} PROVE Ok(u)'
  <2>1. Ok(u) /\ pc'[u] = pc[u] /\ arr'[u] = arr[u] /\ node'[u] = node[u]
    BY DEF Inv
  <2>2. pc[u] \in LockPCs => lock'[arr[u]] = u
    <3>1. pc[u] \in LockPCs => arr[u] \in Threads /\ lock[arr[u]] = u
      BY <2>1 DEF Ok, LockPCs, ArrPCs
    <3> QED BY <3>1
  <2>3. pc[u] = "a_make" => Untouched(u)'
    BY <2>1 DEF Ok, Untouched, Empty
  <2> QED BY <2>1, <2>2, <2>3 DEF Ok, Fresh
<1>2. ASSUME NEW a \in Threads PROVE LastIs(a)'
  <2>1. LastIs(a) /\ (AtLast(a) <=> AtLast(a)')
    BY DEF Inv, AtLast
  <2> QED BY <2>1 DEF Inv, LastIs, AtLast
<1>3. field = NoThread => \A a \in Threads : Empty(a)'
  BY DEF Inv, Empty
<1> QED BY <1>1, <1>2, <1>3 DEF Inv, ChainIsLog, Follows, Apart, NextFree, Fresh
(* A step that only moves the control of a thread. *)
LEMMA MoveKeeps ==
  ASSUME Inv, NEW t \in Threads, NEW l \in PCs,
         pc' = [pc EXCEPT ![t] = l],
         UNCHANGED <<field, first, last, next, lock, log, arr, node>>,
         pc[t] # "a_last", l # "a_last",
         l \in AppendPCs => pc[t] \in AppendPCs,
         l \in FreshPCs => pc[t] \in FreshPCs,
         l \in ArrPCs => pc[t] \in ArrPCs,
         l \in LockPCs => pc[t] \in LockPCs,
         l = "a_load" => field # NoThread,
         l = "a_make" => field = NoThread,
         l = "a_first" => first[arr[t]] = NoItem,
         l = "a_next" => first[arr[t]] # NoItem
  PROVE  Inv'
<1>1. Types'
  BY DEF Inv, Types
<1>2. pc'[t] = l /\ \A u \in Threads \ {t} : pc'[u] = pc[u]
  BY DEF Inv, Types
<1>3. l = "a_make" => Untouched(t)'
  BY DEF Inv, Untouched, Empty
<1>4. Ok(t)'
  <2>1. Ok(t)
    BY DEF Inv
  <2> QED BY <1>2, <1>3, <2>1 DEF Ok, Fresh
<1> QED BY <1>1, <1>2, <1>4, LocalKeeps

LEMMA MovesKeep ==
  ASSUME Inv, NEW t \in Threads,
         \/ BeginRead(t) \/ TestField(t) \/ CheckFirst(t) \/ CheckWalk(t)
         \/ AppendTest(t) \/ CountFirst(t) \/ CountWalk(t) \/ CopyFirst(t)
         \/ CopyWalk(t) \/ CopyEnd(t)
  PROVE  Inv'
<1> USE PointsAre DEF AppendPCs, FreshPCs, ArrPCs, LockPCs
<1>1. CASE BeginRead(t)
  <2>1. /\ pc[t] = "idle" /\ pc' = [pc EXCEPT ![t] = "r_load"]
        /\ UNCHANGED <<field, first, last, next, lock, log, arr, node>>
    BY <1>1, Zenon DEF BeginRead, Goto, shared
  <2> QED BY <2>1, MoveKeeps
<1>2. CASE TestField(t)
  <2>1. /\ pc[t] = "a_null"
        /\ pc' = [pc EXCEPT ![t] = IF field = NoThread THEN "a_make" ELSE "a_load"]
        /\ UNCHANGED <<field, first, last, next, lock, log, arr, node>>
    BY <1>2, Zenon DEF TestField, FieldIsNull, Goto, shared
  <2> QED BY <2>1, MoveKeeps
<1>3. CASE CheckFirst(t) \/ CheckWalk(t)
  <2>1. /\ pc[t] \in {"c_first", "c_walk"}
        /\ \E l \in {"c_walk", "a_lock", "a_no"} : pc' = [pc EXCEPT ![t] = l]
        /\ UNCHANGED <<field, first, last, next, lock, log, arr, node>>
    <3>1. pc \in [Threads -> PCs]
      BY DEF Inv, Types
    <3>2. pc' = pc => pc' = [pc EXCEPT ![t] = pc[t]]
      BY <3>1
    <3> QED BY <1>3, <3>2 DEF CheckFirst, CheckWalk, Goto, shared
  <2> QED BY <2>1, MoveKeeps
<1>4. CASE AppendTest(t)
  <2>1. /\ pc[t] = "a_test"
        /\ pc' = [pc EXCEPT ![t] = IF first[arr[t]] = NoItem THEN "a_first" ELSE "a_next"]
        /\ UNCHANGED <<field, first, last, next, lock, log, arr, node>>
    BY <1>4, Zenon DEF AppendTest, Goto, shared
  <2> QED BY <2>1, MoveKeeps
<1>5. CASE \/ CountFirst(t) \/ CountWalk(t) \/ CopyFirst(t) \/ CopyWalk(t)
           \/ CopyEnd(t)
  <2>1. pc' = pc => pc' = [pc EXCEPT ![t] = pc[t]]
    <3>1. pc \in [Threads -> PCs]
      BY DEF Inv, Types
    <3> QED BY <3>1
  <2>2. UNCHANGED <<field, first, last, next, lock, log, arr, node>>
    BY <1>5, Zenon DEF CountFirst, CountWalk, CopyFirst, CopyWalk, CopyEnd, shared
  <2>3. /\ pc[t] \in {"r_first", "r_count", "r_again", "r_copy", "r_end"}
        /\ \E l \in {"r_count", "r_again", "r_copy", "r_end", "r_ret"} :
             pc' = [pc EXCEPT ![t] = l]
    BY <1>5, <2>1 DEF CountFirst, CountWalk, CopyFirst, CopyWalk, CopyEnd, Goto
  <2> QED BY <2>2, <2>3, MoveKeeps
<1> QED BY <1>1, <1>2, <1>3, <1>4, <1>5

(* A call takes its item, its array or the lock, gives the lock back, or   *)
(* returns.                                                                *)
LEMMA LocalsKeep ==
  ASSUME Inv, NEW t \in Threads,
         \/ \E x \in Items : BeginAppend(t, x)
         \/ LoadField(t) \/ ReadField(t) \/ AppendLock(t) \/ AppendUnlock(t)
         \/ AppendReturn(t) \/ ReadReturn(t)
  PROVE  Inv'
<1> USE PointsAre DEF AppendPCs, FreshPCs, ArrPCs, LockPCs
<1>1. ASSUME NEW x \in Items, BeginAppend(t, x) PROVE Inv'
  <2>1. /\ pc[t] = "idle" /\ AddedBy[x] = t /\ Fresh(x)
        /\ pc' = [pc EXCEPT ![t] = "a_null"] /\ node' = [node EXCEPT ![t] = x]
        /\ UNCHANGED <<field, first, last, next, lock, log, arr>>
    BY <1>1, Zenon DEF BeginAppend, Fresh, Goto, Set, shared
  <2>2. Types'
    BY <2>1 DEF Inv, Types
  <2>3. /\ pc'[t] = "a_null" /\ node'[t] = x
        /\ \A u \in Threads \ {t} : pc'[u] = pc[u] /\ node'[u] = node[u]
    BY <2>1 DEF Inv, Types
  <2>4. Ok(t)'
    BY <2>1, <2>3 DEF Ok, Fresh
  <2> QED BY <2>1, <2>2, <2>3, <2>4, LocalKeeps
<1>2. CASE LoadField(t)
  <2>1. PICK l \in {"c_first", "a_lock"} : pc' = [pc EXCEPT ![t] = l]
    BY <1>2, Zenon DEF LoadField, Goto
  <2>2. /\ pc[t] = "a_load" /\ arr' = [arr EXCEPT ![t] = field]
        /\ UNCHANGED <<field, first, last, next, lock, log, node>>
    BY <1>2, Zenon DEF LoadField, Set, shared
  <2>3. field \in Threads /\ Ok(t)
    BY <2>2 DEF Inv, Types, Ok
  <2>4. Types'
    BY <2>1, <2>2, <2>3 DEF Inv, Types
  <2>5. /\ pc'[t] = l /\ arr'[t] = field
        /\ \A u \in Threads \ {t} : pc'[u] = pc[u] /\ arr'[u] = arr[u]
    BY <2>1, <2>2 DEF Inv, Types
  <2>6. Ok(t)'
    BY <2>2, <2>3, <2>5 DEF Ok, Fresh
  <2> QED BY <2>2, <2>4, <2>5, <2>6, LocalKeeps
<1>3. CASE ReadField(t)
  <2>1. /\ pc[t] = "r_load" /\ arr' = [arr EXCEPT ![t] = field]
        /\ pc' = [pc EXCEPT ![t] = IF field = NoThread THEN "r_ret" ELSE "r_first"]
        /\ UNCHANGED <<field, first, last, next, lock, log, node>>
    BY <1>3, Zenon DEF ReadField, Goto, Set, shared
  <2>2. PICK l \in {"r_ret", "r_first"} :
          pc' = [pc EXCEPT ![t] = l] /\ (l = "r_first" => field \in Threads)
    BY <2>1 DEF Inv, Types
  <2>3. Types'
    BY <2>1, <2>2 DEF Inv, Types
  <2>4. /\ pc'[t] = l /\ arr'[t] = field
        /\ \A u \in Threads \ {t} : pc'[u] = pc[u] /\ arr'[u] = arr[u]
    BY <2>1, <2>2 DEF Inv, Types
  <2>5. Ok(t)'
    BY <2>2, <2>4 DEF Ok
  <2> QED BY <2>1, <2>3, <2>4, <2>5, LocalKeeps
<1>4. CASE AppendLock(t) \/ AppendUnlock(t)
  <2>1. PICK l \in {"a_test", "a_yes"}, o \in {t, NoThread} :
          /\ pc' = [pc EXCEPT ![t] = l] /\ lock' = [lock EXCEPT ![arr[t]] = o]
          /\ \/ pc[t] = "a_lock" /\ l = "a_test" /\ o = t /\ lock[arr[t]] = NoThread
             \/ pc[t] = "a_unlock" /\ l = "a_yes"
    BY <1>4, Zenon DEF AppendLock, AppendUnlock, LockIsFree, LockReleased, Goto, Set
  <2>2. UNCHANGED <<field, first, last, next, log, arr, node>>
    BY <1>4, Zenon DEF AppendLock, AppendUnlock
  <2>3. Ok(t) /\ arr[t] \in Threads
    BY <2>1 DEF Inv, Ok
  <2>4. lock[arr[t]] \in {t, NoThread}
    BY <2>1, <2>3 DEF Ok
  <2>5. Types'
    BY <2>1, <2>2 DEF Inv, Types
  <2>6. /\ pc'[t] = l /\ lock'[arr[t]] = o
        /\ \A u \in Threads \ {t} : pc'[u] = pc[u]
        /\ \A a \in Threads : a # arr[t] => lock'[a] = lock[a]
    BY <2>1, <2>3 DEF Inv, Types
  <2>7. Ok(t)'
    BY <2>1, <2>2, <2>3, <2>6 DEF Ok, Fresh
  <2> QED BY <2>1, <2>2, <2>4, <2>5, <2>6, <2>7, LocalKeeps
<1>5. CASE AppendReturn(t) \/ ReadReturn(t)
  <2>1. /\ pc[t] \in {"a_yes", "a_no", "r_ret"} /\ pc' = [pc EXCEPT ![t] = "idle"]
        /\ arr' = [arr EXCEPT ![t] = NoThread] /\ node' = [node EXCEPT ![t] = NoItem]
        /\ UNCHANGED <<field, first, last, next, lock, log>>
    BY <1>5 DEF AppendReturn, ReadReturn, Leave, Goto, Set, shared
  <2>2. Types'
    BY <2>1 DEF Inv, Types
  <2>3. /\ pc'[t] = "idle" /\ arr'[t] = NoThread
        /\ \A u \in Threads \ {t} :
             pc'[u] = pc[u] /\ arr'[u] = arr[u] /\ node'[u] = node[u]
    BY <2>1 DEF Inv, Types
  <2>4. Ok(t)'
    BY <2>3 DEF Ok
  <2> QED BY <2>1, <2>2, <2>3, <2>4, LocalKeeps
<1> QED BY <1>1, <1>2, <1>3, <1>4, <1>5
-----------------------------------------------------------------------------
(* cl->ivars = objc_array_create(): the array is new, another thread's is  *)
(* given up with what was in it.                                           *)
LEMMA CreateKeeps ==
  ASSUME Inv, NEW t \in Threads, CreateArray(t)
  PROVE  Inv'
<1> USE PointsAre DEF AppendPCs, FreshPCs, ArrPCs, LockPCs
<1>1. /\ pc[t] = "a_make" /\ pc' = [pc EXCEPT ![t] = "a_load"]
      /\ field' = t /\ first' = [first EXCEPT ![t] = NoItem]
      /\ log' = [log EXCEPT ![t] = <<>>]
      /\ UNCHANGED <<last, next, lock, arr, node>>
  BY Zenon DEF CreateArray, Goto, Set
<1>2. Untouched(t) /\ Ok(t)
  BY <1>1 DEF Inv, Ok
<1>3. log[t] = <<>> /\ first[t] = NoItem
  BY <1>2 DEF Inv, Untouched, Empty
<1>4. log' = log /\ first' = first /\ last' = last
  BY <1>1, <1>3 DEF Inv, Types
<1>5. Types'
  BY <1>1, <1>4 DEF Inv, Types
<1>6. pc'[t] = "a_load" /\ \A u \in Threads \ {t} : pc'[u] = pc[u]
  BY <1>1 DEF Inv, Types
<1>7. Ok(t)'
  BY <1>1, <1>2, <1>4, <1>6 DEF Ok, Fresh
<1>8. ASSUME NEW u \in Threads \ {t} PROVE Ok(u)'
  <2>1. Ok(u)
    BY DEF Inv
  <2>2. pc[u] = "a_make" => Untouched(u)'
    BY <1>1, <1>4, <2>1 DEF Ok, Untouched, Empty
  <2> QED BY <1>1, <1>4, <1>6, <2>1, <2>2 DEF Ok, Fresh
<1>9. ASSUME NEW a \in Threads PROVE LastIs(a)'
  <2>1. LastIs(a) /\ (AtLast(a) <=> AtLast(a)')
    BY <1>1, <1>6 DEF Inv, AtLast
  <2> QED BY <1>4, <2>1 DEF LastIs
<1> QED BY <1>1, <1>4, <1>5, <1>7, <1>8, <1>9
    DEF Inv, ChainIsLog, Follows, Apart, NextFree, Fresh

(* The thread that holds the lock of an array links its node: what that    *)
(* does to the list, and to the threads.                                   *)
LEMMA Grows ==
  ASSUME Inv, NEW t \in Threads, pc[t] \in {"a_first", "a_next"}, log' = Grown(t)
  PROVE  LET a == arr[t]  x == node[t]  s == log[a]
         IN  /\ a \in Threads /\ x \in Items /\ lock[a] = t /\ Fresh(x)
             /\ log' \in [Threads -> Seq(Items)]
             /\ Len(s) \in Nat /\ DOMAIN s = 1..Len(s)
             /\ Len(log'[a]) = Len(s) + 1 /\ DOMAIN log'[a] = 1..(Len(s) + 1)
             /\ log'[a][Len(s) + 1] = x
             /\ \A i \in 1..Len(s) : log'[a][i] = s[i]
             /\ \A b \in Threads : b # a => log'[b] = log[b]
<1> USE DEF AppendPCs, FreshPCs, ArrPCs, LockPCs
<1>1. arr[t] \in Threads /\ node[t] \in Items /\ lock[arr[t]] = t /\ Fresh(node[t])
  BY DEF Inv, Ok
<1>2. log[arr[t]] \in Seq(Items) /\ log \in [Threads -> Seq(Items)]
  BY <1>1 DEF Inv, Types
<1>3. log' = [log EXCEPT ![arr[t]] = Append(log[arr[t]], node[t])]
  BY DEF Grown
<1>4. log'[arr[t]] = Append(log[arr[t]], node[t])
  BY <1>1, <1>2, <1>3
<1>5. /\ log'[arr[t]] \in Seq(Items)
      /\ Len(log'[arr[t]]) = Len(log[arr[t]]) + 1
      /\ log'[arr[t]][Len(log[arr[t]]) + 1] = node[t]
      /\ \A i \in 1..Len(log[arr[t]]) : log'[arr[t]][i] = log[arr[t]][i]
  BY <1>1, <1>2, <1>4, AppendProperties
<1>6. log' \in [Threads -> Seq(Items)]
  BY <1>2, <1>3, <1>4, <1>5
<1>7. \A b \in Threads : b # arr[t] => log'[b] = log[b]
  BY <1>2, <1>3
<1>8. /\ Len(log[arr[t]]) \in Nat /\ DOMAIN log[arr[t]] = 1..Len(log[arr[t]])
      /\ DOMAIN log'[arr[t]] = 1..(Len(log[arr[t]]) + 1)
  BY <1>2, <1>5, LenProperties
<1> QED BY <1>1, <1>5, <1>6, <1>7, <1>8

LEMMA GrowKeeps ==
  ASSUME Inv, NEW t \in Threads, pc[t] \in {"a_first", "a_next"}, log' = Grown(t)
  PROVE  /\ Apart'
         /\ \A y \in Items : Fresh(y)' => Fresh(y) /\ y # node[t]
         /\ \A y : Fresh(y) /\ y # node[t] => Fresh(y)'
<1> DEFINE a == arr[t]  x == node[t]  n == Len(log[a]) + 1
<1>1. /\ a \in Threads /\ Fresh(x)
      /\ Len(log[a]) \in Nat /\ DOMAIN log[a] = 1..Len(log[a])
      /\ DOMAIN log'[a] = 1..n /\ log'[a][n] = x
      /\ \A i \in 1..Len(log[a]) : log'[a][i] = log[a][i]
      /\ \A b \in Threads : b # a => log'[b] = log[b]
  BY Grows
<1> HIDE DEF a, x
<1>2. ASSUME NEW b \in Threads, NEW i \in DOMAIN log'[b]
      PROVE  \/ b = a /\ i = n /\ log'[b][i] = x
             \/ i \in DOMAIN log[b] /\ log'[b][i] = log[b][i] /\ log[b][i] # x
  <2>1. \A c \in Threads : \A j \in DOMAIN log[c] : log[c][j] # x
    BY <1>1, FreshIsNowhere
  <2>2. CASE b = a /\ i = n
    BY <1>1, <2>2
  <2>3. CASE b = a /\ i # n
    <3>1. i \in 1..Len(log[a])
      BY <1>1, <2>3
    <3> QED BY <1>1, <2>1, <2>3, <3>1
  <2>4. CASE b # a
    BY <1>1, <2>1, <2>4
  <2> QED BY <2>2, <2>3, <2>4
<1>3. Apart'
  BY <1>2 DEF Apart, Inv
<1>4. ASSUME NEW y \in Items, Fresh(y)' PROVE Fresh(y) /\ y # x
  <2>1. \A b \in Threads : \A i \in DOMAIN log'[b] : log'[b][i] # y
    BY <1>4 DEF Fresh, Elems
  <2>2. n \in DOMAIN log'[a]
    BY <1>1
  <2>3. ASSUME NEW b \in Threads, NEW i \in DOMAIN log[b] PROVE log[b][i] # y
    <3>1. CASE b = a
      <4>1. i \in 1..Len(log[a])
        BY <1>1, <3>1
      <4>2. i \in 1..n
        BY <1>1, <4>1
      <4> QED BY <1>1, <2>1, <3>1, <4>1, <4>2
    <3>2. CASE b # a
      BY <1>1, <2>1, <3>2
    <3> QED BY <3>1, <3>2
  <2> QED BY <1>1, <2>1, <2>2, <2>3, FreshIsNowhere
<1>5. ASSUME NEW y, Fresh(y), y # x PROVE Fresh(y)'
  <2>1. \A b \in Threads : \A i \in DOMAIN log[b] : log[b][i] # y
    BY <1>5, FreshIsNowhere
  <2>2. \A b \in Threads : \A i \in DOMAIN log'[b] : log'[b][i] # y
    BY <1>2, <1>5, <2>1
  <2> QED BY <2>2 DEF Fresh, Elems
<1> QED BY <1>3, <1>4, <1>5 DEF x

(* The other threads do not notice. *)
LEMMA OthersKeep ==
  ASSUME Inv, NEW t \in Threads, pc[t] \in {"a_first", "a_next"}, log' = Grown(t),
         NEW u \in Threads \ {t},
         UNCHANGED <<field, lock, arr, node>>, pc'[u] = pc[u],
         \A b \in Threads : b # arr[t] => first'[b] = first[b]
  PROVE  Ok(u)'
<1> USE DEF AppendPCs, FreshPCs, ArrPCs, LockPCs
<1>1. /\ arr[t] \in Threads /\ node[t] \in Items /\ lock[arr[t]] = t
      /\ \A b \in Threads : b # arr[t] => log'[b] = log[b]
  BY Grows
<1>2. Ok(u) /\ Ok(t)
  BY DEF Inv
<1>3. pc[u] \in AppendPCs => node[u] # node[t]
  BY <1>2 DEF Ok
<1>4. pc[u] \in FreshPCs => Fresh(node[u])'
  BY <1>2, <1>3, GrowKeeps DEF Ok
<1>5. pc[u] \in LockPCs => arr[u] # arr[t] /\ arr[u] \in Threads
  BY <1>1, <1>2 DEF Ok
<1>6. pc[u] = "a_make" => Untouched(u)'
  BY <1>1, <1>2 DEF Ok, Untouched, Empty
<1> QED BY <1>1, <1>2, <1>4, <1>5, <1>6 DEF Ok

LEMMA LinkFirstKeeps ==
  ASSUME Inv, NEW t \in Threads, LinkFirst(t)
  PROVE  Inv'
<1> USE DEF AppendPCs, FreshPCs, ArrPCs, LockPCs
<1> DEFINE a == arr[t]  x == node[t]
<1>1. /\ pc[t] = "a_first" /\ pc' = [pc EXCEPT ![t] = "a_unlock"]
      /\ first' = [first EXCEPT ![a] = x] /\ last' = [last EXCEPT ![a] = x]
      /\ log' = Grown(t)
      /\ UNCHANGED <<field, next, lock, arr, node>>
  BY Zenon DEF LinkFirst, Goto, Set
<1>2. /\ a \in Threads /\ x \in Items /\ lock[a] = t /\ Fresh(x)
      /\ log' \in [Threads -> Seq(Items)]
      /\ Len(log[a]) \in Nat
      /\ Len(log'[a]) = Len(log[a]) + 1 /\ DOMAIN log'[a] = 1..(Len(log[a]) + 1)
      /\ log'[a][Len(log[a]) + 1] = x
      /\ \A b \in Threads : b # a => log'[b] = log[b]
  BY <1>1, Grows
<1>3. Types'
  BY <1>1, <1>2, PointsAre DEF Inv, Types
<1>4. /\ pc'[t] = "a_unlock" /\ \A u \in Threads \ {t} : pc'[u] = pc[u]
      /\ first'[a] = x /\ last'[a] = x
      /\ \A b \in Threads : b # a => first'[b] = first[b] /\ last'[b] = last[b]
  BY <1>1, <1>2 DEF Inv, Types
<1>5. Ok(t) /\ first[a] = NoItem
  BY <1>1 DEF Inv, Ok
<1>6. Ok(t)'
  BY <1>1, <1>2, <1>4, <1>5 DEF Ok
<1>7. \A u \in Threads \ {t} : Ok(u)'
  BY <1>1, <1>4, OthersKeep
<1>8. Len(log[a]) = 0 /\ log'[a] # <<>>
  <2>1. log[a] = <<>>
    <3>1. log[a] \in Seq(Items) /\ (log[a] # <<>> => first[a] = log[a][1])
      BY <1>2 DEF Inv, Types, ChainIsLog, Follows
    <3>2. log[a] # <<>> => log[a][1] \in Items
      BY <3>1
    <3> QED BY <1>5, <3>1, <3>2
  <2> QED BY <1>2, <2>1
<1>9. next[x] = NoItem
  BY <1>2 DEF Inv, NextFree
<1>10. ASSUME NEW b \in Threads PROVE Follows(log[b], b)'
  <2>1. CASE b = a
    BY <1>1, <1>2, <1>4, <1>8, <1>9, <2>1 DEF Follows
  <2>2. CASE b # a
    <3>1. log'[b] = log[b] /\ first'[b] = first[b] /\ next' = next
      BY <1>1, <1>2, <1>4, <2>2
    <3>2. Follows(log[b], b)
      BY DEF Inv, ChainIsLog
    <3> QED BY <3>1, <3>2 DEF Follows
  <2> QED BY <2>1, <2>2
<1>11. ASSUME NEW b \in Threads PROVE LastIs(b)'
  <2>1. CASE b = a
    BY <1>2, <1>4, <1>8, <2>1 DEF LastIs
  <2>2. CASE b # a
    <3>1. LastIs(b) /\ (AtLast(b) => AtLast(b)')
      BY <1>1, <1>4 DEF Inv, AtLast
    <3> QED BY <1>2, <1>4, <2>2, <3>1 DEF LastIs
  <2> QED BY <2>1, <2>2
<1>12. Apart' /\ NextFree'
  BY <1>1, GrowKeeps DEF NextFree, Inv
<1>13. field # NoThread
  BY <1>2 DEF Inv, Empty
<1> QED BY <1>1, <1>3, <1>6, <1>7, <1>10, <1>11, <1>12, <1>13 DEF Inv, ChainIsLog

LEMMA LinkNextKeeps ==
  ASSUME Inv, NEW t \in Threads, LinkNext(t)
  PROVE  Inv'
<1> USE DEF AppendPCs, FreshPCs, ArrPCs, LockPCs
<1> DEFINE a == arr[t]  x == node[t]  n == Len(log[a])
<1>1. /\ pc[t] = "a_next" /\ pc' = [pc EXCEPT ![t] = "a_last"]
      /\ next' = [next EXCEPT ![last[a]] = x]
      /\ log' = Grown(t)
      /\ UNCHANGED <<field, first, last, lock, arr, node>>
  BY Zenon DEF LinkNext, Goto, Set
<1>2. /\ a \in Threads /\ x \in Items /\ lock[a] = t /\ Fresh(x)
      /\ log' \in [Threads -> Seq(Items)]
      /\ n \in Nat /\ DOMAIN log[a] = 1..n
      /\ Len(log'[a]) = n + 1 /\ DOMAIN log'[a] = 1..(n + 1)
      /\ log'[a][n + 1] = x
      /\ \A i \in 1..n : log'[a][i] = log[a][i]
      /\ \A b \in Threads : b # a => log'[b] = log[b]
  BY <1>1, Grows
<1>3. Types'
  BY <1>1, <1>2, PointsAre DEF Inv, Types
<1>4. pc'[t] = "a_last" /\ \A u \in Threads \ {t} : pc'[u] = pc[u]
  BY <1>1 DEF Inv, Types
<1>5. Ok(t) /\ first[a] # NoItem /\ Follows(log[a], a)
  BY <1>1, <1>2 DEF Inv, Ok, ChainIsLog
<1>6. log[a] # <<>> /\ n >= 1 /\ log[a] \in Seq(Items)
  <2>1. log[a] # <<>> /\ log[a] \in Seq(Items)
    BY <1>2, <1>5 DEF Follows, Inv, Types
  <2> QED BY <1>2, <2>1, EmptySeq
<1>7. ~AtLast(a)
  BY <1>1, <1>2 DEF Inv, Ok, AtLast
<1>8. last[a] = log[a][n] /\ last[a] \in Items
  <2>1. LastIs(a)
    BY <1>2 DEF Inv
  <2> QED BY <1>6, <1>7, <2>1 DEF LastIs
<1>9. /\ next'[last[a]] = x
      /\ \A y \in Items : y # last[a] => next'[y] = next[y]
  BY <1>1, <1>8 DEF Inv, Types
<1>10. log'[a] # <<>>
  BY <1>2
<1>11. Ok(t)'
  BY <1>1, <1>2, <1>4, <1>5, <1>10 DEF Ok
<1>12. \A u \in Threads \ {t} : Ok(u)'
  BY <1>1, <1>4, OthersKeep
<1>13. next[x] = NoItem /\ x # last[a]
  <2>1. n \in DOMAIN log[a]
    BY <1>2, <1>6
  <2>2. log[a][n] # x
    BY <1>2, <2>1, FreshIsNowhere
  <2> QED BY <1>2, <1>8, <2>2 DEF Inv, NextFree
<1> HIDE DEF a, x, n
<1>14. ASSUME NEW b \in Threads PROVE Follows(log[b], b)'
  <2>1. CASE b = a
    <3>1. first'[a] = log'[a][1]
      <4>1. 1 \in 1..n /\ first[a] = log[a][1]
        BY <1>2, <1>5, <1>6 DEF Follows
      <4> QED BY <1>1, <1>2, <4>1
    <3>2. ASSUME NEW i \in 1..(n + 1)
          PROVE  next'[log'[a][i]] = IF i = n + 1 THEN NoItem ELSE log'[a][i + 1]
      <4>1. CASE i = n + 1
        BY <1>2, <1>9, <1>13, <4>1
      <4>2. CASE i = n
        <5>1. i \in 1..n /\ i # n + 1
          BY <1>2, <1>6, <4>2
        <5>2. log'[a][i] = last[a] /\ log'[a][i + 1] = x
          BY <1>2, <1>8, <4>2, <5>1
        <5> QED BY <1>9, <5>1, <5>2
      <4>3. CASE i \in 1..(n - 1)
        <5>0. n \in Nat /\ n >= 1
          BY <1>2, <1>6
        <5>1. i \in 1..n /\ i + 1 \in 1..n /\ n \in 1..n /\ i # n /\ i # n + 1
          BY <4>3, <5>0
        <5>2. log[a][i] # last[a]
          <6>1. /\ a \in Threads /\ i \in DOMAIN log[a] /\ n \in DOMAIN log[a]
                /\ i # n
            BY <1>2, <5>1
          <6>2. log[a][i] # log[a][n]
            BY <6>1 DEF Inv, Apart
          <6> QED BY <1>8, <6>2
        <5>3. log[a][i] \in Items
          BY <1>2, <1>6, <5>1
        <5>4. next[log[a][i]] = log[a][i + 1]
          BY <1>2, <1>5, <5>1 DEF Follows, n
        <5>5. log'[a][i] = log[a][i] /\ log'[a][i + 1] = log[a][i + 1]
          BY <1>2, <5>1
        <5>6. next'[log[a][i]] = next[log[a][i]]
          BY <1>9, <5>2, <5>3
        <5>7. i # n + 1
          BY <5>1
        <5>8. next'[log'[a][i]] = log'[a][i + 1]
          BY <5>4, <5>5, <5>6, Zenon
        <5> QED BY <5>7, <5>8, Zenon
      <4> QED BY <1>2, <4>1, <4>2, <4>3
    <3>3. first'[a] = IF log'[a] = <<>> THEN NoItem ELSE log'[a][1]
      BY <1>10, <3>1
    <3>4. \A i \in DOMAIN log'[a] :
            next'[log'[a][i]] = IF i = Len(log'[a]) THEN NoItem ELSE log'[a][i + 1]
      BY <1>2, <3>2
    <3> QED BY <2>1, <3>3, <3>4 DEF Follows
  <2>2. CASE b # a
    <3>1. log'[b] = log[b] /\ Follows(log[b], b) /\ log[b] \in Seq(Items)
      BY <1>2, <2>2 DEF Inv, ChainIsLog, Types
    <3>2. ASSUME NEW i \in DOMAIN log[b] PROVE next'[log[b][i]] = next[log[b][i]]
      <4>1. n \in DOMAIN log[a]
        BY <1>2, <1>6
      <4>2. log[b][i] # last[a]
        <5>1. log[b][i] # log[a][n]
          BY <1>2, <2>2, <4>1 DEF Inv, Apart
        <5> QED BY <1>8, <5>1
      <4>3. log[b][i] \in Items
        BY <3>1, LenProperties
      <4> QED BY <1>9, <4>2, <4>3
    <3> QED BY <1>1, <3>1, <3>2 DEF Follows
  <2> QED BY <2>1, <2>2
<1>15. ASSUME NEW b \in Threads PROVE LastIs(b)'
  <2>1. CASE b = a
    <3>1. AtLast(b)'
      BY <1>1, <1>4, <2>1 DEF AtLast, a
    <3> QED BY <1>1, <1>8, <1>10, <2>1, <3>1 DEF LastIs
  <2>2. CASE b # a
    <3>1. LastIs(b) /\ (AtLast(b) => AtLast(b)')
      BY <1>1, <1>4 DEF Inv, AtLast
    <3> QED BY <1>1, <1>2, <2>2, <3>1 DEF LastIs
  <2> QED BY <2>1, <2>2
<1>16. Apart'
  BY <1>1, GrowKeeps
<1>17. NextFree'
  <2>1. ASSUME NEW y \in Items, Fresh(y)' PROVE next'[y] = NoItem
    <3>1. Fresh(y)
      BY <1>1, <2>1, GrowKeeps
    <3>2. y # last[a]
      <4>1. n \in DOMAIN log[a]
        BY <1>2, <1>6
      <4> QED BY <1>2, <1>8, <3>1, <4>1, FreshIsNowhere
    <3> QED BY <1>9, <3>1, <3>2 DEF Inv, NextFree
  <2> QED BY <2>1 DEF NextFree
<1>18. field # NoThread
  BY <1>2 DEF Inv, Empty, a
<1> QED BY <1>1, <1>3, <1>11, <1>12, <1>14, <1>15, <1>16, <1>17, <1>18
    DEF Inv, ChainIsLog
(* arr->last = en *)
LEMMA MoveLastKeeps ==
  ASSUME Inv, NEW t \in Threads, MoveLast(t)
  PROVE  Inv'
<1> USE DEF AppendPCs, FreshPCs, ArrPCs, LockPCs
<1> DEFINE a == arr[t]
<1>1. /\ pc[t] = "a_last" /\ pc' = [pc EXCEPT ![t] = "a_unlock"]
      /\ last' = [last EXCEPT ![a] = node[t]]
      /\ UNCHANGED <<field, first, next, lock, log, arr, node>>
  BY Zenon DEF MoveLast, NewLast, Goto, Set
<1>2. /\ Ok(t) /\ a \in Threads /\ lock[a] = t /\ node[t] \in Items
      /\ log[a] # <<>> /\ node[t] = log[a][Len(log[a])]
  BY <1>1 DEF Inv, Ok
<1>3. Types'
  BY <1>1, <1>2, PointsAre DEF Inv, Types
<1>4. /\ pc'[t] = "a_unlock" /\ \A u \in Threads \ {t} : pc'[u] = pc[u]
      /\ last'[a] = node[t] /\ \A b \in Threads : b # a => last'[b] = last[b]
  BY <1>1, <1>2 DEF Inv, Types
<1>5. ASSUME NEW u \in Threads PROVE Ok(u)'
  <2>1. Ok(u)
    BY DEF Inv
  <2>2. pc[u] = "a_make" => Untouched(u)'
    BY <1>1, <2>1 DEF Ok, Untouched, Empty
  <2>3. CASE u = t
    BY <1>1, <1>2, <1>4, <2>3 DEF Ok
  <2>4. CASE u # t
    BY <1>1, <1>4, <2>1, <2>2, <2>4 DEF Ok, Fresh
  <2> QED BY <2>3, <2>4
<1>6. ASSUME NEW b \in Threads PROVE LastIs(b)'
  <2>1. CASE b = a
    BY <1>1, <1>2, <1>4, <2>1 DEF LastIs
  <2>2. CASE b # a
    <3>1. LastIs(b) /\ (AtLast(b) => AtLast(b)')
      BY <1>1, <1>4, <2>2 DEF Inv, AtLast
    <3> QED BY <1>1, <1>4, <2>2, <3>1 DEF LastIs
  <2> QED BY <2>1, <2>2
<1>7. field' = NoThread => \A b \in Threads : Empty(b)'
  BY <1>1 DEF Inv, Empty
<1> QED BY <1>1, <1>3, <1>5, <1>6, <1>7
    DEF Inv, ChainIsLog, Follows, Apart, NextFree, Fresh

LEMMA SameKeeps ==
  ASSUME Inv, UNCHANGED <<field, first, last, next, lock, log, pc, arr, node>>
  PROVE  Inv'
<1>1. Types' /\ ChainIsLog' /\ Apart' /\ NextFree'
  BY DEF Inv, Types, ChainIsLog, Follows, Apart, NextFree, Fresh
<1>2. \A t \in Threads : Ok(t)'
  BY DEF Inv, Ok, Untouched, Empty, Fresh
<1>3. \A a \in Threads : LastIs(a)'
  BY DEF Inv, LastIs, AtLast
<1>4. field' = NoThread => \A a \in Threads : Empty(a)'
  BY DEF Inv, Empty
<1> QED BY <1>1, <1>2, <1>3, <1>4 DEF Inv

LEMMA ArrayStep == Inv /\ [Next]_vars => Inv'
<1> SUFFICES ASSUME Inv, [Next]_vars PROVE Inv'
  OBVIOUS
<1>1. ASSUME NEW t \in Threads, Begin(t) PROVE Inv'
  BY <1>1, MovesKeep, LocalsKeep DEF Begin
<1>2. ASSUME NEW t \in Threads, Step(t) PROVE Inv'
  BY <1>2, MovesKeep, LocalsKeep, CreateKeeps, LinkFirstKeeps, LinkNextKeeps,
     MoveLastKeeps DEF Step, AppendStep, ReadStep
<1>3. CASE UNCHANGED vars
  BY <1>3, SameKeeps DEF vars, shared
<1> QED BY <1>1, <1>2, <1>3 DEF Next

LEMMA ArrayInv == Spec => []Inv
BY InvInit, ArrayStep, PTL DEF Spec

(* What a walk that takes no lock meets is what was linked, in that order, *)
(* at every moment, however many appends run (array.c).                    *)
THEOREM WalkMeetsTheLog == Spec => []ChainIsLog
<1>1. Inv => ChainIsLog
  BY DEF Inv
<1> QED BY <1>1, ArrayInv, PTL
-----------------------------------------------------------------------------
(* The walks of the getters.                                               *)

LEMMA WalksInit == Init => Walks
BY DEF Init, Walks

LEMMA WalksStep == Inv /\ Walks /\ [Next]_vars => Walks'
<1> SUFFICES ASSUME Inv, Walks, [Next]_vars PROVE Walks'
  OBVIOUS
<1>0. /\ first \in [Threads -> Items \cup {NoItem}]
      /\ next \in [Items -> Items \cup {NoItem}]
      /\ \A t \in Threads : pc[t] \in ArrPCs => arr[t] \in Threads
      /\ \A t \in Threads : pc[t] \in AppendPCs => node[t] \in Items
  BY DEF Inv, Types, Ok
<1>1. CASE UNCHANGED <<walk, acked, fault>>
  BY <1>1 DEF Walks, walk
<1>2. ASSUME NEW t \in Threads,
             CheckFirst(t) \/ CountFirst(t) \/ CopyFirst(t) \/ CheckWalk(t)
      PROVE  Walks'
  <2>1. /\ pc[t] \in ArrPCs
        /\ UNCHANGED <<count, filled, out, seen, acked, fault>>
        /\ \/ at' = at \/ at' = [at EXCEPT ![t] = first[arr[t]]]
           \/ at[t] # NoItem /\ at' = [at EXCEPT ![t] = next[at[t]]]
    BY <1>2 DEF CheckFirst, CountFirst, CopyFirst, CheckWalk, Set, ArrPCs
  <2>2. at' \in [Threads -> Items \cup {NoItem}]
    BY <1>0, <2>1 DEF Walks
  <2> QED BY <2>1, <2>2 DEF Walks
<1>3. ASSUME NEW t \in Threads, CountWalk(t) PROVE Walks'
  <2>1. CASE UNCHANGED <<at, count, seen>>
    BY <1>3, <2>1 DEF CountWalk, Walks
  <2>2. CASE ~UNCHANGED <<at, count, seen>>
    <3>1. /\ at[t] # NoItem /\ at' = [at EXCEPT ![t] = next[at[t]]]
          /\ count' = [count EXCEPT ![t] = count[t] + Width[at[t]]]
          /\ seen' = [seen EXCEPT ![t] = seen[t] + 1]
          /\ UNCHANGED <<filled, out, acked, fault>>
      BY <1>3, <2>2 DEF CountWalk, Set
    <3>2. at[t] \in Items /\ Width[at[t]] \in Nat /\ count[t] \in Nat /\ seen[t] \in Nat
      BY <3>1 DEF Walks
    <3>3. at' \in [Threads -> Items \cup {NoItem}]
      BY <1>0, <3>1, <3>2 DEF Walks
    <3>4. count' \in [Threads -> Nat] /\ seen' \in [Threads -> Nat]
      BY <3>1, <3>2 DEF Walks
    <3> QED BY <3>1, <3>3, <3>4 DEF Walks
  <2> QED BY <2>1, <2>2
<1>4. ASSUME NEW t \in Threads, CopyWalk(t) PROVE Walks'
  <2>1. CASE UNCHANGED <<at, filled, out>>
    BY <1>4, <2>1 DEF CopyWalk, Walks
  <2>2. CASE ~UNCHANGED <<at, filled, out>>
    <3>1. /\ at[t] # NoItem /\ at' = [at EXCEPT ![t] = next[at[t]]]
          /\ filled' = [filled EXCEPT ![t] = filled[t] + Width[at[t]]]
          /\ out' = [out EXCEPT ![t] = Append(out[t], at[t])]
          /\ UNCHANGED <<count, seen, acked, fault>>
      BY <1>4, <2>2 DEF CopyWalk, Set
    <3>2. /\ at[t] \in Items /\ Width[at[t]] \in Nat /\ filled[t] \in Nat
          /\ out[t] \in Seq(Items)
      BY <3>1 DEF Walks
    <3>3. at' \in [Threads -> Items \cup {NoItem}]
      BY <1>0, <3>1, <3>2 DEF Walks
    <3>4. filled' \in [Threads -> Nat]
      BY <3>1, <3>2 DEF Walks
    <3>5. Append(out[t], at[t]) \in Seq(Items)
      BY <3>2, AppendProperties
    <3>6. out' \in [Threads -> Seq(Items)]
      BY <3>1, <3>5 DEF Walks
    <3> QED BY <3>1, <3>3, <3>4, <3>6 DEF Walks
  <2> QED BY <2>1, <2>2
<1>5. ASSUME NEW t \in Threads, CopyEnd(t) PROVE Walks'
  <2>1. /\ out' = [out EXCEPT ![t] = Terminated(t)]
        /\ UNCHANGED <<at, count, filled, seen, acked, fault>>
    BY <1>5 DEF CopyEnd, Set
  <2>2. out[t] \in Seq(Items)
    BY DEF Walks
  <2>3. Terminated(t) \in Seq(Items)
    <3>1. Len(out[t]) \in Nat /\ \A i \in 1..Len(out[t]) : out[t][i] \in Items
      BY <2>2, LenProperties
    <3>2. SubSeq(out[t], 1, Len(out[t]) - 1) \in Seq(Items)
      BY <2>2, <3>1, SubSeqProperties
    <3> QED BY <2>2, <3>2 DEF Terminated
  <2> QED BY <2>1, <2>3 DEF Walks
<1>6. ASSUME NEW t \in Threads, AppendReturn(t) \/ ReadReturn(t) PROVE Walks'
  <2>1. /\ at' = [at EXCEPT ![t] = NoItem] /\ count' = [count EXCEPT ![t] = 0]
        /\ filled' = [filled EXCEPT ![t] = 0] /\ out' = [out EXCEPT ![t] = <<>>]
        /\ seen' = [seen EXCEPT ![t] = 0] /\ fault' = fault
        /\ acked' = acked \/ acked' = acked \cup {node[t]}
        /\ acked' # acked => node[t] \in Items
    BY <1>0, <1>6 DEF AppendReturn, ReadReturn, Leave, Set, AppendPCs
  <2> QED BY <2>1 DEF Walks
<1> QED BY <1>1, <1>2, <1>3, <1>4, <1>5, <1>6
    DEF Next, Begin, BeginAppend, BeginRead, Step, AppendStep, ReadStep, TestField,
        CreateArray, LoadField, AppendLock, AppendTest, LinkFirst, LinkNext, MoveLast,
        AppendUnlock, ReadField, vars

(* Every variable keeps its type; "last", which array_create leaves        *)
(* uninitialized (array.c:24), is written by the time that "first" is, and *)
(* array_add follows it only then (array.c:53).                            *)
THEOREM TypesHold == Spec => []TypeOK
<1>1. Inv /\ Walks => TypeOK
  <2> SUFFICES ASSUME Inv, Walks PROVE TypeOK
    OBVIOUS
  <2>1. ASSUME NEW a \in Threads, first[a] # NoItem PROVE last[a] # Wild
    <3>1. LastIs(a) /\ log[a] # <<>>
      BY <2>1 DEF Inv, ChainIsLog, Follows
    <3> QED BY <3>1 DEF LastIs
  <2> QED BY <2>1 DEF Inv, Types, Walks, TypeOK, PCs
<1> QED BY <1>1, ArrayInv, WalksInit, WalksStep, PTL DEF Spec

(* No getter whose copy stops at what it counted writes behind its         *)
(* allocation, if an item is one entry of the list (class.c, categs.c).  *)
THEOREM BoundedCopiesFit ==
  ASSUME Readers \subseteq Bounded, \A x \in Items : Width[x] = 1
  PROVE  Spec => []CopiesInBounds
<1> DEFINE Fits == Inv /\ Walks /\ fault # "overrun"
                   /\ \A t \in Threads : pc[t] \in ReadPCs => t \in Readers
<1>1. Init => Fits
  BY InvInit, WalksInit DEF Init, ReadPCs
<1>2. Fits /\ [Next]_vars => Fits'
  <2> SUFFICES ASSUME Fits, [Next]_vars PROVE Fits'
    OBVIOUS
  <2>1. Inv' /\ Walks'
    BY ArrayStep, WalksStep
  <2>2. ASSUME NEW t \in Threads, CopyWalk(t) PROVE fault' = fault
    <3>1. CASE at[t] # NoItem /\ HasRoom(t)
      <4>1. pc[t] = "r_copy" /\ t \in Bounded /\ filled[t] < count[t]
        BY <2>2, <3>1 DEF CopyWalk, ReadPCs, HasRoom
      <4>2. at[t] \in Items /\ filled[t] \in Nat /\ count[t] \in Nat
        BY <3>1 DEF Walks
      <4>3. ~(filled[t] + Width[at[t]] > count[t] + 1)
        BY <4>1, <4>2
      <4> QED BY <2>2, <3>1, <4>3 DEF CopyWalk
    <3>2. CASE ~(at[t] # NoItem /\ HasRoom(t))
      BY <2>2, <3>2 DEF CopyWalk
    <3> QED BY <3>1, <3>2
  <2>3. fault' = fault
    BY <2>2
    DEF Next, Begin, BeginAppend, BeginRead, Step, AppendStep, ReadStep, TestField,
        CreateArray, LoadField, CheckFirst, CheckWalk, AppendLock, AppendTest,
        LinkFirst, LinkNext, MoveLast, AppendUnlock, AppendReturn, ReadField,
        CountFirst, CountWalk, CopyFirst, CopyEnd, ReadReturn, vars
  <2>4. ASSUME NEW u \in Threads, pc'[u] \in ReadPCs PROVE u \in Readers
    <3>1. CASE pc[u] \in ReadPCs
      BY <3>1
    <3>2. CASE pc[u] \notin ReadPCs
      <4>1. pc'[u] # pc[u]
        BY <2>4, <3>2
      <4>2. PICK t \in Threads : Begin(t) \/ Step(t)
        BY <4>1 DEF Next, vars
      <4>3. t = u
        BY <4>1, <4>2 DEF Inv, Types, Begin, BeginAppend, BeginRead, Step, AppendStep,
           ReadStep, TestField, CreateArray, LoadField, CheckFirst, CheckWalk,
           AppendLock, AppendTest, LinkFirst, LinkNext, MoveLast, AppendUnlock,
           AppendReturn, ReadField, CountFirst, CountWalk, CopyFirst, CopyWalk,
           CopyEnd, ReadReturn, Goto, Leave
      <4>4. BeginRead(u)
        BY <2>4, <3>2, <4>2, <4>3
        DEF Inv, Types, Begin, BeginAppend, Step, AppendStep,
           ReadStep, TestField, CreateArray, LoadField, CheckFirst, CheckWalk,
           AppendLock, AppendTest, LinkFirst, LinkNext, MoveLast, AppendUnlock,
           AppendReturn, ReadField, CountFirst, CountWalk, CopyFirst, CopyWalk,
           CopyEnd, ReadReturn, Goto, Leave, ReadPCs
      <4> QED BY <4>4 DEF BeginRead
    <3> QED BY <3>1, <3>2
  <2> QED BY <2>1, <2>3, <2>4
<1>3. Fits => CopiesInBounds
  BY DEF CopiesInBounds
<1> QED BY <1>1, <1>2, <1>3, PTL DEF Spec

-----------------------------------------------------------------------------
(* The array is the log of AppendLog.                                      *)

calls == [t \in Threads |-> AbstractCall(t)]
Moves == Abstract!Next \/ UNCHANGED Abstract!vars

Rec(op, x, d, r) == [op |-> op, arg |-> x, done |-> d, res |-> r]
Nothing == Rec("none", NoItem, FALSE, <<>>)

LinkedPCs == {"a_last", "a_unlock", "a_yes", "a_no"}
SeenPCs == {"r_count", "r_again", "r_copy", "r_end"}

(* The call of a thread at l with the item x, its walk at w, in the array  *)
(* a, with the copy o, when s is what it has counted.                      *)
ByPlace(c, l, x, w, a, o, s) ==
  /\ l = "idle" => c = Nothing
  /\ l \in FreshPCs => c = Rec("append", x, FALSE, <<>>)
  /\ l \in LinkedPCs => c = Rec("append", x, TRUE, <<>>)
  /\ l \in {"r_load", "r_first"} => c = Rec("read", NoItem, FALSE, <<>>)
  /\ l = "r_count" /\ w # NoItem => c = Rec("read", NoItem, FALSE, <<>>)
  /\ l = "r_count" /\ w = NoItem /\ a # NoThread => c = Rec("read", NoItem, TRUE, s)
  /\ l \in SeenPCs \ {"r_count"} /\ a # NoThread => c = Rec("read", NoItem, TRUE, s)
  /\ l = "r_ret" /\ a = NoThread => c = Rec("read", NoItem, TRUE, <<>>)
  /\ l = "r_ret" /\ a # NoThread => c = Rec("read", NoItem, TRUE, o)

Done(l, w) == l \in {"r_again", "r_copy", "r_end", "r_ret"} \/ (l = "r_count" /\ w = NoItem)

CallAt(l, x, w, a, o, s) ==
  IF l \in AppendPCs THEN Rec("append", x, l \in LinkedPCs, <<>>)
  ELSE IF l \in ReadPCs
  THEN Rec("read", NoItem, Done(l, w), IF ~Done(l, w) \/ a = NoThread THEN <<>>
                                       ELSE IF l = "r_ret" THEN o ELSE s)
  ELSE Nothing

LEMMA PlacesAre ==
  /\ "idle" \notin AppendPCs \cup ReadPCs
  /\ AppendPCs = FreshPCs \cup LinkedPCs /\ FreshPCs \cap LinkedPCs = {}
  /\ AppendPCs \cap ReadPCs = {}
  /\ ReadPCs = {"r_load", "r_first", "r_ret"} \cup SeenPCs
  /\ SeenPCs = {"r_count", "r_again", "r_copy", "r_end"}
BY DEF AppendPCs, ReadPCs, FreshPCs, LinkedPCs, SeenPCs

LEMMA CallIs ==
  ASSUME NEW l, NEW x, NEW w, NEW a, NEW o, NEW s
  PROVE  ByPlace(CallAt(l, x, w, a, o, s), l, x, w, a, o, s)
<1> DEFINE c == CallAt(l, x, w, a, o, s)
<1>1. l = "idle" => c = Nothing
  BY PlacesAre DEF CallAt
<1>2. ASSUME l \in FreshPCs PROVE c = Rec("append", x, FALSE, <<>>)
  <2>1. l \in AppendPCs /\ (l \in LinkedPCs) = FALSE
    BY <1>2, PlacesAre
  <2> QED BY <2>1 DEF CallAt
<1>3. ASSUME l \in LinkedPCs PROVE c = Rec("append", x, TRUE, <<>>)
  <2>1. l \in AppendPCs /\ (l \in LinkedPCs) = TRUE
    BY <1>3, PlacesAre
  <2> QED BY <2>1 DEF CallAt
<1>4. ASSUME l \in ReadPCs, ~Done(l, w) PROVE c = Rec("read", NoItem, FALSE, <<>>)
  <2>1. l \notin AppendPCs /\ Done(l, w) = FALSE
    BY <1>4, PlacesAre DEF Done
  <2> QED BY <1>4, <2>1 DEF CallAt
<1>5. ASSUME l \in ReadPCs, Done(l, w)
      PROVE  c = Rec("read", NoItem, TRUE, IF a = NoThread THEN <<>>
                                           ELSE IF l = "r_ret" THEN o ELSE s)
  <2>1. l \notin AppendPCs /\ Done(l, w) = TRUE
    BY <1>5, PlacesAre DEF Done
  <2> QED BY <1>5, <2>1 DEF CallAt
<1> HIDE DEF c
<1>6. ByPlace(c, l, x, w, a, o, s)
  BY <1>1, <1>2, <1>3, <1>4, <1>5, PlacesAre DEF ByPlace, Done
<1> QED BY <1>6 DEF c

Before(t) == CallAt(pc[t], node[t], at[t], arr[t], out[t], SubSeq(log[arr[t]], 1, seen[t]))
After(t) == CallAt(pc'[t], node'[t], at'[t], arr'[t], out'[t], SubSeq(log'[arr'[t]], 1, seen'[t]))

LEMMA TheCall == \A t : AbstractCall(t) = Before(t) /\ AbstractCall(t)' = After(t)
<1> TAKE t
<1>1. AbstractCall(t) = Before(t)
  BY DEF AbstractCall, Answer, Counted, CallAt, Rec, Nothing, LinkedPCs, Done, Before
<1>2. AbstractCall(t)' = After(t)
  BY DEF AbstractCall, Answer, Counted, CallAt, Rec, Nothing, LinkedPCs, Done, After
<1> QED BY <1>1, <1>2

LEMMA CallByPlace ==
  \A t : /\ ByPlace(AbstractCall(t), pc[t], node[t], at[t], arr[t], out[t],
                    SubSeq(log[arr[t]], 1, seen[t]))
         /\ ByPlace(AbstractCall(t)', pc'[t], node'[t], at'[t], arr'[t], out'[t],
                    SubSeq(log'[arr'[t]], 1, seen'[t]))
BY TheCall, CallIs DEF Before, After

LEMMA SameCall ==
  ASSUME NEW t, pc'[t] = pc[t], node'[t] = node[t], at'[t] = at[t], arr'[t] = arr[t],
         out'[t] = out[t],
         pc[t] \in SeenPCs /\ arr[t] # NoThread =>
           SubSeq(log'[arr[t]], 1, seen'[t]) = SubSeq(log[arr[t]], 1, seen[t])
  PROVE  AbstractCall(t)' = AbstractCall(t)
<1>1. After(t) = Before(t)
  BY PlacesAre DEF After, Before, CallAt, Done
<1> QED BY <1>1, TheCall

(* The steps of the abstract log, by what happens to the call of t.        *)
LEMMA AbsInit == Init => Abstract!Init
<1> SUFFICES ASSUME Init PROVE Abstract!Init
  OBVIOUS
<1>1. \A t \in Threads : AbstractCall(t) = Abstract!NoCall
  <2>1. \A t \in Threads : AbstractCall(t) = Nothing
    BY CallByPlace DEF ByPlace, Init
  <2> QED BY <2>1 DEF Nothing, Rec, Abstract!NoCall
<1>2. Appended = <<>>
  BY DEF Appended, Init
<1> QED BY <1>1, <1>2 DEF Abstract!Init

LEMMA AbsStutter ==
  ASSUME \A u \in Threads : AbstractCall(u)' = AbstractCall(u), Appended' = Appended
  PROVE  Moves
BY DEF Moves, Abstract!vars

LEMMA AbsBegin ==
  ASSUME NEW t \in Threads, NEW op, NEW x,
         \/ op = "append" /\ x \in Items
         \/ op = "read" /\ x = NoItem,
         \A u \in Threads \ {t} : AbstractCall(u)' = AbstractCall(u),
         AbstractCall(t) = Nothing,
         AbstractCall(t)' = Rec(op, x, FALSE, <<>>),
         Appended' = Appended
  PROVE  Moves
<1>1. calls[t] = Abstract!NoCall
  BY DEF calls, Nothing, Rec, Abstract!NoCall
<1>2. calls' = [calls EXCEPT ![t] = Rec(op, x, FALSE, <<>>)]
  BY DEF calls
<1>3. Abstract!Begin(t, op, x)
  BY <1>1, <1>2, Zenon DEF Abstract!Begin, calls, Rec
<1> QED BY <1>3 DEF Moves, Abstract!Next

LEMMA AbsReturn ==
  ASSUME NEW t \in Threads, NEW op, NEW x, NEW r,
         \A u \in Threads \ {t} : AbstractCall(u)' = AbstractCall(u),
         AbstractCall(t) = Rec(op, x, TRUE, r),
         AbstractCall(t)' = Nothing,
         Appended' = Appended
  PROVE  Moves
<1>1. calls[t].done
  BY DEF calls, Rec
<1>2. calls' = [calls EXCEPT ![t] = Abstract!NoCall]
  BY DEF calls, Nothing, Rec, Abstract!NoCall
<1>3. Abstract!Return(t)
  BY <1>1, <1>2, Zenon DEF Abstract!Return, calls
<1> QED BY <1>3 DEF Moves, Abstract!Next

LEMMA AbsEnds ==
  ASSUME NEW t \in Threads, NEW op, NEW x, NEW r,
         \A u \in Threads \ {t} : AbstractCall(u)' = AbstractCall(u),
         AbstractCall(t) = Rec(op, x, FALSE, <<>>),
         AbstractCall(t)' = Rec(op, x, TRUE, r)
  PROVE  /\ Abstract!Ended(t, r)
         /\ calls[t].op = op /\ ~calls[t].done /\ calls[t].arg = x
<1>1. calls[t].op = op /\ ~calls[t].done /\ calls[t].arg = x
  BY DEF calls, Rec
<1>2. calls' = [calls EXCEPT ![t] = Rec(op, x, TRUE, r)]
  BY DEF calls
<1>3. calls' = [calls EXCEPT ![t] = [op |-> calls[t].op, arg |-> calls[t].arg,
                                     done |-> TRUE, res |-> r]]
  BY <1>1, <1>2, Zenon DEF Rec
<1>4. Abstract!Ended(t, r)
  BY <1>3, Zenon DEF Abstract!Ended, calls
<1> QED BY <1>1, <1>4

NameIsTaken(x) == \E i \in DOMAIN Appended : NameOf[Appended[i]] = NameOf[x]

LEMMA AbsAppend ==
  ASSUME NEW t \in Threads, NEW x,
         \A u \in Threads \ {t} : AbstractCall(u)' = AbstractCall(u),
         AbstractCall(t) = Rec("append", x, FALSE, <<>>),
         AbstractCall(t)' = Rec("append", x, TRUE, <<>>),
         UniqueNames => ~NameIsTaken(x),
         Appended' = Append(Appended, x)
  PROVE  Moves
<1>1. /\ Abstract!Ended(t, <<>>)
      /\ calls[t].op = "append" /\ ~calls[t].done /\ calls[t].arg = x
  BY AbsEnds
<1>2. Abstract!Taken(x) <=> NameIsTaken(x)
  BY DEF Abstract!Taken, NameIsTaken
<1>3. Abstract!ApplyAppend(t)
  BY <1>1, <1>2, Zenon DEF Abstract!ApplyAppend, calls
<1> QED BY <1>3 DEF Moves, Abstract!Next, Abstract!Apply

LEMMA AbsRefusal ==
  ASSUME NEW t \in Threads, NEW x,
         \A u \in Threads \ {t} : AbstractCall(u)' = AbstractCall(u),
         AbstractCall(t) = Rec("append", x, FALSE, <<>>),
         AbstractCall(t)' = Rec("append", x, TRUE, <<>>),
         UniqueNames, NameIsTaken(x), Appended' = Appended
  PROVE  Moves
<1>1. /\ Abstract!Ended(t, <<>>)
      /\ calls[t].op = "append" /\ ~calls[t].done /\ calls[t].arg = x
  BY AbsEnds
<1>2. Abstract!Taken(x) <=> NameIsTaken(x)
  BY DEF Abstract!Taken, NameIsTaken
<1>3. Abstract!ApplyRefusal(t)
  BY <1>1, <1>2, Zenon DEF Abstract!ApplyRefusal, calls
<1> QED BY <1>3 DEF Moves, Abstract!Next, Abstract!Apply

LEMMA AbsRead ==
  ASSUME NEW t \in Threads,
         \A u \in Threads \ {t} : AbstractCall(u)' = AbstractCall(u),
         AbstractCall(t) = Rec("read", NoItem, FALSE, <<>>),
         AbstractCall(t)' = Rec("read", NoItem, TRUE, Appended),
         Appended' = Appended
  PROVE  Moves
<1>1. /\ Abstract!Ended(t, Appended)
      /\ calls[t].op = "read" /\ ~calls[t].done
  BY AbsEnds
<1>2. Abstract!ApplyRead(t)
  BY <1>1, Zenon DEF Abstract!ApplyRead, calls
<1> QED BY <1>2 DEF Moves, Abstract!Next, Abstract!Apply

-----------------------------------------------------------------------------
(* The invariant of the refinement.  Where a walk stands in the list L,    *)
(* with n nodes counted as k entries, f entries copied into o.             *)
WalkPlace(l, w, n, k, f, o, L) ==
  /\ l \in {"idle", "r_load", "r_first"} => n = 0 /\ k = 0 /\ f = 0 /\ o = <<>>
  /\ l \in SeenPCs => k = n /\ n \in 0 .. Len(L)
  /\ l \in {"r_count", "r_again"} => f = 0 /\ o = <<>>
  /\ l = "r_count" /\ w # NoItem => n + 1 \in DOMAIN L /\ w = L[n + 1]
  /\ l = "r_copy" => f \in 0 .. n /\ o = SubSeq(L, 1, f)
  /\ l = "r_copy" /\ w # NoItem => f + 1 \in DOMAIN L /\ w = L[f + 1]
  /\ l = "r_copy" /\ w = NoItem => f = n
  /\ l = "r_end" => f = n /\ o = SubSeq(L, 1, n)

Names(x, y) == NameOf[x] = NameOf[y]

(* What the search for the name of x has yet to meet, or did not find.     *)
NamePlace(l, x, w, L) ==
  /\ l \in {"c_first", "c_walk"} => UniqueNames
  /\ l = "c_walk" => /\ w # NoItem => w \in Elems(L)
                     /\ \A i \in DOMAIN L : Names(L[i], x) =>
                          \E j \in DOMAIN L : j <= i /\ L[j] = w
  /\ l \in {"a_lock", "a_test", "a_first", "a_next"} /\ UniqueNames =>
       \A i \in DOMAIN L : ~Names(L[i], x)

Place(t) ==
  /\ WalkPlace(pc[t], at[t], seen[t], count[t], filled[t], out[t], log[arr[t]])
  /\ NamePlace(pc[t], node[t], at[t], log[arr[t]])

Single(c) ==
  /\ \A t \in Threads : arr[t] = NoThread \/ arr[t] = field
  /\ \A t \in Threads : pc[t] = "a_make" => t = c /\ field = NoThread
  /\ \A t \in Threads : pc[t] = "a_null" /\ field = NoThread => t = c
  /\ \A t \in Threads : pc[t] \in ReadPCs => t \in Readers
  /\ \A t \in Threads : Place(t)

(* What the callers in the code agree on: one thread makes the array, the  *)
(* getters stop at what they have counted, an item is one entry, and two   *)
(* items of one name come from one thread.                                 *)
Agreed(c) ==
  /\ Creators \subseteq {c} /\ Readers \subseteq Bounded
  /\ \A x \in Items : Width[x] = 1
  /\ UniqueNames => \A x, y \in Items : Names(x, y) => AddedBy[x] = AddedBy[y]

LEMMA PrefixIsCopy ==
  ASSUME NEW s \in Seq(Items), NEW x \in Items, NEW n \in 0 .. Len(s)
  PROVE  SubSeq(Append(s, x), 1, n) = SubSeq(s, 1, n)
<1>1. /\ Append(s, x) \in Seq(Items) /\ Len(Append(s, x)) = Len(s) + 1
      /\ \A i \in 1 .. Len(s) : Append(s, x)[i] = s[i]
  BY AppendProperties
<1>2. Len(s) \in Nat /\ \A i \in 1 .. n : s[i] \in Items /\ Append(s, x)[i] \in Items
  BY <1>1, LenProperties
<1>3. /\ SubSeq(s, 1, n) \in Seq(Items) /\ SubSeq(Append(s, x), 1, n) \in Seq(Items)
      /\ Len(SubSeq(s, 1, n)) = n /\ Len(SubSeq(Append(s, x), 1, n)) = n
      /\ \A i \in 1 .. n : SubSeq(s, 1, n)[i] = s[i]
      /\ \A i \in 1 .. n : SubSeq(Append(s, x), 1, n)[i] = Append(s, x)[i]
  <2>1. \A i \in 1 .. n - 1 + 1 : 1 + i - 1 = i
    OBVIOUS
  <2> QED BY <1>2, <2>1, SubSeqProperties
<1>4. \A i \in 1 .. Len(SubSeq(s, 1, n)) : SubSeq(Append(s, x), 1, n)[i] = SubSeq(s, 1, n)[i]
  BY <1>1, <1>2, <1>3
<1> QED BY <1>3, <1>4, SeqEqual

LEMMA CopyGrows ==
  ASSUME NEW s \in Seq(Items), NEW n \in Nat, n + 1 \in DOMAIN s
  PROVE  SubSeq(s, 1, n + 1) = Append(SubSeq(s, 1, n), s[n + 1])
<1>1. Len(s) \in Nat /\ DOMAIN s = 1 .. Len(s) /\ \A i \in 1 .. n + 1 : s[i] \in Items
  BY LenProperties
<1>2. /\ SubSeq(s, 1, n) \in Seq(Items) /\ SubSeq(s, 1, n + 1) \in Seq(Items)
      /\ Len(SubSeq(s, 1, n)) = n /\ Len(SubSeq(s, 1, n + 1)) = n + 1
      /\ \A i \in 1 .. n : SubSeq(s, 1, n)[i] = s[i]
      /\ \A i \in 1 .. n + 1 : SubSeq(s, 1, n + 1)[i] = s[i]
  <2>1. \A i \in 1 .. n + 1 : 1 + i - 1 = i
    OBVIOUS
  <2>2. n - 1 + 1 = n /\ n + 1 - 1 + 1 = n + 1
    OBVIOUS
  <2>3. \A i \in 1 .. n : s[i] \in Items
    BY <1>1
  <2>4. /\ SubSeq(s, 1, n) \in Seq(Items) /\ Len(SubSeq(s, 1, n)) = n
        /\ \A i \in 1 .. n : SubSeq(s, 1, n)[i] = s[i]
    BY <2>1, <2>2, <2>3, SubSeqProperties
  <2>5. /\ SubSeq(s, 1, n + 1) \in Seq(Items) /\ Len(SubSeq(s, 1, n + 1)) = n + 1
        /\ \A i \in 1 .. n + 1 : SubSeq(s, 1, n + 1)[i] = s[i]
    BY <1>1, <2>1, <2>2, SubSeqProperties
  <2> QED BY <2>4, <2>5
<1>3. PICK p \in Seq(Items) : p = SubSeq(s, 1, n)
  BY <1>2
<1>4. /\ Append(p, s[n + 1]) \in Seq(Items) /\ Len(Append(p, s[n + 1])) = n + 1
      /\ Append(p, s[n + 1])[n + 1] = s[n + 1]
      /\ \A i \in 1 .. n : Append(p, s[n + 1])[i] = p[i]
  BY <1>1, <1>2, <1>3, AppendProperties
<1>5. \A i \in 1 .. n + 1 : SubSeq(s, 1, n + 1)[i] = Append(p, s[n + 1])[i]
  BY <1>2, <1>3, <1>4
<1> QED BY <1>2, <1>3, <1>4, <1>5, SeqEqual

(* Places that do not look at the list.                                    *)
LEMMA PlaceOutside ==
  ASSUME NEW l, l \notin ArrPCs, NEW x, NEW w, NEW n, NEW k, NEW f, NEW o, NEW L, NEW M,
         WalkPlace(l, w, n, k, f, o, L), NamePlace(l, x, w, L)
  PROVE  WalkPlace(l, w, n, k, f, o, M) /\ NamePlace(l, x, w, M)
BY DEF ArrPCs, WalkPlace, NamePlace, SeenPCs

(* A place in a list is a place in the list with one item more, unless the *)
(* item has the name that is looked for.                                   *)
PlaceIn(l, x, w, n, k, f, o, L) == WalkPlace(l, w, n, k, f, o, L) /\ NamePlace(l, x, w, L)
Differs(l, x, y) == UniqueNames /\ l \in FreshPCs => ~Names(y, x)
Keeps(l, n, L, M) == l \in SeenPCs => SubSeq(M, 1, n) = SubSeq(L, 1, n)

LEMMA PlaceGrows ==
  ASSUME NEW l, NEW x, NEW w, NEW n, NEW k, NEW f, NEW o, NEW L \in Seq(Items), NEW y \in Items,
         PlaceIn(l, x, w, n, k, f, o, L), Differs(l, x, y)
  PROVE  PlaceIn(l, x, w, n, k, f, o, Append(L, y)) /\ Keeps(l, n, L, Append(L, y))
<1> USE DEF PlaceIn, Differs, Keeps
<1>1. PICK M \in Seq(Items) : M = Append(L, y)
  BY AppendProperties
<1>2. /\ Len(L) \in Nat /\ DOMAIN L = 1 .. Len(L)
      /\ Len(M) = Len(L) + 1 /\ DOMAIN M = 1 .. (Len(L) + 1)
      /\ M[Len(L) + 1] = y /\ \A i \in DOMAIN L : M[i] = L[i] /\ i \in DOMAIN M
  BY <1>1, AppendProperties, LenProperties
<1>3. \A m \in 0 .. Len(L) : SubSeq(M, 1, m) = SubSeq(L, 1, m)
  BY <1>1, PrefixIsCopy
<1>4. l \in SeenPCs => n \in 0 .. Len(L)
  BY DEF WalkPlace
<1>5. WalkPlace(l, w, n, k, f, o, M)
  <2>1. l = "r_copy" => f \in 0 .. Len(L)
    BY <1>2, <1>4 DEF WalkPlace, SeenPCs
  <2>2. l = "r_end" => n \in 0 .. Len(L)
    BY <1>4 DEF SeenPCs
  <2>3. \A m \in 0 .. Len(L) : m \in 0 .. Len(M)
    BY <1>2
  <2> QED BY <1>2, <1>3, <1>4, <2>1, <2>2, <2>3 DEF WalkPlace
<1>6. NamePlace(l, x, w, M)
  <2>1. l \in {"c_walk", "a_lock", "a_test", "a_first", "a_next"} => l \in FreshPCs
    BY DEF FreshPCs
  <2>2. w \in Elems(L) => w \in Elems(M)
    BY <1>2 DEF Elems
  <2>3. \A i \in DOMAIN M : i \in DOMAIN L \/ i = Len(L) + 1
    BY <1>2
  <2>4. CASE l = "c_walk"
    <3>1. ASSUME NEW i \in DOMAIN M, Names(M[i], x)
          PROVE  \E j \in DOMAIN M : j <= i /\ M[j] = w
      <4>1. i \in DOMAIN L /\ Names(L[i], x)
        BY <1>2, <2>1, <2>3, <2>4, <3>1 DEF NamePlace
      <4>2. PICK j \in DOMAIN L : j <= i /\ L[j] = w
        BY <2>4, <4>1 DEF NamePlace
      <4> QED BY <1>2, <4>2
    <3> QED BY <2>2, <2>4, <3>1 DEF NamePlace
  <2>5. CASE l # "c_walk"
    BY <1>2, <2>1, <2>3, <2>5 DEF NamePlace
  <2> QED BY <2>4, <2>5
<1> QED BY <1>1, <1>3, <1>4, <1>5, <1>6

LEMMA SingleInit == ASSUME NEW c, Init PROVE Single(c)
<1>1. \A t \in Threads : pc[t] = "idle" /\ arr[t] = NoThread
  BY DEF Init
<1>2. \A t \in Threads : seen[t] = 0 /\ count[t] = 0 /\ filled[t] = 0 /\ out[t] = <<>>
  BY DEF Init
<1>3. "idle" \notin ReadPCs \cup SeenPCs
  BY DEF ReadPCs, SeenPCs
<1> QED BY <1>1, <1>2, <1>3 DEF Single, Place, WalkPlace, NamePlace

(* Steps of one thread: the locals of the others stay.                     *)
Same(t) == \A u \in Threads \ {t} :
  /\ pc'[u] = pc[u] /\ node'[u] = node[u] /\ arr'[u] = arr[u] /\ at'[u] = at[u]
  /\ count'[u] = count[u] /\ filled'[u] = filled[u] /\ out'[u] = out[u]
  /\ seen'[u] = seen[u]

OthersCall(t) == \A u \in Threads \ {t} : AbstractCall(u)' = AbstractCall(u)

(* Where a step may take its thread.                                       *)
MayBe(c, t) ==
  /\ pc'[t] = "a_make" => t = c /\ field = NoThread
  /\ pc'[t] = "a_null" /\ field = NoThread => t = c
  /\ pc'[t] \in ReadPCs => t \in Readers
  /\ arr'[t] \in {arr[t], field, NoThread}

(* A step that links nothing.                                              *)
LEMMA Quietly ==
  ASSUME NEW c, Single(c), NEW t \in Threads, Same(t), UNCHANGED <<log, field>>,
         MayBe(c, t), Place(t)'
  PROVE  /\ Single(c)' /\ Appended' = Appended /\ OthersCall(t)
         /\ AbstractCall(t)' = AbstractCall(t) => Moves
<1>1. Appended' = Appended
  BY DEF Appended
<1>2. ASSUME NEW u \in Threads \ {t}
      PROVE  AbstractCall(u)' = AbstractCall(u) /\ Place(u)'
  <2>1. AbstractCall(u)' = AbstractCall(u)
    BY SameCall DEF Same
  <2>2. Place(u)'
    BY DEF Single, Same, Place
  <2> QED BY <2>1, <2>2
<1>3. Single(c)'
  BY <1>2 DEF Single, Same, MayBe
<1>4. OthersCall(t)
  BY <1>2 DEF OthersCall
<1> QED BY <1>1, <1>3, <1>4, AbsStutter DEF OthersCall

LEMMA OnlyMoves ==
  ASSUME Types, Walks, NEW t \in Threads, NEW l, pc' = [pc EXCEPT ![t] = l],
         UNCHANGED <<node, arr, walk>>
  PROVE  /\ Same(t) /\ pc'[t] = l /\ node'[t] = node[t] /\ arr'[t] = arr[t]
         /\ at'[t] = at[t] /\ count'[t] = count[t] /\ filled'[t] = filled[t]
         /\ out'[t] = out[t] /\ seen'[t] = seen[t]
BY DEF Types, Same, walk

(* The list a thread works on.                                             *)
LEMMA TheList ==
  ASSUME Inv, NEW c, Single(c), NEW t \in Threads, pc[t] \in ArrPCs
  PROVE  /\ arr[t] \in Threads /\ arr[t] = field /\ arr[t] # NoThread
         /\ log[arr[t]] \in Seq(Items) /\ Appended = log[arr[t]]
         /\ Follows(log[arr[t]], arr[t])
<1>1. arr[t] \in Threads /\ arr[t] = field
  BY DEF Inv, Ok, Single
<1> QED BY <1>1 DEF Inv, Types, Appended, ChainIsLog

(* One step of an append between its beginning and its link, or after it.  *)
LEMMA AppendWithin ==
  ASSUME Inv, NEW c, Single(c), NEW t \in Threads, Same(t), UNCHANGED <<log, field>>,
         \/ pc[t] \in FreshPCs /\ pc'[t] \in FreshPCs
         \/ pc[t] \in LinkedPCs /\ pc'[t] \in LinkedPCs,
         node'[t] = node[t], MayBe(c, t),
         NamePlace(pc'[t], node[t], at'[t], log[arr'[t]])
  PROVE  Single(c)' /\ Moves
<1>1. pc'[t] \notin SeenPCs /\ pc'[t] \notin {"idle", "r_load", "r_first"}
  BY PlacesAre DEF FreshPCs, LinkedPCs
<1>2. Place(t)'
  BY <1>1 DEF Place, WalkPlace, SeenPCs
<1>3. Single(c)' /\ (AbstractCall(t)' = AbstractCall(t) => Moves)
  BY <1>2, Quietly
<1>4. /\ ByPlace(AbstractCall(t), pc[t], node[t], at[t], arr[t], out[t],
                 SubSeq(log[arr[t]], 1, seen[t]))
      /\ ByPlace(AbstractCall(t)', pc'[t], node[t], at'[t], arr'[t], out'[t],
                 SubSeq(log'[arr'[t]], 1, seen'[t]))
  BY CallByPlace
<1>5. AbstractCall(t)' = AbstractCall(t)
  <2>1. CASE pc[t] \in FreshPCs /\ pc'[t] \in FreshPCs
    BY <1>4, <2>1 DEF ByPlace
  <2>2. CASE pc[t] \in LinkedPCs /\ pc'[t] \in LinkedPCs
    BY <1>4, <2>2 DEF ByPlace
  <2> QED BY <2>1, <2>2
<1> QED BY <1>3, <1>5

(* The search for the name, one step further.                              *)
LEMMA SearchGoesOn ==
  ASSUME NEW s \in Seq(Items), NEW a \in Threads, Follows(s, a), NEW x, NEW w, w # NoItem,
         UniqueNames, NamePlace("c_walk", x, w, s), ~Names(w, x)
  PROVE  NamePlace("c_walk", x, next[w], s)
<1>1. Len(s) \in Nat /\ DOMAIN s = 1 .. Len(s)
  BY LenProperties
<1>2. PICK m \in DOMAIN s : s[m] = w
  BY DEF NamePlace, Elems
<1>3. next[w] = IF m = Len(s) THEN NoItem ELSE s[m + 1]
  BY <1>2 DEF Follows
<1>4. next[w] # NoItem => next[w] \in Elems(s)
  <2>1. m # Len(s) => m + 1 \in DOMAIN s
    BY <1>1
  <2> QED BY <1>3, <2>1 DEF Elems
<1>5. ASSUME NEW i \in DOMAIN s, Names(s[i], x)
      PROVE  \E j \in DOMAIN s : j <= i /\ s[j] = next[w]
  <2>1. PICK j \in DOMAIN s : j <= i /\ s[j] = w
    BY <1>5 DEF NamePlace
  <2>2. j # i
    BY <1>5, <2>1
  <2>3. j + 1 \in DOMAIN s /\ j + 1 <= i /\ j # Len(s)
    BY <1>1, <2>1, <2>2
  <2>4. next[w] = s[j + 1]
    BY <2>1, <2>3 DEF Follows
  <2> QED BY <2>3, <2>4
<1> QED BY <1>4, <1>5 DEF NamePlace

LEMMA SearchBegins ==
  ASSUME NEW s \in Seq(Items), NEW a \in Threads, Follows(s, a), NEW x, UniqueNames
  PROVE  NamePlace("c_walk", x, first[a], s)
<1>1. Len(s) \in Nat /\ DOMAIN s = 1 .. Len(s)
  BY LenProperties
<1>2. s # <<>> => 1 \in DOMAIN s
  BY <1>1, EmptySeq
<1>3. s = <<>> => DOMAIN s = {}
  OBVIOUS
<1>4. first[a] = IF s = <<>> THEN NoItem ELSE s[1]
  BY DEF Follows
<1>5. first[a] # NoItem => first[a] \in Elems(s)
  BY <1>2, <1>4 DEF Elems
<1>6. \A i \in DOMAIN s : 1 \in DOMAIN s /\ 1 <= i /\ s[1] = first[a]
  BY <1>1, <1>2, <1>3, <1>4
<1> QED BY <1>5, <1>6 DEF NamePlace

LEMMA SearchEnds ==
  ASSUME NEW s \in Seq(Items), NEW x, NEW l, NamePlace("c_walk", x, NoItem, s),
         l \in {"a_lock", "a_test", "a_first", "a_next"}
  PROVE  NamePlace(l, x, NoItem, s)
<1>1. \A i \in DOMAIN s : s[i] # NoItem
  BY LenProperties
<1> QED BY <1>1 DEF NamePlace

LEMMA AppendMoves ==
  ASSUME Inv, Walks, NEW c, Single(c), NEW t \in Threads,
         \/ TestField(t) \/ LoadField(t) \/ CheckFirst(t) \/ AppendLock(t)
         \/ AppendTest(t) \/ MoveLast(t) \/ AppendUnlock(t)
  PROVE  Single(c)' /\ Moves
<1>0. /\ Types /\ Place(t)
      /\ pc[t] = "a_null" /\ field = NoThread => t = c
      /\ \A l \in FreshPCs \cup LinkedPCs : l \notin ReadPCs
  BY PlacesAre DEF Inv, Single
<1> USE DEF FreshPCs, LinkedPCs
<1>1. CASE TestField(t)
  <2>1. PICK l \in {"a_make", "a_load"} : /\ pc' = [pc EXCEPT ![t] = l]
                                          /\ l = "a_make" => field = NoThread
    BY <1>1 DEF TestField, FieldIsNull, Goto
  <2>2. pc[t] = "a_null" /\ UNCHANGED <<log, field, node, arr, walk>>
    BY <1>1 DEF TestField, shared
  <2>3. /\ Same(t) /\ pc'[t] = l /\ node'[t] = node[t] /\ arr'[t] = arr[t]
    BY <1>0, <2>1, <2>2, OnlyMoves
  <2>4. MayBe(c, t)
    BY <1>0, <2>1, <2>2, <2>3 DEF MayBe
  <2>5. NamePlace(pc'[t], node[t], at'[t], log[arr'[t]])
    BY <2>1, <2>3 DEF NamePlace
  <2> QED BY <2>1, <2>2, <2>3, <2>4, <2>5, AppendWithin
<1>2. CASE LoadField(t)
  <2>1. PICK l \in {"c_first", "a_lock"} : /\ pc' = [pc EXCEPT ![t] = l]
                                           /\ (l = "c_first") = UniqueNames
    BY <1>2 DEF LoadField, ChecksName, Goto
  <2>2. /\ pc[t] = "a_load" /\ arr' = [arr EXCEPT ![t] = field]
        /\ UNCHANGED <<log, field, node, walk>>
    BY <1>2 DEF LoadField, shared, Set
  <2>3. /\ Same(t) /\ pc'[t] = l /\ node'[t] = node[t] /\ arr'[t] = field
    BY <1>0, <2>1, <2>2 DEF Same, Types, walk
  <2>4. MayBe(c, t)
    BY <1>0, <2>1, <2>2, <2>3 DEF MayBe
  <2>5. NamePlace(pc'[t], node[t], at'[t], log[arr'[t]])
    BY <2>1, <2>3 DEF NamePlace
  <2> QED BY <2>1, <2>2, <2>3, <2>4, <2>5, AppendWithin
<1>3. CASE CheckFirst(t)
  <2>1. /\ pc[t] = "c_first" /\ pc' = [pc EXCEPT ![t] = "c_walk"]
        /\ at' = [at EXCEPT ![t] = first[arr[t]]]
        /\ UNCHANGED <<log, field, node, arr, count, filled, out, seen>>
    BY <1>3 DEF CheckFirst, shared, Set, Goto
  <2>2. /\ Same(t) /\ pc'[t] = "c_walk" /\ node'[t] = node[t] /\ arr'[t] = arr[t]
        /\ at'[t] = first[arr[t]]
    BY <1>0, <2>1 DEF Same, Types, Walks
  <2>3. MayBe(c, t)
    BY <1>0, <2>1, <2>2 DEF MayBe
  <2>4. /\ arr[t] \in Threads /\ log[arr[t]] \in Seq(Items)
        /\ Follows(log[arr[t]], arr[t])
    BY <2>1, TheList DEF ArrPCs
  <2>5. UniqueNames
    BY <1>0, <2>1 DEF Place, NamePlace
  <2>6. NamePlace(pc'[t], node[t], at'[t], log[arr'[t]])
    <3>1. NamePlace("c_walk", node[t], first[arr[t]], log[arr[t]])
      BY <2>4, <2>5, SearchBegins
    <3> QED BY <2>2, <3>1
  <2> QED BY <2>1, <2>2, <2>3, <2>6, AppendWithin
<1>4. CASE AppendLock(t) \/ AppendTest(t)
  <2>1. /\ pc[t] \in {"a_lock", "a_test"} /\ UNCHANGED <<log, field, node, arr, walk>>
        /\ \E l \in {"a_test", "a_first", "a_next"} : pc' = [pc EXCEPT ![t] = l]
    BY <1>4 DEF AppendLock, AppendTest, shared, Goto
  <2>2. PICK l \in {"a_test", "a_first", "a_next"} : pc' = [pc EXCEPT ![t] = l]
    BY <2>1
  <2>3. /\ Same(t) /\ pc'[t] = l /\ node'[t] = node[t] /\ arr'[t] = arr[t]
        /\ at'[t] = at[t]
    BY <1>0, <2>1, <2>2, OnlyMoves
  <2>4. MayBe(c, t)
    BY <1>0, <2>2, <2>3 DEF MayBe
  <2>5. NamePlace(pc'[t], node[t], at'[t], log[arr'[t]])
    BY <1>0, <2>1, <2>2, <2>3 DEF Place, NamePlace
  <2> QED BY <2>1, <2>2, <2>3, <2>4, <2>5, AppendWithin
<1>5. CASE MoveLast(t) \/ AppendUnlock(t)
  <2>1. /\ pc[t] \in {"a_last", "a_unlock"} /\ UNCHANGED <<log, field, node, arr, walk>>
        /\ \E l \in {"a_unlock", "a_yes"} : pc' = [pc EXCEPT ![t] = l]
    BY <1>5 DEF MoveLast, AppendUnlock, Goto
  <2>2. PICK l \in {"a_unlock", "a_yes"} : pc' = [pc EXCEPT ![t] = l]
    BY <2>1
  <2>3. /\ Same(t) /\ pc'[t] = l /\ node'[t] = node[t] /\ arr'[t] = arr[t]
    BY <1>0, <2>1, <2>2, OnlyMoves
  <2>4. MayBe(c, t)
    BY <1>0, <2>2, <2>3 DEF MayBe
  <2>5. NamePlace(pc'[t], node[t], at'[t], log[arr'[t]])
    BY <2>2, <2>3 DEF NamePlace
  <2> QED BY <2>1, <2>2, <2>3, <2>4, <2>5, AppendWithin
<1> QED BY <1>1, <1>2, <1>3, <1>4, <1>5

LEMMA CheckWalkMoves ==
  ASSUME Inv, Walks, NEW c, Single(c), NEW t \in Threads, CheckWalk(t)
  PROVE  Single(c)' /\ Moves
<1> USE DEF FreshPCs, LinkedPCs
<1>0. /\ Types /\ Place(t)
      /\ \A l \in FreshPCs \cup LinkedPCs : l \notin ReadPCs
  BY PlacesAre DEF Inv, Single
<1>1. /\ pc[t] = "c_walk" /\ UNCHANGED <<log, field, node, arr, count, filled, out, seen>>
  BY DEF CheckWalk, shared
<1>2. /\ arr[t] \in Threads /\ log[arr[t]] \in Seq(Items) /\ Appended = log[arr[t]]
      /\ Follows(log[arr[t]], arr[t])
  BY <1>1, TheList DEF ArrPCs
<1>3. UniqueNames /\ NamePlace("c_walk", node[t], at[t], log[arr[t]])
  BY <1>0, <1>1 DEF Place, NamePlace
<1>4. CASE at[t] = NoItem
  <2>1. pc' = [pc EXCEPT ![t] = "a_lock"] /\ at' = at
    BY <1>4 DEF CheckWalk, Goto
  <2>2. /\ Same(t) /\ pc'[t] = "a_lock" /\ node'[t] = node[t] /\ arr'[t] = arr[t]
    BY <1>0, <1>1, <2>1, OnlyMoves DEF walk
  <2>3. MayBe(c, t)
    BY <1>0, <2>2 DEF MayBe
  <2>4. NamePlace("a_lock", node[t], NoItem, log[arr[t]])
    BY <1>2, <1>3, <1>4, SearchEnds
  <2>5. NamePlace(pc'[t], node[t], at'[t], log[arr'[t]])
    BY <1>4, <2>1, <2>2, <2>4
  <2> QED BY <1>1, <2>2, <2>3, <2>5, AppendWithin
<1>5. CASE at[t] # NoItem /\ NameOf[at[t]] = NameOf[node[t]]
  <2>1. pc' = [pc EXCEPT ![t] = "a_no"] /\ at' = at
    BY <1>5 DEF CheckWalk, Goto
  <2>2. /\ Same(t) /\ pc'[t] = "a_no" /\ node'[t] = node[t] /\ arr'[t] = arr[t]
    BY <1>0, <1>1, <2>1, OnlyMoves DEF walk
  <2>3. MayBe(c, t)
    BY <1>0, <2>2 DEF MayBe
  <2>4. Place(t)'
    BY <2>2 DEF Place, WalkPlace, NamePlace, SeenPCs
  <2>5. Single(c)' /\ Appended' = Appended /\ OthersCall(t)
    BY <1>1, <2>2, <2>3, <2>4, Quietly
  <2>6. /\ AbstractCall(t) = Rec("append", node[t], FALSE, <<>>)
        /\ AbstractCall(t)' = Rec("append", node[t], TRUE, <<>>)
    BY <1>1, <2>2, CallByPlace DEF ByPlace
  <2>7. NameIsTaken(node[t])
    BY <1>2, <1>3, <1>5 DEF NamePlace, NameIsTaken, Elems
  <2>8. Moves
    BY <1>3, <2>5, <2>6, <2>7, AbsRefusal DEF OthersCall
  <2> QED BY <2>5, <2>8
<1>6. CASE at[t] # NoItem /\ NameOf[at[t]] # NameOf[node[t]]
  <2>1. pc' = pc /\ at' = [at EXCEPT ![t] = next[at[t]]]
    BY <1>6 DEF CheckWalk, Set
  <2>2. /\ Same(t) /\ pc'[t] = "c_walk" /\ node'[t] = node[t] /\ arr'[t] = arr[t]
        /\ at'[t] = next[at[t]]
    BY <1>0, <1>1, <2>1 DEF Same, Types, Walks
  <2>3. MayBe(c, t)
    BY <1>0, <2>2 DEF MayBe
  <2>4. NamePlace("c_walk", node[t], next[at[t]], log[arr[t]])
    BY <1>2, <1>3, <1>6, SearchGoesOn DEF Names
  <2>5. NamePlace(pc'[t], node[t], at'[t], log[arr'[t]])
    BY <2>2, <2>4
  <2> QED BY <1>1, <2>2, <2>3, <2>5, AppendWithin
<1> QED BY <1>4, <1>5, <1>6

(* The step of an append that links its node.                              *)
LEMMA LinkMoves ==
  ASSUME Inv, Walks, NEW c, Agreed(c), Single(c), NEW t \in Threads,
         LinkFirst(t) \/ LinkNext(t)
  PROVE  Single(c)' /\ Moves
<1>1. /\ pc[t] \in {"a_first", "a_next"} /\ log' = Grown(t)
      /\ \E l \in {"a_unlock", "a_last"} : pc' = [pc EXCEPT ![t] = l]
      /\ UNCHANGED <<field, node, arr, walk>>
  BY DEF LinkFirst, LinkNext, Goto
<1>2. PICK l \in {"a_unlock", "a_last"} : pc' = [pc EXCEPT ![t] = l]
  BY <1>1
<1>3. Types /\ Place(t)
  BY DEF Inv, Single
<1>4. /\ Same(t) /\ pc'[t] = l /\ node'[t] = node[t] /\ arr'[t] = arr[t]
  BY <1>1, <1>2, <1>3, OnlyMoves
<1>5. /\ arr[t] \in Threads /\ arr[t] = field /\ arr[t] # NoThread
      /\ log[arr[t]] \in Seq(Items) /\ Appended = log[arr[t]]
  BY <1>1, TheList DEF ArrPCs
<1>6. node[t] \in Items /\ AddedBy[node[t]] = t
  BY <1>1 DEF Inv, Ok, AppendPCs
<1>7. log'[field] = Append(log[field], node[t])
  BY <1>1, <1>3, <1>5 DEF Grown, Types
<1>8. Appended' = Append(Appended, node[t])
  BY <1>1, <1>5, <1>7 DEF Appended
<1>9. ASSUME NEW u \in Threads \ {t}
      PROVE  AbstractCall(u)' = AbstractCall(u) /\ Place(u)'
  <2>1. /\ pc'[u] = pc[u] /\ node'[u] = node[u] /\ arr'[u] = arr[u] /\ at'[u] = at[u]
        /\ count'[u] = count[u] /\ filled'[u] = filled[u] /\ out'[u] = out[u]
        /\ seen'[u] = seen[u]
    BY <1>4 DEF Same
  <2>2. Place(u)
    BY DEF Single
  <2>3. CASE pc[u] \notin ArrPCs
    <3>1. pc[u] \notin SeenPCs
      BY <2>3 DEF ArrPCs, SeenPCs
    <3>2. AbstractCall(u)' = AbstractCall(u)
      BY <2>1, <3>1, SameCall
    <3>3. /\ WalkPlace(pc[u], at[u], seen[u], count[u], filled[u], out[u], log'[arr[u]])
          /\ NamePlace(pc[u], node[u], at[u], log'[arr[u]])
      BY <2>2, <2>3, PlaceOutside DEF Place
    <3> QED BY <2>1, <3>2, <3>3 DEF Place
  <2>4. CASE pc[u] \in ArrPCs
    <3>1. arr[u] = field
      BY <2>4, TheList
    <3>2. Differs(pc[u], node[u], node[t])
      <4> SUFFICES ASSUME UniqueNames, pc[u] \in FreshPCs, Names(node[t], node[u])
                   PROVE  FALSE
        BY DEF Differs
      <4>1. node[u] \in Items /\ AddedBy[node[u]] = u
        BY PlacesAre DEF Inv, Ok
      <4>2. AddedBy[node[t]] = AddedBy[node[u]]
        BY <1>6, <4>1 DEF Agreed
      <4> QED BY <1>6, <4>1, <4>2
    <3>3. PlaceIn(pc[u], node[u], at[u], seen[u], count[u], filled[u], out[u], log[field])
      BY <2>2, <3>1 DEF Place, PlaceIn
    <3>4. log[field] \in Seq(Items) /\ node[t] \in Items
      BY <1>5, <1>6
    <3>5. /\ PlaceIn(pc[u], node[u], at[u], seen[u], count[u], filled[u], out[u], log'[field])
          /\ Keeps(pc[u], seen[u], log[field], log'[field])
      BY <1>7, <3>2, <3>3, <3>4, PlaceGrows
    <3>6. Place(u)'
      BY <2>1, <3>1, <3>5 DEF Place, PlaceIn
    <3>7. AbstractCall(u)' = AbstractCall(u)
      BY <2>1, <3>1, <3>5, SameCall DEF Keeps
    <3> QED BY <3>6, <3>7
  <2> QED BY <2>3, <2>4
<1>10. Place(t)'
  BY <1>4 DEF Place, WalkPlace, NamePlace, SeenPCs
<1>11. Single(c)'
  <2>1. l \notin ReadPCs /\ l # "a_make" /\ l # "a_null"
    BY DEF ReadPCs
  <2>2. \A u \in Threads : Place(u)'
    BY <1>9, <1>10
  <2>3. \A u \in Threads : arr'[u] = arr[u] /\ (u # t => pc'[u] = pc[u])
    BY <1>4 DEF Same
  <2>4. field' = field
    BY <1>1
  <2> QED BY <1>4, <2>1, <2>2, <2>3, <2>4 DEF Single
<1>12. /\ AbstractCall(t) = Rec("append", node[t], FALSE, <<>>)
       /\ AbstractCall(t)' = Rec("append", node[t], TRUE, <<>>)
  BY <1>1, <1>4, CallByPlace DEF ByPlace, FreshPCs, LinkedPCs
<1>13. UniqueNames => ~NameIsTaken(node[t])
  BY <1>1, <1>3, <1>5 DEF Place, NamePlace, NameIsTaken, Names
<1>14. Moves
  BY <1>8, <1>9, <1>12, <1>13, AbsAppend
<1> QED BY <1>11, <1>14

(* The creation of the array: nobody has begun to work on one.             *)
LEMMA CreateMoves ==
  ASSUME Inv, Walks, NEW c, Single(c), NEW t \in Threads, CreateArray(t)
  PROVE  Single(c)' /\ Moves
<1>1. /\ pc[t] = "a_make" /\ pc' = [pc EXCEPT ![t] = "a_load"]
      /\ field' = t /\ log' = [log EXCEPT ![t] = <<>>]
      /\ UNCHANGED <<node, arr, walk>>
  BY DEF CreateArray, Goto, Set
<1>2. Types /\ field = NoThread
  BY <1>1 DEF Inv, Single
<1>3. Same(t) /\ pc'[t] = "a_load" /\ node'[t] = node[t] /\ arr'[t] = arr[t]
  BY <1>1, <1>2, OnlyMoves
<1>4. Appended' = Appended
  <2>1. t # NoThread /\ log'[t] = <<>>
    BY <1>1, <1>2 DEF Types
  <2> QED BY <1>1, <1>2, <2>1 DEF Appended
<1>5. \A u \in Threads : arr[u] = NoThread /\ pc[u] \notin ArrPCs
  BY <1>2 DEF Single, Inv, Ok
<1>6. ASSUME NEW u \in Threads \ {t}
      PROVE  AbstractCall(u)' = AbstractCall(u) /\ Place(u)'
  <2>1. /\ pc'[u] = pc[u] /\ node'[u] = node[u] /\ arr'[u] = arr[u] /\ at'[u] = at[u]
        /\ count'[u] = count[u] /\ filled'[u] = filled[u] /\ out'[u] = out[u]
        /\ seen'[u] = seen[u]
    BY <1>3 DEF Same
  <2>2. Place(u) /\ pc[u] \notin ArrPCs
    BY <1>5 DEF Single
  <2>3. AbstractCall(u)' = AbstractCall(u)
    BY <1>5, <2>1, SameCall
  <2>4. /\ WalkPlace(pc[u], at[u], seen[u], count[u], filled[u], out[u], log'[arr[u]])
        /\ NamePlace(pc[u], node[u], at[u], log'[arr[u]])
    BY <2>2, PlaceOutside DEF Place
  <2> QED BY <2>1, <2>3, <2>4 DEF Place
<1>7. Place(t)'
  BY <1>3 DEF Place, WalkPlace, NamePlace, SeenPCs
<1>8. AbstractCall(t)' = AbstractCall(t)
  BY <1>1, <1>3, CallByPlace DEF ByPlace, FreshPCs
<1>9. Single(c)'
  <2>1. "a_load" \notin ReadPCs
    BY DEF ReadPCs
  <2>2. \A u \in Threads : Place(u)' /\ arr'[u] = NoThread
    BY <1>3, <1>5, <1>6, <1>7 DEF Same
  <2>3. \A u \in Threads : pc'[u] # "a_make"
    BY <1>1, <1>3 DEF Single, Same
  <2>4. \A u \in Threads : pc'[u] \in ReadPCs => u \in Readers
    BY <1>3, <2>1 DEF Single, Same
  <2>5. field' # NoThread
    BY <1>1
  <2> QED BY <2>2, <2>3, <2>4, <2>5 DEF Single
<1> QED BY <1>4, <1>6, <1>8, <1>9, AbsStutter

(* The first and the next node of a walk that stands behind n nodes.       *)
LEMMA FirstNode ==
  ASSUME NEW s \in Seq(Items), NEW a \in Threads, Follows(s, a)
  PROVE  /\ Len(s) \in Nat
         /\ IF first[a] = NoItem THEN s = <<>> /\ Len(s) = 0
            ELSE 1 \in DOMAIN s /\ first[a] = s[1]
<1>1. Len(s) \in Nat /\ DOMAIN s = 1 .. Len(s) /\ \A i \in DOMAIN s : s[i] \in Items
  BY LenProperties
<1>2. CASE s = <<>>
  BY <1>1, <1>2 DEF Follows
<1>3. CASE s # <<>>
  <2>1. 1 \in DOMAIN s
    BY <1>1, <1>3, EmptySeq
  <2> QED BY <1>1, <1>3, <2>1 DEF Follows
<1> QED BY <1>2, <1>3

LEMMA NextNode ==
  ASSUME NEW s \in Seq(Items), NEW a \in Threads, Follows(s, a), NEW n \in Nat,
         n + 1 \in DOMAIN s
  PROVE  /\ n + 1 <= Len(s) /\ Len(s) \in Nat
         /\ IF next[s[n + 1]] = NoItem THEN n + 1 = Len(s)
            ELSE n + 2 \in DOMAIN s /\ next[s[n + 1]] = s[n + 2]
<1>1. Len(s) \in Nat /\ DOMAIN s = 1 .. Len(s) /\ \A i \in DOMAIN s : s[i] \in Items
  BY LenProperties
<1>2. n + 1 <= Len(s) /\ n + 1 + 1 = n + 2
  BY <1>1
<1>3. CASE n + 1 = Len(s)
  <2>1. next[s[n + 1]] = NoItem
    BY <1>3 DEF Follows
  <2> QED BY <1>1, <1>2, <1>3, <2>1
<1>4. CASE n + 1 # Len(s)
  <2>5. n + 1 \in Nat /\ n + 2 \in Nat /\ Len(s) \in Nat
    BY <1>1
  <2>6. n + 1 <= Len(s) /\ n + 1 # Len(s)
    BY <1>2, <1>4
  <2>7. n + 2 <= Len(s)
    BY ONLY <2>5, <2>6, n \in Nat
  <2>1. n + 2 \in 1 .. Len(s)
    BY <2>5, <2>7
  <2>2. next[s[n + 1]] = s[n + 1 + 1]
    BY <1>4 DEF Follows
  <2>3. s[n + 2] \in Items
    BY <1>1, <2>1
  <2> QED BY <1>1, <1>2, <2>1, <2>2, <2>3
<1> QED BY <1>3, <1>4

(* One step of a getter.                                                   *)
LEMMA ReadStays ==
  ASSUME NEW c, Single(c), NEW t \in Threads, Same(t), UNCHANGED <<log, field>>,
         pc[t] \in ReadPCs, pc'[t] \in ReadPCs, arr'[t] \in {arr[t], field}, Place(t)'
  PROVE  /\ Single(c)' /\ Appended' = Appended /\ OthersCall(t)
         /\ AbstractCall(t)' = AbstractCall(t) => Moves
<1>1. MayBe(c, t)
  BY DEF MayBe, Single, ReadPCs
<1> QED BY <1>1, Quietly

LEMMA ReadFieldMoves ==
  ASSUME Inv, Walks, NEW c, Single(c), NEW t \in Threads, ReadField(t)
  PROVE  Single(c)' /\ Moves
<1>1. PICK l \in {"r_ret", "r_first"} :
        /\ pc' = [pc EXCEPT ![t] = l] /\ (l = "r_ret" <=> field = NoThread)
  BY DEF ReadField, Goto
<1>2. /\ pc[t] = "r_load" /\ arr' = [arr EXCEPT ![t] = field]
      /\ UNCHANGED <<log, field, node, walk>>
  BY DEF ReadField, shared, Set
<1>3. Types /\ Place(t)
  BY DEF Inv, Single
<1>4. /\ Same(t) /\ pc'[t] = l /\ arr'[t] = field /\ at'[t] = at[t]
      /\ count'[t] = count[t] /\ filled'[t] = filled[t]
      /\ out'[t] = out[t] /\ seen'[t] = seen[t]
  BY <1>1, <1>2, <1>3 DEF Same, Types, walk
<1>5. Place(t)'
  BY <1>1, <1>2, <1>3, <1>4 DEF Place, WalkPlace, NamePlace, SeenPCs
<1>6. pc[t] \in ReadPCs /\ pc'[t] \in ReadPCs
  BY <1>1, <1>2, <1>4 DEF ReadPCs
<1>7. /\ Single(c)' /\ Appended' = Appended /\ OthersCall(t)
      /\ AbstractCall(t)' = AbstractCall(t) => Moves
  BY <1>2, <1>4, <1>5, <1>6, ReadStays
<1>8. AbstractCall(t) = Rec("read", NoItem, FALSE, <<>>)
  BY <1>2, CallByPlace DEF ByPlace
<1>9. CASE l = "r_ret"
  <2>1. AbstractCall(t)' = Rec("read", NoItem, TRUE, <<>>)
    BY <1>1, <1>4, <1>9, CallByPlace DEF ByPlace
  <2>2. Appended = <<>>
    BY <1>1, <1>9 DEF Appended
  <2> QED BY <1>7, <1>8, <2>1, <2>2, AbsRead DEF OthersCall
<1>10. CASE l = "r_first"
  <2>1. AbstractCall(t)' = Rec("read", NoItem, FALSE, <<>>)
    BY <1>4, <1>10, CallByPlace DEF ByPlace
  <2> QED BY <1>7, <1>8, <2>1
<1> QED BY <1>9, <1>10

LEMMA CountFirstMoves ==
  ASSUME Inv, Walks, NEW c, Single(c), NEW t \in Threads, CountFirst(t)
  PROVE  Single(c)' /\ Moves
<1>1. /\ pc[t] = "r_first" /\ pc' = [pc EXCEPT ![t] = "r_count"]
      /\ at' = [at EXCEPT ![t] = first[arr[t]]]
      /\ UNCHANGED <<log, field, node, arr, count, filled, out, seen>>
  BY DEF CountFirst, shared, Set, Goto
<1>2. Types /\ Place(t)
  BY DEF Inv, Single
<1>3. /\ Same(t) /\ pc'[t] = "r_count" /\ arr'[t] = arr[t] /\ at'[t] = first[arr[t]]
      /\ count'[t] = count[t] /\ filled'[t] = filled[t]
      /\ out'[t] = out[t] /\ seen'[t] = seen[t]
  BY <1>1, <1>2 DEF Same, Types, Walks
<1>4. /\ arr[t] \in Threads /\ arr[t] # NoThread /\ log[arr[t]] \in Seq(Items)
      /\ Appended = log[arr[t]] /\ Follows(log[arr[t]], arr[t])
  BY <1>1, TheList DEF ArrPCs
<1>5. PICK s \in Seq(Items) : s = log[arr[t]]
  BY <1>4
<1>6. /\ Len(s) \in Nat
      /\ first[arr[t]] = NoItem => s = <<>> /\ Len(s) = 0
      /\ first[arr[t]] # NoItem => 1 \in DOMAIN s /\ first[arr[t]] = s[1]
  BY <1>4, <1>5, FirstNode
<1>7. seen[t] = 0 /\ count[t] = 0 /\ filled[t] = 0 /\ out[t] = <<>>
  BY <1>1, <1>2 DEF Place, WalkPlace
<1>8. Place(t)'
  <2>1. WalkPlace("r_count", first[arr[t]], 0, 0, 0, <<>>, s)
    BY <1>6 DEF WalkPlace
  <2>2. NamePlace("r_count", node'[t], first[arr[t]], s)
    BY DEF NamePlace
  <2> QED BY <1>1, <1>3, <1>5, <1>7, <2>1, <2>2 DEF Place
<1>9. /\ Single(c)' /\ Appended' = Appended /\ OthersCall(t)
      /\ AbstractCall(t)' = AbstractCall(t) => Moves
  BY <1>1, <1>3, <1>8, ReadStays DEF ReadPCs
<1>10. AbstractCall(t) = Rec("read", NoItem, FALSE, <<>>)
  BY <1>1, CallByPlace DEF ByPlace
<1>11. CASE first[arr[t]] = NoItem
  <2>1. AbstractCall(t)' = Rec("read", NoItem, TRUE, SubSeq(log'[arr'[t]], 1, seen'[t]))
    BY <1>3, <1>4, <1>11, CallByPlace DEF ByPlace
  <2>2. SubSeq(log'[arr'[t]], 1, seen'[t]) = SubSeq(s, 1, Len(s))
    BY <1>1, <1>3, <1>5, <1>6, <1>7, <1>11
  <2>3. AbstractCall(t)' = Rec("read", NoItem, TRUE, Appended)
    BY <1>4, <1>5, <2>1, <2>2, SubSeqFull
  <2> QED BY <1>9, <1>10, <2>3, AbsRead DEF OthersCall
<1>12. CASE first[arr[t]] # NoItem
  <2>1. AbstractCall(t)' = Rec("read", NoItem, FALSE, <<>>)
    BY <1>3, <1>12, CallByPlace DEF ByPlace
  <2> QED BY <1>9, <1>10, <2>1
<1> QED BY <1>11, <1>12

LEMMA CountWalkMoves ==
  ASSUME Inv, Walks, NEW c, Agreed(c), Single(c), NEW t \in Threads, CountWalk(t)
  PROVE  Single(c)' /\ Moves
<1>1. /\ pc[t] = "r_count" /\ UNCHANGED <<log, field, node, arr, filled, out>>
  BY DEF CountWalk, shared
<1>2. Types /\ Place(t)
  BY DEF Inv, Single
<1>3. /\ arr[t] \in Threads /\ arr[t] # NoThread /\ log[arr[t]] \in Seq(Items)
      /\ Appended = log[arr[t]] /\ Follows(log[arr[t]], arr[t])
  BY <1>1, TheList DEF ArrPCs
<1>4. PICK s \in Seq(Items) : s = log[arr[t]]
  BY <1>3
<1>5. Len(s) \in Nat
  BY LenProperties
<1>6. WalkPlace("r_count", at[t], seen[t], count[t], filled[t], out[t], s)
  BY <1>1, <1>2, <1>4 DEF Place
<1>7. /\ count[t] = seen[t] /\ seen[t] \in 0 .. Len(s) /\ filled[t] = 0 /\ out[t] = <<>>
      /\ at[t] # NoItem => seen[t] + 1 \in DOMAIN s /\ at[t] = s[seen[t] + 1]
  BY <1>6 DEF WalkPlace, SeenPCs
<1>8. CASE at[t] = NoItem
  <2>1. pc' = [pc EXCEPT ![t] = "r_again"] /\ UNCHANGED <<at, count, seen>>
    BY <1>8 DEF CountWalk, Goto
  <2>2. /\ Same(t) /\ pc'[t] = "r_again" /\ arr'[t] = arr[t] /\ at'[t] = at[t]
        /\ count'[t] = count[t] /\ filled'[t] = filled[t]
        /\ out'[t] = out[t] /\ seen'[t] = seen[t]
    BY <1>1, <1>2, <2>1, OnlyMoves DEF walk
  <2>3. Place(t)'
    <3>1. WalkPlace("r_again", at[t], seen[t], count[t], filled[t], out[t], s)
      BY <1>7 DEF WalkPlace
    <3>2. NamePlace("r_again", node'[t], at[t], s)
      BY DEF NamePlace
    <3> QED BY <1>1, <1>4, <2>2, <3>1, <3>2 DEF Place
  <2>4. Single(c)' /\ (AbstractCall(t)' = AbstractCall(t) => Moves)
    BY <1>1, <2>2, <2>3, ReadStays DEF ReadPCs
  <2>5. /\ AbstractCall(t) = Rec("read", NoItem, TRUE, SubSeq(log[arr[t]], 1, seen[t]))
        /\ AbstractCall(t)' = Rec("read", NoItem, TRUE, SubSeq(log'[arr'[t]], 1, seen'[t]))
    BY <1>1, <1>3, <1>8, <2>2, CallByPlace DEF ByPlace, SeenPCs
  <2>6. SubSeq(log'[arr'[t]], 1, seen'[t]) = SubSeq(log[arr[t]], 1, seen[t])
    BY <1>1, <2>2
  <2> QED BY <2>4, <2>5, <2>6
<1>9. CASE at[t] # NoItem
  <2>1. /\ pc' = pc /\ at' = [at EXCEPT ![t] = next[at[t]]]
        /\ count' = [count EXCEPT ![t] = count[t] + Width[at[t]]]
        /\ seen' = [seen EXCEPT ![t] = seen[t] + 1]
    BY <1>9 DEF CountWalk, Set
  <2>2. Width[at[t]] = 1
    BY <1>9 DEF Walks, Agreed
  <2>3. /\ Same(t) /\ pc'[t] = "r_count" /\ arr'[t] = arr[t] /\ at'[t] = next[at[t]]
        /\ count'[t] = seen[t] + 1 /\ filled'[t] = filled[t]
        /\ out'[t] = out[t] /\ seen'[t] = seen[t] + 1
    BY <1>1, <1>2, <1>7, <2>1, <2>2 DEF Same, Types, Walks
  <2>4. PICK n \in Nat : n = seen[t]
    BY <1>7
  <2>5. /\ n + 1 <= Len(s)
        /\ next[at[t]] = NoItem => n + 1 = Len(s)
        /\ next[at[t]] # NoItem => n + 2 \in DOMAIN s /\ next[at[t]] = s[n + 2]
    <3>1. n + 1 \in DOMAIN s /\ at[t] = s[n + 1]
      BY <1>7, <1>9, <2>4
    <3>2. arr[t] \in Threads /\ Follows(s, arr[t])
      BY <1>3, <1>4
    <3>3. /\ n + 1 <= Len(s)
          /\ IF next[s[n + 1]] = NoItem THEN n + 1 = Len(s)
             ELSE n + 2 \in DOMAIN s /\ next[s[n + 1]] = s[n + 2]
      BY <3>1, <3>2, NextNode
    <3> QED BY <3>1, <3>3
  <2>6. Place(t)'
    <3>1. n + 1 \in 0 .. Len(s) /\ n + 1 + 1 = n + 2
      BY <1>5, <2>5
    <3>2. WalkPlace("r_count", next[at[t]], n + 1, n + 1, 0, <<>>, s)
      BY <2>5, <3>1 DEF WalkPlace
    <3>3. NamePlace("r_count", node'[t], next[at[t]], s)
      BY DEF NamePlace
    <3> QED BY <1>1, <1>4, <1>7, <2>3, <2>4, <3>2, <3>3 DEF Place
  <2>7. /\ Single(c)' /\ Appended' = Appended /\ OthersCall(t)
        /\ AbstractCall(t)' = AbstractCall(t) => Moves
    BY <1>1, <2>3, <2>6, ReadStays DEF ReadPCs
  <2>8. AbstractCall(t) = Rec("read", NoItem, FALSE, <<>>)
    BY <1>1, <1>9, CallByPlace DEF ByPlace
  <2>9. CASE next[at[t]] = NoItem
    <3>1. AbstractCall(t)' = Rec("read", NoItem, TRUE, SubSeq(log'[arr'[t]], 1, seen'[t]))
      BY <1>3, <2>3, <2>9, CallByPlace DEF ByPlace
    <3>2. SubSeq(log'[arr'[t]], 1, seen'[t]) = SubSeq(s, 1, Len(s))
      BY <1>1, <1>4, <2>3, <2>4, <2>5, <2>9
    <3>3. AbstractCall(t)' = Rec("read", NoItem, TRUE, Appended)
      BY <1>3, <1>4, <3>1, <3>2, SubSeqFull
    <3> QED BY <2>7, <2>8, <3>3, AbsRead DEF OthersCall
  <2>10. CASE next[at[t]] # NoItem
    <3>1. AbstractCall(t)' = Rec("read", NoItem, FALSE, <<>>)
      BY <2>3, <2>10, CallByPlace DEF ByPlace
    <3> QED BY <2>7, <2>8, <3>1
  <2> QED BY <2>9, <2>10
<1> QED BY <1>8, <1>9

(* The second walk of a getter begins: the answer stands already.          *)
LEMMA CopyFirstMoves ==
  ASSUME Inv, Walks, NEW c, Single(c), NEW t \in Threads, CopyFirst(t)
  PROVE  Single(c)' /\ Moves
<1>1. /\ pc[t] = "r_again" /\ pc' = [pc EXCEPT ![t] = "r_copy"]
      /\ at' = [at EXCEPT ![t] = first[arr[t]]]
      /\ UNCHANGED <<log, field, node, arr, count, filled, out, seen>>
  BY DEF CopyFirst, shared, Set, Goto
<1>2. Types /\ Place(t)
  BY DEF Inv, Single
<1>3. /\ Same(t) /\ pc'[t] = "r_copy" /\ arr'[t] = arr[t] /\ at'[t] = first[arr[t]]
      /\ count'[t] = count[t] /\ filled'[t] = filled[t]
      /\ out'[t] = out[t] /\ seen'[t] = seen[t]
  BY <1>1, <1>2 DEF Same, Types, Walks
<1>4. /\ arr[t] \in Threads /\ arr[t] # NoThread /\ log[arr[t]] \in Seq(Items)
      /\ Follows(log[arr[t]], arr[t])
  BY <1>1, TheList DEF ArrPCs
<1>5. PICK s \in Seq(Items) : s = log[arr[t]]
  BY <1>4
<1>6. /\ Len(s) \in Nat
      /\ first[arr[t]] = NoItem => s = <<>> /\ Len(s) = 0
      /\ first[arr[t]] # NoItem => 1 \in DOMAIN s /\ first[arr[t]] = s[1]
  BY <1>4, <1>5, FirstNode
<1>7. PICK n \in 0 .. Len(s) : seen[t] = n /\ count[t] = n
  BY <1>1, <1>2, <1>5 DEF Place, WalkPlace, SeenPCs
<1>8. filled[t] = 0 /\ out[t] = <<>>
  BY <1>1, <1>2 DEF Place, WalkPlace
<1>9. Place(t)'
  <2>1. n \in Nat /\ 0 \in 0 .. n
    BY <1>6
  <2>2. first[arr[t]] = NoItem => n = 0
    BY <1>6
  <2>3. SubSeq(s, 1, 0) = <<>>
    BY SubSeqEmpty
  <2>4. first[arr[t]] # NoItem => 0 + 1 \in DOMAIN s /\ first[arr[t]] = s[0 + 1]
    BY <1>6
  <2>5. WalkPlace("r_copy", first[arr[t]], n, n, 0, <<>>, s)
    BY <2>1, <2>2, <2>3, <2>4 DEF WalkPlace
  <2>6. NamePlace("r_copy", node'[t], first[arr[t]], s)
    BY DEF NamePlace
  <2> QED BY <1>1, <1>3, <1>5, <1>7, <1>8, <2>5, <2>6 DEF Place
<1>10. Single(c)' /\ (AbstractCall(t)' = AbstractCall(t) => Moves)
  BY <1>1, <1>3, <1>9, ReadStays DEF ReadPCs
<1>11. /\ AbstractCall(t) = Rec("read", NoItem, TRUE, SubSeq(log[arr[t]], 1, seen[t]))
       /\ AbstractCall(t)' = Rec("read", NoItem, TRUE, SubSeq(log'[arr'[t]], 1, seen'[t]))
  BY <1>1, <1>3, <1>4, CallByPlace DEF ByPlace, SeenPCs
<1>12. SubSeq(log'[arr'[t]], 1, seen'[t]) = SubSeq(log[arr[t]], 1, seen[t])
  BY <1>1, <1>3
<1> QED BY <1>10, <1>11, <1>12

(* The copy stops behind the node it counted last, not behind a node that  *)
(* has been appended since.                                                *)
LEMMA CopyWalkMoves ==
  ASSUME Inv, Walks, NEW c, Agreed(c), Single(c), NEW t \in Threads, CopyWalk(t)
  PROVE  Single(c)' /\ Moves
<1>1. /\ pc[t] = "r_copy" /\ UNCHANGED <<log, field, node, arr, count, seen>>
  BY DEF CopyWalk, shared
<1>2. Types /\ Place(t) /\ t \in Bounded
  BY <1>1 DEF Inv, Single, Agreed, ReadPCs
<1>3. /\ arr[t] \in Threads /\ arr[t] # NoThread /\ log[arr[t]] \in Seq(Items)
      /\ Follows(log[arr[t]], arr[t])
  BY <1>1, TheList DEF ArrPCs
<1>4. PICK s \in Seq(Items) : s = log[arr[t]]
  BY <1>3
<1>5. Len(s) \in Nat
  BY LenProperties
<1>6. WalkPlace("r_copy", at[t], seen[t], count[t], filled[t], out[t], s)
  BY <1>1, <1>2, <1>4 DEF Place
<1>7. PICK n \in 0 .. Len(s) : seen[t] = n /\ count[t] = n
  BY <1>6 DEF WalkPlace, SeenPCs
<1>8. PICK f \in 0 .. n : filled[t] = f /\ out[t] = SubSeq(s, 1, f)
  BY <1>6, <1>7 DEF WalkPlace
<1>9. /\ at[t] # NoItem => f + 1 \in DOMAIN s /\ at[t] = s[f + 1]
      /\ at[t] = NoItem => f = n
  BY <1>6, <1>7, <1>8 DEF WalkPlace
<1>10. n \in Nat /\ f \in Nat /\ f <= n
  BY <1>5, <1>7, <1>8
<1>11. HasRoom(t) <=> f < n
  BY <1>2, <1>7, <1>8 DEF HasRoom
<1>12. AbstractCall(t) = Rec("read", NoItem, TRUE, SubSeq(log[arr[t]], 1, seen[t]))
  BY <1>1, <1>3, CallByPlace DEF ByPlace, SeenPCs
<1>13. CASE at[t] = NoItem \/ ~HasRoom(t)
  <2>1. pc' = [pc EXCEPT ![t] = "r_end"] /\ UNCHANGED <<at, filled, out>>
    BY <1>13 DEF CopyWalk, Goto
  <2>2. /\ Same(t) /\ pc'[t] = "r_end" /\ arr'[t] = arr[t] /\ at'[t] = at[t]
        /\ count'[t] = count[t] /\ filled'[t] = filled[t]
        /\ out'[t] = out[t] /\ seen'[t] = seen[t]
    BY <1>1, <1>2, <2>1, OnlyMoves DEF walk
  <2>3. f = n
    BY <1>9, <1>10, <1>11, <1>13
  <2>4. Place(t)'
    <3>1. WalkPlace("r_end", at[t], n, n, n, SubSeq(s, 1, n), s)
      BY <1>7 DEF WalkPlace
    <3>2. NamePlace("r_end", node'[t], at[t], s)
      BY DEF NamePlace
    <3> QED BY <1>1, <1>4, <1>7, <1>8, <2>2, <2>3, <3>1, <3>2 DEF Place
  <2>5. Single(c)' /\ (AbstractCall(t)' = AbstractCall(t) => Moves)
    BY <1>1, <2>2, <2>4, ReadStays DEF ReadPCs
  <2>6. AbstractCall(t)' = Rec("read", NoItem, TRUE, SubSeq(log'[arr'[t]], 1, seen'[t]))
    BY <1>3, <2>2, CallByPlace DEF ByPlace, SeenPCs
  <2>7. SubSeq(log'[arr'[t]], 1, seen'[t]) = SubSeq(log[arr[t]], 1, seen[t])
    BY <1>1, <2>2
  <2> QED BY <1>12, <2>5, <2>6, <2>7
<1>14. CASE at[t] # NoItem /\ HasRoom(t)
  <2>1. f < n /\ f + 1 \in 0 .. n /\ f + 1 \in DOMAIN s /\ at[t] = s[f + 1]
    BY <1>9, <1>10, <1>11, <1>14
  <2>2. Width[at[t]] = 1
    BY <1>14 DEF Walks, Agreed
  <2>3. ~(filled[t] + Width[at[t]] > count[t] + 1)
    BY <1>7, <1>8, <1>10, <2>1, <2>2
  <2>4. /\ pc' = pc /\ at' = [at EXCEPT ![t] = next[at[t]]]
        /\ filled' = [filled EXCEPT ![t] = filled[t] + Width[at[t]]]
        /\ out' = [out EXCEPT ![t] = Append(out[t], at[t])]
    BY <1>14, <2>3 DEF CopyWalk, Set
  <2>5. /\ Same(t) /\ pc'[t] = "r_copy" /\ arr'[t] = arr[t] /\ at'[t] = next[at[t]]
        /\ count'[t] = count[t] /\ filled'[t] = f + 1
        /\ out'[t] = Append(out[t], at[t]) /\ seen'[t] = seen[t]
    BY <1>1, <1>2, <1>8, <2>2, <2>4 DEF Same, Types, Walks
  <2>6. /\ f + 1 <= Len(s)
        /\ next[at[t]] = NoItem => f + 1 = Len(s)
        /\ next[at[t]] # NoItem => f + 2 \in DOMAIN s /\ next[at[t]] = s[f + 2]
    BY <1>3, <1>4, <1>10, <2>1, NextNode
  <2>7. out'[t] = SubSeq(s, 1, f + 1)
    BY <1>8, <1>10, <2>1, <2>5, CopyGrows
  <2>8. Place(t)'
    <3>1. next[at[t]] = NoItem => f + 1 = n
      BY <1>5, <1>7, <1>10, <2>1, <2>6
    <3>2. f + 1 + 1 = f + 2
      BY <1>10
    <3>3. WalkPlace("r_copy", next[at[t]], n, n, f + 1, SubSeq(s, 1, f + 1), s)
      BY <1>7, <2>1, <2>6, <3>1, <3>2 DEF WalkPlace
    <3>4. NamePlace("r_copy", node'[t], next[at[t]], s)
      BY DEF NamePlace
    <3> QED BY <1>1, <1>4, <1>7, <2>5, <2>7, <3>3, <3>4 DEF Place
  <2>9. Single(c)' /\ (AbstractCall(t)' = AbstractCall(t) => Moves)
    BY <1>1, <2>5, <2>8, ReadStays DEF ReadPCs
  <2>10. AbstractCall(t)' = Rec("read", NoItem, TRUE, SubSeq(log'[arr'[t]], 1, seen'[t]))
    BY <1>3, <2>5, CallByPlace DEF ByPlace, SeenPCs
  <2>11. SubSeq(log'[arr'[t]], 1, seen'[t]) = SubSeq(log[arr[t]], 1, seen[t])
    BY <1>1, <2>5
  <2> QED BY <1>12, <2>9, <2>10, <2>11
<1> QED BY <1>13, <1>14

(* The terminating NULL hides nothing that was counted.                    *)
LEMMA CopyEndMoves ==
  ASSUME Inv, Walks, NEW c, Single(c), NEW t \in Threads, CopyEnd(t)
  PROVE  Single(c)' /\ Moves
<1>1. /\ pc[t] = "r_end" /\ pc' = [pc EXCEPT ![t] = "r_ret"]
      /\ out' = [out EXCEPT ![t] = Terminated(t)]
      /\ UNCHANGED <<log, field, node, arr, at, count, filled, seen>>
  BY DEF CopyEnd, shared, Set, Goto
<1>2. Types /\ Place(t)
  BY DEF Inv, Single
<1>3. /\ Same(t) /\ pc'[t] = "r_ret" /\ arr'[t] = arr[t] /\ out'[t] = Terminated(t)
  BY <1>1, <1>2 DEF Same, Types, Walks
<1>4. /\ arr[t] # NoThread /\ log[arr[t]] \in Seq(Items)
  BY <1>1, TheList DEF ArrPCs
<1>5. PICK n \in 0 .. Len(log[arr[t]]) :
        /\ seen[t] = n /\ count[t] = n /\ filled[t] = n
        /\ out[t] = SubSeq(log[arr[t]], 1, n)
  BY <1>1, <1>2 DEF Place, WalkPlace, SeenPCs
<1>6. n \in Nat
  BY <1>4, LenProperties
<1>7. Terminated(t) = out[t]
  BY <1>5, <1>6 DEF Terminated
<1>8. Place(t)'
  BY <1>3 DEF Place, WalkPlace, NamePlace, SeenPCs
<1>9. Single(c)' /\ (AbstractCall(t)' = AbstractCall(t) => Moves)
  BY <1>1, <1>3, <1>8, ReadStays DEF ReadPCs
<1>10. /\ AbstractCall(t) = Rec("read", NoItem, TRUE, SubSeq(log[arr[t]], 1, seen[t]))
       /\ AbstractCall(t)' = Rec("read", NoItem, TRUE, out'[t])
  BY <1>1, <1>3, <1>4, CallByPlace DEF ByPlace, SeenPCs
<1>11. out'[t] = SubSeq(log[arr[t]], 1, seen[t])
  BY <1>3, <1>5, <1>7
<1> QED BY <1>9, <1>10, <1>11

(* The calls begin and return.                                             *)
LEMMA ReturnMoves ==
  ASSUME Inv, Walks, NEW c, Single(c), NEW t \in Threads, AppendReturn(t) \/ ReadReturn(t)
  PROVE  Single(c)' /\ Moves
<1>1. pc[t] \in {"a_yes", "a_no", "r_ret"} /\ Leave(t) /\ UNCHANGED <<log, field>>
  BY DEF AppendReturn, ReadReturn, shared
<1>2. Types
  BY DEF Inv
<1>3. /\ Same(t) /\ pc'[t] = "idle" /\ arr'[t] = NoThread /\ out'[t] = <<>>
      /\ count'[t] = 0 /\ filled'[t] = 0 /\ seen'[t] = 0
  BY <1>1, <1>2 DEF Leave, Goto, Set, Same, Types, Walks
<1>4. MayBe(c, t)
  BY <1>3 DEF MayBe, ReadPCs
<1>5. Place(t)'
  BY <1>3 DEF Place, WalkPlace, NamePlace, SeenPCs
<1>6. Single(c)' /\ Appended' = Appended /\ OthersCall(t)
  BY <1>1, <1>3, <1>4, <1>5, Quietly
<1>7. AbstractCall(t)' = Nothing
  BY <1>3, CallByPlace DEF ByPlace
<1>8. \E op, x, r : AbstractCall(t) = Rec(op, x, TRUE, r)
  <2>1. CASE pc[t] \in {"a_yes", "a_no"}
    <3>1. pc[t] \in LinkedPCs
      BY <2>1 DEF LinkedPCs
    <3>2. AbstractCall(t) = Rec("append", node[t], TRUE, <<>>)
      BY <3>1, CallByPlace DEF ByPlace
    <3> QED BY <3>2
  <2>2. CASE pc[t] = "r_ret"
    <3>1. \/ AbstractCall(t) = Rec("read", NoItem, TRUE, <<>>)
          \/ AbstractCall(t) = Rec("read", NoItem, TRUE, out[t])
      BY <2>2, CallByPlace DEF ByPlace
    <3> QED BY <3>1
  <2> QED BY <1>1, <2>1, <2>2
<1> QED BY <1>6, <1>7, <1>8, AbsReturn DEF OthersCall

LEMMA BeginMoves ==
  ASSUME Inv, Walks, NEW c, Agreed(c), Single(c), NEW t \in Threads,
         (\E x \in Items : BeginAppend(t, x)) \/ BeginRead(t)
  PROVE  Single(c)' /\ Moves
<1>1. Types /\ Place(t) /\ arr[t] \in {NoThread, field}
  BY DEF Inv, Single
<1>2. ASSUME NEW x \in Items, BeginAppend(t, x) PROVE Single(c)' /\ Moves
  <2>1. /\ pc[t] = "idle" /\ pc' = [pc EXCEPT ![t] = "a_null"]
        /\ node' = [node EXCEPT ![t] = x]
        /\ t \in Creators \/ field # NoThread
        /\ UNCHANGED <<log, field, arr, at, count, filled, out, seen>>
    BY <1>2 DEF BeginAppend, shared, walk, Set, Goto
  <2>2. /\ Same(t) /\ pc'[t] = "a_null" /\ node'[t] = x /\ arr'[t] = arr[t]
    BY <1>1, <2>1 DEF Same, Types
  <2>3. MayBe(c, t)
    BY <2>1, <2>2 DEF MayBe, ReadPCs, Agreed
  <2>4. Place(t)'
    BY <2>2 DEF Place, WalkPlace, NamePlace, SeenPCs
  <2>5. Single(c)' /\ Appended' = Appended /\ OthersCall(t)
    BY <2>1, <2>2, <2>3, <2>4, Quietly
  <2>6. /\ AbstractCall(t) = Nothing
        /\ AbstractCall(t)' = Rec("append", x, FALSE, <<>>)
    BY <2>1, <2>2, CallByPlace DEF ByPlace, FreshPCs
  <2> QED BY <2>5, <2>6, AbsBegin DEF OthersCall
<1>3. CASE BeginRead(t)
  <2>1. /\ pc[t] = "idle" /\ pc' = [pc EXCEPT ![t] = "r_load"] /\ t \in Readers
        /\ UNCHANGED <<log, field, node, arr, walk>>
    BY <1>3 DEF BeginRead, shared, Goto
  <2>2. /\ Same(t) /\ pc'[t] = "r_load" /\ arr'[t] = arr[t]
        /\ count'[t] = count[t] /\ filled'[t] = filled[t]
        /\ out'[t] = out[t] /\ seen'[t] = seen[t]
    BY <1>1, <2>1, OnlyMoves
  <2>3. MayBe(c, t)
    BY <2>1, <2>2 DEF MayBe
  <2>4. Place(t)'
    BY <1>1, <2>1, <2>2 DEF Place, WalkPlace, NamePlace, SeenPCs
  <2>5. Single(c)' /\ Appended' = Appended /\ OthersCall(t)
    BY <2>1, <2>2, <2>3, <2>4, Quietly
  <2>6. /\ AbstractCall(t) = Nothing
        /\ AbstractCall(t)' = Rec("read", NoItem, FALSE, <<>>)
    BY <2>1, <2>2, CallByPlace DEF ByPlace
  <2> QED BY <2>5, <2>6, AbsBegin DEF OthersCall
<1> QED BY <1>2, <1>3

LEMMA StandingStill ==
  ASSUME NEW c, Single(c), UNCHANGED vars
  PROVE  Single(c)' /\ Moves
<1>1. /\ UNCHANGED <<log, field, pc, node, arr, at, count, filled, out, seen>>
  BY DEF vars, shared, walk
<1>2. \A u \in Threads : AbstractCall(u)' = AbstractCall(u)
  BY <1>1, SameCall
<1>3. Appended' = Appended
  BY <1>1 DEF Appended
<1>4. Single(c)'
  BY <1>1 DEF Single, Place
<1> QED BY <1>2, <1>3, <1>4, AbsStutter

LEMMA NextMoves ==
  ASSUME NEW c, Agreed(c), Inv, Walks, Single(c), [Next]_vars
  PROVE  Single(c)' /\ Moves
<1>1. ASSUME NEW t \in Threads, Begin(t) PROVE Single(c)' /\ Moves
  <2>1. (\E x \in Items : BeginAppend(t, x)) \/ BeginRead(t)
    BY <1>1 DEF Begin
  <2> QED BY <2>1, BeginMoves
<1>2. ASSUME NEW t \in Threads, Step(t) PROVE Single(c)' /\ Moves
  <2>1. CASE AppendStep(t)
    BY <2>1, AppendMoves, CreateMoves, CheckWalkMoves, LinkMoves, ReturnMoves DEF AppendStep
  <2>2. CASE ReadStep(t)
    BY <2>2, ReadFieldMoves, CountFirstMoves, CountWalkMoves, CopyFirstMoves,
       CopyWalkMoves, CopyEndMoves, ReturnMoves DEF ReadStep
  <2> QED BY <1>2, <2>1, <2>2 DEF Step
<1> QED BY <1>1, <1>2, StandingStill DEF Next

(* The list of classes, and every list one thread creates whose getters    *)
(* stop at what they counted, is one log: an append takes effect where it  *)
(* links its node or meets its name, a getter answers with the whole list  *)
(* of the instant at which its count met the end (array.c, class.c).       *)
THEOREM ListIsOneLog ==
  ASSUME NEW c, Creators \subseteq {c}, Readers \subseteq Bounded,
         \A x \in Items : Width[x] = 1,
         UniqueNames => \A x, y \in Items : NameOf[x] = NameOf[y] => AddedBy[x] = AddedBy[y]
  PROVE  Spec => Abstract!Init /\ [][Abstract!Next]_(Abstract!vars)
<1> DEFINE Whole == Inv /\ Walks /\ Single(c)
<1>1. Agreed(c)
  BY DEF Agreed, Names
<1>2. Init => Whole
  BY InvInit, WalksInit, SingleInit
<1>3. Whole /\ [Next]_vars => Whole'
  BY <1>1, ArrayStep, WalksStep, NextMoves
<1>4. Whole /\ [Next]_vars => [Abstract!Next]_(Abstract!vars)
  BY <1>1, NextMoves DEF Moves
<1>5. Init => Abstract!Init
  BY AbsInit
<1> QED BY <1>2, <1>3, <1>4, <1>5, PTL DEF Spec
=============================================================================
