--------------------------- MODULE RegistryProofs ---------------------------
(***************************************************************************)
(* Theorems about ClassRegistry, for any threads, classes, prototypes and  *)
(* names: a name is given away once, and the list of classes has what the  *)
(* holder has whenever the run-time lock is free; the registry is the      *)
(* atomic map of Registry; and, though finishing, the addition of ivars,   *)
(* the look-ups and the registration of selectors take no lock, each       *)
(* structure has one user at a time, superclasses are finished, and ivars  *)
(* lie apart.                                                              *)
(***************************************************************************)
EXTENDS ClassRegistry, SumProofs

PCs == {"idle"} \cup CreatePCs \cup ProtoPCs \cup OtherPCs

Types ==
  /\ holder \subseteq Classes
  /\ list \in Seq(Classes)
  /\ pc \in [Threads -> PCs]
  /\ cls \in [Threads -> Classes \cup {NoClass}]
  /\ nm \in [Threads -> Names \cup {NoName}]
  /\ todo \in [Threads -> Seq(Protos)]

(* A selector is registered for a prototype if the thread has a class.     *)
ForPrototype(t) == pc[t] \in {"s_again", "s_insert"} /\ cls[t] # NoClass

(* Where a thread has the run-time lock.                                   *)
LockPCs == {"c_lookup", "c_fill", "c_insert", "c_append", "c_unlock", "c_refuse",
            "p_next", "p_validate", "p_super", "p_sels", "p_ivars", "p_extend",
            "p_done", "p_insert", "p_append", "p_refuse"}
HasLock(t) == pc[t] \in LockPCs \/ ForPrototype(t)

(* Where it has found the name of its class free, but not inserted it yet, *)
(* and where the class is in the holder but not in the list.               *)
BuildPCs == {"c_insert", "p_super", "p_sels", "p_ivars", "p_extend", "p_done",
             "p_insert"}
Builds(t) == pc[t] \in BuildPCs \/ ForPrototype(t)
AppendPCs == {"c_append", "p_append"}

Ok(t) ==
  /\ HasLock(t) => lock = t
  /\ pc[t] \in {"idle", "r_sels"} => cls[t] = NoClass
  /\ Builds(t) \/ pc[t] = "p_validate" => cls[t] \in Classes /\ NameOf[cls[t]] = nm[t]
  /\ Builds(t) \/ pc[t] = "c_fill" => Named(nm[t]) = {}
  /\ pc[t] \in AppendPCs => cls[t] \in holder

InList(c) == c \in Elems(list)
Missing(c) == \E t \in Threads : pc[t] \in AppendPCs /\ cls[t] = c
ListHas == \A c \in Classes : InList(c) <=> c \in holder /\ ~Missing(c)
ListOnce == \A i, j \in DOMAIN list : list[i] = list[j] => i = j
NamesUnique == \A c, d \in holder : NameOf[c] = NameOf[d] => c = d

Inv == Types /\ (\A t \in Threads : Ok(t)) /\ ListHas /\ ListOnce /\ NamesUnique

USE RegistryAssumption

LEMMA PointsAre ==
  PCs = {"idle", "c_lock", "c_lookup", "c_fill", "c_insert", "c_append",
         "c_unlock", "c_refuse", "p_lock", "p_next", "p_validate", "p_super",
         "p_sels", "s_again", "s_insert", "p_ivars", "p_extend", "p_done",
         "p_insert", "p_append", "p_refuse", "f_extend", "f_flag", "n_lookup",
         "n_flag", "n_ret", "r_sels"}
BY DEF PCs, CreatePCs, ProtoPCs, OtherPCs

LEMMA InvInit == Init => Inv
<1> SUFFICES ASSUME Init PROVE Inv
  OBVIOUS
<1>1. Types
  BY PointsAre DEF Init, Types
<1>2. ASSUME NEW t \in Threads PROVE Ok(t)
  BY DEF Init, Ok, HasLock, ForPrototype, Builds, LockPCs, BuildPCs, AppendPCs
<1>3. ListHas /\ ListOnce /\ NamesUnique
  BY DEF Init, ListHas, InList, Elems, ListOnce, NamesUnique
<1> QED BY <1>1, <1>2, <1>3 DEF Inv

(* A step that leaves the holder and the list alone disturbs only what     *)
(* holds of the thread that takes it.                                      *)
LEMMA LocalKeeps ==
  ASSUME Inv, Types', NEW t \in Threads,
         holder' = holder, list' = list,
         \A u \in Threads \ {t} :
           pc'[u] = pc[u] /\ cls'[u] = cls[u] /\ nm'[u] = nm[u],
         \/ lock' = lock
         \/ lock = NoThread /\ lock' = t
         \/ lock = t /\ lock' = NoThread,
         pc[t] \notin AppendPCs, pc'[t] \notin AppendPCs,
         Ok(t)'
  PROVE  Inv'
<1>1. ASSUME NEW u \in Threads \ {t} PROVE Ok(u)'
  <2>1. Ok(u) /\ pc'[u] = pc[u] /\ cls'[u] = cls[u] /\ nm'[u] = nm[u]
    BY DEF Inv
  <2>2. HasLock(u)' = HasLock(u) /\ Builds(u)' = Builds(u)
    BY <2>1 DEF HasLock, Builds, ForPrototype
  <2>3. HasLock(u) => lock' = u
    BY <2>1 DEF Ok
  <2> QED BY <2>1, <2>2, <2>3 DEF Ok, Named
<1>2. ASSUME NEW c PROVE Missing(c)' <=> Missing(c)
  BY DEF Missing
<1>3. ListHas'
  BY <1>2 DEF Inv, ListHas, InList
<1> QED BY <1>1, <1>3 DEF Inv, ListOnce, NamesUnique

LEMMA SameKeeps ==
  ASSUME Inv, UNCHANGED <<holder, list, lock, pc, cls, nm, todo>>
  PROVE  Inv'
<1>1. Types' /\ ListOnce' /\ NamesUnique'
  BY DEF Inv, Types, ListOnce, NamesUnique
<1>2. ListHas'
  BY DEF Inv, ListHas, InList, Missing
<1>3. \A t \in Threads : Ok(t)'
  BY DEF Inv, Ok, HasLock, Builds, ForPrototype, Named
<1> QED BY <1>1, <1>2, <1>3 DEF Inv

(* A thread goes to a point at which it has neither the lock nor a class   *)
(* to register, and does not touch the lock.                               *)
LEMMA OutsideKeeps ==
  ASSUME Inv, NEW t \in Threads, NEW l \in PCs,
         pc' = [pc EXCEPT ![t] = l],
         UNCHANGED <<holder, list, lock>>,
         \A u \in Threads \ {t} : cls'[u] = cls[u] /\ nm'[u] = nm[u],
         cls' \in [Threads -> Classes \cup {NoClass}],
         nm' \in [Threads -> Names \cup {NoName}],
         todo' \in [Threads -> Seq(Protos)],
         pc[t] \notin AppendPCs,
         l \notin LockPCs \cup BuildPCs \cup AppendPCs \cup {"s_again", "s_insert"},
         l \in {"idle", "r_sels"} => cls'[t] = NoClass
  PROVE  Inv'
<1>1. Types'
  BY DEF Inv, Types
<1>2. pc'[t] = l /\ \A u \in Threads \ {t} : pc'[u] = pc[u]
  BY DEF Inv, Types
<1>3. l # "p_validate" /\ l # "c_fill"
  BY DEF LockPCs
<1>4. Ok(t)'
  BY <1>2, <1>3 DEF Ok, HasLock, Builds, ForPrototype
<1> QED BY <1>1, <1>2, <1>4, LocalKeeps

LEMMA BeginKeeps ==
  ASSUME Inv, NEW t \in Threads, Begin(t)
  PROVE  Inv'
<1> USE DEF LockPCs, BuildPCs, AppendPCs
<1>0. /\ Types /\ cls \in [Threads -> Classes \cup {NoClass}]
      /\ nm \in [Threads -> Names \cup {NoName}]
      /\ todo \in [Threads -> Seq(Protos)]
      /\ pc[t] = "idle" => cls[t] = NoClass
  BY DEF Inv, Types, Ok
<1>1. ASSUME Abort PROVE Inv'
  BY <1>1, SameKeeps DEF Abort, registry, locals
<1>2. ASSUME NEW s, NEW c \in Classes, BeginCreate(t, s, NameOf[c]) PROVE Inv'
  <2>1. CASE ~Abort
    <3>1. /\ pc[t] = "idle" /\ pc' = [pc EXCEPT ![t] = "c_lock"]
          /\ nm' = [nm EXCEPT ![t] = NameOf[c]]
          /\ UNCHANGED <<holder, list, lock, cls, todo>>
      BY <1>2, <2>1, Zenon DEF BeginCreate, Local, Goto, registry
    <3>2. nm' \in [Threads -> Names \cup {NoName}]
      BY <1>0, <3>1
    <3> QED BY <1>0, <3>1, <3>2, PointsAre, OutsideKeeps
  <2> QED BY <1>1, <2>1
<1>3. ASSUME NEW c \in Classes, BeginFinish(t, c) PROVE Inv'
  <2>1. /\ pc[t] = "idle" /\ pc' = [pc EXCEPT ![t] = "f_extend"]
        /\ cls' = [cls EXCEPT ![t] = c]
        /\ UNCHANGED <<holder, list, lock, nm, todo>>
    BY <1>3, Zenon DEF BeginFinish, Local, Goto, registry
  <2>2. cls' \in [Threads -> Classes \cup {NoClass}]
    BY <1>0, <2>1
  <2> QED BY <1>0, <2>1, <2>2, PointsAre, OutsideKeeps
<1>4. ASSUME NEW c, NEW v, AddIvar(t, c, v) PROVE Inv'
  <2>1. CASE ~Abort
    BY <1>4, <2>1, SameKeeps DEF AddIvar, registry, locals
  <2> QED BY <1>1, <2>1
<1>5. ASSUME NEW batch \in Batches, BeginRegister(t, batch) PROVE Inv'
  <2>1. /\ pc[t] = "idle" /\ pc' = [pc EXCEPT ![t] = "p_lock"]
        /\ todo' = [todo EXCEPT ![t] = batch]
        /\ UNCHANGED <<holder, list, lock, cls, nm>>
    BY <1>5, Zenon DEF BeginRegister, Local, Goto, registry
  <2>2. todo' \in [Threads -> Seq(Protos)]
    BY <1>0, <2>1
  <2> QED BY <1>0, <2>1, <2>2, PointsAre, OutsideKeeps
<1>6. ASSUME NEW n, BeginSelector(t, n) PROVE Inv'
  <2>1. /\ pc[t] = "idle" /\ pc' = [pc EXCEPT ![t] = "r_sels"]
        /\ UNCHANGED <<holder, list, lock, cls, nm, todo>>
    BY <1>6, Zenon DEF BeginSelector, Local, Goto, registry
  <2> QED BY <1>0, <2>1, PointsAre, OutsideKeeps
<1>7. ASSUME NEW n \in Sought, BeginFind(t, n) PROVE Inv'
  <2>1. /\ pc[t] = "idle" /\ pc' = [pc EXCEPT ![t] = "n_lookup"]
        /\ nm' = [nm EXCEPT ![t] = n]
        /\ UNCHANGED <<holder, list, lock, cls, todo>>
    BY <1>7, Zenon DEF BeginFind, Local, Goto, registry
  <2>2. nm' \in [Threads -> Names \cup {NoName}]
    BY <1>0, <2>1
  <2> QED BY <1>0, <2>1, <2>2, PointsAre, OutsideKeeps
<1> QED BY <1>2, <1>3, <1>4, <1>5, <1>6, <1>7 DEF Begin

(* What an insert into the holder and an append to the list do. *)
LEMMA InsertKeeps ==
  ASSUME Inv, NEW t \in Threads, NEW at, NEW after,
         at \in {"c_insert", "p_insert"}, after \in AppendPCs, Insert(t, at, after)
  PROVE  Inv'
<1> DEFINE x == cls[t]
<1>1. /\ pc[t] \in BuildPCs /\ pc' = [pc EXCEPT ![t] = after]
      /\ holder' = holder \cup {x}
      /\ UNCHANGED <<list, lock, cls, nm, todo>>
  BY DEF Insert, Goto, BuildPCs, locals
<1>2. x \in Classes /\ NameOf[x] = nm[t] /\ Named(nm[t]) = {} /\ lock = t
  BY <1>1 DEF Inv, Ok, Builds, HasLock, BuildPCs, LockPCs
<1>3. after \in PCs /\ after \notin BuildPCs /\ after \in LockPCs
      /\ after \notin {"idle", "r_sels", "p_validate", "c_fill", "s_again", "s_insert"}
  BY PointsAre DEF AppendPCs, BuildPCs, LockPCs
<1>4. Types'
  BY <1>1, <1>2, <1>3 DEF Inv, Types
<1>5. pc'[t] = after /\ \A u \in Threads \ {t} : pc'[u] = pc[u]
  BY <1>1 DEF Inv, Types
<1>6. Ok(t)'
  BY <1>1, <1>2, <1>3, <1>5 DEF Ok, HasLock, Builds, ForPrototype
<1>7. ASSUME NEW u \in Threads \ {t} PROVE Ok(u)'
  <2>1. ~HasLock(u) /\ Ok(u)
    BY <1>2 DEF Inv, Ok
  <2>2. pc[u] \notin LockPCs /\ ~ForPrototype(u) /\ ~HasLock(u)' /\ ~Builds(u)'
    BY <1>1, <1>5, <2>1 DEF HasLock, ForPrototype, Builds, LockPCs, BuildPCs
  <2> QED BY <1>1, <1>5, <2>1, <2>2 DEF Ok, LockPCs, AppendPCs
<1>8. x \notin holder
  BY <1>2 DEF Named
<1>9. ASSUME NEW c PROVE Missing(c)' <=> Missing(c) \/ c = x
  BY <1>1, <1>3, <1>5 DEF Missing, AppendPCs, BuildPCs
<1>10. ListHas'
  BY <1>1, <1>8, <1>9 DEF Inv, ListHas, InList
<1>11. NamesUnique'
  BY <1>1, <1>2 DEF Inv, NamesUnique, Named
<1> QED BY <1>1, <1>4, <1>6, <1>7, <1>10, <1>11 DEF Inv, ListOnce

LEMMA AppendKeeps ==
  ASSUME Inv, NEW t \in Threads, NEW at \in AppendPCs,
         NEW after \in {"c_unlock", "p_next"}, AppendToList(t, at, after)
  PROVE  Inv'
<1> DEFINE x == cls[t]
<1>1. /\ pc[t] \in AppendPCs /\ pc' = [pc EXCEPT ![t] = after]
      /\ list' = Append(list, x)
      /\ UNCHANGED <<holder, lock, cls, nm, todo>>
  BY DEF AppendToList, Goto, locals
<1>2. x \in holder /\ x \in Classes /\ lock = t
  BY <1>1 DEF Inv, Types, Ok, HasLock, LockPCs, AppendPCs
<1>3. after \in PCs /\ after \notin BuildPCs \cup AppendPCs /\ after \in LockPCs
      /\ after \notin {"idle", "r_sels", "p_validate", "c_fill", "s_again", "s_insert"}
  BY PointsAre DEF AppendPCs, BuildPCs, LockPCs
<1>4. /\ list \in Seq(Classes) /\ list' \in Seq(Classes) /\ Len(list') = Len(list) + 1
      /\ list'[Len(list) + 1] = x /\ \A i \in 1..Len(list) : list'[i] = list[i]
  BY <1>1, <1>2, AppendProperties DEF Inv, Types
<1>5. DOMAIN list = 1..Len(list) /\ DOMAIN list' = 1..(Len(list) + 1) /\ Len(list) \in Nat
  BY <1>4, LenProperties
<1>6. ASSUME NEW c PROVE InList(c)' <=> InList(c) \/ c = x
  BY <1>4, <1>5 DEF InList, Elems
<1>7. Types'
  BY <1>1, <1>3, <1>4 DEF Inv, Types
<1>8. pc'[t] = after /\ \A u \in Threads \ {t} : pc'[u] = pc[u]
  BY <1>1 DEF Inv, Types
<1>9. Ok(t)'
  BY <1>1, <1>2, <1>3, <1>8 DEF Ok, HasLock, Builds, ForPrototype
<1>10. ASSUME NEW u \in Threads \ {t} PROVE Ok(u)' /\ pc[u] \notin AppendPCs
  <2>1. ~HasLock(u) /\ Ok(u)
    BY <1>2 DEF Inv, Ok
  <2>2. pc[u] \notin LockPCs /\ ~ForPrototype(u) /\ ~HasLock(u)' /\ ~Builds(u)'
    BY <1>1, <1>8, <2>1 DEF HasLock, ForPrototype, Builds, LockPCs, BuildPCs
  <2> QED BY <1>1, <1>8, <2>1, <2>2 DEF Ok, LockPCs, AppendPCs
<1>11. ASSUME NEW c PROVE (Missing(c) <=> c = x) /\ ~Missing(c)'
  BY <1>1, <1>3, <1>8, <1>10 DEF Missing
<1>12. ListHas'
  BY <1>1, <1>2, <1>6, <1>11 DEF Inv, ListHas
<1>13. ~InList(x)
  BY <1>2, <1>11 DEF Inv, ListHas
<1>14. ListOnce'
  BY <1>4, <1>5, <1>13 DEF Inv, ListOnce, InList, Elems
<1> QED BY <1>1, <1>7, <1>9, <1>10, <1>12, <1>14 DEF Inv, NamesUnique
(* A thread that has the lock goes on with it. *)
LEMMA HoldingKeeps ==
  ASSUME Inv, NEW t \in Threads, NEW l \in PCs,
         lock' = lock, lock = t,
         pc' = [pc EXCEPT ![t] = l],
         UNCHANGED <<holder, list, cls, nm, todo>>,
         pc[t] \notin AppendPCs,
         l \notin AppendPCs \cup {"idle", "r_sels"},
         l \in BuildPCs \cup {"s_again", "s_insert", "c_fill"} =>
           /\ Named(nm[t]) = {}
           /\ l # "c_fill" => cls[t] \in Classes /\ NameOf[cls[t]] = nm[t],
         l # "p_validate"
  PROVE  Inv'
<1>1. Types'
  BY DEF Inv, Types
<1>2. pc'[t] = l /\ \A u \in Threads \ {t} : pc'[u] = pc[u]
  BY DEF Inv, Types
<1>3. Ok(t)'
  BY <1>2 DEF Ok, HasLock, Builds, ForPrototype, Named, BuildPCs, AppendPCs, LockPCs
<1> QED BY <1>1, <1>2, <1>3, LocalKeeps

(* It takes the lock, or gives it back at the end of its call. *)
LEMMA TakeKeeps ==
  ASSUME Inv, NEW t \in Threads,
         TakeLock(t, "c_lock", "c_lookup") \/ TakeLock(t, "p_lock", "p_next")
  PROVE  Inv'
<1> USE DEF LockPCs, BuildPCs, AppendPCs
<1>1. PICK l \in {"c_lookup", "p_next"} :
        /\ pc' = [pc EXCEPT ![t] = l] /\ lock = NoThread /\ lock' = t
        /\ pc[t] \in {"c_lock", "p_lock"}
        /\ UNCHANGED <<holder, list, cls, nm, todo>>
  BY DEF TakeLock, LockIsFree, Goto, locals
<1>2. Types'
  BY <1>1, PointsAre DEF Inv, Types
<1>3. pc'[t] = l /\ \A u \in Threads \ {t} : pc'[u] = pc[u]
  BY <1>1 DEF Inv, Types
<1>4. Ok(t)'
  BY <1>1, <1>3 DEF Ok, HasLock, Builds, ForPrototype
<1> QED BY <1>1, <1>2, <1>3, <1>4, LocalKeeps

LEMMA ReleaseKeeps ==
  ASSUME Inv, NEW t \in Threads, CreateUnlock(t) \/ RegisterUnlock(t)
  PROVE  Inv'
<1> USE DEF LockPCs, BuildPCs, AppendPCs
<1>1. /\ pc[t] \in {"c_unlock", "c_refuse", "p_next"}
      /\ pc' = [pc EXCEPT ![t] = "idle"] /\ lock' = NoThread
      /\ cls' = [cls EXCEPT ![t] = NoClass] /\ nm' = [nm EXCEPT ![t] = NoName]
      /\ UNCHANGED <<holder, list, todo>>
  BY DEF CreateUnlock, RegisterUnlock, LockReleased, Return, Goto
<1>2. lock = t
  BY <1>1 DEF Inv, Ok, HasLock
<1>3. Types'
  BY <1>1, PointsAre DEF Inv, Types
<1>4. /\ pc'[t] = "idle" /\ cls'[t] = NoClass
      /\ \A u \in Threads \ {t} :
           pc'[u] = pc[u] /\ cls'[u] = cls[u] /\ nm'[u] = nm[u]
  BY <1>1 DEF Inv, Types
<1>5. Ok(t)'
  BY <1>1, <1>4 DEF Ok, HasLock, Builds, ForPrototype
<1> QED BY <1>1, <1>2, <1>3, <1>4, <1>5, LocalKeeps

LEMMA CreateKeeps ==
  ASSUME Inv, NEW t \in Threads, CreateStep(t)
  PROVE  Inv'
<1> USE DEF LockPCs, BuildPCs, AppendPCs
<1>0. HasLock(t) => lock = t
  BY DEF Inv, Ok
<1>1. CASE CreateLookup(t)
  <2>1. /\ pc[t] = "c_lookup"
        /\ pc' = [pc EXCEPT ![t] = IF Named(nm[t]) # {} THEN "c_refuse" ELSE "c_fill"]
        /\ UNCHANGED <<holder, list, lock, cls, nm, todo>>
    BY <1>1 DEF CreateLookup, NameTaken, Local, Goto, registry, locals
  <2>2. PICK l \in {"c_refuse", "c_fill"} :
          pc' = [pc EXCEPT ![t] = l] /\ (l = "c_fill" => Named(nm[t]) = {})
    BY <2>1
  <2> QED BY <1>0, <2>1, <2>2, PointsAre, HoldingKeeps DEF HasLock
<1>2. CASE CreateFill(t)
  <2>1. PICK c \in Classes : /\ NameOf[c] = nm[t] /\ cls' = [cls EXCEPT ![t] = c]
                             /\ pc' = [pc EXCEPT ![t] = "c_insert"]
                             /\ pc[t] = "c_fill"
                             /\ UNCHANGED <<holder, list, lock, nm, todo>>
    BY <1>2 DEF CreateFill, Goto, registry
  <2>2. Types'
    BY <2>1, PointsAre DEF Inv, Types
  <2>3. /\ pc'[t] = "c_insert" /\ cls'[t] = c
        /\ \A u \in Threads \ {t} : pc'[u] = pc[u] /\ cls'[u] = cls[u]
    BY <2>1 DEF Inv, Types
  <2>4. lock = t /\ Named(nm[t]) = {}
    BY <2>1 DEF Inv, Ok, HasLock
  <2>5. Ok(t)'
    BY <2>1, <2>3, <2>4 DEF Ok, HasLock, Builds, ForPrototype, Named
  <2> QED BY <2>1, <2>2, <2>3, <2>5, LocalKeeps
<1> QED BY <1>1, <1>2, TakeKeeps, InsertKeeps, AppendKeeps, ReleaseKeeps DEF CreateStep

LEMMA FinishKeeps ==
  ASSUME Inv, NEW t \in Threads, FinishStep(t) \/ FindStep(t)
  PROVE  Inv'
<1> USE DEF LockPCs, BuildPCs, AppendPCs
<1>0. /\ cls \in [Threads -> Classes \cup {NoClass}]
      /\ nm \in [Threads -> Names \cup {NoName}]
      /\ todo \in [Threads -> Seq(Protos)]
  BY DEF Inv, Types
<1>1. CASE Extend(t, "f_extend", "f_flag")
  <2>1. /\ pc[t] = "f_extend" /\ pc' = [pc EXCEPT ![t] = "f_flag"]
        /\ UNCHANGED <<holder, list, lock, cls, nm, todo>>
    BY <1>1, Zenon DEF Extend, Goto, registry, locals
  <2> QED BY <1>0, <2>1, PointsAre, OutsideKeeps
<1>2. CASE FinishFlag(t) \/ FindReturn(t)
  <2>1. /\ pc[t] \in {"f_flag", "n_ret"} /\ pc' = [pc EXCEPT ![t] = "idle"]
        /\ cls' = [cls EXCEPT ![t] = NoClass] /\ nm' = [nm EXCEPT ![t] = NoName]
        /\ UNCHANGED <<holder, list, lock, todo>>
    BY <1>2, Zenon DEF FinishFlag, FindReturn, Return, Goto, registry
  <2>2. /\ cls' \in [Threads -> Classes \cup {NoClass}] /\ cls'[t] = NoClass
        /\ nm' \in [Threads -> Names \cup {NoName}]
    BY <1>0, <2>1
  <2> QED BY <1>0, <2>1, <2>2, PointsAre, OutsideKeeps
<1>3. CASE FindLookup(t)
  <2>1. PICK l \in {"n_flag", "n_ret"} : pc' = [pc EXCEPT ![t] = l]
    BY <1>3, Zenon DEF FindLookup, Local, Goto
  <2>2. /\ pc[t] = "n_lookup" /\ UNCHANGED <<holder, list, lock, nm, todo>>
        /\ cls' = cls \/ \E c \in holder : cls' = [cls EXCEPT ![t] = c]
    BY <1>3 DEF FindLookup, Local, registry, Named
  <2>3. /\ cls' \in [Threads -> Classes \cup {NoClass}]
        /\ \A u \in Threads \ {t} : cls'[u] = cls[u]
    BY <1>0, <2>2 DEF Inv, Types
  <2> QED BY <1>0, <2>1, <2>2, <2>3, PointsAre, OutsideKeeps
<1>4. CASE FindFlag(t)
  <2>1. /\ pc[t] = "n_flag" /\ pc' = [pc EXCEPT ![t] = "n_ret"]
        /\ UNCHANGED <<holder, list, lock, cls, nm, todo>>
    BY <1>4, Zenon DEF FindFlag, Local, Goto, registry
  <2> QED BY <1>0, <2>1, PointsAre, OutsideKeeps
<1> QED BY <1>1, <1>2, <1>3, <1>4 DEF FinishStep, FindStep

LEMMA SelectorKeeps ==
  ASSUME Inv, NEW t \in Threads, SelectorStep(t)
  PROVE  Inv'
<1> USE DEF LockPCs, BuildPCs, AppendPCs
<1>1. CASE pc[t] = "r_sels" \/ (pc[t] \in {"s_again", "s_insert"} /\ cls[t] = NoClass)
  <2>1. UNCHANGED <<holder, list, lock, cls, nm, todo>>
    BY DEF SelectorStep, SelectorLookup, SelectorLookupAgain, SelectorInsert,
           SelectorsDone, Local, registry, locals
  <2>2. cls[t] = NoClass
    BY <1>1 DEF Inv, Ok
  <2>3. PICK l \in {"r_sels", "s_again", "s_insert", "idle"} : pc' = [pc EXCEPT ![t] = l]
    BY <1>1, <2>2 DEF SelectorStep, SelectorLookup, SelectorLookupAgain,
       SelectorInsert, SelectorsDone, Local, Goto, BackToSelectors, Inv, Types
  <2>4. Types'
    BY <2>1, <2>3, PointsAre DEF Inv, Types
  <2>5. pc'[t] = l /\ \A u \in Threads \ {t} : pc'[u] = pc[u]
    BY <2>3 DEF Inv, Types
  <2>6. Ok(t)'
    BY <2>1, <2>2, <2>5 DEF Ok, HasLock, Builds, ForPrototype
  <2> QED BY <1>1, <2>1, <2>4, <2>5, <2>6, LocalKeeps
<1>2. CASE pc[t] = "p_sels" \/ (pc[t] \in {"s_again", "s_insert"} /\ cls[t] # NoClass)
  <2>1. UNCHANGED <<holder, list, lock, cls, nm, todo>>
    BY DEF SelectorStep, SelectorLookup, SelectorLookupAgain, SelectorInsert,
           SelectorsDone, Local, registry, locals
  <2>2. /\ lock = t /\ cls[t] \in Classes /\ NameOf[cls[t]] = nm[t]
        /\ Named(nm[t]) = {}
    BY <1>2 DEF Inv, Ok, HasLock, Builds, ForPrototype
  <2>3. PICK l \in {"p_sels", "s_again", "s_insert", "p_ivars"} : pc' = [pc EXCEPT ![t] = l]
    BY <1>2, <2>2 DEF SelectorStep, SelectorLookup, SelectorLookupAgain,
       SelectorInsert, SelectorsDone, Local, Goto, BackToSelectors, Inv, Types
  <2> QED BY <1>2, <2>1, <2>2, <2>3, PointsAre, HoldingKeeps
<1> QED BY <1>1, <1>2 DEF SelectorStep, SelectorLookup, SelectorLookupAgain,
           SelectorInsert, SelectorsDone

LEMMA ProtoKeeps ==
  ASSUME Inv, NEW t \in Threads, ProtoStep(t)
  PROVE  Inv'
<1> USE DEF LockPCs, BuildPCs, AppendPCs
<1>0. /\ HasLock(t) => lock = t
      /\ Builds(t) \/ pc[t] = "p_validate" =>
           cls[t] \in Classes /\ NameOf[cls[t]] = nm[t]
      /\ Builds(t) => Named(nm[t]) = {}
  BY DEF Inv, Ok
<1>1. CASE RegisterNext(t)
  <2>1. /\ pc[t] = "p_next" /\ pc' = [pc EXCEPT ![t] = "p_validate"]
        /\ todo[t] # <<>>
        /\ cls' = [cls EXCEPT ![t] = Head(todo[t])]
        /\ nm' = [nm EXCEPT ![t] = NameOf[Head(todo[t])]]
        /\ todo' = [todo EXCEPT ![t] = Tail(todo[t])]
        /\ UNCHANGED <<holder, list, lock>>
    BY <1>1, Zenon DEF RegisterNext, Local, Goto, registry
  <2>2. todo[t] \in Seq(Protos)
    BY DEF Inv, Types
  <2>3. Head(todo[t]) \in Classes /\ Tail(todo[t]) \in Seq(Protos)
    BY <2>1, <2>2, HeadTailProperties
  <2>4. Types'
    BY <2>1, <2>3, PointsAre DEF Inv, Types
  <2>5. /\ pc'[t] = "p_validate" /\ cls'[t] \in Classes /\ NameOf[cls'[t]] = nm'[t]
        /\ \A u \in Threads \ {t} :
             pc'[u] = pc[u] /\ cls'[u] = cls[u] /\ nm'[u] = nm[u]
    BY <2>1, <2>3 DEF Inv, Types
  <2>6. Ok(t)'
    BY <1>0, <2>1, <2>5 DEF Ok, HasLock, Builds, ForPrototype
  <2> QED BY <2>1, <2>4, <2>5, <2>6, LocalKeeps
<1>2. CASE Validate(t)
  <2>1. pc[t] = "p_validate" /\ UNCHANGED <<holder, list, lock, cls, nm, todo>>
    BY <1>2 DEF Validate, Abort, Local, registry, locals
  <2>2. CASE Abort
    BY <2>2, SameKeeps DEF Abort, registry, locals
  <2>3. CASE ~Abort
    <3>1. PICK l \in {"p_super", "p_refuse"} :
            /\ pc' = [pc EXCEPT ![t] = l]
            /\ l = "p_super" => Named(NameOf[cls[t]]) = {}
      BY <1>2, <2>3 DEF Validate, Local, Goto, Valid, NameTaken
    <3>2. lock = t /\ cls[t] \in Classes /\ NameOf[cls[t]] = nm[t]
      BY <1>0, <2>1 DEF HasLock
    <3> QED BY <2>1, <3>1, <3>2, PointsAre, HoldingKeeps
  <2> QED BY <2>2, <2>3
<1>3. CASE Refuse(t)
  <2>1. /\ pc[t] = "p_refuse" /\ pc' = [pc EXCEPT ![t] = "p_next"]
        /\ cls' = [cls EXCEPT ![t] = NoClass] /\ nm' = [nm EXCEPT ![t] = NoName]
        /\ UNCHANGED <<holder, list, lock, todo>>
    BY <1>3, Zenon DEF Refuse, Local, Goto, registry
  <2>2. Types'
    BY <2>1, PointsAre DEF Inv, Types
  <2>3. /\ pc'[t] = "p_next"
        /\ \A u \in Threads \ {t} :
             pc'[u] = pc[u] /\ cls'[u] = cls[u] /\ nm'[u] = nm[u]
    BY <2>1 DEF Inv, Types
  <2>4. Ok(t)'
    BY <1>0, <2>1, <2>3 DEF Ok, HasLock, Builds, ForPrototype
  <2> QED BY <2>1, <2>2, <2>3, <2>4, LocalKeeps
<1>4. CASE \/ ConnectSuper(t) \/ AddProtoIvars(t) \/ MarkDone(t)
           \/ Extend(t, "p_extend", "p_done")
  <2>1. /\ pc[t] \in {"p_super", "p_ivars", "p_done", "p_extend"}
        /\ UNCHANGED <<holder, list, lock, cls, nm, todo>>
    BY <1>4 DEF ConnectSuper, AddProtoIvars, MarkDone, Extend, registry, locals
  <2>2. PICK l \in {"p_sels", "p_extend", "p_insert", "p_done"} :
          pc' = [pc EXCEPT ![t] = l]
    BY <1>4, Zenon DEF ConnectSuper, AddProtoIvars, MarkDone, Extend, Goto
  <2>3. /\ lock = t /\ cls[t] \in Classes /\ NameOf[cls[t]] = nm[t]
        /\ Named(nm[t]) = {}
    BY <1>0, <2>1 DEF HasLock, Builds
  <2> QED BY <2>1, <2>2, <2>3, PointsAre, HoldingKeeps
<1> QED BY <1>1, <1>2, <1>3, <1>4, TakeKeeps, ReleaseKeeps, InsertKeeps, AppendKeeps
        DEF ProtoStep

LEMMA RegistryInv == Spec => []Inv
<1>1. Inv /\ [Next]_vars => Inv'
  <2> SUFFICES ASSUME Inv, [Next]_vars PROVE Inv'
    OBVIOUS
  <2>1. ASSUME NEW t \in Threads, Begin(t) PROVE Inv'
    BY <2>1, BeginKeeps
  <2>2. ASSUME NEW t \in Threads, Step(t) PROVE Inv'
    BY <2>2, CreateKeeps, FinishKeeps, ProtoKeeps, SelectorKeeps DEF Step
  <2>3. CASE UNCHANGED vars
    BY <2>3, SameKeeps DEF vars, registry, locals
  <2> QED BY <2>1, <2>2, <2>3 DEF Next
<1> QED BY <1>1, InvInit, PTL DEF Spec

(* A name is given away once: no two classes of the holder have the same,  *)
(* although the two look-ups and the insert are separate (class.c:837,     *)
(* class.c:1092).                                                          *)
THEOREM NamesAreUnique == Spec => []NamesUnique
<1>1. Inv => NamesUnique
  BY DEF Inv
<1> QED BY <1>1, RegistryInv, PTL

(* Whenever the run-time lock is free, the list along which caches are     *)
(* flushed has every class of the holder, once.                            *)
THEOREM ListHasEveryClass == Spec => []ListIsHolder
<1>1. Inv => ListIsHolder
  <2> SUFFICES ASSUME Inv, lock = NoThread PROVE ListIsHolder
    BY DEF ListIsHolder
  <2>1. ASSUME NEW t \in Threads PROVE pc[t] \notin AppendPCs
    BY DEF Inv, Ok, HasLock, LockPCs, AppendPCs
  <2>2. Elems(list) \subseteq Classes
    BY LenProperties DEF Inv, Types, Elems
  <2>3. \A c \in Classes : c \in Elems(list) <=> c \in holder
    BY <2>1 DEF Inv, ListHas, InList, Missing
  <2> QED BY <2>2, <2>3 DEF ListIsHolder, Inv, Types, ListOnce
<1> QED BY <1>1, RegistryInv, PTL

-----------------------------------------------------------------------------
(* ClassRegistry implements Registry: every call of the class registry     *)
(* takes effect at one instant between its beginning and its return.       *)


(* What the refinement needs beyond Inv: which classes are in construction *)
(* where a class is inserted, and what a look-up has found.                *)
Connected(t) == pc[t] \in BuildPCs \ {"p_super"} \/ ForPrototype(t)
Ex(t) ==
  /\ pc[t] = "c_insert" => constructing[cls[t]]
  /\ pc[t] = "p_insert" => ~constructing[cls[t]]
  /\ Connected(t) => touched[cls[t]]
  /\ pc[t] \in {"f_extend", "f_flag", "n_flag"} => cls[t] \in holder
  /\ pc[t] = "n_flag" => NameOf[cls[t]] = nm[t]
  /\ pc[t] \in {"n_lookup", "n_flag"} => got[t] = NoClass
Untouched == \A c \in Classes : ~touched[c] => constructing[c] /\ c \notin holder
ExTypes == /\ constructing \in [Classes -> BOOLEAN] /\ touched \in [Classes -> BOOLEAN]
           /\ got \in [Threads -> Classes \cup {NoClass}]
Extra == ExTypes /\ (\A t \in Threads : Ex(t)) /\ Untouched

call == [t \in Threads |-> AbstractCall(t)]
finished == {c \in holder : ~constructing[c]}
Moves == Abstract!Next \/ UNCHANGED Abstract!vars

(* What the call of a thread is at each point. *)
Shows(r, l, c, n, g) ==
  /\ l \in {"idle", "p_lock", "p_next", "r_sels", "f_extend", "f_flag"} => r = Nothing
  /\ l \in {"s_again", "s_insert"} /\ c = NoClass => r = Nothing
  /\ l \in {"c_lock", "c_lookup", "c_fill", "c_insert"} =>
       r = Rec("create", n, FALSE, NoClass)
  /\ l \in {"c_append", "c_unlock"} => r = Rec("create", n, TRUE, c)
  /\ l = "c_refuse" => r = Rec("create", n, TRUE, NoClass)
  /\ l \in {"p_validate", "p_super", "p_sels", "s_again", "s_insert", "p_ivars",
            "p_extend", "p_done", "p_insert"} /\ c # NoClass =>
       r = Rec("prototype", n, FALSE, NoClass)
  /\ l = "p_append" => r = Rec("prototype", n, TRUE, c)
  /\ l = "p_refuse" => r = Rec("prototype", n, TRUE, NoClass)
  /\ l \in {"n_lookup", "n_flag"} => r = Rec("find", n, FALSE, NoClass)
  /\ l = "n_ret" => r = Rec("find", n, TRUE, g)

LEMMA CallIs ==
  ASSUME NEW l, NEW c, NEW n, NEW g
  PROVE  Shows(CallAt(l, c, n, g), l, c, n, g)
BY DEF Shows, CallAt, ProtoPCs

LEMMA TheCall ==
  \A t : /\ Shows(AbstractCall(t), pc[t], cls[t], nm[t], got[t])
         /\ Shows(AbstractCall(t)', pc'[t], cls'[t], nm'[t], got'[t])
<1> TAKE t
<1>1. AbstractCall(t) = CallAt(pc[t], cls[t], nm[t], got[t])
  BY DEF AbstractCall
<1>2. AbstractCall(t)' = CallAt(pc'[t], cls'[t], nm'[t], got'[t])
  BY DEF AbstractCall, CallAt
<1>3. Shows(AbstractCall(t), pc[t], cls[t], nm[t], got[t])
  BY <1>1, CallIs
<1> QED BY <1>2, <1>3, CallIs

LEMMA SameCall ==
  ASSUME NEW t, pc'[t] = pc[t], cls'[t] = cls[t], nm'[t] = nm[t], got'[t] = got[t]
  PROVE  AbstractCall(t)' = AbstractCall(t)
BY DEF AbstractCall, CallAt

(* The steps of the specification, by what happens to the call of t.       *)
LEMMA AbsInit == Init => Abstract!Init
<1> SUFFICES ASSUME Init PROVE Abstract!Init
  OBVIOUS
<1>1. \A t \in Threads : AbstractCall(t) = Abstract!NoCall
  BY TheCall DEF Shows, Init, Nothing, Rec, Abstract!NoCall
<1> QED BY <1>1 DEF Init, Abstract!Init

LEMMA AbsStutter ==
  ASSUME \A u \in Threads : AbstractCall(u)' = AbstractCall(u),
         holder' = holder, finished' = finished
  PROVE  Moves
BY DEF Moves, Abstract!vars, finished

LEMMA AbsBegin ==
  ASSUME NEW t \in Threads, NEW op \in {"create", "prototype", "find"}, NEW n \in Names,
         \A u \in Threads \ {t} : AbstractCall(u)' = AbstractCall(u),
         AbstractCall(t) = Nothing,
         AbstractCall(t)' = Rec(op, n, FALSE, NoClass),
         holder' = holder, finished' = finished
  PROVE  Moves
<1>1. Abstract!Begin(t, op, n)
  BY DEF Abstract!Begin, Abstract!NoCall, Nothing, Rec, finished
<1> QED BY <1>1 DEF Moves, Abstract!Next

LEMMA AbsReturn ==
  ASSUME NEW t \in Threads, NEW op, NEW n, NEW r,
         \A u \in Threads \ {t} : AbstractCall(u)' = AbstractCall(u),
         AbstractCall(t) = Rec(op, n, TRUE, r),
         AbstractCall(t)' = Nothing,
         holder' = holder, finished' = finished
  PROVE  Moves
<1>1. call[t].done
  BY DEF call, Rec
<1>2. call' = [call EXCEPT ![t] = Abstract!NoCall]
  BY DEF call, Nothing, Rec, Abstract!NoCall
<1>3. Abstract!Return(t)
  BY <1>1, <1>2, Zenon DEF Abstract!Return, call, finished
<1> QED BY <1>3 DEF Moves, Abstract!Next

LEMMA AbsEnd ==
  ASSUME NEW t \in Threads, NEW op, NEW n, NEW r,
         \A u \in Threads \ {t} : AbstractCall(u)' = AbstractCall(u),
         AbstractCall(t) = Rec(op, n, FALSE, NoClass),
         AbstractCall(t)' = Rec(op, n, TRUE, r)
  PROVE  Abstract!Ended(t, r) /\ Abstract!Pending(t, op) /\ call[t].arg = n
<1>1. Abstract!Pending(t, op) /\ call[t].arg = n
  BY DEF Abstract!Pending, Rec, call
<1>2. Abstract!Ended(t, r)
  <2>1. call[t].op = op /\ call[t].arg = n
    BY DEF call, Rec
  <2>2. call' = [call EXCEPT ![t] = Rec(op, n, TRUE, r)]
    BY DEF call
  <2>3. call' = [call EXCEPT ![t] = [op |-> call[t].op, arg |-> call[t].arg,
                                     done |-> TRUE, res |-> r]]
    BY <2>1, <2>2, Zenon DEF Rec
  <2> QED BY <2>3, Zenon DEF Abstract!Ended, call
<1> QED BY <1>1, <1>2

(* A name that is taken, or a prototype, is refused. *)
LEMMA AbsRefusal ==
  ASSUME NEW t \in Threads, NEW op \in {"create", "prototype"}, NEW n,
         \A u \in Threads \ {t} : AbstractCall(u)' = AbstractCall(u),
         AbstractCall(t) = Rec(op, n, FALSE, NoClass),
         AbstractCall(t)' = Rec(op, n, TRUE, NoClass),
         op = "create" => Named(n) # {},
         holder' = holder, finished' = finished
  PROVE  Moves
<1>1. Abstract!Ended(t, NoClass) /\ Abstract!Pending(t, op) /\ call[t].arg = n
  BY AbsEnd
<1>2. op = "create" => Abstract!Taken(call[t].arg)
  BY <1>1 DEF Abstract!Taken, Named
<1>3. Abstract!ApplyRefusal(t)
  BY <1>1, <1>2 DEF Abstract!ApplyRefusal, call, finished
<1> QED BY <1>3 DEF Moves, Abstract!Next

(* The insert into the holder: a class in construction, or a whole one.    *)
LEMMA AbsRegister ==
  ASSUME NEW t \in Threads, NEW op \in {"create", "prototype"}, NEW c \in Classes,
         \A u \in Threads \ {t} : AbstractCall(u)' = AbstractCall(u),
         AbstractCall(t) = Rec(op, NameOf[c], FALSE, NoClass),
         AbstractCall(t)' = Rec(op, NameOf[c], TRUE, c),
         Named(NameOf[c]) = {}, holder' = holder \cup {c},
         constructing' = constructing, constructing[c] <=> op = "create"
  PROVE  Moves
<1>1. Abstract!Ended(t, c) /\ Abstract!Pending(t, op) /\ call[t].arg = NameOf[c]
  <2>1. PICK n : n = NameOf[c]
    OBVIOUS
  <2>2. AbstractCall(t) = Rec(op, n, FALSE, NoClass) /\ AbstractCall(t)' = Rec(op, n, TRUE, c)
    BY <2>1
  <2>3. Abstract!Ended(t, c) /\ Abstract!Pending(t, op) /\ call[t].arg = n
    BY <2>2, AbsEnd
  <2> QED BY <2>1, <2>3
<1>2. ~Abstract!Taken(NameOf[c])
  BY DEF Abstract!Taken, Named
<1>3. finished' = IF op = "prototype" THEN finished \cup {c} ELSE finished
  BY DEF finished
<1>4. CASE op = "prototype"
  <2>1. Abstract!ApplyRegister(t, c, TRUE)
    BY <1>1, <1>2, <1>3, <1>4 DEF Abstract!ApplyRegister, call, finished
  <2> QED BY <2>1 DEF Moves, Abstract!Next
<1>5. CASE op = "create"
  <2>1. Abstract!ApplyRegister(t, c, FALSE)
    BY <1>1, <1>2, <1>3, <1>5 DEF Abstract!ApplyRegister, call, finished
  <2> QED BY <2>1 DEF Moves, Abstract!Next
<1> QED BY <1>4, <1>5

(* A look-up answers with the finished class of the name, if there is one. *)
LEMMA AbsFind ==
  ASSUME NEW t \in Threads, NEW n, NEW r,
         \A u \in Threads \ {t} : AbstractCall(u)' = AbstractCall(u),
         AbstractCall(t) = Rec("find", n, FALSE, NoClass),
         AbstractCall(t)' = Rec("find", n, TRUE, r),
         \/ r \in finished /\ NameOf[r] = n
         \/ r = NoClass /\ \A c \in finished : NameOf[c] # n,
         holder' = holder, finished' = finished
  PROVE  Moves
<1>1. Abstract!Ended(t, r) /\ Abstract!Pending(t, "find") /\ call[t].arg = n
  BY AbsEnd
<1>2. Abstract!ApplyFind(t)
  BY <1>1 DEF Abstract!ApplyFind, call, finished
<1> QED BY <1>2 DEF Moves, Abstract!Next

LEMMA AbsFinish ==
  ASSUME NEW c \in Classes, c \in holder, holder' = holder,
         finished' = finished \cup {c},
         \A u \in Threads : AbstractCall(u)' = AbstractCall(u)
  PROVE  Moves
<1>1. Abstract!Finish(c)
  BY DEF Abstract!Finish, finished
<1> QED BY <1>1 DEF Moves, Abstract!Next
-----------------------------------------------------------------------------
(* The steps of ClassRegistry.                                             *)

(* What a step of t leaves of the others, and of the classes.              *)
Alone(t) == \A u \in Threads \ {t} :
  pc'[u] = pc[u] /\ cls'[u] = cls[u] /\ nm'[u] = nm[u] /\ got'[u] = got[u]
Frame(t) == Alone(t) /\ UNCHANGED <<holder, constructing, touched>>

LEMMA AloneCalls ==
  ASSUME NEW t, Alone(t)
  PROVE  \A u \in Threads \ {t} : AbstractCall(u)' = AbstractCall(u)
BY SameCall DEF Alone

LEMMA FrameKeeps ==
  ASSUME Extra, NEW t \in Threads, Frame(t), Ex(t)',
         got' \in [Threads -> Classes \cup {NoClass}]
  PROVE  /\ Extra' /\ holder' = holder /\ finished' = finished
         /\ \A u \in Threads \ {t} : AbstractCall(u)' = AbstractCall(u)
<1>1. \A u \in Threads \ {t} : Ex(u)'
  BY DEF Extra, Frame, Alone, Ex, Connected, ForPrototype
<1>2. Untouched' /\ ExTypes'
  BY DEF Extra, Frame, Untouched, ExTypes
<1>3. \A u \in Threads \ {t} : AbstractCall(u)' = AbstractCall(u)
  BY AloneCalls DEF Frame
<1> QED BY <1>1, <1>2, <1>3 DEF Extra, Frame, finished

LEMMA QuietKeeps ==
  ASSUME Extra, NEW t \in Threads, Frame(t), Ex(t)',
         got' \in [Threads -> Classes \cup {NoClass}],
         AbstractCall(t)' = AbstractCall(t)
  PROVE  Extra' /\ Moves
BY FrameKeeps, AbsStutter

LEMMA UnchangedKeeps ==
  ASSUME Inv, Extra, UNCHANGED <<holder, constructing, touched, pc, cls, nm, got>>
  PROVE  Extra' /\ Moves
<1>1. \A u \in Threads : Ex(u)' /\ AbstractCall(u)' = AbstractCall(u)
  BY SameCall DEF Extra, Ex, Connected, ForPrototype
<1>2. Extra'
  BY <1>1 DEF Extra, Untouched, ExTypes
<1> QED BY <1>1, <1>2, AbsStutter DEF finished

(* A move between points at which the call has the same abstract state.    *)
LEMMA MoveKeeps ==
  ASSUME Inv, Extra, NEW t \in Threads, NEW l,
         pc' = [pc EXCEPT ![t] = l],
         UNCHANGED <<holder, constructing, touched, cls, nm, got>>,
         Ex(t)', AbstractCall(t)' = AbstractCall(t)
  PROVE  Extra' /\ Moves
<1>1. Frame(t)
  BY DEF Frame, Alone, Inv, Types
<1> QED BY <1>1, QuietKeeps DEF Extra, ExTypes

(* A thread takes a structure into use. *)
LEMMA TouchKeeps ==
  ASSUME Inv, Extra, NEW t \in Threads, NEW c \in Classes,
         touched' = [touched EXCEPT ![c] = TRUE],
         UNCHANGED <<holder, constructing, got>>,
         Alone(t), Ex(t)', AbstractCall(t)' = AbstractCall(t)
  PROVE  Extra' /\ Moves
<1>1. /\ touched' \in [Classes -> BOOLEAN]
      /\ \A d \in Classes : touched[d] => touched'[d]
  BY DEF Extra, ExTypes
<1>2. ASSUME NEW u \in Threads \ {t} PROVE Ex(u)'
  <2>1. Ex(u) /\ (Builds(u) => cls[u] \in Classes)
    BY DEF Extra, Inv, Ok
  <2>2. Connected(u)' => touched'[cls'[u]]
    BY <1>1, <2>1 DEF Ex, Connected, Builds, ForPrototype, Alone
  <2> QED BY <2>1, <2>2 DEF Ex, Alone
<1>3. Extra'
  BY <1>1, <1>2 DEF Extra, ExTypes, Untouched
<1> QED BY <1>3, AloneCalls, AbsStutter DEF finished

LEMMA BeginRefines ==
  ASSUME Inv, Extra, NEW t \in Threads, Begin(t)
  PROVE  Extra' /\ Moves
<1> USE DEF BuildPCs
<1>0. /\ pc \in [Threads -> PCs] /\ cls \in [Threads -> Classes \cup {NoClass}]
      /\ nm \in [Threads -> Names \cup {NoName}]
      /\ got \in [Threads -> Classes \cup {NoClass}]
      /\ pc[t] = "idle" => cls[t] = NoClass
  BY DEF Inv, Types, Ok, Extra, ExTypes
<1>1. ASSUME Abort PROVE Extra' /\ Moves
  BY <1>1, UnchangedKeeps DEF Abort, registry, class, locals
<1>2. ASSUME NEW s, NEW c \in Classes, BeginCreate(t, s, NameOf[c])
      PROVE  Extra' /\ Moves
  <2>1. CASE ~Abort
    <3>1. /\ pc[t] = "idle" /\ pc' = [pc EXCEPT ![t] = "c_lock"]
          /\ nm' = [nm EXCEPT ![t] = NameOf[c]]
          /\ UNCHANGED <<holder, constructing, touched, cls, got>>
      BY <1>2, <2>1, Zenon DEF BeginCreate, Local, Goto, registry, class
    <3>2. pc'[t] = "c_lock" /\ nm'[t] = NameOf[c] /\ NameOf[c] \in Names /\ Frame(t)
      BY <1>0, <3>1 DEF Frame, Alone
    <3>3. Ex(t)'
      BY <3>2 DEF Ex, Connected, ForPrototype
    <3>4. AbstractCall(t) = Nothing
      BY <3>1, TheCall DEF Shows
    <3>5. AbstractCall(t)' = Rec("create", NameOf[c], FALSE, NoClass)
      BY <3>2, TheCall DEF Shows
    <3> QED BY <1>0, <3>1, <3>2, <3>3, <3>4, <3>5, FrameKeeps, AbsBegin
  <2> QED BY <1>1, <2>1
<1>3. ASSUME NEW c \in Classes, BeginFinish(t, c) PROVE Extra' /\ Moves
  <2>1. /\ pc[t] = "idle" /\ pc' = [pc EXCEPT ![t] = "f_extend"]
        /\ cls' = [cls EXCEPT ![t] = c] /\ c \in holder
        /\ UNCHANGED <<holder, constructing, touched, nm, got>>
    BY <1>3, Zenon DEF BeginFinish, Local, Goto, registry, class
  <2>2. pc'[t] = "f_extend" /\ cls'[t] = c /\ Frame(t)
    BY <1>0, <2>1 DEF Frame, Alone
  <2>3. Ex(t)'
    BY <2>1, <2>2 DEF Ex, Connected, ForPrototype
  <2>4. AbstractCall(t)' = AbstractCall(t)
    BY <2>1, <2>2, TheCall DEF Shows
  <2> QED BY <1>0, <2>1, <2>2, <2>3, <2>4, QuietKeeps
<1>4. ASSUME NEW c, NEW v, AddIvar(t, c, v) PROVE Extra' /\ Moves
  <2>1. CASE ~Abort
    BY <1>4, <2>1, UnchangedKeeps DEF AddIvar, registry, locals
  <2> QED BY <1>1, <2>1
<1>5. ASSUME NEW batch, NEW n, BeginRegister(t, batch) \/ BeginSelector(t, n)
      PROVE  Extra' /\ Moves
  <2>1. PICK l \in {"p_lock", "r_sels"} :
          /\ pc[t] = "idle" /\ pc' = [pc EXCEPT ![t] = l]
          /\ UNCHANGED <<holder, constructing, touched, cls, nm, got>>
    BY <1>5, Zenon DEF BeginRegister, BeginSelector, Local, Goto, registry, class
  <2>2. pc'[t] = l
    BY <1>0, <2>1
  <2>3. Ex(t)'
    BY <2>2 DEF Ex, Connected, ForPrototype
  <2>4. AbstractCall(t)' = AbstractCall(t)
    BY <2>1, <2>2, TheCall DEF Shows
  <2> QED BY <2>1, <2>3, <2>4, MoveKeeps
<1>6. ASSUME NEW n \in Sought, BeginFind(t, n) PROVE Extra' /\ Moves
  <2>1. /\ pc[t] = "idle" /\ pc' = [pc EXCEPT ![t] = "n_lookup"]
        /\ nm' = [nm EXCEPT ![t] = n] /\ got' = [got EXCEPT ![t] = NoClass]
        /\ UNCHANGED <<holder, constructing, touched, cls>>
    BY <1>6, Zenon DEF BeginFind, Local, Goto, registry, class
  <2>2. /\ pc'[t] = "n_lookup" /\ nm'[t] = n /\ got'[t] = NoClass /\ n \in Names
        /\ Frame(t) /\ got' \in [Threads -> Classes \cup {NoClass}]
    BY <1>0, <2>1 DEF Frame, Alone
  <2>3. Ex(t)'
    BY <2>2 DEF Ex, Connected, ForPrototype
  <2>4. AbstractCall(t) = Nothing
    BY <2>1, TheCall DEF Shows
  <2>5. AbstractCall(t)' = Rec("find", n, FALSE, NoClass)
    BY <2>2, TheCall DEF Shows
  <2> QED BY <2>2, <2>3, <2>4, <2>5, FrameKeeps, AbsBegin
<1> QED BY <1>2, <1>3, <1>4, <1>5, <1>6 DEF Begin

(* The insert into the holder, of a class in construction or a whole one.  *)
LEMMA InsertRefines ==
  ASSUME Inv, Extra, NEW t \in Threads,
         Insert(t, "c_insert", "c_append") \/ Insert(t, "p_insert", "p_append")
  PROVE  Extra' /\ Moves
<1> USE DEF BuildPCs
<1> DEFINE x == cls[t]
<1>1. /\ \/ pc[t] = "c_insert" /\ pc' = [pc EXCEPT ![t] = "c_append"]
         \/ pc[t] = "p_insert" /\ pc' = [pc EXCEPT ![t] = "p_append"]
      /\ holder' = holder \cup {x}
      /\ UNCHANGED <<constructing, touched, cls, nm, got>>
  BY Zenon DEF Insert, Goto, class, locals
<1>2. /\ x \in Classes /\ NameOf[x] = nm[t] /\ Named(nm[t]) = {} /\ touched[x]
      /\ constructing[x] <=> pc[t] = "c_insert"
  BY <1>1 DEF Inv, Ok, Builds, Extra, Ex, Connected
<1>3. /\ Alone(t) /\ pc'[t] \in {"c_append", "p_append"}
      /\ pc[t] = "c_insert" <=> pc'[t] = "c_append"
  BY <1>1 DEF Alone, Inv, Types
<1>4. Ex(t)'
  BY <1>3 DEF Ex, Connected, ForPrototype
<1>5. \A u \in Threads \ {t} : Ex(u)'
  BY <1>1, <1>3 DEF Extra, Alone, Ex, Connected, ForPrototype
<1>6. Extra'
  BY <1>1, <1>2, <1>4, <1>5 DEF Extra, ExTypes, Untouched
<1>7. PICK op \in {"create", "prototype"} :
        /\ AbstractCall(t) = Rec(op, NameOf[x], FALSE, NoClass)
        /\ AbstractCall(t)' = Rec(op, NameOf[x], TRUE, x)
        /\ constructing[x] <=> op = "create"
  <2>1. x # NoClass
    BY <1>2
  <2>2. CASE pc[t] = "c_insert"
    <3>1. /\ AbstractCall(t) = Rec("create", NameOf[x], FALSE, NoClass)
          /\ AbstractCall(t)' = Rec("create", NameOf[x], TRUE, x)
      BY <1>1, <1>2, <1>3, <2>2, TheCall DEF Shows
    <3> QED BY <1>2, <2>2, <3>1
  <2>3. CASE pc[t] = "p_insert"
    <3>1. /\ AbstractCall(t) = Rec("prototype", NameOf[x], FALSE, NoClass)
          /\ AbstractCall(t)' = Rec("prototype", NameOf[x], TRUE, x)
      BY <1>1, <1>2, <1>3, <2>1, <2>3, TheCall DEF Shows
    <3> QED BY <1>2, <2>3, <3>1
  <2> QED BY <1>1, <2>2, <2>3
<1>8. Moves
  BY <1>1, <1>2, <1>3, <1>7, AloneCalls, AbsRegister
<1> QED BY <1>6, <1>8

LEMMA CreateRefines ==
  ASSUME Inv, Extra, NEW t \in Threads, CreateStep(t)
  PROVE  Extra' /\ Moves
<1> USE DEF BuildPCs
<1>0. /\ pc \in [Threads -> PCs] /\ cls \in [Threads -> Classes \cup {NoClass}]
      /\ nm \in [Threads -> Names \cup {NoName}]
      /\ got \in [Threads -> Classes \cup {NoClass}]
  BY DEF Inv, Types, Extra, ExTypes
<1>1. CASE TakeLock(t, "c_lock", "c_lookup") \/ AppendToList(t, "c_append", "c_unlock")
  <2>1. /\ \/ pc[t] = "c_lock" /\ pc' = [pc EXCEPT ![t] = "c_lookup"]
           \/ pc[t] = "c_append" /\ pc' = [pc EXCEPT ![t] = "c_unlock"]
        /\ UNCHANGED <<holder, constructing, touched, cls, nm, got>>
    BY <1>1, Zenon DEF TakeLock, AppendToList, Goto, class, locals
  <2>2. \/ pc[t] = "c_lock" /\ pc'[t] = "c_lookup"
        \/ pc[t] = "c_append" /\ pc'[t] = "c_unlock"
    BY <1>0, <2>1
  <2>3. Ex(t)' /\ AbstractCall(t)' = AbstractCall(t)
    BY <2>1, <2>2, TheCall DEF Shows, Ex, Connected, ForPrototype
  <2> QED BY <2>1, <2>3, MoveKeeps
<1>2. CASE CreateLookup(t)
  <2>1. /\ pc[t] = "c_lookup"
        /\ pc' = [pc EXCEPT ![t] = IF Named(nm[t]) # {} THEN "c_refuse" ELSE "c_fill"]
        /\ UNCHANGED <<holder, constructing, touched, cls, nm, got>>
    BY <1>2 DEF CreateLookup, NameTaken, Local, Goto, registry, class, locals
  <2>2. Frame(t) /\ pc'[t] = IF Named(nm[t]) # {} THEN "c_refuse" ELSE "c_fill"
    BY <1>0, <2>1 DEF Frame, Alone
  <2>3. Ex(t)'
    BY <2>2 DEF Ex, Connected, ForPrototype
  <2>4. CASE Named(nm[t]) # {}
    <3>1. /\ AbstractCall(t) = Rec("create", nm[t], FALSE, NoClass)
          /\ AbstractCall(t)' = Rec("create", nm[t], TRUE, NoClass)
      BY <2>1, <2>2, <2>4, TheCall DEF Shows
    <3> QED BY <1>0, <2>1, <2>2, <2>3, <2>4, <3>1, FrameKeeps, AbsRefusal
  <2>5. CASE Named(nm[t]) = {}
    <3>1. AbstractCall(t)' = AbstractCall(t)
      BY <2>1, <2>2, <2>5, TheCall DEF Shows
    <3> QED BY <1>0, <2>1, <2>2, <2>3, <3>1, QuietKeeps
  <2> QED BY <2>4, <2>5
<1>3. CASE CreateFill(t)
  <2>1. PICK c \in Classes : /\ ~touched[c] /\ cls' = [cls EXCEPT ![t] = c]
                             /\ touched' = [touched EXCEPT ![c] = TRUE]
                             /\ pc' = [pc EXCEPT ![t] = "c_insert"]
                             /\ pc[t] = "c_fill"
                             /\ UNCHANGED <<holder, constructing, nm, got>>
    BY <1>3 DEF CreateFill, Goto, registry
  <2>2. pc'[t] = "c_insert" /\ cls'[t] = c /\ Alone(t)
    BY <1>0, <2>1 DEF Alone
  <2>3. Ex(t)'
    BY <2>1, <2>2 DEF Ex, Connected, ForPrototype, Extra, ExTypes, Untouched
  <2>4. AbstractCall(t)' = AbstractCall(t)
    BY <2>1, <2>2, TheCall DEF Shows
  <2> QED BY <2>1, <2>2, <2>3, <2>4, TouchKeeps
<1>4. CASE CreateUnlock(t)
  <2>1. /\ pc[t] \in {"c_unlock", "c_refuse"} /\ pc' = [pc EXCEPT ![t] = "idle"]
        /\ cls' = [cls EXCEPT ![t] = NoClass] /\ nm' = [nm EXCEPT ![t] = NoName]
        /\ UNCHANGED <<holder, constructing, touched, got>>
    BY <1>4, Zenon DEF CreateUnlock, Return, Goto, class
  <2>2. pc'[t] = "idle" /\ Frame(t)
    BY <1>0, <2>1 DEF Frame, Alone
  <2>3. Ex(t)'
    BY <2>2 DEF Ex, Connected, ForPrototype
  <2>4. AbstractCall(t)' = Nothing
    BY <2>2, TheCall DEF Shows
  <2>5. PICK r : AbstractCall(t) = Rec("create", nm[t], TRUE, r)
    BY <2>1, TheCall DEF Shows
  <2> QED BY <1>0, <2>1, <2>2, <2>3, <2>4, <2>5, FrameKeeps, AbsReturn
<1> QED BY <1>1, <1>2, <1>3, <1>4, InsertRefines DEF CreateStep

(* A selector is registered on its own, or for a prototype.                *)
LEMMA SelectorRefines ==
  ASSUME Inv, Extra, NEW t \in Threads, SelectorStep(t)
  PROVE  Extra' /\ Moves
<1> USE DEF BuildPCs
<1>0. /\ pc \in [Threads -> PCs]
      /\ Builds(t) => cls[t] \in Classes
      /\ pc[t] = "r_sels" => cls[t] = NoClass
      /\ Ex(t)
  BY DEF Inv, Types, Ok, Extra
<1>1. PICK l :
        /\ \/ pc[t] \in {"p_sels", "r_sels"} /\ l \in {pc[t], "s_again"}
           \/ /\ pc[t] \in {"s_again", "s_insert"}
              /\ l \in {BackToSelectors(t), "s_insert"}
           \/ pc[t] = "p_sels" /\ l = "p_ivars"
           \/ pc[t] = "r_sels" /\ l = "idle"
        /\ pc' = [pc EXCEPT ![t] = l]
        /\ UNCHANGED <<holder, constructing, touched, cls, nm, got>>
  <2>1. CASE SelectorLookup(t)
    <3>1. CASE pc' = pc
      BY <1>0, <2>1, <3>1 DEF SelectorLookup, registry, class, Types
    <3>2. CASE pc' = [pc EXCEPT ![t] = "s_again"]
      BY <2>1, <3>2, Zenon DEF SelectorLookup, registry, class
    <3> QED BY <2>1, <3>1, <3>2 DEF SelectorLookup, Goto
  <2>2. CASE SelectorLookupAgain(t)
    BY <2>2 DEF SelectorLookupAgain, Local, Goto, registry, class, locals
  <2>3. CASE SelectorInsert(t)
    BY <2>3, Zenon DEF SelectorInsert, Goto, registry, class
  <2>4. CASE SelectorsDone(t)
    BY <2>4 DEF SelectorsDone, Local, Goto, registry, class, locals
  <2> QED BY <2>1, <2>2, <2>3, <2>4 DEF SelectorStep
<1>2. pc'[t] = l /\ cls'[t] = cls[t]
  BY <1>0, <1>1
<1>3. CASE cls[t] = NoClass
  <2>1. pc[t] \in {"r_sels", "s_again", "s_insert"} /\ l \in {"r_sels", "s_again", "s_insert", "idle"}
    BY <1>0, <1>1, <1>3 DEF Builds, BackToSelectors
  <2>2. Ex(t)'
    BY <1>2, <1>3, <2>1 DEF Ex, Connected, ForPrototype
  <2>3. AbstractCall(t)' = AbstractCall(t)
    BY <1>2, <1>3, <2>1, TheCall DEF Shows
  <2> QED BY <1>1, <2>2, <2>3, MoveKeeps
<1>4. CASE cls[t] # NoClass
  <2>1. /\ pc[t] \in {"p_sels", "s_again", "s_insert"}
        /\ l \in {"p_sels", "s_again", "s_insert", "p_ivars"}
    BY <1>0, <1>1, <1>4 DEF BackToSelectors
  <2>2. Ex(t)'
    BY <1>0, <1>1, <1>2, <1>4, <2>1 DEF Ex, Connected, ForPrototype
  <2>3. AbstractCall(t)' = AbstractCall(t)
    BY <1>1, <1>2, <1>4, <2>1, TheCall DEF Shows
  <2> QED BY <1>1, <2>2, <2>3, MoveKeeps
<1> QED BY <1>3, <1>4

LEMMA ProtoRefines ==
  ASSUME Inv, Extra, NEW t \in Threads, ProtoStep(t)
  PROVE  Extra' /\ Moves
<1> USE DEF BuildPCs
<1>0. /\ pc \in [Threads -> PCs] /\ cls \in [Threads -> Classes \cup {NoClass}]
      /\ nm \in [Threads -> Names \cup {NoName}]
      /\ got \in [Threads -> Classes \cup {NoClass}]
      /\ Builds(t) \/ pc[t] = "p_validate" => cls[t] \in Classes /\ NameOf[cls[t]] = nm[t]
      /\ Builds(t) => Named(nm[t]) = {}
      /\ Ex(t)
  BY DEF Inv, Types, Ok, Extra, ExTypes
<1>1. CASE TakeLock(t, "p_lock", "p_next")
  <2>1. /\ pc[t] = "p_lock" /\ pc' = [pc EXCEPT ![t] = "p_next"]
        /\ UNCHANGED <<holder, constructing, touched, cls, nm, got>>
    BY <1>1, Zenon DEF TakeLock, Goto, class, locals
  <2>2. pc'[t] = "p_next"
    BY <1>0, <2>1
  <2>3. Ex(t)' /\ AbstractCall(t)' = AbstractCall(t)
    BY <2>1, <2>2, TheCall DEF Shows, Ex, Connected, ForPrototype
  <2> QED BY <2>1, <2>3, MoveKeeps
<1>2. CASE RegisterNext(t)
  <2> DEFINE p == Head(todo[t])
  <2>1. /\ pc[t] = "p_next" /\ pc' = [pc EXCEPT ![t] = "p_validate"]
        /\ cls' = [cls EXCEPT ![t] = p] /\ nm' = [nm EXCEPT ![t] = NameOf[p]]
        /\ UNCHANGED <<holder, constructing, touched, got>>
    BY <1>2, Zenon DEF RegisterNext, Local, Goto, registry, class
  <2>2. p \in Classes /\ NameOf[p] \in Names /\ p # NoClass
    <3>1. todo[t] \in Seq(Protos) /\ todo[t] # <<>>
      BY <1>2 DEF RegisterNext, Inv, Types
    <3>2. p \in Protos
      BY <3>1, HeadTailProperties
    <3> HIDE DEF p
    <3> QED BY <3>2
  <2> HIDE DEF p
  <2>3. pc'[t] = "p_validate" /\ cls'[t] = p /\ nm'[t] = NameOf[p] /\ Frame(t)
    BY <1>0, <2>1 DEF Frame, Alone
  <2>4. Ex(t)'
    BY <2>3 DEF Ex, Connected, ForPrototype
  <2>5. AbstractCall(t) = Nothing
    BY <2>1, TheCall DEF Shows
  <2>6. AbstractCall(t)' = Rec("prototype", NameOf[p], FALSE, NoClass)
    <3>1. Shows(AbstractCall(t)', "p_validate", p, NameOf[p], got'[t])
      BY <2>3, TheCall
    <3> QED BY <2>2, <3>1 DEF Shows
  <2> QED BY <1>0, <2>1, <2>2, <2>3, <2>4, <2>5, <2>6, FrameKeeps, AbsBegin
<1>3. CASE RegisterUnlock(t)
  <2>1. /\ pc[t] = "p_next" /\ pc' = [pc EXCEPT ![t] = "idle"]
        /\ cls' = [cls EXCEPT ![t] = NoClass] /\ nm' = [nm EXCEPT ![t] = NoName]
        /\ UNCHANGED <<holder, constructing, touched, got>>
    BY <1>3, Zenon DEF RegisterUnlock, Return, Goto, class
  <2>2. pc'[t] = "idle" /\ Frame(t)
    BY <1>0, <2>1 DEF Frame, Alone
  <2>3. Ex(t)' /\ AbstractCall(t)' = AbstractCall(t)
    BY <2>1, <2>2, TheCall DEF Shows, Ex, Connected, ForPrototype
  <2> QED BY <1>0, <2>1, <2>2, <2>3, QuietKeeps
<1>4. CASE Validate(t) /\ Abort
  BY <1>4, UnchangedKeeps DEF Abort, registry, class, locals
<1>4a. CASE Validate(t) /\ ~Abort
  <2>1. /\ pc[t] = "p_validate"
        /\ pc' = [pc EXCEPT ![t] = IF Valid(cls[t]) THEN "p_super" ELSE "p_refuse"]
        /\ UNCHANGED <<holder, constructing, touched, cls, nm, got>>
    BY <1>4a, Zenon DEF Validate, Local, Goto, registry, class, locals
  <2>2. /\ pc'[t] = IF Valid(cls[t]) THEN "p_super" ELSE "p_refuse"
        /\ cls'[t] = cls[t] /\ nm'[t] = nm[t] /\ Frame(t) /\ cls[t] # NoClass
    BY <1>0, <2>1 DEF Frame, Alone
  <2>3. Ex(t)'
    BY <2>2 DEF Ex, Connected, ForPrototype
  <2>4. AbstractCall(t) = Rec("prototype", nm[t], FALSE, NoClass)
    BY <2>1, <2>2, TheCall DEF Shows
  <2>5. CASE Valid(cls[t])
    <3>1. AbstractCall(t)' = AbstractCall(t)
      BY <2>2, <2>4, <2>5, TheCall DEF Shows
    <3> QED BY <1>0, <2>1, <2>2, <2>3, <3>1, QuietKeeps
  <2>6. CASE ~Valid(cls[t])
    <3>1. AbstractCall(t)' = Rec("prototype", nm[t], TRUE, NoClass)
      BY <2>2, <2>6, TheCall DEF Shows
    <3> QED BY <1>0, <2>1, <2>2, <2>3, <2>4, <3>1, FrameKeeps, AbsRefusal
  <2> QED BY <2>5, <2>6
<1>5. CASE Refuse(t) \/ AppendToList(t, "p_append", "p_next")
  <2>1. /\ pc[t] \in {"p_refuse", "p_append"} /\ pc' = [pc EXCEPT ![t] = "p_next"]
        /\ \A u \in Threads \ {t} : cls'[u] = cls[u] /\ nm'[u] = nm[u]
        /\ UNCHANGED <<holder, constructing, touched, got>>
    <3>1. CASE Refuse(t)
      <4>1. /\ pc[t] = "p_refuse" /\ pc' = [pc EXCEPT ![t] = "p_next"]
            /\ cls' = [cls EXCEPT ![t] = NoClass] /\ nm' = [nm EXCEPT ![t] = NoName]
            /\ UNCHANGED <<holder, constructing, touched, got>>
        BY <3>1, Zenon DEF Refuse, Local, Goto, registry, class
      <4> QED BY <1>0, <4>1
    <3>2. CASE AppendToList(t, "p_append", "p_next")
      <4>1. /\ pc[t] = "p_append" /\ pc' = [pc EXCEPT ![t] = "p_next"]
            /\ UNCHANGED <<holder, constructing, touched, cls, nm, got>>
        BY <3>2, Zenon DEF AppendToList, Goto, class, locals
      <4> QED BY <4>1
    <3> QED BY <1>5, <3>1, <3>2
  <2>2. pc'[t] = "p_next" /\ Frame(t)
    BY <1>0, <2>1 DEF Frame, Alone
  <2>3. Ex(t)' /\ AbstractCall(t)' = Nothing
    BY <2>2, TheCall DEF Shows, Ex, Connected, ForPrototype
  <2>4. PICK r : AbstractCall(t) = Rec("prototype", nm[t], TRUE, r)
    BY <2>1, TheCall DEF Shows
  <2>5. /\ Extra' /\ holder' = holder /\ finished' = finished
        /\ \A u \in Threads \ {t} : AbstractCall(u)' = AbstractCall(u)
    BY <1>0, <2>1, <2>2, <2>3, FrameKeeps
  <2> QED BY <2>3, <2>4, <2>5, AbsReturn
<1>6. CASE ConnectSuper(t)
  <2>1. /\ pc[t] = "p_super" /\ pc' = [pc EXCEPT ![t] = "p_sels"]
        /\ touched' = [touched EXCEPT ![cls[t]] = TRUE]
        /\ UNCHANGED <<holder, constructing, cls, nm, got>>
    BY <1>6, Zenon DEF ConnectSuper, Goto, registry
  <2>2. /\ pc'[t] = "p_sels" /\ cls[t] \in Classes /\ cls[t] # NoClass /\ Alone(t)
        /\ touched'[cls[t]]
    BY <1>0, <2>1 DEF Alone, Builds, Extra, ExTypes
  <2>3. Ex(t)' /\ AbstractCall(t)' = AbstractCall(t)
    BY <2>1, <2>2, TheCall DEF Shows, Ex, Connected, ForPrototype
  <2> QED BY <2>1, <2>2, <2>3, TouchKeeps
<1>7. CASE AddProtoIvars(t) \/ Extend(t, "p_extend", "p_done")
  <2>1. /\ \/ pc[t] = "p_ivars" /\ pc' = [pc EXCEPT ![t] = "p_extend"]
           \/ pc[t] = "p_extend" /\ pc' = [pc EXCEPT ![t] = "p_done"]
        /\ UNCHANGED <<holder, constructing, touched, cls, nm, got>>
    BY <1>7, Zenon DEF AddProtoIvars, Extend, Goto, registry, locals
  <2>2. pc[t] \in {"p_ivars", "p_extend"} /\ pc'[t] \in {"p_extend", "p_done"}
    BY <1>0, <2>1
  <2>3. cls[t] # NoClass
    BY <1>0, <2>2 DEF Builds
  <2>4. Ex(t)' /\ AbstractCall(t)' = AbstractCall(t)
    BY <1>0, <2>1, <2>2, <2>3, TheCall DEF Shows, Ex, Connected, ForPrototype
  <2> QED BY <2>1, <2>4, MoveKeeps
<1>8. CASE MarkDone(t)
  <2>1. /\ pc[t] = "p_done" /\ pc' = [pc EXCEPT ![t] = "p_insert"]
        /\ constructing' = [constructing EXCEPT ![cls[t]] = FALSE]
        /\ UNCHANGED <<holder, touched, cls, nm, got>>
    BY <1>8, Zenon DEF MarkDone, Goto, registry, locals
  <2>2. /\ pc'[t] = "p_insert" /\ cls[t] \in Classes /\ cls[t] # NoClass /\ Alone(t)
        /\ cls[t] \notin holder /\ ~constructing'[cls[t]] /\ touched[cls[t]]
    BY <1>0, <2>1 DEF Alone, Builds, Extra, ExTypes, Named, Ex, Connected
  <2>3. Ex(t)' /\ AbstractCall(t)' = AbstractCall(t)
    BY <2>1, <2>2, TheCall DEF Shows, Ex, Connected, ForPrototype
  <2>4. ASSUME NEW u \in Threads \ {t} PROVE Ex(u)'
    <3>1. pc[u] # "c_insert"
      BY <2>1 DEF Inv, Ok, HasLock, LockPCs
    <3>2. Ex(u) /\ \A c : ~constructing[c] /\ c \in Classes => ~constructing'[c]
      BY <2>1, <2>2 DEF Extra, ExTypes
    <3>3. pc[u] = "p_insert" => cls[u] \in Classes
      BY DEF Inv, Ok, Builds
    <3> QED BY <2>1, <2>2, <3>1, <3>2, <3>3 DEF Ex, Connected, ForPrototype, Alone
  <2>5. Extra'
    BY <2>1, <2>2, <2>3, <2>4 DEF Extra, ExTypes, Untouched
  <2>6. finished' = finished
    BY <2>1, <2>2 DEF finished, Extra, ExTypes, Inv, Types
  <2> QED BY <2>1, <2>2, <2>3, <2>5, <2>6, AloneCalls, AbsStutter
<1> QED BY <1>1, <1>2, <1>3, <1>4, <1>4a, <1>5, <1>6, <1>7, <1>8, InsertRefines DEF ProtoStep

LEMMA FinishRefines ==
  ASSUME Inv, Extra, NEW t \in Threads, FinishStep(t)
  PROVE  Extra' /\ Moves
<1> USE DEF BuildPCs
<1>0. /\ pc \in [Threads -> PCs] /\ cls \in [Threads -> Classes \cup {NoClass}]
      /\ nm \in [Threads -> Names \cup {NoName}] /\ holder \subseteq Classes
      /\ Ex(t)
  BY DEF Inv, Types, Extra
<1>1. CASE Extend(t, "f_extend", "f_flag")
  <2>1. /\ pc[t] = "f_extend" /\ pc' = [pc EXCEPT ![t] = "f_flag"]
        /\ UNCHANGED <<holder, constructing, touched, cls, nm, got>>
    BY <1>1, Zenon DEF Extend, Goto, registry, locals
  <2>2. pc'[t] = "f_flag"
    BY <1>0, <2>1
  <2>3. Ex(t)' /\ AbstractCall(t)' = AbstractCall(t)
    BY <1>0, <2>1, <2>2, TheCall DEF Shows, Ex, Connected, ForPrototype
  <2> QED BY <2>1, <2>3, MoveKeeps
<1>2. CASE FinishFlag(t)
  <2> DEFINE x == cls[t]
  <2>1. /\ pc[t] = "f_flag" /\ pc' = [pc EXCEPT ![t] = "idle"]
        /\ cls' = [cls EXCEPT ![t] = NoClass] /\ nm' = [nm EXCEPT ![t] = NoName]
        /\ constructing' = [constructing EXCEPT ![x] = FALSE]
        /\ UNCHANGED <<holder, touched, got>>
    BY <1>2, Zenon DEF FinishFlag, Return, Goto, registry
  <2>2. pc'[t] = "idle" /\ x \in holder /\ Alone(t)
    BY <1>0, <2>1 DEF Alone, Ex
  <2> HIDE DEF x
  <2>3. Ex(t)' /\ AbstractCall(t)' = AbstractCall(t)
    BY <2>1, <2>2, TheCall DEF Shows, Ex, Connected, ForPrototype
  <2>4. /\ constructing' \in [Classes -> BOOLEAN] /\ ~constructing'[x]
        /\ \A c \in Classes : c # x => constructing'[c] = constructing[c]
    BY <1>0, <2>1, <2>2 DEF Extra, ExTypes
  <2>5. ASSUME NEW u \in Threads \ {t} PROVE Ex(u)'
    <3>1. pc[u] \in {"c_insert", "p_insert"} => cls[u] \in Classes /\ cls[u] # x
      BY <2>2 DEF Inv, Ok, Builds, Named
    <3>2. Ex(u)
      BY DEF Extra
    <3> QED BY <2>1, <2>2, <2>4, <3>1, <3>2 DEF Ex, Connected, ForPrototype, Alone
  <2>6. Extra'
    BY <1>0, <2>1, <2>2, <2>3, <2>4, <2>5 DEF Extra, ExTypes, Untouched
  <2>7. finished' = finished \cup {x}
    BY <1>0, <2>1, <2>2, <2>4 DEF finished
  <2> QED BY <1>0, <2>1, <2>2, <2>3, <2>6, <2>7, AloneCalls, AbsFinish
<1> QED BY <1>1, <1>2 DEF FinishStep

(* A look-up answers at the look-up, if it finds nothing, else at the flag. *)
LEMMA FindRefines ==
  ASSUME Inv, Extra, NEW t \in Threads, FindStep(t)
  PROVE  Extra' /\ Moves
<1> USE DEF BuildPCs
<1>0. /\ pc \in [Threads -> PCs] /\ cls \in [Threads -> Classes \cup {NoClass}]
      /\ nm \in [Threads -> Names \cup {NoName}] /\ holder \subseteq Classes
      /\ got \in [Threads -> Classes \cup {NoClass}]
      /\ NamesUnique /\ Ex(t)
  BY DEF Inv, Types, Extra, ExTypes
<1>1. CASE FindLookup(t)
  <2>1. CASE Named(nm[t]) = {}
    <3>1. /\ pc[t] = "n_lookup" /\ pc' = [pc EXCEPT ![t] = "n_ret"]
          /\ UNCHANGED <<holder, constructing, touched, cls, nm, got>>
      BY <1>1, <2>1, Zenon DEF FindLookup, Local, Goto, registry, class
    <3>2. pc'[t] = "n_ret" /\ got[t] = NoClass /\ Frame(t)
      BY <1>0, <3>1 DEF Frame, Alone, Ex
    <3>3. Ex(t)'
      BY <3>2 DEF Ex, Connected, ForPrototype
    <3>4. /\ AbstractCall(t) = Rec("find", nm[t], FALSE, NoClass)
          /\ AbstractCall(t)' = Rec("find", nm[t], TRUE, NoClass)
      BY <3>1, <3>2, TheCall DEF Shows
    <3>5. \A c \in finished : NameOf[c] # nm[t]
      BY <2>1 DEF finished, Named
    <3> QED BY <1>0, <3>1, <3>2, <3>3, <3>4, <3>5, FrameKeeps, AbsFind
  <2>2. CASE Named(nm[t]) # {}
    <3>1. PICK c \in Named(nm[t]) :
            /\ pc[t] = "n_lookup" /\ pc' = [pc EXCEPT ![t] = "n_flag"]
            /\ cls' = [cls EXCEPT ![t] = c]
            /\ UNCHANGED <<holder, constructing, touched, nm, got>>
      BY <1>1, <2>2, Zenon DEF FindLookup, Local, Goto, registry, class
    <3>2. pc'[t] = "n_flag" /\ cls'[t] = c /\ got[t] = NoClass /\ Frame(t)
      BY <1>0, <3>1 DEF Frame, Alone, Ex
    <3>3. c \in holder /\ NameOf[c] = nm[t] /\ nm'[t] = nm[t]
      BY <3>1 DEF Named
    <3>4. Ex(t)'
      BY <3>1, <3>2, <3>3 DEF Ex, Connected, ForPrototype
    <3>5. AbstractCall(t)' = AbstractCall(t)
      <4>1. AbstractCall(t) = Rec("find", nm[t], FALSE, NoClass)
        BY <3>1, TheCall DEF Shows
      <4>2. AbstractCall(t)' = Rec("find", nm'[t], FALSE, NoClass)
        BY <3>2, TheCall DEF Shows
      <4> QED BY <3>3, <4>1, <4>2
    <3>6. got' \in [Threads -> Classes \cup {NoClass}]
      BY <1>0, <3>1
    <3> QED BY <3>2, <3>4, <3>5, <3>6, QuietKeeps
  <2> QED BY <2>1, <2>2
<1>2. CASE FindFlag(t)
  <2> DEFINE r == IF constructing[cls[t]] THEN NoClass ELSE cls[t]
  <2>1. /\ pc[t] = "n_flag" /\ pc' = [pc EXCEPT ![t] = "n_ret"]
        /\ got' = [got EXCEPT ![t] = r]
        /\ UNCHANGED <<holder, constructing, touched, cls, nm>>
    BY <1>2, Zenon DEF FindFlag, Hidden, Local, Goto, registry, class
  <2>2. r \in Classes \cup {NoClass}
    BY <1>0
  <2>3. \/ r \in finished /\ NameOf[r] = nm[t]
        \/ r = NoClass /\ \A c \in finished : NameOf[c] # nm[t]
    BY <1>0, <2>1 DEF Ex, finished, NamesUnique
  <2> HIDE DEF r
  <2>4. /\ pc'[t] = "n_ret" /\ got'[t] = r /\ Frame(t)
        /\ got' \in [Threads -> Classes \cup {NoClass}]
    BY <1>0, <2>1, <2>2 DEF Frame, Alone
  <2>5. Ex(t)'
    BY <2>4 DEF Ex, Connected, ForPrototype
  <2>6. /\ AbstractCall(t) = Rec("find", nm[t], FALSE, NoClass)
        /\ AbstractCall(t)' = Rec("find", nm[t], TRUE, r)
    BY <2>1, <2>4, TheCall DEF Shows
  <2>7. /\ Extra' /\ holder' = holder /\ finished' = finished
        /\ \A u \in Threads \ {t} : AbstractCall(u)' = AbstractCall(u)
    BY <2>4, <2>5, FrameKeeps
  <2>8. PICK n : n = nm[t]
    OBVIOUS
  <2> QED BY <2>3, <2>6, <2>7, <2>8, AbsFind
<1>3. CASE FindReturn(t)
  <2>1. /\ pc[t] = "n_ret" /\ pc' = [pc EXCEPT ![t] = "idle"]
        /\ cls' = [cls EXCEPT ![t] = NoClass] /\ nm' = [nm EXCEPT ![t] = NoName]
        /\ UNCHANGED <<holder, constructing, touched, got>>
    BY <1>3, Zenon DEF FindReturn, Return, Goto, registry, class
  <2>2. pc'[t] = "idle" /\ Frame(t)
    BY <1>0, <2>1 DEF Frame, Alone
  <2>3. Ex(t)' /\ AbstractCall(t)' = Nothing
    BY <2>2, TheCall DEF Shows, Ex, Connected, ForPrototype
  <2>4. PICK r : AbstractCall(t) = Rec("find", nm[t], TRUE, r)
    BY <2>1, TheCall DEF Shows
  <2> QED BY <1>0, <2>1, <2>2, <2>3, <2>4, FrameKeeps, AbsReturn
<1> QED BY <1>1, <1>2, <1>3 DEF FindStep

LEMMA ExtraInit == Init => Extra
BY DEF Init, Extra, ExTypes, Untouched, Ex, Connected, BuildPCs, ForPrototype

(* The class registry implements the atomic one: whoever creates, registers *)
(* or looks up, each call takes effect at one instant, and a look-up gives  *)
(* out only what was finished then (class.c:837, class.c:1092, class.c:1356). *)
THEOREM RegistryIsAtomic == Spec => ImplementsRegistry
<1>1. Inv /\ Extra /\ [Next]_vars => Extra' /\ Moves
  <2> SUFFICES ASSUME Inv, Extra, [Next]_vars PROVE Extra' /\ Moves
    OBVIOUS
  <2>1. ASSUME NEW t \in Threads, Begin(t) PROVE Extra' /\ Moves
    BY <2>1, BeginRefines
  <2>2. ASSUME NEW t \in Threads, Step(t) PROVE Extra' /\ Moves
    BY <2>2, CreateRefines, FinishRefines, ProtoRefines, SelectorRefines, FindRefines
       DEF Step
  <2>3. CASE UNCHANGED vars
    BY <2>3, UnchangedKeeps DEF vars, registry, class, locals
  <2> QED BY <2>1, <2>2, <2>3 DEF Next
<1>2. Moves => [Abstract!Next]_Abstract!vars
  BY DEF Moves
<1> QED BY <1>1, <1>2, AbsInit, ExtraInit, RegistryInv, PTL
        DEF Spec, ImplementsRegistry, Abstract!Spec

-----------------------------------------------------------------------------
(* What the structures are.  A class is changed by the thread that creates *)
(* and finishes it, or, if it is a prototype, by the owner of the lock.    *)

ProtoSelNames == UNION {ProtoSels[p] : p \in Protos}
SelNames == ProtoSelNames \cup UNION {OwnSels[t] : t \in Threads}

Layout(s) == s \in Seq(Elems(s)) /\ \A v \in Elems(s) : v.size \in Nat /\ v.offset \in Nat

ClassTypes ==
  /\ super \in [Classes -> Classes \cup {NoClass}] /\ size \in [Classes -> Nat]
  /\ ivars = [c \in Classes |-> ivars[c]] /\ \A c \in Classes : Layout(ivars[c])
  /\ constructing \in [Classes -> BOOLEAN] /\ touched \in [Classes -> BOOLEAN]
  /\ extended \in [Classes -> Nat] /\ builder \in [Classes -> Threads \cup {NoThread}]

LocalTypes ==
  /\ sup \in [Threads -> Classes \cup {NoClass}] /\ got \in [Threads -> Classes \cup {NoClass}]
  /\ selTodo \in [Threads -> SUBSET SelNames] /\ sel = [t \in Threads |-> sel[t]]
  /\ sels \in Seq(SelNames) /\ lock \in Threads \cup {NoThread} /\ aborted \in BOOLEAN

(* The selectors that a thread registers, for a prototype or on its own.   *)
SelPCs == {"p_sels", "r_sels", "s_again", "s_insert"}
Registers(t) == IF cls[t] # NoClass THEN ProtoSelNames ELSE OwnSels[t]

PrototypePCs == {"p_validate", "p_super", "p_sels", "p_ivars", "p_extend", "p_done",
                 "p_insert", "p_append", "p_refuse"}
HasSuperPCs == {"c_lock", "c_lookup", "c_fill"}
(* A prototype that has its superclass, but not yet its extensions.        *)
Prepares(t) == pc[t] \in {"p_sels", "p_ivars", "p_extend"} \/ ForPrototype(t)

At(t) ==
  /\ lock = t => HasLock(t)
  /\ pc[t] \in PrototypePCs \/ ForPrototype(t) => cls[t] \in Protos
  /\ pc[t] \in SelPCs => selTodo[t] \subseteq Registers(t)
  /\ pc[t] \in {"s_again", "s_insert"} => sel[t] \in Registers(t)
  /\ pc[t] \in HasSuperPCs /\ sup[t] # NoClass => ~constructing[sup[t]]
  /\ pc[t] = "c_insert" => /\ cls[t] \notin Protos /\ touched[cls[t]]
                           /\ builder[cls[t]] = t
  /\ pc[t] = "p_super" => ~touched[cls[t]]
  /\ Prepares(t) => touched[cls[t]] /\ constructing[cls[t]] /\ extended[cls[t]] = 0
  /\ pc[t] = "p_done" => touched[cls[t]] /\ constructing[cls[t]] /\ extended[cls[t]] = 1
  /\ pc[t] = "p_insert" => touched[cls[t]] /\ ~constructing[cls[t]]
  /\ pc[t] \in {"f_extend", "f_flag"} =>
       /\ cls[t] \in holder /\ builder[cls[t]] = t /\ constructing[cls[t]]
       /\ extended[cls[t]] = IF pc[t] = "f_flag" THEN 1 ELSE 0
  /\ pc[t] = "n_flag" => cls[t] \in holder
  /\ got[t] # NoClass => ~constructing[got[t]]

Finishing(c) == builder[c] \in Threads /\ pc[builder[c]] = "f_flag" /\ cls[builder[c]] = c
ClassOk(c) ==
  /\ ~touched[c] => /\ constructing[c] /\ c \notin holder /\ super[c] = NoClass
                    /\ extended[c] = 0 /\ builder[c] = NoThread /\ ivars[c] = <<>>
  /\ c \in Protos => builder[c] = NoThread /\ (c \in holder => ~constructing[c])
  /\ ~constructing[c] => extended[c] = 1
  /\ c \notin Protos /\ constructing[c] => extended[c] = 0 \/ Finishing(c)

Built == /\ ClassTypes /\ LocalTypes
         /\ \A t \in Threads : At(t)
         /\ \A c \in Classes : ClassOk(c)

-----------------------------------------------------------------------------
(* Only the thread that takes a step moves, and only its class changes.    *)

LEMMA LayoutTypes ==
  /\ \A p \in Protos : Layout(ProtoIvars[p])
  /\ \A v \in NewIvars : v.size \in Nat /\ v.align \in Nat
BY LayoutAssumption DEF Layout

OthersWait(t) ==
  \A u \in Threads \ {t} :
    /\ pc'[u] = pc[u] /\ cls'[u] = cls[u] /\ sup'[u] = sup[u] /\ got'[u] = got[u]
    /\ sel'[u] = sel[u] /\ selTodo'[u] = selTodo[u]

ClassKept(c) ==
  /\ super'[c] = super[c] /\ size'[c] = size[c] /\ ivars'[c] = ivars[c]
  /\ constructing'[c] = constructing[c] /\ touched'[c] = touched[c]
  /\ extended'[c] = extended[c] /\ builder'[c] = builder[c]

(* Where a thread relies on its class being as it left it. *)
UsePCs == {"c_insert", "p_super", "p_done", "p_insert", "f_extend", "f_flag"}
Uses(t, c) == cls[t] = c /\ (pc[t] \in UsePCs \/ Prepares(t))

LEMMA OneUser ==
  ASSUME Inv, Built, NEW t \in Threads, NEW u \in Threads, NEW c, Uses(t, c), Uses(u, c)
  PROVE  t = u
<1>1. ASSUME NEW w \in Threads, Uses(w, c), c \in Protos PROVE lock = w
  <2>1. At(w) /\ Ok(w)
    BY DEF Inv, Built
  <2>2. pc[w] \in {"c_insert", "f_extend", "f_flag"} => builder[c] = w /\ (pc[w] # "c_insert" => c \in holder)
    BY <1>1, <2>1 DEF At, Uses
  <2>3. c \in Classes => builder[c] = NoThread
    BY <1>1 DEF Built, ClassOk
  <2>4. pc[w] \notin {"c_insert", "f_extend", "f_flag"}
    BY <1>1, <2>2, <2>3, RegistryAssumption
  <2> QED BY <1>1, <2>1, <2>4 DEF Uses, UsePCs, Prepares, ForPrototype, Ok, HasLock, LockPCs
<1>2. ASSUME NEW w \in Threads, Uses(w, c), c \notin Protos PROVE builder[c] = w
  <2>1. At(w)
    BY DEF Built
  <2> QED BY <1>2, <2>1 DEF At, Uses, UsePCs, Prepares, PrototypePCs, ForPrototype
<1> QED BY <1>1, <1>2

LEMMA UsedIsTouched ==
  ASSUME Inv, Built, NEW t \in Threads, NEW c \in Classes, Uses(t, c)
  PROVE  touched[c] \/ (c \in Protos /\ pc[t] = "p_super")
<1>1. At(t) /\ ClassOk(c)
  BY DEF Built
<1> QED BY <1>1 DEF At, Uses, UsePCs, ClassOk, PrototypePCs

(* What a step of t leaves of what other threads rely on. *)
LEMMA OtherThreads ==
  ASSUME Inv, Built, NEW t \in Threads, OthersWait(t), NEW u \in Threads \ {t},
         lock' \in {lock, t, NoThread}, holder \subseteq holder',
         \A c \in Classes : ~constructing[c] => ~constructing'[c],
         Uses(u, cls[u]) => ClassKept(cls[u])
  PROVE  At(u)'
<1>1. At(u) /\ Ok(u)
  BY DEF Inv, Built
<1>2. /\ pc'[u] = pc[u] /\ cls'[u] = cls[u] /\ sup'[u] = sup[u] /\ got'[u] = got[u]
      /\ sel'[u] = sel[u] /\ selTodo'[u] = selTodo[u]
  BY DEF OthersWait
<1>3. /\ HasLock(u)' = HasLock(u) /\ ForPrototype(u)' = ForPrototype(u)
      /\ Prepares(u)' = Prepares(u) /\ Registers(u)' = Registers(u)
  BY <1>2 DEF HasLock, ForPrototype, Prepares, Registers
<1>4. /\ sup[u] # NoClass /\ ~constructing[sup[u]] => ~constructing'[sup[u]]
      /\ got[u] # NoClass /\ ~constructing[got[u]] => ~constructing'[got[u]]
  BY DEF Built, LocalTypes
<1>5. lock' = u => lock = u
  BY RegistryAssumption
<1>6. pc[u] \in UsePCs \/ Prepares(u) => ClassKept(cls[u])
  BY DEF Uses
<1> QED BY <1>1, <1>2, <1>3, <1>4, <1>5, <1>6 DEF At, UsePCs, ClassKept

LEMMA OtherClasses ==
  ASSUME Inv, Built, NEW t \in Threads, OthersWait(t), NEW c \in Classes, ClassKept(c),
         c \in holder' => c \in holder \/ (touched[c] /\ (c \in Protos => ~constructing[c])),
         pc[t] = "f_flag" => cls[t] # c
  PROVE  ClassOk(c)'
<1>1. ClassOk(c)
  BY DEF Built
<1>2. Finishing(c) => Finishing(c)'
  BY DEF Finishing, OthersWait, ClassKept
<1> QED BY <1>1, <1>2 DEF ClassOk, ClassKept

(* A step that leaves the classes alone. *)
LEMMA LocalBuilds ==
  ASSUME Inv, Built, NEW t \in Threads, OthersWait(t), UNCHANGED class,
         lock' \in {lock, t, NoThread}, holder \subseteq holder',
         \A c \in holder' \ holder : touched[c] /\ (c \in Protos => ~constructing[c]),
         pc[t] # "f_flag", LocalTypes', At(t)'
  PROVE  Built'
<1>1. \A c : ClassKept(c)
  BY DEF ClassKept, class
<1>2. ClassTypes'
  <2>1. ClassTypes
    BY DEF Built
  <2>2. UNCHANGED <<super, size, ivars, constructing, touched, extended, builder>>
    BY DEF class
  <2>3. \A c : Layout(ivars[c])' <=> Layout(ivars[c])
    BY <2>2 DEF Layout, Elems
  <2> QED BY <2>1, <2>2, <2>3 DEF ClassTypes
<1>3. \A c \in Classes : ~constructing[c] => ~constructing'[c]
  BY DEF class
<1>4. \A u \in Threads : At(u)'
  BY <1>1, <1>3, OtherThreads
<1>5. \A c \in Classes : ClassOk(c)'
  BY <1>1, OtherClasses
<1> QED BY <1>2, <1>4, <1>5 DEF Built

(* A step that changes one class, which no other thread relies on. *)
LEMMA ClassBuilds ==
  ASSUME Inv, Built, NEW t \in Threads, OthersWait(t), NEW x \in Classes,
         UNCHANGED <<holder, lock>>, ClassTypes', LocalTypes', At(t)', ClassOk(x)',
         \A c \in Classes \ {x} : ClassKept(c),
         \A u \in Threads \ {t} : ~Uses(u, x),
         ~constructing[x] => ~constructing'[x],
         \A u \in Threads : pc[u] \in UsePCs \/ Prepares(u) => cls[u] \in Classes,
         pc[t] = "f_flag" => cls[t] = x
  PROVE  Built'
<1>1. \A c \in Classes : ~constructing[c] => ~constructing'[c]
  BY DEF ClassKept
<1>2. ASSUME NEW u \in Threads \ {t} PROVE At(u)'
  <2>1. Uses(u, cls[u]) => ClassKept(cls[u])
    BY DEF Uses
  <2> QED BY <1>1, <2>1, OtherThreads
<1>3. ASSUME NEW c \in Classes \ {x} PROVE ClassOk(c)'
  BY OtherClasses
<1> QED BY <1>2, <1>3 DEF Built

LEMMA UsesClasses ==
  ASSUME Inv, Built, NEW u \in Threads, pc[u] \in UsePCs \/ Prepares(u)
  PROVE  cls[u] \in Classes
<1>1. At(u) /\ Ok(u) /\ holder \subseteq Classes
  BY DEF Inv, Built, Types
<1> QED BY <1>1, RegistryAssumption
        DEF At, Ok, UsePCs, Prepares, Builds, BuildPCs, ForPrototype, PrototypePCs

-----------------------------------------------------------------------------
(* The steps.                                                              *)

LEMMA WaitInBegin ==
  ASSUME Inv, Built, NEW t \in Threads, Begin(t)
  PROVE  OthersWait(t)
<1> USE DEF OthersWait, Local, Goto, locals
<1>0. /\ pc \in [Threads -> PCs] /\ cls \in [Threads -> Classes \cup {NoClass}]
      /\ sup \in [Threads -> Classes \cup {NoClass}]
      /\ got \in [Threads -> Classes \cup {NoClass}]
      /\ selTodo \in [Threads -> SUBSET SelNames]
  BY DEF Inv, Types, Built, LocalTypes
<1>1. ASSUME Abort PROVE OthersWait(t)
  BY <1>1 DEF Abort
<1>2. ASSUME NEW s, NEW n, BeginCreate(t, s, n) PROVE OthersWait(t)
  BY <1>0, <1>1, <1>2 DEF BeginCreate
<1>3. ASSUME NEW c \in Classes, BeginFinish(t, c) PROVE OthersWait(t)
  BY <1>0, <1>3 DEF BeginFinish
<1>4. ASSUME NEW c, NEW v, AddIvar(t, c, v) PROVE OthersWait(t)
  BY <1>0, <1>1, <1>4 DEF AddIvar
<1>5. ASSUME NEW batch, BeginRegister(t, batch) PROVE OthersWait(t)
  BY <1>0, <1>5 DEF BeginRegister
<1>6. ASSUME NEW n, BeginSelector(t, n) PROVE OthersWait(t)
  BY <1>0, <1>6 DEF BeginSelector
<1>7. ASSUME NEW n, BeginFind(t, n) PROVE OthersWait(t)
  BY <1>0, <1>7 DEF BeginFind
<1> QED BY <1>2, <1>3, <1>4, <1>5, <1>6, <1>7 DEF Begin

LEMMA WaitInStep ==
  ASSUME Inv, Built, NEW t \in Threads, Step(t)
  PROVE  OthersWait(t)
<1> USE DEF OthersWait, Local, Goto, locals, Return
<1>0. /\ pc \in [Threads -> PCs] /\ cls \in [Threads -> Classes \cup {NoClass}]
      /\ sup \in [Threads -> Classes \cup {NoClass}]
      /\ got \in [Threads -> Classes \cup {NoClass}]
      /\ selTodo \in [Threads -> SUBSET SelNames] /\ sel = [u \in Threads |-> sel[u]]
  BY DEF Inv, Types, Built, LocalTypes
<1>1. ASSUME NEW at, NEW after,
             \/ TakeLock(t, at, after) \/ Insert(t, at, after)
             \/ AppendToList(t, at, after) \/ Extend(t, at, after)
      PROVE  OthersWait(t)
  BY <1>0, <1>1 DEF TakeLock, Insert, AppendToList, Extend
<1>2. CASE CreateLookup(t) \/ CreateFill(t) \/ CreateUnlock(t) \/ FinishFlag(t)
  BY <1>0, <1>2 DEF CreateLookup, CreateFill, CreateUnlock, FinishFlag
<1>3. CASE \/ RegisterNext(t) \/ RegisterUnlock(t) \/ Validate(t) \/ Refuse(t)
           \/ ConnectSuper(t) \/ AddProtoIvars(t) \/ MarkDone(t)
  BY <1>0, <1>3 DEF RegisterNext, RegisterUnlock, Validate, Abort, Refuse, ConnectSuper,
     AddProtoIvars, MarkDone
<1>4. CASE SelectorStep(t)
  BY <1>0, <1>4 DEF SelectorStep, SelectorLookup, SelectorLookupAgain, SelectorInsert,
     SelectorsDone
<1>5. CASE FindStep(t)
  BY <1>0, <1>5 DEF FindStep, FindLookup, FindFlag, FindReturn
<1> QED BY <1>1, <1>2, <1>3, <1>4, <1>5 DEF Step, CreateStep, FinishStep, ProtoStep

LEMMA AllWait ==
  ASSUME Inv, Built, NEW t \in Threads, Begin(t) \/ Step(t)
  PROVE  OthersWait(t)
BY WaitInBegin, WaitInStep

(* The locals keep their types. *)
LEMMA LocalsInBegin ==
  ASSUME Inv, Built, NEW t \in Threads, Begin(t)
  PROVE  LocalTypes'
<1> USE DEF Local, locals, registry
<1>0. LocalTypes
  BY DEF Built
<1>1. ASSUME Abort PROVE LocalTypes'
  BY <1>0, <1>1 DEF Abort, LocalTypes
<1>2. ASSUME NEW s \in Classes \cup {NoClass}, NEW n, BeginCreate(t, s, n) PROVE LocalTypes'
  BY <1>0, <1>1, <1>2 DEF BeginCreate, LocalTypes
<1>3. ASSUME NEW c \in Classes, BeginFinish(t, c) PROVE LocalTypes'
  BY <1>0, <1>3 DEF BeginFinish, LocalTypes
<1>4. ASSUME NEW c, NEW v, AddIvar(t, c, v) PROVE LocalTypes'
  BY <1>0, <1>1, <1>4 DEF AddIvar, LocalTypes
<1>5. ASSUME NEW batch, BeginRegister(t, batch) PROVE LocalTypes'
  BY <1>0, <1>5 DEF BeginRegister, LocalTypes
<1>6. ASSUME NEW n \in OwnSels[t], BeginSelector(t, n) PROVE LocalTypes'
  <2>1. {n} \in SUBSET SelNames
    BY DEF SelNames
  <2>2. selTodo' = [selTodo EXCEPT ![t] = {n}] /\ UNCHANGED <<sup, got, sel, sels, lock, aborted>>
    BY <1>6 DEF BeginSelector
  <2> QED BY <1>0, <2>1, <2>2 DEF LocalTypes
<1>7. ASSUME NEW n, BeginFind(t, n) PROVE LocalTypes'
  BY <1>0, <1>7 DEF BeginFind, LocalTypes
<1> QED BY <1>2, <1>3, <1>4, <1>5, <1>6, <1>7 DEF Begin

LEMMA LocalsInStep ==
  ASSUME Inv, Built, NEW t \in Threads, Step(t)
  PROVE  LocalTypes'
<1> USE DEF Local, locals, registry, Return
<1>0. LocalTypes /\ At(t) /\ cls \in [Threads -> Classes \cup {NoClass}]
  BY DEF Built, Inv, Types
<1>1. ASSUME NEW at, NEW after,
             \/ TakeLock(t, at, after) \/ Insert(t, at, after)
             \/ AppendToList(t, at, after) \/ Extend(t, at, after)
      PROVE  LocalTypes'
  BY <1>0, <1>1 DEF TakeLock, Insert, AppendToList, Extend, LocalTypes
<1>2. CASE CreateLookup(t) \/ CreateFill(t) \/ CreateUnlock(t) \/ FinishFlag(t)
  BY <1>0, <1>2 DEF CreateLookup, CreateFill, CreateUnlock, FinishFlag, LockReleased, LocalTypes
<1>3. CASE \/ RegisterNext(t) \/ RegisterUnlock(t) \/ Validate(t) \/ Refuse(t)
           \/ AddProtoIvars(t) \/ MarkDone(t)
  BY <1>0, <1>3 DEF RegisterNext, RegisterUnlock, Validate, Abort, class, Refuse,
     AddProtoIvars, MarkDone, LockReleased, LocalTypes
<1>4. CASE ConnectSuper(t)
  <2>1. /\ selTodo' = [selTodo EXCEPT ![t] = ProtoSels[cls[t]]] /\ pc[t] = "p_super"
        /\ UNCHANGED <<sup, got, sel, sels, lock, aborted>>
    BY <1>4 DEF ConnectSuper
  <2>2. ProtoSels[cls[t]] \in SUBSET SelNames
    BY <1>0, <2>1 DEF At, SelNames, ProtoSelNames, PrototypePCs
  <2> QED BY <1>0, <2>1, <2>2 DEF LocalTypes
<1>5. CASE SelectorLookup(t) \/ SelectorLookupAgain(t) \/ SelectorsDone(t)
  <2>1. /\ UNCHANGED <<sup, got, sels, lock, aborted>>
        /\ selTodo' = selTodo \/ \E n \in selTodo[t] : selTodo' = [selTodo EXCEPT ![t] = @ \ {n}]
        /\ sel' = sel \/ \E n : sel' = [sel EXCEPT ![t] = n]
    BY <1>5 DEF SelectorLookup, SelectorLookupAgain, SelectorsDone
  <2> QED BY <1>0, <2>1 DEF LocalTypes
<1>6. CASE SelectorInsert(t)
  <2>1. /\ UNCHANGED <<sup, got, selTodo, lock, aborted>> /\ sels' = Append(sels, sel[t])
        /\ sel' = [sel EXCEPT ![t] = NoName] /\ pc[t] = "s_insert"
    BY <1>6 DEF SelectorInsert
  <2>2. sel[t] \in SelNames
    BY <1>0, <2>1 DEF At, Registers, SelNames
  <2>3. sels' \in Seq(SelNames)
    BY <1>0, <2>1, <2>2, AppendProperties DEF LocalTypes
  <2>4. sel' = [u \in Threads |-> sel'[u]]
    BY <1>0, <2>1 DEF LocalTypes
  <2> QED BY <1>0, <2>1, <2>3, <2>4 DEF LocalTypes
<1>7. CASE FindStep(t)
  BY <1>0, <1>7 DEF FindStep, FindLookup, FindFlag, FindReturn, LocalTypes
<1> QED BY <1>1, <1>2, <1>3, <1>4, <1>5, <1>6, <1>7
        DEF Step, CreateStep, FinishStep, ProtoStep, SelectorStep

-----------------------------------------------------------------------------
(* Each step keeps what the structures are.                                *)

LEMMA SameBuilds ==
  ASSUME Inv, Built, UNCHANGED <<registry, class, sels, pc, locals>>, aborted' \in BOOLEAN
  PROVE  Built'
<1> USE DEF registry, class, locals
<1>1. ClassTypes' /\ LocalTypes'
  <2>1. ClassTypes /\ LocalTypes
    BY DEF Built
  <2>2. \A c : Layout(ivars[c])' <=> Layout(ivars[c])
    BY DEF Layout, Elems
  <2> QED BY <2>1, <2>2 DEF ClassTypes, LocalTypes
<1>2. ASSUME NEW t \in Threads PROVE At(t)'
  <2>1. At(t)
    BY DEF Built
  <2> QED BY <2>1 DEF At, HasLock, ForPrototype, Prepares, Registers
<1>3. ASSUME NEW c \in Classes PROVE ClassOk(c)'
  <2>1. ClassOk(c)
    BY DEF Built
  <2> QED BY <2>1 DEF ClassOk, Finishing
<1> QED BY <1>1, <1>2, <1>3 DEF Built

LEMMA IdleIs ==
  ASSUME Inv, Built, NEW t \in Threads, pc[t] = "idle"
  PROVE  cls[t] = NoClass /\ lock # t /\ ~HasLock(t)
<1>1. At(t) /\ Ok(t)
  BY DEF Inv, Built
<1> QED BY <1>1 DEF At, Ok, HasLock, LockPCs, ForPrototype

(* A thread that relies on no class, but for its superclass. *)
LEMMA AtRest ==
  ASSUME NEW t \in Threads, lock' # t,
         pc'[t] \in {"idle", "c_lock", "p_lock", "n_lookup", "n_ret"},
         pc'[t] = "c_lock" /\ sup'[t] # NoClass => ~constructing'[sup'[t]],
         got'[t] # NoClass => ~constructing'[got'[t]]
  PROVE  At(t)'
BY DEF At, HasSuperPCs, ForPrototype, PrototypePCs, SelPCs, Prepares

LEMMA Multiple ==
  ASSUME NEW s \in Nat, NEW a \in Nat, a > 0
  PROVE  ((s + a - 1) \div a) * a \in Nat /\ ((s + a - 1) \div a) * a >= s
<1>1. s + a - 1 \in Nat
  OBVIOUS
<1>2. \A x \in Nat : (x \div a) * a \in Nat /\ x < (x \div a) * a + a
  OBVIOUS
<1> QED BY <1>1, <1>2

LEMMA AlignedGrows ==
  ASSUME NEW s \in Nat, NEW v, v.align \in Nat
  PROVE  Aligned(s, v) \in Nat /\ Aligned(s, v) >= s
<1>1. CASE v.align # 0
  <2>1. v.align \in Nat /\ v.align > 0
    BY <1>1
  <2>2. /\ ((s + v.align - 1) \div v.align) * v.align \in Nat
        /\ ((s + v.align - 1) \div v.align) * v.align >= s
    BY <2>1, Multiple
  <2>3. Aligned(s, v) \in {s, ((s + v.align - 1) \div v.align) * v.align}
    BY DEF Aligned
  <2> HIDE DEF Aligned
  <2> QED BY <2>2, <2>3
<1>2. CASE v.align = 0
  BY <1>2 DEF Aligned
<1> QED BY <1>1, <1>2

LEMMA LayoutGrows ==
  ASSUME NEW s, Layout(s), NEW r, r.size \in Nat, r.offset \in Nat
  PROVE  /\ Layout(Append(s, r)) /\ Len(s) \in Nat /\ DOMAIN s = 1..Len(s)
         /\ DOMAIN Append(s, r) = 1..(Len(s) + 1)
         /\ Append(s, r)[Len(s) + 1] = r
         /\ \A i \in 1..Len(s) : Append(s, r)[i] = s[i]
<1> DEFINE S == Elems(s) \cup {r}
<1>1. s \in Seq(Elems(s)) /\ \A v \in Elems(s) : v.size \in Nat /\ v.offset \in Nat
  BY DEF Layout
<1> HIDE DEF Layout
<1>2. s \in Seq(S) /\ r \in S /\ Len(s) \in Nat /\ DOMAIN s = 1..Len(s)
  <2>1. /\ Len(s) \in Nat /\ DOMAIN s = 1..Len(s) /\ s \in [1..Len(s) -> Elems(s)]
    BY <1>1, LenProperties
  <2>2. s \in [1..Len(s) -> S]
    BY <2>1
  <2> QED BY <2>1, <2>2, SeqDef
<1>3. /\ Append(s, r) \in Seq(S) /\ Len(Append(s, r)) = Len(s) + 1
      /\ \A i \in 1..Len(s) : Append(s, r)[i] = s[i]
      /\ Append(s, r)[Len(s) + 1] = r
  <2> HIDE DEF S
  <2> QED BY <1>2, AppendProperties
<1>4. DOMAIN Append(s, r) = 1..(Len(s) + 1) /\ Append(s, r) \in [1..(Len(s) + 1) -> S]
  BY <1>3, <1>2, LenProperties
<1>5. Elems(Append(s, r)) = S
  <2>1. \A i \in 1..(Len(s) + 1) : i \in 1..Len(s) \/ i = Len(s) + 1
    BY <1>2
  <2>2. \A i \in 1..Len(s) : i \in 1..(Len(s) + 1) /\ Append(s, r)[i] = s[i]
    BY <1>2, <1>3
  <2>3. Len(s) + 1 \in 1..(Len(s) + 1)
    BY <1>2
  <2> QED BY <1>2, <1>3, <1>4, <2>1, <2>2, <2>3 DEF Elems
<1>6. \A v \in S : v.size \in Nat /\ v.offset \in Nat
  BY <1>1
<1>7. Layout(Append(s, r))
  <2> HIDE DEF S
  <2> QED BY <1>3, <1>5, <1>6 DEF Layout
<1> QED BY <1>2, <1>3, <1>4, <1>7

(* What an added ivar does. *)
LEMMA AddedIvar ==
  ASSUME Inv, Built, NEW t \in Threads, NEW c \in Classes, NEW v \in NewIvars, AddIvar(t, c, v)
  PROVE  Abort \/
         \E r : /\ r.offset \in Nat /\ r.size \in Nat /\ r.offset >= size[c]
                /\ ivars' = [ivars EXCEPT ![c] = Append(ivars[c], r)]
                /\ size' = [size EXCEPT ![c] = r.offset + r.size]
                /\ pc[t] = "idle" /\ c \in holder /\ builder[c] = t /\ constructing[c]
                /\ UNCHANGED <<registry, super, constructing, touched, extended, builder, sels,
                               pc, locals, aborted>>
<1>1. CASE ~Abort
  <2>1. constructing[c] /\ c \in Known(t) /\ pc[t] = "idle"
    BY <1>1 DEF AddIvar, Closed
  <2>2. ~(got[t] = c)
    <3>1. At(t)
      BY DEF Built
    <3> QED BY <2>1, <3>1, RegistryAssumption DEF At
  <2>3. c \in holder /\ builder[c] = t
    BY <2>1, <2>2 DEF Known
  <2>4. size[c] \in Nat
    BY DEF Built, ClassTypes
  <2> DEFINE r == [name |-> v.name, size |-> v.size, offset |-> Aligned(size[c], v)]
  <2>5. r.offset \in Nat /\ r.size \in Nat /\ r.offset >= size[c]
    BY <2>4, LayoutTypes, AlignedGrows
  <2>6. /\ ivars' = [ivars EXCEPT ![c] = Append(ivars[c], r)]
        /\ size' = [size EXCEPT ![c] = r.offset + r.size]
        /\ UNCHANGED <<registry, super, constructing, touched, extended, builder, sels,
                               pc, locals, aborted>>
    BY <1>1, <2>1 DEF AddIvar, Closed
  <2> HIDE DEF r
  <2> QED BY <2>1, <2>3, <2>5, <2>6
<1> QED BY <1>1

LEMMA AddIvarBuilds ==
  ASSUME Inv, Built, NEW t \in Threads, Begin(t),
         NEW c \in Classes, NEW v \in NewIvars, AddIvar(t, c, v)
  PROVE  Built'
<1>1. CASE Abort
  BY <1>1, SameBuilds DEF Abort
<1>2. CASE ~Abort
  <2>1. PICK r :
          /\ r.offset \in Nat /\ r.size \in Nat /\ r.offset >= size[c]
          /\ ivars' = [ivars EXCEPT ![c] = Append(ivars[c], r)]
          /\ size' = [size EXCEPT ![c] = r.offset + r.size]
          /\ pc[t] = "idle" /\ c \in holder /\ builder[c] = t /\ constructing[c]
          /\ UNCHANGED <<registry, super, constructing, touched, extended, builder, sels,
                         pc, locals, aborted>>
    BY <1>2, AddedIvar
  <2>2. ClassTypes /\ Layout(ivars[c])
    BY DEF Built, ClassTypes
  <2>3. ClassTypes'
    <3>1. Layout(Append(ivars[c], r))
      BY <2>1, <2>2, LayoutGrows
    <3>2. r.offset + r.size \in Nat
      BY <2>1
    <3>3. size' \in [Classes -> Nat]
      BY <2>1, <2>2, <3>2 DEF ClassTypes
    <3>4. /\ ivars' = [d \in Classes |-> ivars'[d]]
          /\ ivars'[c] = Append(ivars[c], r) /\ \A d \in Classes \ {c} : ivars'[d] = ivars[d]
      BY <2>1, <2>2 DEF ClassTypes
    <3>5. \A d \in Classes : Layout(ivars'[d])
      BY <2>2, <3>1, <3>4 DEF ClassTypes
    <3>6. \A d \in Classes : Layout(ivars[d])' <=> Layout(ivars'[d])
      BY DEF Layout, Elems
    <3> QED BY <2>1, <2>2, <3>3, <3>4, <3>5, <3>6 DEF ClassTypes
  <2>4. At(t)'
    <3>1. At(t)
      BY DEF Built
    <3> QED BY <2>1, <3>1 DEF At, HasLock, ForPrototype, Prepares, Registers, registry, locals
  <2>5. ClassOk(c)'
    <3>1. ClassOk(c)
      BY DEF Built
    <3>2. touched[c]
      BY <2>1, <3>1 DEF ClassOk
    <3> QED BY <2>1, <3>1, <3>2 DEF ClassOk, Finishing, registry, locals
  <2>6. \A d \in Classes \ {c} : ClassKept(d)
    BY <2>1, <2>2 DEF ClassKept, ClassTypes
  <2>7. ASSUME NEW u \in Threads \ {t}, Uses(u, c) PROVE FALSE
    <3>1. At(u) /\ ClassOk(c) /\ builder[c] = t
      BY <2>1 DEF Built
    <3>2. c \notin Protos
      BY <2>1, <3>1, RegistryAssumption DEF ClassOk
    <3> QED BY <2>7, <3>1, <3>2 DEF At, Uses, UsePCs, Prepares, PrototypePCs
  <2>8. UNCHANGED <<holder, lock, constructing>> /\ pc[t] # "f_flag"
    BY <2>1 DEF registry
  <2>9. OthersWait(t) /\ LocalTypes'
    BY AllWait, LocalsInBegin
  <2> QED BY <2>3, <2>4, <2>5, <2>6, <2>7, <2>8, <2>9, UsesClasses, ClassBuilds
<1> QED BY <1>1, <1>2

LEMMA BeginBuilds ==
  ASSUME Inv, Built, NEW t \in Threads, Begin(t)
  PROVE  Built'
<1> USE DEF Local, Goto, locals, registry
<1>0. /\ OthersWait(t) /\ LocalTypes'
      /\ pc \in [Threads -> PCs] /\ cls \in [Threads -> Classes \cup {NoClass}]
      /\ sup \in [Threads -> Classes \cup {NoClass}]
      /\ got \in [Threads -> Classes \cup {NoClass}]
      /\ selTodo \in [Threads -> SUBSET SelNames]
      /\ holder \subseteq Classes
  BY AllWait, LocalsInBegin DEF Inv, Types, Built, LocalTypes
<1>1. At(t)
  BY DEF Built
<1> DEFINE Quiet == /\ UNCHANGED <<class, holder, lock>> /\ pc[t] = "idle"
<1>2. Quiet /\ At(t)' => Built'
  <2>1. Quiet => lock' \in {lock, t, NoThread} /\ holder \subseteq holder' /\ pc[t] # "f_flag"
    OBVIOUS
  <2>2. Quiet => UNCHANGED class /\ \A c \in holder' \ holder : FALSE
    OBVIOUS
  <2> HIDE DEF Quiet
  <2> QED BY <1>0, <2>1, <2>2, LocalBuilds
<1>3. pc[t] = "idle" => cls[t] = NoClass /\ lock # t
  BY IdleIs
<1>4. ASSUME NEW s \in Classes \cup {NoClass}, NEW n, BeginCreate(t, s, n) PROVE Built'
  <2>1. CASE Abort
    BY <2>1, SameBuilds DEF Abort
  <2>2. CASE ~Abort
    <3>1. /\ Quiet /\ pc' = [pc EXCEPT ![t] = "c_lock"] /\ sup' = [sup EXCEPT ![t] = s]
          /\ UNCHANGED <<cls, got, selTodo, sel>> /\ (s # NoClass => ~constructing[s])
      BY <1>4, <2>2 DEF BeginCreate, SuperUnfinished
    <3>2. pc'[t] = "c_lock" /\ sup'[t] = s
      BY <1>0, <3>1
    <3>3. s # NoClass => ~constructing'[s]
      BY <3>1 DEF class
    <3>4. At(t)'
      BY <1>1, <1>3, <3>1, <3>2, <3>3, AtRest DEF At, class
    <3> QED BY <1>2, <3>1, <3>4
  <2> QED BY <2>1, <2>2
<1>5. ASSUME NEW c \in Classes, BeginFinish(t, c) PROVE Built'
  <2>1. /\ Quiet /\ pc' = [pc EXCEPT ![t] = "f_extend"] /\ cls' = [cls EXCEPT ![t] = c]
        /\ c \in holder /\ builder[c] = t /\ constructing[c] /\ UNCHANGED <<got, selTodo, sel, sup>>
    BY <1>5 DEF BeginFinish
  <2>2. pc'[t] = "f_extend" /\ cls'[t] = c
    BY <1>0, <2>1
  <2>3. extended[c] = 0
    <3>1. ClassOk(c) /\ ~Finishing(c)
      BY <2>1 DEF Built, Finishing
    <3>2. c \notin Protos
      BY <2>1, <3>1, RegistryAssumption DEF ClassOk
    <3> QED BY <2>1, <3>1, <3>2 DEF ClassOk
  <2>4. At(t)'
    BY <1>1, <1>3, <2>1, <2>2, <2>3
       DEF At, HasLock, LockPCs, ForPrototype, PrototypePCs, SelPCs, Prepares, class, HasSuperPCs
  <2> QED BY <1>2, <2>1, <2>4
<1>6. ASSUME NEW batch, BeginRegister(t, batch) PROVE Built'
  <2>1. /\ Quiet /\ pc' = [pc EXCEPT ![t] = "p_lock"] /\ UNCHANGED <<cls, got, selTodo, sel, sup>>
    BY <1>6 DEF BeginRegister
  <2>2. pc'[t] = "p_lock"
    BY <1>0, <2>1
  <2>3. At(t)'
    BY <1>1, <1>3, <2>1, <2>2
       DEF At, HasLock, LockPCs, ForPrototype, PrototypePCs, SelPCs, Prepares, class, HasSuperPCs
  <2> QED BY <1>2, <2>1, <2>3
<1>7. ASSUME NEW n \in OwnSels[t], BeginSelector(t, n) PROVE Built'
  <2>1. /\ Quiet /\ pc' = [pc EXCEPT ![t] = "r_sels"] /\ UNCHANGED <<cls, got, sel, sup>>
        /\ selTodo' = [selTodo EXCEPT ![t] = {n}]
    BY <1>7 DEF BeginSelector
  <2>2. pc'[t] = "r_sels" /\ selTodo'[t] = {n}
    BY <1>0, <2>1
  <2>3. At(t)'
    BY <1>1, <1>3, <2>1, <2>2
       DEF At, HasLock, LockPCs, ForPrototype, PrototypePCs, SelPCs, Prepares, class, HasSuperPCs,
           Registers
  <2> QED BY <1>2, <2>1, <2>3
<1>8. ASSUME NEW n, BeginFind(t, n) PROVE Built'
  <2>1. /\ Quiet /\ pc' = [pc EXCEPT ![t] = "n_lookup"] /\ UNCHANGED <<cls, selTodo, sel, sup>>
        /\ got' = [got EXCEPT ![t] = NoClass]
    BY <1>8 DEF BeginFind
  <2>2. pc'[t] = "n_lookup" /\ got'[t] = NoClass
    BY <1>0, <2>1
  <2>3. At(t)'
    BY <1>1, <1>3, <2>1, <2>2
       DEF At, HasLock, LockPCs, ForPrototype, PrototypePCs, SelPCs, Prepares, class, HasSuperPCs
  <2> QED BY <1>2, <2>1, <2>3
<1> QED BY <1>4, <1>5, <1>6, <1>7, <1>8, AddIvarBuilds DEF Begin

(* Where a thread with the lock relies on nothing of its class, and where  *)
(* on its being a prototype.                                               *)
LEMMA AtLocked ==
  ASSUME NEW t \in Threads,
         pc'[t] \in {"c_lookup", "c_fill", "c_append", "c_unlock", "c_refuse", "p_next"},
         pc'[t] \in HasSuperPCs /\ sup'[t] # NoClass => ~constructing'[sup'[t]],
         got'[t] # NoClass => ~constructing'[got'[t]]
  PROVE  At(t)'
BY DEF At, HasLock, LockPCs, HasSuperPCs, ForPrototype, PrototypePCs, SelPCs, Prepares

LEMMA AtPrototype ==
  ASSUME NEW t \in Threads, pc'[t] \in {"p_validate", "p_append", "p_refuse"},
         cls'[t] \in Protos, got'[t] # NoClass => ~constructing'[got'[t]]
  PROVE  At(t)'
BY DEF At, HasLock, LockPCs, HasSuperPCs, ForPrototype, PrototypePCs, SelPCs, Prepares

(* The steps that change no class. *)
LEMMA LocalStepBuilds ==
  ASSUME Inv, Built, NEW t \in Threads, Step(t), UNCHANGED <<class, holder>>,
         lock' \in {lock, t, NoThread}, pc[t] # "f_flag", At(t)'
  PROVE  Built'
<1>1. OthersWait(t) /\ LocalTypes'
  BY AllWait, LocalsInStep
<1>2. UNCHANGED class /\ holder \subseteq holder' /\ holder' \ holder = {}
  OBVIOUS
<1> QED BY <1>1, <1>2, LocalBuilds

LEMMA LockBuilds ==
  ASSUME Inv, Built, NEW t \in Threads, Step(t),
         \/ TakeLock(t, "c_lock", "c_lookup") \/ TakeLock(t, "p_lock", "p_next")
         \/ CreateLookup(t) \/ CreateUnlock(t) \/ RegisterUnlock(t)
  PROVE  Built'
<1>0. /\ pc \in [Threads -> PCs] /\ sup \in [Threads -> Classes \cup {NoClass}]
      /\ At(t) /\ t # NoThread
  BY RegistryAssumption DEF Built, Inv, Types, LocalTypes
<1>1. UNCHANGED <<class, holder, got>>
  BY DEF TakeLock, CreateLookup, CreateUnlock, RegisterUnlock, Local, registry, locals
<1>2. got'[t] # NoClass => ~constructing'[got'[t]]
  BY <1>0, <1>1 DEF At, class
<1>3. CASE TakeLock(t, "c_lock", "c_lookup") \/ TakeLock(t, "p_lock", "p_next")
  <2>1. PICK l \in {"c_lookup", "p_next"} :
          /\ pc' = [pc EXCEPT ![t] = l] /\ lock' = t /\ UNCHANGED sup
          /\ pc[t] = IF l = "c_lookup" THEN "c_lock" ELSE "p_lock"
    BY <1>3 DEF TakeLock, Goto, locals
  <2>2. pc'[t] = l
    BY <1>0, <2>1
  <2>3. l = "c_lookup" /\ sup'[t] # NoClass => ~constructing'[sup'[t]]
    BY <1>0, <1>1, <2>1 DEF At, HasSuperPCs, class
  <2>4. At(t)'
    BY <1>2, <2>2, <2>3, AtLocked DEF HasSuperPCs
  <2>5. lock' \in {lock, t, NoThread} /\ pc[t] # "f_flag"
    BY <2>1
  <2> QED BY <1>1, <2>4, <2>5, LocalStepBuilds
<1>4. CASE CreateLookup(t)
  <2>1. PICK l \in {"c_refuse", "c_fill"} :
          pc' = [pc EXCEPT ![t] = l] /\ UNCHANGED <<sup, lock>> /\ pc[t] = "c_lookup"
    BY <1>4 DEF CreateLookup, Local, Goto, locals, registry
  <2>2. pc'[t] = l
    BY <1>0, <2>1
  <2>3. sup'[t] # NoClass => ~constructing'[sup'[t]]
    BY <1>0, <1>1, <2>1 DEF At, HasSuperPCs, class
  <2>4. At(t)'
    BY <1>2, <2>2, <2>3, AtLocked
  <2> QED BY <1>1, <2>1, <2>4, LocalStepBuilds
<1>5. CASE CreateUnlock(t) \/ RegisterUnlock(t)
  <2>1. /\ pc' = [pc EXCEPT ![t] = "idle"] /\ lock' = NoThread
        /\ pc[t] \in {"c_unlock", "c_refuse", "p_next"}
    BY <1>5 DEF CreateUnlock, RegisterUnlock, Return, Goto, LockReleased
  <2>2. pc'[t] = "idle" /\ lock' # t
    BY <1>0, <2>1
  <2>3. At(t)'
    BY <1>2, <2>2, AtRest
  <2> QED BY <1>1, <2>1, <2>3, LocalStepBuilds
<1> QED BY <1>3, <1>4, <1>5

LEMMA InsertBuilds ==
  ASSUME Inv, Built, NEW t \in Threads, Step(t),
         \/ Insert(t, "c_insert", "c_append") \/ Insert(t, "p_insert", "p_append")
         \/ AppendToList(t, "c_append", "c_unlock") \/ AppendToList(t, "p_append", "p_next")
  PROVE  Built'
<1>0. /\ pc \in [Threads -> PCs] /\ At(t) /\ OthersWait(t) /\ LocalTypes'
  BY AllWait, LocalsInStep DEF Built, Inv, Types
<1>1. UNCHANGED <<class, lock, got, cls>>
  BY DEF Insert, AppendToList, locals
<1>2. got'[t] # NoClass => ~constructing'[got'[t]]
  BY <1>0, <1>1 DEF At, class
<1>3. CASE Insert(t, "c_insert", "c_append") \/ Insert(t, "p_insert", "p_append")
  <2>1. PICK l \in {"c_append", "p_append"} :
          /\ pc' = [pc EXCEPT ![t] = l] /\ holder' = holder \cup {cls[t]}
          /\ pc[t] = IF l = "c_append" THEN "c_insert" ELSE "p_insert"
    BY <1>3 DEF Insert, Goto
  <2>2. pc'[t] = l
    BY <1>0, <2>1
  <2>3. touched[cls[t]] /\ (cls[t] \in Protos => ~constructing[cls[t]])
    BY <1>0, <2>1 DEF At
  <2>4. l = "p_append" => cls[t] \in Protos
    BY <1>0, <2>1 DEF At, PrototypePCs
  <2>5. At(t)'
    BY <1>1, <1>2, <2>2, <2>4, AtLocked, AtPrototype DEF HasSuperPCs
  <2>6. /\ holder \subseteq holder' /\ pc[t] # "f_flag" /\ lock' \in {lock, t, NoThread}
        /\ \A c \in holder' \ holder : touched[c] /\ (c \in Protos => ~constructing[c])
    BY <1>1, <2>1, <2>3
  <2> QED BY <1>0, <1>1, <2>5, <2>6, LocalBuilds
<1>4. CASE AppendToList(t, "c_append", "c_unlock") \/ AppendToList(t, "p_append", "p_next")
  <2>1. PICK l \in {"c_unlock", "p_next"} :
          pc' = [pc EXCEPT ![t] = l] /\ UNCHANGED holder /\ pc[t] \in {"c_append", "p_append"}
    BY <1>4 DEF AppendToList, Goto
  <2>2. pc'[t] = l
    BY <1>0, <2>1
  <2>3. At(t)'
    BY <1>2, <2>2, AtLocked DEF HasSuperPCs
  <2> QED BY <1>1, <2>1, <2>3, LocalStepBuilds
<1> QED BY <1>3, <1>4

LEMMA NextBuilds ==
  ASSUME Inv, Built, NEW t \in Threads, Step(t), RegisterNext(t) \/ Validate(t) \/ Refuse(t)
  PROVE  Built'
<1>0. /\ pc \in [Threads -> PCs] /\ At(t) /\ cls \in [Threads -> Classes \cup {NoClass}]
      /\ todo[t] \in Seq(Protos)
  BY DEF Built, Inv, Types
<1>1. UNCHANGED <<class, holder, lock, got>> /\ pc[t] # "f_flag"
  BY DEF RegisterNext, Validate, Abort, Refuse, Local, registry, locals
<1>2. got'[t] # NoClass => ~constructing'[got'[t]]
  BY <1>0, <1>1 DEF At, class
<1>3. CASE RegisterNext(t)
  <2>1. /\ pc' = [pc EXCEPT ![t] = "p_validate"] /\ cls' = [cls EXCEPT ![t] = Head(todo[t])]
        /\ todo[t] # <<>>
    BY <1>3 DEF RegisterNext, Local, Goto
  <2>2. Head(todo[t]) \in Protos
    BY <1>0, <2>1, HeadTailProperties
  <2>3. pc'[t] = "p_validate" /\ cls'[t] \in Protos
    BY <1>0, <2>1, <2>2
  <2>4. At(t)'
    BY <1>2, <2>3, AtPrototype
  <2> QED BY <1>1, <2>4, LocalStepBuilds
<1>4. CASE Validate(t) /\ Abort
  BY <1>4, SameBuilds DEF Abort
<1>4a. CASE Validate(t) /\ ~Abort
  <2>1. PICK l \in {"p_super", "p_refuse"} :
          /\ pc' = [pc EXCEPT ![t] = l] /\ UNCHANGED <<cls, sup>> /\ pc[t] = "p_validate"
          /\ l = "p_super" => ~touched[cls[t]]
    BY <1>4a DEF Validate, Local, Goto, Valid, locals
  <2>2. pc'[t] = l /\ cls'[t] \in Protos
    BY <1>0, <2>1 DEF At, PrototypePCs
  <2>3. CASE l = "p_super"
    <3>1. At(t)'
      BY <1>1, <1>2, <2>1, <2>2, <2>3
         DEF At, HasLock, LockPCs, HasSuperPCs, ForPrototype, PrototypePCs, SelPCs, Prepares, class
    <3> QED BY <1>1, <3>1, LocalStepBuilds
  <2>4. CASE l = "p_refuse"
    <3>1. At(t)'
      BY <1>2, <2>2, <2>4, AtPrototype
    <3> QED BY <1>1, <3>1, LocalStepBuilds
  <2> QED BY <2>3, <2>4
<1>5. CASE Refuse(t)
  <2>1. pc' = [pc EXCEPT ![t] = "p_next"]
    BY <1>5 DEF Refuse, Local, Goto
  <2>2. pc'[t] = "p_next"
    BY <1>0, <2>1
  <2>3. At(t)'
    BY <1>2, <2>2, AtLocked DEF HasSuperPCs
  <2> QED BY <1>1, <2>3, LocalStepBuilds
<1> QED BY <1>3, <1>4, <1>4a, <1>5

LEMMA SelectorBuilds ==
  ASSUME Inv, Built, NEW t \in Threads, Step(t), SelectorStep(t)
  PROVE  Built'
<1>0. /\ pc \in [Threads -> PCs] /\ At(t) /\ Ok(t)
      /\ selTodo \in [Threads -> SUBSET SelNames] /\ sel = [u \in Threads |-> sel[u]]
  BY DEF Built, Inv, Types, LocalTypes
<1>1. UNCHANGED <<class, holder, lock, got, cls, sup>> /\ pc[t] \in SelPCs
  BY DEF SelectorStep, SelectorLookup, SelectorLookupAgain, SelectorInsert, SelectorsDone,
         Local, registry, locals, SelPCs
<1>2. /\ touched' = touched /\ constructing' = constructing /\ extended' = extended
      /\ pc[t] # "f_flag"
  BY <1>1 DEF class, SelPCs
<1>3. /\ pc[t] = "p_sels" => cls[t] \in Protos
      /\ pc[t] = "r_sels" => cls[t] = NoClass
      /\ NoClass \notin Protos
  BY <1>0, RegistryAssumption DEF At, PrototypePCs, Ok
<1>4. SelectorsDone(t) \/ (SelectorStep(t) /\ pc'[t] \in SelPCs)
  BY <1>0, <1>1 DEF SelectorStep, SelectorLookup, SelectorLookupAgain, SelectorInsert,
     Local, Goto, BackToSelectors, SelPCs
<1>5. CASE SelectorsDone(t)
  <2>1. PICK l \in {"p_ivars", "idle"} :
          /\ pc' = [pc EXCEPT ![t] = l] /\ pc[t] = IF l = "p_ivars" THEN "p_sels" ELSE "r_sels"
    BY <1>5 DEF SelectorsDone, Local, Goto
  <2>2. pc'[t] = l
    BY <1>0, <2>1
  <2>3. At(t)'
    BY <1>0, <1>1, <1>2, <1>3, <2>1, <2>2
       DEF At, HasLock, LockPCs, HasSuperPCs, ForPrototype, PrototypePCs, SelPCs, Prepares
  <2> QED BY <1>1, <1>2, <2>3, LocalStepBuilds
<1>6. CASE SelectorStep(t) /\ pc'[t] \in SelPCs
  <2>1. /\ selTodo'[t] \subseteq selTodo[t]
        /\ pc'[t] \in {"s_again", "s_insert"} =>
             sel'[t] \in selTodo[t] \/ (sel'[t] = sel[t] /\ pc[t] \in {"s_again", "s_insert"})
    BY <1>0, <1>1, <1>6 DEF SelectorStep, SelectorLookup, SelectorLookupAgain, SelectorInsert,
       SelectorsDone, Local, Goto, BackToSelectors, SelPCs, locals
  <2>2. Registers(t)' = Registers(t)
    BY <1>1 DEF Registers
  <2>3. pc'[t] = "p_sels" \/ ForPrototype(t)' <=> pc[t] = "p_sels" \/ ForPrototype(t)
    BY <1>0, <1>1, <1>3, <1>6
       DEF SelectorStep, SelectorLookup, SelectorLookupAgain, SelectorInsert, SelectorsDone,
           Local, Goto, BackToSelectors, SelPCs, ForPrototype
  <2>4. HasLock(t)' <=> HasLock(t)
    BY <1>1, <1>6, <2>3 DEF HasLock, LockPCs, SelPCs, ForPrototype
  <2>5. Prepares(t)' <=> Prepares(t)
    BY <1>1, <1>6, <2>3 DEF Prepares, SelPCs, ForPrototype
  <2>6. At(t)'
    BY <1>0, <1>1, <1>2, <1>6, <2>1, <2>2, <2>3, <2>4, <2>5
       DEF At, PrototypePCs, HasSuperPCs, SelPCs
  <2> QED BY <1>1, <1>2, <2>6, LocalStepBuilds
<1> QED BY <1>4, <1>5, <1>6

LEMMA FindBuilds ==
  ASSUME Inv, Built, NEW t \in Threads, Step(t), FindStep(t)
  PROVE  Built'
<1>0. /\ pc \in [Threads -> PCs] /\ At(t) /\ Ok(t) /\ cls \in [Threads -> Classes \cup {NoClass}]
      /\ got \in [Threads -> Classes \cup {NoClass}]
  BY DEF Built, Inv, Types, LocalTypes
<1>1. UNCHANGED <<class, holder, lock>> /\ pc[t] \in {"n_lookup", "n_flag", "n_ret"}
  BY DEF FindStep, FindLookup, FindFlag, FindReturn, Local, registry
<1>2. constructing' = constructing /\ pc[t] # "f_flag" /\ lock # t
  BY <1>0, <1>1 DEF class, At, HasLock, LockPCs, ForPrototype
<1>3. /\ pc'[t] \in {"n_flag", "n_ret", "idle"}
      /\ pc'[t] = "n_flag" => cls'[t] \in holder
      /\ got'[t] = got[t] \/ got'[t] = NoClass \/ (got'[t] = cls[t] /\ ~constructing[cls[t]])
  BY <1>0 DEF FindStep, FindLookup, FindFlag, FindReturn, Return, Local, Goto, Named, Hidden
<1>4. At(t)'
  BY <1>0, <1>1, <1>2, <1>3
     DEF At, HasLock, LockPCs, HasSuperPCs, ForPrototype, PrototypePCs, SelPCs, Prepares
<1> QED BY <1>1, <1>2, <1>4, LocalStepBuilds

(* The steps that change a class. *)
LEMMA ClassStepBuilds ==
  ASSUME Inv, Built, NEW t \in Threads, Step(t), NEW x \in Classes,
         UNCHANGED <<holder, lock>>, ClassTypes', At(t)', ClassOk(x)',
         \A c \in Classes \ {x} : ClassKept(c),
         Uses(t, x), ~constructing[x] => ~constructing'[x]
  PROVE  Built'
<1>1. OthersWait(t) /\ LocalTypes'
  BY AllWait, LocalsInStep
<1>2. \A u \in Threads \ {t} : ~Uses(u, x)
  BY OneUser
<1>3. pc[t] = "f_flag" => cls[t] = x
  BY DEF Uses
<1> QED BY <1>1, <1>2, <1>3, UsesClasses, ClassBuilds

LEMMA FillBuilds ==
  ASSUME Inv, Built, NEW t \in Threads, Step(t), CreateFill(t)
  PROVE  Built'
<1>1. PICK c \in Classes \ Protos :
        /\ ~touched[c] /\ cls' = [cls EXCEPT ![t] = c] /\ pc' = [pc EXCEPT ![t] = "c_insert"]
        /\ super' = [super EXCEPT ![c] = sup[t]] /\ size' = [size EXCEPT ![c] = SizeOf(sup[t])]
        /\ touched' = [touched EXCEPT ![c] = TRUE] /\ builder' = [builder EXCEPT ![c] = t]
        /\ pc[t] = "c_fill"
        /\ UNCHANGED <<holder, lock, ivars, constructing, extended, got, selTodo, sel>>
  BY DEF CreateFill, Goto, registry
<1>0. /\ pc \in [Threads -> PCs] /\ cls \in [Threads -> Classes \cup {NoClass}]
      /\ sup[t] \in Classes \cup {NoClass} /\ At(t) /\ Ok(t) /\ ClassTypes /\ ClassOk(c)
      /\ OthersWait(t) /\ LocalTypes'
  BY AllWait, LocalsInStep DEF Built, Inv, Types, LocalTypes
<1>2. pc'[t] = "c_insert" /\ cls'[t] = c
  BY <1>0, <1>1
<1>3. ClassTypes'
  <2>1. SizeOf(sup[t]) \in Nat
    BY <1>0 DEF SizeOf, ClassTypes
  <2>2. \A d : Layout(ivars[d])' <=> Layout(ivars[d])
    BY <1>1 DEF Layout, Elems
  <2> QED BY <1>0, <1>1, <2>1, <2>2 DEF ClassTypes
<1>4. /\ touched'[c] /\ builder'[c] = t /\ constructing'[c] /\ extended'[c] = 0 /\ c \notin holder'
      /\ constructing' = constructing
  BY <1>0, <1>1 DEF ClassTypes, ClassOk
<1>5. At(t)'
  <2>1. lock = t
    BY <1>0, <1>1 DEF Ok, HasLock, LockPCs
  <2> QED BY <1>0, <1>1, <1>2, <1>4, <2>1
          DEF At, HasLock, LockPCs, HasSuperPCs, ForPrototype, PrototypePCs, SelPCs, Prepares
<1>6. ClassOk(c)'
  BY <1>1, <1>4 DEF ClassOk
<1>7. \A d \in Classes \ {c} : ClassKept(d)
  BY <1>0, <1>1 DEF ClassTypes, ClassKept
<1>8. \A u \in Threads : ~Uses(u, c)
  BY <1>1, UsedIsTouched
<1> QED BY <1>0, <1>1, <1>3, <1>4, <1>5, <1>6, <1>7, <1>8, UsesClasses, ClassBuilds

LEMMA FinishBuilds ==
  ASSUME Inv, Built, NEW t \in Threads, Step(t), FinishFlag(t) \/ Extend(t, "f_extend", "f_flag")
  PROVE  Built'
<1>x. PICK x : x = cls[t]
  OBVIOUS
<1>0. /\ pc \in [Threads -> PCs] /\ cls \in [Threads -> Classes \cup {NoClass}]
      /\ At(t) /\ ClassTypes /\ pc[t] \in {"f_extend", "f_flag"}
  BY DEF Built, Inv, Types, FinishFlag, Extend
<1>1. Uses(t, x) /\ x \in Classes
  BY <1>0, <1>x, UsesClasses DEF Uses, UsePCs
<1>2. /\ x \in holder /\ builder[x] = t /\ constructing[x]
      /\ extended[x] = IF pc[t] = "f_flag" THEN 1 ELSE 0
      /\ ClassOk(x) /\ lock # t
  BY <1>0, <1>1, <1>x DEF At, Built, HasLock, LockPCs, ForPrototype
<1>3. touched[x] /\ x \notin Protos
  BY <1>1, <1>2, RegistryAssumption DEF ClassOk
<1>a. \A d : Layout(ivars[d])' <=> Layout(ivars[d])
  BY DEF Layout, Elems, FinishFlag, Extend
<1>4. CASE FinishFlag(t)
  <2>1. /\ pc[t] = "f_flag" /\ pc' = [pc EXCEPT ![t] = "idle"]
        /\ constructing' = [constructing EXCEPT ![x] = FALSE]
        /\ UNCHANGED <<holder, lock, super, size, ivars, touched, extended, builder, got>>
    BY <1>4, <1>x DEF FinishFlag, Return, Goto, registry
  <2>2. pc'[t] = "idle" /\ ~constructing'[x] /\ \A d \in Classes : ~constructing[d] => ~constructing'[d]
    BY <1>0, <1>1, <2>1 DEF ClassTypes
  <2>3. ClassTypes'
    BY <1>0, <1>1, <1>a, <2>1 DEF ClassTypes
  <2>4. got[t] \in Classes \cup {NoClass}
    BY DEF Built, LocalTypes
  <2>5. At(t)'
    BY <1>0, <1>2, <2>1, <2>2, <2>4, AtRest DEF At
  <2>6. ClassOk(x)'
    BY <1>2, <1>3, <2>1, <2>2 DEF ClassOk
  <2>7. \A d \in Classes \ {x} : ClassKept(d)
    BY <1>0, <2>1 DEF ClassTypes, ClassKept
  <2> QED BY <1>1, <2>1, <2>2, <2>3, <2>5, <2>6, <2>7, ClassStepBuilds
<1>5. CASE Extend(t, "f_extend", "f_flag")
  <2>1. /\ pc[t] = "f_extend" /\ pc' = [pc EXCEPT ![t] = "f_flag"]
        /\ extended' = [extended EXCEPT ![x] = @ + 1]
        /\ UNCHANGED <<holder, lock, super, size, ivars, touched, constructing, builder, got, cls>>
    BY <1>5, <1>x DEF Extend, Goto, registry, locals
  <2>2. pc'[t] = "f_flag" /\ extended'[x] = 1 /\ extended' \in [Classes -> Nat]
    BY <1>0, <1>1, <1>2, <2>1 DEF ClassTypes
  <2>3. ClassTypes'
    BY <1>0, <1>a, <2>1, <2>2 DEF ClassTypes
  <2>4. At(t)'
    BY <1>0, <1>x, <1>2, <2>1, <2>2
       DEF At, HasLock, LockPCs, HasSuperPCs, ForPrototype, PrototypePCs, SelPCs, Prepares
  <2>5. ClassOk(x)'
    BY <1>2, <1>3, <1>x, <2>1, <2>2 DEF ClassOk, Finishing
  <2>6. \A d \in Classes \ {x} : ClassKept(d)
    BY <1>0, <2>1 DEF ClassTypes, ClassKept
  <2> QED BY <1>1, <1>2, <2>1, <2>3, <2>4, <2>5, <2>6, ClassStepBuilds
<1> QED BY <1>4, <1>5

(* The sizes of the ivars of a prototype, and its size.                    *)
LEMMA SizesAre ==
  ASSUME NEW p \in Protos
  PROVE  LET n == Len(ProtoIvars[p])
         IN  /\ n \in Nat /\ DOMAIN ProtoIvars[p] = 1..n
             /\ SizesUpTo(p) \in [0..n -> Nat] /\ SizesUpTo(p)[0] = 0
             /\ \A i \in 1..n : /\ ProtoIvars[p][i].size \in Nat
                                /\ ProtoIvars[p][i].offset \in Nat
                                /\ SizesUpTo(p)[i] = SizesUpTo(p)[i - 1] + ProtoIvars[p][i].size
             /\ \A i \in 0..n : \A j \in i..n : SizesUpTo(p)[i] <= SizesUpTo(p)[j]
<1> DEFINE n == Len(ProtoIvars[p])
           s == [i \in DOMAIN ProtoIvars[p] |-> ProtoIvars[p][i].size]
<1>1. /\ n \in Nat /\ DOMAIN ProtoIvars[p] = 1..n
      /\ \A i \in 1..n : ProtoIvars[p][i].size \in Nat /\ ProtoIvars[p][i].offset \in Nat
  <2>1. Layout(ProtoIvars[p])
    BY LayoutTypes
  <2>2. n \in Nat /\ DOMAIN ProtoIvars[p] = 1..n
    BY <2>1, LenProperties DEF Layout
  <2> QED BY <2>1, <2>2 DEF Layout, Elems
<1>2. s \in Seq(Nat) /\ Len(s) = n /\ \A i \in 1..n : s[i] = ProtoIvars[p][i].size
  <2>1. s \in [1..n -> Nat]
    BY <1>1
  <2>2. s \in Seq(Nat)
    BY <1>1, <2>1, SeqDef
  <2>3. DOMAIN s = 1..n /\ DOMAIN s = 1..Len(s) /\ Len(s) \in Nat
    BY <2>1, <2>2, LenProperties
  <2> QED BY <1>1, <2>2, <2>3
<1>3. SizesUpTo(p) = Sums(s)
  BY DEF SizesUpTo
<1> HIDE DEF s
<1>4. /\ Sums(s) \in [0..n -> Nat] /\ Sums(s)[0] = 0
      /\ \A i \in 1..n : Sums(s)[i] = Sums(s)[i - 1] + s[i]
  BY <1>2, SumsAre
<1>5. \A i \in 0..n : \A j \in i..n : Sums(s)[i] <= Sums(s)[j]
  BY <1>2, SumsGrow
<1> QED BY <1>1, <1>2, <1>3, <1>4, <1>5

(* The steps of the registration of a prototype that change it.            *)
LEMMA PrototypeIs ==
  ASSUME Inv, Built, NEW t \in Threads, pc[t] \in {"p_super", "p_ivars", "p_extend", "p_done"}
  PROVE  /\ cls[t] \in Protos /\ cls[t] \in Classes /\ Uses(t, cls[t]) /\ lock = t
         /\ cls[t] \notin holder /\ ClassOk(cls[t]) /\ builder[cls[t]] = NoThread
         /\ At(t) /\ ClassTypes /\ pc \in [Threads -> PCs]
<1>1. At(t) /\ Ok(t) /\ ClassTypes /\ pc \in [Threads -> PCs]
  BY DEF Built, Inv, Types
<1>2. cls[t] \in Protos /\ cls[t] \in Classes /\ lock = t /\ Uses(t, cls[t])
  BY <1>1, RegistryAssumption DEF At, PrototypePCs, Ok, HasLock, LockPCs, Uses, UsePCs, Prepares
<1>3. ClassOk(cls[t])
  BY <1>2 DEF Built
<1>4. cls[t] \notin holder
  BY <1>1 DEF Ok, Builds, BuildPCs, Named
<1> QED BY <1>1, <1>2, <1>3, <1>4 DEF ClassOk

LEMMA ProtoBuilds ==
  ASSUME Inv, Built, NEW t \in Threads, Step(t),
         ConnectSuper(t) \/ AddProtoIvars(t) \/ Extend(t, "p_extend", "p_done") \/ MarkDone(t)
  PROVE  Built'
<1>1. PICK x : x = cls[t]
  OBVIOUS
<1>2. /\ x \in Protos /\ x \in Classes /\ Uses(t, x) /\ lock = t /\ x \notin holder
      /\ ClassOk(x) /\ builder[x] = NoThread /\ At(t) /\ ClassTypes /\ pc \in [Threads -> PCs]
      /\ selTodo \in [Threads -> SUBSET SelNames]
  BY <1>1, PrototypeIs DEF ConnectSuper, AddProtoIvars, Extend, MarkDone, Built, LocalTypes
<1>3. CASE ConnectSuper(t)
  <2>1. PICK s : /\ s \in IF SuperName[x] = NoName THEN {NoClass} ELSE Named(SuperName[x])
                 /\ super' = [super EXCEPT ![x] = s]
    BY <1>1, <1>3 DEF ConnectSuper
  <2>2. s \in Classes \cup {NoClass}
    BY <2>1 DEF Named, Inv, Types
  <2>3. /\ touched' = [touched EXCEPT ![x] = TRUE]
        /\ selTodo' = [selTodo EXCEPT ![t] = ProtoSels[x]] /\ pc[t] = "p_super"
        /\ pc' = [pc EXCEPT ![t] = "p_sels"]
        /\ UNCHANGED <<holder, lock, size, ivars, constructing, extended, builder, cls, got>>
    BY <1>1, <1>3 DEF ConnectSuper, Goto, registry
  <2>4. /\ touched'[x] /\ constructing'[x] /\ extended'[x] = 0 /\ builder'[x] = NoThread
        /\ x \notin holder' /\ ~touched[x]
    BY <1>1, <1>2, <2>3 DEF ClassTypes, ClassOk, At
  <2>5. pc'[t] = "p_sels" /\ selTodo'[t] = ProtoSels[x] /\ cls'[t] = x /\ x # NoClass
    BY <1>1, <1>2, <2>3, RegistryAssumption
  <2>6. selTodo'[t] \subseteq Registers(t)'
    BY <1>2, <2>5 DEF Registers, ProtoSelNames
  <2>7. At(t)'
    BY <1>2, <2>3, <2>4, <2>5, <2>6
       DEF At, HasLock, LockPCs, HasSuperPCs, ForPrototype, PrototypePCs, SelPCs, Prepares
  <2>8. ClassOk(x)'
    BY <2>4, <1>2 DEF ClassOk
  <2>9. ClassTypes'
    <3>1. \A d : Layout(ivars[d])' <=> Layout(ivars[d])
      BY <2>3 DEF Layout, Elems
    <3> QED BY <1>2, <2>1, <2>2, <2>3, <3>1 DEF ClassTypes
  <2>10. \A d \in Classes \ {x} : ClassKept(d)
    BY <1>2, <2>1, <2>3 DEF ClassTypes, ClassKept
  <2> QED BY <1>2, <2>3, <2>4, <2>7, <2>8, <2>9, <2>10, ClassStepBuilds DEF ClassOk
<1>4. CASE AddProtoIvars(t)
  <2>1. /\ size' = [size EXCEPT ![x] = Grown(x, super[x])] /\ ivars' = [ivars EXCEPT ![x] = ProtoIvars[x]]
        /\ pc[t] = "p_ivars" /\ pc' = [pc EXCEPT ![t] = "p_extend"]
        /\ UNCHANGED <<holder, lock, super, constructing, touched, extended, builder, cls, got>>
    BY <1>1, <1>4 DEF AddProtoIvars, Goto, registry, locals
  <2>2. pc'[t] = "p_extend" /\ cls'[t] = x
    BY <1>1, <1>2, <2>1
  <2>3. touched[x] /\ constructing[x] /\ extended[x] = 0
    BY <1>1, <1>2, <2>1 DEF At, Prepares
  <2>4. At(t)'
    BY <1>2, <2>1, <2>2, <2>3
       DEF At, HasLock, LockPCs, HasSuperPCs, ForPrototype, PrototypePCs, SelPCs, Prepares
  <2>5. ClassOk(x)'
    BY <1>2, <2>1, <2>3 DEF ClassOk
  <2>6. ClassTypes'
    <3>1. Grown(x, super[x]) \in Nat
      <4>1. SizesUpTo(x)[Len(ProtoIvars[x])] \in Nat
        <5>1. /\ Len(ProtoIvars[x]) \in Nat
              /\ SizesUpTo(x) \in [0..Len(ProtoIvars[x]) -> Nat]
          BY <1>2, SizesAre
        <5> QED BY <5>1
      <4>2. SizeOf(super[x]) \in Nat
        BY <1>2 DEF SizeOf, ClassTypes
      <4> QED BY <4>1, <4>2 DEF Grown
    <3>2. Layout(ProtoIvars[x])
      BY <1>2, LayoutTypes
    <3>3. size' \in [Classes -> Nat]
      BY <1>2, <2>1, <3>1 DEF ClassTypes
    <3>4. /\ ivars' = [d \in Classes |-> ivars'[d]]
          /\ ivars'[x] = ProtoIvars[x] /\ \A d \in Classes \ {x} : ivars'[d] = ivars[d]
      BY <1>2, <2>1 DEF ClassTypes
    <3>5. \A d \in Classes : Layout(ivars'[d])
      BY <1>2, <3>2, <3>4 DEF ClassTypes
    <3>6. \A d \in Classes : Layout(ivars[d])' <=> Layout(ivars'[d])
      BY DEF Layout, Elems
    <3> QED BY <1>2, <2>1, <3>3, <3>4, <3>5, <3>6 DEF ClassTypes
  <2>7. \A d \in Classes \ {x} : ClassKept(d)
    BY <1>2, <2>1 DEF ClassTypes, ClassKept
  <2> QED BY <1>2, <2>1, <2>3, <2>4, <2>5, <2>6, <2>7, ClassStepBuilds
<1>5. CASE Extend(t, "p_extend", "p_done")
  <2>1. /\ pc[t] = "p_extend" /\ pc' = [pc EXCEPT ![t] = "p_done"]
        /\ extended' = [extended EXCEPT ![x] = @ + 1]
        /\ UNCHANGED <<holder, lock, super, size, ivars, touched, constructing, builder, got, cls>>
    BY <1>1, <1>5 DEF Extend, Goto, registry, locals
  <2>2. touched[x] /\ constructing[x] /\ extended[x] = 0
    BY <1>1, <1>2, <2>1 DEF At, Prepares
  <2>3. pc'[t] = "p_done" /\ cls'[t] = x /\ extended'[x] = 1 /\ extended' \in [Classes -> Nat]
    BY <1>1, <1>2, <2>1, <2>2 DEF ClassTypes
  <2>4. At(t)'
    BY <1>2, <2>1, <2>2, <2>3
       DEF At, HasLock, LockPCs, HasSuperPCs, ForPrototype, PrototypePCs, SelPCs, Prepares
  <2>5. ClassOk(x)'
    BY <1>2, <2>1, <2>2 DEF ClassOk
  <2>6. ClassTypes'
    <3>1. \A d : Layout(ivars[d])' <=> Layout(ivars[d])
      BY <2>1 DEF Layout, Elems
    <3> QED BY <1>2, <2>1, <2>3, <3>1 DEF ClassTypes
  <2>7. \A d \in Classes \ {x} : ClassKept(d)
    BY <1>2, <2>1 DEF ClassTypes, ClassKept
  <2> QED BY <1>2, <2>1, <2>2, <2>4, <2>5, <2>6, <2>7, ClassStepBuilds
<1>6. CASE MarkDone(t)
  <2>1. /\ pc[t] = "p_done" /\ pc' = [pc EXCEPT ![t] = "p_insert"]
        /\ constructing' = [constructing EXCEPT ![x] = FALSE]
        /\ UNCHANGED <<holder, lock, super, size, ivars, touched, extended, builder, got, cls>>
    BY <1>1, <1>6 DEF MarkDone, Goto, registry, locals
  <2>2. touched[x] /\ extended[x] = 1
    BY <1>1, <1>2, <2>1 DEF At
  <2>3. /\ pc'[t] = "p_insert" /\ cls'[t] = x /\ ~constructing'[x]
        /\ \A d \in Classes : ~constructing[d] => ~constructing'[d]
    BY <1>1, <1>2, <2>1 DEF ClassTypes
  <2>4. got[t] # NoClass => ~constructing'[got[t]]
    BY <1>2, <2>3 DEF At, Built, LocalTypes
  <2>5. At(t)'
    BY <1>2, <2>1, <2>2, <2>3, <2>4
       DEF At, HasLock, LockPCs, HasSuperPCs, ForPrototype, PrototypePCs, SelPCs, Prepares
  <2>6. ClassOk(x)'
    BY <1>2, <2>1, <2>2, <2>3 DEF ClassOk
  <2>7. ClassTypes'
    <3>1. \A d : Layout(ivars[d])' <=> Layout(ivars[d])
      BY <2>1 DEF Layout, Elems
    <3> QED BY <1>2, <2>1, <3>1 DEF ClassTypes
  <2>8. \A d \in Classes \ {x} : ClassKept(d)
    BY <1>2, <2>1 DEF ClassTypes, ClassKept
  <2> QED BY <1>2, <2>1, <2>3, <2>5, <2>6, <2>7, <2>8, ClassStepBuilds
<1> QED BY <1>3, <1>4, <1>5, <1>6

LEMMA StepBuilds ==
  ASSUME Inv, Built, NEW t \in Threads, Step(t)
  PROVE  Built'
BY LockBuilds, InsertBuilds, NextBuilds, SelectorBuilds, FindBuilds, FillBuilds, FinishBuilds,
   ProtoBuilds DEF Step, CreateStep, FinishStep, ProtoStep

LEMMA InitBuilt == Init => Built
<1> SUFFICES ASSUME Init PROVE Built
  OBVIOUS
<1> USE DEF Init
<1>1. ClassTypes
  <2>1. Layout(<<>>)
    <3>1. <<>> \in Seq(Elems(<<>>)) /\ Elems(<<>>) = {}
      BY DEF Elems
    <3> QED BY <3>1 DEF Layout
  <2>2. \A c \in Classes : ivars[c] = <<>>
    OBVIOUS
  <2>3. \A c \in Classes : Layout(ivars[c])
    BY <2>1, <2>2
  <2> QED BY <2>3 DEF ClassTypes
<1>2. LocalTypes
  <2>1. sels \in Seq(SelNames)
    <3>1. sels = <<>>
      OBVIOUS
    <3> QED BY <3>1, EmptySeq
  <2>2. selTodo \in [Threads -> SUBSET SelNames] /\ sel = [t \in Threads |-> sel[t]]
    OBVIOUS
  <2> QED BY <2>1, <2>2 DEF LocalTypes
<1>3. ASSUME NEW t \in Threads PROVE At(t)
  BY RegistryAssumption DEF At, HasLock, LockPCs, HasSuperPCs, ForPrototype, PrototypePCs, SelPCs, Prepares
<1>4. ASSUME NEW c \in Classes PROVE ClassOk(c)
  BY DEF ClassOk
<1> QED BY <1>1, <1>2, <1>3, <1>4 DEF Built

LEMMA BuiltInv == Spec => []Built
<1>1. Inv /\ Built /\ [Next]_vars => Built'
  <2> SUFFICES ASSUME Inv, Built, [Next]_vars PROVE Built'
    OBVIOUS
  <2>1. CASE UNCHANGED vars
    <3>1. UNCHANGED <<registry, class, sels, pc, locals, aborted>>
      BY <2>1 DEF vars
    <3>2. aborted' \in BOOLEAN
      BY <3>1 DEF Built, LocalTypes
    <3> QED BY <3>1, <3>2, SameBuilds
  <2>2. CASE Next
    BY <2>2, BeginBuilds, StepBuilds DEF Next
  <2> QED BY <2>1, <2>2
<1> QED BY <1>1, InitBuilt, RegistryInv, PTL DEF Spec

(* The structures, the registries and the locals of the threads have their *)
(* types, and only a class that is in use is registered.                   *)
THEOREM RegistryTypes == Spec => []TypeOK
<1>1. Inv /\ Built => TypeOK
  <2> SUFFICES ASSUME Inv, Built PROVE TypeOK
    OBVIOUS
  <2>1. Types /\ ClassTypes /\ LocalTypes
    BY DEF Inv, Built
  <2>2. \A c \in holder : touched[c]
    BY <2>1 DEF Types, Built, ClassOk
  <2>3. Elems(sels) \subseteq SelNames
    <3>1. Len(sels) \in Nat /\ DOMAIN sels = 1..Len(sels) /\ \A i \in 1..Len(sels) : sels[i] \in SelNames
      BY <2>1, LenProperties, ElementOfSeq DEF LocalTypes
    <3> QED BY <3>1 DEF Elems
  <2>4. \A t \in Threads : lock = t => cls[t] # NoClass \/ pc[t] # "idle"
    BY DEF Built, At, HasLock, LockPCs, ForPrototype
  <2>5. \A c \in Classes : \A v \in Elems(ivars[c]) : v.size \in Nat /\ v.offset \in Nat
    BY <2>1 DEF ClassTypes, Layout
  <2>6. Elems(sels) \subseteq (UNION {ProtoSels[p] : p \in Protos})
                           \cup UNION {OwnSels[t] : t \in Threads}
    BY <2>3 DEF SelNames, ProtoSelNames
  <2>7. holder \subseteq {c \in Classes : touched[c]}
    BY <2>1, <2>2 DEF Types
  <2>8. /\ list \in Seq(Classes) /\ cls \in [Threads -> Classes \cup {NoClass}]
        /\ nm \in [Threads -> Names \cup {NoName}] /\ todo \in [Threads -> Seq(Protos)]
        /\ pc \in [Threads -> {"idle"} \cup CreatePCs \cup ProtoPCs \cup OtherPCs]
    BY <2>1 DEF Types, PCs
  <2>9. /\ sup \in [Threads -> Classes \cup {NoClass}] /\ got \in [Threads -> Classes \cup {NoClass}]
        /\ lock \in Threads \cup {NoThread} /\ aborted \in BOOLEAN
    BY <2>1 DEF LocalTypes
  <2> QED BY <2>1, <2>4, <2>5, <2>6, <2>7, <2>8, <2>9 DEF TypeOK, ClassTypes
<1> QED BY <1>1, RegistryInv, BuiltInv, PTL

-----------------------------------------------------------------------------
(* One SEL for one name.  Prototypes are registered under the run-time     *)
(* lock, but objc_selector_register takes none (selector.c:9): no two      *)
(* threads may register the same name, which RegistrySelectors.cfg shows.  *)

SelectorsOfOne ==
  /\ \A t \in Threads : OwnSels[t] \cap ProtoSelNames = {}
  /\ \A t, u \in Threads : t # u => OwnSels[t] \cap OwnSels[u] = {}

(* What is about to be inserted is not there yet. *)
NewIsNew == \A t \in Threads : pc[t] = "s_insert" => sel[t] \notin Elems(sels)
SelsInv == NewIsNew /\ SelectorsUnique

LEMMA SelsInStep ==
  ASSUME Inv, Built, NEW t \in Threads, Begin(t) \/ Step(t)
  PROVE  \/ SelectorInsert(t)
         \/ /\ sels' = sels
            /\ pc'[t] = "s_insert" => sel'[t] \notin Elems(sels)
<1> USE DEF Local, Goto, registry, Return
<1>0. /\ pc \in [Threads -> PCs] /\ pc \in [Threads -> {"idle"} \cup CreatePCs \cup ProtoPCs \cup OtherPCs]
  BY DEF Inv, Types, PCs
<1> DEFINE Fine == sels' = sels /\ (pc'[t] = "s_insert" => sel'[t] \notin Elems(sels))
<1>1. ASSUME Abort, pc[t] = "idle" PROVE Fine
  BY <1>1 DEF Abort
<1>2. CASE Begin(t)
  <2>1. ASSUME NEW s, NEW n, BeginCreate(t, s, n) PROVE Fine
    BY <1>0, <1>1, <2>1 DEF BeginCreate
  <2>2. ASSUME NEW c, NEW v, AddIvar(t, c, v) PROVE Fine
    BY <1>1, <2>2 DEF AddIvar
  <2>3. ASSUME NEW x, BeginFinish(t, x) \/ BeginRegister(t, x) \/ BeginSelector(t, x) \/ BeginFind(t, x)
        PROVE  Fine
    BY <1>0, <2>3 DEF BeginFinish, BeginRegister, BeginSelector, BeginFind
  <2> QED BY <1>2, <2>1, <2>2, <2>3 DEF Begin
<1>3. ASSUME NEW at, NEW after,
             \/ TakeLock(t, at, after) \/ Insert(t, at, after)
             \/ AppendToList(t, at, after) \/ Extend(t, at, after)
      PROVE  sels' = sels /\ pc'[t] = after
  BY <1>0, <1>3 DEF TakeLock, Insert, AppendToList, Extend
<1>4. CASE CreateStep(t) \/ FinishStep(t)
  BY <1>0, <1>3, <1>4
     DEF CreateStep, FinishStep, CreateLookup, CreateFill, CreateUnlock, FinishFlag
<1>5. CASE ProtoStep(t)
  BY <1>0, <1>3, <1>5 DEF ProtoStep, RegisterNext, RegisterUnlock, Validate, Abort, Refuse,
     ConnectSuper, AddProtoIvars, MarkDone
<1>6. CASE SelectorLookup(t) \/ SelectorLookupAgain(t) \/ SelectorsDone(t)
  BY <1>0, <1>6 DEF SelectorLookup, SelectorLookupAgain, SelectorsDone, SelFound, BackToSelectors, locals
<1>7. CASE FindStep(t)
  BY <1>0, <1>7 DEF FindStep, FindLookup, FindFlag, FindReturn
<1> QED BY <1>2, <1>4, <1>5, <1>6, <1>7 DEF Step, SelectorStep

(* Two threads that are about to insert do not insert the same. *)
LEMMA DifferentNames ==
  ASSUME SelectorsOfOne, Inv, Built, NEW t \in Threads, NEW u \in Threads \ {t},
         pc[t] = "s_insert", pc[u] = "s_insert"
  PROVE  sel[t] # sel[u]
<1>1. At(t) /\ At(u) /\ Ok(t) /\ Ok(u)
  BY DEF Inv, Built
<1>2. sel[t] \in Registers(t) /\ sel[u] \in Registers(u)
  BY <1>1 DEF At
<1>3. ~(cls[t] # NoClass /\ cls[u] # NoClass)
  BY <1>1 DEF Ok, HasLock, ForPrototype
<1>4. \A n : ~(n \in OwnSels[t] /\ n \in ProtoSelNames) /\ ~(n \in OwnSels[u] /\ n \in ProtoSelNames)
             /\ ~(n \in OwnSels[t] /\ n \in OwnSels[u])
  BY DEF SelectorsOfOne
<1> QED BY <1>2, <1>3, <1>4 DEF Registers

LEMMA UniqueGrows ==
  ASSUME Built, SelectorsUnique, NEW n \in SelNames, n \notin Elems(sels), sels' = Append(sels, n)
  PROVE  /\ SelectorsUnique'
         /\ \A m \in Elems(sels') : m \in Elems(sels) \/ m = n
<1>1. sels \in Seq(SelNames) /\ Len(sels) \in Nat /\ DOMAIN sels = 1..Len(sels)
  BY LenProperties DEF Built, LocalTypes
<1>2. /\ sels' \in Seq(SelNames) /\ Len(sels') = Len(sels) + 1
      /\ \A i \in 1..Len(sels) : sels'[i] = sels[i]
      /\ sels'[Len(sels) + 1] = n
  BY <1>1, AppendProperties
<1>3. DOMAIN sels' = 1..(Len(sels) + 1)
  BY <1>1, <1>2, LenProperties
<1>4. \A i \in 1..(Len(sels) + 1) : i \in 1..Len(sels) \/ i = Len(sels) + 1
  BY <1>1
<1>5. \A i \in 1..Len(sels) : sels[i] # n
  BY <1>1 DEF Elems
<1>6. ASSUME NEW i \in DOMAIN sels', NEW j \in DOMAIN sels', sels'[i] = sels'[j] PROVE i = j
  BY <1>1, <1>2, <1>3, <1>4, <1>5, <1>6 DEF SelectorsUnique
<1> QED BY <1>1, <1>2, <1>3, <1>4, <1>6 DEF SelectorsUnique, Elems

LEMMA SelsStep ==
  ASSUME SelectorsOfOne, Inv, Built, SelsInv, NEW t \in Threads, Begin(t) \/ Step(t)
  PROVE  SelsInv'
<1>1. OthersWait(t)
  BY AllWait
<1>2. CASE sels' = sels /\ (pc'[t] = "s_insert" => sel'[t] \notin Elems(sels))
  BY <1>1, <1>2 DEF OthersWait, SelsInv, NewIsNew, SelectorsUnique, Elems
<1>3. CASE SelectorInsert(t)
  <2>1. /\ sels' = Append(sels, sel[t]) /\ pc[t] = "s_insert"
        /\ pc'[t] # "s_insert"
    BY <1>3 DEF SelectorInsert, Goto, BackToSelectors, Inv, Types
  <2>2. sel[t] \in SelNames /\ sel[t] \notin Elems(sels)
    <3>1. At(t)
      BY DEF Built
    <3> QED BY <2>1, <3>1 DEF SelsInv, NewIsNew, At, Registers, SelNames
  <2>3. SelectorsUnique' /\ \A m \in Elems(sels') : m \in Elems(sels) \/ m = sel[t]
    BY <2>1, <2>2, UniqueGrows DEF SelsInv
  <2>4. ASSUME NEW u \in Threads, pc'[u] = "s_insert" PROVE sel'[u] \notin Elems(sels')
    <3>1. u # t /\ pc[u] = "s_insert" /\ sel'[u] = sel[u]
      BY <1>1, <2>1, <2>4 DEF OthersWait
    <3>2. sel[u] # sel[t] /\ sel[u] \notin Elems(sels)
      BY <2>1, <3>1, DifferentNames DEF SelsInv, NewIsNew
    <3> QED BY <2>3, <3>1, <3>2
  <2>5. NewIsNew'
    BY <2>4 DEF NewIsNew, Elems
  <2> QED BY <2>3, <2>5 DEF SelsInv
<1> QED BY <1>2, <1>3, SelsInStep

(* One SEL for one name, as caches compare SELs by pointer (selector.c:16), *)
(* if no name is registered by two threads.                                *)
THEOREM OneSelectorForAName ==
  ASSUME SelectorsOfOne
  PROVE  Spec => []SelectorsUnique
<1>1. Init => SelsInv
  BY DEF Init, SelsInv, NewIsNew, SelectorsUnique
<1>2. Inv /\ Built /\ SelsInv /\ [Next]_vars => SelsInv'
  <2> SUFFICES ASSUME Inv, Built, SelsInv, [Next]_vars PROVE SelsInv'
    OBVIOUS
  <2>1. CASE UNCHANGED vars
    BY <2>1 DEF vars, locals, SelsInv, NewIsNew, SelectorsUnique, Elems
  <2>2. CASE Next
    BY <2>2, SelsStep DEF Next
  <2> QED BY <2>1, <2>2
<1>3. SelsInv => SelectorsUnique
  BY DEF SelsInv
<1> QED BY <1>1, <1>2, <1>3, RegistryInv, BuiltInv, PTL DEF Spec

-----------------------------------------------------------------------------
(* How the classes are laid out.  A prototype is accepted whatever its     *)
(* superclass is (class.c:1083): that it inherits from finished classes    *)
(* takes prototypes whose superclasses are prototypes                      *)
(* (RegistryUnfinishedSuper.cfg is an instance with another one).          *)

SupersArePrototypes ==
  \A p \in Protos, c \in Classes : NameOf[c] = SuperName[p] => c \in Protos

SupersDone == \A c \in Classes : super[c] # NoClass => ~constructing[super[c]]

LEMMA AddIvarShape ==
  ASSUME NEW t, NEW c, NEW v, AddIvar(t, c, v)
  PROVE  UNCHANGED constructing /\ (UNCHANGED class \/ (AddIvar(t, c, v) /\ ~Abort))
<1>1. Abort => UNCHANGED constructing /\ UNCHANGED class
  BY DEF Abort, class
<1>2. ~Abort => UNCHANGED constructing
  BY DEF AddIvar
<1> QED BY <1>1, <1>2

LEMMA ShapesInStep ==
  ASSUME Inv, Built, NEW t \in Threads, Begin(t) \/ Step(t)
  PROVE  /\ \A c \in Classes : ~constructing[c] => ~constructing'[c]
         /\ \/ UNCHANGED <<super, size, ivars, touched>>
            \/ /\ UNCHANGED constructing
               /\ \/ CreateFill(t) \/ ConnectSuper(t) \/ AddProtoIvars(t)
                  \/ \E c \in Classes : \E v \in NewIvars : AddIvar(t, c, v) /\ ~Abort
<1> USE DEF Local, class, Abort
<1>0. constructing \in [Classes -> BOOLEAN]
  BY DEF Built, ClassTypes
<1>1. CASE Begin(t)
  <2>1. ASSUME NEW s, NEW n, BeginCreate(t, s, n) PROVE UNCHANGED class
    BY <2>1 DEF BeginCreate
  <2>2. ASSUME NEW c \in Classes, NEW v \in NewIvars, AddIvar(t, c, v)
        PROVE  /\ UNCHANGED constructing
               /\ UNCHANGED class \/ (AddIvar(t, c, v) /\ ~Abort)
    BY <2>2, AddIvarShape
  <2>3. ASSUME NEW x, BeginFinish(t, x) \/ BeginRegister(t, x) \/ BeginSelector(t, x) \/ BeginFind(t, x)
        PROVE  UNCHANGED class
    BY <2>3 DEF BeginFinish, BeginRegister, BeginSelector, BeginFind
  <2>4. UNCHANGED class => UNCHANGED <<super, size, ivars, touched, constructing>>
    OBVIOUS
  <2> HIDE DEF class, Abort, Local
  <2> QED BY <1>1, <2>1, <2>2, <2>3, <2>4 DEF Begin
<1>2. ASSUME NEW at, NEW after,
             \/ TakeLock(t, at, after) \/ Insert(t, at, after)
             \/ AppendToList(t, at, after) \/ Extend(t, at, after)
      PROVE  UNCHANGED <<super, size, ivars, touched, constructing>>
  BY <1>2 DEF TakeLock, Insert, AppendToList, Extend
<1>3. CASE CreateStep(t) \/ FinishStep(t)
  BY <1>0, <1>2, <1>3
     DEF CreateStep, FinishStep, CreateLookup, CreateFill, CreateUnlock, FinishFlag
<1>4. CASE ProtoStep(t)
  BY <1>0, <1>2, <1>4 DEF ProtoStep, RegisterNext, RegisterUnlock, Validate, Abort, Refuse,
     ConnectSuper, AddProtoIvars, MarkDone
<1>5. CASE SelectorStep(t) \/ FindStep(t)
  BY <1>5 DEF SelectorStep, SelectorLookup, SelectorLookupAgain, SelectorInsert, SelectorsDone,
     FindStep, FindLookup, FindFlag, FindReturn
<1> QED BY <1>1, <1>3, <1>4, <1>5 DEF Step

(* What the steps that give a class its superclass do. *)
LEMMA FillIs ==
  ASSUME Inv, Built, NEW t \in Threads, CreateFill(t)
  PROVE  \E c \in Classes \ Protos :
           /\ ~touched[c] /\ constructing[c] /\ ivars[c] = <<>>
           /\ super' = [super EXCEPT ![c] = sup[t]] /\ size' = [size EXCEPT ![c] = SizeOf(sup[t])]
           /\ touched' = [touched EXCEPT ![c] = TRUE] /\ UNCHANGED <<ivars, constructing, holder>>
           /\ sup[t] # NoClass => ~constructing[sup[t]] /\ sup[t] \in Classes
           /\ pc' = [pc EXCEPT ![t] = "c_insert"]
<1>1. At(t) /\ pc[t] = "c_fill" /\ sup[t] \in Classes \cup {NoClass}
  BY DEF Built, CreateFill, LocalTypes
<1>2. sup[t] # NoClass => ~constructing[sup[t]] /\ sup[t] \in Classes
  BY <1>1 DEF At, HasSuperPCs
<1>3. \A c \in Classes : ~touched[c] => constructing[c] /\ ivars[c] = <<>>
  BY DEF Built, ClassOk
<1> QED BY <1>2, <1>3 DEF CreateFill, Goto, registry

LEMMA ConnectIs ==
  ASSUME SupersArePrototypes, Inv, Built, NEW t \in Threads, ConnectSuper(t)
  PROVE  \E s : /\ cls[t] \in Protos /\ cls[t] \in Classes /\ cls[t] \notin holder
                /\ super' = [super EXCEPT ![cls[t]] = s]
                /\ touched' = [touched EXCEPT ![cls[t]] = TRUE]
                /\ UNCHANGED <<size, ivars, constructing, holder>>
                /\ ~touched[cls[t]] /\ constructing[cls[t]]
                /\ pc' = [pc EXCEPT ![t] = "p_sels"]
                /\ IF SuperName[cls[t]] = NoName THEN s = NoClass
                   ELSE /\ s \in holder /\ NameOf[s] = SuperName[cls[t]]
                        /\ s \in Protos /\ s \in Classes /\ ~constructing[s]
<1>1. /\ cls[t] \in Protos /\ cls[t] \in Classes /\ cls[t] \notin holder /\ At(t)
      /\ ClassOk(cls[t]) /\ pc[t] = "p_super"
  BY PrototypeIs DEF ConnectSuper
<1>2. ~touched[cls[t]] /\ constructing[cls[t]]
  BY <1>1 DEF At, ClassOk
<1>3. PICK s : /\ s \in IF SuperName[cls[t]] = NoName THEN {NoClass} ELSE Named(SuperName[cls[t]])
               /\ super' = [super EXCEPT ![cls[t]] = s]
  BY DEF ConnectSuper
<1>4. SuperName[cls[t]] # NoName =>
        /\ s \in holder /\ NameOf[s] = SuperName[cls[t]]
        /\ s \in Protos /\ s \in Classes /\ ~constructing[s]
  <2> SUFFICES ASSUME SuperName[cls[t]] # NoName
               PROVE  /\ s \in holder /\ NameOf[s] = SuperName[cls[t]]
                      /\ s \in Protos /\ s \in Classes /\ ~constructing[s]
    OBVIOUS
  <2>1. s \in holder /\ NameOf[s] = SuperName[cls[t]] /\ s \in Classes
    BY <1>3 DEF Named, Inv, Types
  <2>2. s \in Protos /\ ClassOk(s)
    BY <1>1, <2>1 DEF SupersArePrototypes, Built
  <2> QED BY <2>1, <2>2 DEF ClassOk
<1> QED BY <1>1, <1>2, <1>3, <1>4 DEF ConnectSuper, Goto, registry

LEMMA SupersStep ==
  ASSUME SupersArePrototypes, Inv, Built, SupersDone, NEW t \in Threads, Begin(t) \/ Step(t)
  PROVE  SupersDone'
<1>1. \A c \in Classes : ~constructing[c] => ~constructing'[c]
  BY ShapesInStep
<1>2. super \in [Classes -> Classes \cup {NoClass}]
  BY DEF Built, ClassTypes
<1>3. CASE UNCHANGED super
  BY <1>1, <1>2, <1>3 DEF SupersDone
<1>4. CASE CreateFill(t)
  BY <1>1, <1>2, <1>4, FillIs DEF SupersDone
<1>5. CASE ConnectSuper(t)
  BY <1>1, <1>2, <1>5, ConnectIs DEF SupersDone
<1>6. AddProtoIvars(t) \/ (\E c \in Classes : \E v \in NewIvars : AddIvar(t, c, v) /\ ~Abort)
        => UNCHANGED super
  BY DEF AddProtoIvars, AddIvar, Abort, class
<1> QED BY <1>3, <1>4, <1>5, <1>6, ShapesInStep

LEMMA SupersAreDone ==
  ASSUME SupersArePrototypes
  PROVE  Spec => []SupersDone
<1>1. Init => SupersDone
  BY DEF Init, SupersDone
<1>2. Inv /\ Built /\ SupersDone /\ [Next]_vars => SupersDone'
  BY SupersStep DEF Next, vars, class, SupersDone
<1> QED BY <1>1, <1>2, RegistryInv, BuiltInv, PTL DEF Spec

(* A class that a look-up has answered with is complete: the extensions    *)
(* have initialized it, once, and its superclass is finished               *)
(* (class.c:1356).                                                         *)
THEOREM FoundClassesAreComplete ==
  ASSUME SupersArePrototypes
  PROVE  Spec => []FoundIsComplete
<1>1. Built /\ SupersDone => FoundIsComplete
  <2> SUFFICES ASSUME Built, SupersDone, NEW t \in Threads, got[t] # NoClass
               PROVE  /\ ~constructing[got[t]] /\ extended[got[t]] = 1
                      /\ super[got[t]] # NoClass => ~constructing[super[got[t]]]
    BY DEF FoundIsComplete
  <2>1. At(t) /\ got[t] \in Classes
    BY DEF Built, LocalTypes
  <2>2. ClassOk(got[t])
    BY <2>1 DEF Built
  <2> QED BY <2>1, <2>2 DEF At, ClassOk, SupersDone
<1> QED BY <1>1, BuiltInv, SupersAreDone, PTL

-----------------------------------------------------------------------------
(* _add_ivars_from_prototype adds up the sizes of the ivars and leaves the *)
(* offsets the compiler wrote (class.c:870): they have to be those of a    *)
(* layout without padding, behind the superclass, as they are on a 32-bit  *)
(* machine (RegistryPadding.cfg is an instance that pads).  e[p]: where    *)
(* the ivars of p end.                                                     *)

Begins(p, e) == IF SuperName[p] = NoName THEN {0}
                ELSE {e[q] : q \in {q \in Protos : NameOf[q] = SuperName[p]}}
Ends(e) ==
  \A p \in Protos : \A s \in Begins(p, e) :
    /\ e[p] = s + SizesUpTo(p)[Len(ProtoIvars[p])]
    /\ \A i \in DOMAIN ProtoIvars[p] : ProtoIvars[p][i].offset = s + SizesUpTo(p)[i - 1]
Dense == \E e \in [Protos -> Nat] : Ends(e)

(* The ivars of a class follow its superclass and one another. *)
Laid(c) ==
  /\ SizeOf(super[c]) <= size[c]
  /\ \A i \in DOMAIN ivars[c] :
       SizeOf(super[c]) <= ivars[c][i].offset /\ Within(ivars[c][i], size[c])
  /\ \A i, j \in DOMAIN ivars[c] :
       i < j => ivars[c][i].offset + ivars[c][i].size <= ivars[c][j].offset
LaidOut(c) == touched[c] /\ (c \in Protos => ~constructing[c])
Measures(t) == pc[t] \in {"p_extend", "p_done"}
Measured(c) == LaidOut(c) \/ \E t \in Threads : Measures(t) /\ cls[t] = c
Areas(e) == \A c \in Classes : Measured(c) => Laid(c) /\ (c \in Protos => size[c] = e[c])

(* A prototype inherits from the class its super_class_name names. *)
Inherits == \A c \in Protos : touched[c] =>
   IF SuperName[c] = NoName THEN super[c] = NoClass
   ELSE super[c] \in holder /\ NameOf[super[c]] = SuperName[c]

LEMMA InheritsStep ==
  ASSUME SupersArePrototypes, Inv, Built, Inherits, NEW t \in Threads, Begin(t) \/ Step(t)
  PROVE  Inherits'
<1>1. holder \subseteq holder'
  <2>1. Begin(t) => holder' = holder
    BY DEF Begin, BeginCreate, BeginFinish, AddIvar, BeginRegister, BeginSelector, BeginFind, Local, Abort, registry
  <2>2. ASSUME NEW at, NEW after,
               \/ TakeLock(t, at, after) \/ Insert(t, at, after)
               \/ AppendToList(t, at, after) \/ Extend(t, at, after)
        PROVE  holder \subseteq holder'
    BY <2>2 DEF TakeLock, Insert, AppendToList, Extend, registry
  <2>3. CreateStep(t) \/ FinishStep(t) => holder \subseteq holder'
    BY <2>2 DEF CreateStep, FinishStep, CreateLookup, CreateFill, CreateUnlock, FinishFlag, Local, registry
  <2>4. ProtoStep(t) => holder \subseteq holder'
    BY <2>2 DEF ProtoStep, RegisterNext, RegisterUnlock, Validate, Abort, Refuse,
       ConnectSuper, AddProtoIvars, MarkDone, Local, registry
  <2>5. SelectorStep(t) \/ FindStep(t) => holder' = holder
    BY DEF SelectorStep, SelectorLookup, SelectorLookupAgain, SelectorInsert, SelectorsDone,
       FindStep, FindLookup, FindFlag, FindReturn, Local, registry
  <2> QED BY <2>1, <2>3, <2>4, <2>5 DEF Step
<1>2. super \in [Classes -> Classes \cup {NoClass}] /\ touched \in [Classes -> BOOLEAN]
      /\ Protos \subseteq Classes
  BY RegistryAssumption DEF Built, ClassTypes
<1>3. CASE UNCHANGED <<super, touched>>
  BY <1>1, <1>2, <1>3 DEF Inherits
<1>4. CASE CreateFill(t)
  <2>1. PICK c \in Classes \ Protos : /\ super' = [super EXCEPT ![c] = sup[t]]
                                      /\ touched' = [touched EXCEPT ![c] = TRUE]
    BY <1>4, FillIs
  <2>2. \A d \in Protos : super'[d] = super[d] /\ touched'[d] = touched[d]
    BY <1>2, <2>1
  <2> QED BY <1>1, <2>2 DEF Inherits
<1>5. CASE ConnectSuper(t)
  <2>1. PICK x, s : /\ x \in Protos /\ super' = [super EXCEPT ![x] = s]
                    /\ touched' = [touched EXCEPT ![x] = TRUE]
                    /\ IF SuperName[x] = NoName THEN s = NoClass
                       ELSE s \in holder /\ NameOf[s] = SuperName[x]
    BY <1>5, ConnectIs
  <2>2. /\ super'[x] = s
        /\ \A d \in Protos \ {x} : super'[d] = super[d] /\ touched'[d] = touched[d]
    BY <1>2, <2>1
  <2> QED BY <1>1, <2>1, <2>2 DEF Inherits
<1>6. AddProtoIvars(t) \/ (\E c \in Classes : \E v \in NewIvars : AddIvar(t, c, v) /\ ~Abort)
        => UNCHANGED <<super, touched>>
  BY DEF AddProtoIvars, AddIvar
<1> QED BY <1>3, <1>4, <1>5, <1>6, ShapesInStep

(* Where a class has been measured before, but for AddProtoIvars.          *)
LEMMA MeasuredBefore ==
  ASSUME Inv, Built, NEW t \in Threads, Begin(t) \/ Step(t), NEW c \in Classes, Measured(c)',
         touched'[c] = touched[c]
  PROVE  Measured(c) \/ (AddProtoIvars(t) /\ cls[t] = c)
<1>0. /\ pc \in [Threads -> {"idle"} \cup CreatePCs \cup ProtoPCs \cup OtherPCs]
      /\ cls \in [Threads -> Classes \cup {NoClass}] /\ constructing \in [Classes -> BOOLEAN]
      /\ OthersWait(t)
  BY AllWait DEF Inv, Types, PCs, Built, ClassTypes
<1>1. ASSUME NEW u \in Threads, Measures(u)', cls'[u] = c, u # t PROVE Measured(c)
  BY <1>0, <1>1 DEF Measured, Measures, OthersWait
<1>2. ASSUME Measures(t)', cls'[t] = c PROVE Measured(c) \/ (AddProtoIvars(t) /\ cls[t] = c)
  <2> USE DEF Goto, Local, locals
  <2>1. CASE Begin(t)
    <3>1. ASSUME NEW s, NEW n, BeginCreate(t, s, n), ~Abort PROVE pc'[t] = "c_lock"
      BY <1>0, <3>1 DEF BeginCreate
    <3>2. ASSUME NEW x, BeginFinish(t, x) \/ BeginRegister(t, x) \/ BeginSelector(t, x) \/ BeginFind(t, x)
          PROVE  pc'[t] \in {"f_extend", "p_lock", "r_sels", "n_lookup"}
      BY <1>0, <3>2 DEF BeginFinish, BeginRegister, BeginSelector, BeginFind
    <3>3. ASSUME NEW x, NEW v, AddIvar(t, x, v) PROVE pc'[t] = pc[t] /\ cls'[t] = cls[t]
      BY <3>3 DEF AddIvar, Abort
    <3>4. Abort => pc'[t] = pc[t] /\ cls'[t] = cls[t]
      BY DEF Abort
    <3>5. pc'[t] = pc[t] /\ cls'[t] = cls[t] => Measured(c)
      BY <1>2 DEF Measured, Measures
    <3> QED BY <1>2, <2>1, <3>1, <3>2, <3>3, <3>4, <3>5 DEF Begin, Measures
  <2>2. ASSUME NEW at, NEW after,
               \/ TakeLock(t, at, after) \/ Insert(t, at, after)
               \/ AppendToList(t, at, after) \/ Extend(t, at, after)
        PROVE  pc'[t] = after /\ pc[t] = at /\ cls'[t] = cls[t]
    BY <1>0, <2>2 DEF TakeLock, Insert, AppendToList, Extend
  <2>3. CASE CreateStep(t) \/ FinishStep(t)
    BY <1>0, <1>2, <2>2, <2>3 DEF CreateStep, FinishStep, CreateLookup, CreateFill, CreateUnlock,
       FinishFlag, Return, Measures
  <2>4. CASE ProtoStep(t)
    <3>1. ASSUME Extend(t, "p_extend", "p_done") PROVE Measured(c)
      BY <1>2, <2>2, <3>1 DEF Measured, Measures
    <3>2. ASSUME AddProtoIvars(t) PROVE cls[t] = c
      BY <1>2, <3>2 DEF AddProtoIvars
    <3>3. ASSUME \/ RegisterNext(t) \/ RegisterUnlock(t) \/ Validate(t) \/ Refuse(t)
                 \/ ConnectSuper(t) \/ MarkDone(t)
          PROVE  ~Measures(t)'
      BY <1>0, <3>3 DEF RegisterNext, RegisterUnlock, Validate, Abort, locals, Refuse, ConnectSuper,
         MarkDone, Return, Measures
    <3> QED BY <1>2, <2>2, <2>4, <3>1, <3>2, <3>3 DEF ProtoStep, Measures
  <2>5. CASE SelectorStep(t) \/ FindStep(t)
    BY <1>0, <1>2, <2>5 DEF SelectorStep, SelectorLookup, SelectorLookupAgain, SelectorInsert,
       SelectorsDone, FindStep, FindLookup, FindFlag, FindReturn, Return, BackToSelectors, Measures
  <2> QED BY <2>1, <2>3, <2>4, <2>5 DEF Step
<1>3. ASSUME LaidOut(c)' PROVE Measured(c)
  <2>1. touched[c]
    BY <1>3 DEF LaidOut
  <2>2. CASE c \notin Protos \/ ~constructing[c]
    BY <2>1, <2>2 DEF Measured, LaidOut
  <2>3. CASE c \in Protos /\ constructing[c]
    <3>1. ~constructing'[c]
      BY <1>3, <2>3 DEF LaidOut
    <3>2. Built /\ ~UNCHANGED constructing
      BY <2>3, <3>1
    <3>3. MarkDone(t) \/ FinishFlag(t)
      <4>1. ~Begin(t)
        <5>1. ASSUME NEW s, NEW n, BeginCreate(t, s, n) PROVE UNCHANGED constructing
          BY <5>1 DEF BeginCreate, Abort, class, Local
        <5>2. ASSUME NEW x, NEW v, AddIvar(t, x, v) PROVE UNCHANGED constructing
          BY <5>2, AddIvarShape
        <5>3. ASSUME NEW x, BeginFinish(t, x) \/ BeginRegister(t, x) \/ BeginSelector(t, x) \/ BeginFind(t, x)
              PROVE  UNCHANGED constructing
          BY <5>3 DEF BeginFinish, BeginRegister, BeginSelector, BeginFind, Local, class
        <5> QED BY <3>2, <5>1, <5>2, <5>3 DEF Begin
      <4>2. ASSUME NEW at, NEW after,
                   \/ TakeLock(t, at, after) \/ Insert(t, at, after)
                   \/ AppendToList(t, at, after) \/ Extend(t, at, after)
            PROVE  UNCHANGED constructing
        BY <4>2 DEF TakeLock, Insert, AppendToList, Extend, class
      <4>3. ASSUME CreateStep(t) \/ (FinishStep(t) /\ ~FinishFlag(t)) PROVE UNCHANGED constructing
        BY <4>2, <4>3 DEF CreateStep, FinishStep, CreateLookup, CreateFill, CreateUnlock, class, Local
      <4>4. ASSUME ProtoStep(t) /\ ~MarkDone(t) PROVE UNCHANGED constructing
        BY <4>2, <4>4 DEF ProtoStep, RegisterNext, RegisterUnlock, Validate, Abort, Refuse,
           ConnectSuper, AddProtoIvars, class, Local
      <4>5. ASSUME SelectorStep(t) \/ FindStep(t) PROVE UNCHANGED constructing
        BY <4>5 DEF SelectorStep, SelectorLookup, SelectorLookupAgain, SelectorInsert, SelectorsDone,
           FindStep, FindLookup, FindFlag, FindReturn, class, Local
      <4> QED BY <3>2, <4>1, <4>3, <4>4, <4>5 DEF Step
    <3>4. cls[t] = c /\ pc[t] \in {"p_done", "f_flag"}
      BY <1>0, <2>3, <3>1, <3>3 DEF MarkDone, FinishFlag
    <3>5. pc[t] # "f_flag"
      <4>1. At(t) /\ ClassOk(c)
        BY DEF Built
      <4> QED BY <2>3, <3>4, <4>1, RegistryAssumption DEF At, ClassOk
    <3> QED BY <3>4, <3>5 DEF Measured, Measures
  <2> QED BY <2>2, <2>3
<1> QED BY <1>1, <1>2, <1>3 DEF Measured

LEMMA ClassesOf ==
  ASSUME Inv, Built
  PROVE  /\ super \in [Classes -> Classes \cup {NoClass}] /\ size \in [Classes -> Nat]
         /\ ivars = [c \in Classes |-> ivars[c]] /\ touched \in [Classes -> BOOLEAN]
         /\ constructing \in [Classes -> BOOLEAN] /\ holder \subseteq Classes
         /\ Protos \subseteq Classes /\ NoClass \notin Classes
         /\ \A c \in Classes : ~constructing[c] => touched[c]
         /\ \A c \in Classes : c \in Protos /\ c \in holder => ~constructing[c]
BY RegistryAssumption DEF Built, ClassTypes, ClassOk, Inv, Types

(* A class whose own structure and whose superclass stay as they are.      *)
LEMMA LaidStays ==
  ASSUME NEW c, Laid(c), super'[c] = super[c], size'[c] = size[c], ivars'[c] = ivars[c],
         super[c] # NoClass => size'[super[c]] = size[super[c]]
  PROVE  Laid(c)'
<1>1. SizeOf(super[c])' = SizeOf(super[c])
  BY DEF SizeOf
<1> QED BY <1>1 DEF Laid, Within

(* What every class keeps but x, which is no superclass yet. *)
LEMMA OthersAreLaid ==
  ASSUME Inv, Built, SupersDone, NEW x \in Classes, constructing[x],
         \A d \in Classes \ {x} : super'[d] = super[d] /\ size'[d] = size[d] /\ ivars'[d] = ivars[d],
         NEW c \in Classes \ {x}, Laid(c)
  PROVE  Laid(c)'
<1>1. super[c] # NoClass => super[c] \in Classes \ {x}
  BY ClassesOf DEF SupersDone
<1> QED BY <1>1, LaidStays

LEMMA FillAreas ==
  ASSUME Inv, Built, SupersDone, NEW e, Areas(e), NEW t \in Threads, Step(t), CreateFill(t)
  PROVE  Areas(e)'
<1>1. PICK x \in Classes \ Protos :
        /\ constructing[x] /\ ivars[x] = <<>> /\ UNCHANGED <<ivars, constructing, holder>>
        /\ super' = [super EXCEPT ![x] = sup[t]] /\ size' = [size EXCEPT ![x] = SizeOf(sup[t])]
        /\ touched' = [touched EXCEPT ![x] = TRUE]
        /\ sup[t] # NoClass => ~constructing[sup[t]] /\ sup[t] \in Classes
        /\ pc' = [pc EXCEPT ![t] = "c_insert"]
  BY FillIs
<1>2. /\ super'[x] = sup[t] /\ size'[x] = SizeOf(sup[t]) /\ ivars'[x] = <<>>
      /\ \A d \in Classes \ {x} : super'[d] = super[d] /\ size'[d] = size[d] /\ ivars'[d] = ivars[d]
                                  /\ touched'[d] = touched[d]
  BY <1>1, ClassesOf
<1>3. Laid(x)'
  <2>1. SizeOf(sup[t]) \in Nat
    BY <1>1, ClassesOf DEF SizeOf
  <2>2. SizeOf(super[x])' = SizeOf(sup[t])
    BY <1>1, <1>2 DEF SizeOf
  <2>3. DOMAIN ivars'[x] = {}
    BY <1>2
  <2> QED BY <1>2, <2>1, <2>2, <2>3 DEF Laid
<1>4. ASSUME NEW c \in Classes \ {x}, Measured(c)' PROVE (Laid(c) /\ (c \in Protos => size[c] = e[c]))'
  <2>1. touched'[c] = touched[c]
    BY <1>2
  <2>2. Measured(c)
    <3>1. ~AddProtoIvars(t)
      BY DEF AddProtoIvars, CreateFill
    <3> QED BY <1>4, <2>1, <3>1, MeasuredBefore
  <2>3. Laid(c) /\ (c \in Protos => size[c] = e[c])
    BY <2>2 DEF Areas
  <2> QED BY <1>1, <1>2, <2>3, OthersAreLaid
<1> QED BY <1>3, <1>4 DEF Areas

LEMMA ConnectAreas ==
  ASSUME SupersArePrototypes, Inv, Built, SupersDone, NEW e, Areas(e),
         NEW t \in Threads, Step(t), ConnectSuper(t)
  PROVE  Areas(e)'
<1>1. PICK x, s :
        /\ x \in Protos /\ x \in Classes /\ super' = [super EXCEPT ![x] = s] /\ x = cls[t]
        /\ touched' = [touched EXCEPT ![x] = TRUE] /\ UNCHANGED <<size, ivars, constructing>>
        /\ constructing[x] /\ pc' = [pc EXCEPT ![t] = "p_sels"]
  BY ConnectIs
<1>2. \A d \in Classes \ {x} : super'[d] = super[d] /\ size'[d] = size[d] /\ ivars'[d] = ivars[d]
                               /\ touched'[d] = touched[d]
  BY <1>1, ClassesOf
<1>3. ~Measured(x)'
  <2>1. ~LaidOut(x)'
    BY <1>1 DEF LaidOut
  <2>2. ASSUME NEW u \in Threads, Measures(u)', cls'[u] = x PROVE FALSE
    <3>1. u # t
      BY <1>1, <2>2 DEF Measures, Inv, Types
    <3>2. Uses(u, x) /\ Uses(t, x)
      <4>1. Measures(u) /\ cls[u] = x
        BY <2>2, <3>1, AllWait DEF OthersWait, Measures
      <4> QED BY <1>1, <4>1 DEF Uses, Measures, UsePCs, Prepares, ConnectSuper
    <3> QED BY <3>1, <3>2, OneUser
  <2> QED BY <2>1, <2>2 DEF Measured
<1>4. ASSUME NEW c \in Classes \ {x}, Measured(c)' PROVE (Laid(c) /\ (c \in Protos => size[c] = e[c]))'
  <2>1. touched'[c] = touched[c]
    BY <1>2
  <2>2. Measured(c)
    <3>1. ~AddProtoIvars(t)
      BY DEF AddProtoIvars, ConnectSuper
    <3> QED BY <1>4, <2>1, <3>1, MeasuredBefore
  <2>3. Laid(c) /\ (c \in Protos => size[c] = e[c])
    BY <2>2 DEF Areas
  <2> QED BY <1>1, <1>2, <2>3, OthersAreLaid
<1> QED BY <1>3, <1>4 DEF Areas

(* Where the ivars of a prototype begin. *)
LEMMA BeginsAtSuper ==
  ASSUME SupersArePrototypes, Inv, Built, Inherits, NEW e, Areas(e), NEW x \in Protos, touched[x]
  PROVE  SizeOf(super[x]) \in Begins(x, e)
<1>1. CASE SuperName[x] = NoName
  BY <1>1 DEF Inherits, Begins, SizeOf
<1>2. CASE SuperName[x] # NoName
  <2>1. super[x] \in holder /\ NameOf[super[x]] = SuperName[x] /\ super[x] \in Classes
    BY <1>2, ClassesOf DEF Inherits
  <2>2. super[x] \in Protos /\ ~constructing[super[x]] /\ touched[super[x]]
    BY <2>1, ClassesOf DEF SupersArePrototypes
  <2>3. size[super[x]] = e[super[x]]
    BY <2>1, <2>2 DEF Areas, Measured, LaidOut
  <2> QED BY <1>2, <2>1, <2>2, <2>3, ClassesOf DEF Begins, SizeOf
<1> QED BY <1>1, <1>2

LEMMA OrderedSums ==
  ASSUME NEW p \in Protos, NEW s \in Nat,
         \A i \in DOMAIN ProtoIvars[p] : ProtoIvars[p][i].offset = s + SizesUpTo(p)[i - 1]
  PROVE  /\ \A i \in DOMAIN ProtoIvars[p] :
              /\ s <= ProtoIvars[p][i].offset
              /\ Within(ProtoIvars[p][i], s + SizesUpTo(p)[Len(ProtoIvars[p])])
         /\ \A i, j \in DOMAIN ProtoIvars[p] :
              i < j => ProtoIvars[p][i].offset + ProtoIvars[p][i].size <= ProtoIvars[p][j].offset
<1> DEFINE n == Len(ProtoIvars[p])
           f == SizesUpTo(p)
<1>1. n \in Nat /\ DOMAIN ProtoIvars[p] = 1..n /\ f \in [0..n -> Nat]
  BY SizesAre
<1>2. \A i \in 1..n : ProtoIvars[p][i].size \in Nat /\ f[i] = f[i - 1] + ProtoIvars[p][i].size
  BY SizesAre
<1>3. \A i \in 0..n : \A j \in i..n : f[i] <= f[j]
  BY SizesAre
<1> HIDE DEF n, f
<1>4. \A i \in 1..n : /\ ProtoIvars[p][i].offset = s + f[i - 1]
                      /\ ProtoIvars[p][i].offset + ProtoIvars[p][i].size = s + f[i]
                      /\ f[i - 1] \in Nat /\ f[i] \in Nat
  <2> SUFFICES ASSUME NEW i \in 1..n
               PROVE  /\ ProtoIvars[p][i].offset = s + f[i - 1]
                      /\ ProtoIvars[p][i].offset + ProtoIvars[p][i].size = s + f[i]
                      /\ f[i - 1] \in Nat /\ f[i] \in Nat
    OBVIOUS
  <2>1. i - 1 \in 0..n /\ i \in 0..n
    BY <1>1
  <2>2. f[i - 1] \in Nat /\ f[i] \in Nat /\ ProtoIvars[p][i].size \in Nat
    BY <1>1, <1>2, <2>1
  <2>3. ProtoIvars[p][i].offset = s + f[i - 1]
    BY <1>1 DEF f
  <2>4. f[i] = f[i - 1] + ProtoIvars[p][i].size
    BY <1>2
  <2> QED BY <2>2, <2>3, <2>4
<1>5. ASSUME NEW i \in 1..n
      PROVE  s <= ProtoIvars[p][i].offset /\ ProtoIvars[p][i].offset + ProtoIvars[p][i].size <= s + f[n]
  <2>1. i \in 0..n /\ n \in i..n
    BY <1>1
  <2>2. f[i] <= f[n] /\ f[n] \in Nat
    BY <1>1, <1>3, <2>1
  <2> QED BY <1>4, <2>2
<1>6. ASSUME NEW i \in 1..n, NEW j \in 1..n, i < j
      PROVE  ProtoIvars[p][i].offset + ProtoIvars[p][i].size <= ProtoIvars[p][j].offset
  <2>1. i \in 0..n /\ j - 1 \in i..n
    BY <1>1, <1>6
  <2>2. f[i] <= f[j - 1]
    BY <1>3, <2>1
  <2> QED BY <1>4, <2>2
<1> QED BY <1>1, <1>5, <1>6 DEF Within, n, f

LEMMA ProtoAreas ==
  ASSUME SupersArePrototypes, Inv, Built, SupersDone, Inherits, NEW e, Ends(e), Areas(e),
         NEW t \in Threads, Step(t), AddProtoIvars(t)
  PROVE  Areas(e)'
<1>1. PICK x : x = cls[t]
  OBVIOUS
<1>2. /\ x \in Protos /\ x \in Classes /\ touched[x] /\ constructing[x]
      /\ size' = [size EXCEPT ![x] = Grown(x, super[x])]
      /\ ivars' = [ivars EXCEPT ![x] = ProtoIvars[x]]
      /\ UNCHANGED <<super, touched, constructing>>
  <2>1. cls[t] \in Protos /\ cls[t] \in Classes /\ At(t) /\ pc[t] = "p_ivars"
    BY PrototypeIs DEF AddProtoIvars
  <2> QED BY <1>1, <2>1 DEF At, Prepares, AddProtoIvars
<1>3. /\ size'[x] = Grown(x, super[x]) /\ ivars'[x] = ProtoIvars[x] /\ super'[x] = super[x]
      /\ \A d \in Classes \ {x} : super'[d] = super[d] /\ size'[d] = size[d] /\ ivars'[d] = ivars[d]
                                  /\ touched'[d] = touched[d]
  BY <1>2, ClassesOf
<1>4. Laid(x)' /\ size'[x] = e[x]
  <2>1. PICK s : s = SizeOf(super[x])
    OBVIOUS
  <2>2. s \in Nat
    BY <2>1, ClassesOf, <1>2 DEF SizeOf
  <2>3. s \in Begins(x, e)
    BY <1>2, <2>1, BeginsAtSuper
  <2>4. /\ e[x] = s + SizesUpTo(x)[Len(ProtoIvars[x])]
        /\ \A i \in DOMAIN ProtoIvars[x] : ProtoIvars[x][i].offset = s + SizesUpTo(x)[i - 1]
    BY <1>2, <2>3 DEF Ends
  <2>5. size'[x] = s + SizesUpTo(x)[Len(ProtoIvars[x])] /\ SizesUpTo(x)[Len(ProtoIvars[x])] \in Nat
    <3>1. /\ Len(ProtoIvars[x]) \in Nat
          /\ SizesUpTo(x) \in [0..Len(ProtoIvars[x]) -> Nat]
      BY <1>2, SizesAre
    <3>2. SizesUpTo(x)[Len(ProtoIvars[x])] \in Nat
      BY <3>1
    <3> QED BY <1>3, <2>1, <3>2 DEF Grown
  <2>6. SizeOf(super[x])' = s
    <3>1. super[x] # NoClass => super[x] \in Classes \ {x}
      BY <1>2, ClassesOf DEF SupersDone
    <3> QED BY <1>3, <2>1, <3>1 DEF SizeOf
  <2>7. /\ \A i \in DOMAIN ProtoIvars[x] :
              /\ s <= ProtoIvars[x][i].offset
              /\ Within(ProtoIvars[x][i], size'[x])
        /\ \A i, j \in DOMAIN ProtoIvars[x] :
              i < j => ProtoIvars[x][i].offset + ProtoIvars[x][i].size <= ProtoIvars[x][j].offset
    <3>1. \A i \in DOMAIN ProtoIvars[x] : ProtoIvars[x][i].offset = s + SizesUpTo(x)[i - 1]
      BY <2>4
    <3>2. x \in Protos
      BY <1>2
    <3>3. /\ \A i \in DOMAIN ProtoIvars[x] :
               /\ s <= ProtoIvars[x][i].offset
               /\ Within(ProtoIvars[x][i], s + SizesUpTo(x)[Len(ProtoIvars[x])])
          /\ \A i, j \in DOMAIN ProtoIvars[x] :
               i < j => ProtoIvars[x][i].offset + ProtoIvars[x][i].size
                          <= ProtoIvars[x][j].offset
      BY <2>2, <3>1, <3>2, OrderedSums
    <3> QED BY <2>5, <3>3
  <2>8. s <= size'[x]
    BY <2>2, <2>5
  <2>9. size'[x] = e[x]
    BY <2>4, <2>5
  <2>10. /\ SizeOf(super[x])' <= size'[x]
         /\ \A i \in DOMAIN ivars'[x] :
              SizeOf(super[x])' <= ivars'[x][i].offset /\ Within(ivars'[x][i], size'[x])
    BY <1>3, <2>6, <2>7, <2>8
  <2>11. \A i, j \in DOMAIN ivars'[x] :
           i < j => ivars'[x][i].offset + ivars'[x][i].size <= ivars'[x][j].offset
    BY <1>3, <2>7
  <2> QED BY <2>9, <2>10, <2>11 DEF Laid, Within
<1>5. ASSUME NEW c \in Classes \ {x}, Measured(c)' PROVE (Laid(c) /\ (c \in Protos => size[c] = e[c]))'
  <2>1. Measured(c)
    BY <1>1, <1>3, <1>5, MeasuredBefore
  <2>2. Laid(c) /\ (c \in Protos => size[c] = e[c])
    BY <2>1 DEF Areas
  <2> QED BY <1>2, <1>3, <2>2, OthersAreLaid
<1> QED BY <1>4, <1>5 DEF Areas

LEMMA AddedAreas ==
  ASSUME Inv, Built, SupersDone, NEW e, Areas(e), NEW t \in Threads, Begin(t),
         NEW x \in Classes, NEW v \in NewIvars, AddIvar(t, x, v), ~Abort
  PROVE  Areas(e)'
<1>1. PICK r :
        /\ r.offset \in Nat /\ r.size \in Nat /\ r.offset >= size[x]
        /\ ivars' = [ivars EXCEPT ![x] = Append(ivars[x], r)]
        /\ size' = [size EXCEPT ![x] = r.offset + r.size]
        /\ pc[t] = "idle" /\ x \in holder /\ builder[x] = t /\ constructing[x]
        /\ UNCHANGED <<registry, super, constructing, touched, extended, builder, sels,
                       pc, locals, aborted>>
  BY AddedIvar
<1>2. /\ size'[x] = r.offset + r.size /\ ivars'[x] = Append(ivars[x], r) /\ super'[x] = super[x]
      /\ \A d \in Classes \ {x} : super'[d] = super[d] /\ size'[d] = size[d] /\ ivars'[d] = ivars[d]
                                  /\ touched'[d] = touched[d]
  BY <1>1, ClassesOf
<1>3. ~AddProtoIvars(t)
  BY <1>1 DEF AddProtoIvars
<1>4. touched[x] /\ x \notin Protos /\ Laid(x)
  <2>1. ClassOk(x)
    BY DEF Built
  <2>2. touched[x] /\ x \notin Protos
    BY <1>1, <2>1, RegistryAssumption DEF ClassOk
  <2> QED BY <2>2 DEF Areas, Measured, LaidOut
<1>5. Laid(x)'
  <2>1. PICK n \in Nat : n = Len(ivars[x]) /\ DOMAIN ivars[x] = 1..n
          /\ DOMAIN Append(ivars[x], r) = 1..(n + 1) /\ Append(ivars[x], r)[n + 1] = r
          /\ \A i \in 1..n : Append(ivars[x], r)[i] = ivars[x][i]
          /\ \A j \in 1..n : ivars[x][j].size \in Nat /\ ivars[x][j].offset \in Nat
    <3>1. Layout(ivars[x])
      BY DEF Built, ClassTypes
    <3>2. /\ Len(ivars[x]) \in Nat /\ DOMAIN ivars[x] = 1..Len(ivars[x])
          /\ DOMAIN Append(ivars[x], r) = 1..(Len(ivars[x]) + 1)
          /\ Append(ivars[x], r)[Len(ivars[x]) + 1] = r
          /\ \A i \in 1..Len(ivars[x]) : Append(ivars[x], r)[i] = ivars[x][i]
      BY <1>1, <3>1, LayoutGrows
    <3>3. \A i \in 1..Len(ivars[x]) : ivars[x][i].size \in Nat /\ ivars[x][i].offset \in Nat
      BY <3>1, <3>2 DEF Layout, Elems
    <3> QED BY <3>2, <3>3
  <2>2. PICK s \in Nat : s = SizeOf(super[x]) /\ s <= size[x] /\ size[x] \in Nat
    <3>1. SizeOf(super[x]) \in Nat
      BY ClassesOf DEF SizeOf
    <3> QED BY <1>4, <3>1, ClassesOf DEF Laid
  <2>3. SizeOf(super[x])' = s
    <3>1. super[x] # NoClass => super[x] \in Classes \ {x}
      BY <1>1, ClassesOf DEF SupersDone
    <3> QED BY <1>2, <2>2, <3>1 DEF SizeOf
  <2>4. \A i \in 1..n : /\ s <= ivars[x][i].offset
                        /\ ivars[x][i].offset + ivars[x][i].size <= size[x]
    BY <1>4, <2>1, <2>2 DEF Laid, Within
  <2>5. \A i, j \in 1..n : i < j => ivars[x][i].offset + ivars[x][i].size <= ivars[x][j].offset
    BY <1>4, <2>1 DEF Laid
  <2>6. size[x] <= r.offset /\ size'[x] = r.offset + r.size /\ r.offset \in Nat /\ r.size \in Nat
    BY <1>1, <1>2, <2>2
  <2>7. s <= size'[x] /\ size[x] <= size'[x] /\ s <= r.offset
    BY <2>2, <2>6
  <2> DEFINE q == ivars'[x]
  <2>8. DOMAIN q = 1..(n + 1) /\ q[n + 1] = r /\ \A i \in 1..n : q[i] = ivars[x][i]
    BY <1>2, <2>1
  <2>9. \A i \in 1..(n + 1) : i \in 1..n \/ i = n + 1
    OBVIOUS
  <2> HIDE DEF q
  <2>10. ASSUME NEW i \in 1..(n + 1) PROVE s <= q[i].offset /\ q[i].offset + q[i].size <= size'[x]
    <3>1. CASE i \in 1..n
      <4>1. /\ q[i] = ivars[x][i] /\ ivars[x][i].size \in Nat /\ ivars[x][i].offset \in Nat
            /\ s <= ivars[x][i].offset /\ ivars[x][i].offset + ivars[x][i].size <= size[x]
        BY <3>1, <2>1, <2>4, <2>8
      <4>2. size[x] \in Nat /\ size'[x] \in Nat /\ size[x] <= size'[x]
        BY <2>2, <2>6, <2>7
      <4> QED BY <4>1, <4>2
    <3>2. CASE i = n + 1
      <4>1. q[i] = r
        BY <2>8, <3>2
      <4>2. s <= r.offset /\ r.offset + r.size <= size'[x]
        BY <2>6, <2>7
      <4> QED BY <4>1, <4>2
    <3> QED BY <2>9, <3>1, <3>2
  <2>11. ASSUME NEW i \in 1..(n + 1), NEW j \in 1..(n + 1), i < j
         PROVE  q[i].offset + q[i].size <= q[j].offset
    <3>1. i \in 1..n
      BY <2>11
    <3>2. CASE j \in 1..n
      BY <2>5, <2>8, <2>11, <3>1, <3>2
    <3>3. CASE j = n + 1
      <4>1. /\ ivars[x][i].size \in Nat /\ ivars[x][i].offset \in Nat
            /\ ivars[x][i].offset + ivars[x][i].size <= size[x]
        BY <2>1, <2>4, <3>1
      <4>2. size[x] \in Nat /\ r.offset \in Nat /\ size[x] <= r.offset
        BY <2>2, <2>6
      <4>3. ivars[x][i].offset + ivars[x][i].size <= r.offset
        BY <4>1, <4>2
      <4>4. q[i] = ivars[x][i] /\ q[j] = r
        BY <2>8, <3>1, <3>3
      <4> QED BY <4>3, <4>4
    <3> QED BY <2>9, <3>2, <3>3
  <2> QED BY <2>3, <2>7, <2>8, <2>10, <2>11 DEF Laid, Within, q
<1>6. ASSUME NEW c \in Classes \ {x}, Measured(c)' PROVE (Laid(c) /\ (c \in Protos => size[c] = e[c]))'
  <2>1. Measured(c)
    BY <1>2, <1>3, <1>6, MeasuredBefore
  <2>2. Laid(c) /\ (c \in Protos => size[c] = e[c])
    BY <2>1 DEF Areas
  <2> QED BY <1>1, <1>2, <2>2, OthersAreLaid
<1> QED BY <1>4, <1>5, <1>6 DEF Areas

LEMMA AreasStep ==
  ASSUME SupersArePrototypes, Inv, Built, SupersDone, Inherits, NEW e, Ends(e), Areas(e),
         NEW t \in Threads, Begin(t) \/ Step(t)
  PROVE  Areas(e)'
<1>1. CASE UNCHANGED <<super, size, ivars, touched>>
  <2>1. ASSUME NEW c \in Classes, Measured(c)' PROVE (Laid(c) /\ (c \in Protos => size[c] = e[c]))'
    <3>1. Measured(c) \/ (AddProtoIvars(t) /\ Step(t))
      <4>1. touched'[c] = touched[c]
        BY <1>1
      <4>2. AddProtoIvars(t) => Step(t)
        <5>1. AddProtoIvars(t) => pc[t] = "p_ivars" /\ pc' = [pc EXCEPT ![t] = "p_extend"]
          BY DEF AddProtoIvars, Goto
        <5>2. AddProtoIvars(t) => ProtoStep(t)
          BY DEF ProtoStep
        <5>3. Begin(t) => ~aborted
          BY DEF Begin
        <5> QED BY <5>2, <5>3 DEF Step
      <4> QED BY <2>1, <4>1, <4>2, MeasuredBefore
    <3>2. CASE AddProtoIvars(t) /\ Step(t)
      BY <2>1, <3>2, ProtoAreas DEF Areas
    <3>3. CASE Measured(c)
      <4>1. Laid(c) /\ (c \in Protos => size[c] = e[c])
        BY <3>3 DEF Areas
      <4> QED BY <1>1, <4>1 DEF Laid, SizeOf, Within
    <3> QED BY <3>1, <3>2, <3>3
  <2> QED BY <2>1 DEF Areas
<1>2. CreateFill(t) \/ ConnectSuper(t) \/ AddProtoIvars(t) => Step(t)
  <2>1. Begin(t) => ~aborted
    BY DEF Begin
  <2> QED BY <2>1 DEF Step, CreateStep, ProtoStep
<1>3. ASSUME NEW c \in Classes, NEW v \in NewIvars, AddIvar(t, c, v) PROVE Begin(t)
  <2>1. Step(t) => ~aborted
    BY DEF Step
  <2>2. ~aborted
    BY <2>1 DEF Begin
  <2> QED BY <1>3, <2>2 DEF Begin
<1> QED BY <1>1, <1>2, <1>3, ShapesInStep, FillAreas, ConnectAreas, ProtoAreas, AddedAreas

(* The line of a class is the least set with it that super stays in.       *)
LEMMA LineIs ==
  ASSUME NEW c \in Classes
  PROVE  /\ c \in Line(c) /\ Line(c) \subseteq Classes
         /\ \A S \in SUBSET Classes : c \in S /\ HasSupers(S) => Line(c) \subseteq S
         /\ \A d \in Line(c) : super[d] \in Classes => super[d] \in Line(c)
<1>1. ASSUME NEW d \in Line(c), super[d] \in Classes, NoClass \notin Classes,
             NEW S \in SUBSET Classes, c \in S, HasSupers(S)
      PROVE  super[d] \in S
  BY <1>1 DEF Line, HasSupers
<1> QED BY <1>1, RegistryAssumption DEF Line

LEMMA LineCloses ==
  ASSUME Inv, Built, NEW c \in Classes
  PROVE  HasSupers(Line(c)) /\ \A d \in Line(c) : super[d] # NoClass => super[d] \in Line(c)
BY LineIs, ClassesOf DEF HasSupers

LEMMA LineOfMember ==
  ASSUME Inv, Built, NEW c \in Classes, NEW d \in Line(c)
  PROVE  Line(d) \subseteq Line(c)
<1>1. d \in Classes /\ Line(c) \in SUBSET Classes /\ HasSupers(Line(c))
  BY LineIs, LineCloses
<1> QED BY <1>1, LineIs

(* Of two classes in a line, one is in the line of the other. *)
LEMMA LineIsOrdered ==
  ASSUME Inv, Built, NEW c \in Classes, NEW d \in Line(c), NEW e \in Line(c)
  PROVE  e \in Line(d) \/ d \in Line(e)
<1> DEFINE S == {x \in Line(c) : \A y \in Line(c) : y \in Line(x) \/ x \in Line(y)}
<1>0. Line(c) \subseteq Classes
  BY LineIs
<1>1. c \in S
  BY LineIs
<1>2. ASSUME NEW x \in S, super[x] # NoClass PROVE super[x] \in S
  <2>1. PICK s \in Line(c) : s = super[x] /\ x \in Line(c)
    BY <1>2, LineCloses
  <2>2. ASSUME NEW y \in Line(c) PROVE y \in Line(s) \/ s \in Line(y)
    <3>1. y \in Classes /\ x \in Classes /\ s \in Classes
      BY <1>0, <2>1
    <3>2. CASE x \in Line(y)
      BY <1>2, <2>1, <3>1, <3>2, LineCloses
    <3>3. CASE y \in Line(x)
      <4>1. Line(x) \subseteq {x} \cup Line(s)
        <5>1. {x} \cup Line(s) \in SUBSET Classes
          BY <3>1, LineIs
        <5>2. HasSupers({x} \cup Line(s))
          <6>1. s \in Line(s) /\ \A z \in Line(s) : super[z] # NoClass => super[z] \in Line(s)
            BY <3>1, LineIs, LineCloses
          <6> QED BY <2>1, <6>1 DEF HasSupers
        <5> QED BY <3>1, <5>1, <5>2, LineIs
      <4>2. y = x => s \in Line(y)
        <5>1. x \in Line(x) /\ \A z \in Line(x) : super[z] # NoClass => super[z] \in Line(x)
          BY <3>1, LineIs, LineCloses
        <5> QED BY <1>2, <2>1, <5>1
      <4> QED BY <3>3, <4>1, <4>2
    <3>4. y \in Line(x) \/ x \in Line(y)
      BY <1>2
    <3> QED BY <3>2, <3>3, <3>4
  <2> QED BY <2>1, <2>2
<1>3. S \in SUBSET Classes /\ HasSupers(S)
  <2>1. S \subseteq Classes
    BY <1>0
  <2> HIDE DEF S
  <2> QED BY <1>2, <2>1 DEF HasSupers
<1>4. d \in S
  <2> HIDE DEF S
  <2> QED BY <1>1, <1>3, LineIs
<1> QED BY <1>4

(* The line of a finished class. *)
LEMMA FinishedLine ==
  ASSUME Inv, Built, SupersDone, NEW e, Areas(e), NEW c \in Classes, ~constructing[c]
  PROVE  \A d \in Line(c) : d \in Classes /\ ~constructing[d] /\ Laid(d) /\ size[d] <= size[c]
<1>1. \A d \in Classes : ~constructing[d] => Laid(d)
  BY ClassesOf DEF Areas, Measured, LaidOut
<1> DEFINE S == {d \in Classes : ~constructing[d] /\ size[d] <= size[c]}
<1>2. c \in S
  BY ClassesOf
<1>3. ASSUME NEW d \in S, super[d] # NoClass PROVE super[d] \in S
  <2>1. super[d] \in Classes /\ ~constructing[super[d]]
    BY <1>3, ClassesOf DEF SupersDone
  <2>2. size[super[d]] <= size[d]
    BY <1>1, <1>3 DEF Laid, SizeOf
  <2>3. size[super[d]] \in Nat /\ size[d] \in Nat /\ size[c] \in Nat /\ size[d] <= size[c]
    BY <2>1, ClassesOf
  <2> QED BY <2>1, <2>2, <2>3
<1>4. S \in SUBSET Classes /\ HasSupers(S)
  <2>1. S \subseteq Classes
    OBVIOUS
  <2> HIDE DEF S
  <2> QED BY <1>3, <2>1 DEF HasSupers
<1>5. Line(c) \subseteq S
  <2> HIDE DEF S
  <2> QED BY <1>2, <1>4, LineIs
<1> QED BY <1>1, <1>5

(* The ivars of a superclass end where those of the class begin. *)
LEMMA SuperIsBefore ==
  ASSUME Inv, Built, SupersDone, NEW e, Areas(e), NEW c \in Classes, ~constructing[c],
         NEW d \in Line(c), d # c, NEW i \in DOMAIN ivars[c], NEW j \in DOMAIN ivars[d]
  PROVE  ivars[d][j].offset + ivars[d][j].size <= ivars[c][i].offset
<1>1. super[c] # NoClass /\ d \in Line(super[c])
  <2>1. CASE super[c] = NoClass
    <3>1. {c} \in SUBSET Classes /\ HasSupers({c})
      BY <2>1 DEF HasSupers
    <3>2. Line(c) \subseteq {c}
      BY <3>1, LineIs
    <3> QED BY <3>2
  <2>2. CASE super[c] # NoClass
    <3>1. super[c] \in Classes
      BY <2>2, ClassesOf
    <3>2. {c} \cup Line(super[c]) \in SUBSET Classes
      BY <3>1, LineIs
    <3>3. HasSupers({c} \cup Line(super[c]))
      <4>1. super[c] \in Line(super[c]) /\ HasSupers(Line(super[c]))
        BY <3>1, LineIs, LineCloses
      <4> QED BY <4>1 DEF HasSupers
    <3>4. Line(c) \subseteq {c} \cup Line(super[c])
      BY <3>2, <3>3, LineIs
    <3> QED BY <2>2, <3>4
  <2> QED BY <2>1, <2>2
<1>2. super[c] \in Classes /\ ~constructing[super[c]]
  BY <1>1, ClassesOf DEF SupersDone
<1>3. d \in Classes /\ Laid(d) /\ size[d] <= size[super[c]]
  BY <1>1, <1>2, FinishedLine
<1>4. Laid(c)
  BY LineIs, FinishedLine
<1>5. ivars[d][j].offset + ivars[d][j].size <= size[d]
  BY <1>3 DEF Laid, Within
<1>6. size[super[c]] <= ivars[c][i].offset
  BY <1>1, <1>4 DEF Laid, SizeOf
<1>7. /\ size[d] \in Nat /\ size[super[c]] \in Nat
      /\ ivars[d][j].offset \in Nat /\ ivars[d][j].size \in Nat /\ ivars[c][i].offset \in Nat
  <2>1. Layout(ivars[d]) /\ Layout(ivars[c])
    BY <1>3 DEF Built, ClassTypes
  <2> QED BY <1>2, <1>3, <2>1, ClassesOf DEF Layout, Elems
<1> QED BY <1>3, <1>5, <1>6, <1>7

LEMMA BeforeIsApart ==
  ASSUME NEW v, NEW w, v.offset \in Nat, v.size \in Nat, w.offset \in Nat, w.size \in Nat,
         v.offset + v.size <= w.offset
  PROVE  ~Overlap(v, w) /\ ~Overlap(w, v)
BY DEF Overlap

LEMMA LineIsApart ==
  ASSUME Inv, Built, SupersDone, NEW e, Areas(e), NEW c \in Classes, ~constructing[c],
         NEW d \in Line(c), NEW i \in DOMAIN ivars[d]
  PROVE  /\ Within(ivars[d][i], size[c])
         /\ \A f \in Line(c) : \A j \in DOMAIN ivars[f] :
              d # f \/ i # j => ~Overlap(ivars[d][i], ivars[f][j])
<1>1. \A f \in Line(c) : f \in Classes /\ ~constructing[f] /\ Laid(f) /\ size[f] <= size[c]
  BY FinishedLine
<1>2. \A f \in Line(c) : \A j \in DOMAIN ivars[f] : ivars[f][j].offset \in Nat /\ ivars[f][j].size \in Nat
  <2>1. \A f \in Line(c) : Layout(ivars[f])
    BY <1>1 DEF Built, ClassTypes
  <2> QED BY <2>1 DEF Layout, Elems
<1>3. Within(ivars[d][i], size[c])
  <2>1. ivars[d][i].offset + ivars[d][i].size <= size[d]
    BY <1>1 DEF Laid, Within
  <2>2. size[d] \in Nat /\ size[c] \in Nat /\ size[d] <= size[c]
    BY <1>1, ClassesOf
  <2> QED BY <1>2, <2>1, <2>2 DEF Within
<1>4. ASSUME NEW f \in Line(c), NEW j \in DOMAIN ivars[f], d # f \/ i # j
      PROVE  ~Overlap(ivars[d][i], ivars[f][j])
  <2>1. CASE d = f
    <3>1. i \in Nat /\ j \in Nat
      <4>1. Layout(ivars[d])
        BY <1>1 DEF Built, ClassTypes
      <4>2. DOMAIN ivars[d] \subseteq Nat
        BY <4>1, LenProperties DEF Layout
      <4> QED BY <2>1, <4>2
    <3>2. i < j \/ j < i
      BY <1>4, <2>1, <3>1
    <3>3. \/ ivars[d][i].offset + ivars[d][i].size <= ivars[f][j].offset
          \/ ivars[f][j].offset + ivars[f][j].size <= ivars[d][i].offset
      BY <1>1, <2>1, <3>2 DEF Laid
    <3> QED BY <1>2, <3>3, BeforeIsApart
  <2>2. CASE d # f
    <3>1. f \in Line(d) \/ d \in Line(f)
      BY LineIsOrdered
    <3>2. \/ ivars[d][i].offset + ivars[d][i].size <= ivars[f][j].offset
          \/ ivars[f][j].offset + ivars[f][j].size <= ivars[d][i].offset
      BY <1>1, <2>2, <3>1, SuperIsBefore
    <3> QED BY <1>2, <3>2, BeforeIsApart
  <2> QED BY <2>1, <2>2
<1> QED BY <1>3, <1>4

(* In an instance of a finished class no two ivars, inherited ones         *)
(* included, overlap, and all lie inside the instance: no superclass grew  *)
(* after its subclass was laid out (class.c:1083), if the compiler laid    *)
(* the prototypes out without padding.                                     *)
THEOREM IvarsStayApart ==
  ASSUME SupersArePrototypes, Dense
  PROVE  Spec => []IvarsApart
<1>1. PICK e \in [Protos -> Nat] : Ends(e)
  BY DEF Dense
<1> DEFINE LaidOutInv == Inherits /\ Areas(e)
<1>2. Init => LaidOutInv
  <2> SUFFICES ASSUME Init PROVE Inherits /\ Areas(e)
    OBVIOUS
  <2>1. \A c \in Classes : ~touched[c]
    BY DEF Init
  <2>2. \A t \in Threads : pc[t] = "idle"
    BY DEF Init
  <2>3. Inherits
    BY <2>1, RegistryAssumption DEF Inherits
  <2>4. \A c \in Classes : ~Measured(c)
    BY <2>1, <2>2 DEF Measured, LaidOut, Measures
  <2> QED BY <2>3, <2>4 DEF Areas
<1>3. Inv /\ Built /\ SupersDone /\ LaidOutInv /\ [Next]_vars => LaidOutInv'
  <2> SUFFICES ASSUME Inv, Built, SupersDone, Inherits, Areas(e), [Next]_vars
               PROVE  Inherits' /\ Areas(e)'
    OBVIOUS
  <2>1. CASE UNCHANGED vars
    <3>1. /\ Inherits' <=> Inherits
          /\ \A c \in Classes : (Measured(c)' <=> Measured(c)) /\ (Laid(c)' <=> Laid(c))
          /\ size' = size
      BY <2>1 DEF vars, registry, class, locals, Inherits, Measured, LaidOut, Measures, Laid, SizeOf, Within
    <3> QED BY <3>1 DEF Areas
  <2>2. CASE Next
    BY <1>1, <2>2, InheritsStep, AreasStep DEF Next
  <2> QED BY <2>1, <2>2
<1>4. Inv /\ Built /\ SupersDone /\ LaidOutInv => IvarsApart
  <2> SUFFICES ASSUME Inv, Built, SupersDone, Areas(e), NEW c \in holder, ~constructing[c]
               PROVE  LET placed == UNION {{<<d, i>> : i \in DOMAIN ivars[d]} : d \in Line(c)}
                          at(x) == ivars[x[1]][x[2]]
                      IN  \A x, y \in placed : /\ Within(at(x), size[c])
                                               /\ x # y => ~Overlap(at(x), at(y))
    BY DEF IvarsApart
  <2>1. c \in Classes
    BY ClassesOf
  <2>2. ASSUME NEW d \in Line(c), NEW i \in DOMAIN ivars[d], NEW f \in Line(c), NEW j \in DOMAIN ivars[f]
        PROVE  /\ Within(ivars[d][i], size[c])
               /\ <<d, i>> # <<f, j>> => ~Overlap(ivars[d][i], ivars[f][j])
    BY <2>1, LineIsApart
  <2> QED BY <2>2
<1> QED BY <1>2, <1>3, <1>4, RegistryInv, BuiltInv, SupersAreDone, PTL DEF Spec
=============================================================================
