------------------------------ MODULE ObjcArray ------------------------------
(***************************************************************************)
(* structs/array.c and its users: the list of classes, of the ivars or the *)
(* methods of a class, of its categories.  One action per memory access    *)
(* another thread can observe.  An append takes the write lock; walks take *)
(* no lock.  A list getter walks twice: it counts, allocates one slot more *)
(* for the terminating NULL, and copies.                                   *)
(*                                                                         *)
(* The array hangs in a field of its owner and is created by the first     *)
(* append, so there may be several: the array created by thread t is named *)
(* t.  A node is named by the item it holds.  Memory accesses are          *)
(* sequentially consistent.  A write beyond an allocation has no defined   *)
(* successor: it is recorded in "fault" and all stops.                     *)
(***************************************************************************)
EXTENDS Naturals, Sequences, FiniteSets

CONSTANTS Threads, Items,
          NameOf,       \* category_name of a category, name of an ivar
          UniqueNames,  \* the caller looks for the name before it appends
          Width,        \* entries in an item: a Method array holds several
          AddedBy,      \* the thread that appends the item
          Creators,     \* threads that may append before there is an array
          Readers,      \* threads that call a list getter
          Bounded,      \* readers whose copy stops at what was counted
          NoItem, NoThread,
          Wild          \* the last pointer of an array before it is written

ASSUME ArrayAssumption ==
  /\ Width \in [Items -> Nat \ {0}]
  /\ AddedBy \in [Items -> Threads]
  /\ UniqueNames \in BOOLEAN
  /\ Creators \subseteq Threads
  /\ Bounded \subseteq Readers /\ Readers \subseteq Threads
  /\ NoItem \notin Items /\ NoThread \notin Threads
  /\ Wild \notin Items \cup {NoItem}

VARIABLES
  field,       \* the field of the owner: an array, or NoThread for NULL
  first,       \* first[a]: the first node of the array a, or NoItem
  last,        \* last[a]: the last one, Wild until the first append
  next,        \* next[x]: the node after the node of x, or NoItem
  lock,        \* lock[a]: owner of the write lock of a, or NoThread
  pc,          \* control of each thread
  arr, node,   \* array and item a call works on
  at,          \* the node a walk stands at
  count,       \* entries counted by a getter; its allocation has one more
  filled,      \* entries copied
  out,         \* the items copied
  log,         \* history: log[a], the items in the order they were linked
  seen,        \* history: nodes counted
  acked,       \* history: items whose append has returned YES
  fault        \* "overrun" once a copy has left its allocation

shared == <<field, first, last, next, lock, log>>
walk == <<at, count, filled, out, seen>>
vars == <<shared, pc, arr, node, walk, acked, fault>>

AppendPCs == {"a_null", "a_make", "a_load", "c_first", "c_walk", "a_lock",
              "a_test", "a_first", "a_next", "a_last", "a_unlock", "a_yes",
              "a_no"}
ReadPCs   == {"r_load", "r_first", "r_count", "r_again", "r_copy", "r_end",
              "r_ret"}
Elems(s) == {s[i] : i \in DOMAIN s}
Appended == IF field = NoThread THEN <<>> ELSE log[field]

Goto(t, l) == pc' = [pc EXCEPT ![t] = l]
Set(f, t, v) == [f EXCEPT ![t] = v]

(* The call returns: its locals die. *)
Leave(t) == /\ Goto(t, "idle")
            /\ arr' = Set(arr, t, NoThread)
            /\ node' = Set(node, t, NoItem)
            /\ at' = Set(at, t, NoItem)
            /\ count' = Set(count, t, 0)
            /\ filled' = Set(filled, t, 0)
            /\ out' = Set(out, t, <<>>)
            /\ seen' = Set(seen, t, 0)

Init ==
  /\ field = NoThread
  /\ first = [a \in Threads |-> NoItem]
  /\ last = [a \in Threads |-> Wild]
  /\ next = [x \in Items |-> NoItem]
  /\ lock = [a \in Threads |-> NoThread]
  /\ log = [a \in Threads |-> <<>>]
  /\ pc = [t \in Threads |-> "idle"]
  /\ arr = [t \in Threads |-> NoThread]
  /\ node = [t \in Threads |-> NoItem]
  /\ at = [t \in Threads |-> NoItem]
  /\ count = [t \in Threads |-> 0]
  /\ filled = [t \in Threads |-> 0]
  /\ out = [t \in Threads |-> <<>>]
  /\ seen = [t \in Threads |-> 0]
  /\ acked = {}
  /\ fault = "none"

-----------------------------------------------------------------------------
(* objc_class_add_category, objc_class_add_ivar, _add_*_methods.  A thread  *)
(* that is no creator waits with its first append until there is an array.  *)
(* Nobody appends an item twice.                                            *)
BeginAppend(t, x) ==
  /\ pc[t] = "idle" /\ AddedBy[x] = t
  /\ \A a \in Threads : x \notin Elems(log[a])
  /\ t \in Creators \/ field # NoThread
  /\ Goto(t, "a_null")
  /\ node' = Set(node, t, x)
  /\ UNCHANGED <<shared, arr, walk, acked, fault>>

FieldIsNull == field = NoThread

(* if (cl->ivars == NULL): outside any lock *)
TestField(t) ==
  /\ pc[t] = "a_null"
  /\ Goto(t, IF FieldIsNull THEN "a_make" ELSE "a_load")
  /\ UNCHANGED <<shared, arr, node, walk, acked, fault>>

(* cl->ivars = objc_array_create(): the memory is not zeroed, and "last" is *)
(* not written.                                                             *)
CreateArray(t) ==
  /\ pc[t] = "a_make"
  /\ field' = t
  /\ first' = Set(first, t, NoItem)
  /\ log' = Set(log, t, <<>>)
  /\ Goto(t, "a_load")
  /\ UNCHANGED <<last, next, lock, arr, node, walk, acked, fault>>

ChecksName == UniqueNames

LoadField(t) ==
  /\ pc[t] = "a_load"
  /\ arr' = Set(arr, t, field)
  /\ Goto(t, IF ChecksName THEN "c_first" ELSE "a_lock")
  /\ UNCHANGED <<shared, node, walk, acked, fault>>

(* _category_named_is_contained_in_list, _ivar_named_in_ivar_list *)
CheckFirst(t) ==
  /\ pc[t] = "c_first"
  /\ at' = Set(at, t, first[arr[t]])
  /\ Goto(t, "c_walk")
  /\ UNCHANGED <<shared, arr, node, count, filled, out, seen, acked, fault>>

CheckWalk(t) ==
  /\ pc[t] = "c_walk"
  /\ \/ /\ at[t] = NoItem
        /\ Goto(t, "a_lock")
        /\ UNCHANGED at
     \/ /\ at[t] # NoItem /\ NameOf[at[t]] = NameOf[node[t]]
        /\ Goto(t, "a_no")
        /\ UNCHANGED at
     \/ /\ at[t] # NoItem /\ NameOf[at[t]] # NameOf[node[t]]
        /\ at' = Set(at, t, next[at[t]])
        /\ UNCHANGED pc
  /\ UNCHANGED <<shared, arr, node, count, filled, out, seen, acked, fault>>

-----------------------------------------------------------------------------
(* array_add *)

WithoutLock(a) == TRUE
LockIsFree(a) == lock[a] = NoThread

AppendLock(t) ==
  /\ pc[t] = "a_lock"
  /\ LockIsFree(arr[t])
  /\ lock' = Set(lock, arr[t], t)
  /\ Goto(t, "a_test")
  /\ UNCHANGED <<field, first, last, next, log, arr, node, walk, acked, fault>>

(* if (arr->first == NULL) *)
AppendTest(t) ==
  /\ pc[t] = "a_test"
  /\ Goto(t, IF first[arr[t]] = NoItem THEN "a_first" ELSE "a_next")
  /\ UNCHANGED <<shared, arr, node, walk, acked, fault>>

Grown(t) == [log EXCEPT ![arr[t]] = Append(@, node[t])]

(* arr->first = arr->last = en: nobody but the owner of the lock reads last *)
LinkFirst(t) ==
  /\ pc[t] = "a_first"
  /\ first' = Set(first, arr[t], node[t])
  /\ last' = Set(last, arr[t], node[t])
  /\ log' = Grown(t)
  /\ Goto(t, "a_unlock")
  /\ UNCHANGED <<field, next, lock, arr, node, walk, acked, fault>>

(* arr->last->next = en *)
LinkNext(t) ==
  /\ pc[t] = "a_next"
  /\ next' = Set(next, last[arr[t]], node[t])
  /\ log' = Grown(t)
  /\ Goto(t, "a_last")
  /\ UNCHANGED <<field, first, last, lock, arr, node, walk, acked, fault>>

LastKept(t) == last[arr[t]]
LastOfNode(t) == next[node[t]]
NewLast(t) == node[t]

(* arr->last = en *)
MoveLast(t) ==
  /\ pc[t] = "a_last"
  /\ last' = Set(last, arr[t], NewLast(t))
  /\ Goto(t, "a_unlock")
  /\ UNCHANGED <<field, first, next, lock, log, arr, node, walk, acked, fault>>

LockKept(t) == t
LockReleased(t) == NoThread
AppendUnlock(t) ==
  /\ pc[t] = "a_unlock"
  /\ lock' = Set(lock, arr[t], LockReleased(t))
  /\ Goto(t, "a_yes")
  /\ UNCHANGED <<field, first, last, next, log, arr, node, walk, acked, fault>>

AppendReturn(t) ==
  /\ pc[t] \in {"a_yes", "a_no"}
  /\ acked' = (IF pc[t] = "a_yes" THEN acked \cup {node[t]} ELSE acked)
  /\ Leave(t)
  /\ UNCHANGED <<shared, fault>>

-----------------------------------------------------------------------------
(* objc_class_get_list, objc_class_get_ivar_list, _method_count_in_...,     *)
(* objc_class_get_category_list, objc_method_list_flatten                   *)

BeginRead(t) ==
  /\ pc[t] = "idle" /\ t \in Readers
  /\ Goto(t, "r_load")
  /\ UNCHANGED <<shared, arr, node, walk, acked, fault>>

(* A field that is NULL has an empty list, and is not asked again. *)
ReadField(t) ==
  /\ pc[t] = "r_load"
  /\ arr' = Set(arr, t, field)
  /\ Goto(t, IF field = NoThread THEN "r_ret" ELSE "r_first")
  /\ UNCHANGED <<shared, node, walk, acked, fault>>

CountFirst(t) ==
  /\ pc[t] = "r_first"
  /\ at' = Set(at, t, first[arr[t]])
  /\ Goto(t, "r_count")
  /\ UNCHANGED <<shared, arr, node, count, filled, out, seen, acked, fault>>

CountWalk(t) ==
  /\ pc[t] = "r_count"
  /\ \/ /\ at[t] # NoItem
        /\ count' = Set(count, t, count[t] + Width[at[t]])
        /\ seen' = Set(seen, t, seen[t] + 1)
        /\ at' = Set(at, t, next[at[t]])
        /\ UNCHANGED pc
     \/ /\ at[t] = NoItem
        /\ Goto(t, "r_again")
        /\ UNCHANGED <<at, count, seen>>
  /\ UNCHANGED <<shared, arr, node, filled, out, acked, fault>>

(* The list is allocated, and the walk begins again. *)
CopyFirst(t) ==
  /\ pc[t] = "r_again"
  /\ at' = Set(at, t, first[arr[t]])
  /\ Goto(t, "r_copy")
  /\ UNCHANGED <<shared, arr, node, count, filled, out, seen, acked, fault>>

NotBounded(t) == TRUE
HasRoom(t) == t \in Bounded => filled[t] < count[t]

(* Entries behind the slot of the terminating NULL are not in the list any *)
(* more that was allocated.                                                 *)
CopyWalk(t) ==
  /\ pc[t] = "r_copy"
  /\ \/ /\ at[t] = NoItem \/ ~HasRoom(t)
        /\ Goto(t, "r_end")
        /\ UNCHANGED <<at, filled, out, fault>>
     \/ /\ at[t] # NoItem /\ HasRoom(t)
        /\ IF filled[t] + Width[at[t]] > count[t] + 1
           THEN fault' = "overrun" /\ UNCHANGED <<at, filled, out>>
           ELSE /\ filled' = Set(filled, t, filled[t] + Width[at[t]])
                /\ out' = Set(out, t, Append(out[t], at[t]))
                /\ at' = Set(at, t, next[at[t]])
                /\ UNCHANGED fault
        /\ UNCHANGED pc
  /\ UNCHANGED <<shared, arr, node, count, seen, acked>>

(* list[max_count] = NULL hides an entry that was copied to that slot. *)
Terminated(t) == IF filled[t] > count[t]
                 THEN SubSeq(out[t], 1, Len(out[t]) - 1) ELSE out[t]

CopyEnd(t) ==
  /\ pc[t] = "r_end"
  /\ out' = Set(out, t, Terminated(t))
  /\ Goto(t, "r_ret")
  /\ UNCHANGED <<shared, arr, node, at, count, filled, seen, acked, fault>>

ReadReturn(t) ==
  /\ pc[t] = "r_ret"
  /\ Leave(t)
  /\ UNCHANGED <<shared, acked, fault>>

-----------------------------------------------------------------------------
AppendStep(t) ==
  \/ TestField(t) \/ CreateArray(t) \/ LoadField(t)
  \/ CheckFirst(t) \/ CheckWalk(t)
  \/ AppendLock(t) \/ AppendTest(t) \/ LinkFirst(t) \/ LinkNext(t)
  \/ MoveLast(t) \/ AppendUnlock(t) \/ AppendReturn(t)
ReadStep(t) ==
  \/ ReadField(t) \/ CountFirst(t) \/ CountWalk(t) \/ CopyFirst(t)
  \/ CopyWalk(t) \/ CopyEnd(t) \/ ReadReturn(t)

Step(t) == fault = "none" /\ (AppendStep(t) \/ ReadStep(t))
Begin(t) == /\ fault = "none"
            /\ (\E x \in Items : BeginAppend(t, x)) \/ BeginRead(t)

Next == \E t \in Threads : Begin(t) \/ Step(t)

(* A thread inside a call keeps running; nobody has to make a call. *)
Fairness == \A t \in Threads : WF_vars(Step(t))

Spec == Init /\ [][Next]_vars /\ Fairness

-----------------------------------------------------------------------------
(* Types; "last" is never NULL, and is written before the array can be seen *)
(* not to be empty, which is when array_add follows it.                    *)
TypeOK ==
  /\ field \in Threads \cup {NoThread}
  /\ first \in [Threads -> Items \cup {NoItem}]
  /\ last \in [Threads -> Items \cup {Wild}]
  /\ \A a \in Threads : first[a] # NoItem => last[a] # Wild
  /\ next \in [Items -> Items \cup {NoItem}]
  /\ lock \in [Threads -> Threads \cup {NoThread}]
  /\ log \in [Threads -> Seq(Items)]
  /\ pc \in [Threads -> {"idle"} \cup AppendPCs \cup ReadPCs]
  /\ arr \in [Threads -> Threads \cup {NoThread}]
  /\ node \in [Threads -> Items \cup {NoItem}]
  /\ at \in [Threads -> Items \cup {NoItem}]
  /\ count \in [Threads -> Nat] /\ filled \in [Threads -> Nat]
  /\ seen \in [Threads -> Nat]
  /\ out \in [Threads -> Seq(Items)]
  /\ acked \subseteq Items
  /\ fault \in {"none", "overrun"}

(* At every moment, the one between the two stores of an append included,  *)
(* a walk from "first" along "next" meets exactly the items in the order   *)
(* in which they were linked: that is why readers need no lock (array.c).  *)
Follows(s, a) ==
  /\ first[a] = (IF s = <<>> THEN NoItem ELSE s[1])
  /\ \A i \in DOMAIN s :
       next[s[i]] = (IF i = Len(s) THEN NoItem ELSE s[i + 1])
ChainIsLog == \A a \in Threads : Follows(log[a], a)

(* No list getter writes behind what it allocated, whatever is appended    *)
(* between its two walks.                                                  *)
CopiesInBounds == fault # "overrun"

(* The instants at which the calls take effect: an append where it links   *)
(* its node or meets its name, a getter where its count meets the end.     *)
Counted(t) == \/ pc[t] \in {"r_again", "r_copy", "r_end", "r_ret"}
              \/ pc[t] = "r_count" /\ at[t] = NoItem
Answer(t) ==
  IF ~Counted(t) \/ arr[t] = NoThread THEN <<>>
  ELSE IF pc[t] = "r_ret" THEN out[t] ELSE SubSeq(log[arr[t]], 1, seen[t])
AbstractCall(t) ==
  IF pc[t] \in AppendPCs
  THEN [op |-> "append", arg |-> node[t], res |-> <<>>,
        done |-> \/ pc[t] \in {"a_last", "a_unlock", "a_yes", "a_no"}]
  ELSE IF pc[t] \in ReadPCs
  THEN [op |-> "read", arg |-> NoItem, res |-> Answer(t), done |-> Counted(t)]
  ELSE [op |-> "none", arg |-> NoItem, res |-> <<>>, done |-> FALSE]

Abstract == INSTANCE AppendLog WITH
  log <- Appended, call <- [t \in Threads |-> AbstractCall(t)]

(* The array is the append-only log of AppendLog, its liveness included:   *)
(* what a getter returns is the whole list of one instant of the call.     *)
ImplementsAppendLog == Abstract!Spec

=============================================================================
