---------------------------- MODULE ClassRegistry ----------------------------
(***************************************************************************)
(* The class registry of class.c: classes are created, get instance        *)
(* variables and are finished; or they come from prototypes, the structures *)
(* a compiler writes, which become classes in place.  Creation and         *)
(* registration hold the run-time lock; look-ups, finishing and the        *)
(* addition of ivars hold none.  selector.c registers the selectors of the *)
(* methods of a prototype without a lock of its own.                       *)
(*                                                                         *)
(* One action per access that another thread can observe; the holder and   *)
(* the list are atomic here (Holder, ObjcArray).  The run-time is set up   *)
(* (RuntimeInit).                                                          *)
(***************************************************************************)
EXTENDS Naturals, Sequences, FiniteSets, Sums

CONSTANTS Threads, Names,
          Sought,       \* the names that are looked up
          Classes,      \* the class structures
          Protos,       \* those that are prototypes; the rest is allocated
          NameOf,       \* the name of a class
          SuperName,    \* SuperName[p]: super_class_name of a prototype
          ProtoIvars,   \* ProtoIvars[p]: its ivars: name, size and offset
          ProtoSels,    \* ProtoSels[p]: names of the selectors of its methods
          Malformed,    \* prototypes without a name, with a cache, or too new
          Outdated,     \* prototypes of an older version
          Batches,      \* arrays passed to objc_class_register_prototypes
          NewIvars,     \* what may be passed to objc_class_add_ivar
          Creators, Registrars, Finders,  \* threads by what they call
          OwnSels,      \* OwnSels[t]: selectors t registers on its own
          NoClass, NoName, NoThread

ASSUME RegistryAssumption ==
  /\ Protos \subseteq Classes /\ Sought \subseteq Names
  /\ Malformed \subseteq Protos /\ Outdated \subseteq Protos
  /\ NameOf \in [Classes -> Names]
  /\ SuperName \in [Protos -> Names \cup {NoName}]
  /\ Batches \subseteq Seq(Protos)
  /\ NoClass \notin Classes /\ NoName \notin Names /\ NoThread \notin Threads
  /\ Creators \cup Registrars \cup Finders \subseteq Threads

Elems(s) == {s[i] : i \in DOMAIN s}

ASSUME LayoutAssumption ==
  /\ \A p \in Protos : /\ ProtoIvars[p] \in Seq(Elems(ProtoIvars[p]))
                       /\ \A v \in Elems(ProtoIvars[p]) : v.size \in Nat /\ v.offset \in Nat
  /\ \A v \in NewIvars : v.size \in Nat /\ v.align \in Nat

VARIABLES
  holder,        \* objc_classes
  list,          \* objc_classes_array
  lock,          \* owner of objc_runtime_lock, or NoThread
  super, size,   \* super_class and instance_size of a class
  ivars,         \* ivars of a class: records of name, size and offset
  constructing,  \* flags.in_construction
  touched,       \* the structure is in use: allocated, or isa is set
  extended,      \* how often the class initializers of extensions have run
  builder,       \* the thread that creates the class
  sels,          \* the selector holder: the names of its SELs, oldest first
  pc, cls, nm, sup, todo, selTodo, sel,   \* control and locals
  got,           \* the class the last objc_class_for_name answered with
  aborted        \* objc_abort was called

registry == <<holder, list, lock>>
class == <<super, size, ivars, constructing, touched, extended, builder>>
locals == <<cls, nm, sup, todo, selTodo, sel, got>>
vars == <<registry, class, sels, pc, locals, aborted>>

CreatePCs == {"c_lock", "c_lookup", "c_fill", "c_insert", "c_append",
              "c_unlock", "c_refuse"}
ProtoPCs == {"p_lock", "p_next", "p_validate", "p_super", "p_sels", "s_again",
             "s_insert", "p_ivars", "p_extend", "p_done", "p_insert",
             "p_append", "p_refuse"}
OtherPCs == {"f_extend", "f_flag", "n_lookup", "n_flag", "n_ret", "r_sels"}

Goto(t, l) == pc' = [pc EXCEPT ![t] = l]
Named(n) == {c \in holder : NameOf[c] = n}

(* The class and its superclasses: the least set with it that super does   *)
(* not lead out of.                                                        *)
HasSupers(S) == \A d \in S : super[d] # NoClass => super[d] \in S
Line(c) == {d \in Classes : \A S \in SUBSET Classes : c \in S /\ HasSupers(S) => d \in S}

Init ==
  /\ holder = {} /\ list = <<>> /\ lock = NoThread
  /\ super = [c \in Classes |-> NoClass]
  /\ size = [c \in Classes |-> 0]
  /\ ivars = [c \in Classes |-> <<>>]
  /\ constructing = [c \in Classes |-> TRUE]
  /\ touched = [c \in Classes |-> FALSE]
  /\ extended = [c \in Classes |-> 0]
  /\ builder = [c \in Classes |-> NoThread]
  /\ sels = <<>>
  /\ pc = [t \in Threads |-> "idle"]
  /\ cls = [t \in Threads |-> NoClass]
  /\ nm = [t \in Threads |-> NoName]
  /\ sup = [t \in Threads |-> NoClass]
  /\ todo = [t \in Threads |-> <<>>]
  /\ selTodo = [t \in Threads |-> {}]
  /\ sel = [t \in Threads |-> NoName]
  /\ got = [t \in Threads |-> NoClass]
  /\ aborted = FALSE

Local(t, l) == Goto(t, l) /\ UNCHANGED <<registry, class, sels, aborted>>
Return(t) ==
  /\ Goto(t, "idle")
  /\ cls' = [cls EXCEPT ![t] = NoClass] /\ nm' = [nm EXCEPT ![t] = NoName]
  /\ sup' = [sup EXCEPT ![t] = NoClass]
Abort == aborted' = TRUE /\ UNCHANGED <<registry, class, sels, pc, locals>>

-----------------------------------------------------------------------------
(* objc_class_create *)

(* The caller holds a superclass it made itself or has looked up. *)
Known(t) == {c \in holder : builder[c] = t} \cup ({got[t]} \ {NoClass})

SuperIgnored(c) == FALSE
SuperUnfinished(c) == c # NoClass /\ constructing[c]

BeginCreate(t, s, n) ==
  /\ pc[t] = "idle" /\ t \in Creators /\ s \in Known(t) \cup {NoClass}
  /\ IF SuperUnfinished(s) THEN Abort
     ELSE /\ sup' = [sup EXCEPT ![t] = s]
          /\ nm' = [nm EXCEPT ![t] = n]
          /\ UNCHANGED <<cls, todo, selTodo, sel, got>>
          /\ Local(t, "c_lock")

WithoutLock == TRUE
LockIsFree == lock = NoThread

TakeLock(t, at, after) ==
  /\ pc[t] = at /\ LockIsFree
  /\ lock' = t
  /\ Goto(t, after)
  /\ UNCHANGED <<holder, list, class, sels, locals, aborted>>

NeverTaken(n) == FALSE
NameTaken(n) == Named(n) # {}

CreateLookup(t) ==
  /\ pc[t] = "c_lookup"
  /\ UNCHANGED locals
  /\ Local(t, IF NameTaken(nm[t]) THEN "c_refuse" ELSE "c_fill")

SizeOf(s) == IF s = NoClass THEN 0 ELSE size[s]

(* objc_alloc and the assignments: nobody else has the class yet.          *)
CreateFill(t) ==
  /\ pc[t] = "c_fill"
  /\ \E c \in Classes \ Protos :
       /\ NameOf[c] = nm[t] /\ ~touched[c]
       /\ cls' = [cls EXCEPT ![t] = c]
       /\ super' = [super EXCEPT ![c] = sup[t]]
       /\ size' = [size EXCEPT ![c] = SizeOf(sup[t])]
       /\ touched' = [touched EXCEPT ![c] = TRUE]
       /\ builder' = [builder EXCEPT ![c] = t]
  /\ Goto(t, "c_insert")
  /\ UNCHANGED <<registry, ivars, constructing, extended, sels, nm, sup, todo,
                 selTodo, sel, got, aborted>>

Insert(t, at, after) ==
  /\ pc[t] = at
  /\ holder' = holder \cup {cls[t]}
  /\ Goto(t, after)
  /\ UNCHANGED <<list, lock, class, sels, locals, aborted>>

AppendToList(t, at, after) ==
  /\ pc[t] = at
  /\ list' = Append(list, cls[t])
  /\ Goto(t, after)
  /\ UNCHANGED <<holder, lock, class, sels, locals, aborted>>

LockKept(t) == t
LockReleased(t) == NoThread

CreateUnlock(t) ==
  /\ pc[t] \in {"c_unlock", "c_refuse"}
  /\ lock' = LockReleased(t)
  /\ Return(t)
  /\ UNCHANGED <<holder, list, class, sels, todo, selTodo, sel, got, aborted>>

-----------------------------------------------------------------------------
(* objc_class_add_ivar and objc_class_finish, called by the thread that     *)
(* builds the class; objc_class_add_ivar also, in error, on a finished one. *)

Aligned(s, v) == IF v.align # 0 /\ s % v.align > 0
                 THEN ((s + v.align - 1) \div v.align) * v.align ELSE s

Closed(c) == ~constructing[c]

AddIvar(t, c, v) ==
  /\ pc[t] = "idle" /\ c \in Known(t)
  /\ IF Closed(c) THEN Abort
     ELSE /\ \A d \in Line(c) : \A w \in Elems(ivars[d]) : w.name # v.name
          /\ LET at == Aligned(size[c], v)
             IN  /\ ivars' = [ivars EXCEPT ![c] = Append(@,
                       [name |-> v.name, size |-> v.size, offset |-> at])]
                 /\ size' = [size EXCEPT ![c] = at + v.size]
          /\ UNCHANGED <<registry, super, constructing, touched, extended,
                         builder, sels, pc, locals, aborted>>

BeginFinish(t, c) ==
  /\ pc[t] = "idle" /\ c \in holder /\ builder[c] = t /\ constructing[c]
  /\ cls' = [cls EXCEPT ![t] = c]
  /\ UNCHANGED <<nm, sup, todo, selTodo, sel, got>>
  /\ Local(t, "f_extend")

(* _register_class_with_extensions *)
Extend(t, at, after) ==
  /\ pc[t] = at
  /\ extended' = [extended EXCEPT ![cls[t]] = @ + 1]
  /\ Goto(t, after)
  /\ UNCHANGED <<registry, super, size, ivars, constructing, touched, builder,
                 sels, locals, aborted>>

FinishFlag(t) ==
  /\ pc[t] = "f_flag"
  /\ constructing' = [constructing EXCEPT ![cls[t]] = FALSE]
  /\ Return(t)
  /\ UNCHANGED <<registry, super, size, ivars, touched, extended, builder,
                 sels, todo, selTodo, sel, got, aborted>>

-----------------------------------------------------------------------------
(* objc_class_register_prototype(s) *)

BeginRegister(t, batch) ==
  /\ pc[t] = "idle" /\ t \in Registrars
  /\ todo' = [todo EXCEPT ![t] = batch]
  /\ UNCHANGED <<cls, nm, sup, selTodo, sel, got>>
  /\ Local(t, "p_lock")

RegisterNext(t) ==
  /\ pc[t] = "p_next" /\ todo[t] # <<>>
  /\ cls' = [cls EXCEPT ![t] = Head(todo[t])]
  /\ nm' = [nm EXCEPT ![t] = NameOf[Head(todo[t])]]
  /\ todo' = [todo EXCEPT ![t] = Tail(@)]
  /\ UNCHANGED <<sup, selTodo, sel, got>>
  /\ Local(t, "p_validate")

RegisterUnlock(t) ==
  /\ pc[t] = "p_next" /\ todo[t] = <<>>
  /\ lock' = LockReleased(t)
  /\ Return(t)
  /\ UNCHANGED <<holder, list, class, sels, todo, selTodo, sel, got, aborted>>

(* _validate_prototype: whether the superclass is finished is not asked.   *)
Valid(p) == /\ p \notin Malformed
            /\ ~NameTaken(NameOf[p])
            /\ SuperName[p] # NoName => Named(SuperName[p]) # {}
            /\ ~touched[p]

(* There is no conversion of an older version.                             *)
Validate(t) ==
  /\ pc[t] = "p_validate"
  /\ IF Valid(cls[t]) /\ cls[t] \in Outdated THEN Abort
     ELSE /\ UNCHANGED locals
          /\ Local(t, IF Valid(cls[t]) THEN "p_super" ELSE "p_refuse")

Refuse(t) ==
  /\ pc[t] = "p_refuse"
  /\ cls' = [cls EXCEPT ![t] = NoClass] /\ nm' = [nm EXCEPT ![t] = NoName]
  /\ UNCHANGED <<sup, todo, selTodo, sel, got>>
  /\ Local(t, "p_next")

(* The superclass is looked up and isa is set. *)
ConnectSuper(t) ==
  /\ pc[t] = "p_super"
  /\ \E s \in IF SuperName[cls[t]] = NoName THEN {NoClass}
              ELSE Named(SuperName[cls[t]]) :
        super' = [super EXCEPT ![cls[t]] = s]
  /\ touched' = [touched EXCEPT ![cls[t]] = TRUE]
  /\ selTodo' = [selTodo EXCEPT ![t] = ProtoSels[cls[t]]]
  /\ Goto(t, "p_sels")
  /\ UNCHANGED <<registry, size, ivars, constructing, extended, builder, sels,
                 cls, nm, sup, todo, sel, got, aborted>>

(* objc_selector_register for each method of the prototype, or on its own. *)
BeginSelector(t, n) ==
  /\ pc[t] = "idle"
  /\ selTodo' = [selTodo EXCEPT ![t] = {n}]
  /\ UNCHANGED <<cls, nm, sup, todo, sel, got>>
  /\ Local(t, "r_sels")

NeverFound(n) == FALSE
SelFound(n) == n \in Elems(sels)

(* It is looked up, and looked up again before it is inserted: s_again.    *)
SelectorLookup(t) ==
  /\ pc[t] \in {"p_sels", "r_sels"}
  /\ \E n \in selTodo[t] :
       /\ selTodo' = [selTodo EXCEPT ![t] = @ \ {n}]
       /\ \/ SelFound(n) /\ UNCHANGED <<pc, sel>>
          \/ /\ ~SelFound(n)
             /\ sel' = [sel EXCEPT ![t] = n] /\ Goto(t, "s_again")
  /\ UNCHANGED <<registry, class, sels, cls, nm, sup, todo, got, aborted>>

BackToSelectors(t) == IF cls[t] # NoClass THEN "p_sels" ELSE "r_sels"

SelectorLookupAgain(t) ==
  /\ pc[t] = "s_again"
  /\ UNCHANGED locals
  /\ Local(t, IF SelFound(sel[t]) THEN BackToSelectors(t) ELSE "s_insert")

SelectorInsert(t) ==
  /\ pc[t] = "s_insert"
  /\ sels' = Append(sels, sel[t])
  /\ sel' = [sel EXCEPT ![t] = NoName]
  /\ Goto(t, BackToSelectors(t))
  /\ UNCHANGED <<registry, class, cls, nm, sup, todo, selTodo, got, aborted>>

SelectorsDone(t) ==
  /\ pc[t] \in {"p_sels", "r_sels"} /\ selTodo[t] = {}
  /\ UNCHANGED locals
  /\ Local(t, IF pc[t] = "p_sels" THEN "p_ivars" ELSE "idle")

(* _add_ivars_from_prototype: the sizes are added up, the offsets stay.    *)
SizesUpTo(p) == Sums([i \in DOMAIN ProtoIvars[p] |-> ProtoIvars[p][i].size])
Grown(p, s) == SizeOf(s) + SizesUpTo(p)[Len(ProtoIvars[p])]

AddProtoIvars(t) ==
  /\ pc[t] = "p_ivars"
  /\ size' = [size EXCEPT ![cls[t]] = Grown(cls[t], super[cls[t]])]
  /\ ivars' = [ivars EXCEPT ![cls[t]] = ProtoIvars[cls[t]]]
  /\ Goto(t, "p_extend")
  /\ UNCHANGED <<registry, super, constructing, touched, extended, builder,
                 sels, locals, aborted>>

MarkDone(t) ==
  /\ pc[t] = "p_done"
  /\ constructing' = [constructing EXCEPT ![cls[t]] = FALSE]
  /\ Goto(t, "p_insert")
  /\ UNCHANGED <<registry, super, size, ivars, touched, extended, builder,
                 sels, locals, aborted>>

-----------------------------------------------------------------------------
(* objc_class_for_name *)

BeginFind(t, n) ==
  /\ pc[t] = "idle" /\ t \in Finders
  /\ nm' = [nm EXCEPT ![t] = n]
  /\ got' = [got EXCEPT ![t] = NoClass]
  /\ UNCHANGED <<cls, sup, todo, selTodo, sel>>
  /\ Local(t, "n_lookup")

FindLookup(t) ==
  /\ pc[t] = "n_lookup"
  /\ \/ /\ \E c \in Named(nm[t]) : cls' = [cls EXCEPT ![t] = c]
        /\ Local(t, "n_flag")
     \/ /\ Named(nm[t]) = {}
        /\ UNCHANGED cls
        /\ Local(t, "n_ret")
  /\ UNCHANGED <<nm, sup, todo, selTodo, sel, got>>

FlagIgnored(c) == FALSE
Hidden(c) == constructing[c]

FindFlag(t) ==
  /\ pc[t] = "n_flag"
  /\ got' = [got EXCEPT ![t] = IF Hidden(cls[t]) THEN NoClass ELSE cls[t]]
  /\ UNCHANGED <<cls, nm, sup, todo, selTodo, sel>>
  /\ Local(t, "n_ret")

FindReturn(t) ==
  /\ pc[t] = "n_ret"
  /\ Return(t)
  /\ UNCHANGED <<registry, class, sels, todo, selTodo, sel, got, aborted>>

-----------------------------------------------------------------------------
CreateStep(t) ==
  \/ TakeLock(t, "c_lock", "c_lookup") \/ CreateLookup(t) \/ CreateFill(t)
  \/ Insert(t, "c_insert", "c_append") \/ AppendToList(t, "c_append", "c_unlock")
  \/ CreateUnlock(t)
FinishStep(t) == Extend(t, "f_extend", "f_flag") \/ FinishFlag(t)
ProtoStep(t) ==
  \/ TakeLock(t, "p_lock", "p_next") \/ RegisterNext(t) \/ RegisterUnlock(t)
  \/ Validate(t) \/ Refuse(t) \/ ConnectSuper(t) \/ AddProtoIvars(t)
  \/ Extend(t, "p_extend", "p_done") \/ MarkDone(t)
  \/ Insert(t, "p_insert", "p_append") \/ AppendToList(t, "p_append", "p_next")
SelectorStep(t) == \/ SelectorLookup(t) \/ SelectorLookupAgain(t)
                   \/ SelectorInsert(t) \/ SelectorsDone(t)
FindStep(t) == FindLookup(t) \/ FindFlag(t) \/ FindReturn(t)

Step(t) == ~aborted /\ ( \/ CreateStep(t) \/ FinishStep(t) \/ ProtoStep(t)
                         \/ SelectorStep(t) \/ FindStep(t) )

Begin(t) ==
  /\ ~aborted
  /\ \/ \E s \in Classes \cup {NoClass}, c \in Classes \ Protos :
          BeginCreate(t, s, NameOf[c])
     \/ \E c \in Classes : BeginFinish(t, c) \/ \E v \in NewIvars : AddIvar(t, c, v)
     \/ \E batch \in Batches : BeginRegister(t, batch)
     \/ \E n \in OwnSels[t] : BeginSelector(t, n)
     \/ \E n \in Sought : BeginFind(t, n)

Next == \E t \in Threads : Begin(t) \/ Step(t)

Spec == Init /\ [][Next]_vars /\ \A t \in Threads : WF_vars(Step(t))

-----------------------------------------------------------------------------
(* Types; only a class that is in use is registered, and who waits for the *)
(* lock or holds it has said what for.                                     *)
TypeOK ==
  /\ holder \subseteq {c \in Classes : touched[c]}
  /\ list \in Seq(Classes) /\ lock \in Threads \cup {NoThread}
  /\ super \in [Classes -> Classes \cup {NoClass}]
  /\ size \in [Classes -> Nat]
  /\ \A c \in Classes : \A v \in Elems(ivars[c]) :
        v.size \in Nat /\ v.offset \in Nat
  /\ constructing \in [Classes -> BOOLEAN] /\ touched \in [Classes -> BOOLEAN]
  /\ extended \in [Classes -> Nat]
  /\ builder \in [Classes -> Threads \cup {NoThread}]
  /\ Elems(sels) \subseteq (UNION {ProtoSels[p] : p \in Protos})
                           \cup UNION {OwnSels[t] : t \in Threads}
  /\ pc \in [Threads -> {"idle"} \cup CreatePCs \cup ProtoPCs \cup OtherPCs]
  /\ cls \in [Threads -> Classes \cup {NoClass}]
  /\ nm \in [Threads -> Names \cup {NoName}]
  /\ sup \in [Threads -> Classes \cup {NoClass}]
  /\ todo \in [Threads -> Seq(Protos)]
  /\ got \in [Threads -> Classes \cup {NoClass}]
  /\ aborted \in BOOLEAN
  /\ \A t \in Threads : lock = t => cls[t] # NoClass \/ pc[t] # "idle"

(* While nobody holds the run-time lock the list of classes, along which   *)
(* caches are flushed, has every class of the holder, once (class.c:949).  *)
ListIsHolder ==
  lock = NoThread => /\ Elems(list) = holder
                     /\ \A i, j \in DOMAIN list : list[i] = list[j] => i = j

(* In an instance of a finished class no two ivars, inherited ones         *)
(* included, overlap, and all lie inside the instance: no superclass grew  *)
(* after its subclass was laid out (class.c:1083).                         *)
Within(v, s) == v.offset + v.size <= s
Overlap(v, w) == v.offset < w.offset + w.size /\ w.offset < v.offset + v.size
IvarsApart ==
  \A c \in holder : ~constructing[c] =>
    LET placed == UNION {{<<d, i>> : i \in DOMAIN ivars[d]} : d \in Line(c)}
        at(x) == ivars[x[1]][x[2]]
    IN  \A x, y \in placed : /\ Within(at(x), size[c])
                             /\ x # y => ~Overlap(at(x), at(y))

(* A class that a look-up has answered with is complete: no thread sees it *)
(* before the extensions have initialized it, once (class.c:1356).         *)
FoundIsComplete ==
  \A t \in Threads : got[t] # NoClass =>
    /\ ~constructing[got[t]] /\ extended[got[t]] = 1
    /\ super[got[t]] # NoClass => ~constructing[super[got[t]]]

(* One SEL for one name, as caches compare SELs by pointer.                *)
SelectorsUnique ==
  \A i, j \in DOMAIN sels : sels[i] = sels[j] => i = j

(* The instants at which the calls take effect: at the insert into the     *)
(* holder, at the look-up that finds the name taken, at the test of the    *)
(* flag or the look-up that finds nothing.                                 *)
Rec(op, n, done, r) == [op |-> op, arg |-> n, done |-> done, res |-> r]
Nothing == Rec("none", NoName, FALSE, NoClass)
CallAt(l, c, n, g) ==
  CASE l \in {"c_lock", "c_lookup", "c_fill", "c_insert"} ->
         Rec("create", n, FALSE, NoClass)
    [] l \in {"c_append", "c_unlock"} -> Rec("create", n, TRUE, c)
    [] l = "c_refuse" -> Rec("create", n, TRUE, NoClass)
    [] l \in ProtoPCs \ {"p_lock", "p_next", "p_append", "p_refuse"} /\ c # NoClass ->
         Rec("prototype", n, FALSE, NoClass)
    [] l = "p_append" -> Rec("prototype", n, TRUE, c)
    [] l = "p_refuse" -> Rec("prototype", n, TRUE, NoClass)
    [] l \in {"n_lookup", "n_flag"} -> Rec("find", n, FALSE, NoClass)
    [] l = "n_ret" -> Rec("find", n, TRUE, g)
    [] OTHER -> Nothing
AbstractCall(t) == CallAt(pc[t], cls[t], nm[t], got[t])

Abstract == INSTANCE Registry WITH
  named <- holder, finished <- {c \in holder : ~constructing[c]},
  call <- [t \in Threads |-> AbstractCall(t)]

(* The registry is the atomic map of Registry: a name is given away once,  *)
(* whoever creates or registers it, and a look-up answers with what was    *)
(* finished at one instant of the call.                                    *)
ImplementsRegistry == Abstract!Spec

(* A call that has the run-time lock, or needs none, returns: the lock is  *)
(* always given back.  Who gets it next is up to the lock.                 *)
Waits(t) == pc[t] \in {"idle", "c_lock", "p_lock"}
LockIsGivenBack ==
  \A t \in Threads : (~Waits(t) \/ lock = t)
                       ~> (pc[t] = "idle" /\ lock # t) \/ aborted
=============================================================================
