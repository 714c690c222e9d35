----------------------------- MODULE RuntimeInit -----------------------------
(***************************************************************************)
(* runtime.c: how the run-time is set up and started.  Initializers are    *)
(* registered, the setup of function pointers is filled in, extensions of  *)
(* classes are added; the first use of the run-time, or an explicit call,  *)
(* runs objc_runtime_init, which calls the initializers, validates the     *)
(* setup and creates the structures everything else uses.  After that all  *)
(* of it is sealed.                                                        *)
(*                                                                         *)
(* objc_runtime_init takes no lock and is modelled access by access; the   *)
(* other calls read a flag and write one word, and are one action each.    *)
(* A NULL function or structure that is used, and an abort, stop all.      *)
(***************************************************************************)
EXTENDS Naturals, Sequences, Sums

CONSTANTS Threads,
          Early,         \* threads that may call before the flag is set
          Initializers,  \* objc_initializer_f functions
          MaxInitializers, \* MAX_NUMBER_OF_INITIALIZERS
          Settable,      \* slots the program sets by single calls
          Sets,          \* Sets[i]: the slots of the setup i fills in
          Adds,          \* Adds[i]: the extension i adds, or NoExt
          Exts, ClassSpace, ObjectSpace,  \* extensions and their extra space
          User, Default, \* a pointer set by a call, a default implementation
          NoValue, NoExt

Required == {"abort", "allocator", "rwlock"}
Optional == {"selector_holder", "class_holder", "array"}
Slots == Required \cup Optional

(* The structures that are created, each by the creator in its slot. *)
Creator == [selectors |-> "selector_holder", lock |-> "rwlock",
            classes |-> "class_holder", list |-> "array"]
Structures == DOMAIN Creator

ASSUME InitAssumption ==
  /\ Early \subseteq Threads
  /\ MaxInitializers \in Nat
  /\ Settable \subseteq Slots
  /\ Sets \in [Initializers -> SUBSET Slots]
  /\ Adds \in [Initializers -> Exts \cup {NoExt}]
  /\ \A i, j \in Initializers : Adds[i] = Adds[j] => i = j \/ Adds[i] = NoExt
  /\ ClassSpace \in [Exts -> Nat] /\ ObjectSpace \in [Exts -> Nat]
  /\ NoExt \notin Exts
  /\ NoValue \notin Initializers \cup {User, Default}

VARIABLES
  initializing, initialized,  \* objc_runtime_is_initializing, _has_been_
  table,       \* objc_initializers, up to the first NULL
  setup,       \* objc_setup
  extensions,  \* class_extensions, head first
  classOffset, objectOffset,  \* the offsets stored in the extensions
  made,        \* made[s]: the creators that have made structure s, in order
  bases,       \* the base classes have been registered
  pc, slot,    \* control of each thread, index into the table
  user,        \* user[t]: objc_class_for_name waits for the initialization
  ran,         \* history: the initializers that were called
  halted       \* why the program has stopped, or "none"

flags == <<initializing, initialized>>
config == <<table, setup, extensions>>
offsets == <<classOffset, objectOffset>>
vars == <<flags, config, offsets, made, bases, pc, slot, user, ran, halted>>

InitPCs == {"n_initializing", "n_initialized", "n_mark", "n_perform",
            "n_validate", "n_selectors", "n_offsets", "n_lock", "n_classes",
            "n_list", "n_bases", "n_done", "n_clear"}
Elems(s) == {s[i] : i \in DOMAIN s}
Goto(t, l) == pc' = [pc EXCEPT ![t] = l]

(* objc_abort, a pointer of the setup like the others *)
Abort == /\ halted' = IF setup["abort"] = NoValue THEN "null_call" ELSE "aborted"
         /\ UNCHANGED <<flags, config, offsets, made, bases, pc, slot, user, ran>>
NullUse == /\ halted' = "null_structure"
           /\ UNCHANGED <<flags, config, offsets, made, bases, pc, slot, user, ran>>

Init ==
  /\ initializing = FALSE /\ initialized = FALSE
  /\ table = <<>>
  /\ setup = [s \in Slots |-> NoValue]
  /\ extensions = <<>>
  /\ classOffset = [e \in Exts |-> 0]
  /\ objectOffset = [e \in Exts |-> 0]
  /\ made = [s \in Structures |-> <<>>]
  /\ bases = FALSE
  /\ pc = [t \in Threads |-> "idle"]
  /\ slot = [t \in Threads |-> 1]
  /\ user = [t \in Threads |-> FALSE]
  /\ ran = <<>>
  /\ halted = "none"

May(t) == pc[t] = "idle" /\ (t \in Early \/ initialized)
Quiet == UNCHANGED <<flags, offsets, made, bases, pc, slot, user, ran, halted>>

-----------------------------------------------------------------------------
(* Calls that configure the run-time *)

NeverClosed == FALSE
TableClosed == initializing \/ initialized

RegisterInitializer(t, i) ==
  /\ May(t) /\ i \notin Elems(table)
  /\ IF TableClosed \/ Len(table) = MaxInitializers
     THEN Abort
     ELSE table' = Append(table, i) /\ UNCHANGED <<setup, extensions>> /\ Quiet

SetupSealed == initialized

Configure(t, to) ==
  /\ May(t)
  /\ IF SetupSealed THEN Abort
     ELSE setup' = to /\ UNCHANGED <<table, extensions>> /\ Quiet

(* objc_runtime_set_<slot>, and objc_runtime_set_setup for all at once *)
SetPointer(t, s, v) == Configure(t, [setup EXCEPT ![s] = v])
SetSetup(t, given) ==
  Configure(t, [s \in Slots |-> IF s \in given THEN User ELSE NoValue])

(* A NULL setup is refused at any time, and silently as long as there is no *)
(* function to abort with: then nothing changes.                            *)
SetNullSetup(t) == May(t) /\ setup["abort"] # NoValue /\ Abort

ExtensionsOpen == FALSE
ExtensionsClosed == made["classes"] # <<>>

(* An extension is added once, by one caller: its next pointer threads it   *)
(* into the list, which a second addition would tie into a cycle.           *)
AddExtension(t, e) ==
  /\ May(t) /\ e \notin Elems(extensions) /\ \A i \in Initializers : Adds[i] # e
  /\ IF ExtensionsClosed THEN Abort
     ELSE extensions' = <<e>> \o extensions /\ UNCHANGED <<table, setup>> /\ Quiet

-----------------------------------------------------------------------------
(* objc_runtime_init; "Returns" goes back to the caller.                    *)

Returns(t) == Goto(t, IF user[t] THEN "u_lookup" ELSE "idle")
Calm == UNCHANGED <<config, offsets, made, bases, user, ran, halted>>

BeginInit(t) ==
  /\ May(t)
  /\ Goto(t, "n_initializing")
  /\ UNCHANGED <<flags, slot>> /\ Calm

TestInitializing(t) ==
  /\ pc[t] = "n_initializing"
  /\ IF initializing THEN Returns(t) ELSE Goto(t, "n_initialized")
  /\ UNCHANGED <<flags, slot>> /\ Calm

NeverDone == FALSE
AlreadyDone == initialized

TestInitialized(t) ==
  /\ pc[t] = "n_initialized"
  /\ IF AlreadyDone THEN Returns(t) ELSE Goto(t, "n_mark")
  /\ UNCHANGED <<flags, slot>> /\ Calm

AtStart == [initializing |-> TRUE, initialized |-> initialized]

MarkInitializing(t) ==
  /\ pc[t] = "n_mark"
  /\ initializing' = AtStart.initializing /\ initialized' = AtStart.initialized
  /\ slot' = [slot EXCEPT ![t] = 1]
  /\ Goto(t, "n_perform") /\ Calm

SkipsSlot(k) == k + 2
NextSlot(k) == k + 1

(* The walk over the table ends at the first slot that is NULL.             *)
AllSlots == MaxInitializers
EndOfTable == Len(table)

(* Initializers call the setters and objc_class_add_extension. *)
Perform(t) ==
  /\ pc[t] = "n_perform" /\ slot[t] <= Len(table)
  /\ LET i == table[slot[t]]
     IN  IF \/ Adds[i] # NoExt /\ ExtensionsClosed
            \/ Sets[i] # {} /\ SetupSealed
         THEN Abort
         ELSE /\ setup' = [s \in Slots |-> IF s \in Sets[i] THEN i ELSE setup[s]]
              /\ extensions' = IF Adds[i] = NoExt THEN extensions
                               ELSE <<Adds[i]>> \o extensions
              /\ ran' = Append(ran, i)
              /\ slot' = [slot EXCEPT ![t] = NextSlot(@)]
              /\ UNCHANGED <<flags, table, offsets, made, bases, pc, user, halted>>

Performed(t) ==
  /\ pc[t] = "n_perform" /\ slot[t] > EndOfTable
  /\ Goto(t, "n_validate")
  /\ UNCHANGED <<flags, slot>> /\ Calm

(* _objc_runtime_validate_function_pointers *)
Validate(t) ==
  /\ pc[t] = "n_validate"
  /\ IF \E s \in Required : setup[s] = NoValue THEN Abort
     ELSE /\ setup' = [s \in Slots |-> IF setup[s] = NoValue THEN Default
                                       ELSE setup[s]]
          /\ Goto(t, "n_selectors")
          /\ UNCHANGED <<flags, table, extensions, offsets, made, bases,
                         slot, user, ran, halted>>

Make(t, s, at, after) ==
  /\ pc[t] = at
  /\ made' = [made EXCEPT ![s] = Append(@, setup[Creator[s]])]
  /\ Goto(t, after)
  /\ UNCHANGED <<flags, config, offsets, bases, slot, user, ran, halted>>

(* The sums the walk over the extensions stores, position by position. *)
SpaceUpTo(space) == Sums([n \in DOMAIN extensions |-> space[extensions[n]]])
PlaceOf(e) == CHOOSE n \in DOMAIN extensions : extensions[n] = e
Stored(old, space) ==
  [e \in Exts |-> IF e \in Elems(extensions) THEN SpaceUpTo(space)[PlaceOf(e) - 1]
                  ELSE old[e]]

(* objc_class_init: offsets, lock, holder, list *)
CacheOffsets(t) ==
  /\ pc[t] = "n_offsets"
  /\ classOffset' = Stored(classOffset, ClassSpace)
  /\ objectOffset' = Stored(objectOffset, ObjectSpace)
  /\ Goto(t, "n_lock")
  /\ UNCHANGED <<flags, config, made, bases, slot, user, ran, halted>>

(* objc_install_base_classes enters objc_runtime_init again, which returns  *)
(* because of the flags.                                                    *)
InstallBaseClasses(t) ==
  /\ pc[t] = "n_bases"
  /\ IF \E s \in Structures : made[s] = <<>> THEN NullUse
     ELSE /\ bases' = TRUE
          /\ Goto(t, "n_done")
          /\ UNCHANGED <<flags, config, offsets, made, slot, user, ran, halted>>

AtEnd == [initializing |-> initializing, initialized |-> TRUE]

MarkInitialized(t) ==
  /\ pc[t] = "n_done"
  /\ initialized' = AtEnd.initialized /\ initializing' = AtEnd.initializing
  /\ Goto(t, "n_clear")
  /\ UNCHANGED slot /\ Calm

ClearInitializing(t) ==
  /\ pc[t] = "n_clear"
  /\ initializing' = FALSE /\ initialized' = TRUE
  /\ Returns(t)
  /\ UNCHANGED slot /\ Calm

-----------------------------------------------------------------------------
(* objc_class_for_name, objc_class_create and the registration of           *)
(* prototypes: if the flag is not set they call objc_runtime_init, and then *)
(* use the structures.                                                      *)
BeginUse(t) ==
  /\ May(t)
  /\ user' = [user EXCEPT ![t] = TRUE]
  /\ Goto(t, IF initialized THEN "u_lookup" ELSE "n_initializing")
  /\ UNCHANGED <<flags, config, offsets, made, bases, slot, ran, halted>>

Use(t) ==
  /\ pc[t] = "u_lookup"
  /\ IF \E s \in {"classes", "lock"} : made[s] = <<>> THEN NullUse
     ELSE /\ user' = [user EXCEPT ![t] = FALSE]
          /\ Goto(t, "idle")
          /\ UNCHANGED <<flags, config, offsets, made, bases, slot, ran, halted>>

InitStep(t) ==
  \/ TestInitializing(t) \/ TestInitialized(t) \/ MarkInitializing(t)
  \/ Perform(t) \/ Performed(t) \/ Validate(t)
  \/ Make(t, "selectors", "n_selectors", "n_offsets")
  \/ CacheOffsets(t)
  \/ Make(t, "lock", "n_lock", "n_classes")
  \/ Make(t, "classes", "n_classes", "n_list")
  \/ Make(t, "list", "n_list", "n_bases")
  \/ InstallBaseClasses(t) \/ MarkInitialized(t) \/ ClearInitializing(t)

Step(t) == halted = "none" /\ (InitStep(t) \/ Use(t))

Call(t) ==
  /\ halted = "none"
  /\ \/ \E i \in Initializers : RegisterInitializer(t, i)
     \/ \E s \in Settable, v \in {User, NoValue} : SetPointer(t, s, v)
     \/ \E given \in {Required, Slots} : SetSetup(t, given)
     \/ SetNullSetup(t)
     \/ \E e \in Exts : AddExtension(t, e)
     \/ BeginInit(t) \/ BeginUse(t)

Next == \E t \in Threads : Call(t) \/ Step(t)

(* Once in objc_runtime_init, or in a call that uses it, a thread goes on. *)
Spec == Init /\ [][Next]_vars /\ \A t \in Threads : WF_vars(Step(t))

-----------------------------------------------------------------------------
(* Types, and the index of an initializer stays within one past the table. *)
TypeOK ==
  /\ initializing \in BOOLEAN /\ initialized \in BOOLEAN /\ bases \in BOOLEAN
  /\ table \in Seq(Initializers) /\ Len(table) <= MaxInitializers
  /\ setup \in [Slots -> Initializers \cup {User, Default, NoValue}]
  /\ extensions \in Seq(Exts)
  /\ classOffset \in [Exts -> Nat] /\ objectOffset \in [Exts -> Nat]
  /\ made \in [Structures -> Seq(Initializers \cup {User, Default, NoValue})]
  /\ pc \in [Threads -> {"idle", "u_lookup"} \cup InitPCs]
  /\ slot \in [Threads -> 1..(MaxInitializers + 1)]
  /\ user \in [Threads -> BOOLEAN]
  /\ ran \in Seq(Initializers)
  /\ halted \in {"none", "aborted", "null_call", "null_structure"}

(* "Make sure that we don't initialize twice" (runtime.c:163), and "no      *)
(* modifications to the setup" after the initialization (runtime.c:14): a  *)
(* structure is made once, by the implementation whose functions are then  *)
(* called on it.                                                           *)
MadeOnce == \A s \in Structures : made[s] \in {<<>>, <<setup[Creator[s]]>>}

(* Once the run-time is up, every initializer that was ever accepted has   *)
(* been called, once and in the order of registration.                     *)
AllPerformed == initialized => ran = table

(* When the structures exist, the areas of two extensions do not overlap,  *)
(* neither in a class nor in an object, whoever added them and when.       *)
Apart(offset, space) ==
  \A d, e \in Elems(extensions) :
     d # e => \/ offset[d] + space[d] <= offset[e]
              \/ offset[e] + space[e] <= offset[d]
AreasApart == made["classes"] # <<>> => /\ Apart(classOffset, ClassSpace)
                                        /\ Apart(objectOffset, ObjectSpace)

(* Nobody gets past the test of the flag to structures that do not exist.  *)
NoNullStructure == halted # "null_structure"

(* A call of objc_runtime_init returns, or the program is aborted.         *)
InitReturns ==
  \A t \in Threads : pc[t] # "idle" ~> (pc[t] = "idle" \/ halted # "none")
=============================================================================
