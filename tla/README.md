# Modular Objective-C run-time: TLA+ models and proofs

The program is the C run-time under `src/run-time`. It keeps classes, selectors
and method caches in one kind of hash table (`structs/holder.c`), lists of
methods, instance variables, categories and classes in one kind of linked list
(`structs/array.c`), and finds the method for a message by a cache, by class
extensions such as categories, and by a climb through the superclasses
(`class.c`, `extras/categs.c`). The thesis text (`src/chap6.tex`,
`src/chap7.tex`) describes the design.

## Inventory

| Part | State | Operations | Interacts with |
|---|---|---|---|
| Holder, `structs/holder.c` | bucket array (allocated lazily), linked lists, write lock, `readers`, `dealloc_mark` | create, insert, fetch, mark to deallocate | called by the class registry, the selector registry and the caches; bumps `Method.version` |
| Array, `structs/array.c` | nodes, first and last node, write lock | append (with the lock), enumerate (without) | method lists, ivars, class list, categories |
| Methods, `method.c` | lists of `Method` arrays | create, count, copy, convert prototypes | Array, Selectors |
| Selectors, `selector.c` | selector holder | register | Holder |
| Class registry, `class.c` | class holder, class list, run-time lock, construction flag | create, add ivars, finish, register prototypes, find | Holder, Array, Selectors, extensions |
| Dispatch and caches, `class.c` | method lists, two caches per class, method versions | look up, add, replace, flush | Holder (cache), categories, forwarding, call sites |
| Forwarding, `class.c` | the two lazily registered selectors | forward, drop, abort | Dispatch, methods of the user |
| Categories, `extras/categs.c` | list of categories per class | add, look up, list | extension hooks of Dispatch |
| Call sites, `OBJC_GET_IMP` in `test/testing.h` | inline cache: Method, isa, version | send | Dispatch |
| Class extensions, `classext.h`, `class.c` | list of extensions, their offsets and sizes | add, store offsets, size of the extension area | start of the run-time, class and object creation |
| Associated objects, `extras/ao-ext.c` | hash table per object, in the words of an extension | get, set, destroy | extensions |
| Objects, `class.c` | memory of instances | create, copy, set class, set ivar, deallocate | extensions |
| Set-up, `runtime.c` | setup record, two flags, table of initializers | set, register, initialize | everything |
| Base classes, `classes/` | retain count | alloc, retain, release | objects |
| Lock and allocation layer, `extras/posix.c` | pthread locks | lock, unlock, destroy | Holder, Array, class registry |

What makes each of them right:

- **Holder.** An insert that returned is found by every later look-up; no object
  is linked twice; a look-up needs no lock; a destroyed cache is freed, and no
  reader is caught inside.
- **Array.** No append is lost; a walk meets only whole nodes, in the order they
  were linked; a getter stays inside what it allocated.
- **Dispatch.** A cache answers what the climb would find now, whatever was added
  since; so does an inline cache; which method answers a selector never depends
  on more than the order of attachment.
- **Registry.** One class per name, one `SEL` per name; only finished classes are
  found; ivars do not overlap; the lock is given back.
- **Set-up.** Each structure is made once and every initializer runs once, before
  anything uses the run-time; areas of extensions do not overlap.
- **Objects.** The areas lie inside the memory and keep their words; the last
  release deallocates, once.

What is hard to test: two threads anywhere in these files, most of whose reads
take no lock; lazy creation by two threads; a flush overtaking a look-up; caches
made stale by an override higher up; an object whose class, and with it the
place of its extensions, changes. `PROJECT.json` lists the hazards at their
lines, with the properties that watch them.

## Modules

| Module | Models | Composition |
|---|---|---|
| `AtomicHolder` | the promise of a holder: a set that grows, each call at one instant | abstract specification |
| `Holder` | `structs/holder.c`, access by access | implements `AtomicHolder` |
| `AppendLog` | the promise of an array: a log, each append and each read at one instant | abstract specification |
| `ObjcArray` | `structs/array.c`, the list getters, the flattening of `method.c` | implements `AppendLog` |
| `Dispatch` | `class.c`, `extras/categs.c`, call sites: one action per call | a cache is the set that `AtomicHolder` promises |
| `ConcurrentDispatch` | the look-up, caching, adding and flushing of `class.c`, access by access | caches as in `AtomicHolder`, lists as in `AppendLog` |
| `Registry` | the promise of the class registry: a map from names to classes | abstract specification |
| `ClassRegistry` | creation, ivars, finishing, prototypes and look-up of classes, `selector.c` | implements `Registry`; holder and list as in their promises |
| `RuntimeInit` | `runtime.c` and the extensions' offsets of `class.c` | what it makes is what the other modules start with |
| `Sums` | sizes that are added up one after the other | used by `ClassRegistry`, `RuntimeInit` and `Objects` |
| `Objects` | objects of `class.c`, retain counts, `extras/ao-ext.c` | the offsets are those that `RuntimeInit` stores |

`MCHolder`, `MCArray`, `MCDispatch`, `MCConcurrent`, `MCRegistry`, `MCRuntime`
and `MCObjects` instantiate them for TLC; `HolderProofs`, `ArrayProofs`,
`DispatchProofs`, `ConcurrentProofs`, `RegistryProofs`, `RuntimeProofs` and
`ObjectProofs` hold the theorems, each about the module of its name, and
`SumProofs` the lemmas about `Sums` that the last three share.

In the modules about threads an action is one memory access that another thread
can observe, with a program counter per thread. Memory is sequentially
consistent and a pointer is read in one access; the locks are those of pthread,
taken as atomic. An access that has no defined result (freed memory, a destroyed
lock, a NULL pointer, a write behind an allocation) is recorded in `fault`, or
`halted`, and stops the system. What a caller must see to is a constant that says
who calls what (`Creators`, `Setters`, `Early`, `Looks`, ...), so that a run can
keep to the obligation and another can break it.

### Holder

A bucket only ever grows at its head and its nodes never change, so a list is a
sequence (`chain[b]`), and the pointer a thread has loaded is the sequence it saw
(`snap[t]`). That makes the walk one step: it reads nothing that can change, save
that the nodes may be freed, which the step tests.

| Code | Model |
|---|---|
| `holder->buckets == NULL` | `~allocated` |
| `holder->buckets[i]` | `chain[b]` |
| write lock | `lock`: its owner, `NoThread`, or `Destroyed` |
| `++readers`, `--readers` | a load (`FetchLoadForInc`) and a store (`FetchStoreInc`), modulo `ReaderMod` |
| `dealloc_mark` | `mark` |
| pointer to the cache in the class | `published`: no call begins after it is taken away |
| freed buckets, `Method.version` | `freed`, `version` |
| return of an insert | the history variable `acked` |

`holder_insert_object_internal` is `BeginInsert` to `InsertReturn`,
`holder_fetch_object` is `BeginFetch` to `FetchReturn`,
`holder_mark_to_deallocate` is `BeginDestroy` to `MarkTestReaders`,
`_holder_deallocate` is `DeallocLock` to `DeallocDestroyLock`.
`_bucket_index_for_key` is the constant `BucketOf` after the constant `KeyOf`: a
string hash for names, a pointer for selectors. The holder structure itself is
never freed by the code.

`ImplementsAtomicHolder` maps the holder to `AtomicHolder`: the set is what is
linked; a look-up takes effect where it loads the head of its bucket, an insert
where it links its node, or loads a list that has the object already. Destroyers
are left out of those runs: the promise is about a holder in use.

### Array

`array_add` takes the write lock of the array, walks take none; the array itself
is created by the first append to the field of its owner, without a lock. A list
getter walks twice: it counts, allocates one slot more for the terminating NULL,
and copies.

| Code | Model |
|---|---|
| the field (`cl->ivars`, `cl->instance_methods`, categories) | `field` |
| `arr->first`, `arr->last`, `node->next` | `first`, `last`, `next` |
| `objc_array_create` in a field that is NULL | `TestField`, `CreateArray`; it leaves `last` unwritten (`array.c:24`, and the memory is not cleared): `Wild` until the first append |
| look for the name before appending (`objc_class_add_ivar`, `objc_class_add_category`) | `CheckFirst`, `CheckWalk` with `UniqueNames` |
| `array_add` | `AppendLock` to `AppendUnlock`, one action per store |
| list getters of `class.c` and `categs.c` | `BeginRead` to `ReadReturn`, bounded by what was counted (`Bounded`) |
| `_methods_copy_to_list` | the same, unbounded, `Width` entries in an item |

`log[a]` is a history: the items in the order their nodes were linked.
`ImplementsAppendLog` lets an append take effect where it links its node, or
meets its name, and a getter where its count meets the end of the list.

### Dispatch

A class is its two method lists (`own[c][k]`), its categories (`cats[c]`) and its
two caches (`cache[c][k]`); `k` is `"instance"` or `"class"`. A call site with an
inline cache is `inline[x]`. `Resolve` is the climb: in each class the extensions
come before its own list, the first method found wins. It is defined without
recursion, by the nearest class of `Lineage[c]` that answers, so that it can be
proved about.

| Code | Model |
|---|---|
| `_lookup_method` | `LookupMethod`: `Found`, `Forwarded`, `Dropped`, `NotUnderstood` |
| `_lookup_method_super` | `LookupSuper` (a found method changes nothing and is not a step) |
| nil receiver | `LookupNil` |
| `OBJC_GET_IMP`, complete caching | `InlineHit`, `Send` (a hit changes nothing) |
| `_add_class_methods`, `_add_instance_methods` | `AddMethods` with `SuperImplements`, `FlushSubtree` |
| `objc_class_replace_*` | `ReplaceExisting`, `ReplaceMissing` |
| `objc_class_add_category` | `AddCategory` |
| `objc_class_flush_*` | `FlushCaches` |
| abort, or a call without a defined result | `outcome`, after which nothing happens |

The forwarding methods are code of the user: the model lets them name any method
or decline. Which of the two selectors `class.c` has registered is state
(`known`), because the test against infinite forwarding only works once it has.
A method is attached once. The whole call is one action: this module is about
the order of calls. `ConcurrentDispatch` takes four of them apart, the look-up
(`LoadCache`, `Fetch`, `Climb`, `TestCache`, `CreateCache`, `ReloadCache`,
`InsertCache`), the addition of an instance method (`AppendMethod`, `AskSuper`)
and the flush (`FlushTest`, `FlushLoad`, `FlushStore`, `FlushDestroy`). The caching tests `*cache`,
may create it, and loads it again for the insert; the flush tests it and loads it
again to keep it; each of these is an action, since another thread may have stored
a cache, or NULL, in between. `current[t]` collects the methods that would have been right
at an instant of the look-up of t.

### Class registry

Creation and registration hold the run-time lock from the look-up of the name to
the end; `objc_class_finish`, `objc_class_add_ivar` and `objc_class_for_name` hold none. A
prototype becomes a class in place, its selectors are registered on the way.

| Code | Model |
|---|---|
| `objc_class_create` | `BeginCreate`, `CreateLookup`, `CreateFill`, `Insert`, `AppendToList`, `CreateUnlock` |
| `objc_class_add_ivar` | `AddIvar`: offset, alignment, new size |
| `objc_class_finish` | `BeginFinish`, `Extend`, `FinishFlag` |
| `objc_class_register_prototypes` | `BeginRegister`, `RegisterNext`, then `Validate` to `AppendToList` for each, `RegisterUnlock` |
| `_validate_prototype` | `Valid`: the name is free and the superclass is there, and the prototype is not `Malformed` (no name, a cache set, a version too new); a valid one of an older version (`Outdated`) aborts the program (`class.c:909`) |
| `objc_selector_register` | `SelectorLookup`, `SelectorLookupAgain`, `SelectorInsert` |
| `objc_class_for_name` | `BeginFind`, `FindLookup`, `FindFlag`, `FindReturn` |

`ImplementsRegistry` maps it to `Registry`: a class is named where it is inserted
into the holder and finished where its flag is cleared; a look-up takes effect at
the look-up if it finds nothing, otherwise at the test of the flag.

### Run-time start

`objc_runtime_init` is `BeginInit` to `ClearInitializing`, access by access, with
one step per initializer and per structure it creates; the setters are
`SetPointer`, `SetSetup` and `SetNullSetup` (a NULL setup aborts as soon as there is
a function to abort with, and is ignored before), `objc_runtime_register_initializer` is
`RegisterInitializer`, `objc_class_add_extension` is `AddExtension`. The function
pointers that belong to one structure are one slot of `setup`. `made[s]` records
by whose implementation structure `s` was created. `Early` are the threads that
may call anything before the flag is set.

### Objects

The memory of an object is a function from word offsets to words: isa, the retain
count, the ivars, then from `InstanceSize[isa]` on the space of the extensions.
`_extra_object_space_for_extensions` is `SizeTest` to `SizeReturn` (it sums up
in the static variable that caches the result), `objc_class_create_instance` ends
in `Make`, `objc_object_copy` is `BeginCopy` to `CopyMemory`,
`objc_object_set_class` is `SetClass`, `objc_object_set_variable` is
`SetVariable`, `-retain` and `-release` are `Retain`, `Release` and `CountTest`,
deallocation is `DestroyTable` to `FreeObject`, and `objc_object_get_associated_object` and
`objc_object_set_associated_object` are `BeginGet` to `GetReturn` and `BeginSet` to `SetNext`.
The size that `objc_object_deallocate` computes (`class.c:1227`) counts the
extension area twice; it only serves to choose a deallocator and is left out.

## Fairness

`Holder`, `ObjcArray`, `ConcurrentDispatch`, `ClassRegistry`, `RuntimeInit` and
`Objects` state `WF_vars(Step(t))` for every thread `t`, where `Step(t)` are the
steps of a call that has begun: a thread inside a function keeps running, which
is what an operating system gives it. Beginning a call is never fair, and neither
is finishing a class or handing an object over: nobody has to use the run-time.
No strong fairness is assumed, so no lock is promised to a thread that waits
while others take it again and again. The inserts and appends of the models still
get their lock, because every other thread takes it boundedly often; of the
run-time lock, `LockIsGivenBack` only says that its holder gives it back.
`AtomicHolder` and `AppendLog` state weak fairness of taking effect and of
returning, which the detailed modules are shown to implement; `Registry` and
`Dispatch` state none.

## Runs

Each run asks one question; all but the last find no error. For each of their
properties `PROJECT.json` names a plausible bug (a dropped guard, a missing
version bump, a swapped order) under which TLC finds the property violated.

| Run | Question | Properties |
|---|---|---|
| `HolderShared` | do two inserters and a reader of one bucket see a set that grows atomically? | `NoDuplicate`, `AckedReachable`, `ImplementsAtomicHolder` |
| `HolderCold` | the same of a holder without buckets, one inserter and one reader | `ImplementsAtomicHolder` |
| `HolderDestroy` | is a cache in use taken down without hurting its reader or losing an insert, and is it freed in the end? | `TypeOK`, `AckedReachable`, `ReaderKeepsMemory`, `MarkedIsFreed` |
| `ArrayLists` | do two appenders and a getter see one log, in bounds? | `TypeOK`, `ChainIsLog`, `CopiesInBounds`, `ImplementsAppendLog` |
| `DispatchCoherent` | do caches and call sites answer what the climb would, after every addition, replacement and category? | `TypeOK`, `CacheCoherent`, `InlineCoherent`, `FirstAttachedWins` |
| `DispatchForward` | do forwarded and dropped messages leave the caches right? | `CacheCoherent` |
| `DispatchThreads` | do caches stay right when a look-up meets an addition or a flush elsewhere in the tree? | `TypeOK`, `AnswerIsCurrent`, `CachesCurrent`, `CachesIntact`, `LookupsEnd` |
| `RuntimeStart` | does one start make every structure once, run every initializer, and place the extensions? | `TypeOK`, `MadeOnce`, `AllPerformed`, `AreasApart`, `InitReturns` |
| `ClassRegistry` | do creation, registration of prototypes and look-ups by two threads act as a map from names to classes? | `TypeOK`, `ListIsHolder`, `IvarsApart`, `FoundIsComplete`, `SelectorsUnique`, `ImplementsRegistry`, `LockIsGivenBack` |
| `ObjectLife` | do objects with associated values keep their words and get freed once? | `TypeOK`, `AreasInside`, `WordsKept`, `FreedOnce`, `RefsCounted`, `GetsAreCurrent` |
| `DispatchFlush` | can the caches of a class be flushed when subclasses have caches? No: violated | `FlushSucceeds` |

`DispatchFlush` is a bug of the code. `class.c:395` says that
`_flush_caches_of_subclasses_of_class` "Goes through the class list and flushes
cache of each subclass of cl.", but at `class.c:406` it passes the cache, where
`_flush_cache` takes the address of the pointer to it: a subclass without a cache
aborts the program, and one with a cache has its memory read as if it were that
pointer. `DispatchCoherent` therefore looks at calls up to such an abort.

### Bounds, and why they are enough

- `MCHolder`: three objects in one bucket, two of them with one key, and a second
  bucket that stays empty. Buckets do not interact except through the lock and
  the allocation, and what can go wrong in a list is a lost node, a double node
  or a wrong order, for which three nodes do. The counter is taken modulo
  `ReaderMod = 4` instead of 2^32, with at most three readers in it.
- `MCArray`: three appends by one thread, of which the second must be refused for
  its name, one by another, and a getter: an append before the count, between
  count and copy, and after.
- `MCDispatch`: the chain C, B, A of the scenario in `chap6.tex`: a class between
  the one that changes and the one that is asked. A method that nobody has
  attached yet and a category that is yet to come override what is cached.
  `MaxVersion = 2` caps the version of a method, so that a call site can be
  outdated twice; it is 1, with no call site, in the run about forwarding.
- `MCConcurrent`: A with two subclasses; t1 and t2 look up in C, only t2
  touches D, and t2 adds to A what nothing implements. Three caches, so that each
  class can have one, or one that was flushed can be replaced.
- `MCRegistry`: the two prototypes of `classes/MRObjects.c` with their layout on
  a 32-bit machine, a class created at run time, another one that wants the
  name of a prototype, a batch that starts with a malformed prototype, and one
  prototype of an older version.
- `MCRuntime`: the three initializers of `extras/` and one that a user writes,
  with room for three (`MaxInitializers`, 32 in `runtime.c`), so that the table
  gets full, in every order.
- `MCObjects`: two objects, one associated table at a time, two keys in one
  bucket, `Buckets = 1` instead of `AO_HASH_MAP_BUCKET_COUNT`, at most `MaxHeld = 1`
  reference more than the first one, and `Spaces` of two extensions, of which the
  second is the one with the table.

`CHECK_DEADLOCK FALSE` stands where the system may stop: when there is nothing
left to append or to create, when an abort has ended the program, or when a holder
has been destroyed.

Which calls a run makes is a matter of its constants: `Creators` (who may be the
first to append to a field), `UniqueNames`, `FirstSizers` (who creates the first
object), `Setters` (who sets associated values), `Swaps` (which class an object
may change to), `CopyAssociated` (is an object with associated values copied),
`Early` (who may be in the run-time before it is initialized), `Looks`, `Adds`
and `Flushes` (who looks up in, adds to and flushes which class), `Registrars` and
`Finders`, `Bounded` (who copies no more than it counted). Where a run needs such
a restriction, the code needs its callers to obey it, and nearly always does
not say so; the section on departures shows what happens otherwise.

## Proofs

TLAPS checks the following for all values of the constants: any number of
threads, objects, classes and methods, any hierarchy, any hash, any layout. Each
theorem rests on the assumptions that its module states about its constants
(`HolderAssumption`, `ArrayAssumption`, ...), which TLC evaluates in every run,
and, where the third column says so, on an obligation that the code leaves to its
callers. The fourth column names a config that breaks the obligation: TLC then
finds the property violated, or the property of an earlier theorem that it rests on.
In `ObjectSize` and `ObjectSetClass`, for instance, words are used that lie outside the
memory of an object; neither the code nor the model gives them a value, so no theorem
about counts, tables or words can do without the obligations of `AreasStayInside`.
A site that meets classes and instances, or a forwarded message, outdates inline
caches by the hazards at `testing.h:332` and `class.c:751`.

| Module | Theorem | Establishes | Needed, as shown by |
|---|---|---|---|
| `HolderProofs` | `TypeCorrect` | `TypeOK` | |
| | `NeverLinkedTwice` | `NoDuplicate` | |
| | `InsertsAreKept` | `AckedReachable`, of a holder that starts with its buckets (`First # NullObj`) | `HolderColdRace` |
| | `ReaderIsWaitedFor` | `ReaderKeepsMemory`, if one thread looks things up (`Fetchers \subseteq {f}`) | `HolderLateReader` |
| | `CallsTakeEffectAtOnce` | the next-state relation of `AtomicHolder` is implemented, by a holder that starts with its buckets and that nobody destroys | `HolderColdRace` |
| `ArrayProofs` | `TypesHold` | `TypeOK` | |
| | `WalkMeetsTheLog` | `ChainIsLog` | |
| | `BoundedCopiesFit` | `CopiesInBounds`, if every reader stops at what it counted and items have one entry | `ArrayFlatten` |
| | `ListIsOneLog` | the next-state relation of `AppendLog` is implemented, if moreover one thread may find no array and, where names are unique, the items of one name come from one thread | `ArrayCreators`, `ArrayNames` |
| `DispatchProofs` | `DispatchTypesHold` | `TypeOK` | |
| | `FirstAttachedAnswers` | `FirstAttachedWins` | |
| | `CachesStayCoherent` | `CacheCoherent`, if methods are only added to instances and categories only attached to leaves (`Flushable`) | `DispatchClassMethods`, `DispatchCategoryOnSuper` |
| | `InlineCachesStayCoherent` | `InlineCoherent`, if moreover nothing is forwarded and a site meets either instances or classes | |
| `ConcurrentProofs` | `ConcurrentTypesHold` | `TypeOK` | |
| | `CachesStayIntact` | `CachesIntact`, if a class whose cache may be flushed has one user (`FlushedByItsUser`) | `ThreadsFlush` |
| | `AnswersAreCurrent` | `AnswerIsCurrent`, if moreover overriding methods go to classes with no subclass in use (`OverridesInLeaves`) | `ThreadsClimb` |
| | `CachesStayCurrent` | `CachesCurrent`, under the same conditions | `ThreadsOverride` |
| `RegistryProofs` | `RegistryTypes` | `TypeOK` | |
| | `NamesAreUnique` | the holder has one class per name | |
| | `ListHasEveryClass` | `ListIsHolder` | |
| | `RegistryIsAtomic` | `ImplementsRegistry`: `ClassRegistry` implements `Registry` | |
| | `OneSelectorForAName` | `SelectorsUnique`, if no name is registered by two threads at once (`SelectorsOfOne`) | `RegistrySelectors` |
| | `FoundClassesAreComplete` | `FoundIsComplete`, if prototypes inherit from prototypes (`SupersArePrototypes`) | `RegistryUnfinishedSuper` |
| | `IvarsStayApart` | `IvarsApart`, if moreover the prototypes have no padding (`Dense`) | `RegistryUnfinishedSuper`, `RegistryPadding` |
| `RuntimeProofs` | `RuntimeTypes` | `TypeOK` | |
| | `OneStarter` | the structure of a start, by one early thread (`Early \subseteq {e}`, as in the next four) | `RuntimeRace` |
| | `StructuresMadeOnce` | `MadeOnce` | `RuntimeRace` |
| | `InitializersPerformed` | `AllPerformed` | `RuntimeRace` |
| | `NoNullIsUsed` | `NoNullStructure`: no step uses a structure that is not there | `RuntimeRace` |
| | `ExtensionAreasApart` | `AreasApart` | `RuntimeRace` |
| `ObjectProofs` | `AreasStayInside` | `AreasInside`, if one thread makes the first instance and an object only changes to a class of its size (`OneFirstSizer`, `SwapsKeepSize`) | `ObjectSize`, `ObjectSetClass` |
| | `ReferencesAreCounted` | `RefsCounted`, under the same conditions | `ObjectSize`, `ObjectSetClass` |
| | `ObjectTypesHold` | `TypeOK`, if moreover one thread associates (`OneSetter`) and no object with associations is copied (`~CopyAssociated`) | `ObjectSetters`, `ObjectCopy` |
| | `FreedAtMostOnce` | `FreedOnce`, under those conditions | `ObjectCopy` |
| | `WordsStay` | `WordsKept`, under those conditions | `ObjectSetters`, `ObjectCopy` |
| | `GetsStayCurrent` | `GetsAreCurrent`, under those conditions | `ObjectSetters`, `ObjectCopy` |

How the arguments go:

- **Holder, its lists.** An insert that scanned a list without the lock must not
  link an object that another insert linked meanwhile; what saves it is the second
  scan with the lock. `ListInv` says that the lock has its owner (`LockHeld`), that
  who is about to link a node has scanned all of the list as it is now
  (`NewNodeIsNew`), and that buckets once allocated stay (`WarmInv`).
- **Holder, one reader.** `mark` is set after the pointer is taken from the class, so
  a marked holder gets no new call. `OneReader` adds that between its increment
  and its decrement the one reader has counted itself and nobody else, so a load
  and a store are as good as an atomic increment, and that whoever frees the lists
  has seen the mark and a reader that is not reading. The second reader of
  `HolderLateReader` breaks the last part: it has the pointer and is not counted.
- **Holder, at one instant.** Beside `ListInv` the refinement needs that an object is
  in the bucket of its hash and that a look-up has no result before its walk
  (`Extra`). An insert takes effect where it links its node, or at the load of a
  list that has its object; a look-up at its load of the head, since what it walks
  is the list as it was then. One lemma for each abstract action says what the call of the
  thread must look like before and after; each step of `Holder` is then one of
  them or leaves every abstract call alone.
- **Array.** An append links its node to `first` or to the last node, and then
  moves `last`. The invariant relates the three: nodes not yet linked are nowhere in
  a list (fresh and apart), `last` is the end of the log except while the owner
  of the lock is between its two stores, and `next` of each node is the node logged
  after it, or free.
- **Array, one log.** A getter may return later than the appends that it has not
  seen, so its answer is that of the instant at which its count met the end.
  `WalkPlace` says where a walk stands: behind as many nodes as it has counted, its
  copy the beginning of the list. An append leaves both true (`PlaceGrows`), as it
  changes no prefix, and the copy ends where the count ended because the getter
  stops at it. A search for a name knows that it is not in what it has passed
  (`NamePlace`); between the search and the link only the thread itself could add
  the name, which is the obligation that `ArrayNames` breaks.
- **Dispatch.** A class answers with its nearest ancestor that has a method, which
  a well-founded minimum over the inheritance order gives. When a class gets a
  method that overrides one above, the flush must reach every class whose nearest
  ancestor changes: the subtree of the class. When it does not override, no cache
  below has an entry for the selector, because a cache only holds what some
  class implements. For call sites the invariant is `AllBacked`: an entry that
  would be trusted now, of the right class and version, is also in the
  cache of the class, so whatever keeps the cache right keeps the site right.
- **Dispatch, by threads.** `Owned` follows each cache: it belongs to one class as long
  as any thread has a pointer to it, and it is gone only after its one flusher has
  taken it away. `Coherent` says that a cache holds what the climb would find unless
  its flush is pending, and, for a thread that is about to cache, that what it has
  is still right. `Climbs` is about answers: either no class that the climb has
  passed answers by now, or nothing further up ever will and there was an instant
  at which nothing did. The lemmas on lists and climbs reduce an addition to three
  cases: the selector had no answer, the addition overrides, or the class is not
  on the climb.
- **Registry, its map.** With the run-time lock held, a name that was not found is
  still free (`Builds`), and the list misses exactly the class that its owner has
  inserted and not yet appended (`Missing`). For the refinement, two facts are
  added: what is being built is in construction, and what a look-up found is in
  the map under the name that it was asked for.
- **Registry, its classes.** `Built` adds the types of the structures, what is known of the
  class of each thread (`At`) and of each class (`ClassOk`). Nothing locks a class
  that is created and then finished, so that the argument is one of ownership: a
  prototype is used by the owner of the run-time lock, another class by its builder
  (`OneUser`), and finished classes do not change. That a found class is complete
  then follows for the class itself, and for its superclass by `SupersDone`. Ivars
  lie apart because each ends where the next may begin (`Laid`), up through the
  superclasses; for a prototype, whose offsets are the compiler's, because the sums of its
  sizes are those offsets (`Dense`). The superclasses of a class are the least set
  that is closed under `super`, which needs no recursion.
- **Run-time start.** Every position of `objc_runtime_init` comes with the
  structures that exist (`MadeAt`) and the initializers that ran before it
  (`FirstRan`). `Placed` says that the areas of extensions lie apart from the moment at
  which the start goes on to the holder of classes: the offsets are stored
  before, and no extension is accepted after. Each offset is a sum of spaces
  before it, and sums do not fall (`SumProofs`).
- **Objects, memory and counts.** The size that a thread allocates is the cached sum, and that
  is 0, complete, or being added up by the one first caller (`Sizes`). A reference is
  owned by a thread; the count of an object is the number of those pairs, which are
  taken away and added one at a time, and an object with count 0 has exactly one
  thread to end it (`RefsOf`).
- **Objects, associations.** A table has one object and one that frees it (`Apart`); a thread at work
  knows the table its object has (`Place`); a bucket has one node for each key
  (`Chains`) and a walk has not met its key yet (`Walk`), so that what it finds,
  or appends, is the association of the key. With one setter, a getter that found no
  table or no node is right about the instant at which it looked.
- **Sums.** tlapm knows a recursive function only as the choice of one that
  satisfies its equation; `SumProofs` shows by a least counterexample that there is
  one, and that it is monotone.

Only model-checked: everything about liveness (`MarkedIsFreed`, `LookupsEnd`,
`InitReturns`, `LockIsGivenBack`, and the fairness of `ImplementsAtomicHolder` and
`ImplementsAppendLog`, whose initial states and steps are proved), which is out
of reach of TLAPS; and `ImplementsAtomicHolder` of a holder whose buckets are
still to be allocated by its only inserter (`HolderCold`). Not proved because it
does not hold: `DeallocatedOnce`, even with one reader (`HolderFreedTwice`), `ReadersExact`
(`HolderCounter`; of one reader it says nothing about lost updates),
`TableIsFreed` (`ObjectFinalize`) and `FlushSucceeds` (`DispatchFlush`).

## Where the code departs from what it promises

The files below stand beside the runs. Each is a run with one caller more than the
passing ones, or one case more, and TLC finds the property violated. They are the
other half of the restrictions above; use them to see a change to the code through.
`tlc -continue` reports both properties of `RuntimeRace`.
Load `<prefix>*.cfg` with `MCHolder`, `MCArray`, `MCDispatch`, `MCConcurrent`
(`Threads*`), `MCRegistry`, `MCRuntime` or `MCObjects`.

| Config | Property | What happens |
|---|---|---|
| `HolderColdRace` | `AckedReachable` | two first inserts both allocate the buckets (`holder.c:167`) and one is lost; `ftypes.h:65`: "The class holder should be a lockable structure, allowing access from multiple threads." |
| `HolderFreedTwice` | `DeallocatedOnce` | the last reader and the destroyer both deallocate (`holder.c:228`); `chap7.tex:268`: "Otherwise, the last reader to leave the cache structure is responsible for deallocating the structure." |
| `HolderLateReader` | `ReaderKeepsMemory` | a reader that has the pointer and has not counted itself yet (`holder.c:218`) walks freed buckets |
| `HolderCounter` | `ReadersExact` | `++readers` and `--readers` (`holder.c:215`) are not atomic and lose counts |
| `DispatchClassMethods` | `CacheCoherent` | adding class methods asks whether the superclass implements an instance method (`class.c:433`): nothing is flushed |
| `DispatchCategoryOnSuper` | `CacheCoherent` | attaching a category flushes nothing below the class (`categs.c:45`) |
| `DispatchFlush` | `FlushSucceeds` | see Runs |
| `ThreadsFlush` | `CachesIntact` | the cache is flushed between two loads of the pointer to it by a look-up (`class.c:231`): NULL, or a destroyed cache, is used |
| `ThreadsOverride` | `CachesCurrent` | a look-up that began before an override caches the old method after the flush (`class.c:736`) |
| `ThreadsClimb` | `AnswerIsCurrent` | with methods for one selector added to a class and to its superclass, a climb (`class.c:295`) passes the class before the first and meets the superclass after the second: it answers what was never right |
| `ArrayFlatten` | `CopiesInBounds` | `_methods_copy_to_list` copies more than was counted (`method.c:52`) |
| `ArrayCreators` | `ImplementsAppendLog` | two first appenders both create the list of a class (`class.c:1405`, `categs.c:35`), and one append is lost |
| `ArrayNames` | `ImplementsAppendLog` | two threads look for one name, neither finds it, and both append (`categs.c:39`) |
| `RuntimeRace` | `MadeOnce` | two threads initialize at once (`runtime.c:162`) |
| | `NoNullStructure` | or a second thread is told that the run-time is being initialized (`runtime.c:162`), returns, and looks a class up before there is a class holder |
| `RegistryUnfinishedSuper` | `IvarsApart` | a prototype whose superclass is in construction is accepted (so a look-up finds a class that is not complete, `FoundIsComplete`); the superclass then grows into its ivars (`class.c:842`; `objc_class_create` refuses one, for the reason given at `class.c:1083`) |
| `RegistrySelectors` | `SelectorsUnique` | two threads register one name, and there are two `SEL`s for it (`selector.c:10`) |
| `RegistryPadding` | `IvarsApart` | the size of a prototype is the sum of the sizes of its ivars (`class.c:883`): padding is not counted |
| `ObjectFinalize` | `TableIsFreed` | the destructor of the table reads through an empty bucket, and leaves the last node of a full one behind (`ao-ext.c:24`); `classext.h:65` has it free them |
| `ObjectSetClass` | `AreasInside` | a class with larger instances moves the extension area out of the memory (`class.c:1191`) |
| `ObjectSize` | `AreasInside` | two threads sum up the static size of extensions at once (`class.c:111`) |
| `ObjectCopy` | `FreedOnce` | a copy shares the table of associated objects (`class.c:1261`) |
| `ObjectSetters` | `WordsKept` | two threads create the table of one object (`ao-ext.c:128`) |

By reading alone: `objc_class_replace_*` returns the new implementation
(`class.c:1037`), where `class.h:47` promises the old one; and the version of a
forwarded method is bumped before the call site records it (`class.c:751`), so
that the entry looks valid.

## Plan, and what is left

The order was: the holder; dispatch, on the promise of the holder; the array; the
start of the run-time; the registry; objects; and dispatch again, by threads.
Each is checked first and proved about where the provers reach. Left:

- the proof that a holder without buckets, with one inserter, implements
  `AtomicHolder`, and that its inserts are kept; `HolderCold` checks it;
- extension initializers and destructors of objects beyond those of
  `ao-ext.c`, of which the repository has none.

## Not modelled

- `extras/array-inline.h` and `extras/holder-inline.h`: the same functions as
  inline code, chosen by a build option. The first is `array.c`; the second is
  `holder.c` without the bump of the versions, which is among the mutants of
  `Dispatch` and `Holder`.
- `array_destroy`, which nothing calls.
- `extras/posix.c`: wrappers of pthread read-write locks and of malloc, used as
  atomic operations. Allocations are taken to succeed: no result is tested.
- `compatibility.c`, which renames functions, and `utils.h`, `types.h`, whose
  declarations and string functions have no state.
- Tests and benchmarks (`src/run-time/test`) and the thesis, which are read and quoted but are not the program.
- Weak memory: a pointer is seen when it is stored. The code has no barriers, so
  on hardware that reorders stores the modules show a best case.
