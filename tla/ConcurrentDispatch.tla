-------------------------- MODULE ConcurrentDispatch --------------------------
(***************************************************************************)
(* Method look-up in class.c by several threads, while methods are added   *)
(* and caches are flushed.  Dispatch runs every call to its end; here one  *)
(* action is one access that another thread can observe: a load or a store *)
(* of the cache pointer of a class, a fetch or an insert in a cache (the   *)
(* holder is atomic: Holder), one class of the climb (the walk of a list   *)
(* is atomic: ObjcArray).  Neither the look-up nor the flush takes a lock. *)
(*                                                                         *)
(* Instance methods only; no class has a category.  Following a NULL or    *)
(* destroyed cache is recorded in "fault" and all stops.                   *)
(***************************************************************************)
EXTENDS Naturals, Sequences, FiniteSets

CONSTANTS Threads, Classes, Nil, Super,
          Lineage,   \* Lineage[c]: c and its superclasses
          Methods, NullMethod, Sels, SelOf,
          InitOwn,   \* the method lists of the registered classes
          Caches,    \* caches that can be created
          NullCache,
          Looks,     \* who sends what to instances of which class
          Adds,      \* who adds which method to which class
          Flushes    \* who flushes the cache of what

ASSUME ConcurrentAssumption ==
  /\ IsFiniteSet(Classes) /\ Nil \notin Classes
  /\ Super \in [Classes -> Classes \cup {Nil}]
  /\ Lineage \in [Classes -> SUBSET Classes]
  /\ \A c \in Classes :
       IF Super[c] = Nil THEN Lineage[c] = {c}
       ELSE Lineage[c] = {c} \cup Lineage[Super[c]] /\ c \notin Lineage[Super[c]]
  /\ NullMethod \notin Methods /\ NullCache \notin Caches
  /\ SelOf \in [Methods -> Sels] /\ InitOwn \in [Classes -> Seq(Methods)]
  /\ Looks \subseteq Threads \X Classes \X Sels
  /\ Flushes \subseteq Threads \X Classes
  /\ Adds \subseteq Threads \X Classes \X Methods

VARIABLES
  own,      \* own[c]: the method list of the class
  cache,    \* cache[c]: its instance_cache, or NullCache
  content,  \* content[h]: the methods in a cache
  created,  \* the caches that have been created
  gone,     \* gone[h]: how often the cache was destroyed
  pc, cls, sel,  \* control; the class and the selector of the call
  at,       \* the class the climb has reached
  ptr,      \* a cache pointer that was loaded
  meth,     \* the method found or added
  current,  \* history: what a look-up may answer with
  fault

caches == <<cache, content, created, gone>>
locals == <<cls, sel, at, ptr, meth>>
vars == <<own, caches, pc, locals, current, fault>>

LookPCs == {"l_load", "l_fetch", "l_climb", "l_null", "l_create", "l_reload",
            "l_insert", "l_ret"}
AddPCs == {"a_append", "a_super"}
FlushPCs == {"f_test", "f_load", "f_store", "f_destroy"}

Goto(t, l) == pc' = [pc EXCEPT ![t] = l]
Set(f, t, v) == [f EXCEPT ![t] = v]
Leave(t) == /\ Goto(t, "idle")
            /\ cls' = Set(cls, t, Nil) /\ at' = Set(at, t, Nil)
            /\ sel' = Set(sel, t, Nil)
            /\ ptr' = Set(ptr, t, NullCache) /\ meth' = Set(meth, t, NullMethod)
Faulted(what) == fault' = what /\ UNCHANGED <<own, caches, pc, locals, current>>

Least(I) == CHOOSE i \in I : \A j \in I : i <= j

(* _lookup_method_in_method_list *)
MatchIn(list, s) ==
  IF \A i \in DOMAIN list : SelOf[list[i]] # s THEN NullMethod
  ELSE list[Least({i \in DOMAIN list : SelOf[list[i]] = s})]

(* What the climb from c finds if the lists are those of "lists". *)
Resolve(lists, c, s) ==
  IF \A a \in Lineage[c] : MatchIn(lists[a], s) = NullMethod THEN NullMethod
  ELSE MatchIn(lists[CHOOSE a \in Lineage[c] :
                 /\ MatchIn(lists[a], s) # NullMethod
                 /\ \A b \in Lineage[c] :
                      b \in Lineage[a] \/ MatchIn(lists[b], s) = NullMethod], s)

Init ==
  /\ own = InitOwn
  /\ cache = [c \in Classes |-> NullCache]
  /\ content = [h \in Caches |-> {}] /\ created = {}
  /\ gone = [h \in Caches |-> 0]
  /\ pc = [t \in Threads |-> "idle"]
  /\ cls = [t \in Threads |-> Nil] /\ sel = [t \in Threads |-> Nil]
  /\ at = [t \in Threads |-> Nil] /\ ptr = [t \in Threads |-> NullCache]
  /\ meth = [t \in Threads |-> NullMethod]
  /\ current = [t \in Threads |-> {}]
  /\ fault = "none"

-----------------------------------------------------------------------------
(* _lookup_method *)

(* The pool of caches is a bound: a call reserves the one it may create.   *)
CachesLeft == Cardinality({t \in Threads : pc[t] \in LookPCs})
                < Cardinality(Caches \ created)

BeginLookup(t, c, s) ==
  /\ pc[t] = "idle" /\ <<t, c, s>> \in Looks
  /\ cache[c] # NullCache \/ CachesLeft
  /\ cls' = Set(cls, t, c) /\ sel' = Set(sel, t, s)
  /\ current' = Set(current, t, {Resolve(own, c, s)})
  /\ Goto(t, "l_load")
  /\ UNCHANGED <<own, caches, at, ptr, meth, fault>>

NeverNull(h) == FALSE
NoCacheYet(h) == h = NullCache

(* _lookup_cached_method gets the pointer. *)
LoadCache(t) ==
  /\ pc[t] = "l_load"
  /\ ptr' = Set(ptr, t, cache[cls[t]])
  /\ at' = Set(at, t, cls[t])
  /\ Goto(t, IF NoCacheYet(cache[cls[t]]) THEN "l_climb" ELSE "l_fetch")
  /\ UNCHANGED <<own, caches, cls, sel, meth, current, fault>>

AnyCached(h, s) == content[h]
HitsIn(h, s) == {m \in content[h] : SelOf[m] = s}

Fetch(t) ==
  /\ pc[t] = "l_fetch"
  /\ IF gone[ptr[t]] > 0 THEN Faulted("destroyed_cache")
     ELSE /\ \/ /\ \E m \in HitsIn(ptr[t], sel[t]) : meth' = Set(meth, t, m)
                /\ Goto(t, "l_ret")
             \/ /\ HitsIn(ptr[t], sel[t]) = {}
                /\ UNCHANGED meth
                /\ Goto(t, "l_climb")
          /\ UNCHANGED <<own, caches, cls, sel, at, ptr, current, fault>>

SameClass(c) == c
NextClass(c) == Super[c]

(* One class of the climb. *)
Climb(t) ==
  /\ pc[t] = "l_climb"
  /\ LET m == MatchIn(own[at[t]], sel[t])
     IN  /\ meth' = Set(meth, t, m)
         /\ at' = IF m = NullMethod THEN Set(at, t, NextClass(at[t])) ELSE at
         /\ Goto(t, IF m # NullMethod THEN "l_null"
                    ELSE IF NextClass(at[t]) = Nil THEN "l_ret" ELSE "l_climb")
  /\ UNCHANGED <<own, caches, cls, sel, ptr, current, fault>>

(* _cache_method: it tests the pointer, creates the cache if that is NULL, *)
(* and reads the pointer again: what another thread has created meanwhile, *)
(* or is still to create, may be lost, with what was inserted there.       *)
TestCache(t) ==
  /\ pc[t] = "l_null"
  /\ Goto(t, IF cache[cls[t]] = NullCache THEN "l_create" ELSE "l_reload")
  /\ UNCHANGED <<own, caches, locals, current, fault>>

CreateCache(t) ==
  /\ pc[t] = "l_create"
  /\ \E h \in Caches \ created :
       /\ h = CHOOSE g \in Caches \ created : TRUE
       /\ created' = created \cup {h}
       /\ cache' = [cache EXCEPT ![cls[t]] = h]
  /\ Goto(t, "l_reload")
  /\ UNCHANGED <<own, content, gone, locals, current, fault>>

ReloadCache(t) ==
  /\ pc[t] = "l_reload"
  /\ ptr' = Set(ptr, t, cache[cls[t]])
  /\ Goto(t, "l_insert")
  /\ UNCHANGED <<own, caches, cls, sel, at, meth, current, fault>>

InsertCache(t) ==
  /\ pc[t] = "l_insert"
  /\ IF ptr[t] = NullCache THEN Faulted("null_cache")
     ELSE IF gone[ptr[t]] > 0 THEN Faulted("destroyed_cache")
     ELSE /\ content' = [content EXCEPT ![ptr[t]] = @ \cup {meth[t]}]
          /\ Goto(t, "l_ret")
          /\ UNCHANGED <<own, cache, created, gone, locals, current, fault>>

(* The method is returned, or there is none and forwarding begins. *)
ReturnMethod(t) ==
  /\ pc[t] = "l_ret"
  /\ current' = Set(current, t, {})
  /\ Leave(t)
  /\ UNCHANGED <<own, caches, fault>>

-----------------------------------------------------------------------------
(* _add_instance_methods *)

Attached == UNION {{own[c][i] : i \in DOMAIN own[c]} : c \in Classes}

BeginAdd(t, c, m) ==
  /\ pc[t] = "idle" /\ <<t, c, m>> \in Adds
  /\ m \notin Attached /\ \A u \in Threads : meth[u] # m
  /\ cls' = Set(cls, t, c) /\ meth' = Set(meth, t, m)
  /\ Goto(t, "a_append")
  /\ UNCHANGED <<own, caches, sel, at, ptr, current, fault>>

AppendMethod(t) ==
  /\ pc[t] = "a_append"
  /\ own' = [own EXCEPT ![cls[t]] = Append(@, meth[t])]
  /\ current' = [u \in Threads |->
       IF pc[u] \in LookPCs THEN current[u] \cup {Resolve(own', cls[u], sel[u])}
       ELSE current[u]]
  /\ Goto(t, "a_super")
  /\ UNCHANGED <<caches, locals, fault>>

(* If a superclass implements the selector, the caches that may hold its   *)
(* method are flushed: here of a class without subclasses (Dispatch has    *)
(* what happens if there are some).                                        *)
NeverOverrides(c, m) == FALSE
Overrides(c, m) ==
  Super[c] # Nil /\ Resolve(own, Super[c], SelOf[m]) # NullMethod

AskSuper(t) ==
  /\ pc[t] = "a_super"
  /\ IF Overrides(cls[t], meth[t])
     THEN Goto(t, "f_test") /\ UNCHANGED locals ELSE Leave(t)
  /\ UNCHANGED <<own, caches, current, fault>>

(* objc_class_flush_instance_cache, _flush_cache *)
BeginFlush(t, c) ==
  /\ pc[t] = "idle" /\ <<t, c>> \in Flushes
  /\ cls' = Set(cls, t, c)
  /\ Goto(t, "f_test")
  /\ UNCHANGED <<own, caches, sel, at, ptr, meth, current, fault>>

(* _flush_cache reads the pointer to test it and again to keep it.         *)
FlushTest(t) ==
  /\ pc[t] = "f_test"
  /\ IF cache[cls[t]] = NullCache
     THEN Leave(t) ELSE Goto(t, "f_load") /\ UNCHANGED locals
  /\ UNCHANGED <<own, caches, current, fault>>

FlushLoad(t) ==
  /\ pc[t] = "f_load"
  /\ ptr' = Set(ptr, t, cache[cls[t]])
  /\ Goto(t, "f_store")
  /\ UNCHANGED <<own, caches, cls, sel, at, meth, current, fault>>

StillCache(h) == h
Detached(h) == NullCache

FlushStore(t) ==
  /\ pc[t] = "f_store"
  /\ cache' = [cache EXCEPT ![cls[t]] = Detached(@)]
  /\ Goto(t, "f_destroy")
  /\ UNCHANGED <<own, content, created, gone, locals, current, fault>>

FlushDestroy(t) ==
  /\ pc[t] = "f_destroy"
  /\ IF ptr[t] = NullCache THEN Faulted("null_cache")
     ELSE /\ gone' = [gone EXCEPT ![ptr[t]] = @ + 1]
          /\ content' = [content EXCEPT ![ptr[t]] = {}]
          /\ Leave(t)
          /\ UNCHANGED <<own, cache, created, current, fault>>

-----------------------------------------------------------------------------
Step(t) ==
  /\ fault = "none"
  /\ \/ LoadCache(t) \/ Fetch(t) \/ Climb(t) \/ TestCache(t) \/ CreateCache(t)
     \/ ReloadCache(t) \/ InsertCache(t) \/ ReturnMethod(t)
     \/ AppendMethod(t) \/ AskSuper(t)
     \/ FlushTest(t) \/ FlushLoad(t) \/ FlushStore(t) \/ FlushDestroy(t)

Begin(t) ==
  /\ fault = "none"
  /\ \/ \E c \in Classes, s \in Sels : BeginLookup(t, c, s)
     \/ \E c \in Classes, m \in Methods : BeginAdd(t, c, m)
     \/ \E c \in Classes : BeginFlush(t, c)

Next == \E t \in Threads : Begin(t) \/ Step(t)

Spec == Init /\ [][Next]_vars /\ \A t \in Threads : WF_vars(Step(t))

-----------------------------------------------------------------------------
(* Types of the state; a call knows its class, a fetch has a cache to ask, *)
(* and who is about to cache has a method.                                 *)
TypeOK ==
  /\ own \in [Classes -> Seq(Methods)]
  /\ cache \in [Classes -> created \cup {NullCache}] /\ created \subseteq Caches
  /\ content \in [Caches -> SUBSET Methods] /\ gone \in [Caches -> Nat]
  /\ pc \in [Threads -> {"idle"} \cup LookPCs \cup AddPCs \cup FlushPCs]
  /\ cls \in [Threads -> Classes \cup {Nil}] /\ sel \in [Threads -> Sels \cup {Nil}]
  /\ at \in [Threads -> Classes \cup {Nil}]
  /\ ptr \in [Threads -> created \cup {NullCache}]
  /\ meth \in [Threads -> Methods \cup {NullMethod}]
  /\ current \in [Threads -> SUBSET (Methods \cup {NullMethod})]
  /\ fault \in {"none", "null_cache", "destroyed_cache"}
  /\ \A t \in Threads : /\ pc[t] = "idle" <=> cls[t] = Nil
                        /\ pc[t] = "l_fetch" => ptr[t] # NullCache
                        /\ pc[t] \in {"l_null", "l_create", "l_reload", "l_insert"}
                             => meth[t] # NullMethod

(* A look-up answers with a method that was the right one at an instant of *)
(* the call, though it reads the classes one after the other while methods *)
(* are added to them (class.c:295).                                        *)
AnswerIsCurrent == \A t \in Threads : pc[t] = "l_ret" => meth[t] \in current[t]

(* No cache keeps a method that is not the right one any more, except      *)
(* while the thread that has displaced it is about to flush (class.c:736). *)
Displacing(c) == \E t \in Threads : /\ pc[t] \in {"a_super"} \cup FlushPCs
                                    /\ cls[t] \in Lineage[c]
CachesCurrent ==
  \A c \in Classes : cache[c] # NullCache /\ ~Displacing(c) =>
    \A m \in content[cache[c]] : m = Resolve(own, c, SelOf[m])

(* No thread follows a cache pointer that is NULL or of a destroyed cache, *)
(* none is destroyed twice, and none that a class uses (class.c:231, 357). *)
CachesIntact ==
  /\ fault = "none"
  /\ \A h \in Caches : gone[h] <= 1
  /\ \A c \in Classes : cache[c] # NullCache => gone[cache[c]] = 0

(* Every look-up ends, whatever is added or flushed meanwhile: it waits    *)
(* for nobody and climbs no class twice.                                   *)
LookupsEnd ==
  \A t \in Threads : pc[t] \in LookPCs ~> (pc[t] = "idle" \/ fault # "none")
=============================================================================
