------------------------------ MODULE Dispatch ------------------------------
(***************************************************************************)
(* Method dispatch in class.c and extras/categs.c: method lists and        *)
(* categories of a class hierarchy, the look-up that climbs it, the two    *)
(* method caches of each class, the operations that add, replace and flush *)
(* and the inline caches that compiled call sites keep (the OBJC_GET_IMP   *)
(* macro of test/testing.h).  One action is one call of the public         *)
(* interface, run to its end: this module is about what the calls do to    *)
(* each other, not about threads.                                          *)
(*                                                                         *)
(* A class object's isa is the class itself, so an instance of c and c     *)
(* have the same isa; the kind says which of the two caches and lists a    *)
(* message goes to.  Selectors are unique (selector.c), and a cache is the *)
(* set of its methods (Holder.tla).  The classes are finished; a flush     *)
(* finds no reader inside the cache.                                       *)
(***************************************************************************)
EXTENDS Naturals, Sequences

CONSTANTS Classes, Nil, Super,  \* the hierarchy
          Lineage,              \* Lineage[c]: c and its superclasses
          ClassOrder,           \* objc_classes_array: it has every class
          Methods, NullMethod,
          NilMethod,            \* _objc_nil_receiver_method
          Sels, SelOf,
          FwdSel, DropSel,      \* forwardedMethodForSelector:, dropsUnrecognizedMessage:
          InitOwn,              \* method lists of the registered classes
          Categories, CatClass, CatMethods,
          Sites, SiteSel, SiteKinds, \* call sites with an inline cache
          AddKinds,             \* the kinds of list that methods are added to
          NoCache, NoEntry,
          MaxVersion            \* bound on the versions explored

Kinds == {"instance", "class"}

ASSUME DispatchAssumption ==
  /\ Nil \notin Classes
  /\ Super \in [Classes -> Classes \cup {Nil}]
  /\ Lineage \in [Classes -> SUBSET Classes]
  /\ \A c \in Classes : c \in Lineage[c]
  /\ \A c \in Classes :
       IF Super[c] = Nil THEN Lineage[c] = {c}
       ELSE Lineage[c] = {c} \cup Lineage[Super[c]] /\ c \notin Lineage[Super[c]]
  /\ ClassOrder \in Seq(Classes)
  /\ \A c \in Classes : \E i \in DOMAIN ClassOrder : ClassOrder[i] = c
  /\ NullMethod \notin Methods /\ NilMethod \notin Methods
  /\ NullMethod # NilMethod
  /\ SelOf \in [Methods -> Sels]
  /\ InitOwn \in [Classes -> [Kinds -> Seq(Methods)]]
  /\ CatClass \in [Categories -> Classes]
  /\ CatMethods \in [Categories -> [Kinds -> Seq(Methods)]]
  /\ SiteSel \in [Sites -> Sels]
  /\ SiteKinds \in [Sites -> SUBSET Kinds]
  /\ AddKinds \subseteq Kinds
  /\ \A M \in SUBSET Methods : M # NoCache
  /\ MaxVersion \in Nat

VARIABLES
  own,      \* own[c][k]: the method list of the class, in the order appended
  cats,     \* cats[c]: the categories of the class, in the order added
  cache,    \* cache[c][k]: NoCache (NULL) or the methods cached
  version,  \* version[m]: m->version
  inline,   \* inline[x]: the static cache of call site x
  known,    \* which of the two forwarding selectors class.c has registered
  outcome   \* "run", or how the program ended

lists == <<own, cats>>
vars == <<lists, cache, version, inline, known, outcome>>

-----------------------------------------------------------------------------
(* Look-up in the lists. *)

Least(I) == CHOOSE i \in I : \A j \in I : i <= j

(* _lookup_method_in_method_list, _find_method_in_list: the first method   *)
(* of the list with the selector.                                          *)
FirstMatch(seq, s) ==
  IF \A i \in DOMAIN seq : SelOf[seq[i]] # s THEN NullMethod
  ELSE seq[Least({i \in DOMAIN seq : SelOf[seq[i]] = s})]

(* instance_lookup_function, class_lookup_function of the categories *)
CategoryMatch(c, k, s) ==
  LET Has(i) == \E n \in DOMAIN CatMethods[cats[c][i]][k] :
                  SelOf[CatMethods[cats[c][i]][k][n]] = s
  IN  IF \A i \in DOMAIN cats[c] : ~Has(i) THEN NullMethod
      ELSE FirstMatch(CatMethods[cats[c][Least({i \in DOMAIN cats[c] : Has(i)})]][k], s)

OwnListFirst(c, k, s) ==
  IF FirstMatch(own[c][k], s) # NullMethod THEN FirstMatch(own[c][k], s)
  ELSE CategoryMatch(c, k, s)

(* What class c itself offers: its extensions before its own list. *)
Local(c, k, s) ==
  IF CategoryMatch(c, k, s) # NullMethod THEN CategoryMatch(c, k, s)
  ELSE FirstMatch(own[c][k], s)

Answers(a, k, s) == Local(a, k, s) # NullMethod

(* The first class that answers on the climb from c. *)
Owner(c, k, s) ==
  CHOOSE a \in Lineage[c] :
    /\ Answers(a, k, s)
    /\ \A b \in Lineage[c] : b \in Lineage[a] \/ ~Answers(b, k, s)

(* _lookup_class_method, _lookup_instance_method *)
Resolve(c, k, s) ==
  IF \A a \in Lineage[c] : ~Answers(a, k, s) THEN NullMethod
  ELSE Local(Owner(c, k, s), k, s)

-----------------------------------------------------------------------------
(* The caches. *)

(* objc_cache_fetch: the methods it may answer with. *)
Hits(c, k, s) == IF cache[c][k] = NoCache THEN {}
                 ELSE {m \in cache[c][k] : SelOf[m] = s}

(* _cache_method *)
Cached(old, new) == IF old = NoCache THEN new ELSE old \cup new

(* _lookup_cached_method, then the climb. *)
Finds(c, k, s) == IF Hits(c, k, s) # {} THEN Hits(c, k, s)
                  ELSE {Resolve(c, k, s)}

Bumped(M) == [m \in DOMAIN version |->
                IF m \in M THEN version[m] + 1 ELSE version[m]]

KeptVersions(M) == version

(* The versions after a cache that held M is destroyed.                    *)
BumpedByDestroy(M) == Bumped(M)

ContentOf(c, k) == IF cache[c][k] = NoCache THEN {} ELSE cache[c][k]

(* _flush_cache on the caches of c of the kinds K.  No method is in two    *)
(* lists, so none is in both caches of a class.                            *)
Flush(c, K) ==
  /\ cache' = [cache EXCEPT ![c] = [k \in Kinds |->
                 IF k \in K THEN NoCache ELSE cache[c][k]]]
  /\ version' = BumpedByDestroy(UNION {ContentOf(c, k) : k \in K})

(* Versions are explored up to MaxVersion.                                 *)
Bounded == \A m \in DOMAIN version : version[m] < MaxVersion

-----------------------------------------------------------------------------
(* _lookup_method for a receiver whose isa is c; m is the Method returned, *)
(* NullMethod if the program is aborted.                                   *)

AnyPointer(m) == TRUE

IsMethod(m) == m # NullMethod

Found(c, k, s, m) ==
  /\ IsMethod(m) /\ m \in Finds(c, k, s)
  /\ cache' = [cache EXCEPT ![c][k] = Cached(@, {m})]
  /\ UNCHANGED <<version, known, outcome>>

Missing(c, k, s) == Finds(c, k, s) = {NullMethod}

(* The method of the receiver that the forwarding code calls. *)
Asked(c, k, s) == Finds(c, k, s) \ {NullMethod}

CacheAskedInOther(c, k, M) ==
  LET o == IF k = "class" THEN "instance" ELSE "class"
  IN  cache' = [cache EXCEPT ![c][o] = IF M = {} THEN @ ELSE Cached(@, M)]

(* _lookup_*_method_impl: the method called is itself cached. *)
CacheAsked(c, k, M) ==
  cache' = [cache EXCEPT ![c][k] = IF M = {} THEN @ ELSE Cached(@, M)]

(* forwardedMethodForSelector: names a method to call instead.  A selector *)
(* that the forwarding code itself uses is not forwarded, once registered. *)
Forwarded(c, k, s, m) ==
  /\ Bounded
  /\ m \in Methods /\ s \notin known /\ Missing(c, k, s)
  /\ Asked(c, k, FwdSel) # {}
  /\ CacheAsked(c, k, Asked(c, k, FwdSel))
  /\ version' = Bumped({m})
  /\ known' = known \cup {FwdSel}
  /\ UNCHANGED outcome

(* It named none, or is not there, and the message is dropped. *)
Dropped(c, k, s, m) ==
  /\ Bounded
  /\ m = NilMethod /\ s \notin known \cup {FwdSel} /\ Missing(c, k, s)
  /\ Asked(c, k, DropSel) # {}
  /\ CacheAsked(c, k, Asked(c, k, FwdSel) \cup Asked(c, k, DropSel))
  /\ version' = Bumped({NilMethod})
  /\ known' = {FwdSel, DropSel}
  /\ UNCHANGED outcome

(* _forwarding_not_supported_abort: the forwarding methods are absent, or  *)
(* decline.                                                                *)
NotUnderstood(c, k, s, m) ==
  /\ m = NullMethod /\ Missing(c, k, s)
  /\ outcome' = "not_understood"
  /\ UNCHANGED <<cache, version, known>>

LookupMethod(c, k, s, m) ==
  \/ Found(c, k, s, m)
  \/ Forwarded(c, k, s, m)
  \/ Dropped(c, k, s, m)
  \/ NotUnderstood(c, k, s, m)

(* objc_object_lookup_method, objc_object_lookup_impl *)
Lookup(c, k, s) ==
  /\ \E m \in Methods \cup {NilMethod, NullMethod} : LookupMethod(c, k, s, m)
  /\ UNCHANGED <<lists, inline>>

(* objc_object_lookup_method_super, for a method of class c that calls its *)
(* superclass: the caches are not asked, and a message that the receiver   *)
(* would forward is dropped.                                               *)
LookupSuper(c, k, s) ==
  /\ Super[c] # Nil /\ Resolve(Super[c], k, s) = NullMethod
  /\ \/ /\ s \notin known /\ Asked(c, k, FwdSel) # {}
        /\ CacheAsked(c, k, Asked(c, k, FwdSel))
        /\ known' = known \cup {FwdSel}
        /\ UNCHANGED outcome
     \/ /\ outcome' = "not_understood"
        /\ UNCHANGED <<cache, known>>
  /\ UNCHANGED <<lists, version, inline>>

(* The test of a call site with an inline cache. *)
InlineHit(x, c) == /\ inline[x] # NoEntry
                   /\ inline[x].isa = c
                   /\ inline[x].version = version[inline[x].m]

(* A message sent from site x to an instance of c, or to c: on a hit the   *)
(* cached method is called and nothing changes, otherwise the look-up      *)
(* refills the site.                                                       *)
Send(x, c, k) ==
  /\ k \in SiteKinds[x] /\ ~InlineHit(x, c)
  /\ \E m \in Methods \cup {NilMethod, NullMethod} :
       /\ LookupMethod(c, k, SiteSel[x], m)
       /\ inline' = IF m = NullMethod THEN inline
                    ELSE [inline EXCEPT ![x] =
                            [m |-> m, isa |-> c, version |-> version'[m]]]
  /\ UNCHANGED lists

(* A message to nil. *)
LookupNil ==
  /\ Bounded
  /\ version' = Bumped({NilMethod})
  /\ UNCHANGED <<lists, cache, inline, known, outcome>>

-----------------------------------------------------------------------------
(* Changing the classes. *)

(* Methods nobody has attached yet: each is attached once. *)
Attached == UNION {UNION {{own[c][k][i] : i \in DOMAIN own[c][k]} : k \in Kinds}
                   : c \in Classes}
            \cup UNION {UNION {{CatMethods[g][k][i] : i \in DOMAIN CatMethods[g][k]}
                              : k \in Kinds} : g \in Categories}
Unattached == Methods \ Attached

(* Arrays of one or two methods. *)
Batches == {<<m>> : m \in Unattached}
           \cup {<<m, n>> : m \in Unattached, n \in Unattached}

(* _add_methods_to_method_list: behind what is there, duplicates or not. *)
Extended(seq, batch) == seq \o batch

NeverImplemented(c, k, batch) == FALSE

(* _any_method_implemented_by_superclasses: the climb is that of instance  *)
(* methods whatever the kind k.                                            *)
SuperImplements(c, k, batch) ==
  /\ Super[c] # Nil
  /\ \E i \in DOMAIN batch :
       Resolve(Super[c], "instance", SelOf[batch[i]]) # NullMethod

(* Positions of the subclasses of c in the list of all classes. *)
SubclassesAt(c) == {i \in DOMAIN ClassOrder :
                      c \in Lineage[ClassOrder[i]] \ {ClassOrder[i]}}

(* _flush_caches_of_subclasses_of_class hands _flush_cache the cache of    *)
(* the first subclass where it wants the place of the cache.  If that      *)
(* cache is NULL the program is aborted; otherwise the lock of the holder  *)
(* is taken for a cache and destroyed as one, which has no defined result. *)
FlushSubtree(c, k) ==
  IF SubclassesAt(c) = {}
  THEN Flush(c, {k}) /\ UNCHANGED outcome
  ELSE LET first == ClassOrder[Least(SubclassesAt(c))]
       IN  /\ outcome' = IF cache[first][k] = NoCache THEN "abort_in_flush"
                         ELSE "lock_corrupted"
           /\ UNCHANGED <<cache, version>>

(* _add_class_methods, _add_instance_methods *)
AttachMethods(c, k, batch) ==
  /\ own' = [own EXCEPT ![c][k] = Extended(@, batch)]
  /\ IF SuperImplements(c, k, batch) THEN FlushSubtree(c, k)
     ELSE UNCHANGED <<cache, version, outcome>>
  /\ UNCHANGED cats

(* objc_class_add_{class,instance}_method(s) *)
AddMethods(c, k, batch) ==
  /\ Bounded
  /\ AttachMethods(c, k, batch)
  /\ UNCHANGED <<inline, known>>

(* objc_class_replace_*_method_implementation, method in the list: the     *)
(* Method keeps its place, and the caches it is in stay valid.             *)
ReplaceExisting(c, k, s) ==
  LET m == FirstMatch(own[c][k], s)
  IN  /\ m # NullMethod /\ Bounded
      /\ version' = Bumped({m})
      /\ UNCHANGED <<lists, cache, inline, known, outcome>>

(* The same, method not in the list: it is created and added. *)
ReplaceMissing(c, k, s) ==
  /\ FirstMatch(own[c][k], s) = NullMethod
  /\ Bounded
  /\ \E m \in Unattached : SelOf[m] = s /\ AttachMethods(c, k, <<m>>)
  /\ UNCHANGED <<inline, known>>

(* objc_class_add_category: a category that is already there is refused;   *)
(* the caches of the class, not those of its subclasses, are flushed.      *)
AddCategory(g) ==
  LET c == CatClass[g]
  IN  /\ Bounded
      /\ \A i \in DOMAIN cats[c] : cats[c][i] # g
      /\ cats' = [cats EXCEPT ![c] = @ \o <<g>>]
      /\ Flush(c, Kinds)
      /\ UNCHANGED <<own, inline, known, outcome>>

(* objc_class_flush_caches, objc_class_flush_{instance,class}_cache *)
FlushCaches(c, K) ==
  /\ Bounded
  /\ Flush(c, K)
  /\ UNCHANGED <<lists, inline, known, outcome>>

-----------------------------------------------------------------------------
Init ==
  /\ own = InitOwn
  /\ cats = [c \in Classes |-> <<>>]
  /\ cache = [c \in Classes |-> [k \in Kinds |-> NoCache]]
  /\ version = [m \in Methods \cup {NilMethod} |-> 0]
  /\ inline = [x \in Sites |-> NoEntry]
  /\ known = {}
  /\ outcome = "run"

Dispatching ==
  \/ \E c \in Classes, k \in Kinds, s \in Sels :
       Lookup(c, k, s) \/ LookupSuper(c, k, s)
  \/ \E x \in Sites, c \in Classes, k \in Kinds : Send(x, c, k)
  \/ LookupNil

Changing ==
  \/ \E c \in Classes, k \in AddKinds, batch \in Batches : AddMethods(c, k, batch)
  \/ \E c \in Classes, k \in Kinds, s \in Sels :
       ReplaceExisting(c, k, s)
  \/ \E c \in Classes, k \in AddKinds, s \in Sels :
       ReplaceMissing(c, k, s)
  \/ \E g \in Categories : AddCategory(g)
  \/ \E c \in Classes, K \in SUBSET Kinds : K # {} /\ FlushCaches(c, K)

Next == outcome = "run" /\ (Dispatching \/ Changing)

Spec == Init /\ [][Next]_vars

-----------------------------------------------------------------------------
(* Types of the state. *)
TypeOK ==
  /\ own \in [Classes -> [Kinds -> Seq(Methods)]]
  /\ cats \in [Classes -> Seq(Categories)]
  /\ \A c \in Classes, k \in Kinds :
       cache[c][k] = NoCache \/ cache[c][k] \subseteq Methods
  /\ version \in [Methods \cup {NilMethod} -> Nat]
  /\ \A x \in Sites :
       \/ inline[x] = NoEntry
       \/ inline[x] \in [m : Methods \cup {NilMethod}, isa : Classes,
                        version : Nat]
  /\ known \subseteq {FwdSel, DropSel}
  /\ outcome \in {"run", "not_understood", "abort_in_flush", "lock_corrupted"}

(* A cache never answers with anything but the method that the climb of    *)
(* the class hierarchy would find now, whatever has been added since.      *)
CacheCoherent ==
  outcome = "run" =>
    \A c \in Classes, k \in Kinds, s \in Sels :
      \A m \in Hits(c, k, s) : m = Resolve(c, k, s)

(* A call site that trusts its inline cache calls the method that the      *)
(* climb would find now for every receiver it can meet with that isa.      *)
InlineCoherent ==
  outcome = "run" =>
    \A x \in Sites, c \in Classes : InlineHit(x, c) =>
      \A k \in SiteKinds[x] : inline[x].m = Resolve(c, k, SiteSel[x])

(* A selector that a class answers itself is answered by the same method   *)
(* ever after, whatever is attached to the class, in whatever batches;     *)
(* only the first category of the class that has the selector displaces    *)
(* the method of the class proper.                                         *)
FirstAttachedWins ==
  [][\A c \in Classes, k \in Kinds, s \in Sels :
       \/ Local(c, k, s) = NullMethod
       \/ Local(c, k, s)' = Local(c, k, s)
       \/ /\ CategoryMatch(c, k, s) = NullMethod
          /\ CategoryMatch(c, k, s)' = Local(c, k, s)']_lists

(* Flushing the subclasses of a class succeeds. *)
FlushSucceeds == outcome \notin {"abort_in_flush", "lock_corrupted"}
=============================================================================
