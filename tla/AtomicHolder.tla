---------------------------- MODULE AtomicHolder ----------------------------
(***************************************************************************)
(* What a holder of the run-time promises its callers: a set of objects    *)
(* that only grows, on which every insert and every look-up takes effect   *)
(* at one instant between its call and its return.  ftypes.h asks of the   *)
(* class holder, the selector holder and the cache that they may be used   *)
(* "from multiple threads"; this is the weakest reading of that sentence.  *)
(* Holder.tla is shown to implement it.                                    *)
(***************************************************************************)
CONSTANTS Threads,   \* threads that use the holder
          Objs,      \* objects that may be inserted: classes, SELs, Methods
          Keys,      \* names (class, selector holder) or SEL pointers (cache)
          KeyOf,     \* the key field of an object
          NullObj    \* the NULL pointer

VARIABLES present,   \* the objects in the holder
          call       \* call[t]: the call thread t is executing

vars == <<present, call>>

NoCall == [op |-> "none", arg |-> NullObj, done |-> FALSE, res |-> NullObj]

(* What a look-up of k may return when the holder contains the set S. *)
Answers(S, k) ==
  LET matching == {o \in S : KeyOf[o] = k}
  IN  IF matching = {} THEN {NullObj} ELSE matching

Init == /\ present \in SUBSET Objs
        /\ call = [t \in Threads |-> NoCall]

BeginInsert(t, o) ==
  /\ call[t] = NoCall
  /\ call' = [call EXCEPT ![t] = [op |-> "insert", arg |-> o,
                                  done |-> FALSE, res |-> NullObj]]
  /\ UNCHANGED present

BeginFetch(t, k) ==
  /\ call[t] = NoCall
  /\ call' = [call EXCEPT ![t] = [op |-> "fetch", arg |-> k,
                                  done |-> FALSE, res |-> NullObj]]
  /\ UNCHANGED present

(* The call takes effect, and its result is r. *)
Ended(t, r) == call' = [call EXCEPT ![t] = [op |-> call[t].op, arg |-> call[t].arg,
                                            done |-> TRUE, res |-> r]]

ApplyInsert(t) ==
  /\ call[t].op = "insert" /\ ~call[t].done
  /\ present' = present \cup {call[t].arg}
  /\ Ended(t, NullObj)

ApplyFetch(t) ==
  /\ call[t].op = "fetch" /\ ~call[t].done
  /\ \E r \in Answers(present, call[t].arg) : Ended(t, r)
  /\ UNCHANGED present

Return(t) ==
  /\ call[t].done
  /\ call' = [call EXCEPT ![t] = NoCall]
  /\ UNCHANGED present

Apply(t) == ApplyInsert(t) \/ ApplyFetch(t)

Next == \E t \in Threads :
          \/ \E o \in Objs : BeginInsert(t, o)
          \/ \E k \in Keys : BeginFetch(t, k)
          \/ Apply(t)
          \/ Return(t)

(* A call that has begun takes effect and returns. *)
Fairness == \A t \in Threads : WF_vars(Apply(t)) /\ WF_vars(Return(t))

Spec == Init /\ [][Next]_vars /\ Fairness
=============================================================================
