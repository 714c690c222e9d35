------------------------------ MODULE Registry ------------------------------
(***************************************************************************)
(* What the class registry promises: a map from names to classes, in which *)
(* a name is given away once.  A class that is registered may still be in  *)
(* construction; a look-up answers with it only after it was finished, and *)
(* every call takes effect at one instant.  ClassRegistry.tla is shown to  *)
(* implement it.                                                           *)
(***************************************************************************)
CONSTANTS Threads, Classes, Names, NameOf, NoClass, NoName

VARIABLES named,     \* the classes that have been registered
          finished,  \* those that a look-up may return
          call       \* call[t]: the call thread t is executing

vars == <<named, finished, call>>

NoCall == [op |-> "none", arg |-> NoName, done |-> FALSE, res |-> NoClass]
Taken(n) == \E c \in named : NameOf[c] = n

Init == named = {} /\ finished = {} /\ call = [t \in Threads |-> NoCall]

Ended(t, r) ==
  call' = [call EXCEPT ![t] = [op |-> call[t].op, arg |-> call[t].arg,
                               done |-> TRUE, res |-> r]]
Pending(t, op) == call[t].op = op /\ ~call[t].done

Begin(t, op, n) ==
  /\ call[t] = NoCall
  /\ call' = [call EXCEPT ![t] = [op |-> op, arg |-> n,
                                  done |-> FALSE, res |-> NoClass]]
  /\ UNCHANGED <<named, finished>>

(* objc_class_create, or the registration of a prototype, which is a       *)
(* finished class.                                                         *)
ApplyRegister(t, c, whole) ==
  /\ Pending(t, IF whole THEN "prototype" ELSE "create")
  /\ NameOf[c] = call[t].arg /\ ~Taken(NameOf[c])
  /\ named' = named \cup {c}
  /\ finished' = (IF whole THEN finished \cup {c} ELSE finished)
  /\ Ended(t, c)

(* A name that is taken is refused; a prototype may be refused anyway.     *)
ApplyRefusal(t) ==
  /\ \/ Pending(t, "create") /\ Taken(call[t].arg)
     \/ Pending(t, "prototype")
  /\ Ended(t, NoClass)
  /\ UNCHANGED <<named, finished>>

ApplyFind(t) ==
  /\ Pending(t, "find")
  /\ \/ \E c \in finished : NameOf[c] = call[t].arg /\ Ended(t, c)
     \/ /\ \A c \in finished : NameOf[c] # call[t].arg
        /\ Ended(t, NoClass)
  /\ UNCHANGED <<named, finished>>

Finish(c) ==
  /\ c \in named
  /\ finished' = finished \cup {c}
  /\ UNCHANGED <<named, call>>

Return(t) ==
  /\ call[t].done
  /\ call' = [call EXCEPT ![t] = NoCall]
  /\ UNCHANGED <<named, finished>>

Next ==
  \/ \E t \in Threads :
       \/ \E n \in Names, op \in {"create", "prototype", "find"} : Begin(t, op, n)
       \/ \E c \in Classes, whole \in BOOLEAN : ApplyRegister(t, c, whole)
       \/ ApplyRefusal(t) \/ ApplyFind(t) \/ Return(t)
  \/ \E c \in Classes : Finish(c)

Spec == Init /\ [][Next]_vars
=============================================================================
