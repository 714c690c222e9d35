------------------------------ MODULE AppendLog ------------------------------
(***************************************************************************)
(* What an objc_array promises: a log to which items are appended, whose   *)
(* every append and every read takes effect at one instant between its     *)
(* call and its return.  An append may refuse an item whose name the log   *)
(* already holds; a read answers with the whole log of one instant.        *)
(* ObjcArray.tla is shown to implement it.                                 *)
(***************************************************************************)
EXTENDS Naturals, Sequences

CONSTANTS Threads,   \* threads that use the array
          Items,     \* what may be appended: Ivars, Categories, Method arrays
          NameOf,    \* the name an item goes by
          UniqueNames, \* an append refuses a name that is taken
          NoItem     \* the NULL pointer

VARIABLES log,       \* the items, oldest first
          call       \* call[t]: the call thread t is executing

vars == <<log, call>>

NoCall == [op |-> "none", arg |-> NoItem, done |-> FALSE, res |-> <<>>]

Taken(x) == \E i \in DOMAIN log : NameOf[log[i]] = NameOf[x]

Init == /\ log = <<>>
        /\ call = [t \in Threads |-> NoCall]

Begin(t, op, x) ==
  /\ call[t] = NoCall
  /\ call' = [call EXCEPT ![t] = [op |-> op, arg |-> x,
                                  done |-> FALSE, res |-> <<>>]]
  /\ UNCHANGED log

(* The call takes effect, and its result is r. *)
Ended(t, r) == call' = [call EXCEPT ![t] = [op |-> call[t].op, arg |-> call[t].arg,
                                            done |-> TRUE, res |-> r]]

ApplyAppend(t) ==
  /\ call[t].op = "append" /\ ~call[t].done
  /\ UniqueNames => ~Taken(call[t].arg)
  /\ log' = Append(log, call[t].arg)
  /\ Ended(t, <<>>)

ApplyRefusal(t) ==
  /\ call[t].op = "append" /\ ~call[t].done
  /\ UniqueNames /\ Taken(call[t].arg)
  /\ Ended(t, <<>>)
  /\ UNCHANGED log

ApplyRead(t) ==
  /\ call[t].op = "read" /\ ~call[t].done
  /\ Ended(t, log)
  /\ UNCHANGED log

Return(t) ==
  /\ call[t].done
  /\ call' = [call EXCEPT ![t] = NoCall]
  /\ UNCHANGED log

Apply(t) == ApplyAppend(t) \/ ApplyRefusal(t) \/ ApplyRead(t)

Next == \E t \in Threads :
          \/ \E x \in Items : Begin(t, "append", x)
          \/ Begin(t, "read", NoItem)
          \/ Apply(t)
          \/ Return(t)

(* A call that has begun takes effect and returns. *)
Fairness == \A t \in Threads : WF_vars(Apply(t)) /\ WF_vars(Return(t))

Spec == Init /\ [][Next]_vars /\ Fairness
=============================================================================
