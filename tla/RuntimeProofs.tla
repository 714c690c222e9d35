---------------------------- MODULE RuntimeProofs ----------------------------
(***************************************************************************)
(* Theorems about RuntimeInit, for any initializers, setups, extensions    *)
(* and threads, provided one thread at most calls the run-time before the  *)
(* initialization has ended: objc_runtime_init takes no lock, and nothing  *)
(* else keeps two threads from running it side by side (RuntimeRace.cfg).  *)
(***************************************************************************)
EXTENDS RuntimeInit, SumProofs

Values == Initializers \cup {User, Default, NoValue}

(* Where a thread may be once the run-time is up, and before it is.        *)
AfterPCs == {"idle", "u_lookup", "n_initializing", "n_initialized", "n_clear"}
BeforePCs == {"idle", "n_initializing", "n_initialized", "n_mark"}

(* The structures that exist when the thread that initializes is at l.     *)
MadeAt(l) ==
  (IF l \in {"n_offsets", "n_lock", "n_classes", "n_list", "n_bases", "n_done"}
   THEN {"selectors"} ELSE {}) \cup
  (IF l \in {"n_classes", "n_list", "n_bases", "n_done"} THEN {"lock"} ELSE {}) \cup
  (IF l \in {"n_list", "n_bases", "n_done"} THEN {"classes"} ELSE {}) \cup
  (IF l \in {"n_bases", "n_done"} THEN {"list"} ELSE {})

Types ==
  /\ initializing \in BOOLEAN /\ initialized \in BOOLEAN
  /\ table \in Seq(Initializers) /\ ran \in Seq(Initializers)
  /\ setup \in [Slots -> Values]
  /\ made \in [Structures -> Seq(Values)]
  /\ pc \in [Threads -> {"idle", "u_lookup"} \cup InitPCs]
  /\ slot \in [Threads -> Nat]
  /\ user \in [Threads -> BOOLEAN]

(* The initializers that have run are the first n of the table.            *)
FirstRan(n) == /\ Len(ran) = n /\ n <= Len(table)
               /\ \A i \in 1..n : ran[i] = table[i]

(* Until the flag is set only e moves, and how far it is tells what has    *)
(* been made and which initializers have run; afterwards nothing changes.  *)
Before(e) ==
  /\ \A t \in Threads \ {e} : pc[t] = "idle"
  /\ e \in Threads =>
       /\ pc[e] # "u_lookup" /\ pc[e] # "n_clear"
       /\ initializing <=> pc[e] \notin BeforePCs
       /\ pc[e] \in BeforePCs => ran = <<>>
       /\ pc[e] = "n_perform" => slot[e] \in Nat \ {0} /\ FirstRan(slot[e] - 1)
       /\ pc[e] \notin BeforePCs \cup {"n_perform"} => FirstRan(Len(table))
       /\ \A s \in Structures :
            made[s] = IF s \in MadeAt(pc[e]) THEN <<setup[Creator[s]]>> ELSE <<>>
  /\ e \notin Threads => /\ ran = <<>> /\ \A s \in Structures : made[s] = <<>>
After ==
  /\ \A t \in Threads : pc[t] \in AfterPCs
  /\ FirstRan(Len(table))
  /\ \A s \in Structures : made[s] = <<setup[Creator[s]]>>

Inv(e) ==
  /\ Types
  /\ ~initialized => Before(e)
  /\ initialized => After
  /\ halted # "null_structure"

LEMMA StructuresAre ==
  /\ Structures = {"selectors", "lock", "classes", "list"}
  /\ \A s \in Structures : Creator[s] \in Slots
  /\ Required \cup Optional = Slots
BY DEF Structures, Creator, Slots, Required, Optional

LEMMA InvInit == ASSUME NEW e, Init PROVE Inv(e)
<1>1. Types
  <2>1. setup \in [Slots -> Values]
    BY DEF Init, Values
  <2>2. made \in [Structures -> Seq(Values)]
    BY DEF Init
  <2>3. initializing \in BOOLEAN /\ initialized \in BOOLEAN
    BY DEF Init
  <2>4. pc \in [Threads -> {"idle", "u_lookup"} \cup InitPCs]
    BY DEF Init
  <2>5. /\ slot \in [Threads -> Nat] /\ user \in [Threads -> BOOLEAN]
        /\ table \in Seq(Initializers) /\ ran \in Seq(Initializers)
    BY DEF Init
  <2> QED BY <2>1, <2>2, <2>3, <2>4, <2>5 DEF Types
<1>2. ~initialized /\ halted # "null_structure"
  BY DEF Init
<1>3. Before(e)
  BY DEF Init, Before, BeforePCs, MadeAt
<1> QED BY <1>1, <1>2, <1>3 DEF Inv

(* A crash, an abort and a step that changes nothing of this. *)
LEMMA Same ==
  ASSUME NEW e, Inv(e), halted' # "null_structure",
         UNCHANGED <<flags, table, setup, made, pc, slot, user, ran>>
  PROVE  Inv(e)'
BY DEF Inv, Types, Before, After, FirstRan, flags

LEMMA AbortKeeps == ASSUME NEW e, Inv(e), Abort PROVE Inv(e)'
BY Same DEF Abort, config

LEMMA CallKeeps ==
  ASSUME NEW e, Early \subseteq {e}, Inv(e), NEW t \in Threads, Call(t)
  PROVE  Inv(e)'
<1>0. May(t) => initialized \/ t = e
  BY DEF May
<1>1. ASSUME NEW i \in Initializers, RegisterInitializer(t, i) PROVE Inv(e)'
  <2>1. CASE TableClosed \/ Len(table) = MaxInitializers
    BY <1>1, <2>1, AbortKeeps DEF RegisterInitializer
  <2>2. CASE ~(TableClosed \/ Len(table) = MaxInitializers)
    <3>1. /\ pc[t] = "idle" /\ t = e /\ table' = Append(table, i)
          /\ UNCHANGED <<setup, flags, made, pc, slot, user, ran, halted>>
      BY <1>0, <1>1, <2>2 DEF RegisterInitializer, Quiet, May, TableClosed
    <3>2. table' \in Seq(Initializers)
      BY <3>1, AppendProperties DEF Inv, Types
    <3>3. ~initialized /\ ~initialized'
      BY <2>2, <3>1 DEF TableClosed, flags
    <3>4. Before(e)'
      BY <3>1, <3>3 DEF Inv, Before, BeforePCs, flags
    <3> QED BY <3>1, <3>2, <3>3, <3>4 DEF Inv, Types, flags
  <2> QED BY <2>1, <2>2
<1>2. ASSUME NEW to \in [Slots -> Values], Configure(t, to) PROVE Inv(e)'
  <2>1. CASE initialized
    BY <1>2, <2>1, AbortKeeps DEF Configure, SetupSealed
  <2>2. CASE ~initialized
    <3>1. /\ pc[t] = "idle" /\ t = e /\ setup' = to
          /\ UNCHANGED <<table, flags, made, pc, slot, user, ran, halted>>
      BY <1>0, <1>2, <2>2 DEF Configure, SetupSealed, Quiet, May
    <3>2. ~initialized'
      BY <2>2, <3>1 DEF flags
    <3>3. Before(e)'
      BY <2>2, <3>1, <3>2 DEF Inv, Before, BeforePCs, MadeAt, flags
    <3> QED BY <3>1, <3>2, <3>3 DEF Inv, Types, flags
  <2> QED BY <2>1, <2>2
<1>3. ASSUME NEW s \in Settable, NEW v \in {User, NoValue}, SetPointer(t, s, v)
      PROVE Inv(e)'
  <2>1. [setup EXCEPT ![s] = v] \in [Slots -> Values]
    BY DEF Inv, Types, Values
  <2> QED BY <1>2, <1>3, <2>1 DEF SetPointer
<1>4. ASSUME NEW given, SetSetup(t, given) PROVE Inv(e)'
  <2>1. [s \in Slots |-> IF s \in given THEN User ELSE NoValue]
          \in [Slots -> Values]
    BY DEF Values
  <2> QED BY <1>2, <1>4, <2>1 DEF SetSetup
<1>5. ASSUME NEW x \in Exts, AddExtension(t, x) PROVE Inv(e)'
  <2>1. CASE ExtensionsClosed
    BY <1>5, <2>1, AbortKeeps DEF AddExtension
  <2>2. CASE ~ExtensionsClosed
    BY <1>5, <2>2, Same DEF AddExtension, Quiet, Inv
  <2> QED BY <2>1, <2>2
<1>6. CASE BeginInit(t) \/ BeginUse(t)
  <2>1. /\ pc[t] = "idle"
        /\ \E l \in {"n_initializing", "u_lookup"} :
             /\ l = "u_lookup" => initialized
             /\ pc' = [pc EXCEPT ![t] = l]
        /\ \E b \in BOOLEAN : user' = user \/ user' = [user EXCEPT ![t] = b]
        /\ UNCHANGED <<flags, table, setup, made, slot, ran, halted>>
    BY <1>6, Zenon DEF BeginInit, BeginUse, Calm, May, Goto, config
  <2>2. Types'
    BY <2>1 DEF Inv, Types, InitPCs, flags
  <2>3. CASE initialized
    <3>1. initialized' /\ After'
      BY <2>1, <2>3 DEF Inv, Types, After, AfterPCs, FirstRan, flags
    <3> QED BY <2>1, <2>2, <3>1 DEF Inv
  <2>4. CASE ~initialized
    <3>1. t = e /\ ~initialized'
      BY <1>0, <1>6, <2>1, <2>4 DEF BeginInit, BeginUse, flags
    <3>2. Before(e)'
      BY <2>1, <2>4, <3>1 DEF Inv, Types, Before, BeforePCs, MadeAt, FirstRan, flags
    <3> QED BY <2>1, <2>2, <3>1, <3>2 DEF Inv
  <2> QED BY <2>3, <2>4
<1>7. ASSUME SetNullSetup(t) PROVE Inv(e)'
  BY <1>7, AbortKeeps DEF SetNullSetup
<1> QED BY <1>1, <1>3, <1>4, <1>5, <1>6, <1>7 DEF Call

(* A step of the initialization that only moves the control, before the    *)
(* flag is set and after.                                                  *)
LEMMA MoveKeeps ==
  ASSUME NEW e, Inv(e), NEW t \in Threads, NEW l \in {"idle", "u_lookup"} \cup InitPCs,
         pc' = [pc EXCEPT ![t] = l],
         UNCHANGED <<flags, table, setup, made, slot, user, ran, halted>>,
         initialized => l \in AfterPCs,
         ~initialized => /\ t = e /\ pc[e] # "idle"
                         /\ \/ pc[e] \in BeforePCs /\ l \in BeforePCs
                            \/ /\ pc[e] = "n_perform" /\ l = "n_validate"
                               /\ slot[e] > Len(table)
  PROVE  Inv(e)'
<1>1. Types'
  BY DEF Inv, Types, flags
<1>2. CASE initialized
  BY <1>1, <1>2 DEF Inv, Types, After, FirstRan, flags
<1>3. CASE ~initialized
  <2>1. ~initialized' /\ pc'[e] = l /\ pc[e] \in {"idle", "u_lookup"} \cup InitPCs
    BY <1>3 DEF flags, Inv, Types
  <2>2. \A u \in Threads \ {e} : pc'[u] = "idle"
    BY <1>3 DEF Inv, Types, Before
  <2>3. MadeAt(pc[e]) = MadeAt(l)
    BY <1>3, <2>1 DEF MadeAt, BeforePCs
  <2>4. CASE pc[e] \in BeforePCs /\ l \in BeforePCs
    BY <1>3, <2>1, <2>2, <2>3, <2>4 DEF Inv, Types, Before, BeforePCs, FirstRan, flags
  <2>5. CASE pc[e] = "n_perform" /\ l = "n_validate" /\ slot[e] > Len(table)
    <3>1. FirstRan(Len(table))
      BY <1>3, <2>5 DEF Inv, Types, Before, FirstRan
    <3>2. Before(e)'
      BY <1>3, <2>1, <2>2, <2>3, <2>5, <3>1
      DEF Inv, Types, Before, BeforePCs, FirstRan, flags
    <3> QED BY <1>1, <2>1, <3>2 DEF Inv
  <2> QED BY <1>1, <1>3, <2>1, <2>4, <2>5 DEF Inv
<1> QED BY <1>2, <1>3

(* The initializer in the next slot runs. *)
LEMMA PerformKeeps ==
  ASSUME NEW e, Inv(e), NEW t \in Threads, Perform(t)
  PROVE  Inv(e)'
<1> DEFINE i == table[slot[t]]
<1> HIDE DEF i
<1>0. /\ pc[t] = "n_perform" /\ slot[t] <= Len(table)
      /\ Abort \/ /\ setup' = [s \in Slots |-> IF s \in Sets[i] THEN i ELSE setup[s]]
                  /\ ran' = Append(ran, i)
                  /\ slot' = [slot EXCEPT ![t] = slot[t] + 1]
                  /\ UNCHANGED <<flags, table, made, pc, user, halted>>
  BY Zenon DEF Perform, NextSlot, i
<1>1. CASE Abort
  BY <1>1, AbortKeeps
<1>2. CASE ~Abort
  <2>1. ~initialized /\ t = e /\ Before(e)
    BY <1>0 DEF Inv, After, AfterPCs, Before
  <2>2. slot[e] \in 1..Len(table) /\ FirstRan(slot[e] - 1) /\ i \in Initializers
                                 /\ i = table[slot[e]]
    BY <1>0, <2>1 DEF Before, Inv, Types, i
  <2>3. /\ slot[e] \in Nat \ {0} /\ slot'[e] = slot[e] + 1
        /\ slot' \in [Threads -> Nat]
    <3>1. slot \in [Threads -> Nat] /\ slot' = [slot EXCEPT ![t] = slot[t] + 1]
      BY <1>0, <1>2 DEF Inv, Types
    <3>2. Len(table) \in Nat
      BY DEF Inv, Types
    <3> QED BY <2>1, <2>2, <3>1, <3>2
  <2>4. /\ ran' \in Seq(Initializers) /\ Len(ran') = Len(ran) + 1
        /\ ran'[Len(ran) + 1] = i
        /\ \A j \in 1..Len(ran) : ran'[j] = ran[j]
    <3>1. ran \in Seq(Initializers) /\ ran' = Append(ran, i)
      BY <1>0, <1>2 DEF Inv, Types
    <3> QED BY <2>2, <3>1, AppendProperties
  <2>5. FirstRan(slot[e] - 1)'
    <3>1. Len(ran) = slot[e] - 1 /\ table' = table
      BY <1>0, <1>2, <2>2 DEF FirstRan
    <3>2. ASSUME NEW j \in 1..slot[e] PROVE ran'[j] = table[j]
      <4>1. CASE j = slot[e]
        BY <2>2, <2>3, <2>4, <3>1, <4>1
      <4>2. CASE j # slot[e]
        <5>1. j \in 1..Len(ran) /\ j \in 1..(slot[e] - 1)
          BY <2>3, <3>1, <4>2
        <5> QED BY <2>2, <2>4, <5>1 DEF FirstRan
      <4> QED BY <4>1, <4>2
    <3>3. Len(ran') = slot'[e] - 1 /\ slot[e] <= Len(table)
      BY <2>2, <2>3, <2>4, <3>1
    <3> QED BY <2>3, <3>1, <3>2, <3>3 DEF FirstRan
  <2>6. setup' \in [Slots -> Values]
    <3>1. i \in Values /\ setup \in [Slots -> Values]
      BY <2>2 DEF Values, Inv, Types
    <3> QED BY <1>0, <1>2, <3>1
  <2>7. Types'
    BY <1>0, <1>2, <2>3, <2>4, <2>6 DEF Inv, Types, flags
  <2>8. \A s \in Structures : made'[s] = <<>>
    BY <1>0, <1>2, <2>1 DEF Before, MadeAt
  <2>9. Before(e)'
    BY <1>0, <1>2, <2>1, <2>3, <2>5, <2>8 DEF Before, BeforePCs, MadeAt, flags
  <2> QED BY <1>0, <1>2, <2>1, <2>7, <2>9 DEF Inv, flags
<1> QED BY <1>1, <1>2

(* What is NULL when the setup is validated gets a default. *)
LEMMA ValidateKeeps ==
  ASSUME NEW e, Inv(e), NEW t \in Threads, Validate(t)
  PROVE  Inv(e)'
<1>1. CASE Abort
  BY <1>1, AbortKeeps
<1>2. CASE ~Abort
  <2>1. /\ pc[t] = "n_validate" /\ pc' = [pc EXCEPT ![t] = "n_selectors"]
        /\ setup' = [s \in Slots |-> IF setup[s] = NoValue THEN Default ELSE setup[s]]
        /\ UNCHANGED <<flags, table, made, slot, user, ran, halted>>
    BY <1>2, Zenon DEF Validate, Goto
  <2>2. ~initialized /\ t = e /\ Before(e)
    BY <2>1 DEF Inv, After, AfterPCs, Before
  <2>3. Types'
    <3>1. setup' \in [Slots -> Values]
      BY <2>1 DEF Inv, Types, Values
    <3>2. pc' \in [Threads -> {"idle", "u_lookup"} \cup InitPCs]
      BY <2>1 DEF Inv, Types, InitPCs
    <3> QED BY <2>1, <3>1, <3>2 DEF Inv, Types, flags
  <2>4. pc'[e] = "n_selectors" /\ \A u \in Threads \ {e} : pc'[u] = "idle"
    BY <2>1, <2>2 DEF Inv, Types, Before
  <2>5. \A s \in Structures : made'[s] = <<>>
    BY <2>1, <2>2 DEF Before, MadeAt
  <2>6. Before(e)'
    BY <2>1, <2>2, <2>4, <2>5 DEF Before, BeforePCs, MadeAt, FirstRan, flags
  <2> QED BY <2>1, <2>2, <2>3, <2>6 DEF Inv, flags
<1> QED BY <1>1, <1>2

(* The next structure is made by the creator in its slot. *)
LEMMA MakeKeeps ==
  ASSUME NEW e, Inv(e), NEW t \in Threads, NEW s \in Structures,
         NEW at, NEW after \in InitPCs, Make(t, s, at, after),
         at \notin AfterPCs \cup BeforePCs \cup {"n_perform"},
         after \notin BeforePCs \cup {"n_perform", "n_clear"},
         s \notin MadeAt(at), MadeAt(after) = MadeAt(at) \cup {s}
  PROVE  Inv(e)'
<1>1. /\ pc[t] = at /\ pc' = [pc EXCEPT ![t] = after]
      /\ made' = [made EXCEPT ![s] = Append(made[s], setup[Creator[s]])]
      /\ UNCHANGED <<flags, table, setup, slot, user, ran, halted>>
  BY Zenon DEF Make, Goto, config
<1>2. ~initialized /\ t = e /\ Before(e)
  BY <1>1 DEF Inv, After, AfterPCs, Before
<1>3. setup[Creator[s]] \in Values
  BY StructuresAre DEF Inv, Types
<1>4. made[s] = <<>> /\ Append(made[s], setup[Creator[s]]) = <<setup[Creator[s]]>>
  <2>1. made[s] = <<>>
    BY <1>1, <1>2 DEF Before
  <2>2. ASSUME NEW x PROVE Append(<<>>, x) = <<x>>
    OBVIOUS
  <2> QED BY <2>1, <2>2
<1>5. Types'
  <2>1. <<setup[Creator[s]]>> \in Seq(Values)
    BY <1>3
  <2>2. made' \in [Structures -> Seq(Values)]
    BY <1>1, <1>4, <2>1 DEF Inv, Types
  <2> QED BY <1>1, <2>2 DEF Inv, Types, flags
<1>6. pc'[e] = after /\ \A u \in Threads \ {e} : pc'[u] = "idle"
  BY <1>1, <1>2 DEF Inv, Types, Before
<1>7. \A r \in Structures :
        made'[r] = IF r \in MadeAt(after) THEN <<setup'[Creator[r]]>> ELSE <<>>
  BY <1>1, <1>2, <1>4 DEF Inv, Types, Before
<1>8. initializing' /\ FirstRan(Len(table))'
  BY <1>1, <1>2 DEF Before, FirstRan, flags
<1>9. Before(e)'
  BY <1>2, <1>6, <1>7, <1>8 DEF Before, InitPCs, BeforePCs
<1> QED BY <1>1, <1>2, <1>5, <1>9 DEF Inv, flags

LEMMA StepKeeps ==
  ASSUME NEW e, Inv(e), NEW t \in Threads, Step(t)
  PROVE  Inv(e)'
<1> DEFINE Moves == UNCHANGED <<flags, table, setup, made, slot, user, ran, halted>>
<1>0. ~initialized => Before(e)
  BY DEF Inv
<1>1. CASE TestInitializing(t)
  <2>1. /\ pc[t] = "n_initializing" /\ Moves
        /\ \E l \in {"idle", "u_lookup", "n_initialized"} :
             /\ l # "n_initialized" => initializing
             /\ pc' = [pc EXCEPT ![t] = l]
    BY <1>1, Zenon DEF TestInitializing, Returns, Goto, Calm, config
  <2>2. ~initialized => t = e /\ ~initializing
    BY <1>0, <2>1 DEF Before, BeforePCs
  <2> QED BY <2>1, <2>2, MoveKeeps DEF AfterPCs, BeforePCs, InitPCs
<1>2. CASE TestInitialized(t)
  <2>1. /\ pc[t] = "n_initialized" /\ Moves
        /\ \E l \in {"idle", "u_lookup", "n_mark"} :
             /\ l = "n_mark" <=> ~initialized
             /\ pc' = [pc EXCEPT ![t] = l]
    BY <1>2 DEF TestInitialized, AlreadyDone, Returns, Goto, Calm, config
  <2>2. ~initialized => t = e
    BY <1>0, <2>1 DEF Before
  <2> QED BY <2>1, <2>2, MoveKeeps DEF AfterPCs, BeforePCs, InitPCs
<1>3. CASE MarkInitializing(t)
  <2>1. /\ pc[t] = "n_mark" /\ pc' = [pc EXCEPT ![t] = "n_perform"]
        /\ initializing' = TRUE /\ initialized' = initialized
        /\ slot' = [slot EXCEPT ![t] = 1]
        /\ UNCHANGED <<table, setup, made, user, ran, halted>>
    BY <1>3 DEF MarkInitializing, AtStart, Goto, Calm, config
  <2>2. ~initialized /\ t = e
    BY <1>0, <2>1 DEF Inv, After, AfterPCs, Before
  <2>3. Types'
    BY <2>1 DEF Inv, Types, InitPCs
  <2>4. /\ pc'[e] = "n_perform" /\ slot'[e] = 1 /\ ran' = <<>>
        /\ \A u \in Threads \ {e} : pc'[u] = "idle"
    BY <1>0, <2>1, <2>2 DEF Inv, Types, Before, BeforePCs
  <2>5. \A s \in Structures : made'[s] = <<>>
    BY <1>0, <2>1, <2>2 DEF Before, MadeAt
  <2>6. FirstRan(0)'
    BY <2>1, <2>4 DEF FirstRan, Inv, Types
  <2>7. Before(e)'
    BY <2>1, <2>2, <2>4, <2>5, <2>6 DEF Before, BeforePCs, MadeAt
  <2> QED BY <2>1, <2>2, <2>3, <2>7 DEF Inv
<1>4. CASE Perform(t)
  BY <1>4, PerformKeeps
<1>5. CASE Performed(t)
  <2>1. /\ pc[t] = "n_perform" /\ pc' = [pc EXCEPT ![t] = "n_validate"]
        /\ slot[t] > Len(table) /\ Moves
    BY <1>5 DEF Performed, EndOfTable, Goto, Calm, config
  <2>2. ~initialized /\ t = e
    BY <1>0, <2>1 DEF Inv, After, AfterPCs, Before
  <2> QED BY <2>1, <2>2, MoveKeeps DEF InitPCs
<1>6. CASE Validate(t)
  BY <1>6, ValidateKeeps
<1>7. CASE \/ Make(t, "selectors", "n_selectors", "n_offsets")
           \/ Make(t, "lock", "n_lock", "n_classes")
           \/ Make(t, "classes", "n_classes", "n_list")
           \/ Make(t, "list", "n_list", "n_bases")
  BY <1>7, MakeKeeps, StructuresAre DEF InitPCs, AfterPCs, BeforePCs, MadeAt
<1>8. CASE CacheOffsets(t) \/ (InstallBaseClasses(t) /\ \A s \in Structures : made[s] # <<>>)
  <2>1. /\ \/ pc[t] = "n_offsets" /\ pc' = [pc EXCEPT ![t] = "n_lock"]
           \/ pc[t] = "n_bases" /\ pc' = [pc EXCEPT ![t] = "n_done"]
        /\ Moves
    BY <1>8, Zenon DEF CacheOffsets, InstallBaseClasses, Goto, config
  <2>2. ~initialized /\ t = e
    BY <1>0, <2>1 DEF Inv, After, AfterPCs, Before
  <2>3. \A u \in Threads \ {e} : pc'[u] = "idle"
    BY <1>0, <2>1, <2>2 DEF Before, Inv, Types
  <2>4. Types'
    BY <2>1 DEF Inv, Types, InitPCs, flags
  <2>5. MadeAt(pc'[e]) = MadeAt(pc[e]) /\ pc'[e] \in {"n_lock", "n_done"}
    BY <2>1, <2>2 DEF MadeAt, Inv, Types
  <2>6. Before(e)'
    BY <1>0, <2>1, <2>2, <2>3, <2>5 DEF Before, BeforePCs, FirstRan, flags
  <2> QED BY <2>1, <2>2, <2>4, <2>6 DEF Inv, flags
<1>9. CASE InstallBaseClasses(t) /\ \E s \in Structures : made[s] = <<>>
  <2>1. pc[t] = "n_bases" /\ \E s \in Structures : made[s] = <<>>
    BY <1>9 DEF InstallBaseClasses
  <2>2. ~initialized /\ t = e /\ Before(e)
    BY <1>0, <2>1 DEF Inv, After, AfterPCs, Before
  <2>3. PICK s \in Structures : made[s] = <<>>
    BY <2>1
  <2>4. made[s] = <<setup[Creator[s]]>>
    BY <2>1, <2>2, StructuresAre DEF Before, MadeAt
  <2>5. <<setup[Creator[s]]>> # <<>>
    OBVIOUS
  <2> QED BY <2>3, <2>4, <2>5
<1>10. CASE MarkInitialized(t)
  <2>1. /\ pc[t] = "n_done" /\ pc' = [pc EXCEPT ![t] = "n_clear"]
        /\ initialized' = TRUE /\ initializing' = initializing
        /\ UNCHANGED <<table, setup, made, slot, user, ran, halted>>
    BY <1>10 DEF MarkInitialized, AtEnd, Goto, Calm, config
  <2>2. ~initialized /\ t = e
    BY <1>0, <2>1 DEF Inv, After, AfterPCs, Before
  <2>3. Types'
    BY <2>1 DEF Inv, Types, InitPCs
  <2>4. \A u \in Threads : pc'[u] \in AfterPCs
    BY <1>0, <2>1, <2>2 DEF Before, AfterPCs, Inv, Types
  <2>5. FirstRan(Len(table))'
    BY <1>0, <2>1, <2>2 DEF Before, BeforePCs, FirstRan
  <2>6. \A s \in Structures : made'[s] = <<setup'[Creator[s]]>>
    BY <1>0, <2>1, <2>2, StructuresAre DEF Before, MadeAt
  <2> QED BY <2>1, <2>3, <2>4, <2>5, <2>6 DEF Inv, After
<1>11. CASE ClearInitializing(t)
  <2>1. /\ pc[t] = "n_clear" /\ initialized' = TRUE /\ initializing' = FALSE
        /\ \E l \in {"idle", "u_lookup"} : pc' = [pc EXCEPT ![t] = l]
        /\ UNCHANGED <<table, setup, made, slot, user, ran, halted>>
    BY <1>11, Zenon DEF ClearInitializing, Returns, Goto, Calm, config
  <2>2. initialized
    BY <1>0, <2>1 DEF Before
  <2>3. Types' /\ After'
    BY <2>1, <2>2 DEF Inv, Types, After, AfterPCs, FirstRan
  <2> QED BY <2>1, <2>2, <2>3 DEF Inv
<1>12. CASE Use(t)
  <2>1. pc[t] = "u_lookup" /\ initialized
    BY <1>0, <1>12 DEF Use, Before
  <2>2. /\ pc' = [pc EXCEPT ![t] = "idle"] /\ user' = [user EXCEPT ![t] = FALSE]
        /\ UNCHANGED <<flags, table, setup, made, slot, ran, halted>>
    <3>1. made["classes"] # <<>> /\ made["lock"] # <<>>
      <4>1. ASSUME NEW x PROVE <<x>> # <<>>
        OBVIOUS
      <4> QED BY <2>1, <4>1, StructuresAre DEF Inv, After
    <3> QED BY <1>12, <3>1 DEF Use, Goto, config
  <2>3. Types' /\ After'
    BY <2>1, <2>2 DEF Inv, Types, After, AfterPCs, FirstRan, flags
  <2> QED BY <2>1, <2>2, <2>3 DEF Inv, flags
<1> QED BY <1>1, <1>2, <1>3, <1>4, <1>5, <1>6, <1>7, <1>8, <1>9, <1>10, <1>11,
           <1>12 DEF Step, InitStep

(* While one thread at most calls the run-time before it is up, the        *)
(* structure of the invariant holds, whatever is registered and set.       *)
THEOREM OneStarter ==
  ASSUME NEW e, Early \subseteq {e} PROVE Spec => []Inv(e)
<1>1. Init => Inv(e)
  BY InvInit
<1>2. Inv(e) /\ [Next]_vars => Inv(e)'
  <2> SUFFICES ASSUME Inv(e), [Next]_vars PROVE Inv(e)'
    OBVIOUS
  <2>1. ASSUME NEW t \in Threads, Call(t) PROVE Inv(e)'
    BY <2>1, CallKeeps
  <2>2. ASSUME NEW t \in Threads, Step(t) PROVE Inv(e)'
    BY <2>2, StepKeeps
  <2>3. CASE UNCHANGED vars
    BY <2>3, Same DEF vars, config, Inv
  <2> QED BY <2>1, <2>2, <2>3 DEF Next
<1> QED BY <1>1, <1>2, PTL DEF Spec

(* runtime.c:163: then every structure is made once, by the function that  *)
(* the setup holds ever after.                                             *)
THEOREM StructuresMadeOnce ==
  ASSUME NEW e, Early \subseteq {e} PROVE Spec => []MadeOnce
<1>1. Inv(e) => MadeOnce
  BY DEF Inv, Before, After, MadeOnce
<1> QED BY <1>1, OneStarter, PTL

(* and every initializer that was accepted has run, once and in order,     *)
(* before the flag tells anybody that the run-time is up.                  *)
THEOREM InitializersPerformed ==
  ASSUME NEW e, Early \subseteq {e} PROVE Spec => []AllPerformed
<1>1. Inv(e) => AllPerformed
  <2> SUFFICES ASSUME Inv(e), initialized PROVE ran = table
    BY DEF AllPerformed
  <2>1. ran \in Seq(Initializers) /\ table \in Seq(Initializers)
    BY DEF Inv, Types
  <2>2. Len(ran) = Len(table) /\ \A i \in 1..Len(table) : ran[i] = table[i]
    BY DEF Inv, After, FirstRan
  <2> QED BY <2>1, <2>2, SeqEqual
<1> QED BY <1>1, OneStarter, PTL

(* and nobody reaches a structure that does not exist (runtime.c, class.c: *)
(* the test of the flag before objc_runtime_init).                         *)
THEOREM NoNullIsUsed ==
  ASSUME NEW e, Early \subseteq {e} PROVE Spec => []NoNullStructure
<1>1. Inv(e) => NoNullStructure
  BY DEF Inv, NoNullStructure
<1> QED BY <1>1, OneStarter, PTL
-----------------------------------------------------------------------------
(* Types, whoever calls: they do not need that one thread starts alone.    *)

LEMMA WalkAdds ==
  ASSUME extensions \in Seq(Exts), NEW space \in [Exts -> Nat]
  PROVE  LET n == Len(extensions)
         IN  /\ n \in Nat /\ DOMAIN extensions = 1..n
             /\ SpaceUpTo(space) \in [0..n -> Nat]
             /\ \A i \in 1..n : /\ extensions[i] \in Exts /\ space[extensions[i]] \in Nat
                                /\ SpaceUpTo(space)[i] = SpaceUpTo(space)[i - 1]
                                                          + space[extensions[i]]
             /\ \A i \in 0..n : \A j \in i..n : SpaceUpTo(space)[i] <= SpaceUpTo(space)[j]
<1>1. PICK n \in Nat : /\ n = Len(extensions) /\ DOMAIN extensions = 1..n
                       /\ \A i \in 1..n : extensions[i] \in Exts
  BY LenProperties
<1>2. PICK s : s = [i \in DOMAIN extensions |-> space[extensions[i]]]
  OBVIOUS
<1>3. s \in [1..n -> Nat] /\ \A i \in 1..n : s[i] = space[extensions[i]]
  BY <1>1, <1>2
<1>4. s \in Seq(Nat) /\ Len(s) = n
  BY <1>1, <1>3
<1>5. SpaceUpTo(space) = Sums(s)
  BY <1>2 DEF SpaceUpTo
<1>6. /\ Sums(s) \in [0..n -> Nat]
      /\ \A i \in 1..n : Sums(s)[i] = Sums(s)[i - 1] + s[i]
  BY <1>4, SumsAre
<1>7. \A i \in 0..n : \A j \in i..n : Sums(s)[i] <= Sums(s)[j]
  BY <1>4, SumsGrow
<1> QED BY <1>1, <1>3, <1>5, <1>6, <1>7

LEMMA PlacesExist ==
  ASSUME extensions \in Seq(Exts), NEW x \in Elems(extensions)
  PROVE  PlaceOf(x) \in 1..Len(extensions) /\ extensions[PlaceOf(x)] = x
<1>1. \E n \in DOMAIN extensions : extensions[n] = x
  BY DEF Elems
<1>2. PlaceOf(x) \in DOMAIN extensions /\ extensions[PlaceOf(x)] = x
  BY <1>1 DEF PlaceOf
<1> QED BY <1>2, LenProperties

LEMMA StoredIs ==
  ASSUME extensions \in Seq(Exts), NEW space \in [Exts -> Nat], NEW old \in [Exts -> Nat]
  PROVE  Stored(old, space) \in [Exts -> Nat]
<1>1. ASSUME NEW x \in Elems(extensions) PROVE SpaceUpTo(space)[PlaceOf(x) - 1] \in Nat
  <2>1. PICK n \in Nat : n = Len(extensions) /\ PlaceOf(x) \in 1..n
    BY PlacesExist, WalkAdds
  <2>2. PlaceOf(x) - 1 \in 0..n
    BY <2>1
  <2>3. SpaceUpTo(space) \in [0..n -> Nat]
    BY <2>1, WalkAdds
  <2> QED BY <2>1, <2>2, <2>3
<1> QED BY <1>1 DEF Stored

(* Where the areas of two extensions begin, one is behind the other. *)
LEMMA StoredApart ==
  ASSUME extensions \in Seq(Exts), NEW space \in [Exts -> Nat], NEW old \in [Exts -> Nat]
  PROVE  Apart(Stored(old, space), space)
<1> SUFFICES ASSUME NEW d \in Elems(extensions), NEW x \in Elems(extensions), d # x
             PROVE  LET o == Stored(old, space)
                    IN  o[d] + space[d] <= o[x] \/ o[x] + space[x] <= o[d]
  BY DEF Apart
<1>1. PICK n \in Nat : /\ n = Len(extensions)
                       /\ SpaceUpTo(space) \in [0..n -> Nat]
                       /\ \A i \in 1..n :
                            SpaceUpTo(space)[i] = SpaceUpTo(space)[i - 1] + space[extensions[i]]
                       /\ \A i \in 0..n : \A j \in i..n :
                            SpaceUpTo(space)[i] <= SpaceUpTo(space)[j]
  BY WalkAdds
<1>2. PICK i \in 1..n : i = PlaceOf(d) /\ extensions[i] = d
  BY <1>1, PlacesExist
<1>3. PICK j \in 1..n : j = PlaceOf(x) /\ extensions[j] = x
  BY <1>1, PlacesExist
<1>4. d \in Exts /\ x \in Exts
  BY <1>1, <1>2, <1>3, WalkAdds
<1>5. /\ Stored(old, space)[d] = SpaceUpTo(space)[i - 1]
      /\ Stored(old, space)[x] = SpaceUpTo(space)[j - 1]
  BY <1>2, <1>3, <1>4 DEF Stored
<1>6. /\ SpaceUpTo(space)[i - 1] + space[d] = SpaceUpTo(space)[i]
      /\ SpaceUpTo(space)[j - 1] + space[x] = SpaceUpTo(space)[j]
  BY <1>1, <1>2, <1>3
<1>7. i < j \/ j < i
  BY <1>2, <1>3
<1>8. CASE i < j
  <2>1. i \in 0..n /\ j - 1 \in i..n
    BY <1>8
  <2> QED BY <1>1, <1>5, <1>6, <2>1
<1>9. CASE j < i
  <2>1. j \in 0..n /\ i - 1 \in j..n
    BY <1>9
  <2> QED BY <1>1, <1>5, <1>6, <2>1
<1> QED BY <1>7, <1>8, <1>9

LEMMA TypesInit == Init => TypeOK
<1> SUFFICES ASSUME Init PROVE TypeOK
  OBVIOUS
<1>1. /\ initializing \in BOOLEAN /\ initialized \in BOOLEAN /\ bases \in BOOLEAN
      /\ table \in Seq(Initializers) /\ Len(table) <= MaxInitializers
      /\ extensions \in Seq(Exts) /\ ran \in Seq(Initializers)
  <2>1. \A S : <<>> \in Seq(S) /\ Len(<<>>) = 0
    OBVIOUS
  <2>2. 0 <= MaxInitializers
    BY InitAssumption
  <2>3. table = <<>> /\ extensions = <<>> /\ ran = <<>>
    BY DEF Init
  <2>4. initializing = FALSE /\ initialized = FALSE /\ bases = FALSE
    BY DEF Init
  <2> QED BY <2>1, <2>2, <2>3, <2>4
<1>2. /\ setup \in [Slots -> Initializers \cup {User, Default, NoValue}]
      /\ made \in [Structures -> Seq(Initializers \cup {User, Default, NoValue})]
  BY DEF Init
<1>3. /\ classOffset \in [Exts -> Nat] /\ objectOffset \in [Exts -> Nat]
      /\ pc \in [Threads -> {"idle", "u_lookup"} \cup InitPCs]
      /\ user \in [Threads -> BOOLEAN]
  BY DEF Init
<1>4. slot \in [Threads -> 1..(MaxInitializers + 1)]
  BY InitAssumption DEF Init
<1>5. halted \in {"none", "aborted", "null_call", "null_structure"}
  BY DEF Init
<1> QED BY <1>1, <1>2, <1>3, <1>4, <1>5 DEF TypeOK

(* What a step may do to the types. *)
ControlTypes ==
  /\ pc \in [Threads -> {"idle", "u_lookup"} \cup InitPCs]
  /\ slot \in [Threads -> 1..(MaxInitializers + 1)]
  /\ user \in [Threads -> BOOLEAN]
  /\ halted \in {"none", "aborted", "null_call", "null_structure"}
ConfigTypes ==
  /\ table \in Seq(Initializers) /\ Len(table) <= MaxInitializers
  /\ setup \in [Slots -> Initializers \cup {User, Default, NoValue}]
  /\ extensions \in Seq(Exts) /\ ran \in Seq(Initializers)
MadeTypes ==
  /\ initializing \in BOOLEAN /\ initialized \in BOOLEAN /\ bases \in BOOLEAN
  /\ classOffset \in [Exts -> Nat] /\ objectOffset \in [Exts -> Nat]
  /\ made \in [Structures -> Seq(Initializers \cup {User, Default, NoValue})]

LEMMA TypesAre ==
  /\ TypeOK <=> ControlTypes /\ ConfigTypes /\ MadeTypes
  /\ TypeOK' <=> ControlTypes' /\ ConfigTypes' /\ MadeTypes'
BY DEF TypeOK, ControlTypes, ConfigTypes, MadeTypes

LEMMA ControlStays ==
  ASSUME ControlTypes, UNCHANGED <<pc, slot, user, halted>> PROVE ControlTypes'
BY DEF ControlTypes

LEMMA ConfigStays ==
  ASSUME ConfigTypes, UNCHANGED <<config, ran>> PROVE ConfigTypes'
BY DEF ConfigTypes, config

LEMMA MadeStays ==
  ASSUME MadeTypes, UNCHANGED <<flags, bases, offsets, made>> PROVE MadeTypes'
BY DEF MadeTypes, flags, offsets

LEMMA StopsTyped ==
  ASSUME TypeOK, Abort \/ NullUse PROVE TypeOK'
<1>1. halted' \in {"none", "aborted", "null_call", "null_structure"}
  BY Zenon DEF Abort, NullUse
<1>2. UNCHANGED <<flags, config, offsets, made, bases, pc, slot, user, ran>>
  BY DEF Abort, NullUse
<1>3. ControlTypes'
  BY <1>1, <1>2, TypesAre DEF ControlTypes
<1> QED BY <1>2, <1>3, TypesAre, ConfigStays, MadeStays

(* The thread goes on from one place to another, and nothing else changes  *)
(* but the flags, its index and whom it works for.                         *)
LEMMA GoesTyped ==
  ASSUME TypeOK, NEW t \in Threads, NEW l \in {"idle", "u_lookup"} \cup InitPCs,
         pc' = [pc EXCEPT ![t] = l],
         slot' = slot \/ slot' = [slot EXCEPT ![t] = 1],
         \E b \in BOOLEAN : user' = user \/ user' = [user EXCEPT ![t] = b],
         halted' = halted
  PROVE  ControlTypes'
<1>1. /\ pc \in [Threads -> {"idle", "u_lookup"} \cup InitPCs]
      /\ slot \in [Threads -> 1..(MaxInitializers + 1)] /\ user \in [Threads -> BOOLEAN]
      /\ halted' \in {"none", "aborted", "null_call", "null_structure"}
  BY DEF TypeOK
<1>2. pc' \in [Threads -> {"idle", "u_lookup"} \cup InitPCs]
  BY <1>1
<1>3. slot' \in [Threads -> 1..(MaxInitializers + 1)]
  <2>1. 1 \in 1..(MaxInitializers + 1)
    BY InitAssumption
  <2> QED BY <1>1, <2>1
<1>4. user' \in [Threads -> BOOLEAN]
  BY <1>1
<1> QED BY <1>1, <1>2, <1>3, <1>4 DEF ControlTypes

LEMMA CallTyped ==
  ASSUME TypeOK, NEW t \in Threads, Call(t)
  PROVE  TypeOK'
<1>0. ControlTypes /\ ConfigTypes /\ MadeTypes
  BY TypesAre
<1>1. ASSUME NEW i \in Initializers, RegisterInitializer(t, i) PROVE TypeOK'
  <2>1. CASE TableClosed \/ Len(table) = MaxInitializers
    BY <1>1, <2>1, StopsTyped DEF RegisterInitializer
  <2>2. CASE ~(TableClosed \/ Len(table) = MaxInitializers)
    <3>1. table' = Append(table, i) /\ UNCHANGED <<setup, extensions>> /\ Quiet
      BY <1>1, <2>2 DEF RegisterInitializer
    <3>2. table \in Seq(Initializers) /\ Len(table) \in Nat /\ Len(table) <= MaxInitializers
      BY <1>0 DEF ConfigTypes
    <3>3. table' \in Seq(Initializers) /\ Len(table') = Len(table) + 1
      BY <3>1, <3>2, AppendProperties
    <3>4. Len(table') <= MaxInitializers
      BY <2>2, <3>2, <3>3, InitAssumption
    <3>5. ConfigTypes'
      BY <1>0, <3>1, <3>3, <3>4 DEF ConfigTypes, Quiet
    <3> QED BY <1>0, <3>1, <3>5, TypesAre, ControlStays, MadeStays DEF Quiet
  <2> QED BY <2>1, <2>2
<1>2. ASSUME NEW to \in [Slots -> Initializers \cup {User, Default, NoValue}],
             Configure(t, to)
      PROVE TypeOK'
  <2>1. CASE SetupSealed
    BY <1>2, <2>1, StopsTyped DEF Configure
  <2>2. CASE ~SetupSealed
    <3>1. setup' = to /\ UNCHANGED <<table, extensions>> /\ Quiet
      BY <1>2, <2>2 DEF Configure
    <3>2. ConfigTypes'
      BY <1>0, <3>1 DEF ConfigTypes, Quiet
    <3> QED BY <1>0, <3>1, <3>2, TypesAre, ControlStays, MadeStays DEF Quiet
  <2> QED BY <2>1, <2>2
<1>3. ASSUME NEW s \in Settable, NEW v \in {User, NoValue}, SetPointer(t, s, v)
      PROVE TypeOK'
  <2>1. [setup EXCEPT ![s] = v] \in [Slots -> Initializers \cup {User, Default, NoValue}]
    BY DEF TypeOK
  <2> QED BY <1>2, <1>3, <2>1 DEF SetPointer
<1>4. ASSUME NEW given, SetSetup(t, given) PROVE TypeOK'
  <2>1. [s \in Slots |-> IF s \in given THEN User ELSE NoValue]
          \in [Slots -> Initializers \cup {User, Default, NoValue}]
    OBVIOUS
  <2> QED BY <1>2, <1>4, <2>1 DEF SetSetup
<1>5. ASSUME NEW x \in Exts, AddExtension(t, x) PROVE TypeOK'
  <2>1. CASE ExtensionsClosed
    BY <1>5, <2>1, StopsTyped DEF AddExtension
  <2>2. CASE ~ExtensionsClosed
    <3>1. extensions' = <<x>> \o extensions /\ UNCHANGED <<table, setup>> /\ Quiet
      BY <1>5, <2>2 DEF AddExtension
    <3>2. extensions' \in Seq(Exts)
      <4>1. extensions \in Seq(Exts) /\ <<x>> \in Seq(Exts)
        BY <1>0 DEF ConfigTypes
      <4> QED BY <3>1, <4>1, ConcatProperties
    <3>3. ConfigTypes'
      BY <1>0, <3>1, <3>2 DEF ConfigTypes, Quiet
    <3> QED BY <1>0, <3>1, <3>3, TypesAre, ControlStays, MadeStays DEF Quiet
  <2> QED BY <2>1, <2>2
<1>6. CASE BeginInit(t) \/ BeginUse(t)
  <2>1. \E l \in {"idle", "u_lookup"} \cup InitPCs : pc' = [pc EXCEPT ![t] = l]
    <3>1. pc' = [pc EXCEPT ![t] = "n_initializing"] \/ pc' = [pc EXCEPT ![t] = "u_lookup"]
      BY <1>6, Zenon DEF BeginInit, BeginUse, Goto
    <3> QED BY <3>1 DEF InitPCs
  <2>2. \E b \in BOOLEAN : user' = user \/ user' = [user EXCEPT ![t] = b]
    BY <1>6, Zenon DEF BeginInit, BeginUse, Calm
  <2>3. UNCHANGED <<flags, config, offsets, made, bases, slot, ran, halted>>
    BY <1>6 DEF BeginInit, BeginUse, Calm
  <2>4. ControlTypes'
    BY <2>1, <2>2, <2>3, GoesTyped
  <2> QED BY <1>0, <2>3, <2>4, TypesAre, ConfigStays, MadeStays
<1>7. ASSUME SetNullSetup(t) PROVE TypeOK'
  BY <1>7, StopsTyped DEF SetNullSetup
<1> QED BY <1>1, <1>3, <1>4, <1>5, <1>6, <1>7 DEF Call

LEMMA PerformTyped ==
  ASSUME TypeOK, NEW t \in Threads, Perform(t)
  PROVE  TypeOK'
<1>0. ControlTypes /\ ConfigTypes /\ MadeTypes
  BY TypesAre
<1>1. PICK i : i = table[slot[t]]
  OBVIOUS
<1>2. /\ slot[t] <= Len(table)
      /\ Abort \/ /\ setup' = [s \in Slots |-> IF s \in Sets[i] THEN i ELSE setup[s]]
                  /\ \/ extensions' = extensions
                     \/ Adds[i] # NoExt /\ extensions' = <<Adds[i]>> \o extensions
                  /\ ran' = Append(ran, i)
                  /\ slot' = [slot EXCEPT ![t] = slot[t] + 1]
                  /\ UNCHANGED <<flags, table, offsets, made, bases, pc, user, halted>>
  BY <1>1, Zenon DEF Perform, NextSlot
<1>3. CASE Abort
  BY <1>3, StopsTyped
<1>4. CASE ~Abort
  <2>1. PICK k \in 1..(MaxInitializers + 1) :
          k = slot[t] /\ k <= Len(table) /\ Len(table) \in Nat /\ Len(table) <= MaxInitializers
    BY <1>0, <1>2 DEF ControlTypes, ConfigTypes
  <2>2. k + 1 \in 1..(MaxInitializers + 1) /\ k \in 1..Len(table)
    BY <2>1, InitAssumption
  <2>3. i \in Initializers
    BY <1>0, <1>1, <2>1, <2>2, ElementOfSeq DEF ConfigTypes
  <2>4. ControlTypes'
    <3>1. slot' = [slot EXCEPT ![t] = k + 1]
      BY <1>2, <1>4, <2>1
    <3>2. slot' \in [Threads -> 1..(MaxInitializers + 1)]
      BY <1>0, <2>2, <3>1 DEF ControlTypes
    <3> QED BY <1>0, <1>2, <1>4, <3>2 DEF ControlTypes
  <2>5. extensions' \in Seq(Exts)
    <3>1. CASE extensions' = extensions
      BY <1>0, <3>1 DEF ConfigTypes
    <3>2. CASE Adds[i] # NoExt /\ extensions' = <<Adds[i]>> \o extensions
      <4>1. Adds[i] \in Exts
        BY <2>3, <3>2, InitAssumption
      <4>2. <<Adds[i]>> \in Seq(Exts) /\ extensions \in Seq(Exts)
        BY <1>0, <4>1 DEF ConfigTypes
      <4> QED BY <3>2, <4>2, ConcatProperties
    <3> QED BY <1>2, <1>4, <3>1, <3>2
  <2>6. ran' \in Seq(Initializers)
    <3>1. ran \in Seq(Initializers) /\ ran' = Append(ran, i)
      BY <1>0, <1>2, <1>4 DEF ConfigTypes
    <3> QED BY <2>3, <3>1, AppendProperties
  <2>7. setup' \in [Slots -> Initializers \cup {User, Default, NoValue}]
    BY <1>0, <1>2, <1>4, <2>3 DEF ConfigTypes
  <2>8. ConfigTypes'
    BY <1>0, <1>2, <1>4, <2>5, <2>6, <2>7 DEF ConfigTypes
  <2> QED BY <1>0, <1>2, <1>4, <2>4, <2>8, TypesAre, MadeStays
<1> QED BY <1>3, <1>4

LEMMA MakeTyped ==
  ASSUME TypeOK, NEW t \in Threads, NEW s \in Structures, NEW at, NEW after \in InitPCs,
         Make(t, s, at, after)
  PROVE  TypeOK'
<1>0. ControlTypes /\ ConfigTypes /\ MadeTypes
  BY TypesAre
<1>1. /\ pc' = [pc EXCEPT ![t] = after]
      /\ made' = [made EXCEPT ![s] = Append(made[s], setup[Creator[s]])]
      /\ UNCHANGED <<flags, config, offsets, bases, slot, user, ran, halted>>
  BY Zenon DEF Make, Goto
<1>2. setup[Creator[s]] \in Values
  BY <1>0, StructuresAre DEF ConfigTypes, Values
<1>3. Append(made[s], setup[Creator[s]]) \in Seq(Values)
  <2>1. made[s] \in Seq(Values)
    BY <1>0 DEF MadeTypes, Values
  <2> QED BY <1>2, <2>1, AppendProperties
<1>4. MadeTypes'
  <2>1. made' \in [Structures -> Seq(Values)]
    BY <1>0, <1>1, <1>3 DEF MadeTypes, Values
  <2> QED BY <1>0, <1>1, <2>1 DEF MadeTypes, Values, flags, offsets
<1>5. ControlTypes'
  BY <1>1, GoesTyped
<1> QED BY <1>0, <1>1, <1>4, <1>5, TypesAre, ConfigStays

LEMMA StepTyped ==
  ASSUME TypeOK, NEW t \in Threads, Step(t)
  PROVE  TypeOK'
<1>0. ControlTypes /\ ConfigTypes /\ MadeTypes
  BY TypesAre
<1>1. CASE \/ TestInitializing(t) \/ TestInitialized(t) \/ MarkInitializing(t)
           \/ Performed(t) \/ MarkInitialized(t) \/ ClearInitializing(t)
  <2>1. \E l \in {"idle", "u_lookup", "n_initialized", "n_mark", "n_perform", "n_validate",
                  "n_clear"} :
          pc' = [pc EXCEPT ![t] = l]
    BY <1>1, Zenon DEF TestInitializing, TestInitialized, MarkInitializing, Performed,
                       MarkInitialized, ClearInitializing, Goto, Returns
  <2>2. slot' = slot \/ slot' = [slot EXCEPT ![t] = 1]
    BY <1>1, Zenon DEF TestInitializing, TestInitialized, MarkInitializing, Performed,
                       MarkInitialized, ClearInitializing
  <2>3. Calm
    BY <1>1, Zenon DEF TestInitializing, TestInitialized, MarkInitializing, Performed,
                       MarkInitialized, ClearInitializing
  <2>4. initializing' \in BOOLEAN /\ initialized' \in BOOLEAN
    BY <1>0, <1>1 DEF TestInitializing, TestInitialized, MarkInitializing, Performed,
                      MarkInitialized, ClearInitializing, flags, AtStart, AtEnd, MadeTypes
  <2>5. ControlTypes'
    BY <2>1, <2>2, <2>3, GoesTyped DEF InitPCs, Calm
  <2>6. MadeTypes'
    BY <1>0, <2>3, <2>4 DEF MadeTypes, Calm, offsets
  <2> QED BY <1>0, <2>3, <2>5, <2>6, TypesAre, ConfigStays DEF Calm
<1>2. CASE Perform(t)
  BY <1>2, PerformTyped
<1>3. CASE Validate(t)
  <2>1. CASE Abort
    BY <2>1, StopsTyped
  <2>2. CASE ~Abort
    <3>1. /\ pc' = [pc EXCEPT ![t] = "n_selectors"]
          /\ setup' = [s \in Slots |-> IF setup[s] = NoValue THEN Default ELSE setup[s]]
          /\ UNCHANGED <<flags, table, extensions, offsets, made, bases, slot, user, ran, halted>>
      BY <1>3, <2>2, Zenon DEF Validate, Goto
    <3>2. setup' \in [Slots -> Initializers \cup {User, Default, NoValue}]
      BY <1>0, <3>1 DEF ConfigTypes
    <3>3. ConfigTypes'
      BY <1>0, <3>1, <3>2 DEF ConfigTypes
    <3>4. ControlTypes'
      BY <3>1, GoesTyped DEF InitPCs
    <3> QED BY <1>0, <3>1, <3>3, <3>4, TypesAre, MadeStays
  <2> QED BY <2>1, <2>2
<1>4. CASE \/ Make(t, "selectors", "n_selectors", "n_offsets")
           \/ Make(t, "lock", "n_lock", "n_classes")
           \/ Make(t, "classes", "n_classes", "n_list")
           \/ Make(t, "list", "n_list", "n_bases")
  BY <1>4, MakeTyped, StructuresAre DEF InitPCs
<1>5. CASE CacheOffsets(t)
  <2>1. /\ classOffset' = Stored(classOffset, ClassSpace)
        /\ objectOffset' = Stored(objectOffset, ObjectSpace)
        /\ pc' = [pc EXCEPT ![t] = "n_lock"]
        /\ UNCHANGED <<flags, config, made, bases, slot, user, ran, halted>>
    BY <1>5, Zenon DEF CacheOffsets, Goto
  <2>2. classOffset' \in [Exts -> Nat] /\ objectOffset' \in [Exts -> Nat]
    BY <1>0, <2>1, StoredIs, InitAssumption DEF MadeTypes, ConfigTypes
  <2>3. MadeTypes'
    BY <1>0, <2>1, <2>2 DEF MadeTypes, flags
  <2>4. ControlTypes'
    BY <2>1, GoesTyped DEF InitPCs
  <2> QED BY <1>0, <2>1, <2>3, <2>4, TypesAre, ConfigStays
<1>6. CASE InstallBaseClasses(t)
  <2>1. CASE NullUse
    BY <2>1, StopsTyped
  <2>2. CASE ~NullUse
    <3>1. /\ bases' = TRUE /\ pc' = [pc EXCEPT ![t] = "n_done"]
          /\ UNCHANGED <<flags, config, offsets, made, slot, user, ran, halted>>
      BY <1>6, <2>2, Zenon DEF InstallBaseClasses, Goto
    <3>2. MadeTypes'
      BY <1>0, <3>1 DEF MadeTypes, flags, offsets
    <3>3. ControlTypes'
      BY <3>1, GoesTyped DEF InitPCs
    <3> QED BY <1>0, <3>1, <3>2, <3>3, TypesAre, ConfigStays
  <2> QED BY <2>1, <2>2
<1>7. CASE Use(t)
  <2>1. CASE NullUse
    BY <2>1, StopsTyped
  <2>2. CASE ~NullUse
    <3>1. /\ user' = [user EXCEPT ![t] = FALSE] /\ pc' = [pc EXCEPT ![t] = "idle"]
          /\ UNCHANGED <<flags, config, offsets, made, bases, slot, ran, halted>>
      BY <1>7, <2>2, Zenon DEF Use, Goto
    <3>2. ControlTypes'
      BY <3>1, GoesTyped
    <3> QED BY <1>0, <3>1, <3>2, TypesAre, ConfigStays, MadeStays
  <2> QED BY <2>1, <2>2
<1> QED BY <1>1, <1>2, <1>3, <1>4, <1>5, <1>6, <1>7 DEF Step, InitStep

(* The tables of runtime.c keep their types and no index leaves the table, *)
(* even when threads run objc_runtime_init side by side.                   *)
THEOREM RuntimeTypes == Spec => []TypeOK
<1>1. TypeOK /\ [Next]_vars => TypeOK'
  <2> SUFFICES ASSUME TypeOK, [Next]_vars PROVE TypeOK'
    OBVIOUS
  <2>1. ASSUME NEW t \in Threads, Call(t) PROVE TypeOK'
    BY <2>1, CallTyped
  <2>2. ASSUME NEW t \in Threads, Step(t) PROVE TypeOK'
    BY <2>2, StepTyped
  <2>3. CASE UNCHANGED vars
    <3>1. UNCHANGED <<flags, config, offsets, made, bases, pc, slot, user, ran, halted>>
      BY <2>3 DEF vars
    <3> QED BY <3>1, TypesAre, ControlStays, ConfigStays, MadeStays
  <2> QED BY <2>1, <2>2, <2>3 DEF Next
<1> QED BY <1>1, TypesInit, PTL DEF Spec

-----------------------------------------------------------------------------
(* The areas of the extensions.  The offsets are stored before the holder  *)
(* of the classes is made, and from then on no extension is added.         *)

PlacedPCs == {"n_lock", "n_classes", "n_list", "n_bases", "n_done"}
Placed(e) ==
  initialized \/ (e \in Threads /\ pc[e] \in PlacedPCs) =>
    Apart(classOffset, ClassSpace) /\ Apart(objectOffset, ObjectSpace)

LEMMA PlacedStays ==
  ASSUME NEW e, Placed(e), UNCHANGED <<extensions, offsets>>,
         initialized' => initialized \/ (e \in Threads /\ pc[e] \in PlacedPCs),
         e \in Threads /\ pc'[e] \in PlacedPCs =>
           initialized \/ pc[e] \in PlacedPCs
  PROVE  Placed(e)'
BY DEF Placed, Apart, Elems, offsets

LEMMA StepPlaced ==
  ASSUME NEW e, Early \subseteq {e}, TypeOK, Inv(e), Placed(e),
         NEW t \in Threads, Call(t) \/ Step(t)
  PROVE  Placed(e)'
<1>0. /\ ~initialized => Before(e)
      /\ initialized => After
      /\ pc \in [Threads -> {"idle", "u_lookup"} \cup InitPCs]
  BY DEF Inv, Types
<1> DEFINE Keeps == UNCHANGED <<extensions, offsets>>
<1>1. CASE Abort \/ NullUse
  <2>1. Keeps /\ UNCHANGED <<initialized, pc>>
    BY <1>1 DEF Abort, NullUse, config, flags
  <2> QED BY <2>1, PlacedStays
<1>2. ASSUME ~Abort,
             \/ \E i \in Initializers : RegisterInitializer(t, i)
             \/ \E s \in Settable, v \in {User, NoValue} : SetPointer(t, s, v)
             \/ \E given \in {Required, Slots} : SetSetup(t, given)
      PROVE  Placed(e)'
  <2>1. UNCHANGED extensions /\ Quiet
    BY <1>2, Zenon DEF RegisterInitializer, SetPointer, SetSetup, Configure
  <2>2. Keeps /\ UNCHANGED <<initialized, pc>>
    BY <2>1 DEF Quiet, flags
  <2> QED BY <2>2, PlacedStays
<1>3. ASSUME ~Abort, NEW x \in Exts, AddExtension(t, x) PROVE Placed(e)'
  <2>1. May(t) /\ made["classes"] = <<>> /\ Quiet
    BY <1>3 DEF AddExtension, ExtensionsClosed
  <2>2. ~initialized
    <3>1. ASSUME NEW y PROVE <<y>> # <<>>
      OBVIOUS
    <3> QED BY <1>0, <2>1, <3>1, StructuresAre DEF After
  <2>3. t = e /\ pc[e] = "idle"
    BY <2>1, <2>2 DEF May
  <2>4. ~initialized' /\ pc'[e] = "idle"
    BY <2>1, <2>2, <2>3 DEF Quiet, flags
  <2> QED BY <2>4 DEF Placed, PlacedPCs
<1>4. CASE BeginInit(t) \/ BeginUse(t)
  <2>1. /\ UNCHANGED <<extensions, offsets, initialized>>
        /\ pc' = [pc EXCEPT ![t] = "n_initializing"] \/ pc' = [pc EXCEPT ![t] = "u_lookup"]
    BY <1>4, Zenon DEF BeginInit, BeginUse, Goto, Calm, config, flags
  <2>2. e \in Threads /\ pc'[e] \in PlacedPCs => pc[e] \in PlacedPCs
    BY <1>0, <2>1 DEF PlacedPCs
  <2> QED BY <2>1, <2>2, PlacedStays
<1>5. CASE \/ TestInitializing(t) \/ TestInitialized(t) \/ MarkInitializing(t)
           \/ Performed(t) \/ ClearInitializing(t)
  <2>1. /\ \E l \in {"idle", "u_lookup", "n_initialized", "n_mark", "n_perform",
                     "n_validate"} :
             pc' = [pc EXCEPT ![t] = l]
        /\ Calm
    BY <1>5, Zenon DEF TestInitializing, TestInitialized, MarkInitializing, Performed,
                       ClearInitializing, Goto, Returns
  <2>2. initialized' => initialized
    <3>1. CASE ClearInitializing(t)
      BY <1>0, <3>1 DEF ClearInitializing, Before
    <3>2. CASE ~ClearInitializing(t)
      BY <1>5, <3>2 DEF TestInitializing, TestInitialized, MarkInitializing, Performed,
                        AtStart, flags
    <3> QED BY <3>1, <3>2
  <2>3. e \in Threads /\ pc'[e] \in PlacedPCs => pc[e] \in PlacedPCs
    BY <1>0, <2>1 DEF PlacedPCs
  <2>4. Keeps
    BY <2>1 DEF Calm, config
  <2> QED BY <2>2, <2>3, <2>4, PlacedStays
<1>6. ASSUME ~Abort, Perform(t) PROVE Placed(e)'
  <2>1. pc[t] = "n_perform" /\ pc' = pc /\ UNCHANGED flags
    BY <1>6, Zenon DEF Perform
  <2>2. ~initialized /\ t = e
    BY <1>0, <2>1 DEF After, AfterPCs, Before
  <2> QED BY <2>1, <2>2 DEF Placed, PlacedPCs, flags
<1>7. CASE \/ Validate(t) /\ ~Abort
           \/ Make(t, "selectors", "n_selectors", "n_offsets")
  <2>1. /\ \E l \in {"n_selectors", "n_offsets"} : pc' = [pc EXCEPT ![t] = l]
        /\ UNCHANGED <<flags, extensions, offsets>>
    BY <1>7, Zenon DEF Validate, Make, Goto, config
  <2>2. e \in Threads /\ pc'[e] \in PlacedPCs => pc[e] \in PlacedPCs
    BY <1>0, <2>1 DEF PlacedPCs
  <2> QED BY <2>1, <2>2, PlacedStays DEF flags
<1>8. CASE CacheOffsets(t)
  <2>1. /\ classOffset' = Stored(classOffset, ClassSpace)
        /\ objectOffset' = Stored(objectOffset, ObjectSpace)
        /\ extensions' = extensions
    BY <1>8 DEF CacheOffsets, config
  <2>2. /\ extensions \in Seq(Exts)
        /\ classOffset \in [Exts -> Nat] /\ objectOffset \in [Exts -> Nat]
        /\ ClassSpace \in [Exts -> Nat] /\ ObjectSpace \in [Exts -> Nat]
    BY InitAssumption DEF TypeOK
  <2>3. /\ Apart(Stored(classOffset, ClassSpace), ClassSpace)
        /\ Apart(Stored(objectOffset, ObjectSpace), ObjectSpace)
    BY <2>2, StoredApart
  <2>4. Apart(classOffset, ClassSpace)' /\ Apart(objectOffset, ObjectSpace)'
    BY <2>1, <2>3 DEF Apart, Elems
  <2> QED BY <2>4 DEF Placed
<1>9. CASE \/ Make(t, "lock", "n_lock", "n_classes")
           \/ Make(t, "classes", "n_classes", "n_list")
           \/ Make(t, "list", "n_list", "n_bases")
           \/ InstallBaseClasses(t) /\ ~NullUse
           \/ MarkInitialized(t)
  <2>1. /\ pc[t] \in PlacedPCs
        /\ \E l : pc' = [pc EXCEPT ![t] = l]
        /\ UNCHANGED <<extensions, offsets>>
    BY <1>9, Zenon DEF Make, InstallBaseClasses, MarkInitialized, Goto, Calm, config, PlacedPCs
  <2>2. initialized \/ t = e
    BY <1>0, <2>1 DEF Before, PlacedPCs
  <2> QED BY <2>1, <2>2, PlacedStays
<1>10. CASE Use(t) /\ ~NullUse
  <2>1. /\ pc' = [pc EXCEPT ![t] = "idle"]
        /\ UNCHANGED <<flags, extensions, offsets>>
    BY <1>10, Zenon DEF Use, Goto, config
  <2>2. e \in Threads /\ pc'[e] \in PlacedPCs => pc[e] \in PlacedPCs
    BY <1>0, <2>1 DEF PlacedPCs
  <2> QED BY <2>1, <2>2, PlacedStays DEF flags
<1> QED BY <1>1, <1>2, <1>3, <1>4, <1>5, <1>6, <1>7, <1>8, <1>9, <1>10
        DEF Call, Step, InitStep, SetNullSetup

(* class.c:176 and 199, the walks that store the offsets: once there is a  *)
(* holder of classes, the areas of two extensions never overlap, whoever   *)
(* added them, in which order and of which sizes.                          *)
THEOREM ExtensionAreasApart ==
  ASSUME NEW e, Early \subseteq {e} PROVE Spec => []AreasApart
<1>1. Init => Placed(e)
  BY DEF Init, Placed, PlacedPCs
<1>2. TypeOK /\ Inv(e) /\ Placed(e) /\ [Next]_vars => Placed(e)'
  <2> SUFFICES ASSUME TypeOK, Inv(e), Placed(e), [Next]_vars PROVE Placed(e)'
    OBVIOUS
  <2>1. ASSUME NEW t \in Threads, Call(t) \/ Step(t) PROVE Placed(e)'
    BY <2>1, StepPlaced
  <2>2. CASE UNCHANGED vars
    BY <2>2, PlacedStays DEF vars, config, flags
  <2> QED BY <2>1, <2>2 DEF Next
<1>3. Inv(e) /\ Placed(e) => AreasApart
  <2> SUFFICES ASSUME Inv(e), Placed(e), made["classes"] # <<>>
               PROVE  initialized \/ (e \in Threads /\ pc[e] \in PlacedPCs)
    BY DEF AreasApart, Placed
  <2>1. ASSUME ~initialized PROVE e \in Threads /\ pc[e] \in PlacedPCs
    BY <2>1, StructuresAre DEF Inv, Before, MadeAt, PlacedPCs
  <2> QED BY <2>1
<1> QED BY <1>1, <1>2, <1>3, OneStarter, RuntimeTypes, PTL DEF Spec
=============================================================================
