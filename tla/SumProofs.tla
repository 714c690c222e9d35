------------------------------ MODULE SumProofs ------------------------------
(***************************************************************************)
(* What Sums returns for any sequence of numbers.  tlapm knows a recursive *)
(* function only as the choice of a function that satisfies its equation,  *)
(* so that such a function exists is the first thing to prove; induction   *)
(* is by the least number for which a fact fails.                          *)
(***************************************************************************)
EXTENDS Sums, Naturals, SequenceTheorems, WellFoundedInduction, TLAPS

LEMMA LeastExists ==
  ASSUME NEW Bad \in SUBSET Nat, Bad # {}
  PROVE  \E k \in Bad : \A j \in Bad : k <= j
<1>1. PICK k \in Bad : \A j \in Bad : ~(<<j, k>> \in OpToRel(<, Nat))
  BY NatLessThanWellFounded, WFMin
<1>2. \A j \in Bad : ~(j < k)
  <2>1. k \in Nat /\ \A j \in Bad : j \in Nat
    OBVIOUS
  <2> QED BY <1>1, <2>1, Zenon DEF OpToRel
<1> QED BY <1>2

LEMMA SumsExist ==
  ASSUME NEW n \in Nat, NEW s \in [1..n -> Nat]
  PROVE  \E f : f = [i \in 0..n |-> IF i = 0 THEN 0 ELSE f[i - 1] + s[i]]
<1> DEFINE P(k) == \E f \in [0..k -> Nat] :
                     \A i \in 0..k : f[i] = IF i = 0 THEN 0 ELSE f[i - 1] + s[i]
           Bad == {k \in 0..n : ~P(k)}
<1>1. ASSUME Bad # {} PROVE FALSE
  <2>1. PICK k \in Bad : \A j \in Bad : k <= j
    <3>1. Bad \in SUBSET Nat
      OBVIOUS
    <3> HIDE DEF Bad
    <3> QED BY <1>1, <3>1, LeastExists
  <2>2. k # 0
    <3>1. P(0)
      <4>1. /\ [i \in 0..0 |-> 0] \in [0..0 -> Nat]
            /\ \A i \in 0..0 : [j \in 0..0 |-> 0][i] =
                 IF i = 0 THEN 0 ELSE [j \in 0..0 |-> 0][i - 1] + s[i]
        OBVIOUS
      <4> QED BY <4>1
    <3> QED BY <3>1
  <2>3. P(k - 1)
    <3>1. k - 1 \in 0..n /\ ~(k <= k - 1)
      BY <2>2
    <3> HIDE DEF P
    <3> QED BY <2>1, <3>1
  <2>4. PICK f \in [0..(k - 1) -> Nat] :
          \A i \in 0..(k - 1) : f[i] = IF i = 0 THEN 0 ELSE f[i - 1] + s[i]
    BY <2>3
  <2> DEFINE g == [i \in 0..k |-> IF i = k THEN f[k - 1] + s[k] ELSE f[i]]
  <2>5. k \in 1..n
    BY <2>2
  <2>6. g \in [0..k -> Nat]
    BY <2>4, <2>5
  <2>7. \A i \in 0..k : g[i] = IF i = 0 THEN 0 ELSE g[i - 1] + s[i]
    BY SMTT(30), <2>4, <2>5
  <2>8. P(k)
    <3> HIDE DEF g
    <3> QED BY <2>6, <2>7
  <2> QED BY <2>8
<1>2. P(n)
  <2> HIDE DEF P
  <2> QED BY <1>1
<1>3. PICK f \in [0..n -> Nat] : \A i \in 0..n : f[i] = IF i = 0 THEN 0 ELSE f[i - 1] + s[i]
  BY <1>2
<1>4. f = [i \in 0..n |-> IF i = 0 THEN 0 ELSE f[i - 1] + s[i]]
  BY <1>3
<1> QED BY <1>4

(* The sums start at zero, and each is the one before and a number of s. *)
LEMMA SumsAre ==
  ASSUME NEW s \in Seq(Nat)
  PROVE  /\ Sums(s) \in [0..Len(s) -> Nat] /\ Sums(s)[0] = 0
         /\ \A i \in 1..Len(s) : Sums(s)[i] = Sums(s)[i - 1] + s[i]
<1> DEFINE n == Len(s)
           IsSum(f) == f = [i \in 0..n |-> IF i = 0 THEN 0 ELSE f[i - 1] + s[i]]
<1>1. n \in Nat /\ s \in [1..n -> Nat]
  BY LenProperties
<1>2. \E f : IsSum(f)
  BY <1>1, SumsExist
<1>3. PICK f : f = Sums(s) /\ IsSum(f)
  <2>1. Sums(s) = CHOOSE f : IsSum(f)
    BY DEF Sums
  <2> HIDE DEF IsSum
  <2> QED BY <1>2, <2>1
<1>4. \A i \in 0..n : f[i] = IF i = 0 THEN 0 ELSE f[i - 1] + s[i]
  BY <1>3
<1>5. ASSUME NEW i \in 0..n, f[i] \notin Nat PROVE FALSE
  <2> DEFINE Bad == {j \in 0..n : f[j] \notin Nat}
  <2>1. PICK k \in Bad : \A j \in Bad : k <= j
    <3>1. Bad \in SUBSET Nat /\ Bad # {}
      BY <1>5
    <3> HIDE DEF Bad
    <3> QED BY <3>1, LeastExists
  <2>2. k # 0 /\ k \in 0..n /\ f[k] \notin Nat
    BY <1>1, <1>4
  <2>3. f[k - 1] \in Nat
    BY <1>1, <2>1, <2>2
  <2> QED BY <1>1, <1>4, <2>2, <2>3
<1>6. f \in [0..n -> Nat]
  <2>1. f = [i \in 0..n |-> f[i]]
    BY <1>3
  <2> QED BY <1>5, <2>1
<1>7. f[0] = 0 /\ \A i \in 1..n : f[i] = f[i - 1] + s[i]
  BY <1>1, <1>4
<1> QED BY <1>3, <1>6, <1>7

(* They never fall. *)
LEMMA SumsGrow ==
  ASSUME NEW s \in Seq(Nat), NEW i \in 0..Len(s), NEW j \in i..Len(s)
  PROVE  Sums(s)[i] <= Sums(s)[j]
<1>1. PICK f \in [0..Len(s) -> Nat] :
        f = Sums(s) /\ \A k \in 1..Len(s) : f[k] = f[k - 1] + s[k]
  BY SumsAre
<1>2. Len(s) \in Nat /\ \A k \in 1..Len(s) : s[k] \in Nat
  BY LenProperties
<1> DEFINE Bad == {k \in i..Len(s) : ~(f[i] <= f[k])}
<1>3. ASSUME Bad # {} PROVE FALSE
  <2>1. PICK k \in Bad : \A m \in Bad : k <= m
    <3>1. Bad \in SUBSET Nat
      BY <1>2
    <3> HIDE DEF Bad
    <3> QED BY <1>3, <3>1, LeastExists
  <2>2. k \in i..Len(s) /\ k # i /\ ~(f[i] <= f[k])
    BY <1>2
  <2>3. k \in 1..Len(s) /\ k - 1 \in i..Len(s) /\ ~(k <= k - 1)
    BY <1>2, <2>2
  <2>4. f[i] <= f[k - 1]
    BY <2>1, <2>3
  <2>5. f[k] = f[k - 1] + s[k] /\ s[k] \in Nat /\ f[k - 1] \in Nat /\ f[i] \in Nat
    <3>1. i \in 0..Len(s) /\ k - 1 \in 0..Len(s)
      BY <1>2, <2>3
    <3> QED BY <1>1, <1>2, <2>3, <3>1
  <2> QED BY <2>2, <2>4, <2>5
<1> QED BY <1>1, <1>3
=============================================================================
