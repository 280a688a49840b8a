------------------------------ MODULE OrderProofs ------------------------------
(***************************************************************************)
(* That Ascending orders a set, what follows for finite sets of numbers    *)
(* (they have a least and a greatest member), and what the arrangements of *)
(* a set have in common.                                                   *)
(***************************************************************************)
EXTENDS Order, SequencesExt, FiniteSetTheorems, TLAPS

(* The members up to x are counted by their place in the order.            *)
LEMMA Ranks ==
    ASSUME NEW S \in SUBSET Int, IsFiniteSet(S), NEW x \in S
    PROVE  /\ Cardinality({y \in S : y <= x}) \in 1..Cardinality(S)
           /\ \A z \in S : x < z =>
                 Cardinality({y \in S : y <= x}) < Cardinality({y \in S : y <= z})
<1> DEFINE upTo(z) == {y \in S : y <= z}
<1>1. \A z \in S : IsFiniteSet(upTo(z)) /\ Cardinality(upTo(z)) \in Nat
                   /\ Cardinality(upTo(z)) <= Cardinality(S)
  <2>1. \A z \in S : upTo(z) \in SUBSET S
    OBVIOUS
  <2>2. QED
    BY <2>1, FS_Subset, FS_CardinalityType
<1>2. Cardinality(upTo(x)) # 0
  BY <1>1, FS_EmptySet
<1>3. ASSUME NEW z \in S, x < z PROVE Cardinality(upTo(x)) < Cardinality(upTo(z))
  <2>1. \A y \in S : y <= x => y <= z
    BY <1>3
  <2>2. z \in upTo(z) /\ z \notin upTo(x)
    BY <1>3
  <2>3. upTo(x) \in SUBSET upTo(z)
    BY <2>1
  <2>4. upTo(x) # upTo(z)
    BY <2>2
  <2>5. QED
    BY <1>1, <2>3, <2>4, FS_Subset
<1>4. Cardinality(S) \in Nat
  BY FS_CardinalityType
<1>5. QED
  BY <1>1, <1>2, <1>3, <1>4

(* Ascending(S) has each member of S once, the smaller before the larger.  *)
THEOREM AscendingOrders ==
    ASSUME NEW S \in SUBSET Int, IsFiniteSet(S)
    PROVE  /\ Ascending(S) \in Seq(S) /\ Len(Ascending(S)) = Cardinality(S)
           /\ DOMAIN Ascending(S) = 1..Cardinality(S)
           /\ \A x \in S : \E n \in DOMAIN Ascending(S) : Ascending(S)[n] = x
           /\ \A i, j \in DOMAIN Ascending(S) : i < j => Ascending(S)[i] < Ascending(S)[j]
<1> DEFINE n == Cardinality(S)
           rank == [x \in S |-> Cardinality({y \in S : y <= x})]
<1>1. n \in Nat
  BY FS_CardinalityType
<1>2. \A x \in S : rank[x] \in 1..n
  BY Ranks
<1>3. \A x, z \in S : x < z => rank[x] < rank[z]
  BY Ranks
<1>4. \A x, z \in S : x # z => rank[x] # rank[z]
  BY <1>1, <1>2, <1>3
<1>5. rank \in Injection(S, 1..n)
  BY <1>2, <1>4 DEF Injection, IsInjective
<1>6. IsFiniteSet(1..n) /\ Cardinality(1..n) = n
  BY <1>1, FS_Interval
<1>7. rank \in Surjection(S, 1..n)
  BY <1>5, <1>6, FS_Injection
<1>8. \A i \in 1..n : \E x \in S : rank[x] = i
  BY <1>7 DEF Surjection
<1>9. \A i \in 1..n : Ascending(S)[i] = CHOOSE x \in S : rank[x] = i
  BY DEF Ascending
<1>10. \A i \in 1..n : Ascending(S)[i] \in S /\ rank[Ascending(S)[i]] = i
  BY <1>8, <1>9
<1>11. Ascending(S) \in [1..n -> S] /\ DOMAIN Ascending(S) = 1..n
  BY <1>10 DEF Ascending
<1>12. \A x \in S : Ascending(S)[rank[x]] = x
  BY <1>2, <1>4, <1>10
<1> HIDE DEF rank, n
<1>13. \A i, j \in 1..n : i < j => Ascending(S)[i] < Ascending(S)[j]
  <2> SUFFICES ASSUME NEW i \in 1..n, NEW j \in 1..n, i < j
               PROVE  Ascending(S)[i] < Ascending(S)[j]
    OBVIOUS
  <2>1. PICK a \in S, b \in S :
           a = Ascending(S)[i] /\ b = Ascending(S)[j] /\ rank[a] = i /\ rank[b] = j
    BY <1>10
  <2>2. a \in Int /\ b \in Int /\ i \in Int /\ j \in Int
    BY <1>1
  <2>3. b < a => j < i
    BY <1>3, <2>1
  <2>4. a < b
    BY <2>1, <2>2, <2>3
  <2>5. QED
    BY <2>1, <2>4
<1>14. Ascending(S) \in Seq(S) /\ Len(Ascending(S)) = n
  BY <1>1, <1>11
<1>15. QED
  BY <1>2, <1>11, <1>12, <1>13, <1>14 DEF n

LEMMA LeastAndGreatest ==
    ASSUME NEW S \in SUBSET Int, IsFiniteSet(S), S # {}
    PROVE  /\ \E m \in S : \A x \in S : m <= x
           /\ \E m \in S : \A x \in S : x <= m
<1> DEFINE n == Cardinality(S)
           s == Ascending(S)
<1>1. n \in Nat /\ n # 0
  BY FS_CardinalityType, FS_EmptySet
<1>2. /\ \A i \in 1..n : s[i] \in S
      /\ \A x \in S : \E i \in 1..n : s[i] = x
      /\ \A i, j \in 1..n : i < j => s[i] < s[j]
  BY AscendingOrders
<1> HIDE DEF s, n
<1>3. \A x \in S : s[1] <= x /\ x <= s[n]
  <2> TAKE x \in S
  <2>1. PICK i \in 1..n : s[i] = x
    BY <1>2
  <2>2. 1 \in 1..n /\ n \in 1..n /\ (i = 1 \/ 1 < i) /\ (i = n \/ i < n)
    BY <1>1
  <2>3. s[1] \in Int /\ s[n] \in Int /\ s[i] \in Int
    BY <1>2, <2>2
  <2>4. (i = 1 \/ s[1] < s[i]) /\ (i = n \/ s[i] < s[n])
    BY <1>2, <2>2
  <2>5. QED
    BY <2>1, <2>2, <2>3, <2>4
<1>4. s[1] \in S /\ s[n] \in S
  BY <1>1, <1>2
<1>5. QED
  BY <1>3, <1>4

(* The first n natural numbers in order.                                   *)
LEMMA AscendingInterval ==
    ASSUME NEW n \in Nat
    PROVE  /\ Cardinality(0..(n - 1)) = n /\ IsFiniteSet(0..(n - 1))
           /\ \A i \in 1..n : Ascending(0..(n - 1))[i] = i - 1
<1> DEFINE S == 0..(n - 1)
<1>1. IsFiniteSet(S) /\ Cardinality(S) = n
  BY FS_Interval
<1>2. ASSUME NEW x \in S PROVE Cardinality({y \in S : y <= x}) = x + 1
  <2>1. {y \in S : y <= x} = 0..x
    OBVIOUS
  <2>2. Cardinality(0..x) = x + 1
    BY FS_Interval
  <2>3. QED
    BY <2>1, <2>2
<1>3. ASSUME NEW i \in 1..n PROVE Ascending(S)[i] = i - 1
  <2>1. Ascending(S)[i] = CHOOSE x \in S : Cardinality({y \in S : y <= x}) = i
    BY <1>1 DEF Ascending
  <2>2. i - 1 \in S
    OBVIOUS
  <2>3. \A x \in S : Cardinality({y \in S : y <= x}) = i <=> x = i - 1
    BY <1>2
  <2>4. QED
    BY <2>1, <2>2, <2>3
<1>4. QED
  BY <1>1, <1>3

(* The arrangements of a finite set: there is one, and each has every      *)
(* member once.                                                            *)
LEMMA Arrangements ==
    ASSUME NEW S, IsFiniteSet(S)
    PROVE  /\ SetToSeqs(S) # {}
           /\ \A s \in SetToSeqs(S) :
                 /\ s \in Seq(S) /\ Len(s) = Cardinality(S) /\ DOMAIN s = 1..Cardinality(S)
                 /\ Range(s) = S
<1> DEFINE n == Cardinality(S)
<1>1. n \in Nat /\ ExistsBijection(1..n, S)
  BY FS_CardinalityType
<1>2. SetToSeqs(S) # {}
  <2>1. PICK f : f \in Bijection(1..n, S)
    BY <1>1 DEF ExistsBijection
  <2>2. f \in SetToSeqs(S)
    BY <2>1 DEF Bijection, Injection, IsInjective, SetToSeqs
  <2>3. QED
    BY <2>2
<1>3. ASSUME NEW s \in SetToSeqs(S)
      PROVE  s \in Seq(S) /\ Len(s) = n /\ DOMAIN s = 1..n /\ Range(s) = S
  <2>1. s \in [1..n -> S] /\ \A i, j \in 1..n : i # j => s[i] # s[j]
    BY DEF SetToSeqs
  <2>2. s \in Injection(1..n, S)
    BY <2>1 DEF Injection, IsInjective
  <2>3. Cardinality(1..n) = Cardinality(S)
    BY <1>1, FS_Interval
  <2>4. s \in Surjection(1..n, S)
    BY <2>2, <2>3, FS_Injection
  <2>5. Range(s) = S
    BY <2>1, <2>4 DEF Surjection, Range
  <2>6. QED
    BY <1>1, <2>1, <2>5
<1>4. QED
  BY <1>2, <1>3
================================================================================
