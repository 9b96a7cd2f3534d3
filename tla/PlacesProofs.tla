----------------------------- MODULE PlacesProofs -----------------------------
(***************************************************************************)
(* Lemmas about lists and places (Places), and the least number of a set,    *)
(* which is what induction over numbers comes to here.                      *)
(***************************************************************************)
EXTENDS Places, FiniteSetTheorems, SequenceTheorems, WellFoundedInduction, TLAPS

(* Least numbers: what is chosen as the least one exists.                     *)
LEMMA Least ==
  ASSUME NEW T, T \subseteq Nat, T # {}
  PROVE  \E n \in T : \A m \in T : n <= m
<1>. DEFINE Below == {ss \in Nat \X Nat : ss[1] < ss[2]}
<1>1. IsWellFoundedOn(Below, Nat)
  BY NatLessThanWellFounded, Zenon DEF OpToRel
<1>2. \E n \in T : \A m \in T : ~(<<m, n>> \in Below)
  <2>. HIDE DEF Below
  <2>. QED
    BY <1>1, WFMin, Zenon
<1>3. \A m, n \in T : <<m, n>> \in Below <=> m < n
  OBVIOUS
<1>. HIDE DEF Below
<1>4. PICK n \in T : \A m \in T : ~(m < n)
  BY <1>2, <1>3
<1>. QED
  BY <1>4

(* What KeptAt keeps: the places of keep, each once.                           *)
LEMMA NthPlace ==
  ASSUME NEW n \in Nat, NEW keep, keep \subseteq 1..n
  PROVE  /\ Cardinality(keep) \in Nat
         /\ \A m \in 1..Cardinality(keep) : Nth(keep, m) \in keep
         /\ \A m \in 1..Cardinality(keep), l \in 1..Cardinality(keep) :
              Nth(keep, m) = Nth(keep, l) => m = l
         /\ \A k \in keep : \E m \in 1..Cardinality(keep) : Nth(keep, m) = k
<1>. DEFINE Upto(k) == {j \in keep : j <= k}
            C == Cardinality(keep)
            rank == [k \in keep |-> Cardinality(Upto(k))]
<1>1. IsFiniteSet(keep) /\ C \in Nat
  BY FS_Interval, FS_Subset, FS_CardinalityType, 1 \in Int, n \in Int
<1>2. ASSUME NEW k \in keep
      PROVE  IsFiniteSet(Upto(k)) /\ Cardinality(Upto(k)) \in 1..C
  <2>1. Upto(k) \in SUBSET keep /\ Upto(k) # {}
    OBVIOUS
  <2>. HIDE DEF Upto
  <2>. QED
    BY <1>1, <2>1, FS_Subset, FS_CardinalityType, FS_EmptySet
<1>3. ASSUME NEW j \in keep, NEW k \in keep, j < k
      PROVE  Cardinality(Upto(j)) # Cardinality(Upto(k))
  <2>1. j \in Nat /\ k \in Nat /\ keep \subseteq Nat
    OBVIOUS
  <2>2. k \in Upto(k) /\ k \notin Upto(j)
    BY <1>3, <2>1
  <2>3. Upto(j) \subseteq Upto(k)
    <3>1. \A i \in keep : i <= j => i <= k
      BY <1>3, <2>1
    <3>. QED
      BY <3>1
  <2>. HIDE DEF Upto
  <2>. QED
    BY <1>2, <2>2, <2>3, FS_Subset
<1>4. ASSUME NEW j \in keep, NEW k \in keep, Cardinality(Upto(j)) = Cardinality(Upto(k))
      PROVE  j = k
  <2>. HIDE DEF Upto
  <2>. QED
    BY <1>3, <1>4
<1>5. rank \in Injection(keep, 1..C)
  <2>. HIDE DEF Upto
  <2>. QED
    BY <1>2, <1>4 DEF Injection, IsInjective
<1>6. rank \in Surjection(keep, 1..C)
  <2>1. IsFiniteSet(1..C) /\ Cardinality(1..C) = C
    BY <1>1, FS_Interval
  <2>. HIDE DEF rank
  <2>. QED
    BY <1>1, <1>5, <2>1, FS_Injection
<1>7. \A m \in 1..C : \E k \in keep : Cardinality(Upto(k)) = m
  <2>. HIDE DEF Upto
  <2>. QED
    BY <1>6 DEF Surjection
<1>8. \A m \in 1..C : Nth(keep, m) \in keep /\ Cardinality(Upto(Nth(keep, m))) = m
  BY <1>7, Zenon DEF Nth
<1>. HIDE DEF Upto
<1>. QED
  BY <1>1, <1>2, <1>4, <1>8

(* Retain keeps nothing but, everything of, and nothing twice of what is     *)
(* kept.                                                                     *)
LEMMA KeptSeq ==
  ASSUME NEW S, NEW s \in Seq(S), NEW keep \in SUBSET (DOMAIN s)
  PROVE  /\ KeptAt(s, keep) \in Seq(S)
         /\ \A m \in DOMAIN KeptAt(s, keep) : \E k \in keep : KeptAt(s, keep)[m] = s[k]
         /\ \A k \in keep : \E m \in DOMAIN KeptAt(s, keep) : KeptAt(s, keep)[m] = s[k]
         /\ \A l, m \in DOMAIN KeptAt(s, keep) : l # m =>
              \E j, k \in keep : j # k /\ KeptAt(s, keep)[l] = s[j] /\ KeptAt(s, keep)[m] = s[k]
<1>1. DOMAIN s = 1..Len(s) /\ Len(s) \in Nat
  OBVIOUS
<1>2. /\ Cardinality(keep) \in Nat
      /\ \A m \in 1..Cardinality(keep) : Nth(keep, m) \in keep
      /\ \A m \in 1..Cardinality(keep), l \in 1..Cardinality(keep) :
           Nth(keep, m) = Nth(keep, l) => m = l
      /\ \A k \in keep : \E m \in 1..Cardinality(keep) : Nth(keep, m) = k
  BY <1>1, NthPlace
<1>3. /\ DOMAIN KeptAt(s, keep) = 1..Cardinality(keep)
      /\ \A m \in 1..Cardinality(keep) : KeptAt(s, keep)[m] = s[Nth(keep, m)]
  BY DEF KeptAt
<1>4. KeptAt(s, keep) \in Seq(S)
  <2>1. \A m \in 1..Cardinality(keep) : s[Nth(keep, m)] \in S
    BY <1>1, <1>2
  <2>2. KeptAt(s, keep) \in [1..Cardinality(keep) -> S]
    BY <2>1 DEF KeptAt
  <2>. QED
    BY <1>2, <2>2, SeqDef
<1>. HIDE DEF KeptAt
<1>. QED
  BY <1>2, <1>3, <1>4
=============================================================================
