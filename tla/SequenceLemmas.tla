--------------------------- MODULE SequenceLemmas ---------------------------
(***************************************************************************)
(* Facts about sequences and numbers that the proofs of several modules    *)
(* use.                                                                    *)
(***************************************************************************)
EXTENDS Integers, Sequences, SequencesExt, SequenceTheorems, FiniteSetTheorems,
        WellFoundedInduction, TLAPS

(* Taking the element at k off a list leaves the others in their order. *)
LEMMA RemoveAtProperties ==
  ASSUME NEW X, NEW s \in Seq(X), NEW k \in 1..Len(s)
  PROVE  /\ RemoveAt(s, k) \in Seq(X)
         /\ Len(RemoveAt(s, k)) = Len(s) - 1
         /\ \A i \in 1..(Len(s) - 1) :
              RemoveAt(s, k)[i] = IF i < k THEN s[i] ELSE s[i + 1]
<1> DEFINE a == SubSeq(s, 1, k - 1)
           b == SubSeq(s, k + 1, Len(s))
<1>0. Len(s) \in Nat /\ \A i \in 1..Len(s) : s[i] \in X
  OBVIOUS
<1>1. /\ a \in Seq(X)
      /\ Len(a) = k - 1
      /\ \A i \in 1..(k - 1) : a[i] = s[i]
  BY <1>0
<1>2. /\ b \in Seq(X)
      /\ Len(b) = Len(s) - k
      /\ \A i \in 1..(Len(s) - k) : b[i] = s[k + i]
  BY <1>0
<1>3. /\ a \o b \in Seq(X)
      /\ Len(a \o b) = Len(a) + Len(b)
      /\ \A i \in 1..(Len(a) + Len(b)) :
           (a \o b)[i] = IF i <= Len(a) THEN a[i] ELSE b[i - Len(a)]
  BY <1>1, <1>2, ConcatProperties
<1> HIDE DEF a, b
<1>4. Len(a \o b) = Len(s) - 1
  BY <1>0, <1>1, <1>2, <1>3
<1>5. ASSUME NEW i \in 1..(Len(s) - 1)
      PROVE  (a \o b)[i] = IF i < k THEN s[i] ELSE s[i + 1]
  <2>1. CASE i < k
    BY <2>1, <1>0, <1>1, <1>2, <1>3
  <2>2. CASE ~(i < k)
    <3>1. i - Len(a) \in 1..(Len(s) - k) /\ k + (i - Len(a)) = i + 1
      BY <2>2, <1>0, <1>1
    <3>2. (a \o b)[i] = b[i - Len(a)]
      BY <2>2, <1>0, <1>1, <1>2, <1>3
    <3> QED
      BY <2>2, <3>1, <3>2, <1>2
  <2> QED
    BY <2>1, <2>2
<1> QED
  BY <1>3, <1>4, <1>5 DEF RemoveAt, a, b

(* Replacing the element at n keeps the others. *)
LEMMA ReplaceElement ==
  ASSUME NEW X, NEW s \in Seq(X), NEW n \in 1..Len(s), NEW x \in X
  PROVE  /\ [s EXCEPT ![n] = x] \in Seq(X)
         /\ Len([s EXCEPT ![n] = x]) = Len(s)
         /\ [s EXCEPT ![n] = x][n] = x
         /\ \A k \in 1..Len(s) : k # n => [s EXCEPT ![n] = x][k] = s[k]
OBVIOUS

(* Every set of natural numbers has a least element, and Min is it. *)
LEMMA LeastElement ==
  ASSUME NEW T, T \subseteq Nat, T # {}
  PROVE  \E n \in T : \A m \in T : n <= m
<1>1. IsWellFoundedOn(OpToRel(<, Nat), Nat)
  BY NatLessThanWellFounded
<1>2. PICK n \in T : \A m \in T : ~(<<m, n>> \in OpToRel(<, Nat))
  BY <1>1, WFMin
<1>3. \A m \in T : ~(m < n)
  BY <1>2 DEF OpToRel
<1> QED
  BY <1>3

LEMMA MinIn ==
  ASSUME NEW T, T \subseteq Nat, T # {}
  PROVE  Min(T) \in T /\ \A m \in T : Min(T) <= m
<1>1. PICK n \in T : \A m \in T : n <= m
  BY LeastElement
<1> QED
  BY <1>1 DEF Min

(* Where a sort puts the elements: B[i] are those before the one at i. *)
LEMMA Ranks ==
  ASSUME NEW n \in Nat, NEW B \in [1..n -> SUBSET (1..n)],
         \A i \in 1..n : i \notin B[i],
         \A i, j \in 1..n : i # j => i \in B[j] \/ j \in B[i],
         \A i, j \in 1..n : i \in B[j] => B[i] \subseteq B[j]
  PROVE  /\ \A i \in 1..n : Cardinality(B[i]) + 1 \in 1..n
         /\ \A i, j \in 1..n : i \in B[j] => Cardinality(B[i]) < Cardinality(B[j])
         /\ \A i, j \in 1..n : Cardinality(B[i]) = Cardinality(B[j]) => i = j
         /\ \A k \in 1..n : \E i \in 1..n : Cardinality(B[i]) + 1 = k
<1> DEFINE P == [i \in 1..n |-> Cardinality(B[i]) + 1]
<1>1. IsFiniteSet(1..n) /\ Cardinality(1..n) = n
  BY FS_Interval
<1>2. \A i \in 1..n : /\ IsFiniteSet(B[i]) /\ Cardinality(B[i]) \in Nat
                      /\ Cardinality(B[i]) < n
  <2> TAKE i \in 1..n
  <2>1. B[i] \in SUBSET (1..n) /\ B[i] # 1..n
    OBVIOUS
  <2>2. IsFiniteSet(B[i]) /\ Cardinality(B[i]) <= n /\ Cardinality(B[i]) # n
    BY <1>1, <2>1, FS_Subset
  <2>3. Cardinality(B[i]) \in Nat
    BY <2>2, FS_CardinalityType
  <2> QED
    BY <2>2, <2>3
<1>3. \A i \in 1..n : Cardinality(B[i]) + 1 \in 1..n
  BY <1>2
<1>4. \A i, j \in 1..n : i \in B[j] => Cardinality(B[i]) < Cardinality(B[j])
  <2> SUFFICES ASSUME NEW i \in 1..n, NEW j \in 1..n, i \in B[j]
               PROVE  Cardinality(B[i]) < Cardinality(B[j])
    OBVIOUS
  <2>1. B[i] \in SUBSET B[j] /\ B[i] # B[j]
    OBVIOUS
  <2>2. Cardinality(B[i]) <= Cardinality(B[j]) /\ Cardinality(B[i]) # Cardinality(B[j])
    BY <1>2, <2>1, FS_Subset
  <2> QED
    BY <1>2, <2>2
<1>5. \A i, j \in 1..n : Cardinality(B[i]) = Cardinality(B[j]) => i = j
  BY <1>2, <1>4
<1>6. P \in Injection(1..n, 1..n)
  <2>1. P \in [1..n -> 1..n]
    BY <1>3
  <2>2. \A i, j \in 1..n : P[i] = P[j] => i = j
    BY <1>2, <1>5
  <2> QED
    BY <2>1, <2>2 DEF Injection, IsInjective
<1>7. P \in Surjection(1..n, 1..n)
  BY <1>1, <1>6, FS_Injection
<1>8. \A k \in 1..n : \E i \in 1..n : P[i] = k
  BY <1>7 DEF Surjection
<1> QED
  BY <1>3, <1>4, <1>5, <1>8
=============================================================================
