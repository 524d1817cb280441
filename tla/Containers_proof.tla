-------------------------- MODULE Containers_proof --------------------------
(***************************************************************************)
(* The two container libraries of Messenger_v2.                            *)
(*                                                                         *)
(* The doubly linked list, for every number of nodes and data: after any   *)
(* sequence of operations its links agree in both directions and lead to   *)
(* no node that was freed, and it implements the sequence it stands for;   *)
(* what the two sorts return is sorted, and stable.                        *)
(*                                                                         *)
(* The AVL tree, for every number of keys and every set of values: its     *)
(* heights and its order stay right whatever is deleted, it stays balanced *)
(* until a deletion loses keys, no insertion into it dereferences NULL     *)
(* until then, and it implements the table of keys it stands for.  What    *)
(* its recursive functions do is proved at a least counterexample: the     *)
(* smallest height, or the first step, at which it would be wrong.         *)
(***************************************************************************)
EXTENDS Containers, SequenceLemmas

-----------------------------------------------------------------------------
(* Sequences with one element more or less *)

Ins(s, k, x) ==
  [j \in 1..(Len(s) + 1) |-> IF j < k THEN s[j] ELSE IF j = k THEN x ELSE s[j - 1]]
Del(s, k) == [j \in 1..(Len(s) - 1) |-> IF j < k THEN s[j] ELSE s[j + 1]]

LEMMA InsProperties ==
  ASSUME NEW S, NEW s \in Seq(S), NEW k \in 1..(Len(s) + 1), NEW x \in S
  PROVE  /\ Ins(s, k, x) \in Seq(S) /\ Len(Ins(s, k, x)) = Len(s) + 1
         /\ \A j \in 1..(Len(s) + 1) :
              Ins(s, k, x)[j] = IF j < k THEN s[j] ELSE IF j = k THEN x ELSE s[j - 1]
<1>1. Len(s) \in Nat /\ \A j \in 1..Len(s) : s[j] \in S
  OBVIOUS
<1>2. ASSUME NEW j \in 1..(Len(s) + 1)
      PROVE  (IF j < k THEN s[j] ELSE IF j = k THEN x ELSE s[j - 1]) \in S
  <2>1. j < k => j \in 1..Len(s)
    BY <1>1
  <2>2. ~(j < k) /\ j # k => j - 1 \in 1..Len(s)
    BY <1>1
  <2> QED
    BY <1>1, <2>1, <2>2
<1>3. Ins(s, k, x) \in [1..(Len(s) + 1) -> S]
  BY <1>2 DEF Ins
<1> QED
  BY <1>1, <1>3 DEF Ins

LEMMA DelProperties ==
  ASSUME NEW S, NEW s \in Seq(S), NEW k \in 1..Len(s)
  PROVE  /\ Del(s, k) \in Seq(S) /\ Len(Del(s, k)) = Len(s) - 1
         /\ \A j \in 1..(Len(s) - 1) : Del(s, k)[j] = IF j < k THEN s[j] ELSE s[j + 1]
<1>1. Len(s) \in Nat /\ Len(s) - 1 \in Nat /\ \A j \in 1..Len(s) : s[j] \in S
  OBVIOUS
<1>2. \A j \in 1..(Len(s) - 1) : j \in 1..Len(s) /\ j + 1 \in 1..Len(s)
  BY <1>1
<1>3. Del(s, k) \in [1..(Len(s) - 1) -> S]
  BY <1>1, <1>2 DEF Del
<1> QED
  BY <1>1, <1>3 DEF Del

(* They are what the community module says. *)
LEMMA InsIsInsertAt ==
  ASSUME NEW S, NEW s \in Seq(S), NEW k \in 1..(Len(s) + 1), NEW x \in S
  PROVE  Ins(s, k, x) = SubSeq(s, 1, k - 1) \o <<x>> \o SubSeq(s, k, Len(s))
<1> DEFINE a == SubSeq(s, 1, k - 1)
           b == SubSeq(s, k, Len(s))
           c == a \o <<x>>
<1>0. Len(s) \in Nat
  OBVIOUS
<1>1. a \in Seq(S) /\ Len(a) = k - 1 /\ \A j \in 1..(k - 1) : a[j] = s[j]
  BY <1>0
<1>2. /\ b \in Seq(S) /\ Len(b) = Len(s) + 1 - k
      /\ \A j \in 1..(Len(s) + 1 - k) : b[j] = s[k - 1 + j]
  <2>1. CASE k = Len(s) + 1
    BY <1>0, <2>1
  <2>2. CASE k # Len(s) + 1
    BY <1>0, <2>2
  <2> QED
    BY <2>1, <2>2
<1>3. <<x>> \in Seq(S) /\ Len(<<x>>) = 1 /\ <<x>>[1] = x
  OBVIOUS
<1> HIDE DEF a, b
<1>4. /\ c \in Seq(S) /\ Len(c) = k
      /\ \A j \in 1..k : c[j] = IF j < k THEN s[j] ELSE x
  <2>1. /\ c \in Seq(S) /\ Len(c) = Len(a) + 1
        /\ \A j \in 1..(Len(a) + 1) : c[j] = IF j <= Len(a) THEN a[j] ELSE <<x>>[j - Len(a)]
    BY <1>1, <1>3, ConcatProperties
  <2>2. ASSUME NEW j \in 1..k
        PROVE  c[j] = IF j < k THEN s[j] ELSE x
    <3>1. CASE j < k
      BY <1>0, <1>1, <2>1, <3>1
    <3>2. CASE ~(j < k)
      <4>1. j - Len(a) = 1 /\ ~(j <= Len(a)) /\ j \in 1..(Len(a) + 1)
        BY <1>0, <1>1, <3>2
      <4> QED
        BY <1>3, <2>1, <3>2, <4>1
    <3> QED
      BY <3>1, <3>2
  <2> QED
    BY <1>0, <1>1, <2>1, <2>2
<1> HIDE DEF c
<1>5. /\ c \o b \in Seq(S) /\ Len(c \o b) = Len(c) + Len(b)
      /\ \A j \in 1..(Len(c) + Len(b)) : (c \o b)[j] = IF j <= Len(c) THEN c[j] ELSE b[j - Len(c)]
  BY <1>2, <1>4, ConcatProperties
<1>6. Len(c \o b) = Len(s) + 1
  BY <1>0, <1>2, <1>4, <1>5
<1>7. ASSUME NEW j \in 1..(Len(s) + 1)
      PROVE  (c \o b)[j] = IF j < k THEN s[j] ELSE IF j = k THEN x ELSE s[j - 1]
  <2>1. j \in 1..(Len(c) + Len(b))
    BY <1>0, <1>2, <1>4
  <2>2. CASE j <= k
    BY <1>4, <1>5, <2>1, <2>2
  <2>3. CASE ~(j <= k)
    <3>1. j - k \in 1..(Len(s) + 1 - k) /\ k - 1 + (j - k) = j - 1
      BY <1>0, <2>3
    <3>2. (c \o b)[j] = b[j - k]
      BY <1>4, <1>5, <2>1, <2>3
    <3>3. b[j - k] = s[j - 1]
      BY <1>2, <3>1
    <3> QED
      BY <2>3, <3>2, <3>3
  <2> QED
    BY <2>2, <2>3
<1>8. c \o b = [j \in 1..(Len(s) + 1) |-> (c \o b)[j]]
  <2> DEFINE e == c \o b
  <2>1. e \in Seq(S) /\ Len(e) = Len(s) + 1
    BY <1>5, <1>6
  <2> HIDE DEF e
  <2>2. e = [j \in 1..(Len(s) + 1) |-> e[j]]
    BY <2>1
  <2> QED
    BY <2>2 DEF e
<1>9. Ins(s, k, x) = c \o b
  BY <1>7, <1>8 DEF Ins
<1> QED
  BY <1>9 DEF a, b, c

LEMMA DelIsRemoveAt ==
  ASSUME NEW S, NEW s \in Seq(S), NEW k \in 1..Len(s)
  PROVE  Del(s, k) = SubSeq(s, 1, k - 1) \o SubSeq(s, k + 1, Len(s))
<1> DEFINE r == RemoveAt(s, k)
<1>1. /\ r \in Seq(S) /\ Len(r) = Len(s) - 1
      /\ \A j \in 1..(Len(s) - 1) : r[j] = IF j < k THEN s[j] ELSE s[j + 1]
  BY RemoveAtProperties
<1> HIDE DEF r
<1>2. r = [j \in 1..(Len(s) - 1) |-> r[j]]
  BY <1>1
<1>3. r = Del(s, k)
  BY <1>1, <1>2 DEF Del
<1> QED
  BY <1>3 DEF r, RemoveAt

-----------------------------------------------------------------------------
(* Walks *)

(* s are the nodes from n on, by the links f to NULL. *)
IsWalk(s, f, n) ==
  /\ n = IF Len(s) = 0 THEN Null ELSE s[1]
  /\ \A i \in 1..Len(s) : f[s[i]] = IF i = Len(s) THEN Null ELSE s[i + 1]

(* What Walk steps through has one value. *)
StepsAre(at, k, f, n) ==
  at = [i \in 1..k |-> IF i = 1 THEN n ELSE IF at[i - 1] = Null THEN Null ELSE f[at[i - 1]]]

LEMMA StepsUnique ==
  ASSUME NEW g, NEW h, NEW k \in Nat, NEW f, NEW n, StepsAre(g, k, f, n), StepsAre(h, k, f, n)
  PROVE  g = h
<1>1. /\ \A i \in 1..k : g[i] = IF i = 1 THEN n ELSE IF g[i - 1] = Null THEN Null ELSE f[g[i - 1]]
      /\ DOMAIN g = 1..k
  BY DEF StepsAre
<1>2. /\ \A i \in 1..k : h[i] = IF i = 1 THEN n ELSE IF h[i - 1] = Null THEN Null ELSE f[h[i - 1]]
      /\ DOMAIN h = 1..k
  BY DEF StepsAre
<1>3. \A i \in 1..k : g[i] = h[i]
  <2> DEFINE T == {i \in 1..k : g[i] # h[i]}
  <2>1. CASE T = {}
    BY <2>1
  <2>2. CASE T # {}
    <3>1. PICK i \in T : \A j \in T : i <= j
      <4>1. T \subseteq Nat
        OBVIOUS
      <4> HIDE DEF T
      <4> QED
        BY <2>2, <4>1, LeastElement
    <3>2. i \in 1..k /\ g[i] # h[i]
      BY <3>1
    <3>3. i # 1
      BY <1>1, <1>2, <3>2
    <3>4. i - 1 \in 1..k /\ i - 1 \notin T
      BY <3>1, <3>2, <3>3
    <3>5. g[i - 1] = h[i - 1]
      BY <3>4
    <3> QED
      BY <1>1, <1>2, <3>2, <3>3, <3>5
  <2> QED
    BY <2>1, <2>2
<1>4. g = [i \in 1..k |-> g[i]] /\ h = [i \in 1..k |-> h[i]]
  BY DEF StepsAre
<1> QED
  BY <1>3, <1>4

(* A walk that is there is the one that is found. *)
LEMMA WalkFound ==
  ASSUME NEW D, IsFiniteSet(D), NEW f, DOMAIN f = D, Null \notin D, NEW n,
         NEW s \in Seq(D), \A i, j \in 1..Len(s) : s[i] = s[j] => i = j, IsWalk(s, f, n)
  PROVE  Walk(f, n) = s
<1> DEFINE k == Cardinality(D) + 1
<1>1. Len(s) \in Nat /\ \A i \in 1..Len(s) : s[i] \in D
  OBVIOUS
<1>2. Cardinality(D) \in Nat
  BY FS_CardinalityType
<1>3. Len(s) <= Cardinality(D)
  <2> DEFINE g == [i \in 1..Len(s) |-> s[i]]
  <2>1. g \in Injection(1..Len(s), D)
    BY <1>1 DEF Injection, IsInjective
  <2>2. Cardinality(1..Len(s)) = Len(s)
    BY <1>1, FS_Interval
  <2> HIDE DEF g
  <2> QED
    BY <2>1, <2>2, FS_Injection
<1> DEFINE g == [i \in 1..k |-> IF i <= Len(s) THEN s[i] ELSE Null]
<1>4. StepsAre(g, k, f, n)
  <2>1. ASSUME NEW i \in 1..k
        PROVE  g[i] = IF i = 1 THEN n ELSE IF g[i - 1] = Null THEN Null ELSE f[g[i - 1]]
    <3>1. CASE i = 1
      BY <1>1, <3>1 DEF IsWalk
    <3>2. CASE i # 1
      <4>1. i - 1 \in 1..k /\ i - 1 \in Nat /\ (i - 1) + 1 = i
        BY <1>2, <3>2
      <4>2. CASE i - 1 <= Len(s)
        <5>1. i - 1 \in 1..Len(s)
          BY <1>1, <4>1, <4>2
        <5>2. g[i - 1] = s[i - 1] /\ s[i - 1] # Null
          BY <1>1, <4>1, <4>2, <5>1
        <5>3. f[s[i - 1]] = IF i - 1 = Len(s) THEN Null ELSE s[i]
          BY <4>1, <5>1 DEF IsWalk
        <5>4. g[i] = IF i - 1 = Len(s) THEN Null ELSE s[i]
          BY <1>1, <4>2
        <5> QED
          BY <3>2, <5>2, <5>3, <5>4
      <4>3. CASE ~(i - 1 <= Len(s))
        BY <1>1, <3>2, <4>1, <4>3
      <4> QED
        BY <4>2, <4>3
    <3> QED
      BY <3>1, <3>2
  <2> QED
    BY <2>1 DEF StepsAre
<1> DEFINE at == CHOOSE at : at = [i \in 1..k |->
                 IF i = 1 THEN n ELSE LET m == at[i - 1] IN IF m = Null THEN Null ELSE f[m]]
<1>5. at = g
  <2>1. StepsAre(at, k, f, n)
    <3>1. g = [i \in 1..k |-> IF i = 1 THEN n ELSE LET m == g[i - 1] IN IF m = Null THEN Null ELSE f[m]]
      BY <1>4 DEF StepsAre
    <3> HIDE DEF g, k
    <3> QED
      BY <3>1 DEF StepsAre
  <2> HIDE DEF at, g, k
  <2>2. k \in Nat
    BY <1>2 DEF k
  <2> QED
    BY <1>4, <2>1, <2>2, StepsUnique, SMTT(30)
<1>6. Walk(f, n) = [i \in 1..Cardinality({i \in DOMAIN at : at[i] # Null}) |-> at[i]]
  BY DEF Walk
<1>7. {i \in DOMAIN g : g[i] # Null} = 1..Len(s)
  BY <1>1, <1>2, <1>3
<1>8. Cardinality(1..Len(s)) = Len(s)
  BY <1>1, FS_Interval
<1>9. \A i \in 1..Len(s) : g[i] = s[i]
  BY <1>1, <1>2, <1>3
<1> HIDE DEF at, g, k
<1> QED
  <2>1. Walk(f, n) = [i \in 1..Len(s) |-> g[i]]
    BY <1>5, <1>6, <1>7, <1>8
  <2>2. s = [i \in 1..Len(s) |-> s[i]]
    OBVIOUS
  <2> QED
    BY <1>9, <2>1, <2>2

-----------------------------------------------------------------------------
(* The links of a heap *)

Heap(D) == [next : [D -> D \cup {Null}], prev : [D -> D \cup {Null}]]

(* Both directions agree. *)
Agree(h, D) ==
  \A n \in D : /\ h.next[n] # Null => h.prev[h.next[n]] = n
               /\ h.prev[n] # Null => h.next[h.prev[n]] = n

NodeAt(s, i) == IF i \in 1..Len(s) THEN s[i] ELSE Null
Different(s) == \A i, j \in 1..Len(s) : s[i] = s[j] => i = j

(* s are the nodes of one list, in its order. *)
Chain(h, s) ==
  /\ Different(s)
  /\ \A i \in 1..Len(s) : h.next[s[i]] = NodeAt(s, i + 1) /\ h.prev[s[i]] = NodeAt(s, i - 1)

(* g is h with n between a and b, and h without n. *)
Linked(g, h, D, n, a, b) ==
  g = [next |-> [m \in D \cup {n} |-> IF m = n THEN b ELSE IF m = a THEN n ELSE h.next[m]],
       prev |-> [m \in D \cup {n} |-> IF m = n THEN a ELSE IF m = b THEN n ELSE h.prev[m]]]

Unlinked(g, h, D, n) ==
  g = [next |-> [m \in D \ {n} |-> IF m = h.prev[n] THEN h.next[n] ELSE h.next[m]],
       prev |-> [m \in D \ {n} |-> IF m = h.next[n] THEN h.prev[n] ELSE h.prev[m]]]

(* g is h where n, from further on, has come between a and b. *)
Relinked(g, h, D, n, a, b) ==
  g = [next |-> [m \in D |-> IF m = n THEN b ELSE IF m = a THEN n
                             ELSE IF m = h.prev[n] THEN h.next[n] ELSE h.next[m]],
       prev |-> [m \in D |-> IF m = n THEN a ELSE IF m = b THEN n
                             ELSE IF m = h.next[n] THEN h.prev[n] ELSE h.prev[m]]]

LEMMA NodeAtType ==
  ASSUME NEW D, NEW s \in Seq(D), NEW i \in Int
  PROVE  /\ NodeAt(s, i) \in D \cup {Null}
         /\ i \in 1..Len(s) => NodeAt(s, i) = s[i] /\ s[i] \in D
         /\ i \notin 1..Len(s) => NodeAt(s, i) = Null
BY DEF NodeAt

LEMMA InsertLinks ==
  ASSUME NEW D, Null \notin D, NEW h \in Heap(D), Agree(h, D), NEW s \in Seq(D), Chain(h, s),
         NEW n, n \notin D, n # Null, NEW k \in 1..(Len(s) + 1),
         NEW g, Linked(g, h, D, n, NodeAt(s, k - 1), NodeAt(s, k))
  PROVE  /\ g \in Heap(D \cup {n}) /\ Agree(g, D \cup {n})
         /\ Ins(s, k, n) \in Seq(D \cup {n}) /\ Chain(g, Ins(s, k, n))
<1> DEFINE a == NodeAt(s, k - 1)
           b == NodeAt(s, k)
           E == D \cup {n}
<1>0. Len(s) \in Nat /\ \A i \in 1..Len(s) : s[i] \in D
  OBVIOUS
<1>1. /\ a \in D \cup {Null} /\ b \in D \cup {Null}
      /\ a # Null => h.next[a] = b
      /\ b # Null => h.prev[b] = a
  <2>1. a \in D \cup {Null} /\ b \in D \cup {Null}
    BY NodeAtType
  <2>2. ASSUME a # Null PROVE h.next[a] = b
    <3>1. k - 1 \in 1..Len(s) /\ a = s[k - 1] /\ (k - 1) + 1 = k
      BY <2>2 DEF NodeAt
    <3> QED
      BY <3>1 DEF Chain
  <2>3. ASSUME b # Null PROVE h.prev[b] = a
    <3>1. k \in 1..Len(s) /\ b = s[k]
      BY <2>3 DEF NodeAt
    <3> QED
      BY <3>1 DEF Chain
  <2> QED
    BY <2>1, <2>2, <2>3
<1>2. /\ g.next = [m \in E |-> IF m = n THEN b ELSE IF m = a THEN n ELSE h.next[m]]
      /\ g.prev = [m \in E |-> IF m = n THEN a ELSE IF m = b THEN n ELSE h.prev[m]]
      /\ g = [next |-> g.next, prev |-> g.prev]
  BY DEF Linked
<1>3. /\ h.next \in [D -> D \cup {Null}] /\ h.prev \in [D -> D \cup {Null}]
  BY DEF Heap
<1> HIDE DEF a, b
<1>4. g \in Heap(E)
  <2>1. g.next \in [E -> E \cup {Null}] /\ g.prev \in [E -> E \cup {Null}]
    BY <1>1, <1>2, <1>3
  <2> QED
    BY <1>2, <2>1 DEF Heap
<1>5. Agree(g, E)
  <2>1. ASSUME NEW m \in E
        PROVE  g.next[m] # Null => g.prev[g.next[m]] = m
    BY <1>1, <1>2, <1>3 DEF Agree
  <2>2. ASSUME NEW m \in E
        PROVE  g.prev[m] # Null => g.next[g.prev[m]] = m
    BY <1>1, <1>2, <1>3 DEF Agree
  <2> QED
    BY <2>1, <2>2 DEF Agree
<1>6. PICK t : t = Ins(s, k, n)
  OBVIOUS
<1>7. /\ t \in Seq(E) /\ Len(t) = Len(s) + 1
      /\ \A j \in 1..(Len(s) + 1) : t[j] = IF j < k THEN s[j] ELSE IF j = k THEN n ELSE s[j - 1]
  <2>1. s \in Seq(E) /\ n \in E
    BY <1>0
  <2> HIDE DEF E
  <2>2. /\ Ins(s, k, n) \in Seq(E) /\ Len(Ins(s, k, n)) = Len(s) + 1
        /\ \A j \in 1..(Len(s) + 1) :
             Ins(s, k, n)[j] = IF j < k THEN s[j] ELSE IF j = k THEN n ELSE s[j - 1]
    BY <2>1, InsProperties
  <2> QED
    BY <1>6, <2>2
<1>8. Different(t)
  <2> SUFFICES ASSUME NEW i \in 1..(Len(s) + 1), NEW j \in 1..(Len(s) + 1), t[i] = t[j]
               PROVE  i = j
    BY <1>7 DEF Different
  <2>1. Different(s)
    BY DEF Chain
  <2> DEFINE P(l) == IF l < k THEN l ELSE l - 1
  <2>4. \A l \in 1..(Len(s) + 1) :
          /\ l = k => t[l] = n
          /\ l # k => P(l) \in 1..Len(s) /\ t[l] = s[P(l)] /\ t[l] \in D
    <3> SUFFICES ASSUME NEW l \in 1..(Len(s) + 1)
                 PROVE  /\ l = k => t[l] = n
                        /\ l # k => P(l) \in 1..Len(s) /\ t[l] = s[P(l)] /\ t[l] \in D
      OBVIOUS
    <3>1. t[l] = IF l < k THEN s[l] ELSE IF l = k THEN n ELSE s[l - 1]
      BY <1>7
    <3>2. /\ l < k => l \in 1..Len(s)
          /\ ~(l < k) /\ l # k => l - 1 \in 1..Len(s)
      BY <1>0
    <3> QED
      BY <1>0, <3>1, <3>2
  <2>5. \A l, m \in 1..(Len(s) + 1) : l # k /\ m # k /\ P(l) = P(m) => l = m
    BY <1>0
  <2> HIDE DEF P
  <2>6. CASE i # k /\ j # k
    <3>1. P(i) = P(j)
      BY <2>1, <2>4, <2>6 DEF Different
    <3> QED
      BY <2>5, <2>6, <3>1
  <2>7. i = k <=> j = k
    BY <2>4
  <2> QED
    BY <2>6, <2>7
<1>9. ASSUME NEW i \in 1..(Len(s) + 1)
      PROVE  g.next[t[i]] = NodeAt(t, i + 1) /\ g.prev[t[i]] = NodeAt(t, i - 1)
  <2>1. /\ i + 1 \in 1..(Len(s) + 1) <=> i # Len(s) + 1
        /\ i - 1 \in 1..(Len(s) + 1) <=> i # 1
    BY <1>0
  <2>2. /\ NodeAt(t, i + 1) = IF i = Len(s) + 1 THEN Null ELSE t[i + 1]
        /\ NodeAt(t, i - 1) = IF i = 1 THEN Null ELSE t[i - 1]
    BY <1>7, <2>1 DEF NodeAt
  <2>3. CASE i = k
    <3>1. t[i] = n /\ g.next[n] = b /\ g.prev[n] = a
      BY <1>2, <1>7, <2>3
    <3>2. b = NodeAt(t, i + 1)
      BY <1>0, <1>7, <2>1, <2>2, <2>3 DEF b, NodeAt
    <3>3. a = NodeAt(t, i - 1)
      BY <1>0, <1>7, <2>1, <2>2, <2>3 DEF a, NodeAt
    <3> QED
      BY <3>1, <3>2, <3>3
  <2>4. CASE i < k
    <3>1. i \in 1..Len(s) /\ t[i] = s[i] /\ s[i] \in D
      BY <1>0, <1>7, <2>4
    <3>2. h.next[s[i]] = NodeAt(s, i + 1) /\ h.prev[s[i]] = NodeAt(s, i - 1)
      BY <3>1 DEF Chain
    <3>3. s[i] = a <=> i = k - 1
      BY <1>0, <2>4, <3>1 DEF a, NodeAt, Chain, Different
    <3>4. s[i] # b
      BY <1>0, <2>4, <3>1 DEF b, NodeAt, Chain, Different
    <3>5. g.prev[t[i]] = NodeAt(s, i - 1)
      BY <1>2, <3>1, <3>2, <3>4
    <3>6. NodeAt(s, i - 1) = NodeAt(t, i - 1)
      BY <1>0, <1>7, <2>1, <2>2, <2>4 DEF NodeAt
    <3>7. CASE i = k - 1
      <4>1. g.next[t[i]] = n
        BY <1>2, <3>1, <3>3, <3>7
      <4>2. i + 1 = k /\ i # Len(s) + 1 /\ t[k] = n
        BY <1>0, <1>7, <3>1, <3>7
      <4> QED
        BY <2>2, <3>5, <3>6, <4>1, <4>2
    <3>8. CASE i # k - 1
      <4>1. g.next[t[i]] = NodeAt(s, i + 1)
        BY <1>2, <3>1, <3>2, <3>3, <3>8
      <4>2. i + 1 \in 1..Len(s) /\ i + 1 < k /\ i # Len(s) + 1
        BY <1>0, <2>4, <3>8
      <4>3. NodeAt(s, i + 1) = s[i + 1] /\ t[i + 1] = s[i + 1]
        BY <1>0, <1>7, <4>2 DEF NodeAt
      <4> QED
        BY <2>2, <3>5, <3>6, <4>1, <4>2, <4>3
    <3> QED
      BY <3>7, <3>8
  <2>5. CASE i > k
    <3>1. i - 1 \in 1..Len(s) /\ t[i] = s[i - 1] /\ s[i - 1] \in D
      BY <1>0, <1>7, <2>5
    <3>2. h.next[s[i - 1]] = NodeAt(s, i) /\ h.prev[s[i - 1]] = NodeAt(s, i - 2)
      <4>1. (i - 1) + 1 = i /\ (i - 1) - 1 = i - 2
        OBVIOUS
      <4> QED
        BY <3>1, <4>1 DEF Chain
    <3>3. s[i - 1] = b <=> i - 1 = k
      BY <1>0, <2>5, <3>1 DEF b, NodeAt, Chain, Different
    <3>4. s[i - 1] # a
      BY <1>0, <2>5, <3>1 DEF a, NodeAt, Chain, Different
    <3>5. g.next[t[i]] = NodeAt(s, i)
      BY <1>2, <3>1, <3>2, <3>4
    <3>6. NodeAt(s, i) = NodeAt(t, i + 1)
      BY <1>0, <1>7, <2>1, <2>2, <2>5 DEF NodeAt
    <3>7. CASE i - 1 = k
      <4>1. g.prev[t[i]] = n
        BY <1>2, <3>1, <3>3, <3>7
      <4>2. i # 1 /\ t[i - 1] = n
        BY <1>0, <1>7, <3>7
      <4> QED
        BY <2>2, <3>5, <3>6, <4>1, <4>2
    <3>8. CASE i - 1 # k
      <4>1. g.prev[t[i]] = NodeAt(s, i - 2)
        BY <1>2, <3>1, <3>2, <3>3, <3>8
      <4>2. i - 2 \in 1..Len(s) /\ i - 1 \in 1..(Len(s) + 1) /\ i - 1 > k /\ i # 1 /\ (i - 1) - 1 = i - 2
        BY <1>0, <2>5, <3>8
      <4>3. NodeAt(s, i - 2) = s[i - 2] /\ t[i - 1] = s[i - 2]
        BY <1>0, <1>7, <4>2 DEF NodeAt
      <4> QED
        BY <2>2, <3>5, <3>6, <4>1, <4>2, <4>3
    <3> QED
      BY <3>7, <3>8
  <2> QED
    BY <2>3, <2>4, <2>5
<1>10. Chain(g, t)
  BY <1>7, <1>8, <1>9 DEF Chain
<1> QED
  BY <1>4, <1>5, <1>6, <1>7, <1>10

LEMMA RemoveLinks ==
  ASSUME NEW D, Null \notin D, NEW h \in Heap(D), Agree(h, D), NEW s \in Seq(D), Chain(h, s),
         NEW k \in 1..Len(s), NEW g, Unlinked(g, h, D, s[k])
  PROVE  /\ g \in Heap(D \ {s[k]}) /\ Agree(g, D \ {s[k]})
         /\ Del(s, k) \in Seq(D \ {s[k]}) /\ Chain(g, Del(s, k))
<1>0. Len(s) \in Nat /\ \A i \in 1..Len(s) : s[i] \in D
  OBVIOUS
<1>1. PICK n, a, b : n = s[k] /\ a = NodeAt(s, k - 1) /\ b = NodeAt(s, k + 1)
  OBVIOUS
<1> DEFINE E == D \ {n}
<1>2. n \in D /\ a \in D \cup {Null} /\ b \in D \cup {Null}
  BY <1>0, <1>1, NodeAtType
<1>3. h.next[n] = b /\ h.prev[n] = a
  BY <1>1 DEF Chain
<1>4. a # n /\ b # n
  BY <1>0, <1>1, <1>2 DEF NodeAt, Chain, Different
<1>5. /\ g.next = [m \in E |-> IF m = a THEN b ELSE h.next[m]]
      /\ g.prev = [m \in E |-> IF m = b THEN a ELSE h.prev[m]]
      /\ g = [next |-> g.next, prev |-> g.prev]
  BY <1>1, <1>3 DEF Unlinked
<1>6. /\ h.next \in [D -> D \cup {Null}] /\ h.prev \in [D -> D \cup {Null}]
  BY DEF Heap
<1>7. g \in Heap(E)
  <2>1. ASSUME NEW m \in E
        PROVE  /\ (IF m = a THEN b ELSE h.next[m]) \in E \cup {Null}
               /\ (IF m = b THEN a ELSE h.prev[m]) \in E \cup {Null}
    BY <1>2, <1>3, <1>4, <1>6 DEF Agree
  <2>2. g.next \in [E -> E \cup {Null}] /\ g.prev \in [E -> E \cup {Null}]
    BY <1>5, <2>1
  <2> QED
    BY <1>5, <2>2 DEF Heap
<1>8. Agree(g, E)
  <2>1. ASSUME NEW m \in E
        PROVE  g.next[m] # Null => g.prev[g.next[m]] = m
    BY <1>2, <1>3, <1>4, <1>5, <1>6 DEF Agree
  <2>2. ASSUME NEW m \in E
        PROVE  g.prev[m] # Null => g.next[g.prev[m]] = m
    BY <1>2, <1>3, <1>4, <1>5, <1>6 DEF Agree
  <2> QED
    BY <2>1, <2>2 DEF Agree
<1>9. PICK t : t = Del(s, k)
  OBVIOUS
<1> DEFINE P(l) == IF l < k THEN l ELSE l + 1
<1>10. /\ t \in Seq(D) /\ Len(t) = Len(s) - 1
       /\ \A l \in 1..(Len(s) - 1) : P(l) \in 1..Len(s) /\ P(l) # k /\ t[l] = s[P(l)]
  <2>1. /\ t \in Seq(D) /\ Len(t) = Len(s) - 1
        /\ \A j \in 1..(Len(s) - 1) : t[j] = IF j < k THEN s[j] ELSE s[j + 1]
    BY <1>9, DelProperties
  <2> QED
    BY <1>0, <2>1
<1>11. \A i, j \in 1..(Len(s) - 1) : P(i) = P(j) => i = j
  BY <1>0
<1>12. Different(t)
  <2> SUFFICES ASSUME NEW i \in 1..(Len(s) - 1), NEW j \in 1..(Len(s) - 1), t[i] = t[j]
               PROVE  i = j
    BY <1>10 DEF Different
  <2> HIDE DEF P
  <2>1. /\ P(i) \in 1..Len(s) /\ P(j) \in 1..Len(s) /\ s[P(i)] = s[P(j)]
    BY <1>10
  <2>2. P(i) = P(j)
    BY <2>1 DEF Chain, Different
  <2> QED
    BY <1>11, <2>2
<1>13. \A l \in 1..(Len(s) - 1) : t[l] \in E
  <2> HIDE DEF P
  <2> QED
    BY <1>0, <1>1, <1>10 DEF Chain, Different
<1>14. t \in Seq(E)
  <2>1. Len(t) \in Nat /\ t = [l \in 1..Len(t) |-> t[l]]
    BY <1>10
  <2>2. [l \in 1..Len(t) |-> t[l]] \in [1..Len(t) -> E]
    BY <1>10, <1>13
  <2> HIDE DEF E
  <2> QED
    BY <2>1, <2>2
<1>15. ASSUME NEW i \in 1..(Len(s) - 1)
       PROVE  g.next[t[i]] = NodeAt(t, i + 1) /\ g.prev[t[i]] = NodeAt(t, i - 1)
  <2>1. /\ i + 1 \in 1..(Len(s) - 1) <=> i # Len(s) - 1
        /\ i - 1 \in 1..(Len(s) - 1) <=> i # 1
    BY <1>0
  <2>2. /\ NodeAt(t, i + 1) = IF i = Len(s) - 1 THEN Null ELSE t[i + 1]
        /\ NodeAt(t, i - 1) = IF i = 1 THEN Null ELSE t[i - 1]
    BY <1>10, <2>1 DEF NodeAt
  <2>3. t[i] \in E
    BY <1>13
  <2>4. CASE i < k
    <3>1. i \in 1..Len(s) /\ t[i] = s[i]
      BY <1>0, <1>10, <2>4
    <3>2. h.next[s[i]] = NodeAt(s, i + 1) /\ h.prev[s[i]] = NodeAt(s, i - 1)
      BY <3>1 DEF Chain
    <3>3. t[i] = a <=> i = k - 1
      BY <1>0, <1>1, <2>4, <3>1, <2>3 DEF NodeAt, Chain, Different
    <3>4. t[i] # b
      BY <1>0, <1>1, <2>4, <3>1, <2>3 DEF NodeAt, Chain, Different
    <3>5. g.prev[t[i]] = NodeAt(t, i - 1)
      <4>1. g.prev[t[i]] = NodeAt(s, i - 1)
        BY <1>5, <2>3, <3>1, <3>2, <3>4
      <4> QED
        BY <1>0, <1>10, <2>1, <2>2, <2>4, <4>1 DEF NodeAt
    <3>6. CASE i = k - 1
      <4>1. g.next[t[i]] = b
        BY <1>5, <2>3, <3>3, <3>6
      <4>2. b = NodeAt(t, i + 1)
        BY <1>0, <1>1, <1>10, <2>1, <2>2, <3>6 DEF NodeAt
      <4> QED
        BY <3>5, <4>1, <4>2
    <3>7. CASE i # k - 1
      <4>1. g.next[t[i]] = NodeAt(s, i + 1)
        BY <1>5, <2>3, <3>1, <3>2, <3>3, <3>7
      <4>2. NodeAt(s, i + 1) = NodeAt(t, i + 1)
        <5>1. i + 1 \in 1..Len(s) /\ i + 1 < k /\ i + 1 \in 1..(Len(s) - 1) /\ i # Len(s) - 1
          BY <1>0, <2>4, <3>7
        <5>2. t[i + 1] = s[i + 1]
          BY <1>10, <5>1
        <5> QED
          BY <2>2, <5>1, <5>2 DEF NodeAt
      <4> QED
        BY <3>5, <4>1, <4>2
    <3> QED
      BY <3>6, <3>7
  <2>5. CASE ~(i < k)
    <3>1. i + 1 \in 1..Len(s) /\ t[i] = s[i + 1] /\ (i + 1) + 1 = i + 2 /\ (i + 1) - 1 = i
      BY <1>0, <1>10, <2>5
    <3>2. h.next[s[i + 1]] = NodeAt(s, i + 2) /\ h.prev[s[i + 1]] = NodeAt(s, i)
      BY <3>1 DEF Chain
    <3>3. t[i] = b <=> i = k
      BY <1>0, <1>1, <2>5, <3>1, <2>3 DEF NodeAt, Chain, Different
    <3>4. t[i] # a
      BY <1>0, <1>1, <2>5, <3>1, <2>3 DEF NodeAt, Chain, Different
    <3>5. g.next[t[i]] = NodeAt(t, i + 1)
      <4>1. g.next[t[i]] = NodeAt(s, i + 2)
        BY <1>5, <2>3, <3>1, <3>2, <3>4
      <4> QED
        BY <1>0, <1>10, <2>1, <2>2, <2>5, <4>1, SMTT(30) DEF NodeAt
    <3>6. CASE i = k
      <4>1. g.prev[t[i]] = a
        BY <1>5, <2>3, <3>3, <3>6
      <4>2. a = NodeAt(t, i - 1)
        BY <1>0, <1>1, <1>10, <2>1, <2>2, <3>6 DEF NodeAt
      <4> QED
        BY <3>5, <4>1, <4>2
    <3>7. CASE i # k
      <4>1. g.prev[t[i]] = NodeAt(s, i)
        BY <1>5, <2>3, <3>1, <3>2, <3>3, <3>7
      <4>2. NodeAt(s, i) = NodeAt(t, i - 1)
        <5>1. i \in 1..Len(s) /\ ~(i - 1 < k) /\ i - 1 \in 1..(Len(s) - 1) /\ i # 1
          BY <1>0, <2>5, <3>7
        <5>2. t[i - 1] = s[i]
          BY <1>10, <5>1
        <5> QED
          BY <2>2, <5>1, <5>2 DEF NodeAt
      <4> QED
        BY <3>5, <4>1, <4>2
    <3> QED
      BY <3>6, <3>7
  <2> QED
    BY <2>4, <2>5
<1>16. Chain(g, t)
  BY <1>10, <1>12, <1>15 DEF Chain
<1> QED
  BY <1>1, <1>7, <1>8, <1>9, <1>14, <1>16

(* s where what is at k has come to p, before k. *)
Mov(s, k, p) ==
  [i \in 1..Len(s) |-> IF i < p THEN s[i] ELSE IF i = p THEN s[k]
                       ELSE IF i <= k THEN s[i - 1] ELSE s[i]]
FromWhere(k, p, i) == IF i < p THEN i ELSE IF i = p THEN k ELSE IF i <= k THEN i - 1 ELSE i

LEMMA FromWhereIn ==
  ASSUME NEW n \in Nat, NEW k \in 1..n, NEW p \in 1..(k - 1)
  PROVE  \A i \in 1..n : FromWhere(k, p, i) \in 1..n
BY DEF FromWhere

LEMMA FromWhereOnce ==
  ASSUME NEW n \in Nat, NEW k \in 1..n, NEW p \in 1..(k - 1),
         NEW i \in 1..n, NEW j \in 1..n, FromWhere(k, p, i) = FromWhere(k, p, j)
  PROVE  i = j
BY DEF FromWhere

LEMMA MovAre ==
  ASSUME NEW S, NEW s \in Seq(S), NEW k \in 1..Len(s), NEW p \in 1..(k - 1)
  PROVE  /\ Len(Mov(s, k, p)) = Len(s)
         /\ \A i \in 1..Len(s) : Mov(s, k, p)[i] = s[FromWhere(k, p, i)]
BY DEF Mov, FromWhere

LEMMA MovType ==
  ASSUME NEW S, NEW s \in Seq(S), NEW k \in 1..Len(s), NEW p \in 1..(k - 1)
  PROVE  Mov(s, k, p) \in Seq(S)
<1>1. Len(s) \in Nat /\ \A i \in 1..Len(s) : s[i] \in S
  OBVIOUS
<1>2. \A i \in 1..Len(s) : Mov(s, k, p)[i] \in S
  <2>1. \A i \in 1..Len(s) : FromWhere(k, p, i) \in 1..Len(s)
    BY <1>1, FromWhereIn
  <2>2. \A i \in 1..Len(s) : Mov(s, k, p)[i] = s[FromWhere(k, p, i)]
    BY MovAre
  <2> QED
    BY <1>1, <2>1, <2>2
<1>3. Mov(s, k, p) = [i \in 1..Len(s) |-> Mov(s, k, p)[i]]
  BY DEF Mov
<1>4. [i \in 1..Len(s) |-> Mov(s, k, p)[i]] \in [1..Len(s) -> S]
  BY <1>2
<1>5. Mov(s, k, p) \in [1..Len(s) -> S]
  BY <1>3, <1>4
<1> QED
  BY <1>1, <1>5

LEMMA MovTakesAll ==
  ASSUME NEW n \in Nat, NEW k \in 1..n, NEW p \in 1..(k - 1), NEW j \in 1..n
  PROVE  \E i \in 1..n : FromWhere(k, p, i) = j
<1> DEFINE i == IF j < p THEN j ELSE IF j = k THEN p ELSE IF j < k THEN j + 1 ELSE j
<1>1. i \in 1..n /\ FromWhere(k, p, i) = j
  BY DEF FromWhere
<1> QED
  BY <1>1

LEMMA MoveLinks ==
  ASSUME NEW D, Null \notin D, NEW h \in Heap(D), Agree(h, D), NEW s \in Seq(D), Chain(h, s),
         NEW k \in 1..Len(s), NEW p \in 1..(k - 1),
         NEW g, Relinked(g, h, D, s[k], NodeAt(s, p - 1), s[p])
  PROVE  g \in Heap(D) /\ Agree(g, D) /\ Mov(s, k, p) \in Seq(D) /\ Chain(g, Mov(s, k, p))
<1>0. Len(s) \in Nat /\ \A i \in 1..Len(s) : s[i] \in D
  OBVIOUS
<1>1. PICK n, a, b, c, e : /\ n = s[k] /\ a = NodeAt(s, p - 1) /\ b = s[p]
                           /\ c = s[k - 1] /\ e = NodeAt(s, k + 1)
  OBVIOUS
<1>2. /\ n \in D /\ b \in D /\ c \in D /\ a \in D \cup {Null} /\ e \in D \cup {Null}
      /\ h.next[n] = e /\ h.prev[n] = c /\ h.next[c] = n /\ h.prev[b] = a
      /\ a # Null => h.next[a] = b
      /\ e # Null => h.prev[e] = n
  <2>1. n \in D /\ b \in D /\ c \in D /\ a \in D \cup {Null} /\ e \in D \cup {Null}
    BY <1>0, <1>1, NodeAtType
  <2>2. p \in 1..Len(s) /\ k - 1 \in 1..Len(s) /\ (k - 1) + 1 = k
    BY <1>0
  <2>3. h.next[n] = e /\ h.prev[n] = c /\ h.next[c] = n /\ h.prev[b] = a
    BY <1>1, <2>2 DEF Chain, NodeAt
  <2> QED
    BY <2>1, <2>3 DEF Agree
<1>3. b # n /\ a # n /\ a # c /\ e # b /\ e # n /\ c # n
  <2>1. Different(s)
    BY DEF Chain
  <2>2. p \in 1..Len(s) /\ k - 1 \in 1..Len(s) /\ p # k /\ k - 1 # k
    BY <1>0
  <2>3. b # n /\ c # n
    BY <1>1, <2>1, <2>2 DEF Different
  <2>4. a # n /\ a # c
    BY <1>0, <1>1, <1>2, <2>1, <2>2 DEF Different, NodeAt
  <2>5. e # b /\ e # n
    BY <1>0, <1>1, <1>2, <2>1, <2>2 DEF Different, NodeAt
  <2> QED
    BY <2>3, <2>4, <2>5
<1>4. /\ g.next = [m \in D |-> IF m = n THEN b ELSE IF m = a THEN n ELSE IF m = c THEN e ELSE h.next[m]]
      /\ g.prev = [m \in D |-> IF m = n THEN a ELSE IF m = b THEN n ELSE IF m = e THEN c ELSE h.prev[m]]
      /\ g = [next |-> g.next, prev |-> g.prev]
  BY <1>1, <1>2 DEF Relinked
<1>5. /\ h.next \in [D -> D \cup {Null}] /\ h.prev \in [D -> D \cup {Null}]
  BY DEF Heap
<1>6. g \in Heap(D)
  <2>1. g.next \in [D -> D \cup {Null}] /\ g.prev \in [D -> D \cup {Null}]
    BY <1>2, <1>4, <1>5
  <2> QED
    BY <1>4, <2>1 DEF Heap
<1>7. Agree(g, D)
  <2>1. ASSUME NEW m \in D
        PROVE  g.next[m] # Null => g.prev[g.next[m]] = m
    BY <1>2, <1>3, <1>4, <1>5 DEF Agree
  <2>2. ASSUME NEW m \in D
        PROVE  g.prev[m] # Null => g.next[g.prev[m]] = m
    BY <1>2, <1>3, <1>4, <1>5 DEF Agree
  <2> QED
    BY <2>1, <2>2 DEF Agree
<1>8. PICK t : t = Mov(s, k, p)
  OBVIOUS
<1>9. /\ t \in Seq(D) /\ Len(t) = Len(s)
      /\ \A i \in 1..Len(s) : FromWhere(k, p, i) \in 1..Len(s) /\ t[i] = s[FromWhere(k, p, i)]
      /\ \A i, j \in 1..Len(s) : FromWhere(k, p, i) = FromWhere(k, p, j) => i = j
  <2>1. t \in Seq(D)
    BY <1>8, MovType
  <2>2. Len(t) = Len(s) /\ \A i \in 1..Len(s) : t[i] = s[FromWhere(k, p, i)]
    BY <1>8, MovAre
  <2>3. \A i \in 1..Len(s) : FromWhere(k, p, i) \in 1..Len(s)
    BY <1>0, FromWhereIn
  <2>4. \A i, j \in 1..Len(s) : FromWhere(k, p, i) = FromWhere(k, p, j) => i = j
    BY <1>0, FromWhereOnce
  <2> QED
    BY <2>1, <2>2, <2>3, <2>4
<1>10. Different(t)
  <2> SUFFICES ASSUME NEW i \in 1..Len(s), NEW j \in 1..Len(s), t[i] = t[j]
               PROVE  i = j
    BY <1>9 DEF Different
  <2>1. /\ FromWhere(k, p, i) \in 1..Len(s) /\ FromWhere(k, p, j) \in 1..Len(s)
        /\ s[FromWhere(k, p, i)] = s[FromWhere(k, p, j)]
    BY <1>9
  <2>2. FromWhere(k, p, i) = FromWhere(k, p, j)
    BY <2>1 DEF Chain, Different
  <2> QED
    BY <1>9, <2>2
<1>11. \A i, j \in 1..Len(s) : s[i] = s[j] <=> i = j
  BY DEF Chain, Different
<1>12. /\ \A i \in 1..Len(s) : s[i] = a <=> i = p - 1
       /\ \A i \in 1..Len(s) : s[i] = e <=> i = k + 1
       /\ \A i \in 1..Len(s) : (s[i] = n <=> i = k) /\ (s[i] = b <=> i = p) /\ (s[i] = c <=> i = k - 1)
  <2>1. \A i \in 1..Len(s) : s[i] = a <=> i = p - 1
    BY <1>0, <1>1, <1>11 DEF NodeAt
  <2>2. \A i \in 1..Len(s) : s[i] = e <=> i = k + 1
    BY <1>0, <1>1, <1>11 DEF NodeAt
  <2>3. p \in 1..Len(s) /\ k - 1 \in 1..Len(s)
    BY <1>0
  <2> QED
    BY <1>1, <1>11, <2>1, <2>2, <2>3
<1>13. \A i \in 1..Len(s) :
         t[i] = IF i < p THEN s[i] ELSE IF i = p THEN n ELSE IF i <= k THEN s[i - 1] ELSE s[i]
  BY <1>1, <1>9 DEF FromWhere
<1>14. \A i \in 1..Len(s) : /\ NodeAt(t, i + 1) = IF i = Len(s) THEN Null ELSE t[i + 1]
                            /\ NodeAt(t, i - 1) = IF i = 1 THEN Null ELSE t[i - 1]
                            /\ NodeAt(s, i + 1) = IF i = Len(s) THEN Null ELSE s[i + 1]
                            /\ NodeAt(s, i - 1) = IF i = 1 THEN Null ELSE s[i - 1]
  <2> SUFFICES ASSUME NEW i \in 1..Len(s)
               PROVE  /\ NodeAt(t, i + 1) = IF i = Len(s) THEN Null ELSE t[i + 1]
                      /\ NodeAt(t, i - 1) = IF i = 1 THEN Null ELSE t[i - 1]
                      /\ NodeAt(s, i + 1) = IF i = Len(s) THEN Null ELSE s[i + 1]
                      /\ NodeAt(s, i - 1) = IF i = 1 THEN Null ELSE s[i - 1]
    OBVIOUS
  <2>1. /\ i + 1 \in 1..Len(s) <=> i # Len(s)
        /\ i - 1 \in 1..Len(s) <=> i # 1
    BY <1>0
  <2>2. Len(t) = Len(s)
    BY <1>9
  <2> QED
    BY <2>1, <2>2 DEF NodeAt
<1>15. ASSUME NEW i \in 1..Len(s)
       PROVE  g.next[t[i]] = NodeAt(t, i + 1)
  <2>1. CASE i < p
    <3>1. t[i] = s[i] /\ s[i] \in D /\ i # k /\ i # k - 1 /\ i + 1 \in 1..Len(s) /\ i # Len(s)
      BY <1>0, <1>13, <2>1
    <3>2. h.next[s[i]] = s[i + 1]
      BY <1>14, <3>1 DEF Chain
    <3>3. g.next[t[i]] = IF i = p - 1 THEN n ELSE s[i + 1]
      BY <1>4, <1>12, <3>1, <3>2
    <3>4. t[i + 1] = IF i = p - 1 THEN n ELSE s[i + 1]
      BY <1>0, <1>13, <2>1, <3>1
    <3> QED
      BY <1>14, <3>1, <3>3, <3>4
  <2>2. CASE i = p
    <3>1. t[i] = n /\ i + 1 \in 1..Len(s) /\ i # Len(s) /\ t[i + 1] = s[i]
      BY <1>0, <1>13, <2>2
    <3> QED
      BY <1>1, <1>2, <1>4, <1>14, <2>2, <3>1
  <2>3. CASE i > p /\ i < k
    <3>1. /\ i - 1 \in 1..Len(s) /\ (i - 1) + 1 = i /\ i + 1 \in 1..Len(s) /\ i # Len(s)
          /\ i - 1 # k /\ i - 1 # k - 1 /\ i - 1 # p - 1 /\ i - 1 # Len(s)
          /\ t[i] = s[i - 1] /\ s[i - 1] \in D /\ t[i + 1] = s[i]
      BY <1>0, <1>13, <2>3
    <3>2. h.next[s[i - 1]] = s[i]
      BY <1>14, <3>1, ZenonT(30) DEF Chain
    <3>3. g.next[t[i]] = s[i]
      BY <1>4, <1>12, <3>1, <3>2
    <3> QED
      BY <1>14, <3>1, <3>3
  <2>4. CASE i = k
    <3>1. t[i] = c /\ p - 1 # k - 1
      BY <1>0, <1>1, <1>13, <2>4
    <3>2. g.next[t[i]] = e
      BY <1>2, <1>3, <1>4, <3>1
    <3>3. e = NodeAt(t, i + 1)
      BY <1>0, <1>1, <1>13, <1>14, <2>4
    <3> QED
      BY <3>2, <3>3
  <2>5. CASE i > k
    <3>1. /\ i # k /\ i # k - 1 /\ i # p - 1 /\ t[i] = s[i] /\ s[i] \in D
          /\ i # Len(s) => i + 1 \in 1..Len(s) /\ t[i + 1] = s[i + 1]
      BY <1>0, <1>13, <2>5
    <3>2. g.next[t[i]] = NodeAt(s, i + 1)
      BY <1>4, <1>12, <3>1 DEF Chain
    <3> QED
      BY <1>14, <3>1, <3>2
  <2> QED
    BY <1>0, <2>1, <2>2, <2>3, <2>4, <2>5
<1>16. ASSUME NEW i \in 1..Len(s)
       PROVE  g.prev[t[i]] = NodeAt(t, i - 1)
  <2>1. CASE i < p
    <3>1. /\ t[i] = s[i] /\ s[i] \in D /\ i # k /\ i # p /\ i # k + 1
          /\ i # 1 => i - 1 \in 1..Len(s) /\ t[i - 1] = s[i - 1]
      BY <1>0, <1>13, <2>1
    <3>2. g.prev[t[i]] = NodeAt(s, i - 1)
      BY <1>4, <1>12, <3>1 DEF Chain
    <3> QED
      BY <1>14, <3>1, <3>2
  <2>2. CASE i = p
    <3>1. t[i] = n /\ g.prev[n] = a
      BY <1>2, <1>4, <1>13, <2>2
    <3>2. a = NodeAt(t, i - 1)
      BY <1>0, <1>1, <1>13, <1>14, <2>2
    <3> QED
      BY <3>1, <3>2
  <2>3. CASE i > p /\ i <= k
    <3>1. /\ i - 1 \in 1..Len(s) /\ i # 1 /\ i - 1 # k /\ i - 1 # k + 1
          /\ t[i] = s[i - 1] /\ s[i - 1] \in D
      BY <1>0, <1>13, <2>3
    <3>2. CASE i - 1 = p
      <4>1. g.prev[t[i]] = n
        BY <1>1, <1>2, <1>3, <1>4, <3>1, <3>2
      <4>2. t[i - 1] = n
        BY <1>13, <3>1, <3>2
      <4> QED
        BY <1>14, <3>1, <4>1, <4>2
    <3>3. CASE i - 1 # p
      <4>1. /\ (i - 1) - 1 = i - 2 /\ i - 2 \in 1..Len(s) /\ i - 1 # 1
            /\ ~(i - 1 < p) /\ i - 1 <= k
        BY <1>0, <2>3, <3>1, <3>3
      <4>2. h.prev[s[i - 1]] = s[i - 2]
        BY <1>14, <3>1, <4>1 DEF Chain
      <4>3. g.prev[t[i]] = s[i - 2]
        BY <1>4, <1>12, <3>1, <3>3, <4>2
      <4>4. t[i - 1] = s[i - 2]
        BY <1>13, <3>1, <3>3, <4>1
      <4> QED
        BY <1>14, <3>1, <4>3, <4>4
    <3> QED
      BY <3>2, <3>3
  <2>4. CASE i > k
    <3>1. /\ i # k /\ i # p /\ t[i] = s[i] /\ s[i] \in D /\ i # 1 /\ i - 1 \in 1..Len(s)
      BY <1>0, <1>13, <2>4
    <3>2. h.prev[s[i]] = s[i - 1]
      BY <1>14, <3>1 DEF Chain
    <3>3. CASE i = k + 1
      <4>1. g.prev[t[i]] = c
        BY <1>4, <1>12, <3>1, <3>3
      <4>2. t[i - 1] = c
        <5>1. i - 1 = k /\ ~(k < p) /\ k # p
          BY <3>3
        <5> QED
          BY <1>1, <1>13, <3>1, <5>1
      <4> QED
        BY <1>14, <3>1, <4>1, <4>2
    <3>4. CASE i # k + 1
      <4>1. g.prev[t[i]] = s[i - 1]
        BY <1>4, <1>12, <3>1, <3>2, <3>4
      <4>2. t[i - 1] = s[i - 1]
        <5>1. ~(i - 1 < p) /\ i - 1 # p /\ ~(i - 1 <= k)
          BY <2>4, <3>4
        <5> QED
          BY <1>13, <3>1, <5>1
      <4> QED
        BY <1>14, <3>1, <4>1, <4>2
    <3> QED
      BY <3>3, <3>4
  <2> QED
    BY <1>0, <2>1, <2>2, <2>3, <2>4
<1>17. Chain(g, t)
  BY <1>9, <1>10, <1>15, <1>16 DEF Chain
<1> QED
  BY <1>6, <1>7, <1>8, <1>9, <1>17

-----------------------------------------------------------------------------
(* What the operations find and do in a heap *)

LEMMA ForwardWalk ==
  ASSUME NEW D, IsFiniteSet(D), Null \notin D, NEW h \in Heap(D), NEW s \in Seq(D), Chain(h, s)
  PROVE  Walk(h.next, NodeAt(s, 1)) = s
<1>1. DOMAIN h.next = D
  BY DEF Heap
<1>2. \A i, j \in 1..Len(s) : s[i] = s[j] => i = j
  BY DEF Chain, Different
<1>3. Len(s) \in Nat
  OBVIOUS
<1>4. IsWalk(s, h.next, NodeAt(s, 1))
  BY <1>3 DEF IsWalk, NodeAt, Chain
<1> QED
  BY <1>1, <1>2, <1>4, WalkFound

LEMMA BackwardWalk ==
  ASSUME NEW D, IsFiniteSet(D), Null \notin D, NEW h \in Heap(D), NEW s \in Seq(D), Chain(h, s),
         NEW k \in 1..Len(s)
  PROVE  Walk(h.prev, s[k]) = [i \in 1..k |-> s[k + 1 - i]]
<1> DEFINE r == [i \in 1..k |-> s[k + 1 - i]]
<1>1. DOMAIN h.prev = D
  BY DEF Heap
<1>2. Len(s) \in Nat /\ \A i \in 1..k : k + 1 - i \in 1..Len(s) /\ s[k + 1 - i] \in D
  OBVIOUS
<1>3. r \in Seq(D) /\ Len(r) = k /\ \A i \in 1..k : r[i] = s[k + 1 - i]
  <2>1. r \in [1..k -> D]
    BY <1>2
  <2> QED
    BY <2>1
<1> HIDE DEF r
<1>4. \A i, j \in 1..k : r[i] = r[j] => i = j
  <2> SUFFICES ASSUME NEW i \in 1..k, NEW j \in 1..k, r[i] = r[j]
               PROVE  i = j
    OBVIOUS
  <2>1. /\ k + 1 - i \in 1..Len(s) /\ k + 1 - j \in 1..Len(s)
        /\ s[k + 1 - i] = s[k + 1 - j]
    BY <1>2, <1>3
  <2>2. k + 1 - i = k + 1 - j
    BY <2>1 DEF Chain, Different
  <2> QED
    BY <2>2
<1>5. ASSUME NEW i \in 1..k
      PROVE  h.prev[r[i]] = IF i = k THEN Null ELSE r[i + 1]
  <2>1. h.prev[r[i]] = NodeAt(s, (k + 1 - i) - 1)
    BY <1>2, <1>3 DEF Chain
  <2>2. CASE i = k
    BY <2>1, <2>2 DEF NodeAt
  <2>3. CASE i # k
    <3>1. i + 1 \in 1..k /\ k + 1 - (i + 1) = (k + 1 - i) - 1
      BY <2>3
    <3> QED
      BY <1>2, <1>3, <2>1, <2>3, <3>1 DEF NodeAt
  <2> QED
    BY <2>2, <2>3
<1>6. IsWalk(r, h.prev, s[k])
  BY <1>3, <1>5 DEF IsWalk
<1>7. Walk(h.prev, s[k]) = r
  BY <1>1, <1>3, <1>4, <1>6, WalkFound
<1> QED
  BY <1>7 DEF r

LEMMA EndsOfChain ==
  ASSUME NEW D, IsFiniteSet(D), Null \notin D, NEW h \in Heap(D), NEW s \in Seq(D), Chain(h, s)
  PROVE  /\ LastNode(h, NodeAt(s, 1)) = NodeAt(s, Len(s))
         /\ \A k \in 1..Len(s) : FirstNode(h, s[k]) = s[1]
<1>1. Len(s) \in Nat /\ \A i \in 1..Len(s) : s[i] \in D
  OBVIOUS
<1>2. LastNode(h, NodeAt(s, 1)) = NodeAt(s, Len(s))
  <2>1. CASE Len(s) = 0
    BY <2>1 DEF LastNode, EndOf, NodeAt
  <2>2. CASE Len(s) # 0
    <3>1. NodeAt(s, 1) = s[1] /\ s[1] # Null /\ NodeAt(s, Len(s)) = s[Len(s)]
      BY <1>1, <2>2 DEF NodeAt
    <3>2. Walk(h.next, NodeAt(s, 1)) = s
      BY ForwardWalk
    <3> QED
      BY <3>1, <3>2 DEF LastNode, EndOf
  <2> QED
    BY <2>1, <2>2
<1>3. ASSUME NEW k \in 1..Len(s)
      PROVE  FirstNode(h, s[k]) = s[1]
  <2> DEFINE r == [i \in 1..k |-> s[k + 1 - i]]
  <2>1. Walk(h.prev, s[k]) = r
    BY BackwardWalk
  <2>2. k \in Nat /\ Len(r) = k /\ r[k] = s[1]
    BY <1>1
  <2> HIDE DEF r
  <2> QED
    BY <1>1, <2>1, <2>2 DEF FirstNode, EndOf
<1> QED
  BY <1>2, <1>3

LEMMA HeapRecord ==
  ASSUME NEW D, NEW h \in Heap(D)
  PROVE  /\ h = [next |-> h.next, prev |-> h.prev]
         /\ h.next \in [D -> D \cup {Null}] /\ h.prev \in [D -> D \cup {Null}]
BY DEF Heap

LEMMA AppendLinks ==
  ASSUME NEW D, Null \notin D, NEW h \in Heap(D), NEW n, n \notin D, n # Null,
         NEW a \in D \cup {Null}
  PROVE  Linked(SetNextOf(SetPrev(SetNext(h, n, Null), n, a), a, n), h, D, n, a, Null)
<1>1. PICK f, g : /\ h = [next |-> f, prev |-> g] /\ f = h.next /\ g = h.prev
                  /\ f \in [D -> D \cup {Null}] /\ g \in [D -> D \cup {Null}]
  BY HeapRecord
<1>2. SetPrev(SetNext(h, n, Null), n, a) = [next |-> With(f, n, Null), prev |-> With(g, n, a)]
  <2>1. SetNext(h, n, Null) = [next |-> With(f, n, Null), prev |-> g]
    BY <1>1 DEF SetNext
  <2> QED
    BY <2>1 DEF SetPrev
<1>3. SetNextOf([next |-> With(f, n, Null), prev |-> With(g, n, a)], a, n)
        = [next |-> IF a = Null THEN With(f, n, Null) ELSE With(With(f, n, Null), a, n),
           prev |-> With(g, n, a)]
  BY DEF SetNextOf, SetPrevOf, SetNext, SetPrev
<1>4. (IF a = Null THEN With(f, n, Null) ELSE With(With(f, n, Null), a, n))
        = [m \in D \cup {n} |-> IF m = n THEN Null ELSE IF m = a THEN n ELSE f[m]]
  <2>1. CASE a = Null
    BY <1>1, <2>1 DEF With
  <2>2. CASE a # Null
    BY <1>1, <2>2 DEF With
  <2> QED
    BY <2>1, <2>2
<1>5. With(g, n, a) = [m \in D \cup {n} |-> IF m = n THEN a ELSE IF m = Null THEN n ELSE g[m]]
  BY <1>1 DEF With
<1> QED
  BY <1>1, <1>2, <1>3, <1>4, <1>5 DEF Linked

LEMMA InsertFirstLinks ==
  ASSUME NEW D, Null \notin D, NEW h \in Heap(D), NEW n, n \notin D, n # Null,
         NEW b \in D \cup {Null}
  PROVE  Linked(SetPrevOf(SetPrev(SetNext(h, n, b), n, Null), b, n), h, D, n, Null, b)
<1>1. PICK f, g : /\ h = [next |-> f, prev |-> g] /\ f = h.next /\ g = h.prev
                  /\ f \in [D -> D \cup {Null}] /\ g \in [D -> D \cup {Null}]
  BY HeapRecord
<1>2. SetPrev(SetNext(h, n, b), n, Null) = [next |-> With(f, n, b), prev |-> With(g, n, Null)]
  <2>1. SetNext(h, n, b) = [next |-> With(f, n, b), prev |-> g]
    BY <1>1 DEF SetNext
  <2> QED
    BY <2>1 DEF SetPrev
<1>3. SetPrevOf([next |-> With(f, n, b), prev |-> With(g, n, Null)], b, n)
        = [next |-> With(f, n, b),
           prev |-> IF b = Null THEN With(g, n, Null) ELSE With(With(g, n, Null), b, n)]
  BY DEF SetNextOf, SetPrevOf, SetNext, SetPrev
<1>4. (IF b = Null THEN With(g, n, Null) ELSE With(With(g, n, Null), b, n))
        = [m \in D \cup {n} |-> IF m = n THEN Null ELSE IF m = b THEN n ELSE g[m]]
  <2>1. CASE b = Null
    BY <1>1, <2>1 DEF With
  <2>2. CASE b # Null
    BY <1>1, <2>2 DEF With
  <2> QED
    BY <2>1, <2>2
<1>5. With(f, n, b) = [m \in D \cup {n} |-> IF m = n THEN b ELSE IF m = Null THEN n ELSE f[m]]
  BY <1>1 DEF With
<1> QED
  BY <1>1, <1>2, <1>3, <1>4, <1>5 DEF Linked

LEMMA InsertNthLinks ==
  ASSUME NEW D, Null \notin D, NEW h \in Heap(D), NEW n, n \notin D, n # Null,
         NEW a \in D \cup {Null}, NEW b \in D
  PROVE  Linked(SetPrev(SetNext(SetPrev(SetNextOf(h, a, n), n, a), n, b), b, n), h, D, n, a, b)
<1>1. PICK f, g : /\ h = [next |-> f, prev |-> g] /\ f = h.next /\ g = h.prev
                  /\ f \in [D -> D \cup {Null}] /\ g \in [D -> D \cup {Null}]
  BY HeapRecord
<1>2. PICK e : e = IF a = Null THEN f ELSE With(f, a, n)
  OBVIOUS
<1>3. SetNextOf(h, a, n) = [next |-> e, prev |-> g]
  BY <1>1, <1>2 DEF SetNextOf, SetPrevOf, SetNext, SetPrev
<1>4. SetPrev(SetNext(SetPrev(SetNextOf(h, a, n), n, a), n, b), b, n)
        = [next |-> With(e, n, b), prev |-> With(With(g, n, a), b, n)]
  <2>1. SetPrev(SetNextOf(h, a, n), n, a) = [next |-> e, prev |-> With(g, n, a)]
    BY <1>3 DEF SetPrev
  <2>2. SetNext([next |-> e, prev |-> With(g, n, a)], n, b) = [next |-> With(e, n, b), prev |-> With(g, n, a)]
    BY DEF SetNext
  <2>3. SetPrev([next |-> With(e, n, b), prev |-> With(g, n, a)], b, n)
          = [next |-> With(e, n, b), prev |-> With(With(g, n, a), b, n)]
    BY DEF SetPrev
  <2> QED
    BY <2>1, <2>2, <2>3
<1>5. With(e, n, b) = [m \in D \cup {n} |-> IF m = n THEN b ELSE IF m = a THEN n ELSE f[m]]
  <2>1. CASE a = Null
    BY <1>1, <1>2, <2>1 DEF With
  <2>2. CASE a # Null
    BY <1>1, <1>2, <2>2 DEF With
  <2> QED
    BY <2>1, <2>2
<1>6. With(With(g, n, a), b, n) = [m \in D \cup {n} |-> IF m = n THEN a ELSE IF m = b THEN n ELSE g[m]]
  BY <1>1 DEF With
<1> QED
  BY <1>1, <1>4, <1>5, <1>6 DEF Linked

LEMMA UnlinkLinks ==
  ASSUME NEW D, Null \notin D, NEW h \in Heap(D), NEW n \in D
  PROVE  Unlinked([next |-> Without(Unlink(h, n).next, n), prev |-> Without(Unlink(h, n).prev, n)],
                  h, D, n)
<1>1. PICK f, g : /\ h = [next |-> f, prev |-> g] /\ f = h.next /\ g = h.prev
                  /\ f \in [D -> D \cup {Null}] /\ g \in [D -> D \cup {Null}]
  BY HeapRecord
<1>2. PICK a, b : a = h.prev[n] /\ b = h.next[n] /\ a \in D \cup {Null} /\ b \in D \cup {Null}
  BY <1>1
<1>3. Unlink(h, n) = [next |-> IF a = Null THEN f ELSE With(f, a, b),
                      prev |-> IF b = Null THEN g ELSE With(g, b, a)]
  BY <1>1, <1>2 DEF SetNextOf, SetPrevOf, SetNext, SetPrev, Unlink
<1>4. Without(IF a = Null THEN f ELSE With(f, a, b), n)
        = [m \in D \ {n} |-> IF m = a THEN b ELSE f[m]]
  <2>1. CASE a = Null
    BY <1>1, <2>1 DEF Without
  <2>2. CASE a # Null
    BY <1>1, <1>2, <2>2 DEF Without, With
  <2> QED
    BY <2>1, <2>2
<1>5. Without(IF b = Null THEN g ELSE With(g, b, a), n)
        = [m \in D \ {n} |-> IF m = b THEN a ELSE g[m]]
  <2>1. CASE b = Null
    BY <1>1, <2>1 DEF Without
  <2>2. CASE b # Null
    BY <1>1, <1>2, <2>2 DEF Without, With
  <2> QED
    BY <2>1, <2>2
<1> QED
  BY <1>1, <1>2, <1>3, <1>4, <1>5 DEF Unlinked

LEMMA SwitchLinks ==
  ASSUME NEW D, Null \notin D, NEW h \in Heap(D), Agree(h, D), NEW n \in D, NEW m \in D, n # m,
         h.next[n] = m, h.prev[n] # m
  PROVE  Relinked(Switch(h, n, m), h, D, m, h.prev[n], n)
<1>1. PICK f, g : /\ h = [next |-> f, prev |-> g] /\ f = h.next /\ g = h.prev
                  /\ f \in [D -> D \cup {Null}] /\ g \in [D -> D \cup {Null}]
  BY HeapRecord
<1>2. PICK a, e : a = h.prev[n] /\ e = h.next[m] /\ a \in D \cup {Null} /\ e \in D \cup {Null}
  BY <1>1
<1>3. h.prev[m] = n /\ a # n /\ e # m /\ a # m /\ e # n
  BY <1>2 DEF Agree
<1>4. PICK x : x = IF a = Null THEN With(f, n, e) ELSE With(With(f, n, e), a, m)
  OBVIOUS
<1>5. PICK y : y = IF e = Null THEN g ELSE With(g, e, n)
  OBVIOUS
<1>6. Switch(h, n, m) = [next |-> With(x, m, n), prev |-> With(With(y, m, a), n, m)]
  <2>1. SetPrevOf(SetNext(h, n, e), e, n) = [next |-> With(f, n, e), prev |-> y]
    BY <1>1, <1>5 DEF SetNextOf, SetPrevOf, SetNext, SetPrev
  <2>2. SetPrev([next |-> With(f, n, e), prev |-> y], m, a) = [next |-> With(f, n, e), prev |-> With(y, m, a)]
    BY DEF SetNext, SetPrev
  <2>3. SetNextOf([next |-> With(f, n, e), prev |-> With(y, m, a)], a, m) = [next |-> x, prev |-> With(y, m, a)]
    BY <1>4 DEF SetNextOf, SetPrevOf, SetNext, SetPrev
  <2>4. SetPrev([next |-> x, prev |-> With(y, m, a)], n, m)
          = [next |-> x, prev |-> With(With(y, m, a), n, m)]
    BY DEF SetPrev
  <2>5. SetNext([next |-> x, prev |-> With(With(y, m, a), n, m)], m, n)
          = [next |-> With(x, m, n), prev |-> With(With(y, m, a), n, m)]
    BY DEF SetNext
  <2> QED
    BY <1>2, <2>1, <2>2, <2>3, <2>4, <2>5 DEF Switch
<1>7. With(x, m, n) = [l \in D |-> IF l = m THEN n ELSE IF l = a THEN m ELSE IF l = n THEN e ELSE f[l]]
  <2>1. CASE a = Null
    BY <1>1, <1>3, <1>4, <2>1 DEF With
  <2>2. CASE a # Null
    BY <1>1, <1>2, <1>3, <1>4, <2>2 DEF With
  <2> QED
    BY <2>1, <2>2
<1>8. With(With(y, m, a), n, m)
        = [l \in D |-> IF l = m THEN a ELSE IF l = n THEN m ELSE IF l = e THEN n ELSE g[l]]
  <2>1. CASE e = Null
    BY <1>1, <1>3, <1>5, <2>1 DEF With
  <2>2. CASE e # Null
    BY <1>1, <1>2, <1>3, <1>5, <2>2 DEF With
  <2> QED
    BY <2>1, <2>2
<1> QED
  BY <1>1, <1>2, <1>3, <1>6, <1>7, <1>8 DEF Relinked

LEMMA PrependLinks ==
  ASSUME NEW D, Null \notin D, NEW h \in Heap(D), NEW n \in D, NEW s \in D \cup {Null},
         NEW b \in D, b = (IF s # Null THEN h.next[s] ELSE front),
         h.prev[n] \in D, h.prev[n] # n, h.next[n] # n,
         s # n, b # n, s # h.prev[n], b # h.next[n]
  PROVE  Relinked(Prepend(h, s, n), h, D, n, s, b)
<1>1. PICK f, g : /\ h = [next |-> f, prev |-> g] /\ f = h.next /\ g = h.prev
                  /\ f \in [D -> D \cup {Null}] /\ g \in [D -> D \cup {Null}]
  BY HeapRecord
<1>2. PICK c, e : c = h.prev[n] /\ e = h.next[n] /\ c \in D /\ e \in D \cup {Null}
  BY <1>1
<1>3. PICK x : x = IF s # Null THEN With(With(f, s, n), n, b) ELSE With(f, n, b)
  OBVIOUS
<1>4. PICK y : y = With(With(g, b, n), n, s)
  OBVIOUS
<1>5. (IF s # Null
       THEN SetPrev(SetNext(SetNext(h, s, n), n, h.next[s]), h.next[s], n)
       ELSE SetPrev(SetNext(h, n, front), front, n)) = [next |-> x, prev |-> With(g, b, n)]
  <2>1. CASE s # Null
    BY <1>1, <1>3, <2>1 DEF SetNext, SetPrev
  <2>2. CASE s = Null
    BY <1>1, <1>3, <2>2 DEF SetNext, SetPrev
  <2> QED
    BY <2>1, <2>2
<1>6. Prepend(h, s, n) = [next |-> With(x, c, e), prev |-> IF e = Null THEN y ELSE With(y, e, c)]
  <2>1. SetPrev([next |-> x, prev |-> With(g, b, n)], n, s) = [next |-> x, prev |-> y]
    BY <1>4 DEF SetPrev
  <2>2. SetNext([next |-> x, prev |-> y], c, e) = [next |-> With(x, c, e), prev |-> y]
    BY DEF SetNext
  <2>3. SetPrevOf([next |-> With(x, c, e), prev |-> y], e, c)
          = [next |-> With(x, c, e), prev |-> IF e = Null THEN y ELSE With(y, e, c)]
    BY DEF SetNextOf, SetPrevOf, SetNext, SetPrev
  <2> QED
    BY <1>2, <1>5, <2>1, <2>2, <2>3 DEF Prepend
<1>7. With(x, c, e) = [l \in D |-> IF l = n THEN b ELSE IF l = s THEN n ELSE IF l = c THEN e ELSE f[l]]
  <2>1. CASE s # Null
    BY <1>1, <1>2, <1>3, <2>1 DEF With
  <2>2. CASE s = Null
    BY <1>1, <1>2, <1>3, <2>2 DEF With
  <2> QED
    BY <2>1, <2>2
<1>8. (IF e = Null THEN y ELSE With(y, e, c))
        = [l \in D |-> IF l = n THEN s ELSE IF l = b THEN n ELSE IF l = e THEN c ELSE g[l]]
  <2>1. CASE e = Null
    BY <1>1, <1>2, <1>4, <2>1 DEF With
  <2>2. CASE e # Null
    BY <1>1, <1>2, <1>4, <2>2 DEF With
  <2> QED
    BY <2>1, <2>2
<1> QED
  BY <1>1, <1>2, <1>6, <1>7, <1>8 DEF Relinked

-----------------------------------------------------------------------------
(* The data of a list *)

Values(d, s) == [i \in 1..Len(s) |-> d[s[i]]]

LEMMA ValuesAre ==
  ASSUME NEW D, NEW d, NEW s \in Seq(D)
  PROVE  /\ Len(Values(d, s)) = Len(s)
         /\ \A i \in 1..Len(s) : Values(d, s)[i] = d[s[i]]
BY DEF Values

LEMMA ValuesType ==
  ASSUME NEW D, NEW S, NEW d \in [D -> S], NEW s \in Seq(D)
  PROVE  Values(d, s) \in Seq(S)
<1>1. Len(s) \in Nat /\ \A i \in 1..Len(s) : s[i] \in D
  OBVIOUS
<1>2. Values(d, s) \in [1..Len(s) -> S]
  BY <1>1 DEF Values
<1> QED
  BY <1>1, <1>2

LEMMA ValuesOfIns ==
  ASSUME NEW D, NEW d, DOMAIN d = D, NEW s \in Seq(D), NEW k \in 1..(Len(s) + 1),
         NEW n, n \notin D, NEW x
  PROVE  Values(With(d, n, x), Ins(s, k, n)) = Ins(Values(d, s), k, x)
<1> DEFINE e == With(d, n, x)
           t == Ins(s, k, n)
<1>1. Len(s) \in Nat /\ \A i \in 1..Len(s) : s[i] \in D
  OBVIOUS
<1>2. e[n] = x /\ \A m \in D : e[m] = d[m]
  BY DEF With
<1>3. /\ Len(t) = Len(s) + 1
      /\ \A j \in 1..(Len(s) + 1) : t[j] = IF j < k THEN s[j] ELSE IF j = k THEN n ELSE s[j - 1]
  <2>1. s \in Seq(D \cup {n}) /\ n \in D \cup {n}
    BY <1>1
  <2> QED
    BY <2>1, InsProperties, SMTT(30)
<1>4. Len(Values(d, s)) = Len(s) /\ \A i \in 1..Len(s) : Values(d, s)[i] = d[s[i]]
  BY ValuesAre
<1> HIDE DEF e, t
<1>5. ASSUME NEW j \in 1..(Len(s) + 1)
      PROVE  e[t[j]] = IF j < k THEN Values(d, s)[j] ELSE IF j = k THEN x ELSE Values(d, s)[j - 1]
  <2>1. CASE j < k
    <3>1. j \in 1..Len(s)
      BY <1>1, <2>1
    <3> QED
      BY <1>1, <1>2, <1>3, <1>4, <2>1, <3>1
  <2>2. CASE j = k
    BY <1>2, <1>3, <2>2
  <2>3. CASE j > k
    <3>1. j - 1 \in 1..Len(s)
      BY <1>1, <2>3
    <3> QED
      BY <1>1, <1>2, <1>3, <1>4, <2>3, <3>1
  <2> QED
    BY <2>1, <2>2, <2>3
<1>6. Values(e, t) = [j \in 1..(Len(s) + 1) |-> e[t[j]]]
  BY <1>3 DEF Values
<1>7. Ins(Values(d, s), k, x)
        = [j \in 1..(Len(s) + 1) |->
             IF j < k THEN Values(d, s)[j] ELSE IF j = k THEN x ELSE Values(d, s)[j - 1]]
  BY <1>4 DEF Ins
<1>8. Values(e, t) = Ins(Values(d, s), k, x)
  BY <1>5, <1>6, <1>7
<1> QED
  BY <1>8 DEF e, t

LEMMA ValuesOfDel ==
  ASSUME NEW D, NEW d, DOMAIN d = D, NEW s \in Seq(D), Different(s), NEW k \in 1..Len(s)
  PROVE  Values(Without(d, s[k]), Del(s, k)) = Del(Values(d, s), k)
<1> DEFINE e == Without(d, s[k])
           t == Del(s, k)
<1>1. Len(s) \in Nat /\ \A i \in 1..Len(s) : s[i] \in D
  OBVIOUS
<1>2. \A m \in D \ {s[k]} : e[m] = d[m]
  BY DEF Without
<1>3. /\ Len(t) = Len(s) - 1
      /\ \A j \in 1..(Len(s) - 1) : t[j] = IF j < k THEN s[j] ELSE s[j + 1]
  BY DelProperties
<1>4. Len(Values(d, s)) = Len(s) /\ \A i \in 1..Len(s) : Values(d, s)[i] = d[s[i]]
  BY ValuesAre
<1> HIDE DEF e, t
<1>5. ASSUME NEW j \in 1..(Len(s) - 1)
      PROVE  e[t[j]] = IF j < k THEN Values(d, s)[j] ELSE Values(d, s)[j + 1]
  <2>1. j \in 1..Len(s) /\ j + 1 \in 1..Len(s)
    BY <1>1
  <2>2. CASE j < k
    BY <1>1, <1>2, <1>3, <1>4, <2>1, <2>2 DEF Different
  <2>3. CASE ~(j < k)
    <3>1. j + 1 # k
      BY <2>3
    <3> QED
      BY <1>1, <1>2, <1>3, <1>4, <2>1, <2>3, <3>1 DEF Different
  <2> QED
    BY <2>2, <2>3
<1>6. Values(e, t) = [j \in 1..(Len(s) - 1) |-> e[t[j]]]
  BY <1>3 DEF Values
<1>7. Del(Values(d, s), k)
        = [j \in 1..(Len(s) - 1) |-> IF j < k THEN Values(d, s)[j] ELSE Values(d, s)[j + 1]]
  BY <1>4 DEF Del
<1>8. Values(e, t) = Del(Values(d, s), k)
  BY <1>5, <1>6, <1>7
<1> QED
  BY <1>8 DEF e, t

(* t has the data of u, and those with equal keys in the order of u. *)
Stable(u, t) ==
  /\ Len(u) = Len(t) /\ ToSet(u) = ToSet(t)
  /\ \A i, j \in 1..Len(t) :
       i < j /\ KeyOf(t[i]) = KeyOf(t[j]) =>
         \E a, b \in 1..Len(u) : a < b /\ u[a] = t[i] /\ u[b] = t[j]

LEMMA StableItself ==
  ASSUME NEW S, NEW u \in Seq(S)
  PROVE  Stable(u, u)
BY DEF Stable

LEMMA Elements ==
  ASSUME NEW S, NEW s \in Seq(S)
  PROVE  ToSet(s) = {s[i] : i \in 1..Len(s)}
<1>1. DOMAIN s = 1..Len(s)
  OBVIOUS
<1> QED
  BY <1>1 DEF ToSet

LEMMA Included ==
  ASSUME NEW S, NEW u \in Seq(S), NEW v \in Seq(S),
         \A i \in 1..Len(u) : \E j \in 1..Len(v) : u[i] = v[j]
  PROVE  ToSet(u) \subseteq ToSet(v)
<1> SUFFICES ASSUME NEW x \in ToSet(u)
             PROVE  x \in ToSet(v)
  OBVIOUS
<1>1. ToSet(u) = {u[i] : i \in 1..Len(u)} /\ ToSet(v) = {v[i] : i \in 1..Len(v)}
  BY Elements
<1>2. PICK i \in 1..Len(u) : x = u[i]
  BY <1>1
<1>3. PICK j \in 1..Len(v) : u[i] = v[j]
  OBVIOUS
<1> QED
  BY <1>1, <1>2, <1>3

(* Only what moves changes its place among the others. *)
LEMMA MovedOver ==
  ASSUME NEW n \in Nat, NEW k \in 1..n, NEW p \in 1..(k - 1),
         NEW i \in 1..n, NEW j \in 1..n, i < j
  PROVE  \/ FromWhere(k, p, i) < FromWhere(k, p, j)
         \/ FromWhere(k, p, i) = k /\ FromWhere(k, p, j) \in p..(k - 1)
<1>1. CASE i < p
  BY <1>1 DEF FromWhere
<1>2. CASE i = p
  BY <1>2 DEF FromWhere
<1>3. CASE i > p
  BY <1>3 DEF FromWhere
<1> QED
  BY <1>1, <1>2, <1>3

LEMMA MovElements ==
  ASSUME NEW S, NEW t \in Seq(S), NEW k \in 1..Len(t), NEW p \in 1..(k - 1)
  PROVE  ToSet(Mov(t, k, p)) = ToSet(t)
<1>1. PICK v : v = Mov(t, k, p)
  OBVIOUS
<1>2. /\ v \in Seq(S) /\ Len(v) = Len(t) /\ Len(t) \in Nat
      /\ \A i \in 1..Len(t) : v[i] = t[FromWhere(k, p, i)]
  <2>1. v \in Seq(S)
    BY <1>1, MovType
  <2>2. Len(v) = Len(t) /\ \A i \in 1..Len(t) : v[i] = t[FromWhere(k, p, i)]
    BY <1>1, MovAre
  <2> QED
    BY <2>1, <2>2
<1>3. /\ \A i \in 1..Len(t) : FromWhere(k, p, i) \in 1..Len(t)
      /\ \A j \in 1..Len(t) : \E i \in 1..Len(t) : FromWhere(k, p, i) = j
  BY <1>2, FromWhereIn, MovTakesAll
<1>4. ToSet(v) = ToSet(t)
  <2>1. v \in Seq(S) /\ t \in Seq(S) /\ Len(v) = Len(t)
    BY <1>2
  <2>2. ASSUME NEW i \in 1..Len(t)
        PROVE  \E j \in 1..Len(t) : v[i] = t[j]
    BY <1>2, <1>3
  <2>3. ASSUME NEW j \in 1..Len(t)
        PROVE  \E i \in 1..Len(t) : t[j] = v[i]
    <3>1. PICK i \in 1..Len(t) : FromWhere(k, p, i) = j
      BY <1>3
    <3> QED
      BY <1>2, <3>1
  <2>4. ToSet(v) \subseteq ToSet(t)
    BY <2>1, <2>2, Included
  <2>5. ToSet(t) \subseteq ToSet(v)
    BY <2>1, <2>3, Included
  <2> QED
    BY <2>4, <2>5
<1> QED
  BY <1>1, <1>4

(* To move one before others of other keys keeps a sort stable. *)
LEMMA StableMove ==
  ASSUME NEW S, NEW u \in Seq(S), NEW t \in Seq(S), Stable(u, t),
         NEW k \in 1..Len(t), NEW p \in 1..(k - 1),
         \A i \in p..(k - 1) : KeyOf(t[i]) # KeyOf(t[k])
  PROVE  Stable(u, Mov(t, k, p))
<1>1. PICK v : v = Mov(t, k, p)
  OBVIOUS
<1>2. /\ v \in Seq(S) /\ Len(v) = Len(t) /\ Len(t) \in Nat
      /\ \A i \in 1..Len(t) : v[i] = t[FromWhere(k, p, i)]
  <2>1. v \in Seq(S)
    BY <1>1, MovType
  <2>2. Len(v) = Len(t) /\ \A i \in 1..Len(t) : v[i] = t[FromWhere(k, p, i)]
    BY <1>1, MovAre
  <2> QED
    BY <2>1, <2>2
<1>3. /\ \A i \in 1..Len(t) : FromWhere(k, p, i) \in 1..Len(t)
      /\ \A j \in 1..Len(t) : \E i \in 1..Len(t) : FromWhere(k, p, i) = j
  BY <1>2, FromWhereIn, MovTakesAll
<1>4. ToSet(v) = ToSet(t)
  BY <1>1, MovElements
<1>5. ASSUME NEW i \in 1..Len(v), NEW j \in 1..Len(v), i < j, KeyOf(v[i]) = KeyOf(v[j])
      PROVE  \E a, b \in 1..Len(u) : a < b /\ u[a] = v[i] /\ u[b] = v[j]
  <2>1. PICK x, y : x = FromWhere(k, p, i) /\ y = FromWhere(k, p, j)
    OBVIOUS
  <2>2. x \in 1..Len(t) /\ y \in 1..Len(t) /\ v[i] = t[x] /\ v[j] = t[y]
    BY <1>2, <1>3, <2>1
  <2>3. x < y \/ (x = k /\ y \in p..(k - 1))
    <3>1. i \in 1..Len(t) /\ j \in 1..Len(t)
      BY <1>2
    <3> QED
      BY <1>2, <1>5, <2>1, <3>1, MovedOver
  <2>4. x < y
    BY <1>5, <2>2, <2>3
  <2> QED
    BY <1>5, <2>2, <2>4 DEF Stable
<1> QED
  BY <1>1, <1>2, <1>4, <1>5 DEF Stable

LEMMA ValuesOfMov ==
  ASSUME NEW D, NEW S, NEW d, NEW s \in Seq(D), Values(d, s) \in Seq(S),
         NEW k \in 1..Len(s), NEW p \in 1..(k - 1)
  PROVE  Values(d, Mov(s, k, p)) = Mov(Values(d, s), k, p)
<1>1. Len(Values(d, s)) = Len(s) /\ \A i \in 1..Len(s) : Values(d, s)[i] = d[s[i]]
  BY ValuesAre
<1>2. Len(Mov(s, k, p)) = Len(s) /\ \A i \in 1..Len(s) : Mov(s, k, p)[i] = s[FromWhere(k, p, i)]
  BY MovAre
<1>6. \A i \in 1..Len(s) : FromWhere(k, p, i) \in 1..Len(s)
  <2>1. Len(s) \in Nat
    OBVIOUS
  <2> QED
    BY <2>1, FromWhereIn
<1>3. \A i \in 1..Len(s) : Mov(Values(d, s), k, p)[i] = Values(d, s)[FromWhere(k, p, i)]
  BY <1>1, MovAre
<1>4. Mov(Values(d, s), k, p) = [i \in 1..Len(s) |-> Mov(Values(d, s), k, p)[i]]
  BY <1>1 DEF Mov
<1>5. Values(d, Mov(s, k, p)) = [i \in 1..Len(s) |-> d[Mov(s, k, p)[i]]]
  BY <1>2 DEF Values
<1>7. \A i \in 1..Len(s) : Mov(Values(d, s), k, p)[i] = d[Mov(s, k, p)[i]]
  <2> SUFFICES ASSUME NEW i \in 1..Len(s)
               PROVE  Mov(Values(d, s), k, p)[i] = d[Mov(s, k, p)[i]]
    OBVIOUS
  <2>1. PICK j \in 1..Len(s) : j = FromWhere(k, p, i)
    BY <1>6
  <2>2. Mov(Values(d, s), k, p)[i] = Values(d, s)[j] /\ Mov(s, k, p)[i] = s[j]
    BY <1>2, <1>3, <2>1
  <2> QED
    BY <1>1, <2>2
<1> QED
  BY <1>4, <1>5, <1>7

-----------------------------------------------------------------------------
(* The invariant *)

TypeOK ==
  /\ Allocated \subseteq Node /\ data \in [Allocated -> Data] /\ heap \in Heap(Allocated)
  /\ {list, node, last, front} \subseteq Allocated \cup {Null}
  /\ sort = "none" => node = Null /\ last = Null /\ front = Null
  /\ leaked \in BOOLEAN /\ switched \in BOOLEAN
  /\ sort \in {"none", "bubble", "insert"}
  /\ unsorted \in Seq(Data)

Key(d, s, i) == KeyOf(d[s[i]])
Ascending(d, s, p) == \A i, j \in 1..p : i < j => Key(d, s, i) <= Key(d, s, j)

(* What lies behind f is where it belongs. *)
Placed(d, s, f) == \A i, j \in 1..Len(s) : i < j /\ f < j => Key(d, s, i) <= Key(d, s, j)

(* The pass has come to p: no key before it is greater, and without a switch
   they ascend.  It ends at q; when it has put the node there before its own, it
   has gone past it and runs to the end of the list. *)
Passing(d, s, p, q) ==
  /\ node = s[p] /\ last = s[q]
  /\ \A i \in 1..p : Key(d, s, i) <= Key(d, s, p)
  /\ ~switched => Ascending(d, s, p)
  /\ \/ p <= q /\ Placed(d, s, q)
     \/ q < p /\ switched /\ Placed(d, s, q + 1)

Inserting(d, s, p) == node = NodeAt(s, p) /\ front = s[1] /\ Ascending(d, s, p - 1)

(* s are the nodes of the list. *)
At(s) ==
  /\ Chain(heap, s)
  /\ ~leaked => Allocated = ToSet(s)
  /\ sort = "none" => list = NodeAt(s, 1)
  /\ sort # "none" => Stable(unsorted, Values(data, s))
  /\ sort = "bubble" => \E p, q \in 1..Len(s) : Passing(data, s, p, q)
  /\ sort = "insert" => Len(s) # 0 /\ \E p \in 2..(Len(s) + 1) : Inserting(data, s, p)

IInv == TypeOK /\ Agree(heap, Allocated) /\ \E s \in Seq(Allocated) : At(s)

LEMMA AllocatedFacts ==
  ASSUME NEW D, D \subseteq Node
  PROVE  IsFiniteSet(D) /\ Null \notin D
<1>1. MaxNode \in Nat
  BY DBLinkedListAssumption
<1>2. IsFiniteSet(Node)
  BY <1>1, FS_Interval DEF Node
<1>3. IsFiniteSet(D)
  BY <1>2, FS_Subset
<1> QED
  BY <1>1, <1>3 DEF Node, Null

LEMMA KeyIsInt ==
  ASSUME NEW d \in Data
  PROVE  KeyOf(d) \in Int
BY DBLinkedListAssumption DEF Data, KeyOf

LEMMA NodesAre ==
  ASSUME TypeOK, NEW s \in Seq(Allocated), Chain(heap, s), list = NodeAt(s, 1)
  PROVE  Nodes = s /\ DataOf(Nodes) = Values(data, s)
<1>1. IsFiniteSet(Allocated) /\ Null \notin Allocated /\ heap \in Heap(Allocated)
  BY AllocatedFacts DEF TypeOK
<1>2. Nodes = s
  BY <1>1, ForwardWalk DEF Nodes
<1>3. DOMAIN s = 1..Len(s)
  OBVIOUS
<1> QED
  BY <1>2, <1>3 DEF DataOf, Values

LEMMA NodesWillBe ==
  ASSUME TypeOK', NEW s \in Seq(Allocated'), Chain(heap', s), list' = NodeAt(s, 1)
  PROVE  DataOf(Nodes)' = Values(data', s)
<1>1. IsFiniteSet(Allocated') /\ Null \notin Allocated' /\ heap' \in Heap(Allocated')
  BY AllocatedFacts DEF TypeOK
<1>2. Nodes' = s
  BY <1>1, ForwardWalk DEF Nodes
<1>3. DOMAIN s = 1..Len(s)
  OBVIOUS
<1> QED
  BY <1>2, <1>3 DEF DataOf, Values

-----------------------------------------------------------------------------
(* Init and the operations that add and remove *)

LEMMA InitInv ==
  ASSUME Init
  PROVE  IInv /\ L!Init
<1>1. Allocated = {} /\ data = <<>> /\ heap = [next |-> <<>>, prev |-> <<>>]
  BY DEF Init, Allocated
<1>2. <<>> \in [{} -> Data] /\ <<>> \in [{} -> {} \cup {Null}]
  OBVIOUS
<1>3. <<>> \in Seq(Data) /\ <<>> \in Seq(Allocated) /\ Len(<<>>) = 0
  OBVIOUS
<1>4. TypeOK
  <2>1. heap \in Heap({}) /\ data \in [{} -> Data]
    BY <1>1, <1>2 DEF Heap
  <2>2. /\ list = Null /\ node = Null /\ last = Null /\ front = Null /\ leaked = FALSE
        /\ switched = FALSE /\ sort = "none" /\ unsorted = <<>>
    BY DEF Init
  <2> QED
    BY <1>1, <1>3, <2>1, <2>2 DEF TypeOK
<1>5. Agree(heap, Allocated)
  BY <1>1 DEF Agree
<1>6. Chain(heap, <<>>)
  BY <1>3 DEF Chain, Different
<1>7. list = NodeAt(<<>>, 1)
  BY <1>3 DEF Init, NodeAt
<1>8. At(<<>>)
  BY <1>1, <1>3, <1>6, <1>7 DEF At, Init, ToSet
<1>9. Held = <<>>
  <2>1. DataOf(Nodes) = Values(data, <<>>)
    BY <1>3, <1>4, <1>6, <1>7, NodesAre
  <2>2. Values(data, <<>>) = <<>>
    BY <1>3 DEF Values
  <2> QED
    BY <2>1, <2>2 DEF Held, Init
<1> QED
  BY <1>3, <1>4, <1>5, <1>8, <1>9 DEF IInv, L!Init

LEMMA AddStep ==
  ASSUME IInv, NEW d \in Data, Add(d), NEW s \in Seq(Allocated), At(s),
         NEW n, n = NewNode, NEW k \in 1..(Len(s) + 1),
         Linked(heap', heap, Allocated, n, NodeAt(s, k - 1), NodeAt(s, k)),
         list' = IF k = 1 THEN n ELSE list
  PROVE  IInv' /\ L!Next
<1>1. PICK U, t, u : U = Allocated /\ t = Ins(s, k, n) /\ u = Values(data, s)
  OBVIOUS
<1>2. /\ TypeOK /\ Agree(heap, U) /\ Chain(heap, s) /\ s \in Seq(U)
      /\ sort = "none" /\ list = NodeAt(s, 1)
      /\ IsFiniteSet(U) /\ Null \notin U /\ heap \in Heap(U) /\ data \in [U -> Data] /\ U \subseteq Node
  BY <1>1, AllocatedFacts DEF IInv, At, Add, TypeOK
<1>3. n \in Node /\ n \notin U /\ n # Null
  <2>1. n \in Node \ Allocated
    BY DEF Add, NewNode
  <2> QED
    BY <1>1, <2>1, DBLinkedListAssumption DEF Node, Null
<1>4. /\ data' = With(data, n, d) /\ Allocated' = U \cup {n}
      /\ leaked' = leaked /\ sort' = sort /\ node' = node /\ last' = last
      /\ switched' = switched /\ front' = front /\ unsorted' = unsorted
  BY <1>1 DEF Add, loop, With, Allocated
<1>5. /\ heap' \in Heap(U \cup {n}) /\ Agree(heap', U \cup {n})
      /\ t \in Seq(U \cup {n}) /\ Chain(heap', t)
  BY <1>1, <1>2, <1>3, InsertLinks
<1>6. /\ Len(t) = Len(s) + 1
      /\ \A j \in 1..(Len(s) + 1) : t[j] = IF j < k THEN s[j] ELSE IF j = k THEN n ELSE s[j - 1]
  <2>1. PICK E : E = U \cup {n}
    OBVIOUS
  <2>2. s \in Seq(E) /\ n \in E
    BY <1>2, <2>1
  <2>3. /\ Len(Ins(s, k, n)) = Len(s) + 1
        /\ \A j \in 1..(Len(s) + 1) :
             Ins(s, k, n)[j] = IF j < k THEN s[j] ELSE IF j = k THEN n ELSE s[j - 1]
    BY <2>2, InsProperties
  <2>4. t = Ins(s, k, n)
    BY <1>1
  <2> QED
    BY <2>3, <2>4
<1>7. list' = NodeAt(t, 1)
  <2>1. Len(s) \in Nat
    OBVIOUS
  <2>2. NodeAt(t, 1) = t[1]
    BY <1>6, <2>1 DEF NodeAt
  <2>3. k # 1 => 1 \in 1..Len(s) /\ NodeAt(s, 1) = s[1]
    BY <2>1 DEF NodeAt
  <2> QED
    BY <1>2, <1>6, <2>1, <2>2, <2>3
<1>8. TypeOK'
  <2>1. data' \in [U \cup {n} -> Data]
    BY <1>2, <1>4 DEF With
  <2>2. list' \in U \cup {n} \cup {Null}
    BY <1>1, <1>2 DEF TypeOK
  <2> QED
    BY <1>1, <1>2, <1>3, <1>4, <1>5, <2>1, <2>2 DEF TypeOK
<1>9. ASSUME ~leaked'
      PROVE  Allocated' = ToSet(t)
  <2>1. U = ToSet(s)
    BY <1>1, <1>4, <1>9 DEF At
  <2>2. ToSet(s) = {s[i] : i \in 1..Len(s)} /\ Len(s) \in Nat
    BY DEF ToSet
  <2>3. ToSet(t) = {t[i] : i \in 1..(Len(s) + 1)}
    BY <1>5, <1>6 DEF ToSet
  <2>4. ASSUME NEW i \in 1..Len(s)
        PROVE  s[i] \in {t[j] : j \in 1..(Len(s) + 1)}
    <3>1. CASE i < k
      BY <1>6, <2>2, <3>1
    <3>2. CASE ~(i < k)
      <4>1. i + 1 \in 1..(Len(s) + 1) /\ ~(i + 1 < k) /\ i + 1 # k /\ (i + 1) - 1 = i
        BY <2>2, <3>2
      <4>2. t[i + 1] = s[i]
        BY <1>6, <4>1
      <4> QED
        BY <4>1, <4>2
    <3> QED
      BY <3>1, <3>2
  <2>5. n \in {t[j] : j \in 1..(Len(s) + 1)}
    BY <1>6
  <2>6. ToSet(t) \subseteq U \cup {n}
    BY <1>5 DEF ToSet
  <2> QED
    BY <1>4, <2>1, <2>2, <2>3, <2>4, <2>5, <2>6
<1>10. At(t)'
  BY <1>2, <1>4, <1>5, <1>7, <1>9 DEF At
<1>11. IInv'
  BY <1>4, <1>5, <1>8, <1>10 DEF IInv
<1>12. L!Next
  <2>1. Held = u
    BY <1>1, <1>2, NodesAre DEF Held
  <2>2. Held' = Values(data', t)
    BY <1>2, <1>4, <1>5, <1>7, <1>8, NodesWillBe DEF Held
  <2>3. u \in Seq(Data) /\ Len(u) = Len(s) /\ \A i \in 1..Len(s) : u[i] = data[s[i]]
    BY <1>1, <1>2, ValuesType, ValuesAre
  <2>4. Values(data', t) = Ins(u, k, d)
    <3>1. DOMAIN data = U
      BY <1>2
    <3> QED
      BY <1>1, <1>2, <1>3, <1>4, <3>1, ValuesOfIns
  <2>5. Ins(u, k, d) = InsertAt(u, k, d)
    BY <2>3, InsIsInsertAt DEF InsertAt
  <2>6. d \notin ToSet(u)
    <3>1. \A i \in 1..Len(s) : u[i] \in {data[m] : m \in Allocated}
      BY <2>3
    <3>2. d \notin {data[m] : m \in Allocated}
      BY DEF Add
    <3>3. DOMAIN u = 1..Len(s)
      BY <2>3
    <3> QED
      BY <3>1, <3>2, <3>3 DEF ToSet
  <2>7. L!Insert(d, k)
    BY <2>1, <2>2, <2>4, <2>5, <2>6 DEF L!Insert, L!InsertAt, InsertAt, L!ToSet, ToSet
  <2>8. k \in 1..(Len(Held) + 1)
    BY <2>1, <2>3
  <2> QED
    BY <2>7, <2>8 DEF L!Next
<1> QED
  BY <1>11, <1>12

LEMMA AtFacts ==
  ASSUME IInv, sort = "none", NEW s \in Seq(Allocated), At(s)
  PROVE  /\ IsFiniteSet(Allocated) /\ Null \notin Allocated /\ heap \in Heap(Allocated)
         /\ Chain(heap, s) /\ list = NodeAt(s, 1) /\ Nodes = s /\ Held = Values(data, s)
<1>1. TypeOK /\ Chain(heap, s) /\ list = NodeAt(s, 1)
  BY DEF IInv, At
<1>2. IsFiniteSet(Allocated) /\ Null \notin Allocated /\ heap \in Heap(Allocated)
  BY <1>1, AllocatedFacts DEF TypeOK
<1>3. Nodes = s /\ DataOf(Nodes) = Values(data, s)
  BY <1>1, NodesAre
<1> QED
  BY <1>1, <1>2, <1>3 DEF Held

LEMMA NewNodeFacts ==
  ASSUME NEW d, Add(d)
  PROVE  NewNode \notin Allocated /\ NewNode # Null
<1>1. NewNode \in Node \ Allocated
  BY DEF Add, NewNode
<1> QED
  BY <1>1, DBLinkedListAssumption DEF Node, Null

LEMMA DAppendStep ==
  ASSUME IInv, NEW d \in Data, DAppend(d)
  PROVE  IInv' /\ L!Next
<1>1. Add(d) /\ sort = "none"
  BY DEF DAppend, Add
<1>2. PICK s \in Seq(Allocated) : At(s)
  BY DEF IInv
<1>3. PICK k : k = Len(s) + 1
  OBVIOUS
<1>4. k \in 1..(Len(s) + 1) /\ k - 1 = Len(s) /\ NodeAt(s, k) = Null
  BY <1>3 DEF NodeAt
<1>5. PICK n : n = NewNode
  OBVIOUS
<1>6. LastNode(heap, list) = NodeAt(s, k - 1)
  BY <1>1, <1>2, <1>4, AtFacts, EndsOfChain
<1>7. Linked(heap', heap, Allocated, n, NodeAt(s, k - 1), NodeAt(s, k))
  <2>1. heap' = SetNextOf(SetPrev(SetNext(heap, n, Null), n, NodeAt(s, k - 1)), NodeAt(s, k - 1), n)
    BY <1>5, <1>6 DEF DAppend
  <2>2. NodeAt(s, k - 1) \in Allocated \cup {Null}
    BY <1>4, NodeAtType
  <2>3. n \notin Allocated /\ n # Null
    BY <1>1, <1>5, NewNodeFacts
  <2> QED
    BY <1>1, <1>2, <1>4, <2>1, <2>2, <2>3, AtFacts, AppendLinks
<1>8. list' = IF k = 1 THEN n ELSE list
  <2>1. list = NodeAt(s, 1) /\ Null \notin Allocated
    BY <1>1, <1>2, AtFacts
  <2>2. list = Null <=> k = 1
    BY <1>3, <2>1 DEF NodeAt
  <2> QED
    BY <1>5, <2>2 DEF DAppend
<1> QED
  BY <1>1, <1>2, <1>4, <1>5, <1>7, <1>8, AddStep

LEMMA InsertFirstStep ==
  ASSUME IInv, NEW d \in Data, InsertFirst(d)
  PROVE  IInv' /\ L!Next
<1>1. Add(d) /\ sort = "none"
  BY DEF InsertFirst, Add
<1>2. PICK s \in Seq(Allocated) : At(s)
  BY DEF IInv
<1>3. PICK k : k = 1
  OBVIOUS
<1>4. k \in 1..(Len(s) + 1) /\ k - 1 = 0 /\ NodeAt(s, k - 1) = Null
  BY <1>3 DEF NodeAt
<1>5. PICK n : n = NewNode
  OBVIOUS
<1>6. list = NodeAt(s, k)
  BY <1>1, <1>2, <1>3, AtFacts
<1>7. Linked(heap', heap, Allocated, n, NodeAt(s, k - 1), NodeAt(s, k))
  <2>1. heap' = SetPrevOf(SetPrev(SetNext(heap, n, NodeAt(s, k)), n, Null), NodeAt(s, k), n)
    BY <1>5, <1>6 DEF InsertFirst
  <2>2. NodeAt(s, k) \in Allocated \cup {Null}
    BY <1>4, NodeAtType
  <2>3. n \notin Allocated /\ n # Null
    BY <1>1, <1>5, NewNodeFacts
  <2> QED
    BY <1>1, <1>2, <1>4, <2>1, <2>2, <2>3, AtFacts, InsertFirstLinks
<1>8. list' = IF k = 1 THEN n ELSE list
  BY <1>3, <1>5 DEF InsertFirst
<1> QED
  BY <1>1, <1>2, <1>4, <1>5, <1>7, <1>8, AddStep

LEMMA InsertNthStep ==
  ASSUME IInv, NEW d \in Data, NEW i \in 0..MaxNode, InsertNth(d, i)
  PROVE  IInv' /\ L!Next
<1>1. Add(d) /\ sort = "none" /\ NthNode(i) # Null
  BY DEF InsertNth, Add
<1>2. PICK s \in Seq(Allocated) : At(s)
  BY DEF IInv
<1>3. Nodes = s /\ Null \notin Allocated /\ heap \in Heap(Allocated) /\ Chain(heap, s) /\ list = NodeAt(s, 1)
  BY <1>1, <1>2, AtFacts
<1>4. PICK k : k = i + 1
  OBVIOUS
<1>5. k \in 1..Len(s) /\ k \in 1..(Len(s) + 1) /\ NthNode(i) = s[k] /\ NodeAt(s, k) = s[k] /\ s[k] \in Allocated
  <2>1. i < Len(s) /\ NthNode(i) = s[i + 1]
    BY <1>1, <1>3 DEF NthNode
  <2>2. i \in Nat /\ Len(s) \in Nat
    BY DBLinkedListAssumption
  <2>3. k \in 1..Len(s) /\ k \in 1..(Len(s) + 1)
    BY <1>4, <2>1, <2>2
  <2> QED
    BY <1>4, <2>1, <2>3 DEF NodeAt
<1>6. PICK n : n = NewNode
  OBVIOUS
<1>7. heap.prev[s[k]] = NodeAt(s, k - 1) /\ NodeAt(s, k - 1) \in Allocated \cup {Null}
  BY <1>3, <1>5, NodeAtType DEF Chain
<1>8. Linked(heap', heap, Allocated, n, NodeAt(s, k - 1), NodeAt(s, k))
  <2>1. heap' = SetPrev(SetNext(SetPrev(SetNextOf(heap, NodeAt(s, k - 1), n), n, NodeAt(s, k - 1)),
                                n, s[k]), s[k], n)
    BY <1>5, <1>6, <1>7 DEF InsertNth
  <2>2. n \notin Allocated /\ n # Null
    BY <1>1, <1>6, NewNodeFacts
  <2> QED
    BY <1>3, <1>5, <1>7, <2>1, <2>2, InsertNthLinks
<1>9. list' = IF k = 1 THEN n ELSE list
  <2>1. s[k] = list <=> k = 1
    BY <1>3, <1>5 DEF NodeAt, Chain, Different
  <2> QED
    BY <1>5, <1>6, <2>1 DEF InsertNth
<1> QED
  BY <1>1, <1>2, <1>5, <1>6, <1>8, <1>9, AddStep

LEMMA RemoveStep ==
  ASSUME IInv, NEW s \in Seq(Allocated), At(s), NEW k \in 1..Len(s), RemoveNode(s[k])
  PROVE  IInv' /\ L!Next
<1>0. sort = "none" /\ Len(s) \in Nat /\ s[k] \in Allocated
  BY DEF RemoveNode
<1>1. PICK U, n, t, u : U = Allocated /\ n = s[k] /\ t = Del(s, k) /\ u = Values(data, s)
  OBVIOUS
<1>2. /\ TypeOK /\ Agree(heap, U) /\ Chain(heap, s) /\ s \in Seq(U) /\ n \in U
      /\ list = NodeAt(s, 1) /\ Held = u
      /\ IsFiniteSet(U) /\ Null \notin U /\ heap \in Heap(U) /\ data \in [U -> Data] /\ U \subseteq Node
  <2>1. TypeOK /\ Agree(heap, U) /\ data \in [U -> Data] /\ U \subseteq Node
    BY <1>1 DEF IInv, TypeOK
  <2> QED
    BY <1>0, <1>1, <2>1, AtFacts
<1>3. FirstNode(heap, s[k]) = s[1]
  BY <1>1, <1>2, EndsOfChain
<1>4. /\ data' = Without(data, n) /\ Allocated' = U \ {n}
      /\ leaked' = leaked /\ sort' = sort /\ node' = node /\ last' = last
      /\ switched' = switched /\ front' = front /\ unsorted' = unsorted
  BY <1>1 DEF RemoveNode, loop, Without, Allocated
<1>5. Unlinked(heap', heap, U, s[k])
  <2>1. heap' = [next |-> Without(Unlink(heap, s[k]).next, s[k]), prev |-> Without(Unlink(heap, s[k]).prev, s[k])]
    BY DEF RemoveNode
  <2> QED
    BY <1>1, <1>2, <2>1, UnlinkLinks
<1>6. /\ heap' \in Heap(U \ {n}) /\ Agree(heap', U \ {n})
      /\ t \in Seq(U \ {n}) /\ Chain(heap', t)
  BY <1>1, <1>2, <1>5, RemoveLinks
<1>7. /\ Len(t) = Len(s) - 1
      /\ \A j \in 1..(Len(s) - 1) : t[j] = IF j < k THEN s[j] ELSE s[j + 1]
  BY <1>1, <1>2, DelProperties
<1>8. list' = NodeAt(t, 1)
  <2>1. list' = IF s[k] = s[1] THEN heap.next[s[k]] ELSE s[1]
    BY <1>3 DEF RemoveNode
  <2>2. s[k] = s[1] <=> k = 1
    BY <1>0, <1>2 DEF Chain, Different
  <2>3. CASE k = 1
    <3>1. heap.next[s[k]] = NodeAt(s, 2)
      BY <1>2, <2>3 DEF Chain
    <3>2. NodeAt(s, 2) = NodeAt(t, 1)
      BY <1>0, <1>7, <2>3 DEF NodeAt
    <3> QED
      BY <2>1, <2>2, <2>3, <3>1, <3>2
  <2>4. CASE k # 1
    <3>1. NodeAt(t, 1) = s[1]
      BY <1>0, <1>7, <2>4 DEF NodeAt
    <3> QED
      BY <2>1, <2>2, <2>4, <3>1
  <2> QED
    BY <2>3, <2>4
<1>9. TypeOK'
  <2>1. data' \in [U \ {n} -> Data]
    BY <1>2, <1>4 DEF Without
  <2>2. list' \in (U \ {n}) \cup {Null}
    BY <1>6, <1>8, NodeAtType
  <2>3. node = Null /\ last = Null /\ front = Null
    BY <1>0, <1>2 DEF TypeOK
  <2> QED
    BY <1>1, <1>2, <1>4, <1>6, <2>1, <2>2, <2>3 DEF TypeOK
<1>10. ASSUME ~leaked'
       PROVE  Allocated' = ToSet(t)
  <2>1. U = ToSet(s)
    BY <1>1, <1>4, <1>10 DEF At
  <2>2. ToSet(s) = {s[i] : i \in 1..Len(s)}
    BY DEF ToSet
  <2>3. ToSet(t) = {t[i] : i \in 1..(Len(s) - 1)}
    <3>1. DOMAIN t = 1..(Len(s) - 1)
      BY <1>6, <1>7
    <3> QED
      BY <3>1 DEF ToSet
  <2>4. ASSUME NEW i \in 1..Len(s), i # k
        PROVE  s[i] \in {t[j] : j \in 1..(Len(s) - 1)}
    <3>1. CASE i < k
      <4>1. i \in 1..(Len(s) - 1) /\ t[i] = s[i]
        BY <1>0, <1>7, <3>1
      <4> QED
        BY <4>1
    <3>2. CASE ~(i < k)
      <4>1. i - 1 \in 1..(Len(s) - 1) /\ ~(i - 1 < k) /\ (i - 1) + 1 = i
        BY <1>0, <2>4, <3>2
      <4>2. t[i - 1] = s[i]
        BY <1>7, <4>1
      <4> QED
        BY <4>1, <4>2
    <3> QED
      BY <3>1, <3>2
  <2>5. ToSet(t) \subseteq U \ {n}
    BY <1>6 DEF ToSet
  <2>6. U \ {n} \subseteq ToSet(t)
    <3> SUFFICES ASSUME NEW m \in U, m # n
                 PROVE  m \in ToSet(t)
      OBVIOUS
    <3>1. PICK i \in 1..Len(s) : m = s[i]
      BY <2>1, <2>2
    <3>2. i # k
      BY <1>1, <3>1
    <3> QED
      BY <2>3, <2>4, <3>1, <3>2
  <2> QED
    BY <1>4, <2>5, <2>6
<1>11. At(t)'
  BY <1>0, <1>4, <1>6, <1>8, <1>10 DEF At
<1>12. IInv'
  BY <1>4, <1>6, <1>9, <1>11 DEF IInv
<1>13. L!Next
  <2>1. Held' = Values(data', t)
    BY <1>0, <1>4, <1>6, <1>8, <1>9, NodesWillBe DEF Held
  <2>2. u \in Seq(Data) /\ Len(u) = Len(s)
    BY <1>1, <1>2, ValuesType, ValuesAre
  <2>3. Values(data', t) = Del(u, k)
    <3>1. DOMAIN data = U /\ Different(s)
      BY <1>2 DEF Chain
    <3> QED
      BY <1>1, <1>2, <1>4, <3>1, ValuesOfDel
  <2>4. Del(u, k) = RemoveAt(u, k)
    BY <2>2, DelIsRemoveAt DEF RemoveAt
  <2>5. L!RemoveOne(k)
    BY <1>2, <2>1, <2>3, <2>4 DEF L!RemoveOne, L!RemoveAt, RemoveAt
  <2>6. k \in DOMAIN Held
    BY <1>2, <2>2
  <2> QED
    BY <2>5, <2>6 DEF L!Next
<1> QED
  BY <1>12, <1>13

LEMMA NodeOfIn ==
  ASSUME NEW S, NEW s \in Seq(S), Nodes = s, NEW ds, NodeOf(ds) # Null
  PROVE  \E k \in 1..Len(s) : NodeOf(ds) = s[k]
<1> DEFINE found == {i \in DOMAIN s : data[s[i]] \in ds}
<1>1. NodeOf(ds) = IF found = {} THEN Null ELSE s[CHOOSE i \in found : \A j \in found : i <= j]
  BY DEF NodeOf
<1>2. found \subseteq Nat /\ found \subseteq 1..Len(s)
  OBVIOUS
<1> HIDE DEF found
<1>3. found # {}
  BY <1>1
<1>4. \E i \in found : \A j \in found : i <= j
  BY <1>2, <1>3, LeastElement
<1>5. PICK k : k = CHOOSE i \in found : \A j \in found : i <= j
  OBVIOUS
<1>6. k \in found
  BY <1>4, <1>5
<1> QED
  BY <1>1, <1>2, <1>3, <1>5, <1>6

LEMMA RemoveNodeStep ==
  ASSUME IInv, NEW n, \E i \in DOMAIN Nodes : n = Nodes[i], RemoveNode(n)
  PROVE  IInv' /\ L!Next
<1>1. PICK s \in Seq(Allocated) : At(s)
  BY DEF IInv
<1>2. sort = "none"
  BY DEF RemoveNode
<1>3. Nodes = s
  BY <1>1, <1>2, AtFacts
<1>4. PICK k \in 1..Len(s) : n = s[k]
  BY <1>3
<1>5. RemoveNode(s[k])
  BY <1>4
<1> QED
  BY <1>1, <1>4, <1>5, RemoveStep

LEMMA RemoveFoundStep ==
  ASSUME IInv, NEW ds, NodeOf(ds) # Null, RemoveNode(NodeOf(ds))
  PROVE  IInv' /\ L!Next
<1>1. PICK s \in Seq(Allocated) : At(s)
  BY DEF IInv
<1>2. sort = "none"
  BY DEF RemoveNode
<1>3. Nodes = s
  BY <1>1, <1>2, AtFacts
<1>4. PICK k \in 1..Len(s) : NodeOf(ds) = s[k]
  BY <1>3, NodeOfIn
<1>5. RemoveNode(s[k])
  BY <1>4
<1> QED
  BY <1>1, <1>4, <1>5, RemoveStep

LEMMA QueuePopStep ==
  ASSUME IInv, QueuePop
  PROVE  IInv' /\ L!Next
<1>1. PICK s \in Seq(Allocated) : At(s)
  BY DEF IInv
<1>2. sort = "none" /\ list # Null /\ RemoveNode(list)
  BY DEF QueuePop, RemoveNode
<1>3. list = NodeAt(s, 1)
  BY <1>1, <1>2, AtFacts
<1>4. 1 \in 1..Len(s) /\ list = s[1]
  BY <1>2, <1>3 DEF NodeAt
<1>5. RemoveNode(s[1])
  BY <1>2, <1>4
<1> QED
  BY <1>1, <1>4, <1>5, RemoveStep

LEMMA StackPopStep ==
  ASSUME IInv, StackPop
  PROVE  IInv' /\ L!Next
<1>1. PICK s \in Seq(Allocated) : At(s)
  BY DEF IInv
<1>2. sort = "none" /\ list # Null /\ RemoveNode(LastNode(heap, list))
  BY DEF StackPop, RemoveNode
<1>3. list = NodeAt(s, 1) /\ LastNode(heap, list) = NodeAt(s, Len(s))
  BY <1>1, <1>2, AtFacts, EndsOfChain
<1>4. PICK k : k = Len(s)
  OBVIOUS
<1>5. k \in 1..Len(s) /\ LastNode(heap, list) = s[k]
  <2>1. Len(s) \in Nat /\ Len(s) # 0
    BY <1>2, <1>3 DEF NodeAt
  <2>2. Len(s) \in 1..Len(s)
    BY <2>1
  <2> QED
    BY <1>3, <1>4, <2>2 DEF NodeAt
<1>6. RemoveNode(s[k])
  BY <1>2, <1>5
<1> QED
  BY <1>1, <1>5, <1>6, RemoveStep

(* The caller's pointer becomes NULL, and no link leads to what is gone. *)
LEMMA EmptyStep ==
  ASSUME IInv, sort = "none", list' = Null, Allocated' \subseteq Allocated,
         data' = [m \in Allocated' |-> data[m]],
         heap' = [next |-> [m \in Allocated' |-> heap.next[m]],
                  prev |-> [m \in Allocated' |-> heap.prev[m]]],
         \A m \in Allocated' : heap.next[m] \in Allocated' \cup {Null} /\ heap.prev[m] \in Allocated' \cup {Null},
         ~leaked' => Allocated' = {}, leaked' \in BOOLEAN, UNCHANGED loop
  PROVE  IInv' /\ Held' = <<>>
<1>1. PICK B : B = Allocated'
  OBVIOUS
<1>2. TypeOK /\ Agree(heap, Allocated)
  BY DEF IInv
<1>3. data \in [Allocated -> Data] /\ heap \in Heap(Allocated)
  BY <1>2 DEF TypeOK
<1>4. /\ sort' = "none" /\ node' = node /\ last' = last /\ switched' = switched
      /\ front' = front /\ unsorted' = unsorted
  BY DEF loop
<1>5. heap' \in Heap(B) /\ data' \in [B -> Data]
  <2>1. [m \in B |-> heap.next[m]] \in [B -> B \cup {Null}]
    BY <1>1
  <2>2. [m \in B |-> heap.prev[m]] \in [B -> B \cup {Null}]
    BY <1>1
  <2>3. data' \in [B -> Data]
    BY <1>1, <1>3
  <2> QED
    BY <1>1, <2>1, <2>2, <2>3 DEF Heap
<1>6. TypeOK'
  <2>1. node = Null /\ last = Null /\ front = Null
    BY <1>2 DEF TypeOK
  <2> QED
    BY <1>1, <1>2, <1>4, <1>5, <2>1 DEF TypeOK
<1>7. Agree(heap', Allocated')
  <2>1. \A m \in Allocated' : heap'.next[m] = heap.next[m] /\ heap'.prev[m] = heap.prev[m]
    OBVIOUS
  <2> QED
    BY <1>2, <2>1 DEF Agree
<1>8. <<>> \in Seq(Allocated') /\ Len(<<>>) = 0 /\ ToSet(<<>>) = {}
  BY DEF ToSet
<1>9. Chain(heap', <<>>)
  BY <1>8 DEF Chain, Different
<1>10. list' = NodeAt(<<>>, 1)
  BY <1>8 DEF NodeAt
<1>11. At(<<>>)'
  BY <1>4, <1>8, <1>9, <1>10 DEF At
<1>12. IInv'
  BY <1>6, <1>7, <1>8, <1>11 DEF IInv
<1>13. Held' = <<>>
  <2>1. DataOf(Nodes)' = Values(data', <<>>)
    BY <1>6, <1>8, <1>9, <1>10, NodesWillBe
  <2>2. Values(data', <<>>) = <<>>
    BY <1>8 DEF Values
  <2> QED
    BY <1>4, <2>1, <2>2 DEF Held
<1> QED
  BY <1>12, <1>13

LEMMA RemoveWithUserDataStep ==
  ASSUME IInv, NEW k, RemoveWithUserData(k)
  PROVE  IInv' /\ L!Next
<1> DEFINE ds == {d \in Data : KeyOf(d) = k}
           n == NodeOf(ds)
<1>1. CASE n # Null /\ RemoveNode(n)
  BY <1>1, RemoveFoundStep
<1>2. CASE /\ sort = "none" /\ list' = Null /\ leaked' = (leaked \/ list # Null)
           /\ UNCHANGED <<heap, data, loop>>
  <2>1. PICK s \in Seq(Allocated) : At(s)
    BY DEF IInv
  <2>2. TypeOK /\ list = NodeAt(s, 1) /\ Null \notin Allocated
    BY <1>2, <2>1, AtFacts DEF IInv
  <2>3. Allocated' = Allocated
    BY <1>2 DEF Allocated
  <2>4. heap \in Heap(Allocated) /\ data \in [Allocated -> Data]
    BY <2>2 DEF TypeOK
  <2>5. /\ data' = [m \in Allocated' |-> data[m]]
        /\ heap' = [next |-> [m \in Allocated' |-> heap.next[m]],
                    prev |-> [m \in Allocated' |-> heap.prev[m]]]
    <3>1. heap = [next |-> heap.next, prev |-> heap.prev]
      BY <2>4, HeapRecord
    <3>2. heap.next = [m \in Allocated |-> heap.next[m]] /\ heap.prev = [m \in Allocated |-> heap.prev[m]]
      BY <2>4 DEF Heap
    <3>3. data = [m \in Allocated |-> data[m]]
      BY <2>4
    <3> QED
      BY <1>2, <2>3, <3>1, <3>2, <3>3
  <2>6. \A m \in Allocated' : heap.next[m] \in Allocated' \cup {Null} /\ heap.prev[m] \in Allocated' \cup {Null}
    BY <2>3, <2>4 DEF Heap
  <2>7. ASSUME ~leaked'
        PROVE  Allocated' = {}
    <3>1. list = Null /\ Allocated = ToSet(s)
      BY <1>2, <2>1, <2>7 DEF At
    <3>2. 1 \notin 1..Len(s)
      BY <2>2, <3>1 DEF NodeAt
    <3>3. DOMAIN s = {}
      BY <3>2
    <3> QED
      BY <2>3, <3>1, <3>3 DEF ToSet
  <2>8. leaked' \in BOOLEAN /\ UNCHANGED loop
    BY <1>2 DEF loop
  <2>9. IInv' /\ Held' = <<>>
    BY <1>2, <2>3, <2>5, <2>6, <2>7, <2>8, EmptyStep
  <2> QED
    BY <2>9 DEF L!Next, L!RemoveMissing
<1> QED
  BY <1>1, <1>2 DEF RemoveWithUserData

LEMMA FreeStep ==
  ASSUME IInv, Free
  PROVE  IInv' /\ L!Next
<1>1. PICK s \in Seq(Allocated) : At(s)
  BY DEF IInv
<1>2. sort = "none" /\ list' = Null /\ leaked' = leaked /\ UNCHANGED loop
  BY DEF Free
<1>3. Nodes = s /\ heap \in Heap(Allocated) /\ Chain(heap, s) /\ Null \notin Allocated
  BY <1>1, <1>2, AtFacts
<1>4. Agree(heap, Allocated) /\ TypeOK
  BY DEF IInv
<1>5. PICK B : B = Allocated \ ToSet(s)
  OBVIOUS
<1>6. /\ data' = [m \in B |-> data[m]]
      /\ heap' = [next |-> [m \in B |-> heap.next[m]], prev |-> [m \in B |-> heap.prev[m]]]
  BY <1>3, <1>5 DEF Free, ToSet
<1>7. Allocated' = B
  BY <1>6 DEF Allocated
<1>8. ASSUME NEW m \in B
      PROVE  heap.next[m] \in B \cup {Null} /\ heap.prev[m] \in B \cup {Null}
  <2>1. m \in Allocated /\ heap.next[m] \in Allocated \cup {Null} /\ heap.prev[m] \in Allocated \cup {Null}
    BY <1>3, <1>5 DEF Heap
  <2>2. ASSUME NEW i \in 1..Len(s), heap.next[m] = s[i]
        PROVE  FALSE
    <3>1. heap.prev[s[i]] = m /\ heap.prev[s[i]] = NodeAt(s, i - 1)
      BY <1>3, <1>4, <2>1, <2>2 DEF Agree, Chain
    <3>2. \E j \in 1..Len(s) : m = s[j]
      BY <1>3, <2>1, <3>1 DEF NodeAt
    <3> QED
      BY <1>5, <3>2 DEF ToSet
  <2>3. ASSUME NEW i \in 1..Len(s), heap.prev[m] = s[i]
        PROVE  FALSE
    <3>1. heap.next[s[i]] = m /\ heap.next[s[i]] = NodeAt(s, i + 1)
      BY <1>3, <1>4, <2>1, <2>3 DEF Agree, Chain
    <3>2. \E j \in 1..Len(s) : m = s[j]
      BY <1>3, <2>1, <3>1 DEF NodeAt
    <3> QED
      BY <1>5, <3>2 DEF ToSet
  <2>4. ToSet(s) = {s[i] : i \in 1..Len(s)}
    BY DEF ToSet
  <2> QED
    BY <1>5, <2>1, <2>2, <2>3, <2>4
<1>9. ~leaked' => Allocated' = {}
  BY <1>1, <1>2, <1>5, <1>7 DEF At
<1>10. leaked' \in BOOLEAN /\ B \subseteq Allocated
  BY <1>2, <1>4, <1>5 DEF TypeOK
<1>11. IInv' /\ Held' = <<>>
  BY <1>2, <1>6, <1>7, <1>8, <1>9, <1>10, EmptyStep
<1> QED
  BY <1>11 DEF L!Next, L!Free

-----------------------------------------------------------------------------
(* The sorts *)

LEMMA KeyType ==
  ASSUME NEW D, NEW d \in [D -> Data], NEW s \in Seq(D), NEW i \in 1..Len(s)
  PROVE  Key(d, s, i) \in Int /\ d[s[i]] \in Data
<1>1. s[i] \in D
  OBVIOUS
<1> QED
  BY <1>1, KeyIsInt DEF Key

LEMMA SortingFacts ==
  ASSUME IInv, NEW s \in Seq(Allocated), At(s)
  PROVE  /\ TypeOK /\ Agree(heap, Allocated) /\ Chain(heap, s)
         /\ IsFiniteSet(Allocated) /\ Null \notin Allocated
         /\ heap \in Heap(Allocated) /\ data \in [Allocated -> Data]
         /\ \A i \in 1..Len(s) : Key(data, s, i) \in Int /\ s[i] \in Allocated
<1>1. TypeOK /\ Agree(heap, Allocated) /\ Chain(heap, s)
  BY DEF IInv, At
<1>2. /\ IsFiniteSet(Allocated) /\ Null \notin Allocated
      /\ heap \in Heap(Allocated) /\ data \in [Allocated -> Data]
  BY <1>1, AllocatedFacts DEF TypeOK
<1>3. \A i \in 1..Len(s) : Key(data, s, i) \in Int
  BY <1>2, KeyType
<1> QED
  BY <1>1, <1>2, <1>3

LEMMA BubbleSortStep ==
  ASSUME IInv, BubbleSort
  PROVE  IInv' /\ UNCHANGED Held
<1>1. PICK s \in Seq(Allocated) : At(s)
  BY DEF IInv
<1>2. /\ sort = "none" /\ list # Null /\ sort' = "bubble" /\ node' = list
      /\ last' = LastNode(heap, list) /\ front' = Null /\ unsorted' = DataOf(Nodes)
      /\ heap' = heap /\ data' = data /\ list' = list /\ leaked' = leaked /\ switched' = switched
  BY DEF BubbleSort, Start
<1>3. /\ list = NodeAt(s, 1) /\ LastNode(heap, list) = NodeAt(s, Len(s)) /\ Held = Values(data, s)
  BY <1>1, <1>2, AtFacts, EndsOfChain
<1>4. /\ TypeOK /\ Agree(heap, Allocated) /\ Chain(heap, s) /\ data \in [Allocated -> Data]
      /\ \A i \in 1..Len(s) : Key(data, s, i) \in Int /\ s[i] \in Allocated
  BY <1>1, SortingFacts
<1>5. Len(s) \in Nat /\ Len(s) # 0
  BY <1>2, <1>3 DEF NodeAt
<1>6. node' = s[1] /\ last' = s[Len(s)] /\ 1 \in 1..Len(s) /\ Len(s) \in 1..Len(s)
  BY <1>2, <1>3, <1>5 DEF NodeAt
<1>7. Held = DataOf(Nodes) /\ Held' = unsorted'
  BY <1>2 DEF Held
<1>8. Values(data, s) \in Seq(Data)
  BY <1>4, ValuesType
<1>9. Allocated' = Allocated
  BY <1>2 DEF Allocated
<1>10. TypeOK'
  BY <1>2, <1>3, <1>4, <1>6, <1>7, <1>8, <1>9 DEF TypeOK
<1>11. Passing(data, s, 1, Len(s))'
  <2>1. \A i \in 1..1 : Key(data, s, i) <= Key(data, s, 1)
    BY <1>4, <1>5
  <2>2. Ascending(data, s, 1) /\ Placed(data, s, Len(s)) /\ 1 <= Len(s)
    BY <1>5 DEF Ascending, Placed
  <2> QED
    BY <1>2, <1>6, <2>1, <2>2 DEF Passing
<1>12. Stable(unsorted', Values(data, s))
  BY <1>3, <1>7, <1>2, <1>8, StableItself
<1>13. At(s)'
  BY <1>1, <1>2, <1>4, <1>6, <1>9, <1>11, <1>12 DEF At
<1> QED
  BY <1>2, <1>4, <1>7, <1>9, <1>10, <1>13 DEF IInv

LEMMA InsertSortStep ==
  ASSUME IInv, InsertSort
  PROVE  IInv' /\ UNCHANGED Held
<1>1. PICK s \in Seq(Allocated) : At(s)
  BY DEF IInv
<1>2. /\ sort = "none" /\ list # Null /\ sort' = "insert" /\ node' = heap.next[list]
      /\ last' = Null /\ front' = list /\ unsorted' = DataOf(Nodes)
      /\ heap' = heap /\ data' = data /\ list' = list /\ leaked' = leaked /\ switched' = switched
  BY DEF InsertSort, Start
<1>3. list = NodeAt(s, 1) /\ Held = Values(data, s)
  BY <1>1, <1>2, AtFacts
<1>4. /\ TypeOK /\ Agree(heap, Allocated) /\ Chain(heap, s) /\ data \in [Allocated -> Data]
      /\ \A i \in 1..Len(s) : Key(data, s, i) \in Int /\ s[i] \in Allocated
  BY <1>1, SortingFacts
<1>5. Len(s) \in Nat /\ Len(s) # 0
  BY <1>2, <1>3 DEF NodeAt
<1>6. list = s[1] /\ 1 \in 1..Len(s) /\ 2 \in 2..(Len(s) + 1)
  BY <1>3, <1>5 DEF NodeAt
<1>7. node' = NodeAt(s, 2) /\ NodeAt(s, 2) \in Allocated \cup {Null}
  BY <1>2, <1>4, <1>6, NodeAtType DEF Chain
<1>8. Held = DataOf(Nodes) /\ Held' = unsorted'
  BY <1>2 DEF Held
<1>9. Values(data, s) \in Seq(Data)
  BY <1>4, ValuesType
<1>10. Allocated' = Allocated
  BY <1>2 DEF Allocated
<1>11. TypeOK'
  BY <1>2, <1>3, <1>4, <1>6, <1>7, <1>8, <1>9, <1>10 DEF TypeOK
<1>12. Inserting(data, s, 2)'
  BY <1>2, <1>6, <1>7 DEF Inserting, Ascending
<1>13. Stable(unsorted', Values(data, s))
  BY <1>2, <1>3, <1>8, <1>9, StableItself
<1>14. At(s)'
  BY <1>1, <1>2, <1>4, <1>5, <1>6, <1>10, <1>12, <1>13 DEF At
<1> QED
  BY <1>2, <1>4, <1>8, <1>10, <1>11, <1>14 DEF IInv

(* What a sort returns ascends, and equal keys are in the order they had. *)
LEMMA ReturnStep ==
  ASSUME IInv, NEW s \in Seq(Allocated), At(s), sort # "none", Len(s) # 0,
         Ascending(data, s, Len(s)), Return(s[1])
  PROVE  IInv' /\ L!Sort
<1>1. /\ sort' = "none" /\ list' = s[1] /\ node' = Null /\ last' = Null /\ front' = Null
      /\ switched' = FALSE /\ unsorted' = <<>>
      /\ heap' = heap /\ data' = data /\ leaked' = leaked
  BY DEF Return
<1>2. /\ TypeOK /\ Agree(heap, Allocated) /\ Chain(heap, s) /\ data \in [Allocated -> Data]
      /\ \A i \in 1..Len(s) : Key(data, s, i) \in Int /\ s[i] \in Allocated
  BY SortingFacts
<1>3. Len(s) \in Nat /\ 1 \in 1..Len(s) /\ NodeAt(s, 1) = s[1]
  BY DEF NodeAt
<1>4. Allocated' = Allocated
  BY <1>1 DEF Allocated
<1>5. <<>> \in Seq(Data)
  OBVIOUS
<1>6. TypeOK'
  BY <1>1, <1>2, <1>3, <1>4, <1>5 DEF TypeOK
<1>7. At(s)'
  BY <1>1, <1>2, <1>3, <1>4 DEF At
<1>8. IInv'
  BY <1>1, <1>2, <1>4, <1>6, <1>7 DEF IInv
<1>9. PICK u, v : u = unsorted /\ v = Values(data, s)
  OBVIOUS
<1>10. Held = u /\ Held' = v
  <2>1. DataOf(Nodes)' = Values(data', s)
    BY <1>1, <1>2, <1>3, <1>4, <1>6, NodesWillBe
  <2> QED
    BY <1>1, <1>9, <2>1 DEF Held
<1>11. Stable(u, v) /\ u \in Seq(Data) /\ v \in Seq(Data) /\ Len(v) = Len(s)
  BY <1>2, <1>9, ValuesType, ValuesAre DEF At, TypeOK
<1>12. \A i \in 1..Len(s) : KeyOf(v[i]) = Key(data, s, i)
  BY <1>9, ValuesAre DEF Key
<1>13. DOMAIN v = 1..Len(s) /\ DOMAIN u = 1..Len(u)
  BY <1>11
<1>14. ASSUME NEW i \in DOMAIN v, NEW j \in DOMAIN v, i < j
       PROVE  \/ KeyOf(v[i]) < KeyOf(v[j])
              \/ KeyOf(v[i]) = KeyOf(v[j]) /\ \E a, b \in DOMAIN u : a < b /\ u[a] = v[i] /\ u[b] = v[j]
  <2>1. i \in 1..Len(s) /\ j \in 1..Len(s)
    BY <1>13
  <2>2. KeyOf(v[i]) <= KeyOf(v[j]) /\ KeyOf(v[i]) \in Int /\ KeyOf(v[j]) \in Int
    BY <1>2, <1>12, <1>14, <2>1 DEF Ascending
  <2>3. CASE KeyOf(v[i]) = KeyOf(v[j])
    BY <1>11, <1>13, <1>14, <2>1, <2>3 DEF Stable
  <2>4. CASE KeyOf(v[i]) # KeyOf(v[j])
    BY <2>2, <2>4
  <2> QED
    BY <2>3, <2>4
<1>15. L!IsStableSort(u, v)
  BY <1>11, <1>14 DEF L!IsStableSort, Stable, L!ToSet, ToSet
<1> QED
  BY <1>8, <1>10, <1>15 DEF L!Sort

LEMMA BubbleSwitchStep ==
  ASSUME IInv, NEW s \in Seq(Allocated), At(s), sort = "bubble",
         NEW p \in 1..Len(s), NEW q \in 1..Len(s), Passing(data, s, p, q), p # q, p # Len(s),
         heap.next[node] = s[p + 1],
         Misplaced(data[node], data[s[p + 1]]),
         heap' = Switch(heap, node, s[p + 1]), switched' = TRUE,
         UNCHANGED <<node, data, list, leaked, sort, last, front, unsorted>>
  PROVE  IInv'
<1>0. Len(s) \in Nat /\ p + 1 \in 1..Len(s) /\ p \in 1..((p + 1) - 1)
  OBVIOUS
<1>1. /\ TypeOK /\ Agree(heap, Allocated) /\ Chain(heap, s)
      /\ IsFiniteSet(Allocated) /\ Null \notin Allocated
      /\ heap \in Heap(Allocated) /\ data \in [Allocated -> Data]
      /\ \A i \in 1..Len(s) : Key(data, s, i) \in Int /\ s[i] \in Allocated
  BY SortingFacts
<1>2. PICK U, t, m, k : U = Allocated /\ t = Mov(s, p + 1, p) /\ m = s[p + 1] /\ k = p + 1
  OBVIOUS
<1>3. node = s[p] /\ last = s[q]
  BY DEF Passing
<1>4. Key(data, s, p) > Key(data, s, k)
  BY <1>2, <1>3 DEF Misplaced, Key
<1>5. p < q /\ Placed(data, s, q)
  <2>1. CASE q < p /\ Placed(data, s, q + 1)
    <3>1. Key(data, s, p) <= Key(data, s, k)
      BY <1>0, <1>2, <2>1 DEF Placed
    <3> QED
      BY <1>0, <1>1, <1>2, <1>4, <3>1
  <2>2. CASE p <= q /\ Placed(data, s, q)
    BY <2>2
  <2> QED
    BY <2>1, <2>2 DEF Passing
<1>6. /\ t \in Seq(U) /\ Len(t) = Len(s)
      /\ t[p] = s[k] /\ t[k] = s[p] /\ \A i \in 1..Len(s) : i # p /\ i # k => t[i] = s[i]
  <2>1. t \in Seq(U)
    BY <1>0, <1>2, MovType
  <2>2. Len(t) = Len(s) /\ \A i \in 1..Len(s) : t[i] = s[FromWhere(p + 1, p, i)]
    BY <1>0, <1>2, MovAre
  <2> QED
    BY <1>0, <1>2, <2>1, <2>2 DEF FromWhere
<1>7. heap' \in Heap(U) /\ Agree(heap', U) /\ Chain(heap', t)
  <2>1. /\ s[p] \in U /\ s[k] \in U /\ s[p] # s[k] /\ heap.next[s[p]] = s[k]
        /\ heap.prev[s[p]] = NodeAt(s, p - 1)
    BY <1>0, <1>1, <1>2, <1>3, SMTT(30) DEF Chain, Different
  <2>2. NodeAt(s, p - 1) # s[k]
    BY <1>0, <1>1, <1>2 DEF NodeAt, Chain, Different
  <2>3. Relinked(Switch(heap, s[p], s[k]), heap, U, s[k], heap.prev[s[p]], s[p])
    BY <1>1, <1>2, <2>1, <2>2, SwitchLinks
  <2>4. Relinked(heap', heap, U, s[p + 1], NodeAt(s, p - 1), s[p])
    BY <1>2, <1>3, <2>1, <2>3
  <2> QED
    BY <1>0, <1>1, <1>2, <2>4, MoveLinks
<1>8. /\ \A i \in 1..Len(s) : i # p /\ i # k => Key(data, t, i) = Key(data, s, i)
      /\ Key(data, t, p) = Key(data, s, k) /\ Key(data, t, k) = Key(data, s, p)
  BY <1>6 DEF Key
<1>9. Stable(unsorted, Values(data, t))
  <2>1. Stable(unsorted, Values(data, s)) /\ unsorted \in Seq(Data)
    BY <1>1 DEF At, TypeOK
  <2>2. PICK v : v = Values(data, s)
    OBVIOUS
  <2>3. v \in Seq(Data) /\ Len(v) = Len(s) /\ \A i \in 1..Len(s) : KeyOf(v[i]) = Key(data, s, i)
    BY <1>1, <2>2, ValuesType, ValuesAre DEF Key
  <2>4. \A i \in p..((p + 1) - 1) : KeyOf(v[i]) # KeyOf(v[p + 1])
    BY <1>0, <1>1, <1>2, <1>4, <2>3
  <2>5. Stable(unsorted, Mov(v, p + 1, p))
    BY <1>0, <2>1, <2>2, <2>3, <2>4, StableMove
  <2>6. Values(data, t) = Mov(v, p + 1, p)
    BY <1>0, <1>2, <2>2, <2>3, ValuesOfMov
  <2> QED
    BY <2>5, <2>6
<1>10. \A i \in 1..k : Key(data, t, i) <= Key(data, t, k)
  <2> SUFFICES ASSUME NEW i \in 1..k
               PROVE  Key(data, t, i) <= Key(data, t, k)
    OBVIOUS
  <2>1. CASE i = k
    BY <1>0, <1>1, <1>8, <2>1
  <2>2. CASE i = p
    BY <1>0, <1>1, <1>2, <1>4, <1>8, <2>2
  <2>3. CASE i # k /\ i # p
    <3>1. i \in 1..p /\ i \in 1..Len(s)
      BY <1>0, <1>2, <2>3
    <3>2. Key(data, s, i) <= Key(data, s, p)
      BY <3>1 DEF Passing
    <3> QED
      BY <1>8, <2>3, <3>1, <3>2
  <2> QED
    BY <2>1, <2>2, <2>3
<1>11. Placed(data, t, q)
  <2> SUFFICES ASSUME NEW i \in 1..Len(s), NEW j \in 1..Len(s), i < j, q < j
               PROVE  Key(data, t, i) <= Key(data, t, j)
    BY <1>6 DEF Placed
  <2>1. j # p /\ j # k /\ p < j /\ k < j
    BY <1>2, <1>5
  <2>2. Key(data, t, j) = Key(data, s, j)
    BY <1>8, <2>1
  <2>3. \A l \in 1..Len(s) : l < j => Key(data, s, l) <= Key(data, s, j)
    BY <1>5 DEF Placed
  <2>4. CASE i = p
    BY <1>0, <1>2, <1>8, <2>1, <2>2, <2>3, <2>4
  <2>5. CASE i = k
    BY <1>0, <1>2, <1>8, <2>1, <2>2, <2>3, <2>5
  <2>6. CASE i # p /\ i # k
    BY <1>8, <2>2, <2>3, <2>6
  <2> QED
    BY <2>4, <2>5, <2>6
<1>12. PICK r : r = IF q = k THEN p ELSE q
  OBVIOUS
<1>13. Passing(data, t, k, r)'
  <2>1. t[k] = node /\ t[r] = last
    BY <1>2, <1>3, <1>5, <1>6, <1>12
  <2>2. \/ k <= r /\ Placed(data, t, r)
        \/ r < k /\ Placed(data, t, r + 1)
    <3>1. CASE q = k
      BY <1>2, <1>11, <1>12, <3>1
    <3>2. CASE q # k
      BY <1>2, <1>5, <1>11, <1>12, <3>2
    <3> QED
      BY <3>1, <3>2
  <2> QED
    BY <1>10, <2>1, <2>2 DEF Passing
<1>14. Allocated' = U
  BY <1>2 DEF Allocated
<1>15. TypeOK'
  BY <1>1, <1>2, <1>7, <1>14 DEF TypeOK
<1>16. ToSet(t) = ToSet(s)
  BY <1>0, <1>2, MovElements
<1>17. At(t)'
  <2>1. k \in 1..Len(t) /\ r \in 1..Len(t)
    BY <1>0, <1>2, <1>6, <1>12
  <2>2. \E x, y \in 1..Len(t) : Passing(data, t, x, y)'
    BY <1>13, <2>1
  <2>3. ~leaked' => Allocated' = ToSet(t)
    BY <1>2, <1>14, <1>16 DEF At
  <2> QED
    BY <1>7, <1>9, <2>2, <2>3 DEF At
<1> QED
  BY <1>6, <1>7, <1>14, <1>15, <1>17 DEF IInv

LEMMA BubbleCompareStep ==
  ASSUME IInv, BubbleCompare
  PROVE  IInv' /\ UNCHANGED Held
<1>1. PICK s \in Seq(Allocated) : At(s)
  BY DEF IInv
<1>2. /\ sort = "bubble" /\ node # last /\ heap.next[node] # Null
      /\ data' = data /\ list' = list /\ leaked' = leaked /\ sort' = sort
      /\ last' = last /\ front' = front /\ unsorted' = unsorted
  BY DEF BubbleCompare
<1>3. /\ TypeOK /\ Agree(heap, Allocated) /\ Chain(heap, s) /\ data \in [Allocated -> Data]
      /\ \A i \in 1..Len(s) : Key(data, s, i) \in Int /\ s[i] \in Allocated
  BY <1>1, SortingFacts
<1>4. PICK p \in 1..Len(s) : \E q \in 1..Len(s) : Passing(data, s, p, q)
  BY <1>1, <1>2 DEF At
<1>5. PICK q \in 1..Len(s) : Passing(data, s, p, q)
  BY <1>4
<1>6. node = s[p] /\ last = s[q] /\ p # q
  BY <1>2, <1>5 DEF Passing
<1>7. p # Len(s) /\ p + 1 \in 1..Len(s) /\ heap.next[node] = s[p + 1]
  <2>1. heap.next[node] = NodeAt(s, p + 1)
    BY <1>3, <1>6 DEF Chain
  <2> QED
    BY <1>2, <2>1 DEF NodeAt
<1>8. UNCHANGED Held
  BY <1>2 DEF Held
<1>9. CASE /\ Misplaced(data[node], data[s[p + 1]])
           /\ heap' = Switch(heap, node, s[p + 1]) /\ switched' = TRUE /\ node' = node
  <2>1. IInv'
    BY <1>1, <1>2, <1>5, <1>6, <1>7, <1>9, BubbleSwitchStep
  <2> QED
    BY <1>8, <2>1
<1>10. CASE /\ ~Misplaced(data[node], data[s[p + 1]])
            /\ node' = s[p + 1] /\ heap' = heap /\ switched' = switched
  <2>1. Key(data, s, p) <= Key(data, s, p + 1)
    BY <1>3, <1>6, <1>7, <1>10 DEF Misplaced, Key
  <2>2. ASSUME NEW i \in 1..(p + 1)
        PROVE  Key(data, s, i) <= Key(data, s, p + 1)
    <3>1. CASE i = p + 1
      BY <1>3, <1>7, <3>1
    <3>2. CASE i # p + 1
      <4>1. i \in 1..p /\ i \in 1..Len(s)
        BY <3>2
      <4>2. Key(data, s, i) <= Key(data, s, p)
        BY <1>5, <4>1 DEF Passing
      <4> QED
        BY <1>3, <1>7, <2>1, <4>1, <4>2
    <3> QED
      BY <3>1, <3>2
  <2>3. ASSUME ~switched
        PROVE  Ascending(data, s, p + 1)
    <3> SUFFICES ASSUME NEW i \in 1..(p + 1), NEW j \in 1..(p + 1), i < j
                 PROVE  Key(data, s, i) <= Key(data, s, j)
      BY DEF Ascending
    <3>1. CASE j = p + 1
      BY <2>2, <3>1
    <3>2. CASE j # p + 1
      <4>1. i \in 1..p /\ j \in 1..p
        BY <3>2
      <4> QED
        BY <1>5, <2>3, <4>1 DEF Passing, Ascending
    <3> QED
      BY <3>1, <3>2
  <2>4. \/ p + 1 <= q /\ Placed(data, s, q)
        \/ q < p + 1 /\ switched /\ Placed(data, s, q + 1)
    BY <1>5, <1>6 DEF Passing
  <2>5. Passing(data, s, p + 1, q)'
    BY <1>2, <1>6, <1>10, <2>2, <2>3, <2>4 DEF Passing
  <2>6. Allocated' = Allocated
    BY <1>2 DEF Allocated
  <2>7. TypeOK'
    BY <1>2, <1>3, <1>7, <1>10, <2>6 DEF TypeOK
  <2>8. At(s)'
    <3>1. \E x, y \in 1..Len(s) : Passing(data, s, x, y)'
      BY <1>7, <2>5
    <3> QED
      BY <1>1, <1>2, <1>3, <1>10, <2>6, <3>1 DEF At
  <2> QED
    BY <1>2, <1>3, <1>8, <1>10, <2>6, <2>7, <2>8 DEF IInv
<1> QED
  BY <1>7, <1>9, <1>10 DEF BubbleCompare

LEMMA BubbleAtEndStep ==
  ASSUME IInv, BubbleAtEnd
  PROVE  IInv' /\ UNCHANGED Held
<1>1. PICK s \in Seq(Allocated) : At(s)
  BY DEF IInv
<1>2. /\ sort = "bubble" /\ node # last /\ heap.next[node] = Null /\ last' = node
      /\ heap' = heap /\ data' = data /\ list' = list /\ leaked' = leaked /\ sort' = sort
      /\ node' = node /\ switched' = switched /\ front' = front /\ unsorted' = unsorted
  BY DEF BubbleAtEnd
<1>3. /\ TypeOK /\ Agree(heap, Allocated) /\ Chain(heap, s) /\ Null \notin Allocated
      /\ \A i \in 1..Len(s) : Key(data, s, i) \in Int /\ s[i] \in Allocated
  BY <1>1, SortingFacts
<1>4. PICK p \in 1..Len(s) : \E q \in 1..Len(s) : Passing(data, s, p, q)
  BY <1>1, <1>2 DEF At
<1>5. p = Len(s)
  <2>1. heap.next[s[p]] = NodeAt(s, p + 1) /\ node = s[p]
    BY <1>3, <1>4 DEF Chain, Passing
  <2>2. p + 1 \notin 1..Len(s)
    BY <1>2, <1>3, <2>1 DEF NodeAt
  <2> QED
    BY <2>2
<1>6. Passing(data, s, p, p)'
  <2>1. Placed(data, s, p)
    BY <1>5 DEF Placed
  <2>2. p <= p
    OBVIOUS
  <2> QED
    BY <1>2, <1>4, <2>1, <2>2 DEF Passing
<1>7. Allocated' = Allocated
  BY <1>2 DEF Allocated
<1>8. TypeOK'
  BY <1>2, <1>3, <1>7 DEF TypeOK
<1>9. At(s)'
  <2>1. \E x, y \in 1..Len(s) : Passing(data, s, x, y)'
    BY <1>6
  <2> QED
    BY <1>1, <1>2, <1>3, <1>7, <2>1 DEF At
<1>10. UNCHANGED Held
  BY <1>2 DEF Held
<1> QED
  BY <1>2, <1>3, <1>7, <1>8, <1>9, <1>10 DEF IInv

LEMMA BubblePassEndsStep ==
  ASSUME IInv, BubblePassEnds
  PROVE  IInv' /\ (UNCHANGED Held \/ L!Sort)
<1>1. PICK s \in Seq(Allocated) : At(s)
  BY DEF IInv
<1>2. sort = "bubble" /\ node = last
  BY DEF BubblePassEnds
<1>3. /\ TypeOK /\ Agree(heap, Allocated) /\ Chain(heap, s) /\ Null \notin Allocated
      /\ IsFiniteSet(Allocated) /\ heap \in Heap(Allocated)
      /\ \A i \in 1..Len(s) : Key(data, s, i) \in Int /\ s[i] \in Allocated
  BY <1>1, SortingFacts
<1>4. PICK p \in 1..Len(s) : \E q \in 1..Len(s) : Passing(data, s, p, q)
  BY <1>1, <1>2 DEF At
<1>5. PICK q \in 1..Len(s) : Passing(data, s, p, q)
  BY <1>4
<1>6. p = q /\ last = s[q] /\ Placed(data, s, q)
  <2>1. s[p] = s[q]
    BY <1>2, <1>5 DEF Passing
  <2>2. p = q
    BY <1>3, <2>1 DEF Chain, Different
  <2> QED
    BY <1>5, <2>2 DEF Passing
<1>7. FirstNode(heap, last) = s[1] /\ heap.prev[last] = NodeAt(s, q - 1)
  BY <1>3, <1>6, EndsOfChain DEF Chain
<1>8. Len(s) \in Nat /\ Len(s) # 0 /\ 1 \in 1..Len(s)
  OBVIOUS
<1>9. CASE /\ switched /\ heap.prev[last] # Null
           /\ node' = s[1] /\ last' = heap.prev[last] /\ switched' = FALSE
           /\ UNCHANGED <<heap, data, list, leaked, sort, front, unsorted>>
  <2>1. q - 1 \in 1..Len(s) /\ last' = s[q - 1]
    BY <1>7, <1>9 DEF NodeAt
  <2>2. Placed(data, s, q - 1)
    <3> SUFFICES ASSUME NEW i \in 1..Len(s), NEW j \in 1..Len(s), i < j, q - 1 < j
                 PROVE  Key(data, s, i) <= Key(data, s, j)
      BY DEF Placed
    <3>1. CASE j = q
      <4>1. i \in 1..p
        BY <1>6, <3>1
      <4> QED
        BY <1>5, <1>6, <3>1, <4>1 DEF Passing
    <3>2. CASE j # q
      <4>1. q < j
        BY <3>2
      <4> QED
        BY <1>6, <4>1 DEF Placed
    <3> QED
      BY <3>1, <3>2
  <2>3. Passing(data, s, 1, q - 1)'
    <3>1. \A i \in 1..1 : Key(data, s, i) <= Key(data, s, 1)
      BY <1>3, <1>8
    <3>2. Ascending(data, s, 1) /\ 1 <= q - 1
      BY <2>1 DEF Ascending
    <3> QED
      BY <1>9, <2>1, <2>2, <3>1, <3>2 DEF Passing
  <2>4. Allocated' = Allocated
    BY <1>9 DEF Allocated
  <2>5. TypeOK'
    BY <1>2, <1>3, <1>8, <1>9, <2>1, <2>4 DEF TypeOK
  <2>6. At(s)'
    <3>1. \E x, y \in 1..Len(s) : Passing(data, s, x, y)'
      BY <1>8, <2>1, <2>3
    <3> QED
      BY <1>1, <1>2, <1>3, <1>9, <2>4, <3>1 DEF At
  <2>7. UNCHANGED Held
    BY <1>2, <1>9 DEF Held
  <2> QED
    BY <1>3, <1>9, <2>4, <2>5, <2>6, <2>7 DEF IInv
<1>10. CASE ~(switched /\ heap.prev[last] # Null) /\ Return(s[1])
  <2>1. Ascending(data, s, Len(s))
    <3> SUFFICES ASSUME NEW i \in 1..Len(s), NEW j \in 1..Len(s), i < j
                 PROVE  Key(data, s, i) <= Key(data, s, j)
      BY DEF Ascending
    <3>1. CASE q < j
      BY <1>6, <3>1 DEF Placed
    <3>2. CASE ~(q < j) /\ ~switched
      <4>1. i \in 1..p /\ j \in 1..p
        BY <1>6, <3>2
      <4> QED
        BY <1>5, <3>2, <4>1 DEF Passing, Ascending
    <3>3. CASE ~(q < j) /\ switched
      <4>1. NodeAt(s, q - 1) = Null
        BY <1>7, <1>10, <3>3
      <4>2. q - 1 \notin 1..Len(s)
        BY <1>3, <4>1 DEF NodeAt
      <4> QED
        BY <3>3, <4>2
    <3> QED
      BY <3>1, <3>2, <3>3
  <2>2. sort # "none"
    BY <1>2
  <2> QED
    BY <1>1, <1>8, <1>10, <2>1, <2>2, ReturnStep
<1> QED
  BY <1>7, <1>9, <1>10 DEF BubblePassEnds

(* Where the insertion sort finds the node to put another behind. *)
LEMMA BackIs ==
  ASSUME NEW D, IsFiniteSet(D), Null \notin D, heap \in Heap(D), NEW s \in Seq(D), Chain(heap, s),
         NEW l \in 1..Len(s), NEW d
  PROVE  \E k \in 0..l : /\ Back(s[l], d) = NodeAt(s, k)
                         /\ \A i \in (k + 1)..l : Misplaced(data[s[i]], d)
                         /\ k # 0 => ~Misplaced(data[s[k]], d)
<1>0. Len(s) \in Nat /\ l \in Nat
  OBVIOUS
<1>1. PICK w : w = [i \in 1..l |-> s[l + 1 - i]]
  OBVIOUS
<1>2. Walk(heap.prev, s[l]) = w
  BY <1>1, BackwardWalk
<1>3. DOMAIN w = 1..l /\ \A i \in 1..l : w[i] = s[l + 1 - i]
  BY <1>1
<1> DEFINE stays == {i \in 1..l : ~Misplaced(data[w[i]], d)}
<1>4. Back(s[l], d) = IF stays = {} THEN Null ELSE w[CHOOSE i \in stays : \A j \in stays : i <= j]
  BY <1>2, <1>3 DEF Back
<1>5. stays \subseteq 1..l /\ stays \subseteq Nat
  OBVIOUS
<1>6. \A i \in 1..l : l + 1 - i \in 1..l /\ w[l + 1 - i] = s[i]
  <2> TAKE i \in 1..l
  <2>1. l + 1 - i \in 1..l /\ l + 1 - (l + 1 - i) = i
    OBVIOUS
  <2> QED
    BY <1>3, <2>1
<1>7. \A i \in 1..l : l + 1 - i \notin stays => Misplaced(data[s[i]], d)
  BY <1>6
<1>8. \A i \in stays : ~Misplaced(data[w[i]], d)
  OBVIOUS
<1> HIDE DEF stays
<1>9. CASE stays = {}
  <2>1. Back(s[l], d) = NodeAt(s, 0)
    BY <1>4, <1>9 DEF NodeAt
  <2>2. \A i \in (0 + 1)..l : Misplaced(data[s[i]], d)
    BY <1>7, <1>9
  <2> QED
    BY <1>0, <2>1, <2>2
<1>10. CASE stays # {}
  <2>1. \E i \in stays : \A j \in stays : i <= j
    BY <1>5, <1>10, LeastElement
  <2>2. PICK e : e = CHOOSE i \in stays : \A j \in stays : i <= j
    OBVIOUS
  <2>3. e \in stays /\ \A j \in stays : e <= j
    BY <2>1, <2>2
  <2>4. PICK k : k = l + 1 - e
    OBVIOUS
  <2>5. k \in 0..l /\ k \in 1..l /\ k \in 1..Len(s) /\ w[e] = s[k] /\ e \in 1..l
    BY <1>3, <1>5, <2>3, <2>4
  <2>6. Back(s[l], d) = NodeAt(s, k)
    BY <1>4, <1>10, <2>2, <2>5 DEF NodeAt
  <2>7. ASSUME NEW i \in (k + 1)..l
        PROVE  Misplaced(data[s[i]], d)
    <3>1. i \in 1..l /\ ~(e <= l + 1 - i)
      BY <2>4, <2>5
    <3>2. l + 1 - i \notin stays
      BY <2>3, <3>1
    <3> QED
      BY <1>7, <3>1, <3>2
  <2>8. ~Misplaced(data[s[k]], d)
    BY <1>8, <2>3, <2>5
  <2> QED
    BY <2>5, <2>6, <2>7, <2>8
<1> QED
  BY <1>9, <1>10

LEMMA InsertMoveStep ==
  ASSUME IInv, NEW s \in Seq(Allocated), At(s), sort = "insert",
         NEW p \in 2..Len(s), Inserting(data, s, p), node = s[p],
         NEW k \in 0..(p - 2),
         \A i \in (k + 1)..(p - 1) : Misplaced(data[s[i]], data[s[p]]),
         k # 0 => ~Misplaced(data[s[k]], data[s[p]]),
         heap' = Prepend(heap, NodeAt(s, k), node),
         front' = IF NodeAt(s, k) = Null THEN node ELSE front,
         node' = heap.next[node],
         UNCHANGED <<data, list, leaked, sort, last, switched, unsorted>>
  PROVE  IInv'
<1>0. /\ Len(s) \in Nat /\ p \in 1..Len(s) /\ k + 1 \in 1..(p - 1) /\ k + 1 \in 1..Len(s)
      /\ p - 1 \in 1..Len(s) /\ (k + 1) - 1 = k /\ p \in Nat /\ k \in Nat /\ 1 \in 1..Len(s)
  OBVIOUS
<1>1. /\ TypeOK /\ Agree(heap, Allocated) /\ Chain(heap, s)
      /\ IsFiniteSet(Allocated) /\ Null \notin Allocated
      /\ heap \in Heap(Allocated) /\ data \in [Allocated -> Data]
      /\ \A i \in 1..Len(s) : Key(data, s, i) \in Int /\ s[i] \in Allocated
  BY SortingFacts
<1>2. PICK U, t, a, b, n : /\ U = Allocated /\ t = Mov(s, p, k + 1) /\ n = s[p]
                           /\ a = NodeAt(s, k) /\ b = s[k + 1]
  OBVIOUS
<1>3. /\ t \in Seq(U) /\ Len(t) = Len(s)
      /\ \A i \in 1..Len(s) : FromWhere(p, k + 1, i) \in 1..Len(s)
      /\ \A i \in 1..Len(s) : t[i] = s[FromWhere(p, k + 1, i)]
  <2>1. t \in Seq(U)
    BY <1>0, <1>2, MovType
  <2>2. Len(t) = Len(s) /\ \A i \in 1..Len(s) : t[i] = s[FromWhere(p, k + 1, i)]
    BY <1>0, <1>2, MovAre
  <2>3. \A i \in 1..Len(s) : FromWhere(p, k + 1, i) \in 1..Len(s)
    BY <1>0, FromWhereIn
  <2> QED
    BY <2>1, <2>2, <2>3
<1>4. /\ n \in U /\ b \in U /\ a \in U \cup {Null}
      /\ heap.prev[n] = s[p - 1] /\ heap.next[n] = NodeAt(s, p + 1)
      /\ a = Null <=> k = 0
      /\ a # Null => a = s[k] /\ k \in 1..Len(s) /\ heap.next[a] = b
      /\ front = s[1]
  <2>1. n \in U /\ b \in U /\ a \in U \cup {Null}
    BY <1>0, <1>1, <1>2, NodeAtType
  <2>2. heap.prev[n] = s[p - 1] /\ heap.next[n] = NodeAt(s, p + 1)
    BY <1>0, <1>1, <1>2 DEF Chain, NodeAt
  <2>3. a = Null <=> k = 0
    BY <1>0, <1>1, <1>2 DEF NodeAt
  <2>4. ASSUME a # Null
        PROVE  a = s[k] /\ k \in 1..Len(s) /\ heap.next[a] = b
    <3>1. k \in 1..Len(s) /\ a = s[k]
      BY <1>2, <2>4 DEF NodeAt
    <3>2. heap.next[s[k]] = NodeAt(s, k + 1)
      BY <1>1, <3>1 DEF Chain
    <3> QED
      BY <1>0, <1>2, <3>1, <3>2 DEF NodeAt
  <2>5. front = s[1]
    BY DEF Inserting
  <2> QED
    BY <2>1, <2>2, <2>3, <2>4, <2>5
<1>5. heap' \in Heap(U) /\ Agree(heap', U) /\ Chain(heap', t)
  <2>1. \A i, j \in 1..Len(s) : s[i] = s[j] => i = j
    BY <1>1 DEF Chain, Different
  <2>2. s[p - 1] \in U /\ s[p - 1] # n /\ b # n
    BY <1>0, <1>1, <1>2, <2>1, SMTT(30)
  <2>3. a # n /\ a # s[p - 1]
    BY <1>0, <1>1, <1>2, <1>4, <2>1, SMTT(30)
  <2>4. NodeAt(s, p + 1) # n /\ b # NodeAt(s, p + 1)
    <3>1. CASE p = Len(s)
      <4>1. NodeAt(s, p + 1) = Null
        BY <3>1 DEF NodeAt
      <4> QED
        BY <1>1, <1>2, <1>4, <4>1
    <3>2. CASE p # Len(s)
      <4>1. p + 1 \in 1..Len(s) /\ p + 1 # p /\ p + 1 # k + 1
        BY <1>0, <3>2
      <4>2. NodeAt(s, p + 1) = s[p + 1]
        BY <4>1 DEF NodeAt
      <4> QED
        BY <1>0, <1>2, <2>1, <4>1, <4>2
    <3> QED
      BY <3>1, <3>2
  <2>5. b = IF a # Null THEN heap.next[a] ELSE front
    BY <1>2, <1>4
  <2>6. Relinked(Prepend(heap, a, n), heap, U, n, a, b)
    BY <1>1, <1>2, <1>4, <2>2, <2>3, <2>4, <2>5, PrependLinks
  <2>7. Relinked(heap', heap, U, s[p], NodeAt(s, (k + 1) - 1), s[k + 1])
    BY <1>0, <1>2, <2>6
  <2> QED
    BY <1>0, <1>1, <1>2, <2>7, MoveLinks
<1>6. \A i \in (k + 1)..(p - 1) : Key(data, s, i) > Key(data, s, p)
  BY DEF Misplaced, Key
<1>7. k # 0 => Key(data, s, k) <= Key(data, s, p)
  <2>1. k # 0 => k \in 1..Len(s)
    BY <1>0
  <2> QED
    BY <1>0, <1>1, <2>1 DEF Misplaced, Key
<1>8. Stable(unsorted, Values(data, t))
  <2>1. Stable(unsorted, Values(data, s)) /\ unsorted \in Seq(Data)
    BY <1>1 DEF At, TypeOK
  <2>2. PICK v : v = Values(data, s)
    OBVIOUS
  <2>3. v \in Seq(Data) /\ Len(v) = Len(s) /\ \A i \in 1..Len(s) : KeyOf(v[i]) = Key(data, s, i)
    BY <1>1, <2>2, ValuesType, ValuesAre DEF Key
  <2>4. \A i \in (k + 1)..(p - 1) : KeyOf(v[i]) # KeyOf(v[p])
    <3> TAKE i \in (k + 1)..(p - 1)
    <3>1. i \in 1..Len(s)
      BY <1>0
    <3>2. Key(data, s, i) > Key(data, s, p)
      BY <1>6
    <3> QED
      BY <1>0, <1>1, <2>3, <3>1, <3>2
  <2>5. Stable(unsorted, Mov(v, p, k + 1))
    BY <1>0, <2>1, <2>2, <2>3, <2>4, StableMove
  <2>6. Values(data, t) = Mov(v, p, k + 1)
    BY <1>0, <1>2, <2>2, <2>3, ValuesOfMov
  <2> QED
    BY <2>5, <2>6
<1>9. Ascending(data, t, p)
  <2> SUFFICES ASSUME NEW i \in 1..p, NEW j \in 1..p, i < j
               PROVE  Key(data, t, i) <= Key(data, t, j)
    BY DEF Ascending
  <2>1. PICK x, y : x = FromWhere(p, k + 1, i) /\ y = FromWhere(p, k + 1, j)
    OBVIOUS
  <2>2. i \in 1..Len(s) /\ j \in 1..Len(s)
    BY <1>0
  <2>3. /\ x \in 1..Len(s) /\ y \in 1..Len(s)
        /\ Key(data, t, i) = Key(data, s, x) /\ Key(data, t, j) = Key(data, s, y)
    BY <1>3, <2>1, <2>2 DEF Key
  <2>4. \A c, e \in 1..(p - 1) : c < e => Key(data, s, c) <= Key(data, s, e)
    BY DEF Inserting, Ascending
  <2>5. CASE i = k + 1
    <3>1. x = p /\ y \in (k + 1)..(p - 1)
      BY <1>0, <2>1, <2>5 DEF FromWhere
    <3>2. Key(data, s, y) > Key(data, s, p)
      BY <1>6, <3>1
    <3> QED
      BY <1>1, <2>3, <3>1, <3>2
  <2>6. CASE j = k + 1
    <3>1. y = p /\ x = i /\ x \in 1..k /\ k # 0 /\ k \in 1..Len(s) /\ x \in 1..(p - 1) /\ k \in 1..(p - 1)
      BY <1>0, <2>1, <2>6 DEF FromWhere
    <3>2. Key(data, s, x) <= Key(data, s, k)
      <4>1. CASE x = k
        BY <1>1, <2>3, <4>1
      <4>2. CASE x # k
        BY <2>4, <3>1, <4>2
      <4> QED
        BY <4>1, <4>2
    <3> QED
      BY <1>0, <1>1, <1>7, <2>3, <3>1, <3>2
  <2>7. CASE i # k + 1 /\ j # k + 1
    <3>1. x \in 1..(p - 1) /\ y \in 1..(p - 1) /\ x < y
      BY <1>0, <2>1, <2>7 DEF FromWhere
    <3> QED
      BY <2>3, <2>4, <3>1
  <2> QED
    BY <2>5, <2>6, <2>7
<1>10. Inserting(data, t, p + 1)'
  <2>1. NodeAt(t, p + 1) = NodeAt(s, p + 1)
    <3>1. CASE p = Len(s)
      BY <1>3, <3>1 DEF NodeAt
    <3>2. CASE p # Len(s)
      <4>1. p + 1 \in 1..Len(s) /\ FromWhere(p, k + 1, p + 1) = p + 1
        BY <1>0, <3>2 DEF FromWhere
      <4> QED
        BY <1>3, <4>1 DEF NodeAt
    <3> QED
      BY <3>1, <3>2
  <2>2. node' = NodeAt(t, p + 1)
    BY <1>2, <1>4, <2>1
  <2>3. front' = t[1]
    <3>1. CASE k = 0
      <4>1. FromWhere(p, k + 1, 1) = p
        BY <3>1 DEF FromWhere
      <4> QED
        BY <1>0, <1>2, <1>3, <1>4, <3>1, <4>1
    <3>2. CASE k # 0
      <4>1. FromWhere(p, k + 1, 1) = 1
        BY <1>0, <3>2 DEF FromWhere
      <4> QED
        BY <1>0, <1>2, <1>3, <1>4, <3>2, <4>1
    <3> QED
      BY <3>1, <3>2
  <2>4. (p + 1) - 1 = p
    BY <1>0
  <2> QED
    BY <1>9, <2>2, <2>3, <2>4 DEF Inserting
<1>11. Allocated' = U
  BY <1>2 DEF Allocated
<1>12. TypeOK'
  <2>1. node' \in U \cup {Null}
    BY <1>2, <1>4, NodeAtType
  <2>2. front' \in U \cup {Null}
    BY <1>2, <1>4
  <2> QED
    BY <1>1, <1>2, <1>5, <1>11, <2>1, <2>2 DEF TypeOK
<1>13. ToSet(t) = ToSet(s)
  BY <1>0, <1>2, MovElements
<1>14. At(t)'
  <2>1. p + 1 \in 2..(Len(t) + 1) /\ Len(t) # 0
    <3>1. Len(t) = Len(s) /\ p + 1 \in 2..(Len(s) + 1) /\ Len(s) # 0
      BY <1>3
    <3> QED
      BY <3>1
  <2>2. \E x \in 2..(Len(t) + 1) : Inserting(data, t, x)'
    BY <1>10, <2>1
  <2>3. ~leaked' => Allocated' = ToSet(t)
    BY <1>2, <1>11, <1>13 DEF At
  <2> QED
    BY <1>5, <1>8, <2>1, <2>2, <2>3 DEF At
<1> QED
  BY <1>3, <1>5, <1>11, <1>12, <1>14 DEF IInv

LEMMA InsertNodeStep ==
  ASSUME IInv, InsertNode
  PROVE  IInv' /\ UNCHANGED Held
<1>1. PICK s \in Seq(Allocated) : At(s)
  BY DEF IInv
<1>2. /\ sort = "insert" /\ node # Null /\ node' = heap.next[node]
      /\ data' = data /\ list' = list /\ leaked' = leaked /\ sort' = sort
      /\ last' = last /\ switched' = switched /\ unsorted' = unsorted
  BY DEF InsertNode
<1>3. /\ TypeOK /\ Agree(heap, Allocated) /\ Chain(heap, s) /\ data \in [Allocated -> Data]
      /\ IsFiniteSet(Allocated) /\ Null \notin Allocated /\ heap \in Heap(Allocated)
      /\ \A i \in 1..Len(s) : Key(data, s, i) \in Int /\ s[i] \in Allocated
  BY <1>1, SortingFacts
<1>4. PICK p \in 2..(Len(s) + 1) : Inserting(data, s, p)
  BY <1>1, <1>2 DEF At
<1>5. Len(s) \in Nat /\ p \in 2..Len(s) /\ p \in 1..Len(s) /\ p - 1 \in 1..Len(s) /\ node = s[p] /\ front = s[1]
  <2>1. node = NodeAt(s, p) /\ front = s[1]
    BY <1>4 DEF Inserting
  <2>2. p \in 1..Len(s)
    BY <1>2, <2>1 DEF NodeAt
  <2>3. Len(s) \in Nat /\ p \in 2..Len(s) /\ p - 1 \in 1..Len(s)
    BY <2>2
  <2> QED
    BY <2>1, <2>2, <2>3 DEF NodeAt
<1>6. heap.prev[node] = s[p - 1] /\ heap.next[node] = NodeAt(s, p + 1)
  BY <1>3, <1>5 DEF Chain, NodeAt
<1>7. PICK k \in 0..(p - 1) : /\ Back(s[p - 1], data[s[p]]) = NodeAt(s, k)
                              /\ \A i \in (k + 1)..(p - 1) : Misplaced(data[s[i]], data[s[p]])
                              /\ k # 0 => ~Misplaced(data[s[k]], data[s[p]])
  BY <1>3, <1>5, BackIs
<1>8. UNCHANGED Held
  BY <1>2 DEF Held
<1>9. k = p - 1 <=> NodeAt(s, k) = s[p - 1]
  BY <1>3, <1>5 DEF NodeAt, Chain, Different
<1>10. CASE k # p - 1
  <2>1. /\ heap' = Prepend(heap, NodeAt(s, k), node)
        /\ front' = IF NodeAt(s, k) = Null THEN node ELSE front
    BY <1>5, <1>6, <1>7, <1>9, <1>10 DEF InsertNode
  <2>2. k \in 0..(p - 2)
    BY <1>5, <1>10
  <2>3. IInv'
    BY <1>1, <1>2, <1>4, <1>5, <1>7, <2>1, <2>2, InsertMoveStep
  <2> QED
    BY <1>8, <2>3
<1>11. CASE k = p - 1
  <2>1. heap' = heap /\ front' = front
    BY <1>5, <1>6, <1>7, <1>9, <1>11 DEF InsertNode
  <2>2. Key(data, s, p - 1) <= Key(data, s, p)
    <3>1. ~Misplaced(data[s[p - 1]], data[s[p]])
      BY <1>5, <1>7, <1>11
    <3> QED
      BY <1>3, <1>5, <3>1 DEF Misplaced, Key
  <2>3. Ascending(data, s, p)
    <3> SUFFICES ASSUME NEW i \in 1..p, NEW j \in 1..p, i < j
                 PROVE  Key(data, s, i) <= Key(data, s, j)
      BY DEF Ascending
    <3>1. \A c, e \in 1..(p - 1) : c < e => Key(data, s, c) <= Key(data, s, e)
      BY <1>4 DEF Inserting, Ascending
    <3>2. CASE j = p /\ i = p - 1
      BY <2>2, <3>2
    <3>3. CASE j = p /\ i # p - 1
      <4>1. i \in 1..(p - 1) /\ i < p - 1 /\ i \in 1..Len(s) /\ p - 1 \in 1..(p - 1)
        BY <1>5, <3>3
      <4>2. Key(data, s, i) <= Key(data, s, p - 1)
        BY <3>1, <4>1
      <4> QED
        BY <1>3, <1>5, <2>2, <3>3, <4>1, <4>2
    <3>4. CASE j # p
      <4>1. i \in 1..(p - 1) /\ j \in 1..(p - 1)
        BY <1>5, <3>4
      <4> QED
        BY <3>1, <4>1
    <3> QED
      BY <3>2, <3>3, <3>4
  <2>4. Inserting(data, s, p + 1)'
    <3>1. (p + 1) - 1 = p
      BY <1>5
    <3> QED
      BY <1>2, <1>5, <1>6, <2>1, <2>3, <3>1 DEF Inserting
  <2>5. Allocated' = Allocated
    BY <1>2 DEF Allocated
  <2>6. TypeOK'
    <3>1. node' \in Allocated \cup {Null}
      BY <1>2, <1>5, <1>6, NodeAtType
    <3> QED
      BY <1>2, <1>3, <2>1, <2>5, <3>1 DEF TypeOK
  <2>7. At(s)'
    <3>1. p + 1 \in 2..(Len(s) + 1) /\ Len(s) # 0
      BY <1>5
    <3>2. \E x \in 2..(Len(s) + 1) : Inserting(data, s, x)'
      BY <2>4, <3>1
    <3> QED
      BY <1>1, <1>2, <1>3, <2>1, <2>5, <3>1, <3>2 DEF At
  <2> QED
    BY <1>3, <1>8, <2>1, <2>5, <2>6, <2>7 DEF IInv
<1> QED
  BY <1>10, <1>11

LEMMA InsertEndsStep ==
  ASSUME IInv, InsertEnds
  PROVE  IInv' /\ L!Sort
<1>1. PICK s \in Seq(Allocated) : At(s)
  BY DEF IInv
<1>2. sort = "insert" /\ node = Null /\ Return(front)
  BY DEF InsertEnds
<1>3. PICK p \in 2..(Len(s) + 1) : Inserting(data, s, p)
  BY <1>1, <1>2 DEF At
<1>4. Len(s) # 0 /\ sort # "none"
  BY <1>1, <1>2 DEF At
<1>5. Null \notin Allocated /\ \A i \in 1..Len(s) : s[i] \in Allocated
  BY <1>1, SortingFacts
<1>6. p = Len(s) + 1
  <2>1. NodeAt(s, p) = Null
    BY <1>2, <1>3 DEF Inserting
  <2>2. p \notin 1..Len(s)
    BY <1>5, <2>1 DEF NodeAt
  <2> QED
    BY <2>2
<1>7. Ascending(data, s, Len(s)) /\ front = s[1]
  <2>1. p - 1 = Len(s)
    BY <1>6
  <2> QED
    BY <1>3, <2>1 DEF Inserting
<1>8. Return(s[1])
  BY <1>2, <1>7
<1> QED
  BY <1>1, <1>4, <1>7, <1>8, ReturnStep

-----------------------------------------------------------------------------
(* The theorems *)

LEMMA NextStep ==
  ASSUME IInv, [Next]_vars
  PROVE  IInv' /\ [L!Next]_(L!vars)
<1>1. ASSUME NEW d \in Data, DAppend(d)
      PROVE  IInv' /\ L!Next
  BY <1>1, DAppendStep
<1>2. ASSUME NEW d \in Data, InsertFirst(d)
      PROVE  IInv' /\ L!Next
  BY <1>2, InsertFirstStep
<1>3. ASSUME NEW d \in Data, RemoveWithData(d)
      PROVE  IInv' /\ L!Next
  BY <1>3, RemoveFoundStep DEF RemoveWithData
<1>4. ASSUME NEW d \in Data, NEW i \in 0..MaxNode, InsertNth(d, i)
      PROVE  IInv' /\ L!Next
  BY <1>4, InsertNthStep
<1>5. ASSUME NEW i \in DOMAIN Nodes, RemoveNode(Nodes[i])
      PROVE  IInv' /\ L!Next
  BY <1>5, RemoveNodeStep
<1>6. ASSUME NEW k, RemoveWithUserData(k)
      PROVE  IInv' /\ L!Next
  BY <1>6, RemoveWithUserDataStep
<1>7. CASE QueuePop
  BY <1>7, QueuePopStep
<1>8. CASE StackPop
  BY <1>8, StackPopStep
<1>9. CASE Free
  BY <1>9, FreeStep
<1>10. CASE BubbleSort
  BY <1>10, BubbleSortStep DEF L!vars
<1>11. CASE BubbleCompare
  BY <1>11, BubbleCompareStep DEF L!vars
<1>12. CASE BubbleAtEnd
  BY <1>12, BubbleAtEndStep DEF L!vars
<1>13. CASE BubblePassEnds
  BY <1>13, BubblePassEndsStep DEF L!vars, L!Next
<1>14. CASE InsertSort
  BY <1>14, InsertSortStep DEF L!vars
<1>15. CASE InsertNode
  BY <1>15, InsertNodeStep DEF L!vars
<1>16. CASE InsertEnds
  BY <1>16, InsertEndsStep DEF L!Next
<1>17. CASE UNCHANGED vars
  <2>1. /\ heap' = heap /\ data' = data /\ list' = list /\ leaked' = leaked
        /\ sort' = sort /\ node' = node /\ last' = last /\ switched' = switched
        /\ front' = front /\ unsorted' = unsorted /\ Allocated' = Allocated
    BY <1>17 DEF vars, loop, Allocated
  <2>2. TypeOK'
    BY <2>1 DEF IInv, TypeOK
  <2>3. PICK s \in Seq(Allocated) : At(s)
    BY DEF IInv
  <2>4. At(s)'
    <3>1. sort = "bubble" => \E p, q \in 1..Len(s) : Passing(data, s, p, q)'
      BY <2>1, <2>3 DEF At, Passing
    <3>2. sort = "insert" => Len(s) # 0 /\ \E p \in 2..(Len(s) + 1) : Inserting(data, s, p)'
      BY <2>1, <2>3 DEF At, Inserting
    <3> QED
      BY <2>1, <2>3, <3>1, <3>2 DEF At
  <2>5. UNCHANGED Held
    BY <2>1 DEF Held, DataOf, Nodes
  <2> QED
    BY <2>1, <2>2, <2>3, <2>4, <2>5 DEF IInv, L!vars
<1> QED
  BY <1>1, <1>2, <1>3, <1>4, <1>5, <1>6, <1>7, <1>8, <1>9, <1>10, <1>11, <1>12, <1>13, <1>14,
     <1>15, <1>16, <1>17 DEF Next

LEMMA Invariance == Spec => []IInv
<1>1. Init => IInv
  BY InitInv
<1>2. IInv /\ [Next]_vars => IInv'
  BY NextStep
<1> QED
  BY <1>1, <1>2, PTL DEF Spec

(* Every pointer of the list and of its loops is NULL or that of an allocated
   node, in every state. *)
THEOREM TypeCorrect == Spec => []TypeOK
<1>1. IInv => TypeOK
  BY DEF IInv
<1> QED
  BY <1>1, Invariance, PTL

(* Links: both directions agree and lead to no node that was freed, between the
   steps of a sort as well; the pointer kept is that of the first node, and no
   node is lost but those of a list that was forgotten. *)
THEOREM LinksHold == Spec => []Links
<1>1. ASSUME IInv
      PROVE  Links
  <2>1. PICK s \in Seq(Allocated) : At(s)
    BY <1>1 DEF IInv
  <2>2. TypeOK /\ Agree(heap, Allocated) /\ Null \notin Allocated /\ heap \in Heap(Allocated)
    BY <1>1, <2>1, SortingFacts
  <2>3. \A n \in Allocated :
          /\ heap.next[n] # Null => heap.next[n] \in Allocated /\ heap.prev[heap.next[n]] = n
          /\ heap.prev[n] # Null => heap.prev[n] \in Allocated /\ heap.next[heap.prev[n]] = n
    BY <2>2 DEF Agree, Heap
  <2>4. ASSUME sort = "none"
        PROVE  /\ list # Null => heap.prev[list] = Null
               /\ ~leaked => Allocated = {Nodes[i] : i \in DOMAIN Nodes}
    <3>1. list = NodeAt(s, 1) /\ Nodes = s /\ Chain(heap, s)
      BY <1>1, <2>1, <2>4, AtFacts
    <3>2. list # Null => heap.prev[list] = Null
      BY <3>1 DEF NodeAt, Chain
    <3>3. ~leaked => Allocated = ToSet(s)
      BY <2>1 DEF At
    <3> QED
      BY <3>1, <3>2, <3>3 DEF ToSet
  <2> QED
    BY <2>3, <2>4 DEF Links
<1> QED
  BY <1>1, Invariance, PTL

(* LinkedListSpec: every operation does to the list what LinkedList says of a
   sequence; what a sort returns ascends, and is stable. *)
THEOREM ImplementsLinkedList == Spec => LinkedListSpec
<1>1. Init => L!Init
  BY InitInv
<1>2. IInv /\ [Next]_vars => [L!Next]_(L!vars)
  BY NextStep
<1> QED
  BY <1>1, <1>2, Invariance, PTL DEF Spec, LinkedListSpec, L!Spec

-----------------------------------------------------------------------------
(* Nodes *)

Taller(a, b) == IF a > b THEN a ELSE b

(* The node of key k and value v with the subtrees l and r, its height measured. *)
Nd(k, v, l, r) ==
  [key |-> k, val |-> v, left |-> l, right |-> r,
   height |-> 1 + Taller(A!Height(l), A!Height(r))]

LEMMA NdParts ==
  ASSUME NEW k, NEW v, NEW l, NEW r
  PROVE  /\ Nd(k, v, l, r) # A!Nil
         /\ Nd(k, v, l, r).key = k
         /\ Nd(k, v, l, r).val = v
         /\ Nd(k, v, l, r).left = l
         /\ Nd(k, v, l, r).right = r
         /\ Nd(k, v, l, r).height = 1 + Taller(A!Height(l), A!Height(r))
         /\ A!Height(Nd(k, v, l, r)) = 1 + Taller(A!Height(l), A!Height(r))
<1>1. Nd(k, v, l, r) # A!Nil
  <2>1. DOMAIN Nd(k, v, l, r) # {}
    BY DEF Nd
  <2>2. DOMAIN A!Nil = {}
    BY DEF A!Nil
  <2> QED
    BY <2>1, <2>2
<1>2. /\ Nd(k, v, l, r).key = k
      /\ Nd(k, v, l, r).val = v
      /\ Nd(k, v, l, r).left = l
      /\ Nd(k, v, l, r).right = r
      /\ Nd(k, v, l, r).height = 1 + Taller(A!Height(l), A!Height(r))
  BY DEF Nd
<1> QED
  BY <1>1, <1>2 DEF A!Height

LEMMA NewNodeIs ==
  ASSUME NEW k, NEW v
  PROVE  A!NewNode(k, v) = Nd(k, v, A!Nil, A!Nil)
BY DEF A!NewNode, Nd, A!Height, Taller

(* A node whose height is still that of other subtrees. *)
Stale(k, v, l, r, h) == [key |-> k, val |-> v, left |-> l, right |-> r, height |-> h]

LEMMA StaleNode ==
  ASSUME NEW k, NEW v, NEW l, NEW r, NEW h
  PROVE  /\ Stale(k, v, l, r, h).left = l
         /\ Stale(k, v, l, r, h).right = r
         /\ A!Measured(Stale(k, v, l, r, h)) = Nd(k, v, l, r)
         /\ \A a : [Stale(k, v, l, r, h) EXCEPT !.left = a] = Stale(k, v, a, r, h)
         /\ \A a : [Stale(k, v, l, r, h) EXCEPT !.right = a] = Stale(k, v, l, a, h)
<1> DEFINE s == Stale(k, v, l, r, h)
<1>1. s.left = l /\ s.right = r
  BY DEF Stale
<1>2. A!Measured(s) = Nd(k, v, l, r)
  <2>1. A!Measured(s) = [s EXCEPT !.height =
                           1 + IF A!Height(l) > A!Height(r) THEN A!Height(l) ELSE A!Height(r)]
    <3> HIDE DEF s
    <3> QED
      BY <1>1 DEF A!Measured
  <2>2. \A i : [s EXCEPT !.height = i] = Stale(k, v, l, r, i)
    BY DEF Stale
  <2>3. Nd(k, v, l, r) =
          Stale(k, v, l, r, 1 + IF A!Height(l) > A!Height(r) THEN A!Height(l) ELSE A!Height(r))
    BY DEF Nd, Stale, Taller
  <2> QED
    BY <2>1, <2>2, <2>3
<1>3. \A a : [s EXCEPT !.left = a] = Stale(k, v, a, r, h)
  BY DEF Stale
<1>4. \A a : [s EXCEPT !.right = a] = Stale(k, v, l, a, h)
  BY DEF Stale
<1> QED
  BY <1>1, <1>2, <1>3, <1>4

LEMMA NodeIsStale ==
  ASSUME NEW k, NEW v, NEW l, NEW r
  PROVE  \E h : Nd(k, v, l, r) = Stale(k, v, l, r, h)
BY DEF Nd, Stale

(* Replacing a subtree and measuring makes a node anew. *)
LEMMA MeasuredNode ==
  ASSUME NEW k, NEW v, NEW l, NEW r
  PROVE  /\ A!Measured(Nd(k, v, l, r)) = Nd(k, v, l, r)
         /\ \A a : A!Measured([Nd(k, v, l, r) EXCEPT !.left = a]) = Nd(k, v, a, r)
         /\ \A a : A!Measured([Nd(k, v, l, r) EXCEPT !.right = a]) = Nd(k, v, l, a)
<1>1. PICK h : Nd(k, v, l, r) = Stale(k, v, l, r, h)
  BY NodeIsStale
<1>2. \A a, b : A!Measured(Stale(k, v, a, b, h)) = Nd(k, v, a, b)
  BY StaleNode
<1>3. /\ \A a : [Stale(k, v, l, r, h) EXCEPT !.left = a] = Stale(k, v, a, r, h)
      /\ \A a : [Stale(k, v, l, r, h) EXCEPT !.right = a] = Stale(k, v, l, a, h)
  BY StaleNode
<1> QED
  BY <1>1, <1>2, <1>3

LEMMA RightRotateNode ==
  ASSUME NEW k, NEW v, NEW k2, NEW v2, NEW a, NEW b, NEW c
  PROVE  A!RightRotate(Nd(k, v, Nd(k2, v2, a, b), c)) = Nd(k2, v2, a, Nd(k, v, b, c))
<1> DEFINE x == Nd(k2, v2, a, b)
           y == Nd(k, v, x, c)
<1>1. y.left = x /\ x.right = b
  BY NdParts
<1>2. A!Measured([y EXCEPT !.left = b]) = Nd(k, v, b, c)
  BY MeasuredNode
<1>3. \A z : A!Measured([x EXCEPT !.right = z]) = Nd(k2, v2, a, z)
  BY MeasuredNode
<1>4. A!RightRotate(y) = A!Measured([x EXCEPT !.right = A!Measured([y EXCEPT !.left = b])])
  BY <1>1 DEF A!RightRotate
<1> QED
  BY <1>2, <1>3, <1>4

LEMMA LeftRotateNode ==
  ASSUME NEW k, NEW v, NEW k2, NEW v2, NEW a, NEW b, NEW c
  PROVE  A!LeftRotate(Nd(k, v, a, Nd(k2, v2, b, c))) = Nd(k2, v2, Nd(k, v, a, b), c)
<1> DEFINE y == Nd(k2, v2, b, c)
           x == Nd(k, v, a, y)
<1>1. x.right = y /\ y.left = b
  BY NdParts
<1>2. A!Measured([x EXCEPT !.right = b]) = Nd(k, v, a, b)
  BY MeasuredNode
<1>3. \A z : A!Measured([y EXCEPT !.left = z]) = Nd(k2, v2, z, c)
  BY MeasuredNode
<1>4. A!LeftRotate(x) = A!Measured([y EXCEPT !.left = A!Measured([x EXCEPT !.right = b])])
  BY <1>1 DEF A!LeftRotate
<1> QED
  BY <1>2, <1>3, <1>4

(* The height of what is rotated does not matter: it is measured again. *)
WithLeft(n, a)  == [n EXCEPT !.left = a]
WithRight(n, a) == [n EXCEPT !.right = a]

LEMMA RotateUnmeasured ==
  ASSUME NEW k, NEW v, NEW l, NEW r, NEW a
  PROVE  /\ A!RightRotate(WithLeft(Nd(k, v, l, r), a)) = A!RightRotate(Nd(k, v, a, r))
         /\ A!LeftRotate(WithRight(Nd(k, v, l, r), a)) = A!LeftRotate(Nd(k, v, l, a))
<1>1. PICK h : Nd(k, v, l, r) = Stale(k, v, l, r, h)
  BY NodeIsStale
<1>2. ASSUME NEW b, NEW c, NEW i, NEW j
      PROVE  /\ A!RightRotate(Stale(k, v, b, c, i)) = A!RightRotate(Stale(k, v, b, c, j))
             /\ A!LeftRotate(Stale(k, v, b, c, i)) = A!LeftRotate(Stale(k, v, b, c, j))
  <2>1. /\ Stale(k, v, b, c, i).left = b /\ Stale(k, v, b, c, i).right = c
        /\ Stale(k, v, b, c, j).left = b /\ Stale(k, v, b, c, j).right = c
    BY StaleNode
  <2>2. ASSUME NEW d, NEW g
        PROVE  /\ A!Measured([Stale(k, v, b, c, g) EXCEPT !.left = d]) = Nd(k, v, d, c)
               /\ A!Measured([Stale(k, v, b, c, g) EXCEPT !.right = d]) = Nd(k, v, b, d)
    <3>1. /\ [Stale(k, v, b, c, g) EXCEPT !.left = d] = Stale(k, v, d, c, g)
          /\ [Stale(k, v, b, c, g) EXCEPT !.right = d] = Stale(k, v, b, d, g)
      BY StaleNode
    <3>2. /\ A!Measured(Stale(k, v, d, c, g)) = Nd(k, v, d, c)
          /\ A!Measured(Stale(k, v, b, d, g)) = Nd(k, v, b, d)
      BY StaleNode
    <3> QED
      BY <3>1, <3>2
  <2>4. A!RightRotate(Stale(k, v, b, c, i)) = A!RightRotate(Stale(k, v, b, c, j))
    BY <2>1, <2>2, ZenonT(30) DEF A!RightRotate
  <2>5. A!LeftRotate(Stale(k, v, b, c, i)) = A!LeftRotate(Stale(k, v, b, c, j))
    BY <2>1, <2>2, ZenonT(30) DEF A!LeftRotate
  <2> QED
    BY <2>4, <2>5
<1>3. PICK i : Nd(k, v, a, r) = Stale(k, v, a, r, i)
  BY NodeIsStale
<1>4. PICK j : Nd(k, v, l, a) = Stale(k, v, l, a, j)
  BY NodeIsStale
<1>5. /\ [Stale(k, v, l, r, h) EXCEPT !.left = a] = Stale(k, v, a, r, h)
      /\ [Stale(k, v, l, r, h) EXCEPT !.right = a] = Stale(k, v, l, a, h)
  BY StaleNode
<1>6. /\ WithLeft(Nd(k, v, l, r), a) = Stale(k, v, a, r, h)
      /\ WithRight(Nd(k, v, l, r), a) = Stale(k, v, l, a, h)
  BY <1>1, <1>5 DEF WithLeft, WithRight
<1> QED
  BY <1>2, <1>3, <1>4, <1>6

-----------------------------------------------------------------------------
(* Recursive functions *)

(* What the recursive functions of AvlTree are at x, f being the function. *)
LevelAt(n, f, x) ==
  IF x = 0 THEN {n} ELSE UNION {{m.left, m.right} : m \in f[x - 1] \ {A!Nil}}

LeftmostAt(n, f, x) ==
  IF x = 0 THEN n ELSE LET m == f[x - 1] IN IF m.left = A!Nil THEN m ELSE m.left

FoundAt(n, k, f, x) ==
  IF x = 0 THEN n
  ELSE LET m == f[x - 1] IN
       IF m = A!Nil THEN A!Nil
       ELSE CASE k < m.key -> m.left
              [] k > m.key -> m.right
              [] OTHER     -> m

InsertedAt(k, v, f, m) ==
  IF m = A!Nil THEN A!NewNode(k, v)
  ELSE LET r == A!Measured(CASE k < m.key -> [m EXCEPT !.left = f[m.left]]
                             [] k > m.key -> [m EXCEPT !.right = f[m.right]]
                             [] OTHER     -> m)
       IN  IF A!Crashed \in {r.left, r.right} THEN A!Crashed ELSE A!InsertCases(r, k)

DeletedAt(f, m) ==
  [j \in A!Key |->
     LET succ == A!MinValueNode(m.right)
         r == IF m = A!Nil THEN A!Nil
              ELSE CASE j < m.key -> [m EXCEPT !.left = f[m.left][j]]
                     [] j > m.key -> [m EXCEPT !.right = f[m.right][j]]
                     [] OTHER     ->
                          IF m.left = A!Nil THEN m.right
                          ELSE IF m.right = A!Nil THEN m.left
                          ELSE [succ EXCEPT !.right = f[succ.right][succ.key]]
     IN  IF r = A!Nil THEN A!Nil ELSE A!DeleteCases(A!Measured(r))]

Body(w, f, x) ==
  CASE w.op = "level"    -> LevelAt(w.node, f, x)
    [] w.op = "leftmost" -> LeftmostAt(w.node, f, x)
    [] w.op = "find"     -> FoundAt(w.node, w.key, f, x)
    [] w.op = "insert"   -> InsertedAt(w.key, w.val, f, x)
    [] w.op = "delete"   -> DeletedAt(f, x)

(* A function is there if what it is at x depends on what it is below x. *)
LEMMA RecursionExists ==
  ASSUME NEW w, NEW D, NEW mu, NEW N \in Nat, \A x \in D : mu[x] \in 0..N,
         \A g, h : \A x \in D :
           (\A y \in D : mu[y] < mu[x] => g[y] = h[y]) => Body(w, g, x) = Body(w, h, x)
  PROVE  \E g : g = [x \in D |-> Body(w, g, x)]
<1> DEFINE Good(g, n) == \A x \in D : mu[x] < n => g[x] = Body(w, g, x)
           T == {n \in 0..(N + 1) : ~\E g : Good(g, n)}
<1>1. T = {}
  <2>1. SUFFICES ASSUME T # {}
                 PROVE  FALSE
    OBVIOUS
  <2>2. PICK n \in T : \A m \in T : n <= m
    <3>1. T \subseteq Nat
      OBVIOUS
    <3> HIDE DEF T
    <3> QED
      BY <2>1, <3>1, LeastElement
  <2>3. n \in 0..(N + 1) /\ ~\E g : Good(g, n)
    BY <2>2
  <2>4. n # 0
    <3>1. Good([x \in D |-> 0], 0)
      OBVIOUS
    <3> HIDE DEF Good
    <3> QED
      BY <2>3, <3>1
  <2>5. n - 1 \in 0..(N + 1) /\ n - 1 \notin T
    BY <2>2, <2>3, <2>4
  <2>6. PICK g : Good(g, n - 1)
    BY <2>5
  <2> DEFINE h == [x \in D |-> Body(w, g, x)]
  <2>7. ASSUME NEW x \in D, mu[x] < n
        PROVE  h[x] = Body(w, h, x)
    <3>1. ASSUME NEW y \in D, mu[y] < mu[x]
          PROVE  g[y] = h[y]
      <4>1. mu[y] < n - 1
        BY <2>3, <2>7, <3>1
      <4> QED
        BY <2>6, <4>1
    <3>2. h[x] = Body(w, g, x)
      OBVIOUS
    <3> HIDE DEF h
    <3>3. Body(w, g, x) = Body(w, h, x)
      BY <3>1
    <3> QED
      BY <3>2, <3>3
  <2>8. Good(h, n)
    <3> HIDE DEF h
    <3> QED
      BY <2>7
  <2> HIDE DEF h, Good
  <2> QED
    BY <2>3, <2>8
<1>2. PICK g : Good(g, N + 1)
  <2>1. N + 1 \in 0..(N + 1)
    OBVIOUS
  <2> HIDE DEF Good
  <2> QED
    BY <1>1, <2>1
<1>3. \A x \in D : g[x] = Body(w, g, x)
  BY <1>2
<1> DEFINE h == [x \in D |-> g[x]]
<1>4. ASSUME NEW x \in D
      PROVE  h[x] = Body(w, h, x)
  <2>1. \A y \in D : g[y] = h[y]
    OBVIOUS
  <2>2. h[x] = Body(w, g, x)
    BY <1>3
  <2> HIDE DEF h
  <2>3. Body(w, g, x) = Body(w, h, x)
    BY <2>1
  <2> QED
    BY <2>2, <2>3
<1>5. h = [x \in D |-> h[x]]
  OBVIOUS
<1> HIDE DEF h
<1>6. [x \in D |-> h[x]] = [x \in D |-> Body(w, h, x)]
  BY <1>4
<1> QED
  BY <1>5, <1>6

(* What is found step by step is there. *)
LEMMA IterationExists ==
  ASSUME NEW w, w.op \in {"level", "leftmost", "find"}, NEW N \in Nat
  PROVE  \E g : g = [i \in 0..N |-> Body(w, g, i)]
<1> DEFINE D == 0..N
           mu == [i \in D |-> i]
<1>1. \A g, h : \A x \in D :
        (\A y \in D : mu[y] < mu[x] => g[y] = h[y]) => Body(w, g, x) = Body(w, h, x)
  <2>1. SUFFICES ASSUME NEW g, NEW h, NEW x \in D, \A y \in D : mu[y] < mu[x] => g[y] = h[y]
                 PROVE  Body(w, g, x) = Body(w, h, x)
    OBVIOUS
  <2>2. CASE x = 0
    BY <2>2 DEF Body, LevelAt, LeftmostAt, FoundAt
  <2>3. CASE x # 0
    <3>1. x - 1 \in D /\ mu[x - 1] < mu[x]
      BY <2>3
    <3>2. g[x - 1] = h[x - 1]
      BY <2>1, <3>1
    <3>3. LevelAt(w.node, g, x) = LevelAt(w.node, h, x)
      BY <2>3, <3>2 DEF LevelAt
    <3>4. LeftmostAt(w.node, g, x) = LeftmostAt(w.node, h, x)
      BY <2>3, <3>2 DEF LeftmostAt
    <3>5. FoundAt(w.node, w.key, g, x) = FoundAt(w.node, w.key, h, x)
      BY <2>3, <3>2 DEF FoundAt
    <3> QED
      BY <3>3, <3>4, <3>5 DEF Body
  <2> QED
    BY <2>2, <2>3
<1>2. \A x \in D : mu[x] \in 0..N
  OBVIOUS
<1> HIDE DEF mu
<1>3. \E g : g = [i \in D |-> Body(w, g, i)]
  <2> HIDE DEF D
  <2> QED
    BY <1>1, <1>2, RecursionExists
<1> QED
  BY <1>3

-----------------------------------------------------------------------------
(* Subtrees *)

WellMade(m, S) ==
  /\ m.key \in A!Key /\ m.val \in Val
  /\ m.left \in S /\ m.right \in S
  /\ m.height \in Nat
  /\ m = Nd(m.key, m.val, m.left, m.right)

(* S holds the subtrees of all its trees. *)
Closed(S) == \A m \in S : m = A!Nil \/ WellMade(m, S)

Proper(n) == \E S : n \in S /\ Closed(S)

LEMMA ClosedHeights ==
  ASSUME NEW S, Closed(S)
  PROVE  /\ \A m \in S : A!Height(m) \in Nat
         /\ \A m \in S : m # A!Nil => /\ A!Height(m) > 0
                                      /\ A!Height(m.left) < A!Height(m)
                                      /\ A!Height(m.right) < A!Height(m)
<1>1. ASSUME NEW m \in S
      PROVE  A!Height(m) \in Nat
  BY DEF Closed, WellMade, A!Height
<1>2. ASSUME NEW m \in S, m # A!Nil
      PROVE  /\ A!Height(m) > 0
             /\ A!Height(m.left) < A!Height(m)
             /\ A!Height(m.right) < A!Height(m)
  <2>1. m.left \in S /\ m.right \in S /\ m = Nd(m.key, m.val, m.left, m.right)
    BY <1>2 DEF Closed, WellMade
  <2>2. A!Height(m) = 1 + Taller(A!Height(m.left), A!Height(m.right))
    <3>1. A!Height(Nd(m.key, m.val, m.left, m.right))
            = 1 + Taller(A!Height(m.left), A!Height(m.right))
      BY NdParts
    <3> QED
      BY <2>1, <3>1
  <2>3. A!Height(m.left) \in Nat /\ A!Height(m.right) \in Nat
    BY <1>1, <2>1
  <2> QED
    BY <2>2, <2>3 DEF Taller
<1> QED
  BY <1>1, <1>2

(* The levels of a tree. *)
LEMMA LevelsOf ==
  ASSUME NEW n, A!Height(n) \in Nat
  PROVE  \E f : /\ \A i \in 0..A!Height(n) : f[i] = LevelAt(n, f, i)
                /\ A!Subtrees(n) = UNION {f[i] : i \in 0..A!Height(n)}
<1> DEFINE w == [op |-> "level", node |-> n]
<1>3. \E g : g = [i \in 0..A!Height(n) |-> Body(w, g, i)]
  <2>1. w.op \in {"level", "leftmost", "find"}
    OBVIOUS
  <2> HIDE DEF w
  <2> QED
    BY <2>1, IterationExists
<1>4. \E g : g = [i \in 0..A!Height(n) |-> LevelAt(n, g, i)]
  BY <1>3 DEF Body
<1> DEFINE level == CHOOSE level : level = [i \in 0..A!Height(n) |->
                      IF i = 0 THEN {n}
                      ELSE UNION {{m.left, m.right} : m \in level[i - 1] \ {A!Nil}}]
<1>5. level = [i \in 0..A!Height(n) |-> LevelAt(n, level, i)]
  BY <1>4 DEF LevelAt
<1>6. A!Subtrees(n) = UNION {level[i] : i \in 0..A!Height(n)}
  BY DEF A!Subtrees
<1> HIDE DEF level
<1>7. \A i \in 0..A!Height(n) : level[i] = LevelAt(n, level, i)
  BY <1>5
<1> QED
  BY <1>6, <1>7

(* The subtrees of n are the least set that holds n and the subtrees of what it holds. *)
LEMMA SubtreesLeast ==
  ASSUME NEW n, NEW S, n \in S, Closed(S)
  PROVE  /\ A!Subtrees(n) \subseteq S
         /\ n \in A!Subtrees(n)
         /\ Closed(A!Subtrees(n))
<1> DEFINE N == A!Height(n)
<1>1. N \in Nat
  BY ClosedHeights
<1>2. PICK f : /\ \A i \in 0..N : f[i] = LevelAt(n, f, i)
               /\ A!Subtrees(n) = UNION {f[i] : i \in 0..N}
  BY <1>1, LevelsOf
<1> HIDE DEF N
<1>3. f[0] = {n}
  <2>1. f[0] = LevelAt(n, f, 0)
    BY <1>1, <1>2
  <2> QED
    BY <2>1 DEF LevelAt
<1>4. ASSUME NEW i \in 0..N, i # 0
      PROVE  f[i] = UNION {{m.left, m.right} : m \in f[i - 1] \ {A!Nil}}
  BY <1>2, <1>4 DEF LevelAt
<1>5. \A i \in 0..N : \A m \in f[i] : m \in S /\ (m # A!Nil => A!Height(m) <= N - i)
  <2> DEFINE Low(i) == \A m \in f[i] : m \in S /\ (m # A!Nil => A!Height(m) <= N - i)
             T == {i \in 0..N : ~Low(i)}
  <2>1. SUFFICES ASSUME T # {}
                 PROVE  FALSE
    OBVIOUS
  <2>2. PICK i \in T : \A j \in T : i <= j
    <3>1. T \subseteq Nat
      OBVIOUS
    <3> HIDE DEF T
    <3> QED
      BY <2>1, <3>1, LeastElement
  <2>3. i \in 0..N /\ ~Low(i)
    BY <2>2
  <2>4. i # 0
    <3>1. Low(0)
      BY <1>1, <1>3 DEF N
    <3> HIDE DEF Low
    <3> QED
      BY <2>3, <3>1
  <2>5. i - 1 \in 0..N /\ i - 1 \notin T
    BY <1>1, <2>2, <2>3, <2>4
  <2>6. Low(i - 1)
    BY <2>5
  <2>7. Low(i)
    <3>1. SUFFICES ASSUME NEW m \in f[i]
                   PROVE  m \in S /\ (m # A!Nil => A!Height(m) <= N - i)
      OBVIOUS
    <3>2. PICK p \in f[i - 1] : p # A!Nil /\ m \in {p.left, p.right}
      BY <1>4, <2>3, <2>4
    <3>3. p \in S /\ A!Height(p) <= N - (i - 1)
      BY <2>6, <3>2
    <3>4. m \in S
      BY <3>2, <3>3 DEF Closed, WellMade
    <3>5. A!Height(m) < A!Height(p)
      BY <3>2, <3>3, ClosedHeights
    <3>6. A!Height(m) \in Nat /\ A!Height(p) \in Nat
      BY <3>3, <3>4, ClosedHeights
    <3>7. A!Height(m) <= N - i
      BY <1>1, <2>3, <3>3, <3>5, <3>6
    <3> QED
      BY <3>4, <3>7
  <2> QED
    BY <2>3, <2>7
<1>6. ASSUME NEW m \in A!Subtrees(n), m # A!Nil
      PROVE  m.left \in A!Subtrees(n) /\ m.right \in A!Subtrees(n)
  <2>1. PICK i \in 0..N : m \in f[i]
    BY <1>2
  <2>2. m \in S /\ A!Height(m) <= N - i
    BY <1>5, <1>6, <2>1
  <2>3. A!Height(m) \in Nat /\ A!Height(m) > 0
    BY <1>6, <2>2, ClosedHeights
  <2>4. i + 1 \in 0..N /\ i + 1 # 0 /\ (i + 1) - 1 = i
    BY <1>1, <2>1, <2>2, <2>3
  <2>5. f[i + 1] = UNION {{p.left, p.right} : p \in f[i] \ {A!Nil}}
    BY <1>4, <2>4
  <2>6. m.left \in f[i + 1] /\ m.right \in f[i + 1]
    BY <1>6, <2>1, <2>5
  <2> QED
    BY <1>2, <2>4, <2>6
<1>7. A!Subtrees(n) \subseteq S
  BY <1>2, <1>5
<1>8. n \in A!Subtrees(n)
  BY <1>1, <1>2, <1>3
<1>9. Closed(A!Subtrees(n))
  <2>1. SUFFICES ASSUME NEW m \in A!Subtrees(n), m # A!Nil
                 PROVE  WellMade(m, A!Subtrees(n))
    BY DEF Closed
  <2>2. WellMade(m, S)
    BY <1>7, <2>1 DEF Closed
  <2> QED
    BY <1>6, <2>1, <2>2 DEF WellMade
<1> QED
  BY <1>7, <1>8, <1>9

LEMMA ProperNil == Proper(A!Nil) /\ A!Subtrees(A!Nil) = {A!Nil} /\ A!Nodes(A!Nil) = {}
<1>1. Closed({A!Nil})
  BY DEF Closed
<1>2. A!Subtrees(A!Nil) \subseteq {A!Nil} /\ A!Nil \in A!Subtrees(A!Nil)
  BY <1>1, SubtreesLeast
<1> QED
  BY <1>1, <1>2 DEF Proper, A!Nodes

LEMMA ProperClosed ==
  ASSUME NEW n, Proper(n)
  PROVE  /\ n \in A!Subtrees(n) /\ Closed(A!Subtrees(n))
         /\ \A S : n \in S /\ Closed(S) => A!Subtrees(n) \subseteq S
BY SubtreesLeast DEF Proper

LEMMA ProperSubtree ==
  ASSUME NEW n, Proper(n), NEW m \in A!Subtrees(n)
  PROVE  Proper(m) /\ A!Subtrees(m) \subseteq A!Subtrees(n)
<1>1. Closed(A!Subtrees(n))
  BY ProperClosed
<1>2. Proper(m)
  BY <1>1 DEF Proper
<1> QED
  BY <1>1, <1>2, ProperClosed

LEMMA ProperParts ==
  ASSUME NEW n, Proper(n), n # A!Nil
  PROVE  /\ n.key \in A!Key /\ n.val \in Val
         /\ n.left \in A!Subtrees(n) /\ n.right \in A!Subtrees(n)
         /\ Proper(n.left) /\ Proper(n.right)
         /\ n = Nd(n.key, n.val, n.left, n.right)
<1>1. WellMade(n, A!Subtrees(n))
  BY ProperClosed DEF Closed
<1> QED
  BY <1>1, ProperSubtree DEF WellMade

LEMMA ProperHeight ==
  ASSUME NEW n, Proper(n)
  PROVE  /\ A!Height(n) \in Nat
         /\ A!Height(n) = 0 <=> n = A!Nil
         /\ n # A!Nil => /\ A!Height(n.left) < A!Height(n)
                         /\ A!Height(n.right) < A!Height(n)
<1>1. n \in A!Subtrees(n) /\ Closed(A!Subtrees(n))
  BY ProperClosed
<1>2. A!Height(A!Nil) = 0
  BY DEF A!Height
<1>3. /\ A!Height(n) \in Nat
      /\ n # A!Nil => /\ A!Height(n) > 0
                      /\ A!Height(n.left) < A!Height(n)
                      /\ A!Height(n.right) < A!Height(n)
  BY <1>1, ClosedHeights
<1> QED
  BY <1>2, <1>3

LEMMA ProperNode ==
  ASSUME NEW k \in A!Key, NEW v \in Val, NEW l, Proper(l), NEW r, Proper(r)
  PROVE  /\ Proper(Nd(k, v, l, r))
         /\ A!Nodes(Nd(k, v, l, r)) = {Nd(k, v, l, r)} \cup A!Nodes(l) \cup A!Nodes(r)
<1> DEFINE n == Nd(k, v, l, r)
           S == {n} \cup A!Subtrees(l) \cup A!Subtrees(r)
<1>1. /\ l \in A!Subtrees(l) /\ Closed(A!Subtrees(l))
      /\ r \in A!Subtrees(r) /\ Closed(A!Subtrees(r))
  BY ProperClosed
<1>2. /\ n # A!Nil /\ n.key = k /\ n.val = v /\ n.left = l /\ n.right = r
      /\ n.height = 1 + Taller(A!Height(l), A!Height(r))
  BY NdParts
<1>3. n.height \in Nat
  BY <1>2, ProperHeight DEF Taller
<1>4. n = Nd(n.key, n.val, n.left, n.right)
  BY <1>2
<1> HIDE DEF n
<1>5. Closed(S)
  <2>1. WellMade(n, S)
    BY <1>1, <1>2, <1>3, <1>4 DEF WellMade
  <2>2. \A m \in A!Subtrees(l) : m = A!Nil \/ WellMade(m, S)
    BY <1>1 DEF Closed, WellMade
  <2>3. \A m \in A!Subtrees(r) : m = A!Nil \/ WellMade(m, S)
    BY <1>1 DEF Closed, WellMade
  <2> QED
    BY <2>1, <2>2, <2>3 DEF Closed
<1>6. n \in S
  OBVIOUS
<1>7. Proper(n)
  BY <1>5, <1>6 DEF Proper
<1>8. A!Subtrees(n) \subseteq S
  <2> HIDE DEF S
  <2> QED
    BY <1>5, <1>6, SubtreesLeast
<1>9. /\ n \in A!Subtrees(n)
      /\ A!Subtrees(l) \subseteq A!Subtrees(n)
      /\ A!Subtrees(r) \subseteq A!Subtrees(n)
  <2>1. n \in A!Subtrees(n) /\ Closed(A!Subtrees(n))
    BY <1>7, ProperClosed
  <2>2. l \in A!Subtrees(n) /\ r \in A!Subtrees(n)
    BY <1>2, <2>1 DEF Closed, WellMade
  <2> QED
    BY <1>7, <2>1, <2>2, ProperSubtree
<1> QED
  BY <1>2, <1>7, <1>8, <1>9 DEF A!Nodes, n

-----------------------------------------------------------------------------
(* Search trees *)

Below(n, k) == \A j \in A!KeysOf(n) : j < k
Above(n, k) == \A j \in A!KeysOf(n) : j > k

(* The heights are measured and the keys in their order. *)
Sound(n) ==
  /\ Proper(n)
  /\ \A m \in A!Nodes(n) : Below(m.left, m.key) /\ Above(m.right, m.key)

Even(n) == \A m \in A!Nodes(n) : A!Balance(m) \in -1..1

(* What a tree stands for. *)
Pairs(n) == {<<m.key, m.val>> : m \in A!Nodes(n)}

LEMMA SoundNil ==
  /\ Sound(A!Nil) /\ Even(A!Nil)
  /\ A!Height(A!Nil) = 0 /\ A!KeysOf(A!Nil) = {} /\ Pairs(A!Nil) = {}
BY ProperNil DEF Sound, Even, A!Height, A!KeysOf, Pairs

LEMMA SoundHeight ==
  ASSUME NEW n, Sound(n)
  PROVE  A!Height(n) \in Nat /\ (A!Height(n) = 0 <=> n = A!Nil)
BY ProperHeight DEF Sound

LEMMA SoundParts ==
  ASSUME NEW n, Sound(n), n # A!Nil
  PROVE  /\ n.key \in A!Key /\ n.val \in Val
         /\ Sound(n.left) /\ Sound(n.right)
         /\ Below(n.left, n.key) /\ Above(n.right, n.key)
         /\ n = Nd(n.key, n.val, n.left, n.right)
<1>1. Proper(n)
  BY DEF Sound
<1>2. /\ n.key \in A!Key /\ n.val \in Val
      /\ n.left \in A!Subtrees(n) /\ n.right \in A!Subtrees(n)
      /\ Proper(n.left) /\ Proper(n.right)
      /\ n = Nd(n.key, n.val, n.left, n.right)
  BY <1>1, ProperParts
<1>3. A!Nodes(n.left) \subseteq A!Nodes(n) /\ A!Nodes(n.right) \subseteq A!Nodes(n)
  BY <1>1, <1>2, ProperSubtree DEF A!Nodes
<1>4. n \in A!Nodes(n)
  BY <1>1, ProperClosed DEF A!Nodes
<1> QED
  BY <1>2, <1>3, <1>4 DEF Sound

LEMMA SoundNode ==
  ASSUME NEW k \in A!Key, NEW v \in Val, NEW l, Sound(l), NEW r, Sound(r),
         Below(l, k), Above(r, k)
  PROVE  Sound(Nd(k, v, l, r))
<1> DEFINE n == Nd(k, v, l, r)
<1>1. Proper(n) /\ A!Nodes(n) = {n} \cup A!Nodes(l) \cup A!Nodes(r)
  BY ProperNode DEF Sound
<1>2. n.key = k /\ n.left = l /\ n.right = r
  BY NdParts
<1> HIDE DEF n
<1> QED
  BY <1>1, <1>2 DEF Sound, n

(* What a node stands for, and when it is balanced. *)
LEMMA NodeStandsFor ==
  ASSUME NEW k \in A!Key, NEW v \in Val, NEW l, Sound(l), NEW r, Sound(r)
  PROVE  /\ A!KeysOf(Nd(k, v, l, r)) = {k} \cup A!KeysOf(l) \cup A!KeysOf(r)
         /\ Pairs(Nd(k, v, l, r)) = {<<k, v>>} \cup Pairs(l) \cup Pairs(r)
         /\ Even(Nd(k, v, l, r)) <=>
              Even(l) /\ Even(r) /\ A!Height(l) - A!Height(r) \in -1..1
<1> DEFINE n == Nd(k, v, l, r)
<1>1. A!Nodes(n) = {n} \cup A!Nodes(l) \cup A!Nodes(r)
  BY ProperNode DEF Sound
<1>2. n # A!Nil /\ n.key = k /\ n.val = v /\ n.left = l /\ n.right = r
  BY NdParts
<1> HIDE DEF n
<1>3. A!Balance(n) = A!Height(l) - A!Height(r)
  BY <1>2 DEF A!Balance
<1>4. A!KeysOf(n) = {k} \cup A!KeysOf(l) \cup A!KeysOf(r)
  BY <1>1, <1>2 DEF A!KeysOf
<1>5. Pairs(n) = {<<k, v>>} \cup Pairs(l) \cup Pairs(r)
  BY <1>1, <1>2 DEF Pairs
<1>6. Even(n) <=> Even(l) /\ Even(r) /\ A!Height(l) - A!Height(r) \in -1..1
  BY <1>1, <1>3 DEF Even
<1> QED
  BY <1>4, <1>5, <1>6 DEF n

(* Keys are the first parts of pairs, and numbers. *)
LEMMA KeysAreFirst ==
  ASSUME NEW n
  PROVE  A!KeysOf(n) = {p[1] : p \in Pairs(n)}
<1>1. ASSUME NEW p \in Pairs(n)
      PROVE  p[1] \in A!KeysOf(n)
  BY DEF A!KeysOf, Pairs
<1>2. ASSUME NEW m \in A!Nodes(n)
      PROVE  m.key \in {p[1] : p \in Pairs(n)}
  <2>1. <<m.key, m.val>> \in Pairs(n) /\ <<m.key, m.val>>[1] = m.key
    BY DEF Pairs
  <2> QED
    BY <2>1
<1> QED
  BY <1>1, <1>2 DEF A!KeysOf

LEMMA SoundKeys ==
  ASSUME NEW n, Sound(n), MaxKey \in Nat
  PROVE  A!KeysOf(n) \subseteq A!Key /\ A!Key \subseteq Int
<1>1. ASSUME NEW m \in A!Nodes(n)
      PROVE  m.key \in A!Key
  <2>1. Proper(n) /\ m \in A!Subtrees(n) /\ m # A!Nil
    BY <1>1 DEF Sound, A!Nodes
  <2> QED
    BY <2>1, ProperSubtree, ProperParts
<1> QED
  BY <1>1 DEF A!KeysOf, A!Key

-----------------------------------------------------------------------------
(* Rotations *)

LEMMA BelowNode ==
  ASSUME NEW k \in A!Key, NEW v \in Val, NEW l, Sound(l), NEW r, Sound(r), NEW j
  PROVE  /\ Below(Nd(k, v, l, r), j) <=> k < j /\ Below(l, j) /\ Below(r, j)
         /\ Above(Nd(k, v, l, r), j) <=> k > j /\ Above(l, j) /\ Above(r, j)
<1>1. A!KeysOf(Nd(k, v, l, r)) = {k} \cup A!KeysOf(l) \cup A!KeysOf(r)
  BY NodeStandsFor
<1> QED
  BY <1>1 DEF Below, Above

(* Keys beyond a bound are beyond a lower one. *)
LEMMA BoundsGiveWay ==
  ASSUME NEW n, Sound(n), NEW i \in A!Key, NEW j \in A!Key, i < j
  PROVE  (Below(n, i) => Below(n, j)) /\ (Above(n, j) => Above(n, i))
<1>1. A!KeysOf(n) \subseteq Int /\ i \in Int /\ j \in Int
  BY SoundKeys, TreeAssumption
<1> QED
  BY <1>1 DEF Below, Above

(* A rotation to the right: the order holds, and the tree stands for the same. *)
LEMMA RotatedRight ==
  ASSUME NEW k \in A!Key, NEW v \in Val, NEW k2 \in A!Key, NEW v2 \in Val,
         NEW a, Sound(a), NEW b, Sound(b), NEW c, Sound(c),
         Sound(Nd(k2, v2, a, b)), Below(Nd(k2, v2, a, b), k), Above(c, k),
         Below(a, k2), Above(b, k2)
  PROVE  /\ Sound(Nd(k2, v2, a, Nd(k, v, b, c)))
         /\ Pairs(Nd(k2, v2, a, Nd(k, v, b, c))) = Pairs(Nd(k, v, Nd(k2, v2, a, b), c))
<1> DEFINE x == Nd(k2, v2, a, b)
           y == Nd(k, v, b, c)
<1>1. /\ Below(x, k) <=> k2 < k /\ Below(a, k) /\ Below(b, k)
      /\ Above(y, k2) <=> k > k2 /\ Above(b, k2) /\ Above(c, k2)
  BY BelowNode
<1>2. k \in Int /\ k2 \in Int
  BY TreeAssumption DEF A!Key
<1>3. Pairs(x) = {<<k2, v2>>} \cup Pairs(a) \cup Pairs(b)
  BY NodeStandsFor
<1>4. Pairs(y) = {<<k, v>>} \cup Pairs(b) \cup Pairs(c)
  BY NodeStandsFor
<1>5. k2 < k /\ Below(b, k)
  BY <1>1
<1>6. Sound(y)
  BY <1>5, SoundNode
<1>7. Above(c, k2)
  BY <1>5, BoundsGiveWay
<1>8. Above(y, k2)
  BY <1>1, <1>2, <1>5, <1>7
<1>9. Sound(x)
  OBVIOUS
<1> HIDE DEF x, y
<1>10. Sound(Nd(k2, v2, a, y))
  BY <1>6, <1>8, SoundNode
<1>11. Pairs(Nd(k2, v2, a, y)) = {<<k2, v2>>} \cup Pairs(a) \cup Pairs(y)
  BY <1>6, NodeStandsFor
<1>12. Pairs(Nd(k, v, x, c)) = {<<k, v>>} \cup Pairs(x) \cup Pairs(c)
  BY <1>9, NodeStandsFor
<1>13. Pairs(Nd(k2, v2, a, y)) = Pairs(Nd(k, v, x, c))
  BY <1>3, <1>4, <1>11, <1>12
<1> QED
  BY <1>10, <1>13 DEF x, y

(* A rotation to the left: the order holds, and the tree stands for the same. *)
LEMMA RotatedLeft ==
  ASSUME NEW k \in A!Key, NEW v \in Val, NEW k2 \in A!Key, NEW v2 \in Val,
         NEW a, Sound(a), NEW b, Sound(b), NEW c, Sound(c),
         Sound(Nd(k, v, b, c)), Above(Nd(k, v, b, c), k2), Below(a, k2),
         Below(b, k), Above(c, k)
  PROVE  /\ Sound(Nd(k, v, Nd(k2, v2, a, b), c))
         /\ Pairs(Nd(k, v, Nd(k2, v2, a, b), c)) = Pairs(Nd(k2, v2, a, Nd(k, v, b, c)))
<1> DEFINE x == Nd(k2, v2, a, b)
           y == Nd(k, v, b, c)
<1>1. /\ Below(x, k) <=> k2 < k /\ Below(a, k) /\ Below(b, k)
      /\ Above(y, k2) <=> k > k2 /\ Above(b, k2) /\ Above(c, k2)
  BY BelowNode
<1>2. k \in Int /\ k2 \in Int
  BY TreeAssumption DEF A!Key
<1>3. Pairs(x) = {<<k2, v2>>} \cup Pairs(a) \cup Pairs(b)
  BY NodeStandsFor
<1>4. Pairs(y) = {<<k, v>>} \cup Pairs(b) \cup Pairs(c)
  BY NodeStandsFor
<1>5. k2 < k /\ Above(b, k2)
  BY <1>1, <1>2
<1>6. Sound(x)
  BY <1>5, SoundNode
<1>7. Below(a, k)
  BY <1>5, BoundsGiveWay
<1>8. Below(x, k)
  BY <1>1, <1>5, <1>7
<1>9. Sound(y)
  OBVIOUS
<1> HIDE DEF x, y
<1>10. Sound(Nd(k, v, x, c))
  BY <1>6, <1>8, SoundNode
<1>11. Pairs(Nd(k2, v2, a, y)) = {<<k2, v2>>} \cup Pairs(a) \cup Pairs(y)
  BY <1>9, NodeStandsFor
<1>12. Pairs(Nd(k, v, x, c)) = {<<k, v>>} \cup Pairs(x) \cup Pairs(c)
  BY <1>6, NodeStandsFor
<1>13. Pairs(Nd(k, v, x, c)) = Pairs(Nd(k2, v2, a, y))
  BY <1>3, <1>4, <1>11, <1>12
<1> QED
  BY <1>10, <1>13 DEF x, y

(* tree_rightRotate and tree_leftRotate keep the order and what the tree stands for. *)
LEMMA RightRotated ==
  ASSUME NEW n, Sound(n), n # A!Nil, n.left # A!Nil
  PROVE  /\ A!RightRotate(n) =
              Nd(n.left.key, n.left.val, n.left.left, Nd(n.key, n.val, n.left.right, n.right))
         /\ Sound(A!RightRotate(n)) /\ Pairs(A!RightRotate(n)) = Pairs(n)
         /\ A!RightRotate(n) # A!Nil
<1> DEFINE x == n.left
<1>1. /\ n.key \in A!Key /\ n.val \in Val /\ Sound(x) /\ Sound(n.right)
      /\ Below(x, n.key) /\ Above(n.right, n.key) /\ n = Nd(n.key, n.val, x, n.right)
  BY SoundParts
<1> HIDE DEF x
<1>2. /\ x.key \in A!Key /\ x.val \in Val /\ Sound(x.left) /\ Sound(x.right)
      /\ Below(x.left, x.key) /\ Above(x.right, x.key)
      /\ x = Nd(x.key, x.val, x.left, x.right)
  BY <1>1, SoundParts DEF x
<1>3. A!RightRotate(Nd(n.key, n.val, Nd(x.key, x.val, x.left, x.right), n.right))
        = Nd(x.key, x.val, x.left, Nd(n.key, n.val, x.right, n.right))
  BY RightRotateNode
<1>4. A!RightRotate(n) = Nd(x.key, x.val, x.left, Nd(n.key, n.val, x.right, n.right))
  BY <1>1, <1>2, <1>3
<1>5. /\ Sound(Nd(x.key, x.val, x.left, Nd(n.key, n.val, x.right, n.right)))
      /\ Pairs(Nd(x.key, x.val, x.left, Nd(n.key, n.val, x.right, n.right)))
           = Pairs(Nd(n.key, n.val, Nd(x.key, x.val, x.left, x.right), n.right))
  <2>1. /\ Sound(Nd(x.key, x.val, x.left, x.right))
        /\ Below(Nd(x.key, x.val, x.left, x.right), n.key)
    BY <1>1, <1>2
  <2>2. /\ n.key \in A!Key /\ n.val \in Val /\ Sound(n.right) /\ Above(n.right, n.key)
        /\ x.key \in A!Key /\ x.val \in Val /\ Sound(x.left) /\ Sound(x.right)
        /\ Below(x.left, x.key) /\ Above(x.right, x.key)
    BY <1>1, <1>2
  <2> QED
    BY <2>1, <2>2, RotatedRight
<1>6. Nd(x.key, x.val, x.left, Nd(n.key, n.val, x.right, n.right)) # A!Nil
  BY NdParts
<1> QED
  BY <1>1, <1>2, <1>4, <1>5, <1>6 DEF x

LEMMA LeftRotated ==
  ASSUME NEW n, Sound(n), n # A!Nil, n.right # A!Nil
  PROVE  /\ A!LeftRotate(n) =
              Nd(n.right.key, n.right.val, Nd(n.key, n.val, n.left, n.right.left), n.right.right)
         /\ Sound(A!LeftRotate(n)) /\ Pairs(A!LeftRotate(n)) = Pairs(n)
         /\ A!LeftRotate(n) # A!Nil
<1> DEFINE y == n.right
<1>1. /\ n.key \in A!Key /\ n.val \in Val /\ Sound(y) /\ Sound(n.left)
      /\ Below(n.left, n.key) /\ Above(y, n.key) /\ n = Nd(n.key, n.val, n.left, y)
  BY SoundParts
<1> HIDE DEF y
<1>2. /\ y.key \in A!Key /\ y.val \in Val /\ Sound(y.left) /\ Sound(y.right)
      /\ Below(y.left, y.key) /\ Above(y.right, y.key)
      /\ y = Nd(y.key, y.val, y.left, y.right)
  BY <1>1, SoundParts DEF y
<1>3. A!LeftRotate(Nd(n.key, n.val, n.left, Nd(y.key, y.val, y.left, y.right)))
        = Nd(y.key, y.val, Nd(n.key, n.val, n.left, y.left), y.right)
  BY LeftRotateNode
<1>4. A!LeftRotate(n) = Nd(y.key, y.val, Nd(n.key, n.val, n.left, y.left), y.right)
  BY <1>1, <1>2, <1>3
<1>5. /\ Sound(Nd(y.key, y.val, Nd(n.key, n.val, n.left, y.left), y.right))
      /\ Pairs(Nd(y.key, y.val, Nd(n.key, n.val, n.left, y.left), y.right))
           = Pairs(Nd(n.key, n.val, n.left, Nd(y.key, y.val, y.left, y.right)))
  <2>1. /\ Sound(Nd(y.key, y.val, y.left, y.right))
        /\ Above(Nd(y.key, y.val, y.left, y.right), n.key)
    BY <1>1, <1>2
  <2>2. /\ n.key \in A!Key /\ n.val \in Val /\ Sound(n.left) /\ Below(n.left, n.key)
        /\ y.key \in A!Key /\ y.val \in Val /\ Sound(y.left) /\ Sound(y.right)
        /\ Below(y.left, y.key) /\ Above(y.right, y.key)
    BY <1>1, <1>2
  <2> QED
    BY <2>1, <2>2, RotatedLeft
<1>6. Nd(y.key, y.val, Nd(n.key, n.val, n.left, y.left), y.right) # A!Nil
  BY NdParts
<1> QED
  BY <1>1, <1>2, <1>4, <1>5, <1>6 DEF y

LEMMA SamePairs ==
  ASSUME NEW a, NEW b, Pairs(a) = Pairs(b), NEW j
  PROVE  /\ A!KeysOf(a) = A!KeysOf(b)
         /\ (Below(a, j) <=> Below(b, j)) /\ (Above(a, j) <=> Above(b, j))
<1>1. A!KeysOf(a) = {p[1] : p \in Pairs(a)} /\ A!KeysOf(b) = {p[1] : p \in Pairs(b)}
  BY KeysAreFirst
<1> QED
  BY <1>1 DEF Below, Above

(* A subtree that stands for the same takes the other's place. *)
LEMMA LeftReplaced ==
  ASSUME NEW n, Sound(n), n # A!Nil, NEW l, Sound(l), Pairs(l) = Pairs(n.left)
  PROVE  /\ Sound(Nd(n.key, n.val, l, n.right))
         /\ Pairs(Nd(n.key, n.val, l, n.right)) = Pairs(n)
<1>1. /\ n.key \in A!Key /\ n.val \in Val /\ Sound(n.left) /\ Sound(n.right)
      /\ Below(n.left, n.key) /\ Above(n.right, n.key)
      /\ n = Nd(n.key, n.val, n.left, n.right)
  BY SoundParts
<1>2. Below(l, n.key)
  BY <1>1, SamePairs
<1>3. Sound(Nd(n.key, n.val, l, n.right))
  BY <1>1, <1>2, SoundNode
<1>4. Pairs(Nd(n.key, n.val, l, n.right))
        = {<<n.key, n.val>>} \cup Pairs(l) \cup Pairs(n.right)
  BY <1>1, NodeStandsFor
<1>5. Pairs(Nd(n.key, n.val, n.left, n.right))
        = {<<n.key, n.val>>} \cup Pairs(n.left) \cup Pairs(n.right)
  BY <1>1, NodeStandsFor
<1> QED
  BY <1>1, <1>3, <1>4, <1>5

LEMMA RightReplaced ==
  ASSUME NEW n, Sound(n), n # A!Nil, NEW r, Sound(r), Pairs(r) = Pairs(n.right)
  PROVE  /\ Sound(Nd(n.key, n.val, n.left, r))
         /\ Pairs(Nd(n.key, n.val, n.left, r)) = Pairs(n)
<1>1. /\ n.key \in A!Key /\ n.val \in Val /\ Sound(n.left) /\ Sound(n.right)
      /\ Below(n.left, n.key) /\ Above(n.right, n.key)
      /\ n = Nd(n.key, n.val, n.left, n.right)
  BY SoundParts
<1>2. Above(r, n.key)
  BY <1>1, SamePairs
<1>3. Sound(Nd(n.key, n.val, n.left, r))
  BY <1>1, <1>2, SoundNode
<1>4. Pairs(Nd(n.key, n.val, n.left, r))
        = {<<n.key, n.val>>} \cup Pairs(n.left) \cup Pairs(r)
  BY <1>1, NodeStandsFor
<1>5. Pairs(Nd(n.key, n.val, n.left, n.right))
        = {<<n.key, n.val>>} \cup Pairs(n.left) \cup Pairs(n.right)
  BY <1>1, NodeStandsFor
<1> QED
  BY <1>1, <1>3, <1>4, <1>5

(* The two double rotations. *)
LeftRight(n) == A!RightRotate(WithLeft(n, A!LeftRotate(n.left)))
RightLeft(n) == A!LeftRotate(WithRight(n, A!RightRotate(n.right)))

LEMMA LeftRightRotated ==
  ASSUME NEW n, Sound(n), n # A!Nil, n.left # A!Nil, n.left.right # A!Nil
  PROVE  /\ LeftRight(n) =
              Nd(n.left.right.key, n.left.right.val,
                 Nd(n.left.key, n.left.val, n.left.left, n.left.right.left),
                 Nd(n.key, n.val, n.left.right.right, n.right))
         /\ Sound(LeftRight(n)) /\ Pairs(LeftRight(n)) = Pairs(n) /\ LeftRight(n) # A!Nil
<1> DEFINE x == n.left
           m == x.right
           l == A!LeftRotate(x)
           n2 == Nd(n.key, n.val, l, n.right)
<1>1. Sound(x) /\ n = Nd(n.key, n.val, x, n.right)
  BY SoundParts
<1>2. /\ l = Nd(m.key, m.val, Nd(x.key, x.val, x.left, m.left), m.right)
      /\ Sound(l) /\ Pairs(l) = Pairs(x) /\ l # A!Nil
  BY <1>1, LeftRotated
<1>3. Sound(n2) /\ Pairs(n2) = Pairs(n)
  BY <1>2, LeftReplaced
<1>4. n2 # A!Nil /\ n2.left = l /\ n2.key = n.key /\ n2.val = n.val /\ n2.right = n.right
  BY NdParts
<1>5. LeftRight(n) = A!RightRotate(n2)
  <2>1. A!RightRotate(WithLeft(Nd(n.key, n.val, x, n.right), l))
          = A!RightRotate(Nd(n.key, n.val, l, n.right))
    <3> HIDE DEF x, l
    <3> QED
      BY RotateUnmeasured
  <2>2. LeftRight(n) = A!RightRotate(WithLeft(n, l))
    BY DEF LeftRight
  <2> HIDE DEF x, l
  <2> QED
    BY <1>1, <2>1, <2>2
<1> HIDE DEF x, m, l, n2
<1>6. /\ A!RightRotate(n2) = Nd(n2.left.key, n2.left.val, n2.left.left,
                                Nd(n2.key, n2.val, n2.left.right, n2.right))
      /\ Sound(A!RightRotate(n2)) /\ Pairs(A!RightRotate(n2)) = Pairs(n2)
      /\ A!RightRotate(n2) # A!Nil
  BY <1>2, <1>3, <1>4, RightRotated
<1>7. /\ l.key = m.key /\ l.val = m.val /\ l.left = Nd(x.key, x.val, x.left, m.left)
      /\ l.right = m.right
  BY <1>2, NdParts
<1>8. LeftRight(n) = Nd(m.key, m.val, Nd(x.key, x.val, x.left, m.left),
                        Nd(n.key, n.val, m.right, n.right))
  BY <1>4, <1>5, <1>6, <1>7
<1> QED
  BY <1>3, <1>5, <1>6, <1>8 DEF x, m

LEMMA RightLeftRotated ==
  ASSUME NEW n, Sound(n), n # A!Nil, n.right # A!Nil, n.right.left # A!Nil
  PROVE  /\ RightLeft(n) =
              Nd(n.right.left.key, n.right.left.val,
                 Nd(n.key, n.val, n.left, n.right.left.left),
                 Nd(n.right.key, n.right.val, n.right.left.right, n.right.right))
         /\ Sound(RightLeft(n)) /\ Pairs(RightLeft(n)) = Pairs(n) /\ RightLeft(n) # A!Nil
<1> DEFINE y == n.right
           m == y.left
           r == A!RightRotate(y)
           n2 == Nd(n.key, n.val, n.left, r)
<1>1. Sound(y) /\ n = Nd(n.key, n.val, n.left, y)
  BY SoundParts
<1>2. /\ r = Nd(m.key, m.val, m.left, Nd(y.key, y.val, m.right, y.right))
      /\ Sound(r) /\ Pairs(r) = Pairs(y) /\ r # A!Nil
  BY <1>1, RightRotated
<1>3. Sound(n2) /\ Pairs(n2) = Pairs(n)
  BY <1>2, RightReplaced
<1>4. n2 # A!Nil /\ n2.right = r /\ n2.key = n.key /\ n2.val = n.val /\ n2.left = n.left
  BY NdParts
<1>5. RightLeft(n) = A!LeftRotate(n2)
  <2>1. A!LeftRotate(WithRight(Nd(n.key, n.val, n.left, y), r))
          = A!LeftRotate(Nd(n.key, n.val, n.left, r))
    <3> HIDE DEF y, r
    <3> QED
      BY RotateUnmeasured
  <2>2. RightLeft(n) = A!LeftRotate(WithRight(n, r))
    BY DEF RightLeft
  <2> HIDE DEF y, r
  <2> QED
    BY <1>1, <2>1, <2>2
<1> HIDE DEF y, m, r, n2
<1>6. /\ A!LeftRotate(n2) = Nd(n2.right.key, n2.right.val,
                               Nd(n2.key, n2.val, n2.left, n2.right.left), n2.right.right)
      /\ Sound(A!LeftRotate(n2)) /\ Pairs(A!LeftRotate(n2)) = Pairs(n2)
      /\ A!LeftRotate(n2) # A!Nil
  BY <1>2, <1>3, <1>4, LeftRotated
<1>7. /\ r.key = m.key /\ r.val = m.val /\ r.right = Nd(y.key, y.val, m.right, y.right)
      /\ r.left = m.left
  BY <1>2, NdParts
<1>8. RightLeft(n) = Nd(m.key, m.val, Nd(n.key, n.val, n.left, m.left),
                        Nd(y.key, y.val, m.right, y.right))
  BY <1>4, <1>5, <1>6, <1>7
<1> QED
  BY <1>3, <1>5, <1>6, <1>8 DEF y, m

-----------------------------------------------------------------------------
(* Balance *)

LEMMA SoundBalance ==
  ASSUME NEW n, Sound(n), n # A!Nil
  PROVE  /\ A!Height(n) = 1 + Taller(A!Height(n.left), A!Height(n.right))
         /\ A!Balance(n) = A!Height(n.left) - A!Height(n.right)
         /\ A!Height(n.left) \in Nat /\ A!Height(n.right) \in Nat
         /\ Even(n) <=> Even(n.left) /\ Even(n.right) /\ A!Balance(n) \in -1..1
<1>1. /\ n.key \in A!Key /\ n.val \in Val /\ Sound(n.left) /\ Sound(n.right)
      /\ n = Nd(n.key, n.val, n.left, n.right)
  BY SoundParts
<1>2. A!Height(Nd(n.key, n.val, n.left, n.right))
        = 1 + Taller(A!Height(n.left), A!Height(n.right))
  BY NdParts
<1>3. A!Balance(n) = A!Height(n.left) - A!Height(n.right)
  BY DEF A!Balance
<1>4. Even(Nd(n.key, n.val, n.left, n.right)) <=>
        Even(n.left) /\ Even(n.right) /\ A!Height(n.left) - A!Height(n.right) \in -1..1
  BY <1>1, NodeStandsFor
<1> QED
  BY <1>1, <1>2, <1>3, <1>4, SoundHeight

(* The same of a node that was put together. *)
LEMMA NodeBalance ==
  ASSUME NEW k, NEW v, NEW l, NEW r, Sound(Nd(k, v, l, r))
  PROVE  /\ Sound(l) /\ Sound(r)
         /\ A!Height(Nd(k, v, l, r)) = 1 + Taller(A!Height(l), A!Height(r))
         /\ A!Balance(Nd(k, v, l, r)) = A!Height(l) - A!Height(r)
         /\ A!Height(l) \in Nat /\ A!Height(r) \in Nat
         /\ Even(Nd(k, v, l, r)) <=>
              Even(l) /\ Even(r) /\ A!Height(l) - A!Height(r) \in -1..1
<1> DEFINE n == Nd(k, v, l, r)
<1>1. n # A!Nil /\ n.left = l /\ n.right = r
  BY NdParts
<1> HIDE DEF n
<1>2. Sound(n)
  BY DEF n
<1> QED
  BY <1>1, <1>2, SoundParts, SoundBalance DEF n

(* A single rotation sets right what leans to one side by two. *)
LEMMA RightEven ==
  ASSUME NEW n, Sound(n), n # A!Nil, Even(n.left), Even(n.right),
         A!Balance(n) = 2, A!Balance(n.left) >= 0
  PROVE  /\ n.left # A!Nil /\ Even(A!RightRotate(n))
         /\ A!Height(A!RightRotate(n)) =
              A!Height(n.left) + IF A!Balance(n.left) = 0 THEN 1 ELSE 0
<1> DEFINE x == n.left
           y == Nd(n.key, n.val, x.right, n.right)
           r == Nd(x.key, x.val, x.left, y)
<1>1. /\ A!Balance(n) = A!Height(x) - A!Height(n.right)
      /\ A!Height(x) \in Nat /\ A!Height(n.right) \in Nat
  BY SoundBalance
<1>2. Sound(x)
  BY SoundParts
<1>3. x # A!Nil
  BY <1>1, <1>2, SoundHeight
<1>4. /\ A!Height(x) = 1 + Taller(A!Height(x.left), A!Height(x.right))
      /\ A!Balance(x) = A!Height(x.left) - A!Height(x.right)
      /\ A!Height(x.left) \in Nat /\ A!Height(x.right) \in Nat
      /\ Even(x.left) /\ Even(x.right) /\ A!Balance(x) \in -1..1
  BY <1>2, <1>3, SoundBalance
<1>5. A!RightRotate(n) = r /\ Sound(r)
  BY <1>3, RightRotated
<1> HIDE DEF x
<1>6. /\ A!Height(r) = 1 + Taller(A!Height(x.left), A!Height(y)) /\ Sound(y)
      /\ Even(r) <=> Even(x.left) /\ Even(y) /\ A!Height(x.left) - A!Height(y) \in -1..1
  <2> HIDE DEF y
  <2> QED
    BY <1>5, NodeBalance
<1>7. /\ A!Height(y) = 1 + Taller(A!Height(x.right), A!Height(n.right))
      /\ Even(y) <=> Even(x.right) /\ Even(n.right)
                     /\ A!Height(x.right) - A!Height(n.right) \in -1..1
  BY <1>6, NodeBalance
<1> HIDE DEF y, r
<1>8. A!Balance(x) = 0 \/ A!Balance(x) = 1
  BY <1>4 DEF x
<1>9. A!Height(r) = A!Height(x) + IF A!Balance(x) = 0 THEN 1 ELSE 0
  BY <1>1, <1>4, <1>6, <1>7, <1>8 DEF Taller
<1>10. Even(y)
  BY <1>1, <1>4, <1>7, <1>8 DEF Taller
<1>11. Even(r)
  BY <1>1, <1>4, <1>6, <1>7, <1>8, <1>10 DEF Taller
<1> QED
  BY <1>3, <1>5, <1>9, <1>11 DEF x

LEMMA LeftEven ==
  ASSUME NEW n, Sound(n), n # A!Nil, Even(n.left), Even(n.right),
         A!Balance(n) = -2, A!Balance(n.right) <= 0
  PROVE  /\ n.right # A!Nil /\ Even(A!LeftRotate(n))
         /\ A!Height(A!LeftRotate(n)) =
              A!Height(n.right) + IF A!Balance(n.right) = 0 THEN 1 ELSE 0
<1> DEFINE y == n.right
           x == Nd(n.key, n.val, n.left, y.left)
           r == Nd(y.key, y.val, x, y.right)
<1>1. /\ A!Balance(n) = A!Height(n.left) - A!Height(y)
      /\ A!Height(n.left) \in Nat /\ A!Height(y) \in Nat
  BY SoundBalance
<1>2. Sound(y)
  BY SoundParts
<1>3. y # A!Nil
  BY <1>1, <1>2, SoundHeight
<1>4. /\ A!Height(y) = 1 + Taller(A!Height(y.left), A!Height(y.right))
      /\ A!Balance(y) = A!Height(y.left) - A!Height(y.right)
      /\ A!Height(y.left) \in Nat /\ A!Height(y.right) \in Nat
      /\ Even(y.left) /\ Even(y.right) /\ A!Balance(y) \in -1..1
  BY <1>2, <1>3, SoundBalance
<1>5. A!LeftRotate(n) = r /\ Sound(r)
  BY <1>3, LeftRotated
<1> HIDE DEF y
<1>6. /\ A!Height(r) = 1 + Taller(A!Height(x), A!Height(y.right)) /\ Sound(x)
      /\ Even(r) <=> Even(x) /\ Even(y.right) /\ A!Height(x) - A!Height(y.right) \in -1..1
  <2> HIDE DEF x
  <2> QED
    BY <1>5, NodeBalance
<1>7. /\ A!Height(x) = 1 + Taller(A!Height(n.left), A!Height(y.left))
      /\ Even(x) <=> Even(n.left) /\ Even(y.left)
                     /\ A!Height(n.left) - A!Height(y.left) \in -1..1
  BY <1>6, NodeBalance
<1> HIDE DEF x, r
<1>8. A!Balance(y) = 0 \/ A!Balance(y) = -1
  BY <1>4 DEF y
<1>9. A!Height(r) = A!Height(y) + IF A!Balance(y) = 0 THEN 1 ELSE 0
  BY <1>1, <1>4, <1>6, <1>7, <1>8 DEF Taller
<1>10. Even(x)
  BY <1>1, <1>4, <1>7, <1>8 DEF Taller
<1>11. Even(r)
  BY <1>1, <1>4, <1>6, <1>7, <1>8, <1>10 DEF Taller
<1> QED
  BY <1>3, <1>5, <1>9, <1>11 DEF y

(* A double rotation does where the child leans the other way. *)
LEMMA LeftRightEven ==
  ASSUME NEW n, Sound(n), n # A!Nil, Even(n.left), Even(n.right),
         A!Balance(n) = 2, A!Balance(n.left) < 0
  PROVE  /\ n.left # A!Nil /\ n.left.right # A!Nil /\ Even(LeftRight(n))
         /\ A!Height(LeftRight(n)) = A!Height(n.left)
<1> DEFINE x == n.left
           m == x.right
           a == Nd(x.key, x.val, x.left, m.left)
           b == Nd(n.key, n.val, m.right, n.right)
           r == Nd(m.key, m.val, a, b)
<1>1. /\ A!Balance(n) = A!Height(x) - A!Height(n.right)
      /\ A!Height(x) \in Nat /\ A!Height(n.right) \in Nat
  BY SoundBalance
<1>2. Sound(x)
  BY SoundParts
<1>3. x # A!Nil
  BY <1>1, <1>2, SoundHeight
<1>4. /\ A!Height(x) = 1 + Taller(A!Height(x.left), A!Height(m))
      /\ A!Balance(x) = A!Height(x.left) - A!Height(m)
      /\ A!Height(x.left) \in Nat /\ A!Height(m) \in Nat
      /\ Even(x.left) /\ Even(m) /\ A!Balance(x) \in -1..1
  BY <1>2, <1>3, SoundBalance
<1>5. A!Height(x.left) = A!Height(n.right) /\ A!Height(m) = A!Height(n.right) + 1
  BY <1>1, <1>4 DEF Taller
<1>6. Sound(m)
  BY <1>2, <1>3, SoundParts
<1>7. m # A!Nil
  BY <1>1, <1>5, <1>6, SoundHeight
<1>8. /\ A!Height(m) = 1 + Taller(A!Height(m.left), A!Height(m.right))
      /\ A!Height(m.left) \in Nat /\ A!Height(m.right) \in Nat
      /\ Even(m.left) /\ Even(m.right) /\ A!Height(m.left) - A!Height(m.right) \in -1..1
  BY <1>4, <1>6, <1>7, SoundBalance
<1>9. LeftRight(n) = r /\ Sound(r)
  BY <1>3, <1>7, LeftRightRotated
<1> HIDE DEF x, m
<1>10. /\ A!Height(r) = 1 + Taller(A!Height(a), A!Height(b)) /\ Sound(a) /\ Sound(b)
       /\ Even(r) <=> Even(a) /\ Even(b) /\ A!Height(a) - A!Height(b) \in -1..1
  <2> HIDE DEF a, b
  <2> QED
    BY <1>9, NodeBalance
<1>11. /\ A!Height(a) = 1 + Taller(A!Height(x.left), A!Height(m.left))
       /\ Even(a) <=> Even(x.left) /\ Even(m.left)
                      /\ A!Height(x.left) - A!Height(m.left) \in -1..1
  BY <1>10, NodeBalance
<1>12. /\ A!Height(b) = 1 + Taller(A!Height(m.right), A!Height(n.right))
       /\ Even(b) <=> Even(m.right) /\ Even(n.right)
                      /\ A!Height(m.right) - A!Height(n.right) \in -1..1
  BY <1>10, NodeBalance
<1> HIDE DEF a, b, r
<1>13. A!Height(a) = A!Height(m) /\ A!Height(b) = A!Height(m)
  BY <1>1, <1>4, <1>5, <1>8, <1>11, <1>12 DEF Taller
<1>14. Even(a) /\ Even(b)
  BY <1>1, <1>4, <1>5, <1>8, <1>11, <1>12 DEF Taller
<1>15. Even(r) /\ A!Height(r) = A!Height(x)
  BY <1>1, <1>4, <1>5, <1>10, <1>13, <1>14 DEF Taller
<1> QED
  BY <1>3, <1>7, <1>9, <1>15 DEF x, m

LEMMA RightLeftEven ==
  ASSUME NEW n, Sound(n), n # A!Nil, Even(n.left), Even(n.right),
         A!Balance(n) = -2, A!Balance(n.right) > 0
  PROVE  /\ n.right # A!Nil /\ n.right.left # A!Nil /\ Even(RightLeft(n))
         /\ A!Height(RightLeft(n)) = A!Height(n.right)
<1> DEFINE y == n.right
           m == y.left
           a == Nd(n.key, n.val, n.left, m.left)
           b == Nd(y.key, y.val, m.right, y.right)
           r == Nd(m.key, m.val, a, b)
<1>1. /\ A!Balance(n) = A!Height(n.left) - A!Height(y)
      /\ A!Height(n.left) \in Nat /\ A!Height(y) \in Nat
  BY SoundBalance
<1>2. Sound(y)
  BY SoundParts
<1>3. y # A!Nil
  BY <1>1, <1>2, SoundHeight
<1>4. /\ A!Height(y) = 1 + Taller(A!Height(m), A!Height(y.right))
      /\ A!Balance(y) = A!Height(m) - A!Height(y.right)
      /\ A!Height(m) \in Nat /\ A!Height(y.right) \in Nat
      /\ Even(m) /\ Even(y.right) /\ A!Balance(y) \in -1..1
  BY <1>2, <1>3, SoundBalance
<1>5. A!Height(y.right) = A!Height(n.left) /\ A!Height(m) = A!Height(n.left) + 1
  BY <1>1, <1>4 DEF Taller
<1>6. Sound(m)
  BY <1>2, <1>3, SoundParts
<1>7. m # A!Nil
  BY <1>1, <1>5, <1>6, SoundHeight
<1>8. /\ A!Height(m) = 1 + Taller(A!Height(m.left), A!Height(m.right))
      /\ A!Height(m.left) \in Nat /\ A!Height(m.right) \in Nat
      /\ Even(m.left) /\ Even(m.right) /\ A!Height(m.left) - A!Height(m.right) \in -1..1
  BY <1>4, <1>6, <1>7, SoundBalance
<1>9. RightLeft(n) = r /\ Sound(r)
  BY <1>3, <1>7, RightLeftRotated
<1> HIDE DEF y, m
<1>10. /\ A!Height(r) = 1 + Taller(A!Height(a), A!Height(b)) /\ Sound(a) /\ Sound(b)
       /\ Even(r) <=> Even(a) /\ Even(b) /\ A!Height(a) - A!Height(b) \in -1..1
  <2> HIDE DEF a, b
  <2> QED
    BY <1>9, NodeBalance
<1>11. /\ A!Height(a) = 1 + Taller(A!Height(n.left), A!Height(m.left))
       /\ Even(a) <=> Even(n.left) /\ Even(m.left)
                      /\ A!Height(n.left) - A!Height(m.left) \in -1..1
  BY <1>10, NodeBalance
<1>12. /\ A!Height(b) = 1 + Taller(A!Height(m.right), A!Height(y.right))
       /\ Even(b) <=> Even(m.right) /\ Even(y.right)
                      /\ A!Height(m.right) - A!Height(y.right) \in -1..1
  BY <1>10, NodeBalance
<1> HIDE DEF a, b, r
<1>13. A!Height(a) = A!Height(m) /\ A!Height(b) = A!Height(m)
  BY <1>1, <1>4, <1>5, <1>8, <1>11, <1>12 DEF Taller
<1>14. Even(a) /\ Even(b)
  BY <1>1, <1>4, <1>5, <1>8, <1>11, <1>12 DEF Taller
<1>15. Even(r) /\ A!Height(r) = A!Height(y)
  BY <1>1, <1>4, <1>5, <1>10, <1>13, <1>14 DEF Taller
<1> QED
  BY <1>3, <1>7, <1>9, <1>15 DEF y, m

-----------------------------------------------------------------------------
(* Insertion *)

LEMMA MeasuredWith ==
  ASSUME NEW m, Sound(m), m # A!Nil, NEW a
  PROVE  /\ A!Measured(WithLeft(m, a)) = Nd(m.key, m.val, a, m.right)
         /\ A!Measured(WithRight(m, a)) = Nd(m.key, m.val, m.left, a)
         /\ A!Measured(m) = m
<1>1. m = Nd(m.key, m.val, m.left, m.right)
  BY SoundParts
<1>2. PICK k, v, l, r : k = m.key /\ v = m.val /\ l = m.left /\ r = m.right
  OBVIOUS
<1>3. m = Nd(k, v, l, r)
  BY <1>1, <1>2
<1>4. /\ A!Measured(WithLeft(Nd(k, v, l, r), a)) = Nd(k, v, a, r)
      /\ A!Measured(WithRight(Nd(k, v, l, r), a)) = Nd(k, v, l, a)
      /\ A!Measured(Nd(k, v, l, r)) = Nd(k, v, l, r)
  BY MeasuredNode DEF WithLeft, WithRight
<1> QED
  BY <1>2, <1>3, <1>4

LEMMA SoundNotCrashed ==
  ASSUME NEW n, Sound(n)
  PROVE  n # A!Crashed
<1>1. A!Crashed # A!Nil
  <2>1. DOMAIN A!Crashed # {} /\ DOMAIN A!Nil = {}
    BY DEF A!Crashed, A!Nil
  <2> QED
    BY <2>1
<1>2. A!Height(A!Crashed) = 0
  BY <1>1 DEF A!Height, A!Crashed
<1> QED
  BY <1>1, <1>2, SoundHeight

LEMMA InsertCasesAre ==
  ASSUME NEW n, NEW k
  PROVE  A!InsertCases(n, k) =
           CASE A!Balance(n) > 1 /\ k < n.left.key   -> A!RightRotate(n)
             [] A!Balance(n) < -1 /\ k > n.right.key -> A!LeftRotate(n)
             [] A!Balance(n) > 1 /\ k > n.left.key   ->
                  IF n.left.right = A!Nil THEN A!Crashed ELSE LeftRight(n)
             [] A!Balance(n) < -1 /\ k < n.right.key ->
                  IF n.right.left = A!Nil THEN A!Crashed ELSE RightLeft(n)
             [] OTHER -> n
BY DEF A!InsertCases, LeftRight, RightLeft, WithLeft, WithRight

LEMMA DeleteCasesAre ==
  ASSUME NEW n
  PROVE  A!DeleteCases(n) =
           CASE A!Balance(n) > 1 /\ A!Balance(n.left) >= 0   -> A!RightRotate(n)
             [] A!Balance(n) > 1 /\ A!Balance(n.left) < 0    -> LeftRight(n)
             [] A!Balance(n) < -1 /\ A!Balance(n.right) <= 0 -> A!LeftRotate(n)
             [] A!Balance(n) < -1 /\ A!Balance(n.right) > 0  -> RightLeft(n)
             [] OTHER -> n
BY DEF A!DeleteCases, LeftRight, RightLeft, WithLeft, WithRight

(* A node that leans has a child on that side. *)
LEMMA LeansOnChild ==
  ASSUME NEW n, Sound(n), n # A!Nil
  PROVE  /\ A!Balance(n) \in Int
         /\ A!Balance(n) > 0 => n.left # A!Nil
         /\ A!Balance(n) < 0 => n.right # A!Nil
<1>1. /\ A!Balance(n) = A!Height(n.left) - A!Height(n.right)
      /\ A!Height(n.left) \in Nat /\ A!Height(n.right) \in Nat
  BY SoundBalance
<1>2. A!Height(A!Nil) = 0
  BY DEF A!Height
<1> QED
  BY <1>1, <1>2

LEMMA InsertCasesKeep ==
  ASSUME NEW n, Sound(n), n # A!Nil, NEW k \in A!Key, A!InsertCases(n, k) # A!Crashed
  PROVE  LET r == A!InsertCases(n, k) IN Sound(r) /\ Pairs(r) = Pairs(n) /\ r # A!Nil
<1> DEFINE r == A!InsertCases(n, k)
<1>1. /\ A!Balance(n) \in Int
      /\ A!Balance(n) > 0 => n.left # A!Nil
      /\ A!Balance(n) < 0 => n.right # A!Nil
  BY LeansOnChild
<1>2. r \in {A!RightRotate(n), A!LeftRotate(n), LeftRight(n), RightLeft(n), n}
  BY InsertCasesAre
<1>3. CASE r = n
  BY <1>3
<1>4. CASE A!Balance(n) > 1
  <2>1. n.left # A!Nil
    BY <1>1, <1>4
  <2>2. r = A!RightRotate(n) \/ (r = LeftRight(n) /\ n.left.right # A!Nil) \/ r = n
    BY <1>1, <1>4, InsertCasesAre
  <2> QED
    BY <1>3, <2>1, <2>2, RightRotated, LeftRightRotated
<1>5. CASE A!Balance(n) < -1
  <2>1. n.right # A!Nil
    BY <1>1, <1>5
  <2>2. r = A!LeftRotate(n) \/ (r = RightLeft(n) /\ n.right.left # A!Nil) \/ r = n
    BY <1>1, <1>5, InsertCasesAre
  <2> QED
    BY <1>3, <2>1, <2>2, LeftRotated, RightLeftRotated
<1>6. CASE ~(A!Balance(n) > 1) /\ ~(A!Balance(n) < -1)
  <2>1. r = n
    BY <1>6, InsertCasesAre
  <2> QED
    BY <1>3, <2>1
<1> QED
  BY <1>4, <1>5, <1>6

(* The side that grew leans to where k went. *)
Leans(n, k) == (k < n.key /\ A!Balance(n) = 1) \/ (k > n.key /\ A!Balance(n) = -1)

LEMMA InsertCasesEven ==
  ASSUME NEW n, Sound(n), n # A!Nil, NEW k \in A!Key, Even(n.left), Even(n.right),
         A!Balance(n) \in -2..2,
         A!Balance(n) = 2 => Leans(n.left, k), A!Balance(n) = -2 => Leans(n.right, k)
  PROVE  LET r == A!InsertCases(n, k)
         IN  /\ Even(r) /\ r # A!Crashed
             /\ A!Balance(n) \in -1..1 => r = n
             /\ A!Balance(n) \notin -1..1 => A!Height(r) = A!Height(n) - 1
<1> DEFINE r == A!InsertCases(n, k)
<1>1. /\ A!Height(n) = 1 + Taller(A!Height(n.left), A!Height(n.right))
      /\ A!Balance(n) = A!Height(n.left) - A!Height(n.right)
      /\ A!Height(n.left) \in Nat /\ A!Height(n.right) \in Nat
      /\ Even(n) <=> Even(n.left) /\ Even(n.right) /\ A!Balance(n) \in -1..1
  BY SoundBalance
<1>2. k \in Int
  BY TreeAssumption DEF A!Key
<1>3. CASE A!Balance(n) \in -1..1
  <2>1. r = n
    BY <1>3, InsertCasesAre
  <2> HIDE DEF r
  <2> QED
    BY <1>1, <1>3, <2>1, SoundNotCrashed DEF r
<1>4. CASE A!Balance(n) = 2
  <2>1. A!Height(n.left) = A!Height(n) - 1
    BY <1>1, <1>4 DEF Taller
  <2>2. n.left # A!Nil
    BY <1>4, LeansOnChild
  <2>3. n.left.key \in Int
    BY <2>2, SoundParts, TreeAssumption DEF A!Key
  <2>4. CASE k < n.left.key /\ A!Balance(n.left) = 1
    <3>1. r = A!RightRotate(n)
      BY <1>2, <1>4, <2>3, <2>4, InsertCasesAre
    <3>2. Sound(A!RightRotate(n))
      BY <2>2, RightRotated
    <3>3. Even(A!RightRotate(n)) /\ A!Height(A!RightRotate(n)) = A!Height(n.left) + 0
      BY <1>4, <2>4, RightEven
    <3> HIDE DEF r
    <3> QED
      BY <1>1, <1>4, <2>1, <3>1, <3>2, <3>3, SoundNotCrashed DEF r
  <2>5. CASE k > n.left.key /\ A!Balance(n.left) = -1
    <3>1. /\ n.left.right # A!Nil /\ Even(LeftRight(n))
          /\ A!Height(LeftRight(n)) = A!Height(n.left)
      BY <1>4, <2>5, LeftRightEven
    <3>2. r = LeftRight(n)
      BY <1>2, <1>4, <2>3, <2>5, <3>1, InsertCasesAre
    <3>3. Sound(LeftRight(n))
      BY <2>2, <3>1, LeftRightRotated
    <3> HIDE DEF r
    <3> QED
      BY <1>1, <1>4, <2>1, <3>1, <3>2, <3>3, SoundNotCrashed DEF r
  <2> QED
    BY <1>4, <2>4, <2>5 DEF Leans
<1>5. CASE A!Balance(n) = -2
  <2>1. A!Height(n.right) = A!Height(n) - 1
    BY <1>1, <1>5 DEF Taller
  <2>2. n.right # A!Nil
    BY <1>5, LeansOnChild
  <2>3. n.right.key \in Int
    BY <2>2, SoundParts, TreeAssumption DEF A!Key
  <2>4. CASE k > n.right.key /\ A!Balance(n.right) = -1
    <3>1. r = A!LeftRotate(n)
      BY <1>2, <1>5, <2>3, <2>4, InsertCasesAre
    <3>2. Sound(A!LeftRotate(n))
      BY <2>2, LeftRotated
    <3>3. Even(A!LeftRotate(n)) /\ A!Height(A!LeftRotate(n)) = A!Height(n.right) + 0
      BY <1>5, <2>4, LeftEven
    <3> HIDE DEF r
    <3> QED
      BY <1>1, <1>5, <2>1, <3>1, <3>2, <3>3, SoundNotCrashed DEF r
  <2>5. CASE k < n.right.key /\ A!Balance(n.right) = 1
    <3>1. /\ n.right.left # A!Nil /\ Even(RightLeft(n))
          /\ A!Height(RightLeft(n)) = A!Height(n.right)
      BY <1>5, <2>5, RightLeftEven
    <3>2. r = RightLeft(n)
      BY <1>2, <1>5, <2>3, <2>5, <3>1, InsertCasesAre
    <3>3. Sound(RightLeft(n))
      BY <2>2, <3>1, RightLeftRotated
    <3> HIDE DEF r
    <3> QED
      BY <1>1, <1>5, <2>1, <3>1, <3>2, <3>3, SoundNotCrashed DEF r
  <2> QED
    BY <1>5, <2>4, <2>5 DEF Leans
<1> QED
  BY <1>1, <1>3, <1>4, <1>5

(* r is what m becomes when k is inserted with value v. *)
Inserts(m, r, k, v) ==
  /\ Sound(r) /\ r # A!Nil
  /\ Pairs(r) = IF k \in A!KeysOf(m) THEN Pairs(m) ELSE Pairs(m) \cup {<<k, v>>}
  /\ Even(m) => /\ Even(r)
                /\ A!Height(r) \in {A!Height(m), A!Height(m) + 1}
                /\ A!Height(r) # A!Height(m) /\ m # A!Nil => Leans(r, k)

(* An insertion that crashes does so in a tree that was out of balance. *)
InsertsOrCrashes(m, r, k, v) ==
  /\ r # A!Crashed => Inserts(m, r, k, v)
  /\ Even(m) => r # A!Crashed

LEMMA InsertedKeys ==
  ASSUME NEW m, NEW r, NEW k, NEW v, Inserts(m, r, k, v)
  PROVE  A!KeysOf(r) = A!KeysOf(m) \cup {k}
<1>1. /\ A!KeysOf(m) = {p[1] : p \in Pairs(m)}
      /\ A!KeysOf(r) = {p[1] : p \in Pairs(r)}
  BY KeysAreFirst
<1>2. CASE k \in A!KeysOf(m)
  BY <1>1, <1>2 DEF Inserts
<1>3. CASE k \notin A!KeysOf(m)
  <2>1. Pairs(r) = Pairs(m) \cup {<<k, v>>} /\ <<k, v>>[1] = k
    BY <1>3 DEF Inserts
  <2> QED
    BY <1>1, <2>1
<1> QED
  BY <1>2, <1>3

LEMMA InsertNewNode ==
  ASSUME NEW k \in A!Key, NEW v \in Val
  PROVE  Inserts(A!Nil, A!NewNode(k, v), k, v)
<1> DEFINE r == Nd(k, v, A!Nil, A!Nil)
<1>1. /\ Sound(A!Nil) /\ Even(A!Nil) /\ A!Height(A!Nil) = 0
      /\ A!KeysOf(A!Nil) = {} /\ Pairs(A!Nil) = {}
  BY SoundNil
<1>2. Sound(r)
  BY <1>1, SoundNode DEF Below, Above
<1>3. Pairs(r) = {<<k, v>>}
  BY <1>1, NodeStandsFor
<1>4. A!Height(r) = 1 /\ Even(r)
  BY <1>1, <1>2, NodeBalance DEF Taller
<1>5. r # A!Nil
  BY NdParts
<1>6. A!NewNode(k, v) = r
  BY NewNodeIs
<1> HIDE DEF r
<1> QED
  BY <1>1, <1>2, <1>3, <1>4, <1>5, <1>6 DEF Inserts

LEMMA InsertLeftStep ==
  ASSUME NEW m, Sound(m), m # A!Nil, NEW k \in A!Key, NEW v \in Val, k < m.key,
         NEW l, Inserts(m.left, l, k, v)
  PROVE  InsertsOrCrashes(m, A!InsertCases(Nd(m.key, m.val, l, m.right), k), k, v)
<1> DEFINE n == Nd(m.key, m.val, l, m.right)
           r == A!InsertCases(n, k)
<1>1. /\ m.key \in A!Key /\ m.val \in Val /\ Sound(m.left) /\ Sound(m.right)
      /\ Below(m.left, m.key) /\ Above(m.right, m.key)
      /\ m = Nd(m.key, m.val, m.left, m.right)
  BY SoundParts
<1>2. k \in Int /\ m.key \in Int
  BY <1>1, TreeAssumption DEF A!Key
<1>3. Sound(l) /\ A!KeysOf(l) = A!KeysOf(m.left) \cup {k}
  <2>1. A!KeysOf(l) = A!KeysOf(m.left) \cup {k}
    BY InsertedKeys
  <2> QED
    BY <2>1 DEF Inserts
<1>4. Below(l, m.key)
  BY <1>1, <1>3 DEF Below
<1>5. Sound(n)
  BY <1>1, <1>3, <1>4, SoundNode
<1>6. n # A!Nil /\ n.key = m.key /\ n.left = l /\ n.right = m.right
  BY NdParts
<1>7. Pairs(n) = IF k \in A!KeysOf(m) THEN Pairs(m) ELSE Pairs(m) \cup {<<k, v>>}
  <2>1. Pairs(n) = {<<m.key, m.val>>} \cup Pairs(l) \cup Pairs(m.right)
    BY <1>1, <1>3, NodeStandsFor
  <2>2. /\ Pairs(Nd(m.key, m.val, m.left, m.right))
             = {<<m.key, m.val>>} \cup Pairs(m.left) \cup Pairs(m.right)
        /\ A!KeysOf(Nd(m.key, m.val, m.left, m.right))
             = {m.key} \cup A!KeysOf(m.left) \cup A!KeysOf(m.right)
    BY <1>1, NodeStandsFor
  <2>3. k \in A!KeysOf(m) <=> k \in A!KeysOf(m.left)
    BY <1>1, <1>2, <2>2 DEF Above
  <2>4. Pairs(m) = {<<m.key, m.val>>} \cup Pairs(m.left) \cup Pairs(m.right)
    BY <1>1, <2>2
  <2>5. Pairs(l) = IF k \in A!KeysOf(m.left) THEN Pairs(m.left)
                   ELSE Pairs(m.left) \cup {<<k, v>>}
    BY DEF Inserts
  <2> HIDE DEF n
  <2> QED
    BY <2>1, <2>3, <2>4, <2>5
<1> HIDE DEF n
<1>8. ASSUME r # A!Crashed
      PROVE  Sound(r) /\ r # A!Nil /\ Pairs(r) = Pairs(n)
  BY <1>5, <1>6, <1>8, InsertCasesKeep
<1>9. ASSUME Even(m)
      PROVE  /\ Even(r) /\ r # A!Crashed
             /\ A!Height(r) \in {A!Height(m), A!Height(m) + 1}
             /\ A!Height(r) # A!Height(m) => Leans(r, k)
  <2>1. /\ A!Height(m) = 1 + Taller(A!Height(m.left), A!Height(m.right))
        /\ A!Balance(m) = A!Height(m.left) - A!Height(m.right)
        /\ A!Height(m.left) \in Nat /\ A!Height(m.right) \in Nat
        /\ Even(m.left) /\ Even(m.right) /\ A!Balance(m) \in -1..1
    BY <1>9, SoundBalance
  <2>2. /\ A!Height(n) = 1 + Taller(A!Height(l), A!Height(m.right))
        /\ A!Balance(n) = A!Height(l) - A!Height(m.right)
    BY <1>5, <1>6, SoundBalance
  <2>3. /\ Even(l)
        /\ A!Height(l) \in {A!Height(m.left), A!Height(m.left) + 1}
        /\ A!Height(l) # A!Height(m.left) /\ m.left # A!Nil => Leans(l, k)
    BY <2>1 DEF Inserts
  <2>4. A!Balance(n) \in -1..2
    BY <2>1, <2>2, <2>3
  <2>5. A!Balance(n) = 2 => Leans(l, k)
    <3>1. SUFFICES ASSUME A!Balance(n) = 2
                   PROVE  A!Height(l) # A!Height(m.left) /\ A!Height(m.left) > 0
      BY <1>1, <2>3, SoundHeight
    <3> QED
      BY <2>1, <2>2, <2>3, <3>1
  <2>6. /\ Even(r) /\ r # A!Crashed
        /\ A!Balance(n) \in -1..1 => r = n
        /\ A!Balance(n) \notin -1..1 => A!Height(r) = A!Height(n) - 1
    BY <1>5, <1>6, <2>1, <2>3, <2>4, <2>5, InsertCasesEven
  <2> HIDE DEF r
  <2>7. CASE A!Balance(n) = 2
    <3>1. A!Height(r) = A!Height(m)
      BY <2>1, <2>2, <2>3, <2>6, <2>7 DEF Taller
    <3> QED
      BY <2>6, <3>1
  <2>8. CASE A!Balance(n) \in -1..1
    <3>1. r = n
      BY <2>6, <2>8
    <3>2. A!Height(n) \in {A!Height(m), A!Height(m) + 1}
      BY <2>1, <2>2, <2>3 DEF Taller
    <3>3. A!Height(n) # A!Height(m) => A!Balance(n) = 1
      BY <2>1, <2>2, <2>3, <2>8 DEF Taller
    <3> QED
      BY <1>6, <2>6, <3>1, <3>2, <3>3 DEF Leans
  <2> QED
    BY <2>4, <2>7, <2>8
<1> HIDE DEF r
<1>10. InsertsOrCrashes(m, r, k, v)
  BY <1>7, <1>8, <1>9 DEF InsertsOrCrashes, Inserts
<1> QED
  BY <1>10 DEF r, n

LEMMA InsertRightStep ==
  ASSUME NEW m, Sound(m), m # A!Nil, NEW k \in A!Key, NEW v \in Val, k > m.key,
         NEW l, Inserts(m.right, l, k, v)
  PROVE  InsertsOrCrashes(m, A!InsertCases(Nd(m.key, m.val, m.left, l), k), k, v)
<1> DEFINE n == Nd(m.key, m.val, m.left, l)
           r == A!InsertCases(n, k)
<1>1. /\ m.key \in A!Key /\ m.val \in Val /\ Sound(m.left) /\ Sound(m.right)
      /\ Below(m.left, m.key) /\ Above(m.right, m.key)
      /\ m = Nd(m.key, m.val, m.left, m.right)
  BY SoundParts
<1>2. k \in Int /\ m.key \in Int
  BY <1>1, TreeAssumption DEF A!Key
<1>3. Sound(l) /\ A!KeysOf(l) = A!KeysOf(m.right) \cup {k}
  <2>1. A!KeysOf(l) = A!KeysOf(m.right) \cup {k}
    BY InsertedKeys
  <2> QED
    BY <2>1 DEF Inserts
<1>4. Above(l, m.key)
  BY <1>1, <1>3 DEF Above
<1>5. Sound(n)
  BY <1>1, <1>3, <1>4, SoundNode
<1>6. n # A!Nil /\ n.key = m.key /\ n.left = m.left /\ n.right = l
  BY NdParts
<1>7. Pairs(n) = IF k \in A!KeysOf(m) THEN Pairs(m) ELSE Pairs(m) \cup {<<k, v>>}
  <2>1. Pairs(n) = {<<m.key, m.val>>} \cup Pairs(m.left) \cup Pairs(l)
    BY <1>1, <1>3, NodeStandsFor
  <2>2. /\ Pairs(Nd(m.key, m.val, m.left, m.right))
             = {<<m.key, m.val>>} \cup Pairs(m.left) \cup Pairs(m.right)
        /\ A!KeysOf(Nd(m.key, m.val, m.left, m.right))
             = {m.key} \cup A!KeysOf(m.left) \cup A!KeysOf(m.right)
    BY <1>1, NodeStandsFor
  <2>3. k \in A!KeysOf(m) <=> k \in A!KeysOf(m.right)
    BY <1>1, <1>2, <2>2 DEF Below
  <2>4. Pairs(m) = {<<m.key, m.val>>} \cup Pairs(m.left) \cup Pairs(m.right)
    BY <1>1, <2>2
  <2>5. Pairs(l) = IF k \in A!KeysOf(m.right) THEN Pairs(m.right)
                   ELSE Pairs(m.right) \cup {<<k, v>>}
    BY DEF Inserts
  <2> HIDE DEF n
  <2> QED
    BY <2>1, <2>3, <2>4, <2>5
<1> HIDE DEF n
<1>8. ASSUME r # A!Crashed
      PROVE  Sound(r) /\ r # A!Nil /\ Pairs(r) = Pairs(n)
  BY <1>5, <1>6, <1>8, InsertCasesKeep
<1>9. ASSUME Even(m)
      PROVE  /\ Even(r) /\ r # A!Crashed
             /\ A!Height(r) \in {A!Height(m), A!Height(m) + 1}
             /\ A!Height(r) # A!Height(m) => Leans(r, k)
  <2>1. /\ A!Height(m) = 1 + Taller(A!Height(m.left), A!Height(m.right))
        /\ A!Balance(m) = A!Height(m.left) - A!Height(m.right)
        /\ A!Height(m.left) \in Nat /\ A!Height(m.right) \in Nat
        /\ Even(m.left) /\ Even(m.right) /\ A!Balance(m) \in -1..1
    BY <1>9, SoundBalance
  <2>2. /\ A!Height(n) = 1 + Taller(A!Height(m.left), A!Height(l))
        /\ A!Balance(n) = A!Height(m.left) - A!Height(l)
    BY <1>5, <1>6, SoundBalance
  <2>3. /\ Even(l)
        /\ A!Height(l) \in {A!Height(m.right), A!Height(m.right) + 1}
        /\ A!Height(l) # A!Height(m.right) /\ m.right # A!Nil => Leans(l, k)
    BY <2>1 DEF Inserts
  <2>4. A!Balance(n) \in -2..1
    BY <2>1, <2>2, <2>3
  <2>5. A!Balance(n) = -2 => Leans(l, k)
    <3>1. SUFFICES ASSUME A!Balance(n) = -2
                   PROVE  A!Height(l) # A!Height(m.right) /\ A!Height(m.right) > 0
      BY <1>1, <2>3, SoundHeight
    <3> QED
      BY <2>1, <2>2, <2>3, <3>1
  <2>6. /\ Even(r) /\ r # A!Crashed
        /\ A!Balance(n) \in -1..1 => r = n
        /\ A!Balance(n) \notin -1..1 => A!Height(r) = A!Height(n) - 1
    BY <1>5, <1>6, <2>1, <2>3, <2>4, <2>5, InsertCasesEven
  <2> HIDE DEF r
  <2>7. CASE A!Balance(n) = -2
    <3>1. A!Height(r) = A!Height(m)
      BY <2>1, <2>2, <2>3, <2>6, <2>7 DEF Taller
    <3> QED
      BY <2>6, <3>1
  <2>8. CASE A!Balance(n) \in -1..1
    <3>1. r = n
      BY <2>6, <2>8
    <3>2. A!Height(n) \in {A!Height(m), A!Height(m) + 1}
      BY <2>1, <2>2, <2>3 DEF Taller
    <3>3. A!Height(n) # A!Height(m) => A!Balance(n) = -1
      BY <2>1, <2>2, <2>3, <2>8 DEF Taller
    <3> QED
      BY <1>6, <2>6, <3>1, <3>2, <3>3 DEF Leans
  <2> QED
    BY <2>4, <2>7, <2>8
<1> HIDE DEF r
<1>10. InsertsOrCrashes(m, r, k, v)
  BY <1>7, <1>8, <1>9 DEF InsertsOrCrashes, Inserts
<1> QED
  BY <1>10 DEF r, n

(* A key that is there is refused, but the four cases follow. *)
LEMMA InsertRefusedStep ==
  ASSUME NEW m, Sound(m), m # A!Nil, NEW v
  PROVE  InsertsOrCrashes(m, A!InsertCases(m, m.key), m.key, v)
<1> DEFINE k == m.key
           r == A!InsertCases(m, k)
<1>1. k \in A!Key /\ m = Nd(k, m.val, m.left, m.right) /\ Sound(m.left) /\ Sound(m.right)
      /\ m.val \in Val
  BY SoundParts
<1>2. k \in A!KeysOf(m)
  <2>1. A!KeysOf(Nd(k, m.val, m.left, m.right))
          = {k} \cup A!KeysOf(m.left) \cup A!KeysOf(m.right)
    BY <1>1, NodeStandsFor
  <2> QED
    BY <1>1, <2>1
<1> HIDE DEF k
<1>3. ASSUME r # A!Crashed
      PROVE  Sound(r) /\ r # A!Nil /\ Pairs(r) = Pairs(m)
  BY <1>1, <1>3, InsertCasesKeep
<1>4. ASSUME Even(m)
      PROVE  r = m
  <2>1. A!Balance(m) \in -1..1
    BY <1>4, SoundBalance
  <2> QED
    BY <2>1, InsertCasesAre
<1> HIDE DEF r
<1>5. InsertsOrCrashes(m, r, k, v)
  BY <1>2, <1>3, <1>4, SoundNotCrashed DEF InsertsOrCrashes, Inserts
<1> QED
  BY <1>5 DEF r, k

LEMMA SoundSubtrees ==
  ASSUME NEW n, Sound(n)
  PROVE  /\ n \in A!Subtrees(n)
         /\ \A m \in A!Subtrees(n) : /\ Sound(m)
                                     /\ A!Height(m) \in 0..A!Height(n)
                                     /\ m # A!Nil => /\ m.left \in A!Subtrees(n)
                                                     /\ m.right \in A!Subtrees(n)
<1>1. Proper(n)
  BY DEF Sound
<1>2. n \in A!Subtrees(n) /\ Closed(A!Subtrees(n))
  BY <1>1, ProperClosed
<1>3. ASSUME NEW m \in A!Subtrees(n)
      PROVE  Sound(m)
  <2>1. Proper(m) /\ A!Subtrees(m) \subseteq A!Subtrees(n)
    BY <1>1, ProperSubtree
  <2> QED
    BY <2>1 DEF Sound, A!Nodes
<1>4. \A m \in A!Subtrees(n) : m # A!Nil => /\ m.left \in A!Subtrees(n)
                                            /\ m.right \in A!Subtrees(n)
  BY <1>2 DEF Closed, WellMade
<1>5. ASSUME NEW m \in A!Subtrees(n)
      PROVE  A!Height(m) \in 0..A!Height(n)
  <2> DEFINE S == {p \in A!Subtrees(n) : A!Height(p) <= A!Height(n)}
  <2>1. \A p \in A!Subtrees(n) :
          /\ A!Height(p) \in Nat
          /\ p # A!Nil => /\ A!Height(p.left) < A!Height(p)
                          /\ A!Height(p.right) < A!Height(p)
    BY <1>2, ClosedHeights
  <2>2. \A p \in S : p # A!Nil => p.left \in S /\ p.right \in S
    BY <1>2, <1>4, <2>1
  <2>3. Closed(S)
    BY <1>2, <2>2 DEF Closed, WellMade
  <2>4. n \in S
    BY <1>2, <2>1
  <2> HIDE DEF S
  <2>5. A!Subtrees(n) \subseteq S
    BY <2>3, <2>4, SubtreesLeast
  <2> QED
    BY <1>2, <2>1, <2>5 DEF S
<1> QED
  BY <1>2, <1>3, <1>4, <1>5

(* Some tree is lowest: what holds of a tree if it holds of all lower ones, holds. *)
LEMMA LowestTree ==
  ASSUME NEW n, Sound(n), NEW T, T \subseteq A!Subtrees(n), T # {}
  PROVE  \E m \in T : \A p \in T : A!Height(m) <= A!Height(p)
<1> DEFINE H == {A!Height(m) : m \in T}
<1>1. H \subseteq Nat /\ H # {}
  BY SoundSubtrees, SoundHeight
<1>2. PICK h \in H : \A i \in H : h <= i
  <2> HIDE DEF H
  <2> QED
    BY <1>1, LeastElement
<1> QED
  BY <1>2

LEMMA LowerSubtrees ==
  ASSUME NEW m, Sound(m), m # A!Nil
  PROVE  A!Height(m.left) < A!Height(m) /\ A!Height(m.right) < A!Height(m)
BY ProperHeight DEF Sound

(* tree_insert_internal, step by step down the tree. *)
LEMMA InsertSteps ==
  ASSUME NEW n, Sound(n), NEW k, NEW v
  PROVE  \E f : /\ \A m \in A!Subtrees(n) : f[m] = InsertedAt(k, v, f, m)
                /\ A!Insert(n, k, v) = f[n]
<1> DEFINE D == A!Subtrees(n)
           w == [op |-> "insert", key |-> k, val |-> v]
           mu == [m \in D |-> A!Height(m)]
<1>1. \A g, h : \A x \in D :
        (\A y \in D : mu[y] < mu[x] => g[y] = h[y]) => Body(w, g, x) = Body(w, h, x)
  <2>1. SUFFICES ASSUME NEW g, NEW h, NEW x \in D, \A y \in D : mu[y] < mu[x] => g[y] = h[y]
                 PROVE  InsertedAt(k, v, g, x) = InsertedAt(k, v, h, x)
    BY DEF Body
  <2>2. CASE x = A!Nil
    BY <2>2 DEF InsertedAt
  <2>3. CASE x # A!Nil
    <3>1. x.left \in D /\ x.right \in D /\ Sound(x)
      BY <2>3, SoundSubtrees
    <3>2. mu[x.left] < mu[x] /\ mu[x.right] < mu[x]
      BY <2>3, <3>1, LowerSubtrees
    <3>3. g[x.left] = h[x.left] /\ g[x.right] = h[x.right]
      BY <2>1, <3>1, <3>2
    <3> QED
      BY <2>3, <3>3 DEF InsertedAt
  <2> QED
    BY <2>2, <2>3
<1>2. \A x \in D : mu[x] \in 0..A!Height(n)
  BY SoundSubtrees
<1>3. A!Height(n) \in Nat
  BY SoundHeight
<1>4. \E g : g = [x \in D |-> Body(w, g, x)]
  <2> HIDE DEF D, w, mu
  <2> QED
    BY <1>1, <1>2, <1>3, RecursionExists, ZenonT(30)
<1>5. \E g : g = [x \in D |-> InsertedAt(k, v, g, x)]
  BY <1>4 DEF Body
<1> DEFINE ins == CHOOSE ins : ins = [m \in A!Subtrees(n) |->
     IF m = A!Nil THEN A!NewNode(k, v)
     ELSE LET r == A!Measured(CASE k < m.key -> [m EXCEPT !.left = ins[m.left]]
                                [] k > m.key -> [m EXCEPT !.right = ins[m.right]]
                                [] OTHER     -> m)
          IN  IF A!Crashed \in {r.left, r.right} THEN A!Crashed ELSE A!InsertCases(r, k)]
<1>6. ins = [m \in D |-> InsertedAt(k, v, ins, m)]
  BY <1>5, ZenonT(30) DEF InsertedAt
<1>7. A!Insert(n, k, v) = ins[n]
  BY DEF A!Insert
<1> HIDE DEF ins
<1>8. \A m \in D : ins[m] = InsertedAt(k, v, ins, m)
  BY <1>6
<1> QED
  BY <1>7, <1>8

LEMMA InsertedAtNode ==
  ASSUME NEW m, Sound(m), m # A!Nil, NEW k \in A!Key, NEW v, NEW f
  PROVE  /\ k < m.key => InsertedAt(k, v, f, m) =
              IF f[m.left] = A!Crashed THEN A!Crashed
              ELSE A!InsertCases(Nd(m.key, m.val, f[m.left], m.right), k)
         /\ k > m.key => InsertedAt(k, v, f, m) =
              IF f[m.right] = A!Crashed THEN A!Crashed
              ELSE A!InsertCases(Nd(m.key, m.val, m.left, f[m.right]), k)
         /\ k = m.key => InsertedAt(k, v, f, m) = A!InsertCases(m, k)
<1> DEFINE r == A!Measured(CASE k < m.key -> WithLeft(m, f[m.left])
                             [] k > m.key -> WithRight(m, f[m.right])
                             [] OTHER     -> m)
<1>1. InsertedAt(k, v, f, m) =
        IF A!Crashed \in {r.left, r.right} THEN A!Crashed ELSE A!InsertCases(r, k)
  BY DEF InsertedAt, WithLeft, WithRight
<1>2. k \in Int /\ m.key \in Int
  BY SoundParts, TreeAssumption DEF A!Key
<1>3. m.left # A!Crashed /\ m.right # A!Crashed
  BY SoundParts, SoundNotCrashed
<1>4. CASE k < m.key
  <2>1. r = Nd(m.key, m.val, f[m.left], m.right)
    BY <1>2, <1>4, MeasuredWith
  <2>2. r.left = f[m.left] /\ r.right = m.right
    BY <2>1, NdParts
  <2> QED
    BY <1>1, <1>2, <1>3, <1>4, <2>1, <2>2
<1>5. CASE k > m.key
  <2>1. r = Nd(m.key, m.val, m.left, f[m.right])
    BY <1>2, <1>5, MeasuredWith
  <2>2. r.left = m.left /\ r.right = f[m.right]
    BY <2>1, NdParts
  <2> QED
    BY <1>1, <1>2, <1>3, <1>5, <2>1, <2>2
<1>6. CASE k = m.key
  <2>1. r = m
    BY <1>2, <1>6, MeasuredWith
  <2> QED
    BY <1>1, <1>2, <1>3, <1>6, <2>1
<1> QED
  BY <1>2, <1>4, <1>5, <1>6

(* tree_insert: what comes of a tree. *)
LEMMA InsertSound ==
  ASSUME NEW n, Sound(n), NEW k \in A!Key, NEW v \in Val
  PROVE  InsertsOrCrashes(n, A!Insert(n, k, v), k, v)
<1>1. PICK f : /\ \A m \in A!Subtrees(n) : f[m] = InsertedAt(k, v, f, m)
               /\ A!Insert(n, k, v) = f[n]
  BY InsertSteps
<1> DEFINE T == {m \in A!Subtrees(n) : ~InsertsOrCrashes(m, f[m], k, v)}
<1>2. T = {}
  <2>1. SUFFICES ASSUME T # {}
                 PROVE  FALSE
    OBVIOUS
  <2>2. PICK m \in T : \A p \in T : A!Height(m) <= A!Height(p)
    <3>1. T \subseteq A!Subtrees(n)
      OBVIOUS
    <3> HIDE DEF T
    <3> QED
      BY <2>1, <3>1, LowestTree
  <2>3. m \in A!Subtrees(n) /\ Sound(m) /\ f[m] = InsertedAt(k, v, f, m)
    BY <1>1, <2>2, SoundSubtrees
  <2>4. SUFFICES InsertsOrCrashes(m, f[m], k, v)
    BY <2>2
  <2>5. CASE m = A!Nil
    <3>1. Inserts(m, f[m], k, v)
      BY <2>3, <2>5, InsertNewNode DEF InsertedAt
    <3> QED
      BY <3>1, SoundNotCrashed DEF InsertsOrCrashes, Inserts
  <2>6. CASE m # A!Nil
    <3>1. m.left \in A!Subtrees(n) /\ m.right \in A!Subtrees(n)
      BY <2>3, <2>6, SoundSubtrees
    <3>2. A!Height(m.left) < A!Height(m) /\ A!Height(m.right) < A!Height(m)
      BY <2>3, <2>6, LowerSubtrees
    <3>3. Sound(m.left) /\ Sound(m.right) /\ m.key \in Int /\ k \in Int
      BY <2>3, <2>6, SoundParts, TreeAssumption DEF A!Key
    <3>4. A!Height(m) \in Nat /\ A!Height(m.left) \in Nat /\ A!Height(m.right) \in Nat
      BY <2>3, <3>3, SoundHeight
    <3>5. m.left \notin T /\ m.right \notin T
      BY <2>2, <3>2, <3>4
    <3>6. /\ InsertsOrCrashes(m.left, f[m.left], k, v)
          /\ InsertsOrCrashes(m.right, f[m.right], k, v)
      BY <3>1, <3>5
    <3>7. Even(m) => Even(m.left) /\ Even(m.right)
      BY <2>3, <2>6, SoundBalance
    <3> HIDE DEF T
    <3>8. CASE k < m.key
      <4>1. f[m] = IF f[m.left] = A!Crashed THEN A!Crashed
                   ELSE A!InsertCases(Nd(m.key, m.val, f[m.left], m.right), k)
        BY <2>3, <2>6, <3>8, InsertedAtNode
      <4>2. CASE f[m.left] = A!Crashed
        BY <3>6, <3>7, <4>1, <4>2 DEF InsertsOrCrashes
      <4>3. CASE f[m.left] # A!Crashed
        <5>1. Inserts(m.left, f[m.left], k, v)
          BY <3>6, <4>3 DEF InsertsOrCrashes
        <5> QED
          BY <2>3, <2>6, <3>8, <4>1, <4>3, <5>1, InsertLeftStep
      <4> QED
        BY <4>2, <4>3
    <3>9. CASE k > m.key
      <4>1. f[m] = IF f[m.right] = A!Crashed THEN A!Crashed
                   ELSE A!InsertCases(Nd(m.key, m.val, m.left, f[m.right]), k)
        BY <2>3, <2>6, <3>9, InsertedAtNode
      <4>2. CASE f[m.right] = A!Crashed
        BY <3>6, <3>7, <4>1, <4>2 DEF InsertsOrCrashes
      <4>3. CASE f[m.right] # A!Crashed
        <5>1. Inserts(m.right, f[m.right], k, v)
          BY <3>6, <4>3 DEF InsertsOrCrashes
        <5> QED
          BY <2>3, <2>6, <3>9, <4>1, <4>3, <5>1, InsertRightStep
      <4> QED
        BY <4>2, <4>3
    <3>10. CASE k = m.key
      <4>1. f[m] = A!InsertCases(m, m.key)
        BY <2>3, <2>6, <3>10, InsertedAtNode
      <4> QED
        BY <2>3, <2>6, <3>10, <4>1, InsertRefusedStep
    <3> QED
      BY <3>3, <3>8, <3>9, <3>10
  <2> QED
    BY <2>5, <2>6
<1> QED
  BY <1>1, <1>2, SoundSubtrees

-----------------------------------------------------------------------------
(* Deletion *)

LEMMA WithNotNil ==
  ASSUME NEW m, Sound(m), m # A!Nil, NEW a
  PROVE  WithLeft(m, a) # A!Nil /\ WithRight(m, a) # A!Nil
<1>1. DOMAIN WithLeft(m, a) = DOMAIN m /\ DOMAIN WithRight(m, a) = DOMAIN m
  BY DEF WithLeft, WithRight
<1>2. DOMAIN Nd(m.key, m.val, m.left, m.right) # {}
  BY DEF Nd
<1>3. m = Nd(m.key, m.val, m.left, m.right)
  BY SoundParts
<1>4. DOMAIN A!Nil = {}
  BY DEF A!Nil
<1> QED
  BY <1>1, <1>2, <1>3, <1>4

LEMMA LeftmostSteps ==
  ASSUME NEW n, A!Height(n) \in Nat
  PROVE  \E f : /\ \A i \in 0..A!Height(n) : f[i] = LeftmostAt(n, f, i)
                /\ A!MinValueNode(n) = f[A!Height(n)]
<1> DEFINE w == [op |-> "leftmost", node |-> n]
<1>1. \E g : g = [i \in 0..A!Height(n) |-> Body(w, g, i)]
  <2>1. w.op \in {"level", "leftmost", "find"}
    OBVIOUS
  <2> HIDE DEF w
  <2> QED
    BY <2>1, IterationExists
<1>2. \E g : g = [i \in 0..A!Height(n) |-> LeftmostAt(n, g, i)]
  <2>1. PICK g : g = [i \in 0..A!Height(n) |-> Body(w, g, i)]
    BY <1>1
  <2>2. \A i \in 0..A!Height(n) : Body(w, g, i) = LeftmostAt(n, g, i)
    BY DEF Body
  <2> HIDE DEF w
  <2>3. [i \in 0..A!Height(n) |-> Body(w, g, i)] = [i \in 0..A!Height(n) |-> LeftmostAt(n, g, i)]
    BY <2>2
  <2> QED
    BY <2>1, <2>3
<1> DEFINE at == CHOOSE at : at = [i \in 0..A!Height(n) |->
              IF i = 0 THEN n ELSE LET m == at[i - 1] IN IF m.left = A!Nil THEN m ELSE m.left]
<1>3. at = [i \in 0..A!Height(n) |-> LeftmostAt(n, at, i)]
  BY <1>2, ZenonT(30) DEF LeftmostAt
<1>4. A!MinValueNode(n) = at[A!Height(n)]
  BY DEF A!MinValueNode
<1> HIDE DEF at
<1>5. \A i \in 0..A!Height(n) : at[i] = LeftmostAt(n, at, i)
  BY <1>3
<1> QED
  BY <1>4, <1>5

(* tree_minValueNode finds a node that has no left child. *)
LEMMA LeftmostIs ==
  ASSUME NEW n, Sound(n), n # A!Nil
  PROVE  /\ A!MinValueNode(n) \in A!Nodes(n)
         /\ A!MinValueNode(n).left = A!Nil
<1> DEFINE N == A!Height(n)
<1>1. N \in Nat /\ A!Height(A!Nil) = 0
  BY SoundHeight, SoundNil
<1>2. PICK f : /\ \A i \in 0..N : f[i] = LeftmostAt(n, f, i)
               /\ A!MinValueNode(n) = f[N]
  BY <1>1, LeftmostSteps
<1>3. n \in A!Nodes(n)
  BY SoundSubtrees DEF A!Nodes
<1>4. \A m \in A!Nodes(n) : /\ m.left # A!Nil => m.left \in A!Nodes(n)
                            /\ A!Height(m.left) \in Nat /\ A!Height(m) \in Nat
                            /\ A!Height(m.left) < A!Height(m)
                            /\ A!Height(m) > 0
  BY SoundSubtrees, SoundParts, LowerSubtrees, SoundHeight DEF A!Nodes
<1> DEFINE Far(i) == /\ f[i] \in A!Nodes(n)
                     /\ f[i].left = A!Nil \/ A!Height(f[i]) <= N - i
           T == {i \in 0..N : ~Far(i)}
<1>5. T = {}
  <2>1. SUFFICES ASSUME T # {}
                 PROVE  FALSE
    OBVIOUS
  <2>2. PICK i \in T : \A j \in T : i <= j
    <3>1. T \subseteq Nat
      OBVIOUS
    <3> HIDE DEF T
    <3> QED
      BY <2>1, <3>1, LeastElement
  <2>3. i \in 0..N /\ ~Far(i) /\ f[i] = LeftmostAt(n, f, i)
    BY <1>2, <2>2
  <2>4. i # 0
    <3>1. ASSUME i = 0
          PROVE  Far(i)
      <4>1. f[i] = n
        BY <2>3, <3>1 DEF LeftmostAt
      <4>2. A!Height(f[i]) <= N - i
        BY <1>1, <3>1, <4>1
      <4> QED
        BY <1>3, <4>1, <4>2
    <3> HIDE DEF Far
    <3> QED
      BY <2>3, <3>1
  <2>5. i - 1 \in 0..N /\ i - 1 \notin T
    BY <1>1, <2>2, <2>3, <2>4
  <2>6. Far(i - 1)
    BY <2>5
  <2>7. PICK p : p = f[i - 1]
    OBVIOUS
  <2>8. f[i] = IF p.left = A!Nil THEN p ELSE p.left
    BY <2>3, <2>4, <2>7 DEF LeftmostAt
  <2>9. p \in A!Nodes(n) /\ (p.left = A!Nil \/ A!Height(p) <= N - (i - 1))
    BY <2>6, <2>7
  <2>10. CASE p.left = A!Nil
    BY <2>3, <2>8, <2>9, <2>10
  <2>11. CASE p.left # A!Nil
    <3>1. A!Height(p.left) <= N - i
      BY <1>1, <1>4, <2>3, <2>9, <2>11
    <3> QED
      BY <1>4, <2>3, <2>8, <2>9, <2>11, <3>1
  <2> QED
    BY <2>10, <2>11
<1>6. f[N] \in A!Nodes(n) /\ (f[N].left = A!Nil \/ A!Height(f[N]) <= N - N)
  BY <1>1, <1>5
<1> HIDE DEF N
<1>7. f[N].left = A!Nil
  BY <1>1, <1>4, <1>6
<1> QED
  BY <1>2, <1>6, <1>7

LEMMA DeleteCasesKeep ==
  ASSUME NEW n, Sound(n), n # A!Nil
  PROVE  LET r == A!DeleteCases(n) IN Sound(r) /\ Pairs(r) = Pairs(n) /\ r # A!Nil
<1> DEFINE r == A!DeleteCases(n)
<1>1. A!Balance(n) \in Int
  BY LeansOnChild
<1>2. CASE A!Balance(n) > 1
  <2>1. n.left # A!Nil /\ Sound(n.left)
    BY <1>1, <1>2, LeansOnChild, SoundParts
  <2>2. A!Balance(n.left) \in Int /\ (A!Balance(n.left) < 0 => n.left.right # A!Nil)
    BY <2>1, LeansOnChild
  <2>3. CASE A!Balance(n.left) >= 0
    <3>1. r = A!RightRotate(n)
      BY <1>1, <1>2, <2>2, <2>3, DeleteCasesAre
    <3> QED
      BY <2>1, <3>1, RightRotated
  <2>4. CASE A!Balance(n.left) < 0
    <3>1. r = LeftRight(n)
      BY <1>1, <1>2, <2>2, <2>4, DeleteCasesAre
    <3> QED
      BY <2>1, <2>2, <2>4, <3>1, LeftRightRotated
  <2> QED
    BY <2>2, <2>3, <2>4
<1>3. CASE A!Balance(n) < -1
  <2>1. n.right # A!Nil /\ Sound(n.right)
    BY <1>1, <1>3, LeansOnChild, SoundParts
  <2>2. A!Balance(n.right) \in Int /\ (A!Balance(n.right) > 0 => n.right.left # A!Nil)
    BY <2>1, LeansOnChild
  <2>3. CASE A!Balance(n.right) <= 0
    <3>1. r = A!LeftRotate(n)
      BY <1>1, <1>3, <2>2, <2>3, DeleteCasesAre
    <3> QED
      BY <2>1, <3>1, LeftRotated
  <2>4. CASE A!Balance(n.right) > 0
    <3>1. r = RightLeft(n)
      BY <1>1, <1>3, <2>2, <2>4, DeleteCasesAre
    <3> QED
      BY <2>1, <2>2, <2>4, <3>1, RightLeftRotated
  <2> QED
    BY <2>2, <2>3, <2>4
<1>4. CASE ~(A!Balance(n) > 1) /\ ~(A!Balance(n) < -1)
  <2>1. r = n
    BY <1>4, DeleteCasesAre
  <2> QED
    BY <2>1
<1> QED
  BY <1>2, <1>3, <1>4

LEMMA DeleteCasesEven ==
  ASSUME NEW n, Sound(n), n # A!Nil, Even(n.left), Even(n.right), A!Balance(n) \in -2..2
  PROVE  LET r == A!DeleteCases(n)
         IN  /\ Even(r)
             /\ A!Balance(n) \in -1..1 => r = n
             /\ A!Balance(n) \notin -1..1 => A!Height(r) \in {A!Height(n) - 1, A!Height(n)}
<1> DEFINE r == A!DeleteCases(n)
<1>1. /\ A!Height(n) = 1 + Taller(A!Height(n.left), A!Height(n.right))
      /\ A!Balance(n) = A!Height(n.left) - A!Height(n.right)
      /\ A!Height(n.left) \in Nat /\ A!Height(n.right) \in Nat
      /\ Even(n) <=> Even(n.left) /\ Even(n.right) /\ A!Balance(n) \in -1..1
  BY SoundBalance
<1>2. CASE A!Balance(n) \in -1..1
  <2>1. r = n
    BY <1>2, DeleteCasesAre
  <2> HIDE DEF r
  <2> QED
    BY <1>1, <1>2, <2>1 DEF r
<1>3. CASE A!Balance(n) = 2
  <2>1. A!Height(n.left) = A!Height(n) - 1
    BY <1>1, <1>3 DEF Taller
  <2>2. n.left # A!Nil /\ Sound(n.left)
    BY <1>3, LeansOnChild, SoundParts
  <2>3. A!Balance(n.left) \in Int
    BY <2>2, LeansOnChild
  <2>4. CASE A!Balance(n.left) >= 0
    <3>1. r = A!RightRotate(n)
      BY <1>3, <2>3, <2>4, DeleteCasesAre
    <3>2. /\ Even(A!RightRotate(n))
          /\ A!Height(A!RightRotate(n))
               = A!Height(n.left) + IF A!Balance(n.left) = 0 THEN 1 ELSE 0
      BY <1>3, <2>4, RightEven
    <3>3. A!Height(A!RightRotate(n)) \in {A!Height(n.left), A!Height(n.left) + 1}
      BY <1>1, <3>2
    <3> HIDE DEF r
    <3>4. A!Height(r) \in {A!Height(n) - 1, A!Height(n)}
      BY <1>1, <2>1, <3>1, <3>3, SoundHeight
    <3> QED
      BY <1>3, <3>1, <3>2, <3>4 DEF r
  <2>5. CASE A!Balance(n.left) < 0
    <3>1. r = LeftRight(n)
      BY <1>3, <2>3, <2>5, DeleteCasesAre
    <3>2. Even(LeftRight(n)) /\ A!Height(LeftRight(n)) = A!Height(n.left)
      BY <1>3, <2>5, LeftRightEven
    <3> HIDE DEF r
    <3> QED
      BY <1>1, <1>3, <2>1, <3>1, <3>2 DEF r
  <2> QED
    BY <2>3, <2>4, <2>5
<1>4. CASE A!Balance(n) = -2
  <2>1. A!Height(n.right) = A!Height(n) - 1
    BY <1>1, <1>4 DEF Taller
  <2>2. n.right # A!Nil /\ Sound(n.right)
    BY <1>4, LeansOnChild, SoundParts
  <2>3. A!Balance(n.right) \in Int
    BY <2>2, LeansOnChild
  <2>4. CASE A!Balance(n.right) <= 0
    <3>1. r = A!LeftRotate(n)
      BY <1>4, <2>3, <2>4, DeleteCasesAre
    <3>2. /\ Even(A!LeftRotate(n))
          /\ A!Height(A!LeftRotate(n))
               = A!Height(n.right) + IF A!Balance(n.right) = 0 THEN 1 ELSE 0
      BY <1>4, <2>4, LeftEven
    <3>3. A!Height(A!LeftRotate(n)) \in {A!Height(n.right), A!Height(n.right) + 1}
      BY <1>1, <3>2
    <3> HIDE DEF r
    <3>4. A!Height(r) \in {A!Height(n) - 1, A!Height(n)}
      BY <1>1, <2>1, <3>1, <3>3, SoundHeight
    <3> QED
      BY <1>4, <3>1, <3>2, <3>4 DEF r
  <2>5. CASE A!Balance(n.right) > 0
    <3>1. r = RightLeft(n)
      BY <1>4, <2>3, <2>5, DeleteCasesAre
    <3>2. Even(RightLeft(n)) /\ A!Height(RightLeft(n)) = A!Height(n.right)
      BY <1>4, <2>5, RightLeftEven
    <3> HIDE DEF r
    <3> QED
      BY <1>1, <1>4, <2>1, <3>1, <3>2 DEF r
  <2> QED
    BY <2>3, <2>4, <2>5
<1> QED
  BY <1>2, <1>3, <1>4

(* r is what m becomes when k is deleted.  It may have lost other keys. *)
Deletes(m, r, k) ==
  /\ Sound(r)
  /\ Pairs(r) \subseteq Pairs(m) /\ k \notin A!KeysOf(r)
  /\ k \notin A!KeysOf(m) => Pairs(r) = Pairs(m)
  /\ Even(m) /\ A!KeysOf(r) = A!KeysOf(m) \ {k} =>
       Even(r) /\ A!Height(r) \in {A!Height(m) - 1, A!Height(m)}

LEMMA PairsAndKeys ==
  ASSUME NEW a, NEW b, Pairs(a) \subseteq Pairs(b)
  PROVE  A!KeysOf(a) \subseteq A!KeysOf(b)
<1>1. A!KeysOf(a) = {p[1] : p \in Pairs(a)} /\ A!KeysOf(b) = {p[1] : p \in Pairs(b)}
  BY KeysAreFirst
<1> QED
  BY <1>1

LEMMA DeleteNil ==
  ASSUME NEW k
  PROVE  Deletes(A!Nil, A!Nil, k)
BY SoundNil DEF Deletes

LEMMA DeleteLeftStep ==
  ASSUME NEW m, Sound(m), m # A!Nil, NEW k \in A!Key, k < m.key, NEW l, Deletes(m.left, l, k)
  PROVE  Deletes(m, A!DeleteCases(Nd(m.key, m.val, l, m.right)), k)
<1> DEFINE n == Nd(m.key, m.val, l, m.right)
           r == A!DeleteCases(n)
<1>1. /\ m.key \in A!Key /\ m.val \in Val /\ Sound(m.left) /\ Sound(m.right)
      /\ Below(m.left, m.key) /\ Above(m.right, m.key)
      /\ m = Nd(m.key, m.val, m.left, m.right)
  BY SoundParts
<1>2. k \in Int /\ m.key \in Int
  BY <1>1, TreeAssumption DEF A!Key
<1>3. Sound(l) /\ Pairs(l) \subseteq Pairs(m.left) /\ A!KeysOf(l) \subseteq A!KeysOf(m.left)
  BY PairsAndKeys DEF Deletes
<1>4. Below(l, m.key)
  BY <1>1, <1>3 DEF Below
<1>5. Sound(n)
  BY <1>1, <1>3, <1>4, SoundNode
<1>6. n # A!Nil /\ n.key = m.key /\ n.left = l /\ n.right = m.right
  BY NdParts
<1>7. /\ Pairs(n) = {<<m.key, m.val>>} \cup Pairs(l) \cup Pairs(m.right)
      /\ A!KeysOf(n) = {m.key} \cup A!KeysOf(l) \cup A!KeysOf(m.right)
  BY <1>1, <1>3, NodeStandsFor
<1>8. /\ Pairs(m) = {<<m.key, m.val>>} \cup Pairs(m.left) \cup Pairs(m.right)
      /\ A!KeysOf(m) = {m.key} \cup A!KeysOf(m.left) \cup A!KeysOf(m.right)
  <2>1. /\ Pairs(Nd(m.key, m.val, m.left, m.right))
             = {<<m.key, m.val>>} \cup Pairs(m.left) \cup Pairs(m.right)
        /\ A!KeysOf(Nd(m.key, m.val, m.left, m.right))
             = {m.key} \cup A!KeysOf(m.left) \cup A!KeysOf(m.right)
    BY <1>1, NodeStandsFor
  <2> QED
    BY <1>1, <2>1
<1> HIDE DEF n
<1>9. Sound(r) /\ Pairs(r) = Pairs(n) /\ A!KeysOf(r) = A!KeysOf(n)
  BY <1>5, <1>6, DeleteCasesKeep, SamePairs
<1>10. k \notin A!KeysOf(m.right) /\ k # m.key
  BY <1>1, <1>2 DEF Above
<1>11. Pairs(r) \subseteq Pairs(m) /\ k \notin A!KeysOf(r)
  BY <1>3, <1>7, <1>8, <1>9, <1>10 DEF Deletes
<1>12. k \notin A!KeysOf(m) => Pairs(r) = Pairs(m)
  BY <1>7, <1>8, <1>9 DEF Deletes
<1>13. ASSUME Even(m), A!KeysOf(r) = A!KeysOf(m) \ {k}
       PROVE  Even(r) /\ A!Height(r) \in {A!Height(m) - 1, A!Height(m)}
  <2>1. A!KeysOf(l) = A!KeysOf(m.left) \ {k}
    <3>1. ASSUME NEW i \in A!KeysOf(m.left), i # k
          PROVE  i \in A!KeysOf(l)
      <4>1. i \in A!KeysOf(n)
        BY <1>8, <1>9, <1>13, <3>1
      <4>2. i < m.key /\ i \in Int
        BY <1>1, <3>1, SoundKeys, TreeAssumption DEF Below
      <4>3. i \notin A!KeysOf(m.right) /\ i # m.key
        BY <1>1, <1>2, <4>2 DEF Above
      <4> QED
        BY <1>7, <4>1, <4>3
    <3> QED
      BY <1>3, <3>1 DEF Deletes
  <2>2. /\ A!Height(m) = 1 + Taller(A!Height(m.left), A!Height(m.right))
        /\ A!Balance(m) = A!Height(m.left) - A!Height(m.right)
        /\ A!Height(m.left) \in Nat /\ A!Height(m.right) \in Nat
        /\ Even(m.left) /\ Even(m.right) /\ A!Balance(m) \in -1..1
    BY <1>13, SoundBalance
  <2>3. Even(l) /\ A!Height(l) \in {A!Height(m.left) - 1, A!Height(m.left)}
    BY <2>1, <2>2 DEF Deletes
  <2>4. /\ A!Height(n) = 1 + Taller(A!Height(l), A!Height(m.right))
        /\ A!Balance(n) = A!Height(l) - A!Height(m.right)
    BY <1>5, <1>6, SoundBalance
  <2>5. A!Balance(n) \in -2..1
    BY <2>2, <2>3, <2>4
  <2>6. /\ Even(r)
        /\ A!Balance(n) \in -1..1 => r = n
        /\ A!Balance(n) \notin -1..1 => A!Height(r) \in {A!Height(n) - 1, A!Height(n)}
    BY <1>5, <1>6, <2>2, <2>3, <2>5, DeleteCasesEven
  <2> HIDE DEF r
  <2>7. CASE A!Balance(n) = -2
    <3>1. A!Height(n) = A!Height(m)
      BY <2>2, <2>3, <2>4, <2>7 DEF Taller
    <3> QED
      BY <2>6, <2>7, <3>1
  <2>8. CASE A!Balance(n) \in -1..1
    <3>1. A!Height(n) \in {A!Height(m) - 1, A!Height(m)}
      BY <2>2, <2>3, <2>4 DEF Taller
    <3> QED
      BY <2>6, <2>8, <3>1
  <2> QED
    BY <2>5, <2>7, <2>8
<1> HIDE DEF r
<1>14. Deletes(m, r, k)
  BY <1>9, <1>11, <1>12, <1>13 DEF Deletes
<1> QED
  BY <1>14 DEF r, n

LEMMA DeleteRightStep ==
  ASSUME NEW m, Sound(m), m # A!Nil, NEW k \in A!Key, k > m.key, NEW l, Deletes(m.right, l, k)
  PROVE  Deletes(m, A!DeleteCases(Nd(m.key, m.val, m.left, l)), k)
<1> DEFINE n == Nd(m.key, m.val, m.left, l)
           r == A!DeleteCases(n)
<1>1. /\ m.key \in A!Key /\ m.val \in Val /\ Sound(m.left) /\ Sound(m.right)
      /\ Below(m.left, m.key) /\ Above(m.right, m.key)
      /\ m = Nd(m.key, m.val, m.left, m.right)
  BY SoundParts
<1>2. k \in Int /\ m.key \in Int
  BY <1>1, TreeAssumption DEF A!Key
<1>3. Sound(l) /\ Pairs(l) \subseteq Pairs(m.right) /\ A!KeysOf(l) \subseteq A!KeysOf(m.right)
  BY PairsAndKeys DEF Deletes
<1>4. Above(l, m.key)
  BY <1>1, <1>3 DEF Above
<1>5. Sound(n)
  BY <1>1, <1>3, <1>4, SoundNode
<1>6. n # A!Nil /\ n.key = m.key /\ n.left = m.left /\ n.right = l
  BY NdParts
<1>7. /\ Pairs(n) = {<<m.key, m.val>>} \cup Pairs(m.left) \cup Pairs(l)
      /\ A!KeysOf(n) = {m.key} \cup A!KeysOf(m.left) \cup A!KeysOf(l)
  BY <1>1, <1>3, NodeStandsFor
<1>8. /\ Pairs(m) = {<<m.key, m.val>>} \cup Pairs(m.left) \cup Pairs(m.right)
      /\ A!KeysOf(m) = {m.key} \cup A!KeysOf(m.left) \cup A!KeysOf(m.right)
  <2>1. /\ Pairs(Nd(m.key, m.val, m.left, m.right))
             = {<<m.key, m.val>>} \cup Pairs(m.left) \cup Pairs(m.right)
        /\ A!KeysOf(Nd(m.key, m.val, m.left, m.right))
             = {m.key} \cup A!KeysOf(m.left) \cup A!KeysOf(m.right)
    BY <1>1, NodeStandsFor
  <2> QED
    BY <1>1, <2>1
<1> HIDE DEF n
<1>9. Sound(r) /\ Pairs(r) = Pairs(n) /\ A!KeysOf(r) = A!KeysOf(n)
  BY <1>5, <1>6, DeleteCasesKeep, SamePairs
<1>10. k \notin A!KeysOf(m.left) /\ k # m.key
  BY <1>1, <1>2 DEF Below
<1>11. Pairs(r) \subseteq Pairs(m) /\ k \notin A!KeysOf(r)
  BY <1>3, <1>7, <1>8, <1>9, <1>10 DEF Deletes
<1>12. k \notin A!KeysOf(m) => Pairs(r) = Pairs(m)
  BY <1>7, <1>8, <1>9 DEF Deletes
<1>13. ASSUME Even(m), A!KeysOf(r) = A!KeysOf(m) \ {k}
       PROVE  Even(r) /\ A!Height(r) \in {A!Height(m) - 1, A!Height(m)}
  <2>1. A!KeysOf(l) = A!KeysOf(m.right) \ {k}
    <3>1. ASSUME NEW i \in A!KeysOf(m.right), i # k
          PROVE  i \in A!KeysOf(l)
      <4>1. i \in A!KeysOf(n)
        BY <1>8, <1>9, <1>13, <3>1
      <4>2. i > m.key /\ i \in Int
        BY <1>1, <3>1, SoundKeys, TreeAssumption DEF Above
      <4>3. i \notin A!KeysOf(m.left) /\ i # m.key
        BY <1>1, <1>2, <4>2 DEF Below
      <4> QED
        BY <1>7, <4>1, <4>3
    <3> QED
      BY <1>3, <3>1 DEF Deletes
  <2>2. /\ A!Height(m) = 1 + Taller(A!Height(m.left), A!Height(m.right))
        /\ A!Balance(m) = A!Height(m.left) - A!Height(m.right)
        /\ A!Height(m.left) \in Nat /\ A!Height(m.right) \in Nat
        /\ Even(m.left) /\ Even(m.right) /\ A!Balance(m) \in -1..1
    BY <1>13, SoundBalance
  <2>3. Even(l) /\ A!Height(l) \in {A!Height(m.right) - 1, A!Height(m.right)}
    BY <2>1, <2>2 DEF Deletes
  <2>4. /\ A!Height(n) = 1 + Taller(A!Height(m.left), A!Height(l))
        /\ A!Balance(n) = A!Height(m.left) - A!Height(l)
    BY <1>5, <1>6, SoundBalance
  <2>5. A!Balance(n) \in -1..2
    BY <2>2, <2>3, <2>4
  <2>6. /\ Even(r)
        /\ A!Balance(n) \in -1..1 => r = n
        /\ A!Balance(n) \notin -1..1 => A!Height(r) \in {A!Height(n) - 1, A!Height(n)}
    BY <1>5, <1>6, <2>2, <2>3, <2>5, DeleteCasesEven
  <2> HIDE DEF r
  <2>7. CASE A!Balance(n) = 2
    <3>1. A!Height(n) = A!Height(m)
      BY <2>2, <2>3, <2>4, <2>7 DEF Taller
    <3> QED
      BY <2>6, <2>7, <3>1
  <2>8. CASE A!Balance(n) \in -1..1
    <3>1. A!Height(n) \in {A!Height(m) - 1, A!Height(m)}
      BY <2>2, <2>3, <2>4 DEF Taller
    <3> QED
      BY <2>6, <2>8, <3>1
  <2> QED
    BY <2>5, <2>7, <2>8
<1> HIDE DEF r
<1>14. Deletes(m, r, k)
  BY <1>9, <1>11, <1>12, <1>13 DEF Deletes
<1> QED
  BY <1>14 DEF r, n

(* A node with at most one child gives way to it. *)
LEMMA DeleteUnlinks ==
  ASSUME NEW m, Sound(m), m # A!Nil, NEW c,
         (m.left = A!Nil /\ c = m.right) \/ (m.right = A!Nil /\ c = m.left)
  PROVE  Deletes(m, IF c = A!Nil THEN A!Nil ELSE A!DeleteCases(c), m.key)
<1> DEFINE k == m.key
           r == IF c = A!Nil THEN A!Nil ELSE A!DeleteCases(c)
<1>1. /\ k \in A!Key /\ m.val \in Val /\ Sound(m.left) /\ Sound(m.right)
      /\ Below(m.left, k) /\ Above(m.right, k)
      /\ m = Nd(k, m.val, m.left, m.right)
  BY SoundParts
<1>2. k \in Int
  BY <1>1, TreeAssumption DEF A!Key
<1>3. /\ Pairs(m) = {<<k, m.val>>} \cup Pairs(m.left) \cup Pairs(m.right)
      /\ A!KeysOf(m) = {k} \cup A!KeysOf(m.left) \cup A!KeysOf(m.right)
  <2>1. /\ Pairs(Nd(k, m.val, m.left, m.right))
             = {<<k, m.val>>} \cup Pairs(m.left) \cup Pairs(m.right)
        /\ A!KeysOf(Nd(k, m.val, m.left, m.right))
             = {k} \cup A!KeysOf(m.left) \cup A!KeysOf(m.right)
    BY <1>1, NodeStandsFor
  <2> QED
    BY <1>1, <2>1
<1> HIDE DEF k
<1>4. /\ Sound(c) /\ Pairs(c) \subseteq Pairs(m) /\ k \notin A!KeysOf(c) /\ k \in A!KeysOf(m)
  BY <1>1, <1>2, <1>3 DEF Below, Above
<1>5. Sound(r) /\ Pairs(r) = Pairs(c) /\ A!KeysOf(r) = A!KeysOf(c)
  BY <1>4, DeleteCasesKeep, SamePairs
<1>6. ASSUME Even(m)
      PROVE  Even(r) /\ A!Height(r) = A!Height(m) - 1
  <2>1. /\ A!Height(m) = 1 + Taller(A!Height(m.left), A!Height(m.right))
        /\ A!Height(m.left) \in Nat /\ A!Height(m.right) \in Nat
        /\ Even(m.left) /\ Even(m.right)
    BY <1>6, SoundBalance
  <2>2. Even(c)
    BY <2>1
  <2>3. A!Height(A!Nil) = 0
    BY DEF A!Height
  <2>4. A!Height(c) = A!Height(m) - 1 /\ A!Height(m) \in Nat
    BY <2>1, <2>3 DEF Taller
  <2>5. r = c
    <3>1. CASE c = A!Nil
      BY <3>1
    <3>2. CASE c # A!Nil
      <4>1. A!Balance(c) \in -1..1
        BY <1>4, <2>2, <3>2, SoundBalance
      <4> QED
        BY <3>2, <4>1, DeleteCasesAre
    <3> QED
      BY <3>1, <3>2
  <2> QED
    BY <2>2, <2>4, <2>5
<1> HIDE DEF r
<1>7. Deletes(m, r, k)
  BY <1>4, <1>5, <1>6 DEF Deletes
<1> QED
  BY <1>7 DEF r, k

(* With two children the successor's branch is all that stays. *)
LEMMA DeleteLosesStep ==
  ASSUME NEW m, Sound(m), m # A!Nil, m.left # A!Nil, m.right # A!Nil,
         NEW s \in A!Nodes(m.right), Sound(s), s.left = A!Nil,
         NEW q, Deletes(s.right, q, s.key)
  PROVE  Deletes(m, A!DeleteCases(Nd(s.key, s.val, s.left, q)), m.key)
<1> DEFINE k == m.key
           n == Nd(s.key, s.val, s.left, q)
           r == A!DeleteCases(n)
<1>1. /\ k \in A!Key /\ m.val \in Val /\ Sound(m.left) /\ Sound(m.right)
      /\ Below(m.left, k) /\ Above(m.right, k)
      /\ m = Nd(k, m.val, m.left, m.right)
  BY SoundParts
<1>2. k \in Int
  BY <1>1, TreeAssumption DEF A!Key
<1>3. /\ Pairs(m) = {<<k, m.val>>} \cup Pairs(m.left) \cup Pairs(m.right)
      /\ A!KeysOf(m) = {k} \cup A!KeysOf(m.left) \cup A!KeysOf(m.right)
  <2>1. /\ Pairs(Nd(k, m.val, m.left, m.right))
             = {<<k, m.val>>} \cup Pairs(m.left) \cup Pairs(m.right)
        /\ A!KeysOf(Nd(k, m.val, m.left, m.right))
             = {k} \cup A!KeysOf(m.left) \cup A!KeysOf(m.right)
    BY <1>1, NodeStandsFor
  <2> QED
    BY <1>1, <2>1
<1>4. s # A!Nil
  BY DEF A!Nodes
<1>5. /\ s.key \in A!Key /\ s.val \in Val /\ Sound(s.left) /\ Sound(s.right)
      /\ Below(s.left, s.key) /\ Above(s.right, s.key)
      /\ s = Nd(s.key, s.val, s.left, s.right)
  BY <1>4, SoundParts
<1>6. Sound(q) /\ Pairs(q) \subseteq Pairs(s.right) /\ A!KeysOf(q) \subseteq A!KeysOf(s.right)
  BY PairsAndKeys DEF Deletes
<1>7. Sound(n)
  <2>1. Above(q, s.key)
    BY <1>5, <1>6 DEF Above
  <2> QED
    BY <1>5, <1>6, <2>1, SoundNode
<1>8. Pairs(n) \subseteq Pairs(m.right)
  <2>1. Pairs(n) = {<<s.key, s.val>>} \cup Pairs(s.left) \cup Pairs(q)
    BY <1>5, <1>6, NodeStandsFor
  <2>2. Pairs(Nd(s.key, s.val, s.left, s.right))
          = {<<s.key, s.val>>} \cup Pairs(s.left) \cup Pairs(s.right)
    BY <1>5, NodeStandsFor
  <2>3. Pairs(n) \subseteq Pairs(s)
    BY <1>5, <1>6, <2>1, <2>2
  <2>4. A!Nodes(s) \subseteq A!Nodes(m.right)
    <3>1. Proper(m.right) /\ s \in A!Subtrees(m.right)
      BY <1>1 DEF Sound, A!Nodes
    <3> QED
      BY <3>1, ProperSubtree DEF A!Nodes
  <2>5. Pairs(s) \subseteq Pairs(m.right)
    BY <2>4 DEF Pairs
  <2> QED
    BY <2>3, <2>5
<1>9. n # A!Nil
  BY NdParts
<1> HIDE DEF k, n
<1>10. Sound(r) /\ Pairs(r) \subseteq Pairs(m.right) /\ A!KeysOf(r) \subseteq A!KeysOf(m.right)
  BY <1>7, <1>8, <1>9, DeleteCasesKeep, PairsAndKeys
<1>11. k \notin A!KeysOf(m.right) /\ k \in A!KeysOf(m) /\ Pairs(r) \subseteq Pairs(m)
  BY <1>1, <1>2, <1>3, <1>10 DEF Above
<1>12. A!KeysOf(r) # A!KeysOf(m) \ {k}
  <2>1. m.left.key \in A!KeysOf(m.left)
    <3>1. m.left \in A!Nodes(m.left)
      BY <1>1, SoundSubtrees DEF A!Nodes
    <3> QED
      BY <3>1 DEF A!KeysOf
  <2>2. m.left.key < k /\ m.left.key \in Int
    BY <1>1, <2>1, SoundKeys, TreeAssumption DEF Below
  <2>3. m.left.key \notin A!KeysOf(m.right) /\ m.left.key # k
    BY <1>1, <1>2, <2>2 DEF Above
  <2> QED
    BY <1>3, <1>10, <2>1, <2>3
<1> HIDE DEF r
<1>13. Deletes(m, r, k)
  BY <1>10, <1>11, <1>12 DEF Deletes
<1> QED
  BY <1>13 DEF r, n, k

(* tree_delete_internal, step by step down the tree. *)
LEMMA DeleteSteps ==
  ASSUME NEW n, Sound(n), NEW k \in A!Key
  PROVE  \E f : /\ \A m \in A!Subtrees(n) : f[m] = DeletedAt(f, m)
                /\ A!Delete(n, k) = f[n][k]
<1> DEFINE D == A!Subtrees(n)
           w == [op |-> "delete"]
           mu == [m \in D |-> A!Height(m)]
<1>1. \A g, h : \A x \in D :
        (\A y \in D : mu[y] < mu[x] => g[y] = h[y]) => Body(w, g, x) = Body(w, h, x)
  <2>1. SUFFICES ASSUME NEW g, NEW h, NEW x \in D, \A y \in D : mu[y] < mu[x] => g[y] = h[y]
                 PROVE  DeletedAt(g, x) = DeletedAt(h, x)
    BY DEF Body
  <2>2. CASE x = A!Nil
    BY <2>2 DEF DeletedAt
  <2>3. CASE x # A!Nil
    <3>1. x.left \in D /\ x.right \in D /\ Sound(x)
      BY <2>3, SoundSubtrees
    <3>2. mu[x.left] < mu[x] /\ mu[x.right] < mu[x]
      BY <2>3, <3>1, LowerSubtrees
    <3>3. g[x.left] = h[x.left] /\ g[x.right] = h[x.right]
      BY <2>1, <3>1, <3>2
    <3>4. CASE x.right = A!Nil
      BY <2>3, <3>3, <3>4 DEF DeletedAt
    <3>5. CASE x.right # A!Nil
      <4> DEFINE s == A!MinValueNode(x.right)
      <4>1. Sound(x.right) /\ s \in A!Nodes(x.right)
        BY <2>3, <3>1, <3>5, SoundParts, LeftmostIs
      <4> HIDE DEF s
      <4>2. s \in A!Subtrees(x.right) /\ s # A!Nil
        BY <4>1 DEF A!Nodes
      <4>3. Sound(s) /\ A!Height(s) \in 0..A!Height(x.right)
        BY <4>1, <4>2, SoundSubtrees
      <4>4. s \in D
        <5>1. Proper(n)
          BY DEF Sound
        <5> QED
          BY <3>1, <4>2, <5>1, ProperSubtree
      <4>5. s.right \in D /\ Sound(s.right)
        BY <4>2, <4>3, <4>4, SoundSubtrees
      <4>6. mu[s.right] < mu[x]
        <5>1. A!Height(s.right) < A!Height(s) /\ A!Height(x.right) < A!Height(x)
          BY <2>3, <3>1, <4>2, <4>3, LowerSubtrees
        <5>2. A!Height(s.right) \in Nat /\ A!Height(x) \in Nat /\ A!Height(x.right) \in Nat
          BY <3>1, <4>1, <4>5, SoundHeight
        <5> QED
          BY <3>1, <4>3, <4>5, <5>1, <5>2
      <4>7. g[s.right] = h[s.right]
        BY <2>1, <4>5, <4>6
      <4> QED
        BY <2>3, <3>3, <3>5, <4>7 DEF DeletedAt, s
    <3> QED
      BY <3>4, <3>5
  <2> QED
    BY <2>2, <2>3
<1>2. \A x \in D : mu[x] \in 0..A!Height(n)
  BY SoundSubtrees
<1>3. A!Height(n) \in Nat
  BY SoundHeight
<1>4. \E g : g = [x \in D |-> Body(w, g, x)]
  <2> HIDE DEF D, w, mu
  <2> QED
    BY <1>1, <1>2, <1>3, RecursionExists, ZenonT(30)
<1>5. \E g : g = [x \in D |-> DeletedAt(g, x)]
  BY <1>4 DEF Body
<1> DEFINE del == CHOOSE del : del = [m \in A!Subtrees(n) |-> [j \in A!Key |->
        LET succ == A!MinValueNode(m.right)
            r == IF m = A!Nil THEN A!Nil
                 ELSE CASE j < m.key -> [m EXCEPT !.left = del[m.left][j]]
                        [] j > m.key -> [m EXCEPT !.right = del[m.right][j]]
                        [] OTHER     ->
                             IF m.left = A!Nil THEN m.right
                             ELSE IF m.right = A!Nil THEN m.left
                             ELSE [succ EXCEPT !.right = del[succ.right][succ.key]]
        IN  IF r = A!Nil THEN A!Nil ELSE A!DeleteCases(A!Measured(r))]]
<1>6. del = [m \in D |-> DeletedAt(del, m)]
  BY <1>5, ZenonT(30) DEF DeletedAt
<1>7. A!Delete(n, k) = del[n][k]
  BY DEF A!Delete
<1> HIDE DEF del
<1>8. \A m \in D : del[m] = DeletedAt(del, m)
  BY <1>6
<1> QED
  BY <1>7, <1>8

LEMMA DeletedAtNode ==
  ASSUME NEW m, Sound(m), m # A!Nil, NEW k \in A!Key, NEW f
  PROVE  /\ k < m.key => DeletedAt(f, m)[k] =
              A!DeleteCases(Nd(m.key, m.val, f[m.left][k], m.right))
         /\ k > m.key => DeletedAt(f, m)[k] =
              A!DeleteCases(Nd(m.key, m.val, m.left, f[m.right][k]))
         /\ k = m.key /\ m.left = A!Nil => DeletedAt(f, m)[k] =
              IF m.right = A!Nil THEN A!Nil ELSE A!DeleteCases(m.right)
         /\ k = m.key /\ m.left # A!Nil /\ m.right = A!Nil => DeletedAt(f, m)[k] =
              IF m.left = A!Nil THEN A!Nil ELSE A!DeleteCases(m.left)
         /\ k = m.key /\ m.left # A!Nil /\ m.right # A!Nil => DeletedAt(f, m)[k] =
              LET s == A!MinValueNode(m.right)
              IN  A!DeleteCases(Nd(s.key, s.val, s.left, f[s.right][s.key]))
<1> DEFINE s == A!MinValueNode(m.right)
           r == CASE k < m.key -> WithLeft(m, f[m.left][k])
                  [] k > m.key -> WithRight(m, f[m.right][k])
                  [] OTHER     ->
                       IF m.left = A!Nil THEN m.right
                       ELSE IF m.right = A!Nil THEN m.left
                       ELSE WithRight(s, f[s.right][s.key])
<1>1. DeletedAt(f, m)[k] = IF r = A!Nil THEN A!Nil ELSE A!DeleteCases(A!Measured(r))
  BY DEF DeletedAt, WithLeft, WithRight
<1>2. k \in Int /\ m.key \in Int /\ Sound(m.left) /\ Sound(m.right)
  BY SoundParts, TreeAssumption DEF A!Key
<1>3. ASSUME k < m.key
      PROVE  DeletedAt(f, m)[k] = A!DeleteCases(Nd(m.key, m.val, f[m.left][k], m.right))
  <2>1. r = WithLeft(m, f[m.left][k])
    BY <1>2, <1>3
  <2> HIDE DEF r
  <2> QED
    BY <1>1, <2>1, MeasuredWith, WithNotNil
<1>4. ASSUME k > m.key
      PROVE  DeletedAt(f, m)[k] = A!DeleteCases(Nd(m.key, m.val, m.left, f[m.right][k]))
  <2>1. r = WithRight(m, f[m.right][k])
    BY <1>2, <1>4
  <2> HIDE DEF r
  <2> QED
    BY <1>1, <2>1, MeasuredWith, WithNotNil
<1>5. ASSUME k = m.key, m.left = A!Nil
      PROVE  DeletedAt(f, m)[k] = IF m.right = A!Nil THEN A!Nil ELSE A!DeleteCases(m.right)
  <2>1. r = m.right
    BY <1>2, <1>5
  <2> HIDE DEF r
  <2> QED
    BY <1>1, <1>2, <2>1, MeasuredWith
<1>6. ASSUME k = m.key, m.left # A!Nil, m.right = A!Nil
      PROVE  DeletedAt(f, m)[k] = IF m.left = A!Nil THEN A!Nil ELSE A!DeleteCases(m.left)
  <2>1. r = m.left
    BY <1>2, <1>6
  <2> HIDE DEF r
  <2> QED
    BY <1>1, <1>2, <2>1, MeasuredWith
<1>7. ASSUME k = m.key, m.left # A!Nil, m.right # A!Nil
      PROVE  DeletedAt(f, m)[k] = A!DeleteCases(Nd(s.key, s.val, s.left, f[s.right][s.key]))
  <2>1. r = WithRight(s, f[s.right][s.key])
    BY <1>2, <1>7
  <2>2. s \in A!Subtrees(m.right) /\ s # A!Nil
    BY <1>2, <1>7, LeftmostIs DEF A!Nodes
  <2> HIDE DEF r, s
  <2>3. Sound(s)
    BY <1>2, <2>2, SoundSubtrees
  <2> QED
    BY <1>1, <2>1, <2>2, <2>3, MeasuredWith, WithNotNil
<1> HIDE DEF r
<1> QED
  BY <1>3, <1>4, <1>5, <1>6, <1>7

(* tree_delete: what comes of a tree. *)
LEMMA DeletesKey ==
  ASSUME NEW n, Sound(n), NEW k \in A!Key
  PROVE  Deletes(n, A!Delete(n, k), k)
<1>1. PICK f : /\ \A m \in A!Subtrees(n) : f[m] = DeletedAt(f, m)
               /\ A!Delete(n, k) = f[n][k]
  BY DeleteSteps
<1> DEFINE T == {m \in A!Subtrees(n) : ~\A j \in A!Key : Deletes(m, f[m][j], j)}
<1>2. T = {}
  <2>1. SUFFICES ASSUME T # {}
                 PROVE  FALSE
    OBVIOUS
  <2>2. PICK m \in T : \A p \in T : A!Height(m) <= A!Height(p)
    <3>1. T \subseteq A!Subtrees(n)
      OBVIOUS
    <3> HIDE DEF T
    <3> QED
      BY <2>1, <3>1, LowestTree
  <2>3. m \in A!Subtrees(n) /\ Sound(m) /\ f[m] = DeletedAt(f, m)
    BY <1>1, <2>2, SoundSubtrees
  <2>4. SUFFICES ASSUME NEW j \in A!Key
                 PROVE  Deletes(m, f[m][j], j)
    BY <2>2
  <2>5. CASE m = A!Nil
    <3>1. f[m][j] = A!Nil
      BY <2>3, <2>5 DEF DeletedAt
    <3> QED
      BY <2>5, <3>1, DeleteNil
  <2>6. CASE m # A!Nil
    <3>1. m.left \in A!Subtrees(n) /\ m.right \in A!Subtrees(n)
      BY <2>3, <2>6, SoundSubtrees
    <3>2. A!Height(m.left) < A!Height(m) /\ A!Height(m.right) < A!Height(m)
      BY <2>3, <2>6, LowerSubtrees
    <3>3. Sound(m.left) /\ Sound(m.right) /\ m.key \in Int /\ j \in Int
      BY <2>3, <2>6, SoundParts, TreeAssumption DEF A!Key
    <3>4. A!Height(m) \in Nat /\ A!Height(m.left) \in Nat /\ A!Height(m.right) \in Nat
      BY <2>3, <3>3, SoundHeight
    <3>5. \A p \in A!Subtrees(n) :
            A!Height(p) < A!Height(m) => \A i \in A!Key : Deletes(p, f[p][i], i)
      <4>1. SUFFICES ASSUME NEW p \in A!Subtrees(n), A!Height(p) < A!Height(m)
                     PROVE  p \notin T
        OBVIOUS
      <4>2. A!Height(p) \in Nat
        BY SoundSubtrees, SoundHeight
      <4> HIDE DEF T
      <4> QED
        BY <2>2, <3>4, <4>1, <4>2
    <3> HIDE DEF T
    <3>6. CASE j < m.key
      <4>1. Deletes(m.left, f[m.left][j], j)
        BY <3>1, <3>2, <3>5
      <4>2. f[m][j] = A!DeleteCases(Nd(m.key, m.val, f[m.left][j], m.right))
        BY <2>3, <2>6, <3>6, DeletedAtNode
      <4> QED
        BY <2>3, <2>6, <3>6, <4>1, <4>2, DeleteLeftStep
    <3>7. CASE j > m.key
      <4>1. Deletes(m.right, f[m.right][j], j)
        BY <3>1, <3>2, <3>5
      <4>2. f[m][j] = A!DeleteCases(Nd(m.key, m.val, m.left, f[m.right][j]))
        BY <2>3, <2>6, <3>7, DeletedAtNode
      <4> QED
        BY <2>3, <2>6, <3>7, <4>1, <4>2, DeleteRightStep
    <3>8. CASE j = m.key /\ m.left = A!Nil
      <4>1. f[m][j] = IF m.right = A!Nil THEN A!Nil ELSE A!DeleteCases(m.right)
        BY <2>3, <2>6, <3>8, DeletedAtNode
      <4>2. Deletes(m, IF m.right = A!Nil THEN A!Nil ELSE A!DeleteCases(m.right), m.key)
        <5>1. PICK c : c = m.right
          OBVIOUS
        <5>2. (m.left = A!Nil /\ c = m.right) \/ (m.right = A!Nil /\ c = m.left)
          BY <3>8, <5>1
        <5>3. Deletes(m, IF c = A!Nil THEN A!Nil ELSE A!DeleteCases(c), m.key)
          BY <2>3, <2>6, <5>2, DeleteUnlinks
        <5> QED
          BY <5>1, <5>3
      <4> QED
        BY <3>8, <4>1, <4>2
    <3>9. CASE j = m.key /\ m.left # A!Nil /\ m.right = A!Nil
      <4>1. f[m][j] = IF m.left = A!Nil THEN A!Nil ELSE A!DeleteCases(m.left)
        BY <2>3, <2>6, <3>9, DeletedAtNode
      <4>2. Deletes(m, IF m.left = A!Nil THEN A!Nil ELSE A!DeleteCases(m.left), m.key)
        <5>1. PICK c : c = m.left
          OBVIOUS
        <5>2. (m.left = A!Nil /\ c = m.right) \/ (m.right = A!Nil /\ c = m.left)
          BY <3>9, <5>1
        <5>3. Deletes(m, IF c = A!Nil THEN A!Nil ELSE A!DeleteCases(c), m.key)
          BY <2>3, <2>6, <5>2, DeleteUnlinks
        <5> QED
          BY <5>1, <5>3
      <4> QED
        BY <3>9, <4>1, <4>2
    <3>10. CASE j = m.key /\ m.left # A!Nil /\ m.right # A!Nil
      <4> DEFINE s == A!MinValueNode(m.right)
      <4>1. s \in A!Nodes(m.right) /\ s.left = A!Nil
        BY <3>3, <3>10, LeftmostIs
      <4>2. f[m][j] = A!DeleteCases(Nd(s.key, s.val, s.left, f[s.right][s.key]))
        BY <2>3, <2>6, <3>10, DeletedAtNode
      <4> HIDE DEF s
      <4>3. s \in A!Subtrees(m.right) /\ s # A!Nil
        BY <4>1 DEF A!Nodes
      <4>4. Sound(s) /\ A!Height(s) \in 0..A!Height(m.right)
        BY <3>3, <4>3, SoundSubtrees
      <4>5. s \in A!Subtrees(n)
        <5>1. Proper(n)
          BY DEF Sound
        <5> QED
          BY <3>1, <4>3, <5>1, ProperSubtree
      <4>6. s.right \in A!Subtrees(n) /\ s.key \in A!Key /\ Sound(s.right)
        BY <4>3, <4>4, <4>5, SoundSubtrees, SoundParts
      <4>7. A!Height(s.right) < A!Height(m)
        <5>1. A!Height(s.right) < A!Height(s) /\ A!Height(s.right) \in Nat
          BY <4>3, <4>4, <4>6, LowerSubtrees, SoundHeight
        <5> QED
          BY <3>2, <3>4, <4>4, <5>1
      <4>8. Deletes(s.right, f[s.right][s.key], s.key)
        BY <3>5, <4>6, <4>7
      <4> QED
        BY <2>3, <2>6, <3>10, <4>1, <4>2, <4>4, <4>8, DeleteLosesStep
    <3> QED
      BY <3>3, <3>6, <3>7, <3>8, <3>9, <3>10
  <2> QED
    BY <2>5, <2>6
<1> QED
  BY <1>1, <1>2, SoundSubtrees

-----------------------------------------------------------------------------
(* Search *)

LEMMA FoundSteps ==
  ASSUME NEW n, A!Height(n) \in Nat, NEW k
  PROVE  \E f : /\ \A i \in 0..A!Height(n) : f[i] = FoundAt(n, k, f, i)
                /\ A!Find(n, k) = f[A!Height(n)]
<1> DEFINE w == [op |-> "find", node |-> n, key |-> k]
<1>1. \E g : g = [i \in 0..A!Height(n) |-> Body(w, g, i)]
  <2>1. w.op \in {"level", "leftmost", "find"}
    OBVIOUS
  <2> HIDE DEF w
  <2> QED
    BY <2>1, IterationExists
<1>2. \E g : g = [i \in 0..A!Height(n) |-> FoundAt(n, k, g, i)]
  <2>1. PICK g : g = [i \in 0..A!Height(n) |-> Body(w, g, i)]
    BY <1>1
  <2>2. \A i \in 0..A!Height(n) : Body(w, g, i) = FoundAt(n, k, g, i)
    BY DEF Body
  <2> HIDE DEF w
  <2>3. [i \in 0..A!Height(n) |-> Body(w, g, i)] = [i \in 0..A!Height(n) |-> FoundAt(n, k, g, i)]
    BY <2>2
  <2> QED
    BY <2>1, <2>3
<1> DEFINE at == CHOOSE at : at = [i \in 0..A!Height(n) |->
              IF i = 0 THEN n
              ELSE LET m == at[i - 1] IN
                   IF m = A!Nil THEN A!Nil
                   ELSE CASE k < m.key -> m.left
                          [] k > m.key -> m.right
                          [] OTHER     -> m]
<1>3. at = [i \in 0..A!Height(n) |-> FoundAt(n, k, at, i)]
  BY <1>2, ZenonT(30) DEF FoundAt
<1>4. A!Find(n, k) = at[A!Height(n)]
  BY DEF A!Find
<1> HIDE DEF at
<1>5. \A i \in 0..A!Height(n) : at[i] = FoundAt(n, k, at, i)
  BY <1>3
<1> QED
  BY <1>4, <1>5

LEMMA NodesOfParts ==
  ASSUME NEW m, Sound(m), m # A!Nil
  PROVE  /\ A!Nodes(m) = {m} \cup A!Nodes(m.left) \cup A!Nodes(m.right)
         /\ \A t \in A!Nodes(m.left) : t.key < m.key
         /\ \A t \in A!Nodes(m.right) : t.key > m.key
<1>1. /\ m.key \in A!Key /\ m.val \in Val /\ Proper(m.left) /\ Proper(m.right)
      /\ Below(m.left, m.key) /\ Above(m.right, m.key)
      /\ m = Nd(m.key, m.val, m.left, m.right)
  BY SoundParts DEF Sound
<1>2. A!Nodes(Nd(m.key, m.val, m.left, m.right))
        = {Nd(m.key, m.val, m.left, m.right)} \cup A!Nodes(m.left) \cup A!Nodes(m.right)
  BY <1>1, ProperNode
<1>3. A!Nodes(m) = {m} \cup A!Nodes(m.left) \cup A!Nodes(m.right)
  BY <1>1, <1>2
<1>4. (\A t \in A!Nodes(m.left) : t.key < m.key) /\ (\A t \in A!Nodes(m.right) : t.key > m.key)
  BY <1>1 DEF Below, Above, A!KeysOf
<1> QED
  BY <1>3, <1>4

(* One step of tree_find_interval from p to q. *)
LEMMA FindStep ==
  ASSUME NEW p, Sound(p), p # A!Nil, NEW k \in A!Key, NEW q,
         q = CASE k < p.key -> p.left [] k > p.key -> p.right [] OTHER -> p
  PROVE  /\ q \in {p.left, p.right} \/ (q = p /\ p.key = k)
         /\ \A t \in A!Nodes(p) : t.key = k => t \in A!Nodes(q)
<1>1. k \in Int /\ p.key \in Int
  BY SoundParts, TreeAssumption DEF A!Key
<1>2. /\ A!Nodes(p) = {p} \cup A!Nodes(p.left) \cup A!Nodes(p.right)
      /\ \A t \in A!Nodes(p.left) : t.key < p.key
      /\ \A t \in A!Nodes(p.right) : t.key > p.key
  BY NodesOfParts
<1>3. CASE k < p.key
  <2>1. q = p.left
    BY <1>1, <1>3
  <2>2. ASSUME NEW t \in A!Nodes(p), t.key = k
        PROVE  t \in A!Nodes(q)
    BY <1>1, <1>2, <1>3, <2>1, <2>2
  <2> QED
    BY <2>1, <2>2
<1>4. CASE k > p.key
  <2>1. q = p.right
    BY <1>1, <1>4
  <2>2. ASSUME NEW t \in A!Nodes(p), t.key = k
        PROVE  t \in A!Nodes(q)
    BY <1>1, <1>2, <1>4, <2>1, <2>2
  <2> QED
    BY <2>1, <2>2
<1>5. CASE k = p.key
  BY <1>1, <1>5
<1> QED
  BY <1>1, <1>3, <1>4, <1>5

(* tree_find_interval finds the node of a key, and there is one such node at most. *)
LEMMA FindIs ==
  ASSUME NEW n, Sound(n), NEW k \in A!Key
  PROVE  /\ A!Find(n, k) \in A!Subtrees(n)
         /\ A!Find(n, k) # A!Nil => A!Find(n, k).key = k
         /\ \A t \in A!Nodes(n) : t.key = k => A!Find(n, k) = t
<1> DEFINE N == A!Height(n)
<1>1. N \in Nat /\ A!Height(A!Nil) = 0
  BY SoundHeight, SoundNil
<1>2. PICK f : /\ \A i \in 0..N : f[i] = FoundAt(n, k, f, i)
               /\ A!Find(n, k) = f[N]
  BY <1>1, FoundSteps
<1>3. n \in A!Subtrees(n)
  BY SoundSubtrees
<1>4. \A m \in A!Subtrees(n) :
        /\ Sound(m) /\ A!Height(m) \in Nat /\ (A!Height(m) = 0 <=> m = A!Nil)
        /\ m # A!Nil => /\ m.left \in A!Subtrees(n) /\ m.right \in A!Subtrees(n)
                        /\ A!Height(m.left) < A!Height(m) /\ A!Height(m.right) < A!Height(m)
  BY SoundSubtrees, LowerSubtrees, SoundHeight
<1> DEFINE Near(i) == /\ f[i] \in A!Subtrees(n)
                      /\ \A t \in A!Nodes(n) : t.key = k => t \in A!Nodes(f[i])
                      /\ (f[i] # A!Nil /\ f[i].key = k) \/ A!Height(f[i]) <= N - i
           T == {i \in 0..N : ~Near(i)}
<1>5. T = {}
  <2>1. SUFFICES ASSUME T # {}
                 PROVE  FALSE
    OBVIOUS
  <2>2. PICK i \in T : \A j \in T : i <= j
    <3>1. T \subseteq Nat
      OBVIOUS
    <3> HIDE DEF T
    <3> QED
      BY <2>1, <3>1, LeastElement
  <2>3. i \in 0..N /\ ~Near(i) /\ f[i] = FoundAt(n, k, f, i)
    BY <1>2, <2>2
  <2>4. i # 0
    <3>1. ASSUME i = 0
          PROVE  Near(i)
      <4>1. f[i] = n
        BY <2>3, <3>1 DEF FoundAt
      <4>2. A!Height(f[i]) <= N - i
        BY <1>1, <3>1, <4>1
      <4> QED
        BY <1>3, <4>1, <4>2
    <3> HIDE DEF Near
    <3> QED
      BY <2>3, <3>1
  <2>5. i - 1 \in 0..N /\ i - 1 \notin T
    BY <1>1, <2>2, <2>3, <2>4
  <2>6. Near(i - 1)
    BY <2>5
  <2>7. PICK p : p = f[i - 1]
    OBVIOUS
  <2>8. PICK q : q = f[i]
    OBVIOUS
  <2>9. /\ p \in A!Subtrees(n)
        /\ \A t \in A!Nodes(n) : t.key = k => t \in A!Nodes(p)
        /\ (p # A!Nil /\ p.key = k) \/ A!Height(p) <= N - (i - 1)
    BY <2>6, <2>7
  <2>10. SUFFICES /\ q \in A!Subtrees(n)
                  /\ \A t \in A!Nodes(n) : t.key = k => t \in A!Nodes(q)
                  /\ (q # A!Nil /\ q.key = k) \/ A!Height(q) <= N - i
    BY <2>3, <2>8
  <2> HIDE DEF Near, T
  <2>11. CASE p = A!Nil
    <3>1. q = A!Nil
      BY <2>3, <2>4, <2>7, <2>8, <2>11 DEF FoundAt
    <3>2. A!Height(q) <= N - i
      BY <1>1, <2>3, <3>1
    <3> QED
      BY <2>9, <2>11, <3>1, <3>2
  <2>12. CASE p # A!Nil
    <3>1. q = CASE k < p.key -> p.left [] k > p.key -> p.right [] OTHER -> p
      BY <2>3, <2>4, <2>7, <2>8, <2>12 DEF FoundAt
    <3>2. Sound(p)
      BY <1>4, <2>9
    <3>3. /\ q \in {p.left, p.right} \/ (q = p /\ p.key = k)
          /\ \A t \in A!Nodes(p) : t.key = k => t \in A!Nodes(q)
      BY <2>12, <3>1, <3>2, FindStep
    <3>4. \A t \in A!Nodes(n) : t.key = k => t \in A!Nodes(q)
      BY <2>9, <3>3
    <3>5. CASE q = p /\ p.key = k
      BY <2>9, <2>12, <3>4, <3>5
    <3>6. CASE q \in {p.left, p.right} /\ p.key # k
      <4>1. q \in A!Subtrees(n) /\ A!Height(q) < A!Height(p)
        BY <1>4, <2>9, <2>12, <3>6
      <4>2. A!Height(q) <= N - i
        BY <1>1, <1>4, <2>3, <2>9, <3>6, <4>1
      <4> QED
        BY <3>4, <4>1, <4>2
    <3>7. CASE p.key = k
      <4>1. q = p
        BY <3>1, <3>2, <3>7, <2>12, SoundParts, TreeAssumption DEF A!Key
      <4> QED
        BY <3>5, <3>7, <4>1
    <3> QED
      BY <3>3, <3>5, <3>6, <3>7
  <2> QED
    BY <2>11, <2>12
<1>6. /\ f[N] \in A!Subtrees(n)
      /\ \A t \in A!Nodes(n) : t.key = k => t \in A!Nodes(f[N])
      /\ (f[N] # A!Nil /\ f[N].key = k) \/ A!Height(f[N]) <= N - N
  BY <1>1, <1>5
<1> HIDE DEF N
<1>7. PICK r : r = f[N]
  OBVIOUS
<1>8. r # A!Nil => r.key = k
  BY <1>1, <1>4, <1>6, <1>7
<1>9. ASSUME NEW t \in A!Nodes(n), t.key = k
      PROVE  r = t
  <2>1. t \in A!Nodes(r)
    BY <1>6, <1>7, <1>9
  <2>2. r # A!Nil
    BY <2>1, SoundNil, ProperNil
  <2>3. Sound(r) /\ r.key \in A!Key
    BY <1>4, <1>6, <1>7, <2>2, SoundParts
  <2>4. /\ A!Nodes(r) = {r} \cup A!Nodes(r.left) \cup A!Nodes(r.right)
        /\ \A u \in A!Nodes(r.left) : u.key < r.key
        /\ \A u \in A!Nodes(r.right) : u.key > r.key
    BY <2>2, <2>3, NodesOfParts
  <2>5. r.key \in Int
    BY <2>3, TreeAssumption DEF A!Key
  <2> QED
    BY <1>8, <1>9, <2>1, <2>2, <2>4, <2>5
<1> QED
  BY <1>2, <1>6, <1>7, <1>8, <1>9

-----------------------------------------------------------------------------
(* The table a tree stands for *)

LookUp(n, k) == IF A!Find(n, k) = A!Nil THEN A!NoVal ELSE A!Find(n, k).val
Table(n) == [k \in A!Key |-> LookUp(n, k)]

LEMMA LooksUp ==
  ASSUME NEW n, Sound(n), NEW k \in A!Key
  PROVE  /\ \A v : <<k, v>> \in Pairs(n) => LookUp(n, k) = v
         /\ k \in A!KeysOf(n) => LookUp(n, k) \in Val /\ <<k, LookUp(n, k)>> \in Pairs(n)
         /\ k \notin A!KeysOf(n) => LookUp(n, k) = A!NoVal
         /\ k \in A!KeysOf(n) <=> LookUp(n, k) # A!NoVal
<1>1. A!NoVal \notin Val
  BY TreeAssumption DEF A!NoVal
<1>2. /\ A!Find(n, k) \in A!Subtrees(n)
      /\ A!Find(n, k) # A!Nil => A!Find(n, k).key = k
      /\ \A t \in A!Nodes(n) : t.key = k => A!Find(n, k) = t
  BY FindIs
<1>3. \A t \in A!Nodes(n) : t # A!Nil /\ t.val \in Val
  BY SoundSubtrees, SoundParts DEF A!Nodes
<1>4. ASSUME NEW v, <<k, v>> \in Pairs(n)
      PROVE  LookUp(n, k) = v
  <2>1. PICK t \in A!Nodes(n) : <<k, v>> = <<t.key, t.val>>
    BY <1>4 DEF Pairs
  <2>2. t.key = k /\ t.val = v
    BY <2>1
  <2> QED
    BY <1>2, <1>3, <2>2 DEF LookUp
<1>5. ASSUME k \in A!KeysOf(n)
      PROVE  LookUp(n, k) \in Val /\ <<k, LookUp(n, k)>> \in Pairs(n)
  <2>1. PICK t \in A!Nodes(n) : t.key = k
    BY <1>5 DEF A!KeysOf
  <2>2. LookUp(n, k) = t.val
    BY <1>2, <1>3, <2>1 DEF LookUp
  <2> QED
    BY <1>3, <2>1, <2>2 DEF Pairs
<1>6. ASSUME k \notin A!KeysOf(n)
      PROVE  LookUp(n, k) = A!NoVal
  <2>1. A!Find(n, k) = A!Nil
    BY <1>2, <1>6 DEF A!KeysOf, A!Nodes
  <2> QED
    BY <2>1 DEF LookUp
<1> QED
  BY <1>1, <1>4, <1>5, <1>6

LEMMA EmptyTable == Table(A!Nil) = [k \in A!Key |-> A!NoVal]
<1>1. \A k \in A!Key : LookUp(A!Nil, k) = A!NoVal
  BY SoundNil, LooksUp
<1> QED
  BY <1>1 DEF Table

LEMMA InsertTable ==
  ASSUME NEW n, Sound(n), NEW k \in A!Key, NEW v \in Val, NEW r, Inserts(n, r, k, v)
  PROVE  Table(r) = IF Table(n)[k] = A!NoVal THEN [Table(n) EXCEPT ![k] = v] ELSE Table(n)
<1>1. Sound(r) /\ A!KeysOf(r) = A!KeysOf(n) \cup {k}
  <2>1. A!KeysOf(r) = A!KeysOf(n) \cup {k}
    BY InsertedKeys
  <2> QED
    BY <2>1 DEF Inserts
<1>2. Pairs(r) = IF k \in A!KeysOf(n) THEN Pairs(n) ELSE Pairs(n) \cup {<<k, v>>}
  BY DEF Inserts
<1>3. ASSUME NEW j \in A!Key
      PROVE  LookUp(r, j) = IF j = k /\ k \notin A!KeysOf(n) THEN v ELSE LookUp(n, j)
  <2>1. CASE j = k /\ k \notin A!KeysOf(n)
    <3>1. <<k, v>> \in Pairs(r)
      BY <1>2, <2>1
    <3> QED
      BY <1>1, <2>1, <3>1, LooksUp
  <2>2. CASE j \in A!KeysOf(n)
    <3>1. <<j, LookUp(n, j)>> \in Pairs(n)
      BY <2>2, LooksUp
    <3>2. <<j, LookUp(n, j)>> \in Pairs(r)
      BY <1>2, <3>1
    <3> QED
      BY <1>1, <2>2, <3>2, LooksUp
  <2>3. CASE j \notin A!KeysOf(n) /\ j # k
    <3>1. j \notin A!KeysOf(r)
      BY <1>1, <2>3
    <3>2. LookUp(r, j) = A!NoVal /\ LookUp(n, j) = A!NoVal
      BY <1>1, <2>3, <3>1, LooksUp
    <3> QED
      BY <2>3, <3>2
  <2> QED
    BY <2>1, <2>2, <2>3
<1>4. Table(n)[k] = LookUp(n, k) /\ (k \in A!KeysOf(n) <=> LookUp(n, k) # A!NoVal)
  BY LooksUp DEF Table
<1>5. CASE k \in A!KeysOf(n)
  BY <1>3, <1>4, <1>5 DEF Table
<1>6. CASE k \notin A!KeysOf(n)
  BY <1>3, <1>4, <1>6 DEF Table
<1> QED
  BY <1>5, <1>6

(* The keys that a deletion of k lost. *)
Lost(n, r, k) == {j \in A!Key \ {k} : Table(n)[j] # A!NoVal /\ Table(r)[j] = A!NoVal}

LEMMA DeleteTable ==
  ASSUME NEW n, Sound(n), NEW k \in A!Key, NEW r, Deletes(n, r, k)
  PROVE  /\ Table(n)[k] = A!NoVal => Lost(n, r, k) = {}
         /\ Table(r) = [j \in A!Key |-> IF j \in Lost(n, r, k) \cup {k} THEN A!NoVal
                                        ELSE Table(n)[j]]
<1>1. /\ Sound(r) /\ Pairs(r) \subseteq Pairs(n) /\ k \notin A!KeysOf(r)
      /\ k \notin A!KeysOf(n) => Pairs(r) = Pairs(n)
      /\ A!KeysOf(r) \subseteq A!KeysOf(n)
  BY PairsAndKeys DEF Deletes
<1>2. \A j \in A!Key : Table(n)[j] = LookUp(n, j) /\ Table(r)[j] = LookUp(r, j)
  BY DEF Table
<1>3. ASSUME NEW j \in A!Key, j \in A!KeysOf(r)
      PROVE  LookUp(r, j) = LookUp(n, j) /\ LookUp(r, j) # A!NoVal
  <2>1. <<j, LookUp(r, j)>> \in Pairs(n)
    BY <1>1, <1>3, LooksUp
  <2> QED
    BY <1>1, <1>3, <2>1, LooksUp
<1>4. ASSUME NEW j \in A!Key, j \notin A!KeysOf(r)
      PROVE  LookUp(r, j) = A!NoVal
  BY <1>1, <1>4, LooksUp
<1>5. ASSUME NEW j \in A!Key
      PROVE  Table(r)[j] = IF j \in Lost(n, r, k) \cup {k} THEN A!NoVal ELSE Table(n)[j]
  <2>1. CASE j \in A!KeysOf(r)
    BY <1>1, <1>2, <1>3, <2>1 DEF Lost
  <2>2. CASE j \notin A!KeysOf(r)
    BY <1>2, <1>4, <2>2 DEF Lost
  <2> QED
    BY <2>1, <2>2
<1>6. ASSUME Table(n)[k] = A!NoVal
      PROVE  Lost(n, r, k) = {}
  <2>1. k \notin A!KeysOf(n)
    BY <1>2, <1>6, LooksUp
  <2>2. A!KeysOf(r) = A!KeysOf(n)
    BY <1>1, <2>1, SamePairs
  <2>3. \A j \in A!Key : j \in A!KeysOf(n) <=> LookUp(n, j) # A!NoVal
    BY LooksUp
  <2>4. \A j \in A!Key : j \in A!KeysOf(r) <=> LookUp(r, j) # A!NoVal
    BY <1>1, LooksUp
  <2> QED
    BY <1>2, <2>2, <2>3, <2>4 DEF Lost
<1>7. Table(r) = [j \in A!Key |-> Table(r)[j]]
  BY DEF Table
<1> QED
  BY <1>5, <1>6, <1>7

(* The key that is freed with its node is that of the node's one child. *)
LEMMA FreedKey ==
  ASSUME NEW n, Sound(n), NEW k \in A!Key, NEW m, m = A!Find(n, k), m # A!Nil,
         (m.left = A!Nil) # (m.right = A!Nil)
  PROVE  /\ Table(n)[k] # A!NoVal
         /\ \E j \in A!Key \ {k} : Table(n)[j] # A!NoVal
<1>1. m \in A!Nodes(n) /\ m.key = k
  BY FindIs DEF A!Nodes
<1>2. Sound(m) /\ m.left \in A!Subtrees(n) /\ m.right \in A!Subtrees(n) /\ m \in A!Subtrees(n)
  BY <1>1, SoundSubtrees DEF A!Nodes
<1>3. PICK c : c \in {m.left, m.right} /\ c # A!Nil
  OBVIOUS
<1>4. c \in A!Nodes(n) /\ c \in A!Nodes(c) /\ Sound(c)
  <2>1. c \in A!Subtrees(n) /\ Sound(c)
    BY <1>2, <1>3, SoundSubtrees
  <2> QED
    BY <1>3, <2>1, SoundSubtrees DEF A!Nodes
<1>5. c.key \in A!Key /\ m.key \in Int
  BY <1>2, <1>3, <1>4, SoundParts, TreeAssumption DEF A!Key
<1>6. c.key < m.key \/ c.key > m.key
  BY <1>2, <1>3, <1>4, NodesOfParts
<1>7. c.key # k
  BY <1>1, <1>5, <1>6, TreeAssumption DEF A!Key
<1>8. k \in A!KeysOf(n) /\ c.key \in A!KeysOf(n)
  BY <1>1, <1>4 DEF A!KeysOf
<1>9. LookUp(n, k) # A!NoVal /\ LookUp(n, c.key) # A!NoVal
  BY <1>5, <1>8, LooksUp
<1> QED
  BY <1>5, <1>7, <1>9 DEF Table

-----------------------------------------------------------------------------
(* The tree in every state *)

TreeInv ==
  /\ Sound(tree) /\ state \in {"sound", "freed"} /\ lossy \in BOOLEAN
  /\ ~lossy => Even(tree)

LEMMA TreeInitInv == A!Init => TreeInv
BY SoundNil DEF A!Init, TreeInv

LEMMA TreeInsertStep ==
  ASSUME TreeInv, NEW k \in A!Key, NEW v \in Val, A!TreeInsert(k, v)
  PROVE  TreeInv' /\ Inserts(tree, tree', k, v) /\ state = "sound" /\ state' = "sound"
<1>1. /\ state = "sound" /\ tree' = A!Insert(tree, k, v) /\ A!Insert(tree, k, v) # A!Crashed
      /\ state' = state /\ lossy' = lossy
  BY DEF A!TreeInsert
<1>2. Inserts(tree, tree', k, v)
  <2>1. InsertsOrCrashes(tree, A!Insert(tree, k, v), k, v)
    BY InsertSound DEF TreeInv
  <2> QED
    BY <1>1, <2>1 DEF InsertsOrCrashes
<1>3. PICK r : r = tree'
  OBVIOUS
<1>4. Sound(r) /\ (Even(tree) => Even(r))
  BY <1>2, <1>3 DEF Inserts
<1> QED
  BY <1>1, <1>2, <1>3, <1>4 DEF TreeInv

LEMMA TreeDeleteStep ==
  ASSUME TreeInv, NEW k \in A!Key, A!TreeDelete(k)
  PROVE  TreeInv' /\ Deletes(tree, tree', k)
<1>1. /\ state = "sound" /\ tree' = A!Delete(tree, k)
      /\ state' = IF A!FreesKey(k) THEN "freed" ELSE "sound"
  BY DEF A!TreeDelete
<1>2. PICK r : r = tree'
  OBVIOUS
<1>3. lossy' = (lossy \/ A!KeysOf(r) # A!KeysOf(tree) \ {k})
  BY <1>2 DEF A!TreeDelete
<1>4. Deletes(tree, r, k)
  BY <1>1, <1>2, DeletesKey DEF TreeInv
<1>5. Sound(r) /\ (Even(tree) /\ A!KeysOf(r) = A!KeysOf(tree) \ {k} => Even(r))
  BY <1>4 DEF Deletes
<1>6. lossy' \in BOOLEAN /\ (~lossy' => Even(r))
  BY <1>3, <1>5 DEF TreeInv
<1>7. state' \in {"sound", "freed"}
  BY <1>1
<1> QED
  BY <1>2, <1>4, <1>5, <1>6, <1>7 DEF TreeInv

LEMMA NewTreeStep ==
  ASSUME A!NewTree
  PROVE  TreeInv'
<1>1. PICK r : r = tree'
  OBVIOUS
<1>2. r = A!Nil /\ state' = "sound" /\ lossy' = FALSE
  BY <1>1 DEF A!NewTree
<1>3. Sound(r) /\ Even(r)
  BY <1>2, SoundNil
<1> QED
  BY <1>1, <1>2, <1>3 DEF TreeInv

LEMMA TreeNextInv == TreeInv /\ [A!Next]_(A!vars) => TreeInv'
<1>1. SUFFICES ASSUME TreeInv, [A!Next]_(A!vars)
               PROVE  TreeInv'
  OBVIOUS
<1>2. CASE \E k \in A!Key, v \in Val : A!TreeInsert(k, v)
  BY <1>1, <1>2, TreeInsertStep
<1>3. CASE \E k \in A!Key : A!TreeDelete(k)
  BY <1>1, <1>3, TreeDeleteStep
<1>4. CASE A!NewTree
  BY <1>4, NewTreeStep
<1>5. CASE UNCHANGED A!vars
  <2>1. tree' = tree /\ state' = state /\ lossy' = lossy
    BY <1>5 DEF A!vars
  <2> QED
    BY <1>1, <2>1 DEF TreeInv
<1> QED
  BY <1>1, <1>2, <1>3, <1>4, <1>5 DEF A!Next

LEMMA TreeInvariance == A!Spec => []TreeInv
BY TreeInitInv, TreeNextInv, PTL DEF A!Spec

(* Shape: whatever was inserted, deleted and lost, the heights stored in the
   nodes are those of the subtrees and the keys are in order; as long as no key
   was lost, the rotations of tree_insert and tree_delete keep the tree
   balanced. *)
THEOREM ShapeHolds == A!Spec => []Shape
<1>1. ASSUME TreeInv
      PROVE  Shape
  <2>1. SUFFICES ASSUME NEW n \in A!Nodes(tree)
                 PROVE  /\ n.key \in A!Key /\ n.val \in Val
                        /\ n = A!Measured(n)
                        /\ \A k \in A!KeysOf(n.left) : k < n.key
                        /\ \A k \in A!KeysOf(n.right) : k > n.key
                        /\ ~lossy => A!Balance(n) \in -1..1
    BY DEF Shape, A!Shape
  <2>2. Sound(n) /\ n # A!Nil
    BY <1>1, SoundSubtrees DEF TreeInv, A!Nodes
  <2>3. n.key \in A!Key /\ n.val \in Val /\ Below(n.left, n.key) /\ Above(n.right, n.key)
    BY <2>2, SoundParts
  <2>4. n = A!Measured(n)
    BY <2>2, MeasuredWith
  <2>5. ~lossy => A!Balance(n) \in -1..1
    BY <1>1 DEF TreeInv, Even
  <2> QED
    BY <2>3, <2>4, <2>5 DEF Below, Above
<1> QED
  BY <1>1, TreeInvariance, PTL

(* A tree that lost no key is never out of balance on the wrong side, so that
   the four cases of tree_insert_internal never rotate up a child that is not
   there: tree_insert dereferences no NULL. *)
THEOREM InsertNeverCrashes ==
  A!Spec => [](~lossy => \A k \in A!Key, v \in Val : A!Insert(tree, k, v) # A!Crashed)
<1>1. TreeInv => (~lossy => \A k \in A!Key, v \in Val : A!Insert(tree, k, v) # A!Crashed)
  BY InsertSound DEF TreeInv, InsertsOrCrashes
<1> QED
  BY <1>1, TreeInvariance, PTL

-----------------------------------------------------------------------------
(* The tree implements the table *)

Shown == IF state = "freed" THEN [k \in A!Key |-> A!NoVal] ELSE Table(tree)

LEMMA InsertRefined ==
  ASSUME TreeInv, NEW k \in A!Key, NEW v \in Val, A!TreeInsert(k, v)
  PROVE  A!K!Insert(k, v)
<1>1. Inserts(tree, tree', k, v) /\ state = "sound" /\ state' = "sound"
  BY TreeInsertStep
<1>2. PICK r : r = tree'
  OBVIOUS
<1>3. Table(r) = IF Table(tree)[k] = A!NoVal THEN [Table(tree) EXCEPT ![k] = v] ELSE Table(tree)
  BY <1>1, <1>2, InsertTable DEF TreeInv
<1>4. Shown = Table(tree) /\ Shown' = Table(r)
  BY <1>1, <1>2 DEF Shown
<1>5. Shown' = IF state = "sound" /\ Shown[k] = A!NoVal THEN [Shown EXCEPT ![k] = v] ELSE Shown
  BY <1>1, <1>3, <1>4
<1> QED
  BY <1>1, <1>5 DEF A!K!Insert, Shown, Table, LookUp, A!TreeFind

LEMMA DeleteRefined ==
  ASSUME TreeInv, NEW k \in A!Key, A!TreeDelete(k)
  PROVE  A!K!Delete(k)
<1>1. Deletes(tree, tree', k)
  BY TreeDeleteStep
<1>2. /\ state = "sound"
      /\ state' = IF A!FreesKey(k) THEN "freed" ELSE "sound"
  BY DEF A!TreeDelete
<1>3. PICK r : r = tree'
  OBVIOUS
<1>4. Shown = Table(tree)
  BY <1>2 DEF Shown
<1>5. CASE A!FreesKey(k)
  <2>1. PICK m : m = A!Find(tree, k) /\ m # A!Nil /\ (m.left = A!Nil) # (m.right = A!Nil)
    BY <1>5 DEF A!FreesKey
  <2>2. /\ Table(tree)[k] # A!NoVal
        /\ \E j \in A!Key \ {k} : Table(tree)[j] # A!NoVal
    BY <2>1, FreedKey DEF TreeInv
  <2>3. state' = "freed" /\ Shown' = [j \in A!Key |-> A!NoVal]
    BY <1>2, <1>5 DEF Shown
  <2>4. A!K!DeleteFreeing(k)
    BY <1>2, <1>4, <2>2, <2>3
       DEF A!K!DeleteFreeing, A!K!Empty, Shown, Table, LookUp, A!TreeFind
  <2> QED
    BY <1>2, <2>4 DEF A!K!Delete
<1>6. CASE ~A!FreesKey(k)
  <2>1. /\ Table(tree)[k] = A!NoVal => Lost(tree, r, k) = {}
        /\ Table(r) = [j \in A!Key |-> IF j \in Lost(tree, r, k) \cup {k} THEN A!NoVal
                                       ELSE Table(tree)[j]]
    BY <1>1, <1>3, DeleteTable DEF TreeInv
  <2>2. Lost(tree, r, k) \in SUBSET {j \in A!Key \ {k} : Shown[j] # A!NoVal}
    BY <1>4 DEF Lost
  <2>3. PICK lost \in SUBSET {j \in A!Key \ {k} : Shown[j] # A!NoVal} :
          /\ Shown[k] = A!NoVal => lost = {}
          /\ Table(r) = [j \in A!Key |-> IF j \in lost \cup {k} THEN A!NoVal ELSE Shown[j]]
    BY <1>4, <2>1, <2>2
  <2>4. state' = "sound" /\ Shown' = Table(r)
    BY <1>2, <1>3, <1>6 DEF Shown
  <2>5. A!K!DeleteSound(k)
    BY <2>3, <2>4 DEF A!K!DeleteSound, Shown, Table, LookUp, A!TreeFind
  <2> QED
    BY <1>2, <2>5 DEF A!K!Delete
<1> QED
  BY <1>5, <1>6

LEMMA NewTreeRefined ==
  ASSUME A!NewTree
  PROVE  A!K!Renew
<1>1. PICK r : r = tree'
  OBVIOUS
<1>2. state' = "sound" /\ r = A!Nil
  BY <1>1 DEF A!NewTree
<1>3. Shown' = [k \in A!Key |-> A!NoVal]
  BY <1>1, <1>2, EmptyTable DEF Shown
<1> QED
  BY <1>2, <1>3 DEF A!K!Renew, A!K!Empty, Shown, Table, LookUp, A!TreeFind

LEMMA UnchangedRefined ==
  ASSUME UNCHANGED A!vars
  PROVE  UNCHANGED A!K!vars
BY DEF A!vars, A!K!vars, A!TreeFind

(* KeywordTreeSpec: every operation does to the keys found in the tree what
   KeywordTree says of a table; a deletion that loses keys loses none that it
   did not find, and frees a key only if it leaves it in the tree. *)
THEOREM ImplementsKeywordTree == A!Spec => KeywordTreeSpec
<1>1. A!Init => A!K!Init
  <2>1. SUFFICES ASSUME A!Init
                 PROVE  A!K!Init
    OBVIOUS
  <2>2. state = "sound" /\ tree = A!Nil
    BY <2>1 DEF A!Init
  <2>3. Shown = [k \in A!Key |-> A!NoVal]
    BY <2>2, EmptyTable DEF Shown
  <2> QED
    BY <2>2, <2>3 DEF A!K!Init, A!K!Empty, Shown, Table, LookUp, A!TreeFind
<1>2. TreeInv /\ [A!Next]_(A!vars) => [A!K!Next]_(A!K!vars)
  <2>1. SUFFICES ASSUME TreeInv, [A!Next]_(A!vars)
                 PROVE  [A!K!Next]_(A!K!vars)
    OBVIOUS
  <2>2. CASE \E k \in A!Key, v \in Val : A!TreeInsert(k, v)
    <3>1. \E k \in A!Key, v \in Val : A!K!Insert(k, v)
      BY <2>1, <2>2, InsertRefined
    <3> QED
      BY <3>1 DEF A!K!Next
  <2>3. CASE \E k \in A!Key : A!TreeDelete(k)
    <3>1. \E k \in A!Key : A!K!Delete(k)
      BY <2>1, <2>3, DeleteRefined
    <3> QED
      BY <3>1 DEF A!K!Next
  <2>4. CASE A!NewTree
    BY <2>4, NewTreeRefined DEF A!K!Next
  <2>5. CASE UNCHANGED A!vars
    BY <2>5, UnchangedRefined
  <2> QED
    BY <2>1, <2>2, <2>3, <2>4, <2>5 DEF A!Next
<1> QED
  BY <1>1, <1>2, TreeInvariance, PTL DEF A!Spec, KeywordTreeSpec, A!KeywordTreeSpec, A!K!Spec
=============================================================================
