-------------------------------- MODULE BTree --------------------------------
(***************************************************************************)
(* src/btree2/btree.c: a B-tree of order M whose keys are ordered like     *)
(* strcmp orders them.  A node is its keys and its children; a leaf has no *)
(* children.  A result carries the node it leaves behind.  Memory does not *)
(* run out.                                                                *)
(***************************************************************************)
EXTENDS Integers, Sequences, SequencesExt, FiniteSets

CONSTANTS
  M,        \* the order, 7 in btree.h
  MaxKey    \* bound: different keys

Key == 1..MaxKey
Nil == <<>>
HalfOf == (M - 1) \div 2   \* "minimum number of keys"

VARIABLES
  root,
  lossy   \* history: the last operation lost keys other than its own

vars == <<root, lossy>>

-----------------------------------------------------------------------------

New(keys, kids) == [keys |-> keys, kids |-> kids]
IsLeaf(n) == n.kids = <<>>
Kid(n, i) == IF IsLeaf(n) THEN Nil ELSE n.kids[i]

(* btree_get_pos, counted from 1 *)
Pos(n, k) == Cardinality({i \in DOMAIN n.keys : n.keys[i] < k}) + 1
Holds(n, k) == Pos(n, k) <= Len(n.keys) /\ n.keys[Pos(n, k)] = k

(* A node that took in one key more than it has room for is cut in two around
   its middle. *)
Split(n) ==
  LET mid == HalfOf + 1
      Part(a, b) == New(SubSeq(n.keys, a, b), IF IsLeaf(n) THEN <<>> ELSE SubSeq(n.kids, a, b + 1))
  IN  [status |-> "InsertIt", node |-> Part(1, mid - 1), up |-> n.keys[mid],
       right |-> Part(mid + 1, Len(n.keys))]

(* btree_ins: "InsertIt" asks the caller to take in the key up with the node to
   its right. *)
RECURSIVE Ins(_, _)
Ins(n, k) ==
  IF n = Nil THEN [status |-> "InsertIt", node |-> Nil, up |-> k, right |-> Nil]
  ELSE IF Holds(n, k) THEN [status |-> "Duplicate", node |-> n]
  ELSE LET pos == Pos(n, k)
           sub == Ins(Kid(n, pos), k)
           with == IF IsLeaf(n) THEN n ELSE [n EXCEPT !.kids[pos] = sub.node]
       IN  IF sub.status # "InsertIt" THEN [status |-> sub.status, node |-> with]
           ELSE LET full == New(InsertAt(with.keys, pos, sub.up),
                                IF IsLeaf(n) THEN <<>> ELSE InsertAt(with.kids, pos + 1, sub.right))
                IN  IF Len(n.keys) < M - 1 THEN [status |-> "Success", node |-> full] ELSE Split(full)

-----------------------------------------------------------------------------

RECURSIVE Rightmost(_)
Rightmost(n) == IF IsLeaf(n) THEN Last(n.keys) ELSE Rightmost(Last(n.kids))

RECURSIVE WithRightmost(_, _)
WithRightmost(n, k) ==
  IF IsLeaf(n) THEN [n EXCEPT !.keys[Len(n.keys)] = k]
  ELSE [n EXCEPT !.kids[Len(n.kids)] = WithRightmost(@, k)]

(* "ptr == root" holds in every call: a node may shrink to one key. *)
Shrunk(n) == [status |-> IF Len(n.keys) >= 1 THEN "Success" ELSE "LessKeys", node |-> n, lossy |-> FALSE]

(* The empty child at pos takes a key from the left: "--lptr->n" stands twice,
   and the left node loses its last two keys and its last two children. *)
BorrowLeft(n, pos) ==
  LET left == n.kids[pos - 1]  child == n.kids[pos]  len == Len(left.keys)
      shrunk == New(SubSeq(left.keys, 1, len - 2), IF IsLeaf(left) THEN <<>> ELSE SubSeq(left.kids, 1, len - 1))
      grown == New(<<n.keys[pos - 1]>> \o child.keys, IF IsLeaf(left) THEN <<>> ELSE <<Last(left.kids)>> \o child.kids)
  IN  [status |-> "Success", lossy |-> TRUE,
       node |-> New([n.keys EXCEPT ![pos - 1] = left.keys[len]],
                    [n.kids EXCEPT ![pos - 1] = shrunk, ![pos] = grown])]

(* Mutant: the key between the two nodes is written over before it is moved. *)
BorrowLosing(n, pos) ==
  LET right == n.kids[pos + 1]
  IN  [status |-> "Success", lossy |-> FALSE,
       node |-> New([n.keys EXCEPT ![pos] = right.keys[2]],
                    [n.kids EXCEPT ![pos] = New(<<right.keys[1]>>, <<>>),
                                   ![pos + 1].keys = SubSeq(right.keys, 3, Len(right.keys))])]

BorrowRight(n, pos) ==
  LET right == n.kids[pos + 1]  child == n.kids[pos]
      shrunk == New(Tail(right.keys), IF IsLeaf(right) THEN <<>> ELSE Tail(right.kids))
      grown == New(Append(child.keys, n.keys[pos]), IF IsLeaf(right) THEN <<>> ELSE Append(child.kids, right.kids[1]))
  IN  [status |-> "Success", lossy |-> FALSE,
       node |-> New([n.keys EXCEPT ![pos] = right.keys[1]],
                    [n.kids EXCEPT ![pos] = grown, ![pos + 1] = shrunk])]

(* The child is merged with its right neighbour, the last one with its left. *)
Merge(n, pos) ==
  LET i == IF pos = Len(n.kids) THEN pos - 1 ELSE pos
      left == n.kids[i]  right == n.kids[i + 1]
      both == New(left.keys \o <<n.keys[i]>> \o right.keys, left.kids \o right.kids)
  IN  Shrunk(New(RemoveAt(n.keys, i), RemoveAt([n.kids EXCEPT ![i] = both], i + 1)))

(* btree_get_del_result: a key of an inner node changes places with the greatest
   one below it and is deleted in a leaf. *)
RECURSIVE Del(_, _)
Del(n, k) ==
  IF n = Nil \/ (IsLeaf(n) /\ ~Holds(n, k)) THEN [status |-> "Failure", node |-> n, lossy |-> FALSE]
  ELSE LET pos == Pos(n, k) IN
  IF IsLeaf(n) THEN Shrunk([n EXCEPT !.keys = RemoveAt(@, pos)])
  ELSE LET m == IF Holds(n, k)
                THEN [n EXCEPT !.keys[pos] = Rightmost(n.kids[pos]), !.kids[pos] = WithRightmost(@, k)]
                ELSE n
           sub == Del(m.kids[pos], k)
           r == [m EXCEPT !.kids[pos] = sub.node]
       IN  IF sub.status # "LessKeys" THEN [sub EXCEPT !.node = r]
           ELSE IF pos > 1 /\ Len(r.kids[pos - 1].keys) > HalfOf THEN BorrowLeft(r, pos)
           ELSE IF pos < Len(r.kids) /\ Len(r.kids[pos + 1].keys) > HalfOf THEN BorrowRight(r, pos)
           ELSE Merge(r, pos)

RECURSIVE Found(_, _)
Found(n, k) == n # Nil /\ (Holds(n, k) \/ Found(Kid(n, Pos(n, k)), k))

-----------------------------------------------------------------------------

Init == root = Nil /\ lossy = FALSE

BtreeInsert(k) ==
  LET r == Ins(root, k)
  IN  /\ root' = IF r.status # "InsertIt" THEN r.node
                 ELSE New(<<r.up>>, IF root = Nil THEN <<>> ELSE <<r.node, r.right>>)
      /\ lossy' = FALSE

(* A root without keys gives way to its only child, which a leaf has not. *)
BtreeDelete(k) ==
  LET r == Del(root, k)
  IN  /\ root' = IF r.status # "LessKeys" THEN r.node ELSE Kid(r.node, 1)
      /\ lossy' = r.lossy

Next == \E k \in Key : BtreeInsert(k) \/ BtreeDelete(k)

Spec == Init /\ [][Next]_vars

-----------------------------------------------------------------------------
(* Properties *)

RECURSIVE Depths(_)
Depths(n) == IF n = Nil \/ IsLeaf(n) THEN {0} ELSE {d + 1 : d \in UNION {Depths(n.kids[i]) : i \in DOMAIN n.kids}}

Keys(n) == {k \in Key : Found(n, k)}

(* After any insertions and deletions btree_find finds what was found before,
   with the key inserted and without the key deleted, and all leaves lie at one
   depth; only a deletion that takes a key from a left neighbour loses others. *)
BTreeKeeps ==
  [][ /\ Cardinality(Depths(root')) = 1
      /\ \A k \in Key :
           /\ BtreeInsert(k) => Keys(root') = Keys(root) \cup {k}
           /\ BtreeDelete(k) =>
                /\ Keys(root') \subseteq Keys(root) \ {k}
                /\ ~lossy' => Keys(root') = Keys(root) \ {k} ]_vars
=============================================================================
