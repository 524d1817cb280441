------------------------------- MODULE AvlTree -------------------------------
(***************************************************************************)
(* src/AVL_Tree/tree.c, the keyword tree of a Messenger_v2 database.  A    *)
(* node is a record that holds its subtrees; keys are ordered like strcmp  *)
(* orders them.  Deletion is modelled as the code does it: the node with   *)
(* two children is replaced by the pointer to its successor, not by the    *)
(* successor's contents, and a node with one child takes over a key that   *)
(* is then freed.  Nothing is modelled of a tree with a freed key.         *)
(***************************************************************************)
EXTENDS Integers

CONSTANTS
  MaxKey,  \* bound: different keys
  Val      \* values: entry ids

Key   == 1..MaxKey
NoVal == -1     \* tree_find found no node
Nil   == <<>>   \* the NULL pointer

(* No tree is returned: a rotation dereferenced NULL, and the process is gone. *)
Crashed == [height |-> 0]

VARIABLES
  tree,   \* Tree.node
  state,  \* "freed" when a node in the tree has a key that was freed
  lossy   \* history: a deletion lost other keys than its own

vars == <<tree, state, lossy>>

-----------------------------------------------------------------------------
(* Helpers *)

Height(n)  == IF n = Nil THEN 0 ELSE n.height
Balance(n) == IF n = Nil THEN 0 ELSE Height(n.left) - Height(n.right)

Measured(n) ==
  [n EXCEPT !.height =
     1 + IF Height(n.left) > Height(n.right) THEN Height(n.left) ELSE Height(n.right)]

(* The subtrees of n, n and NULL among them: none lies deeper than n is high. *)
Subtrees(n) ==
  LET level[i \in 0..Height(n)] ==
        IF i = 0 THEN {n} ELSE UNION {{m.left, m.right} : m \in level[i - 1] \ {Nil}}
  IN  UNION {level[i] : i \in 0..Height(n)}

Nodes(n)  == Subtrees(n) \ {Nil}
KeysOf(n) == {m.key : m \in Nodes(n)}

NewNode(k, v) == [key |-> k, val |-> v, left |-> Nil, right |-> Nil, height |-> 1]

(* Variants: y keeps its height; y is hung below x before x's right subtree
   was taken over. *)
RightRotateUnmeasured(y) ==
  Measured([y.left EXCEPT !.right = [y EXCEPT !.left = y.left.right]])
RightRotateLosing(y) ==
  Measured([y.left EXCEPT !.right = Measured([y EXCEPT !.left = Nil])])

RightRotate(y) ==
  Measured([y.left EXCEPT !.right = Measured([y EXCEPT !.left = y.left.right])])

LeftRotate(x) ==
  Measured([x.right EXCEPT !.left = Measured([x EXCEPT !.right = x.right.left])])

(* The four cases at the end of tree_insert_internal: key k went to one side.
   A node that leans to the other side, after a deletion that lost keys, is
   rotated as if k had made it lean; the child to rotate up may be missing. *)
InsertCases(n, k) ==
  CASE Balance(n) > 1 /\ k < n.left.key   -> RightRotate(n)
    [] Balance(n) < -1 /\ k > n.right.key -> LeftRotate(n)
    [] Balance(n) > 1 /\ k > n.left.key   ->
         IF n.left.right = Nil THEN Crashed
         ELSE RightRotate([n EXCEPT !.left = LeftRotate(@)])
    [] Balance(n) < -1 /\ k < n.right.key ->
         IF n.right.left = Nil THEN Crashed
         ELSE LeftRotate([n EXCEPT !.right = RightRotate(@)])
    [] OTHER -> n

(* tree_insert_internal: a key that is there already is refused. *)
Insert(n, k, v) ==
  LET ins[m \in Subtrees(n)] ==
        IF m = Nil THEN NewNode(k, v)
        ELSE LET r == Measured(CASE k < m.key -> [m EXCEPT !.left = ins[m.left]]
                                 [] k > m.key -> [m EXCEPT !.right = ins[m.right]]
                                 [] OTHER     -> m)
             IN  IF Crashed \in {r.left, r.right} THEN Crashed ELSE InsertCases(r, k)
  IN  ins[n]

(* The four cases at the end of tree_delete_internal. *)
DeleteCases(n) ==
  CASE Balance(n) > 1 /\ Balance(n.left) >= 0   -> RightRotate(n)
    [] Balance(n) > 1 /\ Balance(n.left) < 0    ->
         RightRotate([n EXCEPT !.left = LeftRotate(@)])
    [] Balance(n) < -1 /\ Balance(n.right) <= 0 -> LeftRotate(n)
    [] Balance(n) < -1 /\ Balance(n.right) > 0  ->
         LeftRotate([n EXCEPT !.right = RightRotate(@)])
    [] OTHER -> n

MinValueNode(n) ==
  LET at[i \in 0..Height(n)] ==
        IF i = 0 THEN n ELSE LET m == at[i - 1] IN IF m.left = Nil THEN m ELSE m.left
  IN  at[Height(n)]

(* tree_delete_internal.  "root = temp": the successor with what hangs below it
   is all that stays of the subtree of a node with two children.  Its own key
   is then looked for below it and not found. *)
Delete(n, k) ==
  LET del[m \in Subtrees(n)] == [j \in Key |->
        LET succ == MinValueNode(m.right)
            r == IF m = Nil THEN Nil
                 ELSE CASE j < m.key -> [m EXCEPT !.left = del[m.left][j]]
                        [] j > m.key -> [m EXCEPT !.right = del[m.right][j]]
                        [] OTHER     ->
                             IF m.left = Nil THEN m.right
                             ELSE IF m.right = Nil THEN m.left
                             ELSE [succ EXCEPT !.right = del[succ.right][succ.key]]
        IN  IF r = Nil THEN Nil ELSE DeleteCases(Measured(r))]
  IN  del[n][k]

(* tree_find_interval *)
Find(n, k) ==
  LET at[i \in 0..Height(n)] ==
        IF i = 0 THEN n
        ELSE LET m == at[i - 1] IN
             IF m = Nil THEN Nil
             ELSE CASE k < m.key -> m.left
                    [] k > m.key -> m.right
                    [] OTHER     -> m
  IN  at[Height(n)]

TreeFind(k) == IF Find(tree, k) = Nil THEN NoVal ELSE Find(tree, k).val

Init == tree = Nil /\ state = "sound" /\ lossy = FALSE

-----------------------------------------------------------------------------
(* The operations *)

(* A process that crashes ends: NewTree follows. *)
TreeInsert(k, v) ==
  /\ state = "sound" /\ Insert(tree, k, v) # Crashed
  /\ tree' = Insert(tree, k, v)
  /\ UNCHANGED <<state, lossy>>

(* The node of key k has exactly one child: "*root = *temp" copies the child's
   key pointer, and destroy_node(temp) frees the key. *)
FreesKey(k) ==
  LET n == Find(tree, k) IN n # Nil /\ (n.left = Nil) # (n.right = Nil)

TreeDelete(k) ==
  /\ state = "sound"
  /\ tree' = Delete(tree, k)
  /\ state' = IF FreesKey(k) THEN "freed" ELSE "sound"
  /\ lossy' = (lossy \/ KeysOf(tree') # KeysOf(tree) \ {k})

(* The process starts again and new_tree makes another tree. *)
NewTree == tree' = Nil /\ state' = "sound" /\ lossy' = FALSE

Next ==
  \/ \E k \in Key, v \in Val : TreeInsert(k, v)
  \/ \E k \in Key : TreeDelete(k)
  \/ NewTree

Spec == Init /\ [][Next]_vars

-----------------------------------------------------------------------------
(* Properties *)

(* The heights stored in the nodes are the heights of the subtrees and the
   keys are ordered, after whatever rotations and losses; and as long as no
   deletion lost keys, the tree is balanced. *)
Shape ==
  \A n \in Nodes(tree) :
    /\ n.key \in Key /\ n.val \in Val
    /\ n = Measured(n)
    /\ \A k \in KeysOf(n.left) : k < n.key
    /\ \A k \in KeysOf(n.right) : k > n.key
    /\ ~lossy => Balance(n) \in -1..1

K == INSTANCE KeywordTree WITH
       table <- IF state = "freed" THEN [k \in Key |-> NoVal]
                ELSE [k \in Key |-> TreeFind(k)]

(* The tree implements KeywordTree: until a key is freed, every key that was
   added and neither deleted nor lost is found with its first value. *)
KeywordTreeSpec == K!Spec

(* tree.c:221 "Copy the inorder successor's data to this node": the successor's
   data take the place of the deleted node's, and all other keys stay. *)
DeleteKeepsOthers ==
  [][\A k \in Key : TreeDelete(k) => KeysOf(tree') = KeysOf(tree) \ {k}]_vars
=============================================================================
