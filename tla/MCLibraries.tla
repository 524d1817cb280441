----------------------------- MODULE MCLibraries -----------------------------
(***************************************************************************)
(* The repository's three container libraries for TLC: the two that        *)
(* Messenger_v2 uses and the B-tree exercise.  They share no state; a      *)
(* behaviour exercises one of them.                                        *)
(***************************************************************************)
EXTENDS Containers

CONSTANTS M, MaxBKey

VARIABLES subject, root, bLossy

avlTree == <<tree, state, lossy>>
bTree   == <<root, bLossy>>
libraries == <<subject, avlTree, vars, bTree>>

B == INSTANCE BTree WITH MaxKey <- MaxBKey, lossy <- bLossy

LibInit == subject \in {"AVL_Tree", "DBLinkedList", "btree2"} /\ A!Init /\ Init /\ B!Init

LibNext ==
  \/ subject = "AVL_Tree" /\ A!Next /\ UNCHANGED <<subject, vars, bTree>>
  \/ subject = "DBLinkedList" /\ Next /\ UNCHANGED <<subject, avlTree, bTree>>
  \/ subject = "btree2" /\ B!Next /\ UNCHANGED <<subject, avlTree, vars>>

LibSpec == LibInit /\ [][LibNext]_libraries

(* btree.c: the keys btree_find finds and the depth of the leaves (BTree!BTreeKeeps). *)
BTreeKeeps == B!BTreeKeeps
=============================================================================
