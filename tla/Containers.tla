----------------------------- MODULE Containers ------------------------------
(***************************************************************************)
(* The linked list and the AVL tree side by side: what the project states  *)
(* and proves of the two container libraries that Messenger_v2 uses.  They *)
(* share no state.                                                         *)
(***************************************************************************)
EXTENDS DBLinkedList

CONSTANTS MaxKey, Val

VARIABLES tree, state, lossy

ASSUME TreeAssumption == MaxKey \in Nat /\ Val \subseteq Nat

A == INSTANCE AvlTree

(* tree.c: the tree is balanced and has its heights right (AvlTree!Shape). *)
Shape == A!Shape

(* tree.c implements a table of keys (AvlTree!KeywordTreeSpec). *)
KeywordTreeSpec == A!KeywordTreeSpec
=============================================================================
