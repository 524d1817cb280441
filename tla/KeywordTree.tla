----------------------------- MODULE KeywordTree -----------------------------
(***************************************************************************)
(* What the keyword tree of a database promises: a table from keys to      *)
(* entry ids.  A key is added if it is new and keeps its id if it is not.  *)
(* Deleting a key removes it and nothing that is not there, but it may     *)
(* lose other keys, or leave a node in the tree whose key was freed.  From *)
(* then on ("freed") a search compares bytes that belong to others: it may *)
(* find anything, and the table stands for nothing.                        *)
(***************************************************************************)
CONSTANTS
  Key,
  Val,
  NoVal   \* not in Val

VARIABLES
  state,  \* "sound" or "freed"
  table

vars == <<state, table>>

Empty == [k \in Key |-> NoVal]

Init == state = "sound" /\ table = Empty

Insert(k, v) ==
  /\ table' = IF state = "sound" /\ table[k] = NoVal
              THEN [table EXCEPT ![k] = v] ELSE table
  /\ UNCHANGED state

(* Keys are lost only if k was there. *)
DeleteSound(k) ==
  /\ state' = "sound"
  /\ \E lost \in SUBSET {j \in Key \ {k} : table[j] # NoVal} :
       /\ table[k] = NoVal => lost = {}
       /\ table' = [j \in Key |-> IF j \in lost \cup {k} THEN NoVal ELSE table[j]]

(* A freed key is that of the one child of k's node. *)
DeleteFreeing(k) ==
  /\ table[k] # NoVal
  /\ \E j \in Key \ {k} : table[j] # NoVal
  /\ state' = "freed"
  /\ table' = Empty

Delete(k) ==
  \/ state = "sound" /\ (DeleteSound(k) \/ DeleteFreeing(k))
  \/ state = "freed" /\ UNCHANGED vars

(* A new tree takes the place of the old one. *)
Renew == state' = "sound" /\ table' = Empty

Next ==
  \/ \E k \in Key, v \in Val : Insert(k, v)
  \/ Renew
  \/ \E k \in Key : Delete(k)

Spec == Init /\ [][Next]_vars
=============================================================================
