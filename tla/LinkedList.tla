----------------------------- MODULE LinkedList -----------------------------
(***************************************************************************)
(* What a list of DBLinkedList.c stands for: a sequence of data pointers.  *)
(* The one surprise is part of the promise: to remove what is not there    *)
(* returns NULL, and a caller that stores it has an empty list.            *)
(***************************************************************************)
EXTENDS Integers, Sequences, SequencesExt

CONSTANTS
  Data,      \* data pointers
  KeyOf(_)   \* what the comparison of a sort looks at

VARIABLE seq

vars == seq

Init == seq = <<>>

Insert(d, i) == d \notin ToSet(seq) /\ seq' = InsertAt(seq, i, d)
RemoveOne(i) == seq' = RemoveAt(seq, i)
RemoveMissing == seq' = <<>>

(* Ascending, and equal keys keep their order. *)
IsStableSort(s, t) ==
  /\ Len(s) = Len(t) /\ ToSet(s) = ToSet(t)
  /\ \A i, j \in DOMAIN t : i < j =>
       \/ KeyOf(t[i]) < KeyOf(t[j])
       \/ KeyOf(t[i]) = KeyOf(t[j]) /\ \E a, b \in DOMAIN s : a < b /\ s[a] = t[i] /\ s[b] = t[j]

Sort == IsStableSort(seq, seq')
Free == seq' = <<>>

Next ==
  \/ \E d \in Data, i \in 1..(Len(seq) + 1) : Insert(d, i)
  \/ \E i \in DOMAIN seq : RemoveOne(i)
  \/ RemoveMissing \/ Sort \/ Free

Spec == Init /\ [][Next]_vars
=============================================================================
