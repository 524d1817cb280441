---------------------------- MODULE DBLinkedList ----------------------------
(***************************************************************************)
(* src/chapter3/DBLinkedList: a doubly linked list, the queue and the      *)
(* stack made of it.  A heap h is a pair of functions, h.next and h.prev;  *)
(* the caller keeps one pointer and stores what each function returns.  A  *)
(* function is one action, but for the sorts, whose loops are a step for   *)
(* each iteration.  malloc does not fail.                                  *)
(***************************************************************************)
EXTENDS Integers, Sequences, FiniteSets

CONSTANTS
  MaxNode,   \* bound: nodes allocated at once
  MaxData    \* bound: data pointers

ASSUME DBLinkedListAssumption == MaxNode \in Nat /\ MaxData \in Nat

Node == 1..MaxNode
Null == 0
Data == 1..MaxData
KeyOf(d) == (d + 1) \div 2      \* pairs of data are equal to a comparison
Misplaced(d, e) == KeyOf(d) > KeyOf(e)

VARIABLES
  heap,     \* the links of the allocated nodes
  data,     \* their data
  list,     \* the caller's pointer
  leaked,   \* history: a removal without a match has returned NULL
  sort,     \* the sort that is running: "none", "bubble", "insert"
  node,     \* its node, or remember_node
  last,     \* last_node of the bubble sort
  switched, \* is_switched of the bubble sort
  front,    \* list of the insertion sort
  unsorted  \* history: the data in the order in which the sort found them

loop == <<sort, node, last, switched, front, unsorted>>
vars == <<heap, data, list, leaked, loop>>

Allocated == DOMAIN data

-----------------------------------------------------------------------------
(* Walks *)

(* The nodes from n on by the links f, which end with NULL. *)
Walk(f, n) ==
  LET at[i \in 1..(Cardinality(DOMAIN f) + 1)] ==
        IF i = 1 THEN n ELSE LET m == at[i - 1] IN IF m = Null THEN Null ELSE f[m]
  IN  [i \in 1..Cardinality({i \in DOMAIN at : at[i] # Null}) |-> at[i]]

EndOf(f, n) == IF n = Null THEN Null ELSE LET w == Walk(f, n) IN w[Len(w)]
FirstNode(h, n) == EndOf(h.prev, n)
LastNode(h, n)  == EndOf(h.next, n)

Nodes == Walk(heap.next, list)
DataOf(nodes) == [i \in DOMAIN nodes |-> data[nodes[i]]]

(* d_list_nth_for, counted from 0 *)
NthNode(i) == IF i < Len(Nodes) THEN Nodes[i + 1] ELSE Null

(* d_list_find_data and the loop of d_list_remove_with_data: the first node
   whose data are among ds. *)
NodeOf(ds) ==
  LET found == {i \in DOMAIN Nodes : data[Nodes[i]] \in ds}
  IN  IF found = {} THEN Null ELSE Nodes[CHOOSE i \in found : \A j \in found : i <= j]

Init ==
  /\ heap = [next |-> <<>>, prev |-> <<>>] /\ data = <<>>
  /\ list = Null /\ leaked = FALSE
  /\ sort = "none" /\ node = Null /\ last = Null /\ switched = FALSE /\ front = Null
  /\ unsorted = <<>>

-----------------------------------------------------------------------------
(* Adding *)

NewNode == CHOOSE n \in Node \ Allocated : TRUE

With(f, n, v) == [m \in DOMAIN f \cup {n} |-> IF m = n THEN v ELSE f[m]]
SetNext(h, n, m) == [h EXCEPT !.next = With(@, n, m)]
SetPrev(h, n, m) == [h EXCEPT !.prev = With(@, n, m)]

(* p->next->prev = m where p->next may be NULL, and its mirror image. *)
SetPrevOf(h, n, m) == IF n = Null THEN h ELSE SetPrev(h, n, m)
SetNextOf(h, n, m) == IF n = Null THEN h ELSE SetNext(h, n, m)

Add(d) ==
  /\ sort = "none" /\ Node \ Allocated # {} /\ d \notin {data[m] : m \in Allocated}
  /\ data' = With(data, NewNode, d)
  /\ UNCHANGED <<leaked, loop>>

(* d_list_append, push of Queue.c and Stack.c *)
DAppend(d) ==
  LET n == NewNode  end == LastNode(heap, list)
  IN  /\ Add(d)
      /\ heap' = SetNextOf(SetPrev(SetNext(heap, n, Null), n, end), end, n)
      /\ list' = IF list = Null THEN n ELSE list

InsertFirst(d) ==
  LET n == NewNode
  IN  /\ Add(d)
      /\ heap' = SetPrevOf(SetPrev(SetNext(heap, n, list), n, Null), list, n)
      /\ list' = n

(* d_list_insert: nothing happens when there is no node i. *)
InsertNth(d, i) ==
  LET n == NewNode  at == NthNode(i)
  IN  /\ Add(d)
      /\ at # Null
      /\ heap' = SetPrev(SetNext(SetPrev(SetNextOf(heap, heap.prev[at], n),
                                         n, heap.prev[at]), n, at), at, n)
      /\ list' = IF at = list THEN n ELSE list

-----------------------------------------------------------------------------
(* Removing *)

Without(f, n) == [m \in DOMAIN f \ {n} |-> f[m]]

(* Mutant: the node after keeps its link. *)
UnlinkForward(h, n) == SetNextOf(h, h.prev[n], h.next[n])
Unlink(h, n) == SetPrevOf(SetNextOf(h, h.prev[n], h.next[n]), h.next[n], h.prev[n])

(* d_list_remove, d_list_delete: the first node of the rest is returned. *)
RemoveNode(n) ==
  /\ sort = "none"
  /\ LET h == Unlink(heap, n)
     IN  heap' = [next |-> Without(h.next, n), prev |-> Without(h.prev, n)]
  /\ data' = Without(data, n)
  /\ list' = IF n = FirstNode(heap, n) THEN heap.next[n] ELSE FirstNode(heap, n)
  /\ UNCHANGED <<leaked, loop>>

RemoveWithData(d) == NodeOf({d}) # Null /\ RemoveNode(NodeOf({d}))

(* d_list_remove_with_user_data: what matches is the key here. *)
RemoveWithUserData(k) ==
  LET n == NodeOf({d \in Data : KeyOf(d) = k})
  IN  \/ n # Null /\ RemoveNode(n)
      \/ /\ n = Null /\ sort = "none"
         /\ list' = Null
         /\ leaked' = (leaked \/ list # Null)
         /\ UNCHANGED <<heap, data, loop>>

(* pop of Queue.c and of Stack.c *)
QueuePop == list # Null /\ RemoveNode(list)
StackPop == list # Null /\ RemoveNode(LastNode(heap, list))

Free ==
  /\ sort = "none" /\ list # Null
  /\ LET gone == {Nodes[i] : i \in DOMAIN Nodes}  rest == Allocated \ gone
     IN  /\ heap' = [next |-> [m \in rest |-> heap.next[m]], prev |-> [m \in rest |-> heap.prev[m]]]
         /\ data' = [m \in rest |-> data[m]]
  /\ list' = Null
  /\ UNCHANGED <<leaked, loop>>

-----------------------------------------------------------------------------
(* Sorting *)

Start(which, n, end, first) ==
  /\ sort = "none"
  /\ sort' = which /\ node' = n /\ last' = end /\ front' = first
  /\ unsorted' = DataOf(Nodes)
  /\ UNCHANGED <<heap, data, list, leaked, switched>>

Return(first) ==
  /\ list' = first
  /\ sort' = "none" /\ node' = Null /\ last' = Null /\ switched' = FALSE /\ front' = Null
  /\ unsorted' = <<>>
  /\ UNCHANGED <<heap, data, leaked>>

(* d_list_switch_node: m follows n and comes to stand before it.  tmp1 and tmp2
   are m and n themselves. *)
Switch(h, n, m) ==
  LET a == SetPrevOf(SetNext(h, n, h.next[m]), h.next[m], n)
      b == SetNextOf(SetPrev(a, m, h.prev[n]), h.prev[n], m)
  IN  SetNext(SetPrev(b, n, m), m, n)

(* d_list_bubble_sort *)
BubbleSort ==
  /\ list # Null /\ heap.next[list] # Null
  /\ Start("bubble", list, LastNode(heap, list), Null)

BubbleCompare ==
  /\ sort = "bubble" /\ node # last /\ heap.next[node] # Null
  /\ LET m == heap.next[node]
     IN  \/ /\ Misplaced(data[node], data[m])
            /\ heap' = Switch(heap, node, m) /\ switched' = TRUE
            /\ UNCHANGED node
         \/ /\ ~Misplaced(data[node], data[m])
            /\ node' = m
            /\ UNCHANGED <<heap, switched>>
  /\ UNCHANGED <<data, list, leaked, sort, last, front, unsorted>>

BubbleAtEnd ==
  /\ sort = "bubble" /\ node # last /\ heap.next[node] = Null
  /\ last' = node
  /\ UNCHANGED <<heap, data, list, leaked, sort, node, switched, front, unsorted>>

BubblePassEnds ==
  /\ sort = "bubble" /\ node = last
  /\ LET first == FirstNode(heap, last)
     IN  \/ /\ switched /\ heap.prev[last] # Null
            /\ node' = first /\ last' = heap.prev[last] /\ switched' = FALSE
            /\ UNCHANGED <<heap, data, list, leaked, sort, front, unsorted>>
         \/ /\ ~(switched /\ heap.prev[last] # Null)
            /\ Return(first)

(* d_list_insert_sort: the last node from s back that is not misplaced. *)
(* Mutant: the loop stops at an equal key as at a greater one. *)
BackPastEqual(s, d) ==
  LET w == Walk(heap.prev, s)
      stays == {i \in DOMAIN w : KeyOf(data[w[i]]) < KeyOf(d)}
  IN  IF stays = {} THEN Null ELSE w[CHOOSE i \in stays : \A j \in stays : i <= j]
Back(s, d) ==
  LET w == Walk(heap.prev, s)
      stays == {i \in DOMAIN w : ~Misplaced(data[w[i]], d)}
  IN  IF stays = {} THEN Null ELSE w[CHOOSE i \in stays : \A j \in stays : i <= j]

(* d_list_prepend_node: n, which has a node before it, moves to behind s, or to
   the front. *)
Prepend(h, s, n) ==
  LET before == h.prev[n]  after == h.next[n]
      a == IF s # Null
           THEN SetPrev(SetNext(SetNext(h, s, n), n, h.next[s]), h.next[s], n)
           ELSE SetPrev(SetNext(h, n, front), front, n)
  IN  SetPrevOf(SetNext(SetPrev(a, n, s), before, after), after, before)

InsertSort == list # Null /\ Start("insert", heap.next[list], Null, list)

InsertNode ==
  /\ sort = "insert" /\ node # Null
  /\ LET before == heap.prev[node]  s == Back(before, data[node])
     IN  \/ s = before /\ UNCHANGED <<heap, front>>
         \/ /\ s # before
            /\ heap' = Prepend(heap, s, node)
            /\ front' = IF s = Null THEN node ELSE front
  /\ node' = heap.next[node]
  /\ UNCHANGED <<data, list, leaked, sort, last, switched, unsorted>>

InsertEnds == sort = "insert" /\ node = Null /\ Return(front)

Next ==
  \/ \E d \in Data : DAppend(d) \/ InsertFirst(d) \/ RemoveWithData(d)
  \/ \E d \in Data, i \in 0..MaxNode : InsertNth(d, i)
  \/ \E i \in DOMAIN Nodes : RemoveNode(Nodes[i])
  \/ \E k \in {KeyOf(d) : d \in Data} : RemoveWithUserData(k)
  \/ QueuePop \/ StackPop \/ Free
  \/ BubbleSort \/ BubbleCompare \/ BubbleAtEnd \/ BubblePassEnds
  \/ InsertSort \/ InsertNode \/ InsertEnds

Spec == Init /\ [][Next]_vars

-----------------------------------------------------------------------------
(* Properties *)

(* No link leads to a node that was freed and both directions agree, after any
   sequence of operations and between the steps of a sort; the pointer kept is
   that of the first node, and no node but those of a list that was forgotten is
   lost. *)
Links ==
  /\ \A n \in Allocated :
       /\ heap.next[n] # Null => heap.next[n] \in Allocated /\ heap.prev[heap.next[n]] = n
       /\ heap.prev[n] # Null => heap.prev[n] \in Allocated /\ heap.next[heap.prev[n]] = n
  /\ sort = "none" =>
       /\ list # Null => heap.prev[list] = Null
       /\ ~leaked => Allocated = {Nodes[i] : i \in DOMAIN Nodes}

(* What the list stands for: while a sort runs, what the sort found. *)
Held == IF sort = "none" THEN DataOf(Nodes) ELSE unsorted

L == INSTANCE LinkedList WITH seq <- Held

(* The list implements the sequence it stands for: every operation keeps the
   order of what it does not touch, and both sorts are stable. *)
LinkedListSpec == L!Spec
=============================================================================
