-------------------------- MODULE Messanger_proof --------------------------
(***************************************************************************)
(* The array, the clients and the message file of the first messenger, for *)
(* every number of descriptors, slots and messages and every size of a     *)
(* page: a client's pages join and it is told of what others send, a       *)
(* request is handled only for a client that is known, and a client leaves *)
(* the array only where two hang up in one round.                          *)
(***************************************************************************)
EXTENDS Messanger, SequenceLemmas, FiniteSetTheorems

-----------------------------------------------------------------------------
(* The inductive invariant *)

(* accept() gives out the descriptors in order, *)
Numbered == \E n \in 0..MaxConn : Accepted = 1..n

(* a record is the only one of its descriptor, which has been given out, and
   whoever is connected has one, *)
Recorded ==
  /\ \A i, j \in 1..Len(clients) : i # j => clients[i].fd # clients[j].fd
  /\ \A i \in 1..Len(clients) : peer[clients[i].fd] # "none"
  /\ \A c \in Conn : peer[c] = "open" => c \in Records
  /\ \A c \in Conn : request[c] # "none" => peer[c] # "none"

Pending(j) == array[j].revents # ""

(* what poll() said of a slot stays true in the round: of equal descriptors it
   said the same, a hang-up is one, and a request is that of a client, *)
Reports ==
  /\ \A i, j \in Slot : Pending(i) /\ Pending(j) /\ array[i].fd = array[j].fd
                          => array[i].revents = array[j].revents
  /\ \A j \in Slot : array[j].revents = "HUP" => array[j].fd \in hungUp
  /\ \A j \in Slot : array[j].revents = "IN" => array[j].fd \in Records
  /\ \A c \in hungUp : peer[c] = "closed"

(* after p slots the array is at most p slots shorter than it was, and what
   lies beyond its end was moved there by a client's removal, *)
Places ==
  /\ mode = "poll" => \A j \in Slot : ~Pending(j)
  /\ mode = "accept" => \A j \in Slot : Pending(j) => j < numfds
  /\ \E p \in Nat : \A j \in Slot : Pending(j) => p < j /\ j < numfds + p
  /\ \A j \in Slot : Pending(j) /\ j >= numfds => \E c \in hungUp : c \notin Records

(* and the pages of a client are the file up to its place in it. *)
PagesKept ==
  \A i \in 1..Len(clients) :
    /\ clients[i].offset <= Len(file)
    /\ clients[i].pages = SubSeq(file, 1, clients[i].offset)

IInv == TypeOK /\ Numbered /\ Recorded /\ Reports /\ Places /\ PagesKept

-----------------------------------------------------------------------------
(* Types *)

LEMMA Constants ==
  /\ MaxConn \in Nat /\ MaxConn > 0
  /\ PollSize \in Nat /\ PollSize > 0
  /\ PageSize \in Nat /\ PageSize > 0
BY MessangerAssumption

(* What lies before a number lies before a greater one. *)
LEMMA StillBefore ==
  ASSUME NEW j \in Nat \ {0}, NEW n \in Nat, NEW m \in Nat, j < n, n <= m
  PROVE  0 < j /\ j < m + 0 /\ ~(j >= m)
OBVIOUS

(* What is not before a place, and is not there, is behind it. *)
LEMMA Behind ==
  ASSUME NEW i \in Nat \ {0}, NEW j \in Nat \ {0}, j # i, j \notin 1..(i - 1)
  PROVE  i < j
OBVIOUS

(* A window that loses its last place while its first is passed by. *)
LEMMA Narrower ==
  ASSUME NEW p \in Nat, NEW i \in Nat, NEW j \in Nat, NEW n \in Nat,
         p < i, i < j, j < n + p, n >= 1
  PROVE  p + 1 < j /\ j < (n - 1) + (p + 1)
<1>1. p + 1 < j
  OBVIOUS
<1>2. (n - 1) + (p + 1) = n + p
  OBVIOUS
<1> QED
  BY <1>1, <1>2

LEMMA Successor == \A n \in Nat : n + 1 \in Nat
OBVIOUS

LEMMA NoShorter ==
  ASSUME NEW n \in Nat, NEW m, m = n
  PROVE  m \in Nat /\ n <= m
OBVIOUS

LEMMA InLonger ==
  ASSUME NEW n \in Nat, NEW m \in Nat, n <= m, NEW j \in 1..(n - 1)
  PROVE  j \in 1..(m - 1)
OBVIOUS

LEMMA OneLess ==
  ASSUME NEW top \in Nat, NEW n \in 1..top, n > 1
  PROVE  n - 1 \in 1..top
OBVIOUS

LEMMA Cleared ==
  ASSUME NEW S, NEW T, NEW r \in [fd : S, revents : T], "" \in T
  PROVE  /\ [r EXCEPT !.revents = ""] \in [fd : S, revents : T]
         /\ [r EXCEPT !.revents = ""].fd = r.fd
         /\ [r EXCEPT !.revents = ""].revents = ""
OBVIOUS

(* What the type invariant says of the elements. *)
LEMMA Elements ==
  ASSUME TypeOK
  PROVE  /\ Len(clients) \in Nat /\ Len(file) \in Nat /\ Len(author) \in Nat /\ numfds \in Nat
         /\ \A i \in 1..Len(clients) :
              /\ clients[i] \in Client
              /\ clients[i].fd \in Conn /\ clients[i].offset \in Nat
              /\ clients[i].told \in Seq(Mesg) /\ clients[i].pages \in Seq(Mesg)
         /\ \A j \in Slot : /\ array[j].fd \in Conn \cup {None}
                            /\ array[j].revents \in {"", "IN", "HUP"}
         /\ None \notin Conn
<1>0. clients \in Seq(Client) /\ file \in Seq(Mesg) /\ author \in Seq(Conn) /\ numfds \in 1..PollSize
  BY DEF TypeOK
<1>1. \A i \in 1..Len(clients) : clients[i] \in Client
  BY <1>0
<1>2. \A r \in Client : r.fd \in Conn /\ r.offset \in Nat /\ r.told \in Seq(Mesg) /\ r.pages \in Seq(Mesg)
  BY DEF Client
<1>3. Len(clients) \in Nat /\ Len(file) \in Nat /\ Len(author) \in Nat /\ numfds \in Nat
  BY <1>0, Constants
<1>4. \A j \in Slot : array[j] \in [fd : Conn \cup {None}, revents : {"", "IN", "HUP"}]
  BY DEF TypeOK
<1>5. None \notin Conn
  BY DEF None, Conn
<1> QED
  BY <1>1, <1>2, <1>3, <1>4, <1>5

(* The record that is found is the client's. *)
LEMMA RecordFound ==
  ASSUME TypeOK, NEW c \in Records
  PROVE  RecordOf(c) \in 1..Len(clients) /\ clients[RecordOf(c)].fd = c
BY DEF Records, RecordOf

(* A new connection has the first number that was not given out. *)
LEMMA NewNumber ==
  ASSUME TypeOK, Numbered
  PROVE  \E n \in 0..MaxConn :
           /\ Accepted = 1..n /\ Cardinality(Accepted) + 1 = n + 1
           /\ n + 1 \in Conn => peer[n + 1] = "none"
<1>1. PICK n \in 0..MaxConn : Accepted = 1..n
  BY DEF Numbered
<1>2. n \in Int /\ 1 \in Int /\ n \in Nat
  BY Constants
<1>3. Cardinality(1..n) = n
  BY <1>2, FS_Interval
<1>4. n + 1 \in Conn => peer[n + 1] = "none"
  BY <1>1, <1>2 DEF Accepted
<1> QED
  BY <1>1, <1>3, <1>4

(* A page goes on where the place is, and ends at the next one. *)
LEMMA PageProperties ==
  ASSUME TypeOK, NEW o \in 0..Len(file)
  PROVE  /\ PageFrom(o) \in Seq(Mesg)
         /\ PlaceAfter(o) \in o..Len(file)
         /\ SubSeq(file, 1, o) \o PageFrom(o) = SubSeq(file, 1, PlaceAfter(o))
<1> DEFINE e == IF o + PageSize < Len(file) THEN o + PageSize ELSE Len(file)
<1>0. file \in Seq(Mesg)
  BY DEF TypeOK
<1>1. file \in Seq(Mesg) /\ Len(file) \in Nat /\ o \in Nat /\ o <= Len(file)
  BY <1>0
<1>2. e \in o..Len(file)
  BY <1>1, Constants
<1>3. PageFrom(o) = SubSeq(file, o + 1, e)
  BY DEF PageFrom
<1> HIDE DEF e
<1>4. PageFrom(o) \in Seq(Mesg) /\ Len(PageFrom(o)) = e - o
  BY <1>1, <1>2, <1>3
<1>5. PlaceAfter(o) = e
  BY <1>1, <1>2, <1>4 DEF PlaceAfter
<1>6. SubSeq(file, 1, o) \o SubSeq(file, o + 1, e) = SubSeq(file, 1, e)
  <2>1. 1 \in 1..(Len(file) + 1) /\ o \in (1 - 1)..Len(file) /\ e \in o..Len(file)
    BY <1>1, <1>2
  <2> QED
    BY <2>1, <1>1, ConcatAdjacentSubSeq
<1> QED
  BY <1>2, <1>3, <1>4, <1>5, <1>6

-----------------------------------------------------------------------------
(* The steps of the clients *)

(* What does not change leaves the invariant alone. *)
LEMMA SameRecords ==
  ASSUME UNCHANGED clients
  PROVE  /\ Records' = Records
         /\ \A c : RecordOf(c)' = RecordOf(c)
BY DEF Records, RecordOf

LEMMA SameAccepted ==
  ASSUME \A c \in Conn : (peer'[c] = "none") <=> (peer[c] = "none")
  PROVE  Accepted' = Accepted
BY DEF Accepted

LEMMA ConnectStep ==
  ASSUME IInv, Connect
  PROVE  IInv'
<1> USE DEF IInv, Connect, round, store
<1>1. TypeOK'
  BY DEF TypeOK
<1>2. Numbered' /\ Recorded'
  BY DEF Numbered, Accepted, Recorded, Records
<1>3. Reports' /\ Places'
  BY DEF Reports, Places, Pending, Records
<1>4. PagesKept'
  BY DEF PagesKept
<1> QED
  BY <1>1, <1>2, <1>3, <1>4

LEMMA AskStep ==
  ASSUME IInv, NEW c \in Conn, NEW op \in Ops, Ask(c, op)
  PROVE  IInv'
<1> USE DEF IInv, Ask, round, store
<1>1. TypeOK'
  BY DEF TypeOK
<1>2. Recorded'
  <2>1. request \in [Conn -> Ops \cup {"none"}] /\ peer[c] = "open"
    BY DEF TypeOK
  <2> QED
    BY <2>1 DEF Recorded, Records
<1>3. Numbered' /\ PagesKept'
  BY DEF Numbered, Accepted, PagesKept
<1>4. Reports' /\ Places'
  BY DEF Reports, Places, Pending, Records
<1> QED
  BY <1>1, <1>2, <1>3, <1>4

LEMMA PeerCloseStep ==
  ASSUME IInv, NEW c \in Conn, PeerClose(c)
  PROVE  IInv'
<1> USE DEF IInv, PeerClose, round, store
<1>1. TypeOK'
  BY DEF TypeOK
<1>2. \A d \in Conn : /\ peer'[d] = IF d = c THEN "closed" ELSE peer[d]
                      /\ (peer'[d] = "none") <=> (peer[d] = "none")
  BY DEF TypeOK
<1>3. Accepted' = Accepted
  BY <1>2, SameAccepted
<1>4. Numbered'
  BY <1>3 DEF Numbered
<1>5. Recorded'
  <2>1. UNCHANGED clients /\ Records' = Records /\ UNCHANGED request
    BY SameRecords
  <2>2. \A i \in 1..Len(clients) : clients[i].fd \in Conn /\ peer'[clients[i].fd] # "none"
    BY <1>2, Elements DEF Recorded
  <2>3. \A d \in Conn : peer'[d] = "open" => d \in Records
    BY <1>2 DEF Recorded
  <2>4. \A d \in Conn : request[d] # "none" => peer'[d] # "none"
    BY <1>2 DEF Recorded
  <2> QED
    BY <2>1, <2>2, <2>3, <2>4 DEF Recorded
<1>6. Reports'
  <2>1. hungUp \subseteq Conn
    BY DEF TypeOK
  <2> QED
    BY <1>2, <2>1 DEF Reports, Pending, Records
<1>7. Places' /\ PagesKept'
  BY DEF Places, PagesKept, Pending, Records
<1> QED
  BY <1>1, <1>4, <1>5, <1>6, <1>7

-----------------------------------------------------------------------------
(* The steps of the loop *)

(* Which slots are in use. *)
LEMMA SlotNumbers ==
  ASSUME TypeOK
  PROVE  /\ Slot \subseteq Nat \ {0}
         /\ \A j \in Slot : j \in SlotsInUse <=> j < numfds
         /\ \A j \in 1..(numfds - 1) : j \in Slot /\ j < numfds
         /\ numfds > 1 => numfds - 1 \in Slot
         /\ numfds < PollSize => numfds \in Slot
         /\ numfds \in Nat /\ numfds >= 1
<1>1. numfds \in 1..PollSize /\ PollSize \in Nat
  BY Constants DEF TypeOK
<1> QED
  BY <1>1 DEF Slot, SlotsInUse

(* The slots that poll() reports of. *)
LEMMA PolledSlots ==
  ASSUME TypeOK, mode = "poll", Places, Poll
  PROVE  \A j \in Slot :
           /\ array'[j].fd = array[j].fd
           /\ array'[j].revents = IF j < numfds THEN Revents(array[j].fd) ELSE ""
<1>1. \A j \in Slot : j \in SlotsInUse <=> j < numfds
  BY SlotNumbers
<1>2. array \in [Slot -> [fd : Conn \cup {None}, revents : {"", "IN", "HUP"}]]
  BY DEF TypeOK
<1>3. \A j \in Slot : array[j] \in [fd : Conn \cup {None}, revents : {"", "IN", "HUP"}]
  BY <1>2
<1>4. \A j \in Slot : array[j].revents = ""
  BY DEF Places, Pending
<1>5. \A j \in Slot : array'[j] = IF j \in SlotsInUse
                                  THEN [array[j] EXCEPT !.revents = Revents(array[j].fd)]
                                  ELSE array[j]
  BY DEF Poll
<1> QED
  BY <1>1, <1>3, <1>4, <1>5

(* What is reported of a descriptor is so. *)
LEMMA ReventsProperties ==
  ASSUME TypeOK, Recorded, NEW c \in Conn \cup {None}
  PROVE  /\ Revents(c) \in {"", "IN", "HUP"}
         /\ Revents(c) # "" => c \in Conn
         /\ Revents(c) = "HUP" => peer[c] = "closed"
         /\ Revents(c) = "IN" => c \in Records
<1>1. CASE c = None
  BY <1>1 DEF Revents
<1>2. CASE c # None
  <2>1. c \in Conn /\ peer[c] \in {"none", "open", "closed"}
    BY <1>2 DEF TypeOK
  <2>2. CASE peer[c] = "closed"
    <3>1. Revents(c) = "HUP"
      BY <1>2, <2>2 DEF Revents
    <3> QED
      BY <2>1, <2>2, <3>1
  <2>3. CASE peer[c] # "closed" /\ request[c] # "none"
    <3>1. Revents(c) = "IN"
      BY <1>2, <2>3 DEF Revents
    <3> QED
      BY <2>1, <2>3, <3>1 DEF Recorded
  <2>4. CASE peer[c] # "closed" /\ request[c] = "none"
    <3>1. Revents(c) = ""
      BY <1>2, <2>4 DEF Revents
    <3> QED
      BY <3>1
  <2> QED
    BY <2>2, <2>3, <2>4
<1> QED
  BY <1>1, <1>2

LEMMA PollStep ==
  ASSUME IInv, Poll
  PROVE  IInv'
<1> USE DEF IInv
<1>1. /\ mode = "poll" /\ mode' \in {"accept", "events"}
      /\ UNCHANGED <<peer, waiting, request, numfds, clients, list, file, author>>
      /\ hungUp' = {c \in Polled : Revents(c) = "HUP"}
  <2>1. mode' \in {"accept", "events"}
    BY DEF Poll
  <2> QED
    BY <2>1 DEF Poll, outside, store
<1>2. \A j \in Slot : /\ array'[j].fd = array[j].fd
                      /\ array'[j].revents = IF j < numfds THEN Revents(array[j].fd) ELSE ""
  BY <1>1, PolledSlots
<1>3. \A j \in Slot : /\ array[j].fd \in Conn \cup {None}
                      /\ Revents(array[j].fd) \in {"", "IN", "HUP"}
  BY Elements, ReventsProperties
<1>4. \A j \in Slot : j < numfds => array[j].fd \in Polled
  BY SlotNumbers DEF Polled
<1>5. hungUp' \subseteq Conn /\ \A c \in hungUp' : peer[c] = "closed"
  <2>1. Polled \subseteq Conn \cup {None}
    BY SlotNumbers, <1>3 DEF Polled
  <2> QED
    BY <1>1, <2>1, ReventsProperties
<1>6. TypeOK'
  <2>1. array' \in [Slot -> [fd : Conn \cup {None}, revents : {"", "IN", "HUP"}]]
    <3>1. array' = [i \in Slot |-> IF i \in SlotsInUse
                                   THEN [array[i] EXCEPT !.revents = Revents(array[i].fd)]
                                   ELSE array[i]]
      BY DEF Poll
    <3>2. array \in [Slot -> [fd : Conn \cup {None}, revents : {"", "IN", "HUP"}]]
      BY DEF TypeOK
    <3> QED
      BY <3>1, <3>2, <1>3
  <2> QED
    BY <1>1, <1>5, <2>1 DEF TypeOK
<1>7. Numbered' /\ Recorded' /\ PagesKept'
  BY <1>1 DEF Numbered, Accepted, Recorded, Records, PagesKept
<1>8. Reports'
  <2>1. \A i, j \in Slot : array'[i].revents # "" /\ array'[j].revents # "" /\ array'[i].fd = array'[j].fd
                             => array'[i].revents = array'[j].revents
    BY <1>2
  <2>2. \A j \in Slot : array'[j].revents = "HUP" => array'[j].fd \in hungUp'
    BY <1>1, <1>2, <1>4
  <2>3. \A j \in Slot : array'[j].revents = "IN" => array'[j].fd \in Records'
    <3>1. Records' = Records
      BY <1>1, SameRecords
    <3> QED
      BY <3>1, <1>2, <1>3, ReventsProperties
  <2> QED
    BY <2>1, <2>2, <2>3, <1>1, <1>5 DEF Reports, Pending
<1>9. Places'
  <2>1. ASSUME NEW j \in Slot, Pending(j)'
        PROVE  j < numfds /\ 0 < j
    <3>1. array'[j].revents # ""
      BY <2>1 DEF Pending
    <3>2. j < numfds
      BY <3>1, <1>2
    <3>3. j \in Nat \ {0}
      BY SlotNumbers
    <3> QED
      BY <3>2, <3>3
  <2>2. \A j \in Slot : Pending(j)' => 0 < j /\ j < numfds' + 0
    BY <1>1, <2>1, SlotNumbers
  <2>3. \A j \in Slot : ~(Pending(j)' /\ j >= numfds')
    BY <1>1, <2>1, SlotNumbers
  <2> QED
    BY <1>1, <2>1, <2>2, <2>3 DEF Places
<1> QED
  BY <1>6, <1>7, <1>8, <1>9

LEMMA EndRoundStep ==
  ASSUME IInv, EndRound
  PROVE  IInv'
<1> USE DEF IInv
<1>1. /\ mode' = "poll" /\ hungUp' = {}
      /\ UNCHANGED <<peer, waiting, request, numfds, clients, list, file, author>>
      /\ array' = [i \in Slot |-> [fd |-> IF i < numfds THEN array[i].fd ELSE None, revents |-> ""]]
  BY DEF EndRound, outside, store
<1>2. TypeOK'
  <2>1. \A i \in Slot : array[i].fd \in Conn \cup {None}
    BY Elements
  <2>2. array' \in [Slot -> [fd : Conn \cup {None}, revents : {"", "IN", "HUP"}]]
    BY <1>1, <2>1
  <2> QED
    BY <1>1, <2>2 DEF TypeOK
<1>3. Numbered' /\ Recorded' /\ PagesKept'
  BY <1>1 DEF Numbered, Accepted, Recorded, Records, PagesKept
<1>4. \A i \in Slot : array'[i].revents = ""
  BY <1>1
<1>5. Reports'
  BY <1>1, <1>4 DEF Reports, Pending
<1>6. Places'
  BY <1>1, <1>4 DEF Places, Pending
<1> QED
  BY <1>2, <1>3, <1>5, <1>6

(* A new slot does not disturb the others. *)
LEMMA AddProperties ==
  ASSUME TypeOK, Places, mode = "accept", NEW fd \in Conn \cup {None}, Add(fd)
  PROVE  /\ array' \in [Slot -> [fd : Conn \cup {None}, revents : {"", "IN", "HUP"}]]
         /\ numfds' \in 1..PollSize /\ numfds <= numfds'
         /\ mode' \in {"events", "undef"}
         /\ \A j \in Slot : /\ array'[j].revents # "" => array'[j] = array[j] /\ j < numfds
                            /\ j < numfds => array'[j] = array[j]
<1>1. array \in [Slot -> [fd : Conn \cup {None}, revents : {"", "IN", "HUP"}]]
  BY DEF TypeOK
<1>2. numfds \in 1..PollSize /\ PollSize \in Nat
  BY Constants DEF TypeOK
<1>3. \A j \in Slot : array[j].revents # "" => j < numfds
  BY DEF Places, Pending
<1>4. \A j \in Slot : j \in Nat
  BY SlotNumbers
<1>5. CASE numfds < PollSize
  <2>1. numfds # PollSize
    BY <1>2, <1>5
  <2>2. array' = [array EXCEPT ![numfds] = [fd |-> fd, revents |-> ""]]
    BY <2>1 DEF Add
  <2>3. numfds' \in 1..PollSize /\ numfds <= numfds' /\ mode' = "events"
    <3>1. numfds' = numfds + 1 /\ mode' = "events"
      BY <2>1 DEF Add
    <3> QED
      BY <1>2, <1>5, <3>1
  <2>4. array' \in [Slot -> [fd : Conn \cup {None}, revents : {"", "IN", "HUP"}]]
    BY <1>1, <2>2
  <2>5. \A j \in Slot : array'[j] = IF j = numfds THEN [fd |-> fd, revents |-> ""] ELSE array[j]
    BY <1>1, <2>2
  <2>6. \A j \in Slot : array'[j].revents # "" => array'[j] = array[j] /\ j < numfds
    <3>1. ASSUME NEW j \in Slot, array'[j].revents # ""
          PROVE  array'[j] = array[j] /\ j < numfds
      <4>1. array'[j] = IF j = numfds THEN [fd |-> fd, revents |-> ""] ELSE array[j]
        BY <2>5
      <4>2. j # numfds
        <5>1. [fd |-> fd, revents |-> ""].revents = ""
          OBVIOUS
        <5>2. j = numfds => array'[j].revents = ""
          BY <4>1, <5>1, Zenon
        <5> QED
          BY <3>1, <5>2, Zenon
      <4> QED
        BY <1>3, <3>1, <4>1, <4>2
    <3> QED
      BY <3>1
  <2>7. \A j \in Slot : j < numfds => j # numfds
    BY <1>2, <1>4
  <2> QED
    BY <2>2, <2>3, <2>4, <2>5, <2>6, <2>7
<1>6. CASE ~(numfds < PollSize)
  <2>1. mode' = "undef" /\ UNCHANGED <<array, numfds>>
    BY <1>6 DEF Add
  <2>2. numfds' \in 1..PollSize /\ numfds <= numfds'
    BY <1>2, <2>1
  <2> QED
    BY <1>1, <1>3, <2>1, <2>2
<1> QED
  BY <1>5, <1>6

(* What holds of the rounds after an accept() holds if the records are still
   there, and no hang-up is the new client's. *)
LEMMA AddStep ==
  ASSUME TypeOK, Reports, Places, mode = "accept", NEW fd \in Conn \cup {None}, Add(fd),
         UNCHANGED hungUp, Records \subseteq Records', Records' \cap hungUp \subseteq Records,
         \A c \in hungUp : peer'[c] = peer[c]
  PROVE  Reports' /\ Places'
<1>1. /\ numfds' \in 1..PollSize /\ numfds <= numfds'
      /\ mode' \in {"events", "undef"}
      /\ \A j \in Slot : array'[j].revents # "" => array'[j] = array[j] /\ j < numfds
  BY AddProperties
<1>2. numfds \in Nat /\ numfds' \in Nat
  <2>1. numfds' \in 1..PollSize
    BY <1>1
  <2> QED
    BY <2>1, Constants, SlotNumbers
<1>3. ASSUME NEW j \in Slot, array'[j].revents # ""
      PROVE  0 < j /\ j < numfds' + 0 /\ ~(j >= numfds')
  <2>1. j \in Nat \ {0}
    BY SlotNumbers
  <2>2. j < numfds /\ numfds <= numfds'
    BY <1>1, <1>3
  <2> QED
    BY <1>2, <2>1, <2>2, StillBefore
<1>4. Places'
  BY <1>1, <1>3 DEF Places, Pending
<1>5. ASSUME NEW i \in Slot, NEW j \in Slot,
             array'[i].revents # "", array'[j].revents # "", array'[i].fd = array'[j].fd
      PROVE  array'[i].revents = array'[j].revents
  <2>1. array'[i] = array[i] /\ array'[j] = array[j]
    BY <1>1, <1>5
  <2> QED
    BY <1>5, <2>1 DEF Reports, Pending
<1>6. \A j \in Slot : array'[j].revents = "HUP" => array'[j].fd \in hungUp
  BY <1>1 DEF Reports
<1>7. \A j \in Slot : array'[j].revents = "IN" => array'[j].fd \in Records'
  BY <1>1 DEF Reports
<1>8. \A c \in hungUp : peer'[c] = "closed"
  BY DEF Reports
<1> QED
  BY <1>4, <1>5, <1>6, <1>7, <1>8 DEF Reports, Pending

LEMMA AcceptStep ==
  ASSUME IInv, Accept
  PROVE  IInv'
<1> USE DEF IInv
<1>1. PICK n \in 0..MaxConn :
        /\ Accepted = 1..n /\ Cardinality(Accepted) + 1 = n + 1
        /\ n + 1 \in Conn => peer[n + 1] = "none"
  BY NewNumber
<1>2. /\ mode = "accept"
      /\ \/ n + 1 \in Conn /\ Accepting(n + 1) /\ Add(n + 1)
         \/ n + 1 \notin Conn /\ Add(None) /\ UNCHANGED <<peer, waiting, clients>>
      /\ UNCHANGED <<request, list, file, author, hungUp>>
  BY <1>1 DEF Accept
<1>3. CASE n + 1 \notin Conn /\ Add(None) /\ UNCHANGED <<peer, waiting, clients>>
  <2>1. Records' = Records
    BY <1>3, SameRecords
  <2>2. TypeOK'
    BY <1>2, <1>3, AddProperties DEF TypeOK
  <2>3. Reports' /\ Places'
    BY <1>2, <1>3, <2>1, AddStep
  <2>4. Numbered' /\ Recorded' /\ PagesKept'
    BY <1>2, <1>3 DEF Numbered, Accepted, Recorded, Records, PagesKept
  <2> QED
    BY <2>2, <2>3, <2>4
<1>4. CASE n + 1 \in Conn /\ Accepting(n + 1) /\ Add(n + 1)
  <2> DEFINE c == n + 1
             r == [fd |-> c, offset |-> 0, since |-> Len(author), told |-> <<>>, pages |-> <<>>]
  <2>1. /\ c \in Conn /\ peer[c] = "none"
        /\ peer' = [peer EXCEPT ![c] = "open"] /\ waiting' = FALSE
        /\ clients' = Append(clients, r)
    BY <1>1, <1>4 DEF Accepting
  <2>2. r \in Client /\ r.fd = c /\ r.offset = 0 /\ r.pages = <<>>
    <3>1. Len(author) \in Nat
      BY Elements
    <3>2. <<>> \in Seq(Mesg)
      OBVIOUS
    <3> QED
      BY <2>1, <3>1, <3>2 DEF Client
  <2> HIDE DEF r
  <2>3. clients \in Seq(Client) /\ Len(clients) \in Nat
    BY Elements DEF TypeOK
  <2>4. /\ clients' \in Seq(Client) /\ Len(clients') = Len(clients) + 1
        /\ \A i \in 1..Len(clients) : clients'[i] = clients[i]
        /\ clients'[Len(clients) + 1] = r
    BY <2>1, <2>2, <2>3, AppendProperties
  <2>5. \A i \in 1..Len(clients') : i \in 1..Len(clients) \/ i = Len(clients) + 1
    BY <2>3, <2>4
  <2>6. peer \in [Conn -> {"none", "open", "closed"}]
    BY DEF TypeOK
  <2>7. \A d \in Conn : peer'[d] = IF d = c THEN "open" ELSE peer[d]
    BY <2>1, <2>6
  <2>8. Records' = Records \cup {c}
    <3>1. \A i \in 1..Len(clients) : i \in 1..Len(clients')
      BY <2>3, <2>4
    <3>2. Len(clients) + 1 \in 1..Len(clients')
      BY <2>3, <2>4
    <3> QED
      BY <2>2, <2>4, <2>5, <3>1, <3>2 DEF Records
  <2>9. TypeOK'
    <3>1. /\ array' \in [Slot -> [fd : Conn \cup {None}, revents : {"", "IN", "HUP"}]]
          /\ numfds' \in 1..PollSize /\ mode' \in {"events", "undef"}
      BY <1>2, <1>4, AddProperties
    <3>2. peer' \in [Conn -> {"none", "open", "closed"}] /\ waiting' \in BOOLEAN
      BY <2>1, <2>6
    <3> QED
      BY <1>2, <2>4, <3>1, <3>2 DEF TypeOK
  <2>10. Numbered'
    <3>1. n \in Nat /\ c \in 0..MaxConn
      BY <2>1, Constants DEF Conn
    <3>2. Accepted' = Accepted \cup {c}
      BY <2>1, <2>7 DEF Accepted
    <3>3. Accepted' = 1..c
      BY <1>1, <3>1, <3>2
    <3> QED
      BY <3>1, <3>3 DEF Numbered
  <2>11. Recorded'
    <3>1. \A i \in 1..Len(clients) : clients[i].fd \in Conn /\ peer[clients[i].fd] # "none" /\ clients[i].fd # c
      BY <2>1, Elements DEF Recorded
    <3>2. \A i, j \in 1..Len(clients) : i # j => clients[i].fd # clients[j].fd
      BY DEF Recorded
    <3>3. \A i, j \in 1..Len(clients') : i # j => clients'[i].fd # clients'[j].fd
      BY <2>2, <2>4, <2>5, <3>1, <3>2
    <3>4. \A i \in 1..Len(clients') : peer'[clients'[i].fd] # "none"
      BY <2>1, <2>2, <2>4, <2>5, <2>7, <3>1
    <3>5. \A d \in Conn : peer'[d] = "open" => d \in Records'
      BY <2>7, <2>8 DEF Recorded
    <3>6. \A d \in Conn : request'[d] # "none" => peer'[d] # "none"
      BY <1>2, <2>7 DEF Recorded
    <3> QED
      BY <3>3, <3>4, <3>5, <3>6 DEF Recorded
  <2>12. Reports' /\ Places'
    <3>1. \A d \in hungUp : d \in Conn /\ peer[d] = "closed" /\ d # c
      BY <2>1 DEF TypeOK, Reports
    <3>2. \A d \in hungUp : peer'[d] = peer[d]
      BY <2>7, <3>1
    <3>3. Records \subseteq Records' /\ Records' \cap hungUp \subseteq Records
      BY <2>8, <3>1
    <3> QED
      BY <1>2, <1>4, <3>2, <3>3, AddStep
  <2>13. PagesKept'
    <3>1. Len(file) \in Nat
      BY Elements
    <3>2. SubSeq(file, 1, 0) = <<>>
      BY SubSeqEmpty
    <3>3. \A i \in 1..Len(clients) : /\ clients[i].offset <= Len(file)
                                     /\ clients[i].pages = SubSeq(file, 1, clients[i].offset)
      BY DEF PagesKept
    <3>4. r.offset <= Len(file) /\ r.pages = SubSeq(file, 1, r.offset)
      BY <2>2, <3>1, <3>2
    <3>5. UNCHANGED file
      BY <1>2
    <3> QED
      BY <2>4, <2>5, <3>3, <3>4, <3>5 DEF PagesKept
  <2> QED
    BY <2>9, <2>10, <2>11, <2>12, <2>13
<1> QED
  BY <1>2, <1>3, <1>4

(* A slot that is handled is no longer pending; the others stay as they are. *)
LEMMA Handled ==
  ASSUME TypeOK, NEW i \in Slot, AtSlot(i),
         NEW r \in [fd : Conn \cup {None}, revents : {"", "IN", "HUP"}], r.revents = "",
         array' = [array EXCEPT ![i] = r]
  PROVE  /\ array' \in [Slot -> [fd : Conn \cup {None}, revents : {"", "IN", "HUP"}]]
         /\ array'[i] = r
         /\ \A j \in Slot : j # i => array'[j] = array[j]
         /\ \A j \in Slot : array'[j].revents # "" => /\ array'[j] = array[j] /\ array[j].revents # ""
                                                      /\ i < j
<1>1. array \in [Slot -> [fd : Conn \cup {None}, revents : {"", "IN", "HUP"}]]
  BY DEF TypeOK
<1>2. array' \in [Slot -> [fd : Conn \cup {None}, revents : {"", "IN", "HUP"}]]
  BY <1>1
<1>3. array'[i] = r
  BY <1>1
<1>4. \A j \in Slot : j # i => array'[j] = array[j]
  BY <1>1
<1>6. ASSUME NEW j \in Slot, array'[j].revents # ""
      PROVE  array'[j] = array[j] /\ array[j].revents # "" /\ i < j
  <2>1. j # i
    BY <1>3, <1>6, Zenon
  <2>2. array'[j] = array[j] /\ array[j].revents # ""
    BY <1>4, <1>6, <2>1
  <2>3. j \notin 1..(i - 1)
    BY <2>2 DEF AtSlot
  <2>4. i \in Nat \ {0} /\ j \in Nat \ {0}
    BY SlotNumbers
  <2>5. i < j
    BY <2>1, <2>3, <2>4, Behind
  <2> QED
    BY <2>2, <2>5
<1> QED
  BY <1>2, <1>3, <1>4, <1>6

(* So that what is known of the pending slots stays true. *)
LEMMA HandledStep ==
  ASSUME TypeOK, Reports, Places, NEW i \in Slot, AtSlot(i),
         NEW r \in [fd : Conn \cup {None}, revents : {"", "IN", "HUP"}], r.revents = "",
         array' = [array EXCEPT ![i] = r],
         UNCHANGED <<peer, hungUp>>, mode' \in {"events", "gone"},
         \/ numfds' = numfds /\ Records' = Records
         \/ /\ numfds' = numfds - 1 /\ array[i].revents = "HUP"
            /\ array[i].fd \in Records /\ Records' = Records \ {array[i].fd}
  PROVE  Reports' /\ Places'
<1>1. \A j \in Slot : array'[j].revents # "" =>
        array'[j] = array[j] /\ array[j].revents # "" /\ i < j
  BY Handled
<1>2. array[i].revents # ""
  BY DEF AtSlot
<1>3. ASSUME NEW j \in Slot, NEW k \in Slot,
             array'[j].revents # "", array'[k].revents # "", array'[j].fd = array'[k].fd
      PROVE  array'[j].revents = array'[k].revents
  <2>1. /\ array'[j] = array[j] /\ array[j].revents # ""
        /\ array'[k] = array[k] /\ array[k].revents # ""
    BY <1>1, <1>3
  <2>2. array[j].fd = array[k].fd
    BY <1>3, <2>1
  <2>3. array[j].revents = array[k].revents
    BY <2>1, <2>2 DEF Reports, Pending
  <2> QED
    BY <2>1, <2>3
<1>4. ASSUME NEW j \in Slot, array'[j].revents = "HUP"
      PROVE  array'[j].fd \in hungUp
  BY <1>1, <1>4 DEF Reports
<1>5. ASSUME NEW j \in Slot, array'[j].revents = "IN"
      PROVE  array'[j].fd \in Records'
  <2>1. array'[j] = array[j] /\ array[j].revents = "IN" /\ array[j].fd \in Records
    BY <1>1, <1>5 DEF Reports
  <2>2. CASE Records' = Records
    BY <2>1, <2>2
  <2>3. CASE array[i].revents = "HUP" /\ Records' = Records \ {array[i].fd}
    <3>1. array[j].fd # array[i].fd
      BY <2>1, <2>3 DEF Reports, Pending
    <3> QED
      BY <2>1, <2>3, <3>1
  <2> QED
    BY <2>2, <2>3
<1>6. Reports'
  BY <1>3, <1>4, <1>5 DEF Reports, Pending
<1>7. PICK p \in Nat : \A j \in Slot : array[j].revents # "" => p < j /\ j < numfds + p
  BY DEF Places, Pending
<1>8. numfds \in Nat /\ numfds >= 1 /\ \A j \in Slot : j \in Nat
  BY SlotNumbers
<1>9. \E q \in Nat : \A j \in Slot : array'[j].revents # "" => q < j /\ j < numfds' + q
  <2>1. CASE numfds' = numfds
    BY <1>1, <1>7, <2>1
  <2>2. CASE numfds' = numfds - 1
    <3>1. i \in Nat /\ p \in Nat /\ p + 1 \in Nat
      <4>1. i \in Nat
        BY <1>8
      <4> QED
        BY <4>1, Successor
    <3>2. p < i
      BY <1>2, <1>7
    <3>3. ASSUME NEW j \in Slot, array'[j].revents # ""
          PROVE  p + 1 < j /\ j < numfds' + (p + 1)
      <4>1. j \in Nat /\ i < j /\ j < numfds + p
        BY <1>1, <1>7, <1>8, <3>3
      <4> QED
        BY <1>8, <2>2, <3>1, <3>2, <4>1, Narrower
    <3> QED
      BY <3>1, <3>3
  <2> QED
    BY <2>1, <2>2
<1>10. ASSUME NEW j \in Slot, array'[j].revents # "", j >= numfds'
       PROVE  \E c \in hungUp : c \notin Records'
  <2>1. CASE numfds' = numfds /\ Records' = Records
    BY <1>1, <1>10, <2>1 DEF Places, Pending
  <2>2. CASE array[i].revents = "HUP" /\ Records' = Records \ {array[i].fd}
    BY <2>2 DEF Reports
  <2> QED
    BY <2>1, <2>2
<1> QED
  BY <1>6, <1>9, <1>10 DEF Places, Pending

(* A client that hangs up takes its record along, and no other's; there was a
   slot to remove. *)
LEMMA RemovalProperties ==
  ASSUME IInv, NEW i \in Slot, RemoveClientFd(i), array[i].fd \in Records
  PROVE  /\ array' = [array EXCEPT ![i] = [fd |-> LastSlot.fd, revents |-> ""]]
         /\ numfds' = numfds - 1 /\ numfds - 1 \in Slot /\ numfds' \in 1..PollSize
         /\ clients' \in Seq(Client)
         /\ Records' = Records \ {array[i].fd}
         /\ \A x, y \in 1..Len(clients') : x # y => clients'[x].fd # clients'[y].fd
         /\ \A x \in 1..Len(clients') : \E y \in 1..Len(clients) : clients'[x] = clients[y]
<1> USE DEF IInv
<1> DEFINE c == array[i].fd
<1> DEFINE k == RecordOf(c)
<1>1. /\ clients' = RemoveAt(clients, k)
      /\ array' = [array EXCEPT ![i] = [fd |-> LastSlot.fd, revents |-> ""]]
      /\ numfds' = numfds - 1
  BY DEF RemoveClientFd
<1>2. k \in 1..Len(clients) /\ clients[k].fd = c
  BY RecordFound
<1> HIDE DEF k
<1>3. clients \in Seq(Client) /\ Len(clients) \in Nat
  BY Elements DEF TypeOK
<1>4. /\ clients' \in Seq(Client) /\ Len(clients') = Len(clients) - 1
      /\ \A x \in 1..(Len(clients) - 1) :
           clients'[x] = IF x < k THEN clients[x] ELSE clients[x + 1]
  BY <1>1, <1>2, <1>3, RemoveAtProperties
<1> DEFINE Old(x) == IF x < k THEN x ELSE x + 1
<1>5. \A x \in 1..Len(clients') :
        /\ Old(x) \in 1..Len(clients) /\ Old(x) # k /\ clients'[x] = clients[Old(x)]
  <2>1. ASSUME NEW x \in 1..Len(clients')
        PROVE  Old(x) \in 1..Len(clients) /\ Old(x) # k /\ clients'[x] = clients[Old(x)]
    <3>1. x \in 1..(Len(clients) - 1)
      BY <1>4
    <3>2. Old(x) \in 1..Len(clients) /\ Old(x) # k
      BY <1>2, <1>3, <3>1
    <3> QED
      BY <1>4, <3>1, <3>2
  <2> QED
    BY <2>1
<1>6. \A x, y \in 1..Len(clients') : x # y => Old(x) # Old(y)
  BY <1>2, <1>3, <1>4
<1>7. \A y \in 1..Len(clients) : y # k => \E x \in 1..Len(clients') : Old(x) = y
  <2>1. ASSUME NEW y \in 1..Len(clients), y # k
        PROVE  \E x \in 1..Len(clients') : Old(x) = y
    <3>1. CASE y < k
      <4>1. y \in 1..Len(clients') /\ Old(y) = y
        BY <1>2, <1>3, <1>4, <3>1
      <4> QED
        BY <4>1
    <3>2. CASE y > k
      <4>1. y - 1 \in 1..Len(clients') /\ Old(y - 1) = y
        BY <1>2, <1>3, <1>4, <3>2
      <4> QED
        BY <4>1
    <3> QED
      BY <1>2, <1>3, <2>1, <3>1, <3>2
  <2> QED
    BY <2>1
<1> HIDE DEF Old
<1>8. \A x, y \in 1..Len(clients) : x # y => clients[x].fd # clients[y].fd
  BY DEF Recorded
<1>9. Records' = Records \ {c}
  <2>1. \A x \in 1..Len(clients') : clients'[x].fd \in Records /\ clients'[x].fd # c
    BY <1>2, <1>5, <1>8 DEF Records
  <2>2. ASSUME NEW d \in Records, d # c
        PROVE  d \in Records'
    <3>1. PICK y \in 1..Len(clients) : clients[y].fd = d
      BY DEF Records
    <3>2. PICK x \in 1..Len(clients') : Old(x) = y
      BY <1>2, <1>7, <2>2, <3>1
    <3> QED
      BY <1>5, <3>1, <3>2 DEF Records
  <2> QED
    BY <2>1, <2>2 DEF Records
<1>10. numfds - 1 \in Slot /\ numfds' \in 1..PollSize
  <2>1. PICK p \in Nat : \A j \in Slot : array[j].revents # "" => p < j /\ j < numfds + p
    BY DEF Places, Pending
  <2>2. p < i /\ i < numfds + p
    BY <2>1 DEF AtSlot, RemoveClientFd
  <2>3. i \in Nat /\ numfds \in Nat
    BY SlotNumbers
  <2>4. numfds > 1
    BY <2>2, <2>3
  <2>5. numfds \in 1..PollSize /\ PollSize \in Nat
    BY Constants DEF TypeOK
  <2>6. numfds - 1 \in 1..PollSize
    BY <2>4, <2>5, OneLess
  <2> QED
    BY <1>1, <2>4, <2>6, SlotNumbers
<1>11. \A x, y \in 1..Len(clients') : x # y => clients'[x].fd # clients'[y].fd
  BY <1>5, <1>6, <1>8
<1>12. \A x \in 1..Len(clients') : \E y \in 1..Len(clients) : clients'[x] = clients[y]
  BY <1>5
<1> QED
  BY <1>1, <1>4, <1>9, <1>10, <1>11, <1>12

LEMMA RemoveClientFdStep ==
  ASSUME IInv, NEW i \in Slot, RemoveClientFd(i)
  PROVE  IInv'
<1> USE DEF IInv
<1> DEFINE c == array[i].fd
<1>1. /\ AtSlot(i) /\ array[i].revents = "HUP" /\ mode = "events"
      /\ UNCHANGED <<peer, waiting, request, mode, list, file, author, hungUp>>
  BY DEF RemoveClientFd, AtSlot, outside
<1>2. c \in hungUp /\ c \in Conn /\ peer[c] = "closed"
  BY <1>1 DEF Reports, TypeOK
<1>3. Numbered'
  BY <1>1 DEF Numbered, Accepted
<1>4. array \in [Slot -> [fd : Conn \cup {None}, revents : {"", "IN", "HUP"}]]
  BY DEF TypeOK
<1>5. array[i] \in [fd : Conn \cup {None}, revents : {"", "IN", "HUP"}]
  BY <1>4
<1>6. CASE c \notin Records
  <2>1. array' = [array EXCEPT ![i].revents = ""] /\ UNCHANGED <<clients, numfds>>
    BY <1>6 DEF RemoveClientFd
  <2> DEFINE r == [array[i] EXCEPT !.revents = ""]
  <2>2. r \in [fd : Conn \cup {None}, revents : {"", "IN", "HUP"}] /\ r.revents = ""
    BY <1>5, Cleared
  <2>3. array' = [array EXCEPT ![i] = r]
    BY <1>4, <2>1
  <2> HIDE DEF r
  <2>4. array' \in [Slot -> [fd : Conn \cup {None}, revents : {"", "IN", "HUP"}]]
    BY <1>1, <2>2, <2>3, Handled
  <2>5. TypeOK'
    BY <1>1, <2>1, <2>4 DEF TypeOK
  <2>6. Records' = Records
    BY <2>1, SameRecords
  <2>7. Reports' /\ Places'
    BY <1>1, <2>1, <2>2, <2>3, <2>6, HandledStep
  <2>8. Recorded' /\ PagesKept'
    BY <1>1, <2>1 DEF Recorded, Records, PagesKept
  <2> QED
    BY <1>3, <2>5, <2>7, <2>8
<1>7. CASE c \in Records
  <2>1. /\ array' = [array EXCEPT ![i] = [fd |-> LastSlot.fd, revents |-> ""]]
        /\ numfds' = numfds - 1 /\ numfds - 1 \in Slot /\ numfds' \in 1..PollSize
        /\ clients' \in Seq(Client)
        /\ Records' = Records \ {c}
        /\ \A x, y \in 1..Len(clients') : x # y => clients'[x].fd # clients'[y].fd
        /\ \A x \in 1..Len(clients') : \E y \in 1..Len(clients) : clients'[x] = clients[y]
    BY <1>7, RemovalProperties
  <2>2. LastSlot.fd \in Conn \cup {None}
    BY <2>1, Elements DEF LastSlot
  <2> DEFINE r == [fd |-> LastSlot.fd, revents |-> ""]
  <2>3. /\ array' = [array EXCEPT ![i] = r]
        /\ r \in [fd : Conn \cup {None}, revents : {"", "IN", "HUP"}] /\ r.revents = ""
    BY <2>1, <2>2
  <2> HIDE DEF r
  <2>4. array' \in [Slot -> [fd : Conn \cup {None}, revents : {"", "IN", "HUP"}]]
    BY <1>1, <2>3, Handled
  <2>5. TypeOK'
    BY <1>1, <2>1, <2>4 DEF TypeOK
  <2>6. Reports' /\ Places'
    BY <1>1, <1>7, <2>1, <2>3, HandledStep
  <2>7. Recorded'
    <3>1. \A x \in 1..Len(clients') : peer[clients'[x].fd] # "none"
      BY <2>1 DEF Recorded
    <3>2. \A d \in Conn : peer[d] = "open" => d \in Records'
      BY <1>2, <2>1 DEF Recorded
    <3>3. \A d \in Conn : request[d] # "none" => peer[d] # "none"
      BY DEF Recorded
    <3> QED
      BY <1>1, <2>1, <3>1, <3>2, <3>3 DEF Recorded
  <2>8. PagesKept'
    BY <1>1, <2>1 DEF PagesKept
  <2> QED
    BY <1>3, <2>5, <2>6, <2>7, <2>8
<1> QED
  BY <1>6, <1>7

-----------------------------------------------------------------------------
(* The requests *)

(* A request is that of a client, and is not pending any longer. *)
LEMMA RequestProperties ==
  ASSUME IInv, NEW c \in Conn, NEW op \in Ops, Handling(c, op), mode' \in {"events", "gone"},
         Records' = Records
  PROVE  /\ mode = "events" /\ c \in Records
         /\ UNCHANGED <<peer, waiting, numfds, hungUp>>
         /\ request' \in [Conn -> Ops \cup {"none"}]
         /\ \A d \in Conn : request'[d] # "none" => peer[d] # "none"
         /\ array' \in [Slot -> [fd : Conn \cup {None}, revents : {"", "IN", "HUP"}]]
         /\ Reports' /\ Places'
<1> USE DEF IInv
<1>1. PICK i \in Slot : /\ AtSlot(i) /\ array[i] = [fd |-> c, revents |-> "IN"]
                        /\ array' = [array EXCEPT ![i].revents = ""]
  BY DEF Handling
<1>2. request' = [request EXCEPT ![c] = "none"] /\ UNCHANGED <<peer, waiting, numfds, hungUp>>
  BY DEF Handling
<1>3. mode = "events"
  BY <1>1 DEF AtSlot
<1>4. array[i].fd = c /\ array[i].revents = "IN"
  <2>1. array[i] = [fd |-> c, revents |-> "IN"]
    BY <1>1
  <2> QED
    BY <2>1
<1>5. c \in Records
  BY <1>4 DEF Reports
<1>6. array \in [Slot -> [fd : Conn \cup {None}, revents : {"", "IN", "HUP"}]]
  BY DEF TypeOK
<1>7. array[i] \in [fd : Conn \cup {None}, revents : {"", "IN", "HUP"}]
  BY <1>6
<1> DEFINE r == [array[i] EXCEPT !.revents = ""]
<1>8. r \in [fd : Conn \cup {None}, revents : {"", "IN", "HUP"}] /\ r.revents = ""
  BY <1>7, Cleared
<1>9. array' = [array EXCEPT ![i] = r]
  BY <1>1, <1>6
<1> HIDE DEF r
<1>10. array' \in [Slot -> [fd : Conn \cup {None}, revents : {"", "IN", "HUP"}]]
  BY <1>1, <1>8, <1>9, Handled
<1>11. Reports' /\ Places'
  BY <1>1, <1>2, <1>8, <1>9, HandledStep
<1>12. request \in [Conn -> Ops \cup {"none"}]
  BY DEF TypeOK
<1>13. request' \in [Conn -> Ops \cup {"none"}]
  BY <1>2, <1>12
<1>14. \A d \in Conn : request'[d] # "none" => peer[d] # "none"
  BY <1>2, <1>12 DEF Recorded
<1> QED
  BY <1>2, <1>3, <1>5, <1>10, <1>11, <1>13, <1>14

(* The invariant holds after a request if the records are those of the same
   clients, and their pages are kept. *)
LEMMA RequestStep ==
  ASSUME IInv, NEW c \in Conn, NEW op \in Ops, Handling(c, op), mode' \in {"events", "gone"},
         clients' \in Seq(Client), Len(clients') = Len(clients),
         \A i \in 1..Len(clients) : clients'[i].fd = clients[i].fd,
         list' \in Seq(Mesg), file' \in Seq(Mesg), author' \in Seq(Conn),
         PagesKept'
  PROVE  IInv'
<1> USE DEF IInv
<1>1. Records' = Records
  BY DEF Records
<1>2. /\ mode = "events" /\ c \in Records
      /\ UNCHANGED <<peer, waiting, numfds, hungUp>>
      /\ request' \in [Conn -> Ops \cup {"none"}]
      /\ \A d \in Conn : request'[d] # "none" => peer[d] # "none"
      /\ array' \in [Slot -> [fd : Conn \cup {None}, revents : {"", "IN", "HUP"}]]
      /\ Reports' /\ Places'
  BY <1>1, RequestProperties
<1>3. TypeOK'
  BY <1>2 DEF TypeOK
<1>4. Numbered'
  BY <1>2 DEF Numbered, Accepted
<1>5. Recorded'
  BY <1>1, <1>2 DEF Recorded
<1> QED
  BY <1>2, <1>3, <1>4, <1>5

LEMMA ReqAllMsgStep ==
  ASSUME IInv, NEW c \in Conn, ReqAllMsg(c)
  PROVE  IInv'
<1>1. mode = "events"
  BY DEF ReqAllMsg, Handling, AtSlot
<1>2. mode' \in {"events", "gone"}
  BY <1>1 DEF ReqAllMsg, Written
<1>3. UNCHANGED <<clients, list, file, author>> /\ Handling(c, "REQ_ALL_MSG")
  BY DEF ReqAllMsg, store
<1>4. PagesKept'
  BY <1>3 DEF IInv, PagesKept
<1>5. "REQ_ALL_MSG" \in Ops
  BY DEF Ops
<1>6. /\ clients' \in Seq(Client) /\ Len(clients') = Len(clients)
      /\ \A i \in 1..Len(clients) : clients'[i].fd = clients[i].fd
      /\ list' \in Seq(Mesg) /\ file' \in Seq(Mesg) /\ author' \in Seq(Conn)
  BY <1>3 DEF IInv, TypeOK
<1> QED
  BY <1>2, <1>3, <1>4, <1>5, <1>6, RequestStep

(* What is behind the end of a page does not matter to it. *)
LEMMA PrefixOfAppend ==
  ASSUME NEW S, NEW s \in Seq(S), NEW x \in S, NEW o \in 0..Len(s)
  PROVE  SubSeq(Append(s, x), 1, o) = SubSeq(s, 1, o)
<1>1. Len(s) \in Nat /\ o \in Nat /\ o <= Len(s)
  OBVIOUS
<1>2. /\ Append(s, x) \in Seq(S) /\ Len(Append(s, x)) = Len(s) + 1
      /\ \A i \in 1..Len(s) : Append(s, x)[i] = s[i]
  BY AppendProperties
<1>3. \A i \in 1..o : i \in 1..Len(s) /\ s[i] \in S /\ Append(s, x)[i] = s[i]
  BY <1>1, <1>2
<1> HIDE DEF Append
<1>4. /\ SubSeq(s, 1, o) \in Seq(S) /\ Len(SubSeq(s, 1, o)) = o
      /\ \A i \in 1..o : SubSeq(s, 1, o)[i] = s[i]
  BY <1>1, <1>3
<1>5. /\ SubSeq(Append(s, x), 1, o) \in Seq(S) /\ Len(SubSeq(Append(s, x), 1, o)) = o
      /\ \A i \in 1..o : SubSeq(Append(s, x), 1, o)[i] = Append(s, x)[i]
  BY <1>1, <1>2, <1>3
<1> QED
  BY <1>3, <1>4, <1>5, SeqEqual

(* The records after a message was pushed. *)
LEMMA ToldProperties ==
  ASSUME TypeOK, NEW c, NEW m \in Mesg, SendMessageToClients(c, m)
  PROVE  /\ clients' \in Seq(Client) /\ Len(clients') = Len(clients)
         /\ \A i \in 1..Len(clients) : /\ clients'[i].fd = clients[i].fd
                                       /\ clients'[i].offset = clients[i].offset
                                       /\ clients'[i].pages = clients[i].pages
         /\ mode' \in {mode, "gone"}
<1>1. clients \in Seq(Client) /\ Len(clients) \in Nat /\ DOMAIN clients = 1..Len(clients)
  <2>1. clients \in Seq(Client)
    BY DEF TypeOK
  <2> QED
    BY <2>1
<1>2. \A i \in 1..Len(clients) : clients[i] \in Client
  BY Elements
<1>3. PICK reached : clients' = [i \in DOMAIN clients |->
                       IF i \in reached THEN [clients[i] EXCEPT !.told = Append(@, m)] ELSE clients[i]]
  BY DEF SendMessageToClients
<1>4. ASSUME NEW i \in 1..Len(clients)
      PROVE  LET r == [clients[i] EXCEPT !.told = Append(@, m)]
             IN /\ r \in Client /\ r.fd = clients[i].fd
                /\ r.offset = clients[i].offset /\ r.pages = clients[i].pages
  <2>1. clients[i].told \in Seq(Mesg)
    BY Elements
  <2>2. Append(clients[i].told, m) \in Seq(Mesg)
    BY <2>1
  <2> QED
    BY <1>2, <2>2 DEF Client
<1>5. \A i \in 1..Len(clients) : /\ clients'[i] \in Client
                                 /\ clients'[i].fd = clients[i].fd
                                 /\ clients'[i].offset = clients[i].offset
                                 /\ clients'[i].pages = clients[i].pages
  BY <1>1, <1>2, <1>3, <1>4
<1>6. clients' \in [1..Len(clients) -> Client]
  BY <1>1, <1>3, <1>5
<1>7. clients' \in Seq(Client) /\ Len(clients') = Len(clients)
  BY <1>1, <1>6
<1>8. mode' \in {mode, "gone"}
  BY DEF SendMessageToClients
<1> QED
  BY <1>5, <1>7, <1>8

LEMMA SndMsgStep ==
  ASSUME IInv, NEW c \in Conn, SndMsg(c)
  PROVE  IInv'
<1> DEFINE m == Len(author) + 1
<1>1. /\ Handling(c, "SND_MSG")
      /\ author' = Append(author, c) /\ list' = Append(list, m)
      /\ \/ file' = Append(file, m) /\ SendMessageToClients(c, m)
         \/ UNCHANGED <<file, clients, mode>>
  BY DEF SndMsg
<1>2. m \in Mesg
  <2>1. TypeOK
    BY DEF IInv
  <2>2. Len(author) \in Nat
    BY <2>1, Elements
  <2> QED
    BY <2>2 DEF Mesg
<1> HIDE DEF m
<1>3. mode = "events" /\ "SND_MSG" \in Ops
  BY <1>1 DEF Handling, AtSlot, Ops
<1>4. clients \in Seq(Client) /\ list \in Seq(Mesg) /\ file \in Seq(Mesg) /\ author \in Seq(Conn)
  BY DEF IInv, TypeOK
<1>5. list' \in Seq(Mesg) /\ author' \in Seq(Conn)
  BY <1>1, <1>2, <1>4
<1>6. CASE UNCHANGED <<file, clients, mode>>
  <2>1. PagesKept'
    BY <1>6 DEF IInv, PagesKept
  <2> QED
    BY <1>1, <1>3, <1>4, <1>5, <1>6, <2>1, RequestStep
<1>7. CASE file' = Append(file, m) /\ SendMessageToClients(c, m)
  <2>1. /\ clients' \in Seq(Client) /\ Len(clients') = Len(clients)
        /\ \A i \in 1..Len(clients) : /\ clients'[i].fd = clients[i].fd
                                      /\ clients'[i].offset = clients[i].offset
                                      /\ clients'[i].pages = clients[i].pages
        /\ mode' \in {mode, "gone"}
    BY <1>2, <1>7, ToldProperties DEF IInv
  <2>2. file' \in Seq(Mesg) /\ Len(file') = Len(file) + 1
    BY <1>2, <1>4, <1>7
  <2>3. \A i \in 1..Len(clients) : clients[i].offset \in 0..Len(file)
    <3>1. \A i \in 1..Len(clients) : clients[i].offset \in Nat /\ clients[i].offset <= Len(file)
      BY Elements DEF IInv, PagesKept
    <3>2. Len(file) \in Nat
      BY <1>4
    <3> QED
      BY <3>1, <3>2
  <2>4. \A o \in 0..Len(file) : SubSeq(file', 1, o) = SubSeq(file, 1, o)
    BY <1>2, <1>4, <1>7, PrefixOfAppend
  <2>5. \A o \in 0..Len(file) : o <= Len(file')
    BY <1>4, <2>2
  <2>6. PagesKept'
    BY <2>1, <2>3, <2>4, <2>5 DEF IInv, PagesKept
  <2> QED
    BY <1>1, <1>3, <1>5, <2>1, <2>2, <2>6, RequestStep
<1> QED
  BY <1>1, <1>6, <1>7

(* The records after a page was sent. *)
LEMMA SendPageProperties ==
  ASSUME TypeOK, PagesKept, NEW c \in Records, NEW o \in 0..Len(file), NEW before,
         before = SubSeq(file, 1, o), SendPage(c, o, before), UNCHANGED file
  PROVE  /\ clients' \in Seq(Client) /\ Len(clients') = Len(clients)
         /\ \A i \in 1..Len(clients) : clients'[i].fd = clients[i].fd
         /\ mode' \in {mode, "gone"}
         /\ PagesKept'
<1>1. clients \in Seq(Client) /\ file \in Seq(Mesg)
  BY DEF TypeOK
<1>2. CASE PageFrom(o) = <<>>
  <2>1. UNCHANGED <<mode, clients>>
    BY <1>2 DEF SendPage
  <2> QED
    BY <1>1, <2>1 DEF PagesKept
<1>3. CASE PageFrom(o) # <<>>
  <2> DEFINE k == RecordOf(c)
             r == [clients[k] EXCEPT !.offset = PlaceAfter(o), !.pages = before \o PageFrom(o)]
  <2>1. clients' = [clients EXCEPT ![k].offset = PlaceAfter(o), ![k].pages = before \o PageFrom(o)]
    BY <1>3 DEF SendPage
  <2>2. mode' \in {mode, "gone"}
    BY <1>3 DEF SendPage, Written
  <2>3. k \in 1..Len(clients)
    BY RecordFound
  <2> HIDE DEF k
  <2>4. clients[k] \in Client
    BY <1>1, <2>3
  <2>5. clients' = [clients EXCEPT ![k] = r]
    BY <1>1, <2>1, <2>3
  <2>6. /\ PageFrom(o) \in Seq(Mesg) /\ PlaceAfter(o) \in o..Len(file)
        /\ before \o PageFrom(o) = SubSeq(file, 1, PlaceAfter(o))
    BY PageProperties
  <2>7. PlaceAfter(o) \in Nat /\ PlaceAfter(o) <= Len(file)
    BY <1>1, <2>6
  <2>8. before \o PageFrom(o) \in Seq(Mesg)
    BY <1>1, <2>6
  <2>9. /\ r \in Client /\ r.fd = clients[k].fd
        /\ r.offset = PlaceAfter(o) /\ r.pages = before \o PageFrom(o)
    BY <2>4, <2>7, <2>8 DEF Client
  <2> HIDE DEF r
  <2>10. /\ clients' \in Seq(Client) /\ Len(clients') = Len(clients)
         /\ clients'[k] = r /\ \A i \in 1..Len(clients) : i # k => clients'[i] = clients[i]
    BY <1>1, <2>3, <2>5, <2>9, ReplaceElement
  <2>11. \A i \in 1..Len(clients) : clients'[i].fd = clients[i].fd
    BY <2>9, <2>10
  <2>12. PagesKept'
    BY <2>6, <2>7, <2>9, <2>10 DEF PagesKept
  <2> QED
    BY <2>2, <2>10, <2>11, <2>12
<1> QED
  BY <1>2, <1>3

LEMMA PageStep ==
  ASSUME IInv, NEW c \in Conn, NEW op \in Ops, Handling(c, op), c \in Records,
         NEW o \in 0..Len(file), NEW before, before = SubSeq(file, 1, o),
         SendPage(c, o, before), UNCHANGED <<list, file, author>>
  PROVE  IInv'
<1>1. mode = "events"
  BY DEF Handling, AtSlot
<1>2. /\ clients' \in Seq(Client) /\ Len(clients') = Len(clients)
      /\ \A i \in 1..Len(clients) : clients'[i].fd = clients[i].fd
      /\ mode' \in {"events", "gone"}
      /\ PagesKept'
  BY <1>1, SendPageProperties DEF IInv
<1>3. list' \in Seq(Mesg) /\ file' \in Seq(Mesg) /\ author' \in Seq(Conn)
  BY DEF IInv, TypeOK
<1> QED
  BY <1>2, <1>3, RequestStep

(* Who is handled is known. *)
LEMMA HandledIsKnown ==
  ASSUME IInv, NEW c \in Conn, NEW op \in Ops, Handling(c, op)
  PROVE  c \in Records
<1>1. PICK i \in Slot : array[i] = [fd |-> c, revents |-> "IN"]
  BY DEF Handling
<1>2. array[i].fd = c /\ array[i].revents = "IN"
  BY <1>1
<1> QED
  BY <1>2 DEF IInv, Reports

LEMMA ReqFirstMsgStep ==
  ASSUME IInv, NEW c \in Conn, ReqFirstMsg(c)
  PROVE  IInv'
<1>1. /\ Handling(c, "REQ_FIRST_MSG") /\ SendPage(c, 0, <<>>)
      /\ UNCHANGED <<list, file, author>> /\ "REQ_FIRST_MSG" \in Ops
  BY DEF ReqFirstMsg, Ops
<1>2. 0 \in 0..Len(file)
  <2>1. file \in Seq(Mesg)
    BY DEF IInv, TypeOK
  <2> QED
    BY <2>1
<1>3. <<>> = SubSeq(file, 1, 0)
  BY SubSeqEmpty
<1>4. c \in Records
  BY <1>1, HandledIsKnown
<1> QED
  BY <1>1, <1>2, <1>3, <1>4, PageStep

LEMMA ReqLastMsgStep ==
  ASSUME IInv, NEW c \in Conn, ReqLastMsg(c)
  PROVE  IInv'
<1> DEFINE o == clients[RecordOf(c)].offset
           before == clients[RecordOf(c)].pages
<1>1. /\ Handling(c, "REQ_LAST_MSG") /\ SendPage(c, o, before)
      /\ UNCHANGED <<list, file, author>> /\ "REQ_LAST_MSG" \in Ops
  BY DEF ReqLastMsg, Ops
<1>2. c \in Records
  BY <1>1, HandledIsKnown
<1>3. RecordOf(c) \in 1..Len(clients)
  BY <1>2, RecordFound DEF IInv
<1>4. o \in Nat /\ o <= Len(file) /\ before = SubSeq(file, 1, o)
  BY <1>3, Elements DEF IInv, PagesKept
<1> HIDE DEF o, before
<1>5. o \in 0..Len(file)
  <2>1. file \in Seq(Mesg)
    BY DEF IInv, TypeOK
  <2> QED
    BY <1>4, <2>1
<1> QED
  BY <1>1, <1>2, <1>4, <1>5, PageStep

-----------------------------------------------------------------------------
(* The invariant *)

LEMMA RestartStep ==
  ASSUME IInv, Restart
  PROVE  IInv'
<1>1. /\ mode' = "poll" /\ array' = EmptyArray /\ numfds' = 1
      /\ clients' = <<>> /\ list' = <<>> /\ waiting' = FALSE /\ hungUp' = {}
      /\ peer' = [c \in Conn |-> "none"] /\ request' = [c \in Conn |-> "none"]
      /\ UNCHANGED <<file, author>>
  BY DEF Restart
<1>2. TypeOK'
  <2>1. numfds' \in 1..PollSize
    BY <1>1, Constants
  <2>2. array' \in [Slot -> [fd : Conn \cup {None}, revents : {"", "IN", "HUP"}]]
    BY <1>1 DEF EmptyArray
  <2>3. clients' \in Seq(Client) /\ list' \in Seq(Mesg)
    BY <1>1
  <2> QED
    BY <1>1, <2>1, <2>2, <2>3 DEF IInv, TypeOK
<1>3. Accepted' = {}
  BY <1>1 DEF Accepted
<1>4. Numbered'
  <2>1. 0 \in 0..MaxConn /\ 1..0 = {}
    BY Constants
  <2> QED
    BY <1>3, <2>1 DEF Numbered
<1>5. Recorded' /\ PagesKept'
  BY <1>1 DEF Recorded, PagesKept
<1>6. \A j \in Slot : array'[j].revents = ""
  BY <1>1 DEF EmptyArray
<1>7. Reports'
  BY <1>1, <1>6 DEF Reports, Pending
<1>8. Places'
  BY <1>1, <1>6 DEF Places, Pending
<1> QED
  BY <1>2, <1>4, <1>5, <1>7, <1>8 DEF IInv

LEMMA InitInvariant == Init => IInv
<1> SUFFICES ASSUME Init
             PROVE  IInv
  OBVIOUS
<1>1. /\ mode = "poll" /\ array = EmptyArray /\ numfds = 1
      /\ clients = <<>> /\ list = <<>> /\ waiting = FALSE /\ hungUp = {}
      /\ peer = [c \in Conn |-> "none"] /\ request = [c \in Conn |-> "none"]
      /\ file = <<>> /\ author = <<>>
  BY DEF Init
<1>2. TypeOK
  <2>1. numfds \in 1..PollSize
    BY <1>1, Constants
  <2>2. array \in [Slot -> [fd : Conn \cup {None}, revents : {"", "IN", "HUP"}]]
    BY <1>1 DEF EmptyArray
  <2>3. clients \in Seq(Client) /\ list \in Seq(Mesg) /\ file \in Seq(Mesg) /\ author \in Seq(Conn)
    BY <1>1
  <2> QED
    BY <1>1, <2>1, <2>2, <2>3 DEF TypeOK
<1>3. Accepted = {}
  BY <1>1 DEF Accepted
<1>4. Numbered
  <2>1. 0 \in 0..MaxConn /\ 1..0 = {}
    BY Constants
  <2> QED
    BY <1>3, <2>1 DEF Numbered
<1>5. Recorded /\ PagesKept
  BY <1>1 DEF Recorded, PagesKept
<1>6. \A j \in Slot : array[j].revents = ""
  BY <1>1 DEF EmptyArray
<1>7. Reports
  BY <1>1, <1>6 DEF Reports, Pending
<1>8. Places
  BY <1>1, <1>6 DEF Places, Pending
<1> QED
  BY <1>2, <1>4, <1>5, <1>7, <1>8 DEF IInv

LEMMA NextInvariant == IInv /\ [Next]_vars => IInv'
<1> SUFFICES ASSUME IInv, [Next]_vars
             PROVE  IInv'
  OBVIOUS
<1>1. CASE Connect
  BY <1>1, ConnectStep
<1>2. CASE \E c \in Conn : PeerClose(c) \/ \E op \in Ops : Ask(c, op)
  BY <1>2, PeerCloseStep, AskStep
<1>3. CASE Poll
  BY <1>3, PollStep
<1>4. CASE Accept
  BY <1>4, AcceptStep
<1>5. CASE EndRound
  BY <1>5, EndRoundStep
<1>6. CASE \E i \in Slot : RemoveClientFd(i)
  BY <1>6, RemoveClientFdStep
<1>7. CASE \E c \in Conn : HandleEvent(c)
  BY <1>7, ReqAllMsgStep, SndMsgStep, ReqFirstMsgStep, ReqLastMsgStep DEF HandleEvent
<1>8. CASE Restart
  BY <1>8, RestartStep
<1>9. CASE UNCHANGED vars
  <2>1. UNCHANGED <<peer, waiting, request, mode, array, numfds, clients, list, file, author, hungUp>>
    BY <1>9 DEF vars, outside, round, store
  <2>2. TypeOK'
    BY <2>1 DEF IInv, TypeOK
  <2>3. Numbered' /\ Recorded' /\ PagesKept'
    BY <2>1 DEF IInv, Numbered, Accepted, Recorded, Records, PagesKept
  <2>4. Reports' /\ Places'
    BY <2>1 DEF IInv, Reports, Places, Pending, Records
  <2> QED
    BY <2>2, <2>3, <2>4 DEF IInv
<1> QED
  BY <1>1, <1>2, <1>3, <1>4, <1>5, <1>6, <1>7, <1>8, <1>9 DEF Next, Round

LEMMA Invariance == Spec => []IInv
BY InitInvariant, NextInvariant, PTL DEF Spec

-----------------------------------------------------------------------------
(* The theorems *)

(* The variables keep their types, whatever is sent, closed and lost; after a
   write beyond the array nothing more is modelled. *)
THEOREM TypeCorrect == Spec => []TypeOK
<1>1. IInv => TypeOK
  BY DEF IInv
<1> QED
  BY <1>1, Invariance, PTL

(* The pages of a client are the message file from its beginning: the place
   that the server keeps for it neither skips a message nor repeats one
   (get_packet_for_res_first_msg, get_packet_for_res_last_msg). *)
THEOREM PagesOfTheFile == Spec => []PagesJoin
<1>1. IInv => PagesJoin
  BY DEF IInv, PagesKept, PagesJoin
<1> QED
  BY <1>1, Invariance, PTL

(* Whoever's request the loop is about to handle has a record, though slots are
   moved and records removed while it goes through what poll() reported: the
   search in handle_req_packet does not come back with nothing. *)
HandledHasRecord ==
  \A i \in Slot : AtSlot(i) /\ array[i].revents = "IN" => array[i].fd \in Records

THEOREM RequestsOfClients == Spec => []HandledHasRecord
<1>1. IInv => HandledHasRecord
  BY DEF IInv, Reports, HandledHasRecord
<1> QED
  BY <1>1, Invariance, PTL

(* No two records have one descriptor, and whoever is connected has a record. *)
OneRecordEach ==
  /\ \A i, j \in 1..Len(clients) : i # j => clients[i].fd # clients[j].fd
  /\ \A c \in Conn : peer[c] = "open" => c \in Records

THEOREM RecordsAreUnique == Spec => []OneRecordEach
<1>1. IInv => OneRecordEach
  BY DEF IInv, Recorded, OneRecordEach
<1> QED
  BY <1>1, Invariance, PTL

(* Slots that stay and keep their descriptors. *)
LEMMA SlotsKept ==
  ASSUME TypeOK, numfds' \in Nat, numfds <= numfds',
         \A j \in Slot : j < numfds => array'[j].fd = array[j].fd
  PROVE  Polled \subseteq Polled'
<1>1. ASSUME NEW j \in 1..(numfds - 1)
      PROVE  j \in 1..(numfds' - 1) /\ array'[j].fd = array[j].fd
  <2>1. j \in Slot /\ j < numfds /\ numfds \in Nat
    BY SlotNumbers
  <2>2. array'[j].fd = array[j].fd
    BY <2>1
  <2>3. j \in 1..(numfds' - 1)
    <3>1. j \in Nat /\ numfds \in Nat
      BY <2>1, SlotNumbers
    <3> QED
      BY <2>1, <3>1, InLonger
  <2> QED
    BY <2>2, <2>3
<1> QED
  BY <1>1 DEF Polled

LEMMA TwoHangUps ==
  ASSUME TypeOK, NEW c \in hungUp, NEW d \in hungUp, c # d
  PROVE  Cardinality(hungUp) > 1
<1>1. MaxConn \in Int /\ 1 \in Int
  BY Constants
<1>2. IsFiniteSet(Conn)
  BY <1>1, FS_Interval DEF Conn
<1>3. hungUp \subseteq Conn
  BY DEF TypeOK
<1>4. IsFiniteSet(hungUp)
  BY <1>2, <1>3, FS_Subset
<1>5. IsFiniteSet({c}) /\ Cardinality({c}) = 1
  BY FS_Singleton
<1>6. Cardinality({c} \cup {d}) = 2
  BY <1>5, FS_AddElement
<1>7. {c} \cup {d} \in SUBSET hungUp
  OBVIOUS
<1>8. Cardinality({c} \cup {d}) <= Cardinality(hungUp)
  BY <1>4, <1>7, FS_Subset
<1>9. Cardinality(hungUp) \in Nat
  BY <1>4, FS_CardinalityType
<1> QED
  BY <1>6, <1>8, <1>9

(* A removal moves the client of the last slot to one that is looked at again,
   unless the slot that is removed lies behind the last one by now: then the
   array became shorter in this round, for another hang-up. *)
LEMMA RemovalKeeps ==
  ASSUME IInv, NEW i \in Slot, RemoveClientFd(i), NEW c \in Polled, c \in Records', c \notin Polled'
  PROVE  Cardinality(hungUp) > 1
<1>1. CASE array[i].fd \notin Records
  <2>1. array' = [array EXCEPT ![i].revents = ""] /\ numfds' = numfds
    BY <1>1 DEF RemoveClientFd
  <2>2. array \in [Slot -> [fd : Conn \cup {None}, revents : {"", "IN", "HUP"}]]
    BY DEF IInv, TypeOK
  <2>3. \A j \in Slot : array'[j].fd = array[j].fd
    BY <2>1, <2>2
  <2>4. Polled \subseteq Polled'
    <3>1. numfds' \in Nat /\ numfds <= numfds'
      BY <2>1, SlotNumbers, NoShorter DEF IInv
    <3> QED
      BY <2>3, <3>1, SlotsKept DEF IInv
  <2> QED
    BY <2>4
<1>2. CASE array[i].fd \in Records
  <2>1. /\ array' = [array EXCEPT ![i] = [fd |-> LastSlot.fd, revents |-> ""]]
        /\ numfds' = numfds - 1 /\ numfds - 1 \in Slot
        /\ Records' = Records \ {array[i].fd}
    BY <1>2, RemovalProperties
  <2>2. array \in [Slot -> [fd : Conn \cup {None}, revents : {"", "IN", "HUP"}]]
    BY DEF IInv, TypeOK
  <2>3. array'[i].fd = array[numfds - 1].fd /\ \A j \in Slot : j # i => array'[j] = array[j]
    <3>1. array'[i] = [fd |-> LastSlot.fd, revents |-> ""]
      BY <2>1, <2>2
    <3>2. [fd |-> LastSlot.fd, revents |-> ""].fd = array[numfds - 1].fd
      BY DEF LastSlot
    <3>3. \A j \in Slot : j # i => array'[j] = array[j]
      BY <2>1, <2>2
    <3> QED
      BY <3>1, <3>2, <3>3, Zenon
  <2>4. PICK k \in 1..(numfds - 1) : array[k].fd = c
    BY DEF Polled
  <2>5. k \in Slot /\ k \in Nat /\ numfds \in Nat /\ i \in Nat \ {0}
    BY <2>4, SlotNumbers DEF IInv
  <2>6. k # i
    BY <2>1, <2>4
  <2>7. array'[k].fd = c
    BY <2>3, <2>4, <2>5, <2>6
  <2>8. numfds' - 1 = numfds - 2
    <3>1. numfds' = numfds - 1
      BY <2>1
    <3>2. numfds \in Nat
      BY <2>5
    <3> QED
      BY <3>1, <3>2
  <2>9. k = numfds - 1
    <3>1. k \in 1..(numfds - 2) => c \in Polled'
      <4>1. 1..(numfds' - 1) = 1..(numfds - 2)
        BY <2>8
      <4> QED
        BY <2>7, <4>1 DEF Polled
    <3>2. k \in 1..(numfds - 2) \/ k = numfds - 1
      BY <2>4, <2>5
    <3> QED
      BY <3>1, <3>2
  <2>10. array'[i].fd = c
    BY <2>3, <2>4, <2>9
  <2>11. i \notin 1..(numfds - 2)
    BY <2>10, <2>8 DEF Polled
  <2>12. i >= numfds
    BY <2>5, <2>6, <2>9, <2>11
  <2>13. array[i].revents = "HUP" /\ array[i].fd \in hungUp
    BY DEF IInv, Reports, RemoveClientFd
  <2>14. \E d \in hungUp : d \notin Records
    BY <2>12, <2>13 DEF IInv, Places, Pending
  <2> QED
    BY <1>2, <2>13, <2>14, TwoHangUps DEF IInv
<1> QED
  BY <1>1, <1>2

LEMMA StaysPolledStep ==
  ASSUME IInv, [Next]_vars, NEW c \in Polled, c \in Records, c \in Records', mode' # "undef",
         c \notin Polled'
  PROVE  Cardinality(hungUp) > 1
<1>0. numfds \in Nat /\ array \in [Slot -> [fd : Conn \cup {None}, revents : {"", "IN", "HUP"}]]
  BY SlotNumbers DEF IInv, TypeOK
<1>1. CASE UNCHANGED <<array, numfds>>
  BY <1>1 DEF Polled
<1>2. CASE Poll
  <2>1. \A j \in Slot : array'[j].fd = array[j].fd
    BY <1>2, PolledSlots DEF IInv, Poll
  <2>2. numfds' = numfds
    BY <1>2 DEF Poll
  <2>3. numfds' \in Nat /\ numfds <= numfds'
    BY <1>0, <2>2, NoShorter
  <2> QED
    BY <2>1, <2>3, SlotsKept DEF IInv
<1>3. CASE Accept
  <2>1. PICK fd \in Conn \cup {None} : Add(fd)
    BY <1>3 DEF Accept
  <2>2. mode = "accept"
    BY <1>3 DEF Accept
  <2>3. /\ numfds' \in 1..PollSize /\ numfds <= numfds'
        /\ \A j \in Slot : j < numfds => array'[j] = array[j]
    BY <2>1, <2>2, AddProperties DEF IInv
  <2>4. numfds' \in Nat
    BY <2>3, Constants
  <2> QED
    BY <2>3, <2>4, SlotsKept DEF IInv
<1>4. CASE EndRound
  <2>1. \A j \in Slot : j < numfds => array'[j].fd = array[j].fd
    BY <1>4 DEF EndRound
  <2>2. numfds' = numfds
    BY <1>4 DEF EndRound
  <2>3. numfds' \in Nat /\ numfds <= numfds'
    BY <1>0, <2>2, NoShorter
  <2> QED
    BY <2>1, <2>3, SlotsKept DEF IInv
<1>5. CASE \E i \in Slot : RemoveClientFd(i)
  BY <1>5, RemovalKeeps
<1>6. ASSUME NEW d \in Conn, HandleEvent(d)
      PROVE  Cardinality(hungUp) > 1
  <2>1. PICK op \in Ops : Handling(d, op)
    BY <1>6 DEF HandleEvent, ReqAllMsg, SndMsg, ReqFirstMsg, ReqLastMsg, Ops
  <2>2. PICK i \in Slot : array' = [array EXCEPT ![i].revents = ""]
    BY <2>1 DEF Handling
  <2>3. \A j \in Slot : array'[j].fd = array[j].fd
    BY <1>0, <2>2, NoShorter
  <2>4. numfds' = numfds
    BY <2>1 DEF Handling
  <2>5. numfds' \in Nat /\ numfds <= numfds'
    BY <1>0, <2>4, NoShorter
  <2> QED
    BY <2>3, <2>5, SlotsKept DEF IInv
<1>7. CASE Restart
  <2>1. Records' = {}
    BY <1>7 DEF Restart, Records
  <2> QED
    BY <2>1
<1> QED
  BY <1>1, <1>2, <1>3, <1>4, <1>5, <1>6, <1>7
     DEF Next, Round, Connect, PeerClose, Ask, vars, round

(* A client leaves the array only where two connections hang up in one round:
   the removal of one during the loop does not lose another's slot
   (remove_client_fd). *)
THEOREM StaysInArray == Spec => StaysPolled
<1>1. IInv /\ [Next]_vars =>
        [\A c \in Polled \cap Records :
           c \in Records' /\ mode' # "undef" => c \in Polled' \/ Cardinality(hungUp) > 1]_vars
  BY StaysPolledStep
<1> QED
  BY <1>1, Invariance, PTL DEF Spec, StaysPolled

-----------------------------------------------------------------------------
(* Nothing is missed *)

(* A message is counted when it is sent, so that what is in the file and what a
   client is too late for are among those counted. *)
Counted ==
  /\ \A m \in ToSet(file) : m \in 1..Len(author)
  /\ \A i \in 1..Len(clients) : clients[i].since <= Len(author)

TInv == Counted /\ ToldOfTheRest

(* One more message, later than all. *)
LEMMA LaterMessage ==
  ASSUME NEW s \in Seq(Mesg), NEW n \in Nat, InOrder(s), \A m \in ToSet(s) : m <= n
  PROVE  InOrder(Append(s, n + 1)) /\ ToSet(Append(s, n + 1)) = ToSet(s) \cup {n + 1}
<1>1. Len(s) \in Nat /\ n + 1 \in Mesg
  BY DEF Mesg
<1>2. /\ Len(Append(s, n + 1)) = Len(s) + 1 /\ Append(s, n + 1)[Len(s) + 1] = n + 1
      /\ \A i \in 1..Len(s) : Append(s, n + 1)[i] = s[i]
      /\ Append(s, n + 1) \in Seq(Mesg)
  BY <1>1, AppendProperties
<1> DEFINE t == Append(s, n + 1)
<1> HIDE DEF t
<1>3. /\ Len(t) = Len(s) + 1 /\ t[Len(s) + 1] = n + 1
      /\ \A i \in 1..Len(s) : t[i] = s[i]
      /\ t \in Seq(Mesg)
  BY <1>2 DEF t
<1>4. \A i \in 1..Len(s) : s[i] \in Nat /\ s[i] < n + 1
  <2>1. \A i \in 1..Len(s) : s[i] \in ToSet(s) /\ s[i] \in Nat
    BY <1>1 DEF ToSet, Mesg
  <2> QED
    BY <2>1
<1>5. InOrder(t)
  <2>1. ASSUME NEW j \in 1..Len(t), NEW k \in 1..Len(t), j < k
        PROVE  t[j] < t[k]
    <3>1. j \in 1..Len(s)
      BY <1>1, <1>3, <2>1
    <3>2. CASE k \in 1..Len(s)
      BY <1>3, <2>1, <3>1, <3>2 DEF InOrder
    <3>3. CASE k = Len(s) + 1
      BY <1>3, <1>4, <3>1, <3>3
    <3> QED
      BY <1>1, <1>3, <3>2, <3>3
  <2> QED
    BY <2>1 DEF InOrder
<1>6. ToSet(t) = ToSet(s) \cup {n + 1}
  <2>1. ToSet(t) = {t[i] : i \in 1..(Len(s) + 1)} /\ ToSet(s) = {s[i] : i \in 1..Len(s)}
    BY <1>3 DEF ToSet
  <2>2. 1..(Len(s) + 1) = 1..Len(s) \cup {Len(s) + 1}
    BY <1>1
  <2> QED
    BY <1>3, <2>1, <2>2
<1> QED
  BY <1>5, <1>6 DEF t

(* Where nothing comes into the file, and each record is an old one or that of a
   client that has just come. *)
LEMMA SameFile ==
  ASSUME IInv, TInv, UNCHANGED file, UNCHANGED author, Serving' => Serving \/ clients' = <<>>,
         \A x \in 1..Len(clients') :
           \/ \E y \in 1..Len(clients) : /\ clients'[x].fd = clients[y].fd
                                         /\ clients'[x].since = clients[y].since
                                         /\ clients'[x].told = clients[y].told
           \/ clients'[x].since = Len(author) /\ clients'[x].told = <<>>
  PROVE  TInv'
<1>0. Len(author) \in Nat
  BY Elements DEF IInv
<1>1. Counted'
  BY <1>0 DEF TInv, Counted
<1>2. ASSUME Serving', NEW x \in 1..Len(clients')
      PROVE  /\ ToSet(clients'[x].told) = {m \in ToSet(file) : /\ m > clients'[x].since
                                                               /\ author[m] # clients'[x].fd}
             /\ InOrder(clients'[x].told)
  <2>1. CASE Serving /\ \E y \in 1..Len(clients) : /\ clients'[x].fd = clients[y].fd
                                                   /\ clients'[x].since = clients[y].since
                                                   /\ clients'[x].told = clients[y].told
    BY <2>1 DEF TInv, ToldOfTheRest
  <2>2. CASE clients'[x].since = Len(author) /\ clients'[x].told = <<>>
    <3>1. \A m \in ToSet(file) : ~(m > Len(author))
      BY <1>0 DEF TInv, Counted
    <3>2. ToSet(<<>>) = {} /\ InOrder(<<>>)
      BY DEF ToSet, InOrder
    <3> QED
      BY <2>2, <3>1, <3>2
  <2>3. CASE clients' = <<>>
    BY <1>2, <2>3
  <2> QED
    BY <1>2, <2>1, <2>2, <2>3
<1>3. InOrder(file)
  BY DEF TInv, ToldOfTheRest
<1>4. ToldOfTheRest'
  BY <1>2, <1>3 DEF ToldOfTheRest
<1> QED
  BY <1>1, <1>4 DEF TInv

(* What a page leaves alone. *)
LEMMA PageTellsNothing ==
  ASSUME TypeOK, NEW c \in Records, NEW o, NEW before, SendPage(c, o, before)
  PROVE  /\ Len(clients') = Len(clients)
         /\ \A i \in 1..Len(clients) : /\ clients'[i].fd = clients[i].fd
                                       /\ clients'[i].since = clients[i].since
                                       /\ clients'[i].told = clients[i].told
         /\ mode' \in {mode, "gone"}
<1>1. CASE PageFrom(o) = <<>>
  BY <1>1 DEF SendPage
<1>2. CASE PageFrom(o) # <<>>
  <2>1. PICK k, p, q : clients' = [clients EXCEPT ![k].offset = p, ![k].pages = q]
    BY <1>2 DEF SendPage
  <2>2. clients \in Seq(Client) /\ \A i \in 1..Len(clients) : clients[i] \in Client
    BY Elements DEF TypeOK
  <2>3. ASSUME NEW i \in 1..Len(clients)
        PROVE  /\ clients'[i].fd = clients[i].fd
               /\ clients'[i].since = clients[i].since
               /\ clients'[i].told = clients[i].told
    BY <2>1, <2>2 DEF Client
  <2>4. Len(clients') = Len(clients)
    BY <2>1, <2>2
  <2>5. mode' \in {mode, "gone"}
    BY <1>2 DEF SendPage, Written
  <2> QED
    BY <2>3, <2>4, <2>5
<1> QED
  BY <1>1, <1>2

(* A message that is pushed to all others, or ends the process on the way. *)
LEMMA PushedToAll ==
  ASSUME IInv, NEW c, NEW m \in Mesg, SendMessageToClients(c, m)
  PROVE  /\ Len(clients') = Len(clients)
         /\ \A i \in 1..Len(clients) : /\ clients'[i].fd = clients[i].fd
                                       /\ clients'[i].since = clients[i].since
         /\ mode' \in {mode, "gone"}
         /\ mode' # "gone" =>
              \A i \in 1..Len(clients) :
                clients'[i].told = IF clients[i].fd = c THEN clients[i].told
                                   ELSE Append(clients[i].told, m)
<1>1. clients \in Seq(Client) /\ \A i \in 1..Len(clients) : clients[i] \in Client
  BY Elements DEF IInv, TypeOK
<1>2. DOMAIN clients = 1..Len(clients) /\ Len(clients) \in Nat
  BY <1>1
<1>3. PICK reached, closed :
        /\ clients' = [i \in DOMAIN clients |->
                        IF i \in reached THEN [clients[i] EXCEPT !.told = Append(@, m)] ELSE clients[i]]
        /\ mode' = (IF closed = {} THEN mode ELSE "gone")
        /\ closed = {i \in Others(c) : peer[clients[i].fd] = "closed"}
        /\ reached = {i \in Others(c) : \A k \in closed : i < k}
  BY DEF SendMessageToClients
<1>4. \A i \in 1..Len(clients) :
        clients'[i] = IF i \in reached THEN [clients[i] EXCEPT !.told = Append(@, m)] ELSE clients[i]
  BY <1>2, <1>3
<1>5. \A i \in 1..Len(clients) :
        LET r == [clients[i] EXCEPT !.told = Append(@, m)]
        IN r.fd = clients[i].fd /\ r.since = clients[i].since /\ r.told = Append(clients[i].told, m)
  BY <1>1 DEF Client
<1>6. \A i \in 1..Len(clients) : /\ clients'[i].fd = clients[i].fd
                                 /\ clients'[i].since = clients[i].since
                                 /\ clients'[i].told = IF i \in reached THEN Append(clients[i].told, m)
                                                       ELSE clients[i].told
  BY <1>4, <1>5
<1>7. Len(clients') = Len(clients)
  BY <1>1, <1>2, <1>3, ToldProperties DEF IInv
<1>8. mode' # "gone" => closed = {} \/ mode = "gone"
  BY <1>3
<1>9. closed = {} => \A i \in 1..Len(clients) : i \in reached <=> clients[i].fd # c
  BY <1>2, <1>3 DEF Others
<1> QED
  BY <1>3, <1>6, <1>7, <1>9

(* The message is among those that each of the others has been told of, in its
   place, once it is in the file. *)
LEMMA SndMsgTells ==
  ASSUME IInv, TInv, NEW c \in Conn, SndMsg(c)
  PROVE  TInv'
<1> DEFINE n == Len(author)
<1>1. /\ author' = Append(author, c)
      /\ \/ file' = Append(file, n + 1) /\ SendMessageToClients(c, n + 1)
         \/ UNCHANGED <<file, clients, mode>>
  BY DEF SndMsg
<1>2. n \in Nat /\ n + 1 \in Mesg
  <2>1. Len(author) \in Nat
    BY Elements DEF IInv
  <2> QED
    BY <2>1 DEF Mesg
<1>3. author \in Seq(Conn) /\ file \in Seq(Mesg)
  BY DEF IInv, TypeOK
<1>4. Len(author') = n + 1 /\ author'[n + 1] = c /\ \A m \in 1..n : author'[m] = author[m]
  BY <1>1, <1>2, <1>3
<1>5. /\ \A m \in ToSet(file) : m \in 1..n
      /\ \A i \in 1..Len(clients) : clients[i].since <= n
      /\ InOrder(file)
  BY DEF TInv, Counted, ToldOfTheRest
<1>6. \A i \in 1..Len(clients) : clients[i].since \in Nat /\ clients[i].told \in Seq(Mesg)
  <2>1. \A r \in Client : r.since \in Nat
    BY DEF Client
  <2> QED
    BY <2>1, Elements DEF IInv
<1>7. Serving
  BY <1>1 DEF SndMsg, Handling, AtSlot, Serving
<1>8. \A i \in 1..Len(clients) :
        /\ ToSet(clients[i].told) = {m \in ToSet(file) : /\ m > clients[i].since
                                                         /\ author[m] # clients[i].fd}
        /\ InOrder(clients[i].told)
  BY <1>7 DEF TInv, ToldOfTheRest
<1> HIDE DEF n
<1>9. CASE UNCHANGED <<file, clients, mode>>
  <2>1. Counted'
    BY <1>2, <1>4, <1>5, <1>6, <1>9 DEF Counted
  <2>2. ToldOfTheRest'
    BY <1>4, <1>5, <1>8, <1>9 DEF ToldOfTheRest
  <2> QED
    BY <2>1, <2>2 DEF TInv
<1>10. CASE file' = Append(file, n + 1) /\ SendMessageToClients(c, n + 1)
  <2>1. InOrder(file') /\ ToSet(file') = ToSet(file) \cup {n + 1}
    <3>1. \A m \in ToSet(file) : m <= n
      BY <1>2, <1>5
    <3> QED
      BY <1>2, <1>3, <1>5, <1>10, <3>1, LaterMessage
  <2>2. /\ Len(clients') = Len(clients)
        /\ \A i \in 1..Len(clients) : /\ clients'[i].fd = clients[i].fd
                                      /\ clients'[i].since = clients[i].since
        /\ mode' # "gone" =>
             \A i \in 1..Len(clients) :
               clients'[i].told = IF clients[i].fd = c THEN clients[i].told
                                  ELSE Append(clients[i].told, n + 1)
    BY <1>2, <1>10, PushedToAll
  <2>3. Counted'
    <3>1. \A m \in ToSet(file') : m \in 1..Len(author')
      BY <1>2, <1>4, <1>5, <2>1
    <3>2. \A i \in 1..Len(clients') : clients'[i].since <= Len(author')
      BY <1>2, <1>4, <1>5, <1>6, <2>2
    <3> QED
      BY <3>1, <3>2 DEF Counted
  <2>4. ASSUME NEW i \in 1..Len(clients), mode' # "gone"
        PROVE  /\ ToSet(clients'[i].told) = {m \in ToSet(file') : /\ m > clients'[i].since
                                                                  /\ author'[m] # clients'[i].fd}
               /\ InOrder(clients'[i].told)
    <3>1. {m \in ToSet(file) : m > clients[i].since /\ author'[m] # clients[i].fd}
            = ToSet(clients[i].told)
      BY <1>4, <1>5, <1>8
    <3>2. n + 1 > clients[i].since
      BY <1>2, <1>5, <1>6
    <3>3. CASE clients[i].fd = c
      <4>1. clients'[i].told = clients[i].told
        BY <2>2, <2>4, <3>3
      <4>2. {m \in ToSet(file') : m > clients[i].since /\ author'[m] # clients[i].fd}
              = {m \in ToSet(file) : m > clients[i].since /\ author'[m] # clients[i].fd}
        BY <1>4, <2>1, <3>3
      <4> QED
        BY <1>8, <2>2, <3>1, <4>1, <4>2
    <3>4. CASE clients[i].fd # c
      <4>1. clients'[i].told = Append(clients[i].told, n + 1)
        BY <2>2, <2>4, <3>4
      <4>2. {m \in ToSet(file') : m > clients[i].since /\ author'[m] # clients[i].fd}
              = {m \in ToSet(file) : m > clients[i].since /\ author'[m] # clients[i].fd} \cup {n + 1}
        BY <1>4, <2>1, <3>2, <3>4
      <4>3. \A m \in ToSet(clients[i].told) : m <= n
        BY <1>2, <1>5, <1>8
      <4>4. /\ InOrder(Append(clients[i].told, n + 1))
            /\ ToSet(Append(clients[i].told, n + 1)) = ToSet(clients[i].told) \cup {n + 1}
        BY <1>2, <1>6, <1>8, <4>3, LaterMessage
      <4> QED
        BY <2>2, <3>1, <4>1, <4>2, <4>4
    <3> QED
      BY <3>3, <3>4
  <2>5. Serving' => mode' # "gone"
    BY DEF Serving
  <2>6. ToldOfTheRest'
    BY <2>1, <2>2, <2>4, <2>5 DEF ToldOfTheRest
  <2> QED
    BY <2>3, <2>6 DEF TInv
<1> QED
  BY <1>1, <1>9, <1>10

LEMMA InitTold == Init => TInv
<1> SUFFICES ASSUME Init
             PROVE  TInv
  OBVIOUS
<1>1. clients = <<>> /\ file = <<>>
  BY DEF Init
<1> QED
  BY <1>1 DEF TInv, Counted, ToldOfTheRest, InOrder, ToSet

LEMMA NextTold == IInv /\ TInv /\ [Next]_vars => TInv'
<1> SUFFICES ASSUME IInv, TInv, [Next]_vars
             PROVE  TInv'
  OBVIOUS
<1>1. CASE UNCHANGED <<clients, file, author>> /\ (Serving' => Serving)
  BY <1>1, SameFile
<1>2. CASE Accept
  <2>1. UNCHANGED file /\ UNCHANGED author /\ Serving
    BY <1>2 DEF Accept, Serving
  <2>2. CASE UNCHANGED clients
    BY <2>1, <2>2, SameFile
  <2>3. ASSUME NEW c \in Conn, Accepting(c)
        PROVE  TInv'
    <3> DEFINE r == [fd |-> c, offset |-> 0, since |-> Len(author), told |-> <<>>, pages |-> <<>>]
    <3>1. clients' = Append(clients, r) /\ r.since = Len(author) /\ r.told = <<>>
      BY <2>3 DEF Accepting
    <3>2. r \in Client
      <4>1. Len(author) \in Nat
        BY Elements DEF IInv
      <4>2. <<>> \in Seq(Mesg)
        OBVIOUS
      <4> QED
        BY <4>1, <4>2 DEF Client
    <3> HIDE DEF r
    <3>3. clients \in Seq(Client) /\ Len(clients) \in Nat
      BY Elements DEF IInv, TypeOK
    <3>4. /\ Len(clients') = Len(clients) + 1
          /\ \A i \in 1..Len(clients) : clients'[i] = clients[i]
          /\ clients'[Len(clients) + 1] = r
      BY <3>1, <3>2, <3>3, AppendProperties
    <3>5. \A x \in 1..Len(clients') : x \in 1..Len(clients) \/ x = Len(clients) + 1
      BY <3>3, <3>4
    <3> QED
      BY <2>1, <3>1, <3>4, <3>5, SameFile
  <2> QED
    BY <1>2, <2>2, <2>3 DEF Accept
<1>3. ASSUME NEW i \in Slot, RemoveClientFd(i)
      PROVE  TInv'
  <2>1. UNCHANGED file /\ UNCHANGED author /\ UNCHANGED mode
    BY <1>3 DEF RemoveClientFd
  <2>2. Serving' => Serving
    BY <2>1 DEF Serving
  <2>3. CASE array[i].fd \in Records
    <3>1. \A x \in 1..Len(clients') : \E y \in 1..Len(clients) : clients'[x] = clients[y]
      BY <1>3, <2>3, RemovalProperties
    <3> QED
      BY <2>1, <2>2, <3>1, SameFile
  <2>4. CASE array[i].fd \notin Records
    <3>1. UNCHANGED clients
      BY <1>3, <2>4 DEF RemoveClientFd
    <3> QED
      BY <2>1, <2>2, <3>1, SameFile
  <2> QED
    BY <2>3, <2>4
<1>4. ASSUME NEW c \in Conn, ReqFirstMsg(c) \/ ReqLastMsg(c)
      PROVE  TInv'
  <2>1. PICK op \in Ops : Handling(c, op)
    BY <1>4 DEF ReqFirstMsg, ReqLastMsg, Ops
  <2>2. c \in Records
    BY <2>1, HandledIsKnown
  <2>3. PICK o, before : SendPage(c, o, before)
    BY <1>4 DEF ReqFirstMsg, ReqLastMsg
  <2>4. /\ Len(clients') = Len(clients)
        /\ \A i \in 1..Len(clients) : /\ clients'[i].fd = clients[i].fd
                                      /\ clients'[i].since = clients[i].since
                                      /\ clients'[i].told = clients[i].told
    BY <2>2, <2>3, PageTellsNothing DEF IInv
  <2>5. UNCHANGED file /\ UNCHANGED author
    BY <1>4 DEF ReqFirstMsg, ReqLastMsg
  <2>6. Serving
    BY <2>1 DEF Handling, AtSlot, Serving
  <2> QED
    BY <2>4, <2>5, <2>6, SameFile
<1>5. CASE Restart
  <2>1. clients' = <<>> /\ UNCHANGED file /\ UNCHANGED author
    BY <1>5 DEF Restart
  <2> QED
    BY <2>1, SameFile
<1>6. ASSUME NEW c \in Conn, ReqAllMsg(c)
      PROVE  TInv'
  <2>1. Handling(c, "REQ_ALL_MSG") /\ UNCHANGED <<clients, file, author>>
    BY <1>6 DEF ReqAllMsg, store
  <2>2. Serving
    BY <2>1 DEF Handling, AtSlot, Serving
  <2> QED
    BY <1>1, <2>1, <2>2
<1>7. CASE Connect \/ (\E c \in Conn : PeerClose(c) \/ \E op \in Ops : Ask(c, op)) \/ UNCHANGED vars
  BY <1>1, <1>7 DEF Connect, PeerClose, Ask, vars, store, Serving
<1>8. CASE Poll \/ EndRound
  <2>1. UNCHANGED <<clients, file, author>> /\ Serving
    BY <1>8 DEF Poll, EndRound, store, Serving
  <2> QED
    BY <1>1, <2>1
<1> QED
  BY <1>2, <1>3, <1>4, <1>5, <1>6, <1>7, <1>8, SndMsgTells DEF Next, Round, HandleEvent

(* Each client has been told, once and in their order, of the messages of the
   others that came into the file since it was accepted, whatever writes fail
   and whoever closes meanwhile, and its pages are the file from its beginning
   (send_message_to_clients, server_handle_event). *)
THEOREM NothingIsMissed == Spec => []NothingMissed
<1>1. Init => IInv /\ TInv
  BY InitInvariant, InitTold
<1>2. (IInv /\ TInv) /\ [Next]_vars => (IInv /\ TInv)'
  BY NextInvariant, NextTold
<1>3. IInv /\ TInv => NothingMissed
  BY DEF IInv, PagesKept, PagesJoin, TInv, NothingMissed
<1> QED
  BY <1>1, <1>2, <1>3, PTL DEF Spec
=============================================================================
