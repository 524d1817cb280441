---------------------------- MODULE Looper_proof ----------------------------
(***************************************************************************)
(* What looper_run keeps to for every number of watchers, descriptors and  *)
(* timers, every set of intervals and every width of int: the poll set has *)
(* every watcher, poll() wakes up for the next timer, the walks over the   *)
(* lists survive their callbacks, and a round calls whom poll() named.     *)
(***************************************************************************)
EXTENDS Looper, SequenceLemmas

-----------------------------------------------------------------------------
(* The inductive invariant *)

(* What only one part of a round uses is reset outside it. *)
Resting ==
  /\ phase # "timers" => walk = None
  /\ phase # "events" => slot = 0 /\ node = None /\ called = <<>>
  /\ phase \notin {"poll", "events"} => fds = <<>>

(* Of each program, its list: the server's begins with the listening socket,
   which has the lowest number, the client's has two nodes until it is freed,
   and test_timer_looper.c has none.  A connection waits to be accepted only
   while a watcher may be added. *)
Programs ==
  /\ program = "server" =>
       /\ chain # <<>> /\ head = 1 /\ chain[1] = [id |-> 1, fd |-> FirstFd]
       /\ \A k \in 2..Len(chain) : chain[k].fd > FirstFd
       /\ 0..FirstFd \subseteq open
       /\ "HUP" \notin ready[FirstFd]
       /\ "IN" \in ready[FirstFd] => lastId < MaxWatcher
  /\ program = "client" =>
       \/ chain = <<[id |-> 1, fd |-> Stdin], [id |-> 2, fd |-> FirstFd]>> /\ head = 1
       \/ chain = <<>> /\ head = None
  /\ program = "timers" => chain = <<>> /\ head = None

(* Ids are unique in both lists, and timers are in the order of theirs. *)
Ids ==
  /\ \A j, k \in 1..Len(chain) : chain[j].id = chain[k].id => j = k
  /\ \A k \in 1..Len(chain) : chain[k].id <= lastId
  /\ \A j, k \in 1..Len(timers) : j < k => timers[j].id < timers[k].id
  /\ \A k \in 1..Len(timers) : timers[k].id <= added /\ timers[k].left <= timers[k].interval

(* The walk over the timers is at place q of their list, and the timeout is not
   beyond what is left of the timers before it. *)
WalkAt(q) ==
  /\ walk = IF q > Len(timers) THEN None ELSE timers[q].id
  /\ \A k \in 1..Len(timers) : k < q => timeout \in 0..timers[k].left
Walking == phase = "timers" => \E q \in 1..(Len(timers) + 1) : WalkAt(q)

(* Only slots that were left as memset made them have equal descriptors. *)
Slots ==
  \A i, j \in 1..Len(fds) :
    i # j /\ fds[i].fd = fds[j].fd => fds[i].fd = Stdin /\ program = "server"

Hit(i) == fds[i].revents \cap Events # {}

(* What is still to be looked at is open, and was reported before the watchers
   that this round added; nobody hangs up on the listening socket, and a
   connection is accepted once. *)
Reports ==
  phase = "events" =>
    /\ known <= lastId
    /\ \A i \in 1..Len(fds) : i > slot /\ Hit(i) /\ program = "server" => fds[i].fd \in open
    /\ \A k \in 1..Len(chain), i \in 1..Len(fds) :
         chain[k].id > known /\ i >= slot /\ Hit(i) => fds[i].fd # chain[k].fd
    /\ \A i \in 1..Len(fds) :
         program = "server" /\ fds[i].fd = FirstFd =>
           /\ "HUP" \notin fds[i].revents
           /\ "IN" \in fds[i].revents /\ (i > slot \/ (i = slot /\ node = 1))
                => "IN" \in ready[FirstFd]

(* The walk over the watchers is at place p of their list: slots before the
   current one have been offered to all of them, this one to those before p. *)
Offered(i, k, p) == i < slot \/ (i = slot /\ k < p)
CalledBefore(k, p) ==
  /\ chain[k].id <= known
  /\ \E i \in 1..Len(fds) : Offered(i, k, p) /\ Hit(i) /\ fds[i].fd = chain[k].fd
VisitAt(p) ==
  /\ node = IF p > Len(chain) THEN None ELSE chain[p].id
  /\ \A k \in 1..Len(chain) :
       CalledBefore(k, p) => \E m \in 1..Len(called) : called[m] = chain[k].id
  /\ \A m \in 1..Len(called) :
       \E k \in 1..Len(chain) : chain[k].id = called[m] /\ CalledBefore(k, p)
Visiting ==
  phase = "events" =>
    /\ IsInjective(called)
    /\ node # None => slot >= 1
    /\ chain = <<>> => node = None
    /\ chain # <<>> => \E p \in 1..(Len(chain) + 1) : VisitAt(p)

IInv ==
  /\ TypeOK /\ Resting /\ Programs /\ Ids /\ Walking /\ SleepBound
  /\ Slots /\ PollCovers /\ Reports /\ Visiting

-----------------------------------------------------------------------------
(* The types *)

WatcherT == [id : 1..MaxWatcher, fd : Fd]
TimerT == [id : 1..MaxTimer, interval : Interval, left : 0..(2 * IntMax + 1), again : BOOLEAN]
SlotT == [fd : Fd, events : SUBSET Events, revents : SUBSET (Events \cup {"NVAL"})]

(* What the provers need of the bounds. *)
LEMMA Bounds ==
  /\ FirstFd \in Nat /\ MaxFd \in Nat /\ MaxWatcher \in Nat /\ MaxTimer \in Nat
  /\ IntMax \in Nat /\ MaxWork \in Nat
  /\ 0 < FirstFd /\ FirstFd < MaxFd /\ 2 <= MaxWatcher
  /\ Interval \subseteq 0..(2 * IntMax + 1) /\ Interval \subseteq Nat
BY LooperAssumption

(* The lists and the poll set, by their places. *)
LEMMA Lists ==
  ASSUME TypeOK
  PROVE  /\ chain \in Seq(WatcherT) /\ Len(chain) \in Nat /\ DOMAIN chain = 1..Len(chain)
         /\ \A k \in 1..Len(chain) :
              /\ chain[k] \in WatcherT /\ chain[k].id \in 1..MaxWatcher /\ chain[k].fd \in Fd
         /\ timers \in Seq(TimerT) /\ Len(timers) \in Nat /\ DOMAIN timers = 1..Len(timers)
         /\ \A k \in 1..Len(timers) :
              /\ timers[k] \in TimerT /\ timers[k].id \in 1..MaxTimer
              /\ timers[k].interval \in Interval /\ timers[k].interval \in Nat
              /\ timers[k].left \in 0..(2 * IntMax + 1) /\ timers[k].left \in Nat
         /\ fds \in Seq(SlotT) /\ Len(fds) \in Nat /\ DOMAIN fds = 1..Len(fds)
         /\ \A i \in 1..Len(fds) :
              /\ fds[i] \in SlotT /\ fds[i].fd \in Fd /\ fds[i].fd \in Nat
              /\ fds[i].events \in SUBSET Events
              /\ fds[i].revents \in SUBSET (Events \cup {"NVAL"})
<1>1. chain \in Seq(WatcherT) /\ timers \in Seq(TimerT) /\ fds \in Seq(SlotT)
  BY DEF TypeOK, WatcherT, TimerT, SlotT
<1>2. /\ Len(chain) \in Nat /\ DOMAIN chain = 1..Len(chain)
      /\ \A k \in 1..Len(chain) : chain[k] \in WatcherT
  BY <1>1
<1>3. /\ Len(timers) \in Nat /\ DOMAIN timers = 1..Len(timers)
      /\ \A k \in 1..Len(timers) : timers[k] \in TimerT
  BY <1>1
<1>4. /\ Len(fds) \in Nat /\ DOMAIN fds = 1..Len(fds)
      /\ \A i \in 1..Len(fds) : fds[i] \in SlotT
  BY <1>1
<1>5. \A k \in 1..Len(chain) : chain[k].id \in 1..MaxWatcher /\ chain[k].fd \in Fd
  BY <1>2 DEF WatcherT
<1>6. \A k \in 1..Len(timers) :
        /\ timers[k].id \in 1..MaxTimer
        /\ timers[k].interval \in Interval /\ timers[k].interval \in Nat
        /\ timers[k].left \in 0..(2 * IntMax + 1) /\ timers[k].left \in Nat
  BY <1>3, Bounds DEF TimerT
<1>7. \A i \in 1..Len(fds) :
        /\ fds[i].fd \in Fd /\ fds[i].fd \in Nat
        /\ fds[i].events \in SUBSET Events
        /\ fds[i].revents \in SUBSET (Events \cup {"NVAL"})
  BY <1>4, Bounds DEF SlotT, Fd
<1> QED
  BY <1>1, <1>2, <1>3, <1>4, <1>5, <1>6, <1>7

(* watcher_list points to the first node. *)
LEMMA WholeChain ==
  ASSUME TypeOK, Programs
  PROVE  Watchers = chain /\ (chain # <<>> => head = 1)
<1>1. chain # <<>> => head = 1
  BY DEF Programs, TypeOK
<1>2. chain # <<>> => SubSeq(chain, 1, Len(chain)) = chain
  BY Lists
<1> QED
  BY <1>1, <1>2 DEF Watchers

(* The larger and the smaller of two numbers. *)
LEMMA MaxOfTwo ==
  ASSUME NEW a \in Int, NEW b \in Int
  PROVE  Max({a, b}) = IF a >= b THEN a ELSE b
BY DEF Max

LEMMA MinOfTwo ==
  ASSUME NEW a \in Int, NEW b \in Int
  PROVE  Min({a, b}) = IF a <= b THEN a ELSE b
BY DEF Min

(* Time takes from what is left of each timer, down to nothing. *)
LEMMA TimePassed ==
  ASSUME NEW ts \in Seq(TimerT), NEW time \in Nat
  PROVE  /\ Elapsed(ts, time) \in Seq(TimerT)
         /\ Len(Elapsed(ts, time)) = Len(ts)
         /\ \A k \in 1..Len(ts) :
              /\ Elapsed(ts, time)[k].id = ts[k].id
              /\ Elapsed(ts, time)[k].interval = ts[k].interval
              /\ Elapsed(ts, time)[k].again = ts[k].again
              /\ Elapsed(ts, time)[k].left =
                   IF ts[k].left >= time THEN ts[k].left - time ELSE 0
<1> DEFINE el == Elapsed(ts, time)
<1>0. /\ Len(ts) \in Nat /\ DOMAIN ts = 1..Len(ts)
      /\ \A k \in 1..Len(ts) : ts[k] \in TimerT
  OBVIOUS
<1>1. \A k \in 1..Len(ts) : ts[k].left \in 0..(2 * IntMax + 1) /\ ts[k].left \in Nat
  BY <1>0, Bounds DEF TimerT
<1>2. \A k \in 1..Len(ts) :
        Max({0, ts[k].left - time}) = IF ts[k].left >= time THEN ts[k].left - time ELSE 0
  BY <1>1, MaxOfTwo
<1>3. el = [k \in 1..Len(ts) |->
              [ts[k] EXCEPT !.left = IF ts[k].left >= time THEN ts[k].left - time ELSE 0]]
  BY <1>0, <1>2 DEF Elapsed
<1>4. ASSUME NEW k \in 1..Len(ts)
      PROVE  el[k] \in TimerT
  <2>1. (IF ts[k].left >= time THEN ts[k].left - time ELSE 0) \in 0..(2 * IntMax + 1)
    BY <1>1, Bounds
  <2> QED
    BY <1>0, <1>3, <2>1 DEF TimerT
<1>5. el \in Seq(TimerT) /\ Len(el) = Len(ts)
  BY <1>0, <1>3, <1>4
<1>6. \A k \in 1..Len(ts) :
        /\ el[k].id = ts[k].id /\ el[k].interval = ts[k].interval /\ el[k].again = ts[k].again
        /\ el[k].left = IF ts[k].left >= time THEN ts[k].left - time ELSE 0
  BY <1>0, <1>3 DEF TimerT
<1> QED
  BY <1>5, <1>6

-----------------------------------------------------------------------------
(* The sort and the poll set *)

(* d_list_insert_sort puts every node somewhere, in ascending order, and keeps
   the order of equal descriptors. *)
LEMMA Sorting ==
  ASSUME TypeOK
  PROVE  /\ SortedChain \in Seq(WatcherT) /\ Len(SortedChain) = Len(chain)
         /\ \A k \in 1..Len(chain) :
              Place(k) \in 1..Len(chain) /\ SortedChain[Place(k)] = chain[k]
         /\ \A k \in 1..Len(chain) : \E i \in 1..Len(chain) : Place(i) = k
         /\ \A j, k \in 1..Len(chain) : Before(j, k) => Place(j) < Place(k)
         /\ \A j, k \in 1..Len(chain) : j < k => SortedChain[j].fd <= SortedChain[k].fd
<1> DEFINE n == Len(chain)
           B == [i \in 1..n |-> {j \in DOMAIN chain : Before(j, i)}]
<1>1. /\ n \in Nat /\ DOMAIN chain = 1..n
      /\ \A k \in 1..n : chain[k] \in WatcherT /\ chain[k].fd \in Int
  BY Lists DEF Fd
<1>2. \A i, j \in 1..n : Before(i, j) \in BOOLEAN /\ (i \in B[j] <=> Before(i, j))
  BY <1>1 DEF Before
<1>3. B \in [1..n -> SUBSET (1..n)]
  BY <1>1
<1>4. /\ \A i \in 1..n : i \notin B[i]
      /\ \A i, j \in 1..n : i # j => i \in B[j] \/ j \in B[i]
  BY <1>1, <1>2 DEF Before
<1>5. \A i, j \in 1..n : i \in B[j] => B[i] \subseteq B[j]
  <2> SUFFICES ASSUME NEW i \in 1..n, NEW j \in 1..n, Before(i, j),
                      NEW k \in 1..n, Before(k, i)
               PROVE  Before(k, j)
    BY <1>2, <1>3
  <2> QED
    BY <1>1 DEF Before
<1>6. /\ \A i \in 1..n : Cardinality(B[i]) + 1 \in 1..n
      /\ \A i, j \in 1..n : i \in B[j] => Cardinality(B[i]) < Cardinality(B[j])
      /\ \A i, j \in 1..n : Cardinality(B[i]) = Cardinality(B[j]) => i = j
      /\ \A k \in 1..n : \E i \in 1..n : Cardinality(B[i]) + 1 = k
  <2> HIDE DEF n, B
  <2> QED
    BY <1>1, <1>3, <1>4, <1>5, Ranks
<1>7. /\ \A i \in 1..n : Place(i) = Cardinality(B[i]) + 1
      /\ \A i \in 1..n : Cardinality(B[i]) \in Nat
  <2>1. IsFiniteSet(1..n)
    BY <1>1, FS_Interval
  <2>2. \A i \in 1..n : B[i] \in SUBSET (1..n)
    BY <1>3
  <2>3. \A i \in 1..n : IsFiniteSet(B[i])
    <3> HIDE DEF B
    <3> QED
      BY <2>1, <2>2, FS_Subset
  <2> QED
    BY <2>3, FS_CardinalityType DEF Place
<1> HIDE DEF B
<1>8. \A k \in 1..n : \E i \in 1..n : Place(i) = k /\ SortedChain[k] = chain[i]
  <2> TAKE k \in 1..n
  <2> DEFINE c == CHOOSE i \in DOMAIN chain : Place(i) = k
  <2>1. c \in 1..n /\ Place(c) = k
    BY <1>1, <1>6, <1>7
  <2>2. SortedChain[k] = chain[c]
    BY DEF SortedChain
  <2> QED
    BY <2>1, <2>2
<1>9. SortedChain \in Seq(WatcherT) /\ Len(SortedChain) = n
  <2>1. \A k \in 1..n : SortedChain[k] \in WatcherT
    BY <1>1, <1>8
  <2>2. DOMAIN SortedChain = 1..n /\ SortedChain = [k \in 1..n |-> SortedChain[k]]
    BY DEF SortedChain
  <2> QED
    BY <1>1, <2>1, <2>2
<1>10. \A k \in 1..n : Place(k) \in 1..n /\ SortedChain[Place(k)] = chain[k]
  <2> TAKE k \in 1..n
  <2>1. Place(k) \in 1..n
    BY <1>6, <1>7
  <2>2. PICK i \in 1..n : Place(i) = Place(k) /\ SortedChain[Place(k)] = chain[i]
    BY <1>8, <2>1
  <2>3. i = k
    BY <1>6, <1>7, <2>2
  <2> QED
    BY <2>1, <2>2, <2>3
<1>11. \A j, k \in 1..n : Before(j, k) => Place(j) < Place(k)
  <2> SUFFICES ASSUME NEW j \in 1..n, NEW k \in 1..n, Before(j, k) PROVE Place(j) < Place(k)
    OBVIOUS
  <2>1. j \in B[k]
    BY <1>2
  <2>2. Cardinality(B[j]) < Cardinality(B[k])
    BY <1>6, <2>1
  <2> QED
    BY <1>7, <2>2
<1>12. ASSUME NEW j \in 1..n, NEW k \in 1..n, j < k
       PROVE  SortedChain[j].fd <= SortedChain[k].fd
  <2>1. PICK a \in 1..n : Place(a) = j /\ SortedChain[j] = chain[a]
    BY <1>8
  <2>2. PICK b \in 1..n : Place(b) = k /\ SortedChain[k] = chain[b]
    BY <1>8
  <2>3. ~Before(b, a)
    BY <1>11, <1>12, <2>1, <2>2
  <2>4. a # b
    BY <1>12, <2>1, <2>2
  <2> QED
    BY <1>1, <2>1, <2>2, <2>3, <2>4 DEF Before
<1> QED
  BY <1>8, <1>9, <1>10, <1>11, <1>12

(* Of a sorted list, the poll set has every descriptor once, and else only what
   memset left. *)
LEMMA PollSetOf ==
  ASSUME NEW list \in Seq(WatcherT),
         \A j, k \in 1..Len(list) : j < k => list[j].fd <= list[k].fd
  PROVE  /\ PollSet(list) \in Seq(SlotT) /\ Len(PollSet(list)) = Len(list)
         /\ \A i, j \in 1..Len(list) :
              i # j /\ PollSet(list)[i].fd = PollSet(list)[j].fd
                => PollSet(list)[i].fd = Stdin /\ \E k \in 1..Len(list) : Repeats(list, k)
         /\ \A k \in 1..Len(list) : \E i \in 1..Len(list) :
              PollSet(list)[i].fd = list[k].fd /\ PollSet(list)[i].events = Events
<1> DEFINE n == Len(list)
           set == PollSet(list)
<1>1. n \in Nat /\ \A k \in 1..n : list[k] \in WatcherT /\ list[k].fd \in Fd /\ list[k].fd \in Int
  <2>1. n \in Nat /\ \A k \in 1..n : list[k] \in WatcherT
    OBVIOUS
  <2> QED
    BY <2>1, Bounds DEF WatcherT, Fd
<1>2. Stdin \in Fd
  BY Bounds DEF Stdin, Fd
<1>3. \A k \in 1..n :
        /\ Repeats(list, k) => set[k].fd = Stdin
        /\ ~Repeats(list, k) => set[k].fd = list[k].fd /\ set[k].events = Events
        /\ set[k] \in SlotT
  BY <1>1, <1>2 DEF PollSet, SlotT
<1>4. set \in Seq(SlotT) /\ Len(set) = n
  <2>1. DOMAIN set = 1..n /\ set = [k \in 1..n |-> set[k]]
    BY DEF PollSet
  <2> HIDE DEF set
  <2> QED
    BY <1>1, <1>3, <2>1
<1>5. ASSUME NEW i \in 1..n, NEW j \in 1..n, i < j, set[i].fd = set[j].fd
      PROVE  set[i].fd = Stdin /\ \E k \in 1..n : Repeats(list, k)
  <2>1. CASE Repeats(list, i) \/ Repeats(list, j)
    BY <1>3, <1>5, <2>1
  <2>2. CASE ~Repeats(list, i) /\ ~Repeats(list, j)
    <3>1. list[i].fd = list[j].fd
      BY <1>3, <1>5, <2>2
    <3>2. j - 1 \in 1..n /\ j \in 2..n
      BY <1>1, <1>5
    <3>3. list[i].fd <= list[j - 1].fd /\ list[j - 1].fd <= list[j].fd
      BY <1>1, <1>5, <3>2
    <3>4. list[j].fd = list[j - 1].fd
      BY <1>1, <3>1, <3>2, <3>3
    <3> QED
      BY <2>2, <3>2, <3>4 DEF Repeats
  <2> QED
    BY <2>1, <2>2
<1>6. ASSUME NEW k \in 1..n
      PROVE  \E i \in 1..n : set[i].fd = list[k].fd /\ set[i].events = Events
  <2> DEFINE T == {m \in 1..n : list[m].fd = list[k].fd}
  <2>1. T \subseteq Nat /\ T # {}
    BY <1>1
  <2>2. PICK m \in T : \A l \in T : m <= l
    BY <2>1, LeastElement
  <2>3. ~Repeats(list, m)
    <3> SUFFICES ASSUME Repeats(list, m) PROVE FALSE
      OBVIOUS
    <3>1. m - 1 \in 1..n /\ list[m - 1].fd = list[m].fd
      BY <1>1 DEF Repeats
    <3>2. m - 1 \in T
      BY <3>1
    <3> QED
      BY <1>1, <2>2, <3>2
  <2> QED
    BY <1>3, <2>3
<1>7. \A i, j \in 1..n : i # j /\ set[i].fd = set[j].fd
         => set[i].fd = Stdin /\ \E k \in 1..n : Repeats(list, k)
  <2> HIDE DEF set
  <2> SUFFICES ASSUME NEW i \in 1..n, NEW j \in 1..n, i # j, set[i].fd = set[j].fd
               PROVE  set[i].fd = Stdin /\ \E k \in 1..n : Repeats(list, k)
    OBVIOUS
  <2>1. i < j \/ j < i
    BY <1>1
  <2> QED
    BY <1>5, <2>1
<1> QED
  BY <1>4, <1>6, <1>7

-----------------------------------------------------------------------------
(* The walks *)

(* The node after the one at p, found by its id. *)
LEMMA NextAfter ==
  ASSUME NEW X, NEW list \in Seq(X), NEW p \in 1..Len(list),
         \A j, k \in 1..Len(list) : list[j].id = list[k].id => j = k
  PROVE  NextOf(list, list[p].id) = IF p = Len(list) THEN None ELSE list[p + 1].id
<1> DEFINE c == CHOOSE i \in DOMAIN list : list[i].id = list[p].id
<1>1. DOMAIN list = 1..Len(list)
  OBVIOUS
<1>2. c \in 1..Len(list) /\ list[c].id = list[p].id
  BY <1>1
<1>3. c = p
  BY <1>2
<1> QED
  BY <1>3 DEF NextOf

(* Where the walk over the timers is. *)
LEMMA TimerCursor ==
  ASSUME TypeOK, Ids, Walking, phase = "timers", walk # None
  PROVE  /\ Cursor \in 1..Len(timers) /\ timers[Cursor].id = walk /\ WalkAt(Cursor)
         /\ TheTimer = timers[Cursor]
         /\ NextOf(timers, walk) =
              IF Cursor = Len(timers) THEN None ELSE timers[Cursor + 1].id
<1>1. PICK q \in 1..(Len(timers) + 1) : WalkAt(q)
  BY DEF Walking
<1>2. Len(timers) \in Nat /\ DOMAIN timers = 1..Len(timers) /\ timers \in Seq(TimerT)
      /\ \A k \in 1..Len(timers) : timers[k].id \in Int
  BY Lists
<1>3. q \in 1..Len(timers) /\ timers[q].id = walk
  BY <1>1, <1>2 DEF WalkAt
<1>4. \A j, k \in 1..Len(timers) : timers[j].id = timers[k].id => j = k
  <2> SUFFICES ASSUME NEW j \in 1..Len(timers), NEW k \in 1..Len(timers), j < k
               PROVE  timers[j].id # timers[k].id
    BY <1>2
  <2> QED
    BY <1>2 DEF Ids
<1>5. Cursor = q
  <2>1. Cursor \in 1..Len(timers) /\ timers[Cursor].id = walk
    BY <1>2, <1>3 DEF Cursor
  <2> QED
    BY <1>3, <1>4, <2>1
<1>6. NextOf(timers, walk) = IF q = Len(timers) THEN None ELSE timers[q + 1].id
  BY <1>2, <1>3, <1>4, NextAfter
<1> QED
  BY <1>1, <1>3, <1>5, <1>6 DEF TheTimer

(* Where the walk over the watchers is: the slot's descriptor and the next
   node are those of one place in the chain. *)
LEMMA WatcherCursor ==
  ASSUME TypeOK, Programs, Ids, Visiting, phase = "events", node # None
  PROVE  /\ slot \in 1..Len(fds)
         /\ \E p \in 1..Len(chain) :
              /\ chain[p].id = node /\ VisitAt(p) /\ FdOf(node) = chain[p].fd
              /\ Matches(node) <=> fds[slot].fd = chain[p].fd /\ Hit(slot)
              /\ NextOf(Watchers, node) = IF p = Len(chain) THEN None ELSE chain[p + 1].id
<1>1. slot \in 1..Len(fds)
  BY Lists DEF Visiting, TypeOK
<1>2. PICK p \in 1..(Len(chain) + 1) : VisitAt(p)
  BY DEF Visiting
<1>3. Len(chain) \in Nat /\ DOMAIN chain = 1..Len(chain) /\ chain \in Seq(WatcherT)
  BY Lists
<1>4. p \in 1..Len(chain) /\ chain[p].id = node
  BY <1>2, <1>3 DEF VisitAt
<1>5. FdOf(node) = chain[p].fd
  <2> DEFINE c == CHOOSE i \in DOMAIN chain : chain[i].id = node
  <2>1. c \in 1..Len(chain) /\ chain[c].id = node
    BY <1>3, <1>4
  <2>2. c = p
    BY <1>4, <2>1 DEF Ids
  <2> QED
    BY <2>2 DEF FdOf
<1>6. NextOf(Watchers, node) = IF p = Len(chain) THEN None ELSE chain[p + 1].id
  <2>1. \A j, k \in 1..Len(chain) : chain[j].id = chain[k].id => j = k
    BY DEF Ids
  <2>2. NextOf(chain, node) = IF p = Len(chain) THEN None ELSE chain[p + 1].id
    BY <1>3, <1>4, <2>1, NextAfter
  <2> QED
    BY <2>2, WholeChain
<1>7. Matches(node) <=> fds[slot].fd = chain[p].fd /\ Hit(slot)
  BY <1>5 DEF Matches, Hit
<1> QED
  BY <1>1, <1>2, <1>4, <1>5, <1>6, <1>7

-----------------------------------------------------------------------------
(* Initial states, and each action *)

LEMMA InitIInv ==
  ASSUME Init
  PROVE  IInv
<1>1. /\ walk = None /\ timeout = Forever /\ wait = 0 /\ fds = <<>> /\ slot = 0 /\ node = None
      /\ open = 0..FirstFd /\ ready = [f \in Fd |-> {}] /\ called = <<>> /\ known = 0
      /\ phase \in {"top", "crashed"} /\ program \in {"server", "client", "timers"}
  BY DEF Init, ServerStarts, ClientStarts, TimersStart
<1>2. /\ chain \in Seq([id : 1..MaxWatcher, fd : Fd]) /\ head \in 0..Len(chain)
      /\ lastId \in 0..MaxWatcher
      /\ \A j, k \in 1..Len(chain) : chain[j].id = chain[k].id => j = k
      /\ \A k \in 1..Len(chain) : chain[k].id <= lastId
      /\ Programs
  <2>1. Stdin \in Fd /\ FirstFd \in Fd /\ 1 \in 1..MaxWatcher /\ 2 \in 1..MaxWatcher
    BY Bounds DEF Stdin, Fd
  <2>2. ready[FirstFd] = {}
    BY <1>1, <2>1
  <2>3. CASE ServerStarts
    BY <1>1, <2>1, <2>2, <2>3, Bounds DEF ServerStarts, Programs
  <2>4. CASE ClientStarts
    <3>1. /\ chain = <<[id |-> 1, fd |-> Stdin], [id |-> 2, fd |-> FirstFd]>>
          /\ head = 1 /\ lastId = 2 /\ program = "client"
      BY <2>4 DEF ClientStarts
    <3>2. chain \in Seq([id : 1..MaxWatcher, fd : Fd]) /\ Len(chain) = 2
      BY <2>1, <3>1
    <3>3. \A k \in 1..Len(chain) : chain[k].id = k
      BY <3>1, <3>2
    <3> QED
      BY <3>1, <3>2, <3>3, Bounds DEF Programs
  <2>5. CASE TimersStart
    BY <2>5, Bounds DEF TimersStart, Programs, None
  <2> QED
    BY <2>3, <2>4, <2>5 DEF Init
<1>3. /\ timers \in Seq([id : 1..MaxTimer, interval : Interval, left : 0..(2 * IntMax + 1), again : BOOLEAN])
      /\ added \in 0..MaxTimer
      /\ \A j, k \in 1..Len(timers) : j < k => timers[j].id < timers[k].id
      /\ \A k \in 1..Len(timers) : timers[k].id <= added /\ timers[k].left <= timers[k].interval
  <2>1. CASE timers = <<>> /\ added = 0
    BY <2>1, Bounds
  <2>2. CASE TimersStart
    <3>1. PICK ivl \in [1..MaxTimer -> Interval \ {0}], again \in [1..MaxTimer -> BOOLEAN] :
            timers = [i \in 1..MaxTimer |->
                        [id |-> i, interval |-> ivl[i], left |-> ivl[i], again |-> again[i]]]
      BY <2>2 DEF TimersStart
    <3>2. \A i \in 1..MaxTimer : ivl[i] \in Interval /\ ivl[i] \in 0..(2 * IntMax + 1)
      <4>1. \A i \in 1..MaxTimer : ivl[i] \in Interval
        OBVIOUS
      <4> QED
        BY <4>1, Bounds
    <3>3. Len(timers) = MaxTimer /\ timers \in Seq(TimerT)
      <4>1. \A i \in 1..MaxTimer : timers[i] \in TimerT
        BY <3>1, <3>2 DEF TimerT
      <4> QED
        BY <3>1, <4>1, Bounds
    <3>4. /\ added = MaxTimer
          /\ \A k \in 1..MaxTimer : timers[k].id = k /\ timers[k].left <= timers[k].interval
      BY <2>2, <3>1, <3>2 DEF TimersStart
    <3>5. /\ \A j, k \in 1..Len(timers) : j < k => timers[j].id < timers[k].id
          /\ \A k \in 1..Len(timers) : timers[k].id <= added /\ timers[k].left <= timers[k].interval
      BY <3>3, <3>4, Bounds
    <3>6. added \in 0..MaxTimer
      BY <3>4, Bounds
    <3> QED
      BY <3>3, <3>5, <3>6 DEF TimerT
  <2> QED
    BY <2>1, <2>2 DEF Init, ServerStarts, ClientStarts
<1>4. TypeOK
  BY <1>1, <1>2, <1>3, Bounds DEF TypeOK, None, Forever, Events, Fd
<1> QED
  BY <1>1, <1>2, <1>3, <1>4
     DEF IInv, Resting, Ids, Walking, SleepBound, Slots, PollCovers, Reports, Visiting

LEMMA StopStep ==
  ASSUME IInv, Stop
  PROVE  IInv'
<1>1. /\ phase = "top" /\ phase' = "stopped"
      /\ UNCHANGED <<program, chain, head, lastId, timers, added, walk, timeout, wait, fds, slot,
                     node, open, ready, called, known>>
  BY DEF Stop, lists, kernel, round
<1> QED
  BY <1>1
     DEF IInv, TypeOK, Resting, Programs, Ids, Walking, SleepBound, Slots, PollCovers, Reports,
         Visiting

LEMMA StartRoundStep ==
  ASSUME IInv, StartRound
  PROVE  IInv'
<1>1. /\ phase = "top" /\ phase' = "timers" /\ walk' = FirstOf(timers) /\ timeout' = Forever
      /\ UNCHANGED <<program, chain, head, lastId, timers, added, wait, fds, slot, node, open,
                     ready, called, known>>
  BY DEF StartRound, lists, kernel, round
<1>2. Len(timers) \in Nat /\ timers \in Seq(TimerT)
      /\ \A k \in 1..Len(timers) : timers[k].id \in 1..MaxTimer
  BY Lists DEF IInv
<1>3. walk' = IF 1 > Len(timers) THEN None ELSE timers[1].id
  BY <1>1, <1>2 DEF FirstOf
<1>4. TypeOK'
  <2>1. walk' \in 0..MaxTimer
    BY <1>2, <1>3, Bounds DEF None
  <2> QED
    BY <1>1, <2>1, Bounds DEF IInv, TypeOK, Forever
<1>5. Walking'
  <2>1. WalkAt(1)'
    BY <1>1, <1>2, <1>3 DEF WalkAt
  <2>2. 1 \in 1..(Len(timers') + 1)
    BY <1>1, <1>2
  <2> QED
    BY <2>1, <2>2 DEF Walking
<1> QED
  BY <1>1, <1>4, <1>5
     DEF IInv, Resting, Programs, Ids, SleepBound, Slots, PollCovers, Reports, Visiting

LEMMA NotExpiredStep ==
  ASSUME IInv, NotExpired
  PROVE  IInv'
<1>1. /\ phase = "timers" /\ walk # None /\ TheTimer.left > 0 /\ phase' = "timers"
      /\ timeout' = MinTimeout(TheTimer.left) /\ walk' = NextOf(timers, walk)
      /\ UNCHANGED <<program, chain, head, lastId, timers, added, wait, fds, slot, node, open,
                     ready, called, known>>
  BY DEF NotExpired, lists, kernel, round
<1>2. PICK q \in 1..Len(timers) :
        /\ timers[q].id = walk /\ WalkAt(q) /\ TheTimer = timers[q]
        /\ NextOf(timers, walk) = IF q = Len(timers) THEN None ELSE timers[q + 1].id
  BY <1>1, TimerCursor DEF IInv
<1>3. /\ Len(timers) \in Nat
      /\ \A k \in 1..Len(timers) : /\ timers[k].id \in 1..MaxTimer
                                   /\ timers[k].left \in 0..(2 * IntMax + 1)
  BY Lists DEF IInv
<1>4. timeout \in Forever..(2 * IntMax + 1)
  BY DEF IInv, TypeOK
<1>5. timeout' = IF timeout = Forever \/ timers[q].left <= timeout THEN timers[q].left ELSE timeout
  <2>1. timers[q].left \in Int /\ timeout \in Int
    BY <1>2, <1>3, <1>4, Bounds DEF Forever
  <2>2. Min({timeout, timers[q].left}) = IF timeout <= timers[q].left THEN timeout ELSE timers[q].left
    BY <2>1, MinOfTwo
  <2> QED
    BY <1>1, <1>2, <2>1, <2>2 DEF MinTimeout
<1>6. TypeOK'
  <2>1. walk' \in 0..MaxTimer
    BY <1>1, <1>2, <1>3, Bounds DEF None
  <2>2. timeout' \in Forever..(2 * IntMax + 1)
    BY <1>2, <1>3, <1>4, <1>5, Bounds DEF Forever
  <2> QED
    BY <1>1, <2>1, <2>2 DEF IInv, TypeOK
<1>7. Walking'
  <2>1. WalkAt(q + 1)'
    <3>1. walk' = IF q + 1 > Len(timers) THEN None ELSE timers[q + 1].id
      BY <1>1, <1>2, <1>3
    <3>2. ASSUME NEW k \in 1..Len(timers), k < q + 1
          PROVE  timeout' \in 0..timers[k].left
      <4>1. CASE k = q
        BY <1>1, <1>2, <1>3, <1>4, <1>5, <4>1 DEF Forever
      <4>2. CASE k < q
        <5>1. timeout \in 0..timers[k].left
          BY <1>2, <4>2 DEF WalkAt
        <5> QED
          BY <1>1, <1>2, <1>3, <1>5, <5>1, Bounds DEF Forever
      <4> QED
        BY <1>2, <3>2, <4>1, <4>2
    <3> QED
      BY <1>1, <3>1, <3>2 DEF WalkAt
  <2>2. q + 1 \in 1..(Len(timers') + 1)
    BY <1>1, <1>2, <1>3
  <2> QED
    BY <2>1, <2>2 DEF Walking
<1> QED
  BY <1>1, <1>6, <1>7
     DEF IInv, Resting, Programs, Ids, SleepBound, Slots, PollCovers, Reports, Visiting

(* The callback may take its own timer off the list. *)
LEMMA ExpiredStep ==
  ASSUME IInv, Expired
  PROVE  IInv'
<1>1. /\ phase = "timers" /\ walk # None /\ TheTimer.left <= 0 /\ phase' = "timers"
      /\ timeout' = MinTimeout(0) /\ walk' = NextOf(timers, walk)
      /\ UNCHANGED <<program, chain, head, lastId, added, wait, fds, slot, node, open,
                     ready, called, known>>
  BY DEF Expired, lists, kernel, round
<1>3. PICK q \in 1..Len(timers) :
        /\ q = Cursor /\ timers[q].id = walk /\ WalkAt(q) /\ TheTimer = timers[q]
        /\ NextOf(timers, walk) = IF q = Len(timers) THEN None ELSE timers[q + 1].id
  BY <1>1, TimerCursor DEF IInv
<1> DEFINE kept == IF timers[q].again THEN [timers EXCEPT ![q].left = timers[q].interval]
                   ELSE RemoveAt(timers, q)
<1>2. PICK time \in 0..MaxWork : timers' = Elapsed(kept, time)
  BY <1>3 DEF Expired
<1>4. /\ timers \in Seq(TimerT) /\ Len(timers) \in Nat
      /\ \A k \in 1..Len(timers) :
           /\ timers[k] \in TimerT /\ timers[k].id \in 1..MaxTimer
           /\ timers[k].interval \in Interval /\ timers[k].interval \in 0..(2 * IntMax + 1)
           /\ timers[k].left \in 0..(2 * IntMax + 1) /\ timers[k].left <= timers[k].interval
  BY Lists, Bounds DEF IInv, Ids
(* The place in the old list of what is kept. *)
<1> DEFINE from(k) == IF timers[q].again \/ k < q THEN k ELSE k + 1
<1>5. /\ kept \in Seq(TimerT)
      /\ Len(kept) = IF timers[q].again THEN Len(timers) ELSE Len(timers) - 1
      /\ \A k \in 1..Len(kept) :
           /\ from(k) \in 1..Len(timers)
           /\ kept[k].id = timers[from(k)].id /\ kept[k].interval = timers[from(k)].interval
           /\ kept[k].left \in 0..kept[k].interval
  <2>1. CASE timers[q].again
    <3>1. kept = [timers EXCEPT ![q] = [timers[q] EXCEPT !.left = timers[q].interval]]
      BY <1>3, <2>1
    <3>2. [timers[q] EXCEPT !.left = timers[q].interval] \in TimerT
      BY <1>3, <1>4 DEF TimerT
    <3> HIDE DEF kept
    <3>3. /\ kept \in Seq(TimerT) /\ Len(kept) = Len(timers)
          /\ \A k \in 1..Len(timers) : k # q => kept[k] = timers[k]
          /\ kept[q] = [timers[q] EXCEPT !.left = timers[q].interval]
      BY <1>3, <1>4, <3>1, <3>2, ReplaceElement
    <3>4. /\ kept[q].id = timers[q].id /\ kept[q].interval = timers[q].interval
          /\ kept[q].left = timers[q].interval
      <4>1. timers[q] \in TimerT
        BY <1>4
      <4> QED
        BY <3>3, <4>1 DEF TimerT
    <3>5. \A k \in 1..Len(timers) : timers[k].left \in 0..timers[k].interval
      BY <1>4, Bounds
    <3>6. ASSUME NEW k \in 1..Len(kept) PROVE kept[k].left \in 0..kept[k].interval
      <4>1. CASE k = q
        BY <1>4, <3>4, <4>1, Bounds
      <4>2. CASE k # q
        BY <3>3, <3>5, <4>2
      <4> QED
        BY <4>1, <4>2
    <3> QED
      BY <1>4, <2>1, <3>3, <3>4, <3>6
  <2>2. CASE ~timers[q].again
    <3>1. kept = RemoveAt(timers, q)
      BY <1>3, <2>2
    <3>2. /\ kept \in Seq(TimerT) /\ Len(kept) = Len(timers) - 1
          /\ \A k \in 1..(Len(timers) - 1) : kept[k] = IF k < q THEN timers[k] ELSE timers[k + 1]
      BY <1>3, <1>4, <3>1, RemoveAtProperties
    <3> HIDE DEF kept
    <3>3. \A k \in 1..Len(kept) : from(k) \in 1..Len(timers) /\ kept[k] = timers[from(k)]
      BY <1>3, <1>4, <2>2, <3>2
    <3>4. \A k \in 1..Len(timers) : timers[k].left \in 0..timers[k].interval
      BY <1>4, Bounds
    <3>5. \A k \in 1..Len(kept) : kept[k].left \in 0..kept[k].interval
      BY <3>3, <3>4
    <3> QED
      BY <2>2, <3>2, <3>3, <3>5
  <2> QED
    BY <2>1, <2>2
<1> HIDE DEF kept
<1>6. /\ timers' \in Seq(TimerT) /\ Len(timers') = Len(kept)
      /\ \A k \in 1..Len(kept) :
           /\ timers'[k].id = kept[k].id /\ timers'[k].interval = kept[k].interval
           /\ timers'[k].left = IF kept[k].left >= time THEN kept[k].left - time ELSE 0
  BY <1>2, <1>5, TimePassed, Bounds
<1>7. Len(kept) \in Nat
  BY <1>5
<1>8. \A k \in 1..Len(kept) :
        /\ from(k) \in 1..Len(timers) /\ timers'[k].id = timers[from(k)].id
        /\ timers'[k].left \in Nat /\ timers'[k].left <= timers'[k].interval
  <2> SUFFICES ASSUME NEW k \in 1..Len(kept)
               PROVE  /\ from(k) \in 1..Len(timers) /\ timers'[k].id = timers[from(k)].id
                      /\ timers'[k].left \in Nat /\ timers'[k].left <= timers'[k].interval
    OBVIOUS
  <2>1. kept[k].left \in 0..kept[k].interval /\ kept[k].interval \in Nat
    BY <1>4, <1>5, Bounds
  <2> QED
    BY <1>5, <1>6, <2>1, Bounds
<1>9. timeout' = 0
  <2>1. timeout \in Forever..(2 * IntMax + 1)
    BY DEF IInv, TypeOK
  <2>2. timeout # Forever => timeout \in Nat
    BY <2>1, Bounds DEF Forever
  <2> QED
    BY <1>1, <2>2, MinOfTwo DEF MinTimeout
<1>10. TypeOK'
  <2>1. walk' \in 0..MaxTimer
    BY <1>1, <1>3, <1>4, Bounds DEF None
  <2>2. timers' \in Seq([id : 1..MaxTimer, interval : Interval, left : 0..(2 * IntMax + 1), again : BOOLEAN])
    BY <1>6 DEF TimerT
  <2> QED
    BY <1>1, <1>9, <2>1, <2>2, Bounds DEF IInv, TypeOK, Forever
<1>11. Ids'
  <2>1. \A j, k \in 1..Len(timers') : j < k => timers'[j].id < timers'[k].id
    <3> SUFFICES ASSUME NEW j \in 1..Len(timers'), NEW k \in 1..Len(timers'), j < k
                 PROVE  timers'[j].id < timers'[k].id
      OBVIOUS
    <3>1. from(j) < from(k)
      BY <1>3, <1>6, <1>7
    <3> QED
      BY <1>6, <1>8, <3>1 DEF IInv, Ids
  <2>2. \A k \in 1..Len(timers') : timers'[k].id <= added /\ timers'[k].left <= timers'[k].interval
    BY <1>6, <1>8 DEF IInv, Ids
  <2> QED
    BY <1>1, <2>1, <2>2 DEF IInv, Ids
<1>12. Walking'
  <2>0. PICK p : p = IF timers[q].again THEN q + 1 ELSE q
    OBVIOUS
  <2>1. p \in 1..(Len(timers') + 1)
    BY <1>3, <1>4, <1>5, <1>6, <2>0
  <2>2. walk' = IF p > Len(timers') THEN None ELSE timers'[p].id
    <3>1. CASE q = Len(timers)
      BY <1>1, <1>3, <1>4, <1>5, <1>6, <2>0, <3>1
    <3>2. CASE q # Len(timers)
      <4>1. p \in 1..Len(kept) /\ from(p) = q + 1
        BY <1>3, <1>4, <1>5, <2>0, <3>2
      <4>2. timers'[p].id = timers[q + 1].id
        BY <1>8, <4>1
      <4> QED
        BY <1>1, <1>3, <1>6, <1>7, <3>2, <4>1, <4>2
    <3> QED
      BY <3>1, <3>2
  <2>3. \A k \in 1..Len(timers') : timeout' \in 0..timers'[k].left
    BY <1>6, <1>8, <1>9
  <2>4. WalkAt(p)'
    BY <2>2, <2>3 DEF WalkAt
  <2> QED
    BY <2>1, <2>4 DEF Walking
<1> QED
  BY <1>1, <1>10, <1>11, <1>12
     DEF IInv, Resting, Programs, SleepBound, Slots, PollCovers, Reports, Visiting

(* The sort keeps the first node first: the server's has the lowest descriptor,
   the client's two nodes are in order from the start. *)
LEMMA SortKeepsHead ==
  ASSUME IInv
  PROVE  /\ Programs /\ HeadAfterSort = head
         /\ chain # <<>> => SortedChain # <<>> /\ SortedChain[1] = chain[1]
         /\ chain = <<>> => SortedChain = <<>>
         /\ program = "server" => \A k \in 2..Len(chain) : SortedChain[k].fd > FirstFd
         /\ program = "client" => SortedChain = chain
<1>1. /\ Len(chain) \in Nat /\ DOMAIN chain = 1..Len(chain) /\ chain \in Seq(WatcherT)
      /\ TypeOK /\ Programs
  BY Lists DEF IInv
<1>2. SortedChain \in Seq(WatcherT) /\ Len(SortedChain) = Len(chain)
  BY <1>1, Sorting
<1>3. chain = <<>> => SortedChain = <<>> /\ HeadAfterSort = head
  BY <1>1, <1>2 DEF HeadAfterSort, Programs, TypeOK
<1>4. ASSUME chain # <<>>,
             \A k \in 2..Len(chain) : Before(1, k)
      PROVE  Place(1) = 1 /\ SortedChain[1] = chain[1] /\ HeadAfterSort = head
  <2>1. 1 \in 1..Len(chain)
    BY <1>1, <1>4
  <2>2. PICK i \in 1..Len(chain) : Place(i) = 1
    BY <1>1, <2>1, Sorting
  <2>3. i = 1
    <3>1. ASSUME i # 1 PROVE FALSE
      <4>1. Place(1) < Place(i) /\ Place(1) \in 1..Len(chain)
        BY <1>1, <1>4, <2>1, <3>1, Sorting
      <4> QED
        BY <1>1, <2>2, <4>1
    <3> QED
      BY <3>1
  <2>4. SortedChain[1] = chain[1]
    BY <1>1, <2>1, <2>2, <2>3, Sorting
  <2>5. head = 1
    BY <1>1, <1>4, WholeChain
  <2> QED
    BY <1>4, <2>2, <2>3, <2>4, <2>5 DEF HeadAfterSort
<1>5. CASE program = "server"
  <2>1. /\ chain # <<>> /\ chain[1] = [id |-> 1, fd |-> FirstFd]
        /\ \A k \in 2..Len(chain) : chain[k].fd > FirstFd
    BY <1>1, <1>5 DEF Programs
  <2>2. \A k \in 2..Len(chain) : Before(1, k)
    BY <1>1, <2>1, Bounds DEF Before
  <2>3. Place(1) = 1 /\ SortedChain[1] = chain[1] /\ HeadAfterSort = head
    BY <1>4, <2>1, <2>2
  <2>4. ASSUME NEW k \in 2..Len(chain)
        PROVE  SortedChain[k].fd > FirstFd
    <3>1. k \in 1..Len(chain)
      BY <1>1
    <3>2. PICK i \in 1..Len(chain) : Place(i) = k
      BY <1>1, <3>1, Sorting
    <3>3. i \in 2..Len(chain) /\ SortedChain[k] = chain[i]
      <4>1. i # 1
        BY <1>1, <2>3, <3>2
      <4>2. SortedChain[Place(i)] = chain[i]
        BY <1>1, Sorting
      <4> QED
        BY <1>1, <3>2, <4>1, <4>2
    <3> QED
      BY <2>1, <3>3
  <2> QED
    BY <1>1, <1>2, <1>5, <2>1, <2>3, <2>4
<1>6. CASE program = "client" /\ chain # <<>>
  <2>1. chain = <<[id |-> 1, fd |-> Stdin], [id |-> 2, fd |-> FirstFd]>> /\ head = 1
    BY <1>1, <1>6 DEF Programs
  <2>2. Len(chain) = 2 /\ chain[1].fd < chain[2].fd
    BY <2>1, Bounds DEF Stdin
  <2>3. \A k \in 2..Len(chain) : Before(1, k)
    BY <2>2 DEF Before
  <2>4. Place(1) = 1 /\ SortedChain[1] = chain[1] /\ HeadAfterSort = head
    BY <1>4, <1>6, <2>3
  <2>5. SortedChain[2] = chain[2]
    <3>1. Place(1) < Place(2) /\ Place(2) \in 1..2 /\ SortedChain[Place(2)] = chain[2]
      <4>1. 1 \in 1..Len(chain) /\ 2 \in 1..Len(chain) /\ Before(1, 2)
        BY <2>2, <2>3
      <4> QED
        BY <1>1, <2>2, <4>1, Sorting
    <3> QED
      BY <2>4, <3>1
  <2>6. SortedChain = chain
    BY <1>1, <1>2, <2>2, <2>4, <2>5
  <2> QED
    BY <1>1, <1>6, <2>4, <2>6
<1>7. CASE chain = <<>>
  BY <1>1, <1>3, <1>7 DEF Programs
<1> QED
  BY <1>1, <1>5, <1>6, <1>7 DEF Programs, TypeOK

LEMMA StartPollStep ==
  ASSUME IInv, StartPoll
  PROVE  IInv'
<1>1. /\ phase = "timers" /\ walk = None /\ phase' = "poll"
      /\ chain' = SortedChain /\ head' = HeadAfterSort
      /\ fds' = PollSet(Watchers') /\ wait' = ToInt(timeout) /\ timeout' = Forever
      /\ UNCHANGED <<program, lastId, timers, added, walk, slot, node, open, ready, called, known>>
  BY DEF StartPoll, kernel, round
<1>2. /\ Len(chain) \in Nat /\ chain \in Seq(WatcherT) /\ TypeOK
      /\ \A k \in 1..Len(chain) : chain[k] \in WatcherT
  BY Lists DEF IInv
<1>3. /\ chain' \in Seq(WatcherT) /\ Len(chain') = Len(chain)
      /\ \A k \in 1..Len(chain) : \E i \in 1..Len(chain) :
           Place(i) = k /\ chain'[k] = chain[i]
      /\ \A j, k \in 1..Len(chain) : j < k => chain'[j].fd <= chain'[k].fd
  <2>1. \A k \in 1..Len(chain) : \E i \in 1..Len(chain) :
          Place(i) = k /\ SortedChain[k] = chain[i]
    BY <1>2, Sorting
  <2> QED
    BY <1>1, <1>2, <2>1, Sorting
<1>4. /\ HeadAfterSort = head
      /\ chain # <<>> => chain' # <<>> /\ chain'[1] = chain[1]
      /\ chain = <<>> => chain' = <<>>
      /\ program = "server" => \A k \in 2..Len(chain) : chain'[k].fd > FirstFd
      /\ program = "client" => chain' = chain
  BY <1>1, SortKeepsHead
<1>5. Programs'
  BY <1>1, <1>3, <1>4 DEF IInv, Programs
<1>6. Watchers' = chain'
  <2>1. chain' # <<>> => head' = 1
    BY <1>1, <1>2, <1>4, WholeChain DEF IInv
  <2>2. chain' # <<>> => SubSeq(chain', 1, Len(chain')) = chain'
    BY <1>3
  <2> QED
    BY <2>1, <2>2 DEF Watchers
<1>7. /\ fds' \in Seq(SlotT) /\ Len(fds') = Len(chain')
      /\ \A i, j \in 1..Len(chain') :
           i # j /\ fds'[i].fd = fds'[j].fd
             => fds'[i].fd = Stdin /\ \E k \in 1..Len(chain') : Repeats(chain', k)
      /\ \A k \in 1..Len(chain') : \E i \in 1..Len(chain') :
           fds'[i].fd = chain'[k].fd /\ fds'[i].events = Events
  <2>1. \A list \in Seq(WatcherT) :
          (\A j, k \in 1..Len(list) : j < k => list[j].fd <= list[k].fd)
            => /\ PollSet(list) \in Seq(SlotT) /\ Len(PollSet(list)) = Len(list)
               /\ \A i, j \in 1..Len(list) :
                    i # j /\ PollSet(list)[i].fd = PollSet(list)[j].fd
                      => PollSet(list)[i].fd = Stdin /\ \E k \in 1..Len(list) : Repeats(list, k)
               /\ \A k \in 1..Len(list) : \E i \in 1..Len(list) :
                    PollSet(list)[i].fd = list[k].fd /\ PollSet(list)[i].events = Events
    BY PollSetOf
  <2> QED
    BY <1>1, <1>3, <1>6, <2>1
<1>8. Slots'
  <2>1. ASSUME NEW k \in 1..Len(chain'), Repeats(chain', k)
        PROVE  program = "server"
    <3>1. program # "timers"
      BY <1>5, <2>1, <1>1 DEF Programs, Repeats
    <3>2. program # "client"
      BY <1>1, <1>5, <2>1, Bounds DEF Programs, Repeats, Stdin
    <3> QED
      BY <3>1, <3>2 DEF IInv, TypeOK
  <2> QED
    BY <1>1, <1>7, <2>1 DEF Slots
<1>9. PollCovers'
  <2>1. \A w \in ToSet(chain') : \E k \in 1..Len(chain') : w = chain'[k]
    BY <1>3 DEF ToSet
  <2>2. \A i \in 1..Len(chain') : fds'[i] \in ToSet(fds')
    BY <1>7 DEF ToSet
  <2> QED
    BY <1>7, <2>1, <2>2 DEF PollCovers
<1>10. timeout \in Forever..(2 * IntMax + 1)
  BY DEF IInv, TypeOK
<1>11. /\ wait' \in Int
       /\ timeout = Forever => wait' = -1
       /\ timeout \in 0..IntMax => wait' = timeout
       /\ timeout > IntMax => wait' < 0
       /\ wait' \in (-IntMax - 1)..IntMax
  BY <1>1, <1>10, Bounds DEF ToInt, Forever
<1>12. SleepBound'
  <2>1. /\ Len(timers) \in Nat /\ DOMAIN timers = 1..Len(timers)
        /\ \A k \in 1..Len(timers) :
             /\ timers[k].id \in 1..MaxTimer /\ timers[k].left \in Nat
             /\ timers[k].interval \in Nat /\ timers[k].left <= timers[k].interval
    BY Lists DEF IInv, Ids
  <2>2. PICK q \in 1..(Len(timers) + 1) : WalkAt(q)
    BY <1>1 DEF IInv, Walking
  <2>3. \A k \in 1..Len(timers) : timeout \in 0..timers[k].left
    <3>1. q = Len(timers) + 1
      BY <1>1, <2>1, <2>2 DEF WalkAt, None
    <3> QED
      BY <2>1, <2>2, <3>1 DEF WalkAt
  <2>4. \A t \in ToSet(timers) : \E k \in 1..Len(timers) : t = timers[k]
    BY <2>1 DEF ToSet
  <2>5. ASSUME NEW t \in ToSet(timers)
        PROVE  wait' \in 0..t.left \/ (wait' < 0 /\ \A u \in ToSet(timers) : u.interval > IntMax)
    <3>1. timeout \in 0..t.left
      BY <2>3, <2>4
    <3>2. CASE timeout <= IntMax
      BY <1>11, <3>1, <3>2, <2>1, <2>4, Bounds
    <3>3. CASE timeout > IntMax
      <4>1. \A k \in 1..Len(timers) : timers[k].interval > IntMax
        BY <2>1, <2>3, <3>3, Bounds
      <4> QED
        BY <1>11, <2>4, <3>3, <4>1
    <3> QED
      BY <1>10, <3>2, <3>3, Bounds DEF Forever
  <2> QED
    BY <1>1, <2>5 DEF SleepBound
<1>13. TypeOK'
  <2>1. head' \in 0..Len(chain')
    BY <1>1, <1>3, <1>4 DEF IInv, TypeOK
  <2>2. chain' \in Seq([id : 1..MaxWatcher, fd : Fd])
    BY <1>3 DEF WatcherT
  <2>3. fds' \in Seq([fd : Fd, events : SUBSET Events, revents : SUBSET (Events \cup {"NVAL"})])
    BY <1>7 DEF SlotT
  <2>4. slot' \in 0..Len(fds')
    BY <1>1, <1>3, <1>7, <1>2 DEF IInv, Resting
  <2> QED
    BY <1>1, <1>11, <2>1, <2>2, <2>3, <2>4, Bounds DEF IInv, TypeOK, Forever
<1>14. Ids'
  <2>1. ASSUME NEW j \in 1..Len(chain'), NEW k \in 1..Len(chain'), chain'[j].id = chain'[k].id
        PROVE  j = k
    <3>1. PICK a \in 1..Len(chain) : Place(a) = j /\ chain'[j] = chain[a]
      BY <1>3
    <3>2. PICK b \in 1..Len(chain) : Place(b) = k /\ chain'[k] = chain[b]
      BY <1>3
    <3>3. a = b
      BY <2>1, <3>1, <3>2 DEF IInv, Ids
    <3> QED
      BY <3>1, <3>2, <3>3
  <2>2. \A k \in 1..Len(chain') : chain'[k].id <= lastId
    BY <1>3 DEF IInv, Ids
  <2> QED
    BY <1>1, <2>1, <2>2 DEF IInv, Ids
<1> QED
  BY <1>1, <1>5, <1>8, <1>9, <1>12, <1>13, <1>14
     DEF IInv, Resting, Walking, Reports, Visiting

LEMMA TimePassesStep ==
  ASSUME IInv, TimePasses
  PROVE  IInv'
<1>1. /\ phase = "poll" /\ phase' = "poll" /\ wait # 0
      /\ wait' = (IF wait > 0 THEN wait - 1 ELSE wait) /\ timers' = Elapsed(timers, 1)
      /\ UNCHANGED <<program, chain, head, lastId, added, walk, timeout, fds, slot, node, open,
                     ready, called, known>>
  BY DEF TimePasses, lists, kernel, round, IInv, TypeOK
<1>2. /\ timers \in Seq(TimerT) /\ Len(timers) \in Nat /\ DOMAIN timers = 1..Len(timers)
      /\ \A k \in 1..Len(timers) :
           timers[k].left \in Nat /\ timers[k].interval \in Nat
           /\ timers[k].left <= timers[k].interval
  BY Lists DEF IInv, Ids
<1>3. /\ timers' \in Seq(TimerT) /\ Len(timers') = Len(timers)
      /\ \A k \in 1..Len(timers) :
           /\ timers'[k].id = timers[k].id /\ timers'[k].interval = timers[k].interval
           /\ timers'[k].left = IF timers[k].left >= 1 THEN timers[k].left - 1 ELSE 0
  BY <1>1, <1>2, TimePassed
<1>4. wait \in (-IntMax - 1)..IntMax
  BY DEF IInv, TypeOK
<1>5. TypeOK'
  <2>1. timers' \in Seq([id : 1..MaxTimer, interval : Interval, left : 0..(2 * IntMax + 1), again : BOOLEAN])
    BY <1>3 DEF TimerT
  <2>2. wait' \in (-IntMax - 1)..IntMax
    BY <1>1, <1>4, Bounds
  <2> QED
    BY <1>1, <2>1, <2>2 DEF IInv, TypeOK
<1>6. Ids'
  BY <1>1, <1>2, <1>3 DEF IInv, Ids
<1>7. SleepBound'
  <2>1. \A t \in ToSet(timers') : \E k \in 1..Len(timers) : t = timers'[k]
    BY <1>3 DEF ToSet
  <2>2. \A k \in 1..Len(timers) : timers[k] \in ToSet(timers)
    BY <1>2 DEF ToSet
  <2>3. ASSUME NEW k \in 1..Len(timers)
        PROVE  \/ wait' \in 0..timers'[k].left
               \/ wait' < 0 /\ \A u \in ToSet(timers') : u.interval > IntMax
    <3>1. CASE wait \in 0..timers[k].left
      BY <1>1, <1>2, <1>3, <3>1
    <3>2. CASE wait < 0 /\ \A u \in ToSet(timers) : u.interval > IntMax
      BY <1>1, <1>3, <1>4, <2>1, <2>2, <3>2, Bounds
    <3> QED
      BY <1>1, <2>2, <3>1, <3>2 DEF IInv, SleepBound
  <2> QED
    BY <2>1, <2>3 DEF SleepBound
<1> QED
  BY <1>1, <1>5, <1>6, <1>7
     DEF IInv, Resting, Programs, Walking, Slots, PollCovers, Reports, Visiting

LEMMA PollTimesOutStep ==
  ASSUME IInv, PollTimesOut
  PROVE  IInv'
<1>1. /\ phase = "poll" /\ phase' = "top" /\ fds' = <<>>
      /\ UNCHANGED <<program, chain, head, lastId, timers, added, walk, timeout, wait, slot, node,
                     open, ready, called, known>>
  BY DEF PollTimesOut, lists, kernel, round
<1>2. TypeOK'
  BY <1>1 DEF IInv, TypeOK, Resting
<1> QED
  BY <1>1, <1>2
     DEF IInv, Resting, Programs, Ids, Walking, SleepBound, Slots, PollCovers, Reports, Visiting

LEMMA PollReturnsStep ==
  ASSUME IInv, PollReturns
  PROVE  IInv'
<1>1. /\ phase = "poll" /\ phase' = "events" /\ wait' = 0 /\ known' = lastId
      /\ fds' = [i \in DOMAIN fds |-> [fds[i] EXCEPT !.revents = Revents(fds[i])]]
      /\ UNCHANGED <<program, chain, head, lastId, timers, added, walk, timeout, slot, node,
                     open, ready, called>>
  BY DEF PollReturns, lists, kernel
<1>2. /\ Len(fds) \in Nat /\ DOMAIN fds = 1..Len(fds)
      /\ \A i \in 1..Len(fds) : fds[i] \in SlotT /\ fds[i].fd \in Fd /\ fds[i].events \in SUBSET Events
  BY Lists DEF IInv
<1>3. ready \in [Fd -> SUBSET Events] /\ open \subseteq Fd /\ lastId \in 0..MaxWatcher
  BY DEF IInv, TypeOK
<1>4. ASSUME NEW i \in 1..Len(fds)
      PROVE  /\ fds'[i] \in SlotT /\ fds'[i].fd = fds[i].fd
             /\ fds'[i].revents = Revents(fds[i])
             /\ fds[i].fd \in open => Revents(fds[i]) \subseteq ready[fds[i].fd]
             /\ Revents(fds[i]) \cap Events # {} => fds[i].fd \in open
  <2>1. /\ Revents(fds[i]) \in SUBSET (Events \cup {"NVAL"})
        /\ fds[i].fd \in open => Revents(fds[i]) \subseteq ready[fds[i].fd]
        /\ Revents(fds[i]) \cap Events # {} => fds[i].fd \in open
    BY <1>2, <1>3 DEF Revents, Events
  <2> QED
    BY <1>1, <1>2, <2>1 DEF SlotT
<1>5. fds' \in Seq(SlotT) /\ Len(fds') = Len(fds)
  BY <1>1, <1>2, <1>4
<1>6. TypeOK'
  <2>1. fds' \in Seq([fd : Fd, events : SUBSET Events, revents : SUBSET (Events \cup {"NVAL"})])
    BY <1>5 DEF SlotT
  <2>2. wait' \in (-IntMax - 1)..IntMax
    BY <1>1, Bounds
  <2>3. slot' \in 0..Len(fds')
    BY <1>1, <1>5 DEF IInv, TypeOK
  <2> QED
    BY <1>1, <2>1, <2>2, <2>3 DEF IInv, TypeOK
<1>7. Slots'
  BY <1>1, <1>4, <1>5 DEF IInv, Slots
<1>8. Reports'
  <2>1. known' <= lastId
    BY <1>1, <1>3
  <2>2. \A i \in 1..Len(fds) : Hit(i)' => fds'[i].fd \in open
    BY <1>4 DEF Hit
  <2>3. \A k \in 1..Len(chain) : ~(chain[k].id > known')
    BY <1>1, <1>3, Lists DEF IInv, Ids
  <2>4. ASSUME NEW i \in 1..Len(fds), program = "server", fds'[i].fd = FirstFd
        PROVE  /\ "HUP" \notin fds'[i].revents
               /\ "IN" \in fds'[i].revents => "IN" \in ready[FirstFd]
    <3>1. FirstFd \in open /\ "HUP" \notin ready[FirstFd]
      BY <2>4, Bounds DEF IInv, Programs
    <3> QED
      BY <1>4, <2>4, <3>1
  <2>5. Len(fds') = Len(fds)
    BY <1>5
  <2>6. \A i \in 1..Len(fds') :
          program' = "server" /\ fds'[i].fd = FirstFd =>
            /\ "HUP" \notin fds'[i].revents
            /\ "IN" \in fds'[i].revents => "IN" \in ready'[FirstFd]
    BY <1>1, <2>4, <2>5
  <2>7. \A i \in 1..Len(fds') : Hit(i)' => fds'[i].fd \in open'
    BY <1>1, <2>2, <2>5
  <2>8. \A k \in 1..Len(chain') : ~(chain'[k].id > known')
    BY <1>1, <2>3
  <2>9. known' <= lastId'
    BY <1>1, <2>1
  <2> QED
    BY <2>6, <2>7, <2>8, <2>9 DEF Reports
<1>9. Visiting'
  <2>1. slot' = 0 /\ node' = None /\ called' = <<>>
    BY <1>1 DEF IInv, Resting
  <2>2. Len(chain) \in Nat
    BY Lists DEF IInv
  <2>3. \A k \in 1..Len(chain) : ~CalledBefore(k, Len(chain) + 1)'
    BY <2>1 DEF CalledBefore, Offered
  <2>4. VisitAt(Len(chain) + 1)'
    BY <1>1, <2>1, <2>2, <2>3 DEF VisitAt
  <2>5. IsInjective(called')
    BY <2>1 DEF IsInjective
  <2> QED
    BY <1>1, <2>1, <2>2, <2>4, <2>5 DEF Visiting
<1> QED
  BY <1>1, <1>6, <1>7, <1>8, <1>9
     DEF IInv, Resting, Programs, Ids, Walking, SleepBound, PollCovers

(* The other ends: what they make ready is looked at by poll() only. *)
LEMMA KernelStep ==
  ASSUME IInv, NEW fd \in Fd, Arrive(fd) \/ HangUp(fd)
  PROVE  IInv'
<1>1. /\ phase = "poll" /\ phase' = "poll"
      /\ UNCHANGED <<program, chain, head, lastId, timers, added, walk, timeout, wait, fds, slot,
                     node, open, called, known>>
  BY DEF Arrive, HangUp, lists, round
<1>2. PICK e \in Events :
        /\ ready' = [ready EXCEPT ![fd] = @ \cup {e}]
        /\ program = "server" /\ fd = FirstFd => e = "IN" /\ lastId < MaxWatcher
  BY DEF Arrive, HangUp, Events
<1>3. /\ ready \in [Fd -> SUBSET Events] /\ FirstFd \in Fd
      /\ ready' \in [Fd -> SUBSET Events]
  BY <1>2, Bounds DEF IInv, TypeOK, Fd
<1>4. program = "server" => /\ "HUP" \notin ready'[FirstFd]
                            /\ "IN" \in ready'[FirstFd] => lastId < MaxWatcher
  BY <1>2, <1>3 DEF IInv, Programs
<1>5. Programs'
  BY <1>1, <1>4 DEF IInv, Programs
<1>6. TypeOK'
  BY <1>1, <1>3 DEF IInv, TypeOK
<1> QED
  BY <1>1, <1>5, <1>6
     DEF IInv, Resting, Ids, Walking, SleepBound, Slots, PollCovers, Reports, Visiting

(* The walk over the watchers goes on to the next slot, or ends. *)
LEMMA NextSlotStep ==
  ASSUME IInv, NextSlot
  PROVE  IInv'
<1>1. /\ phase = "events" /\ phase' = "events" /\ node = None /\ Later # {}
      /\ slot' = Min(Later) /\ node' = FirstOf(Watchers)
      /\ UNCHANGED <<program, chain, head, lastId, timers, added, walk, timeout, wait, fds,
                     open, ready, called, known>>
  BY DEF NextSlot, lists, kernel, round
<1>2. /\ Len(chain) \in Nat /\ \A k \in 1..Len(chain) : chain[k].id \in 1..MaxWatcher
      /\ Len(fds) \in Nat /\ DOMAIN fds = 1..Len(fds) /\ slot \in Nat
      /\ chain \in Seq(WatcherT)
  <2>1. slot \in 0..Len(fds)
    BY DEF IInv, TypeOK
  <2> QED
    BY <2>1, Lists DEF IInv
<1>3. /\ slot' \in 1..Len(fds) /\ slot' > slot
      /\ \A i \in 1..Len(fds) : i > slot /\ Hit(i) => slot' <= i
  <2>1. Later \subseteq Nat /\ Later \subseteq 1..Len(fds)
    BY <1>2 DEF Later
  <2>2. Min(Later) \in Later /\ \A i \in Later : Min(Later) <= i
    BY <1>1, <2>1, MinIn
  <2>3. \A i \in 1..Len(fds) : i > slot /\ Hit(i) => i \in Later
    BY <1>2 DEF Later, Hit
  <2>4. slot' \in 1..Len(fds) /\ slot' > slot
    BY <1>1, <1>2, <2>2 DEF Later
  <2> QED
    BY <1>1, <2>2, <2>3, <2>4
<1>4. node' = IF chain = <<>> THEN None ELSE chain[1].id
  BY <1>1, WholeChain DEF IInv, FirstOf
<1>5. TypeOK'
  <2>1. node' \in 0..MaxWatcher
    BY <1>2, <1>4, Bounds DEF None
  <2> QED
    BY <1>1, <1>3, <2>1 DEF IInv, TypeOK
<1>6. Reports'
  <2>1. \A i \in 1..Len(fds) : Hit(i)' <=> Hit(i)
    BY <1>1 DEF Hit
  <2> QED
    BY <1>1, <1>2, <1>3, <2>1 DEF IInv, Reports
<1>7. Visiting'
  <2>1. CASE chain = <<>>
    BY <1>1, <1>3, <1>4, <2>1 DEF IInv, Visiting
  <2>2. CASE chain # <<>>
    <3>1. PICK p \in 1..(Len(chain) + 1) : VisitAt(p)
      BY <1>1, <2>2 DEF IInv, Visiting
    <3>2. p = Len(chain) + 1
      BY <1>1, <1>2, <3>1 DEF VisitAt, None
    <3>3. ASSUME NEW k \in 1..Len(chain)
          PROVE  CalledBefore(k, 1)' <=> CalledBefore(k, p)
      <4>1. \A i \in 1..Len(fds) : Hit(i) => (i < slot' <=> i < slot \/ i = slot)
        BY <1>2, <1>3
      <4>2. \A i \in 1..Len(fds) : Hit(i)' <=> Hit(i)
        BY <1>1 DEF Hit
      <4> QED
        BY <1>1, <1>2, <3>2, <4>1, <4>2 DEF CalledBefore, Offered
    <3>4. VisitAt(1)'
      <4>1. Len(chain) >= 1
        BY <1>2, <2>2
      <4> QED
        BY <1>1, <1>2, <1>4, <2>2, <3>1, <3>3, <4>1 DEF VisitAt
    <3>5. 1 \in 1..(Len(chain') + 1)
      BY <1>1, <1>2
    <3> QED
      BY <1>1, <1>3, <2>2, <3>4, <3>5 DEF IInv, Visiting
  <2> QED
    BY <2>1, <2>2
<1> QED
  BY <1>1, <1>5, <1>6, <1>7
     DEF IInv, Resting, Programs, Ids, Walking, SleepBound, Slots, PollCovers

LEMMA EndRoundStep ==
  ASSUME IInv, EndRound
  PROVE  IInv'
<1>1. /\ phase = "events" /\ phase' = "top" /\ node = None /\ fds' = <<>> /\ slot' = 0
      /\ called' = <<>> /\ known' = 0
      /\ UNCHANGED <<program, chain, head, lastId, timers, added, walk, timeout, wait, node,
                     open, ready>>
  BY DEF EndRound, lists, kernel
<1>2. TypeOK'
  BY <1>1, Bounds DEF IInv, TypeOK
<1> QED
  BY <1>1, <1>2
     DEF IInv, Resting, Programs, Ids, Walking, SleepBound, Slots, PollCovers, Reports, Visiting

(* A watcher that is called was not called before in the round: only one slot
   has its descriptor, and this slot has not been offered to it. *)
LEMMA CalledOnce ==
  ASSUME IInv, phase = "events", node # None, Matches(node)
  PROVE  /\ Append(called, node) \in Seq(1..MaxWatcher)
         /\ IsInjective(Append(called, node))
<1>1. PICK p \in 1..Len(chain) :
        /\ chain[p].id = node /\ VisitAt(p) /\ FdOf(node) = chain[p].fd
        /\ Matches(node) <=> fds[slot].fd = chain[p].fd /\ Hit(slot)
  BY WatcherCursor DEF IInv
<1>2. slot \in 1..Len(fds)
  BY WatcherCursor DEF IInv
<1>3. /\ called \in Seq(1..MaxWatcher) /\ Len(called) \in Nat /\ DOMAIN called = 1..Len(called)
      /\ node \in 1..MaxWatcher
  BY DEF IInv, TypeOK, None
<1>4. program = "server" => chain[p].fd # Stdin
  <2>1. Len(chain) \in Nat /\ chain[p].fd \in Nat
    BY Lists, Bounds DEF IInv, Fd
  <2>2. program = "server" => chain[p].fd >= FirstFd
    BY <2>1, Bounds DEF IInv, Programs
  <2> QED
    BY <2>1, <2>2, Bounds DEF Stdin
<1>5. ASSUME NEW m \in 1..Len(called), called[m] = node
      PROVE  FALSE
  <2>1. PICK k \in 1..Len(chain) : chain[k].id = called[m] /\ CalledBefore(k, p)
    BY <1>1 DEF VisitAt
  <2>2. k = p
    BY <1>1, <1>5, <2>1 DEF IInv, Ids
  <2>3. PICK i \in 1..Len(fds) : i < slot /\ fds[i].fd = chain[p].fd
    BY <2>1, <2>2 DEF CalledBefore, Offered
  <2>4. i # slot /\ fds[i].fd = fds[slot].fd
    BY <1>1, <1>2, <2>3
  <2> QED
    BY <1>2, <1>4, <2>3, <2>4 DEF IInv, Slots
<1>6. IsInjective(called)
  BY DEF IInv, Visiting
<1>7. Append(called, node) \in Seq(1..MaxWatcher)
  BY <1>3
<1>8. /\ Len(Append(called, node)) = Len(called) + 1
      /\ DOMAIN Append(called, node) = 1..(Len(called) + 1)
      /\ \A m \in 1..Len(called) : Append(called, node)[m] = called[m]
      /\ Append(called, node)[Len(called) + 1] = node
  BY <1>3
<1>9. IsInjective(Append(called, node))
  <2> DEFINE c == Append(called, node)
  <2> SUFFICES ASSUME NEW a \in 1..(Len(called) + 1), NEW b \in 1..(Len(called) + 1), c[a] = c[b]
               PROVE  a = b
    BY <1>8 DEF IsInjective
  <2> HIDE DEF c
  <2>1. CASE a \in 1..Len(called) /\ b \in 1..Len(called)
    BY <1>3, <1>6, <1>8, <2>1 DEF IsInjective, c
  <2>2. CASE a = Len(called) + 1 \/ b = Len(called) + 1
    BY <1>3, <1>5, <1>8, <2>2 DEF c
  <2> QED
    BY <1>3, <2>1, <2>2
<1> QED
  BY <1>7, <1>9

(* Nor does the walk come back to the listening socket. *)
LEMMA NeverFirst ==
  ASSUME IInv, phase = "events", node # None, node' = NextOf(Watchers, node),
         program = "server"
  PROVE  node' # 1
<1>1. PICK p \in 1..Len(chain) :
        NextOf(Watchers, node) = IF p = Len(chain) THEN None ELSE chain[p + 1].id
  BY WatcherCursor DEF IInv
<1>2. Len(chain) \in Nat
  BY Lists DEF IInv
<1>3. chain[1].id = 1
  BY DEF IInv, Programs
<1>4. CASE p # Len(chain)
  <2>1. 1 \in 1..Len(chain) /\ p + 1 \in 1..Len(chain) /\ p + 1 # 1
    BY <1>2, <1>4
  <2> QED
    BY <1>1, <1>3, <1>4, <2>1 DEF IInv, Ids
<1> QED
  BY <1>1, <1>4 DEF None

(* The walk goes on, to a node that the callback has not taken away. *)
LEMMA WalkGoesOn ==
  ASSUME IInv, phase = "events", node # None, node' = NextOf(Watchers, node),
         UNCHANGED <<phase, fds, slot, known>>,
         \/ ~Matches(node) /\ called' = called
         \/ Matches(node) /\ called' = Append(called, node),
         \/ chain' = chain
         \/ \E w \in WatcherT : w.id > known /\ chain' = Append(chain, w)
  PROVE  Visiting' /\ node' \in 0..MaxWatcher /\ called' \in Seq(1..MaxWatcher)
<1>1. PICK p \in 1..Len(chain) :
        /\ chain[p].id = node /\ VisitAt(p) /\ FdOf(node) = chain[p].fd
        /\ Matches(node) <=> fds[slot].fd = chain[p].fd /\ Hit(slot)
        /\ NextOf(Watchers, node) = IF p = Len(chain) THEN None ELSE chain[p + 1].id
  BY WatcherCursor DEF IInv
<1>2. slot \in 1..Len(fds) /\ slot \in Int /\ known \in Nat
  BY WatcherCursor DEF IInv, TypeOK
<1>3. /\ chain \in Seq(WatcherT) /\ Len(chain) \in Nat /\ Len(fds) \in Nat
      /\ \A k \in 1..Len(chain) : chain[k].id \in 1..MaxWatcher
  BY Lists DEF IInv
<1>4. called' \in Seq(1..MaxWatcher) /\ IsInjective(called')
  BY CalledOnce DEF IInv, TypeOK, Visiting
<1>5. /\ \A k \in 1..Len(chain) : chain'[k] = chain[k]
      /\ Len(chain') \in Len(chain)..(Len(chain) + 1)
      /\ \A k \in 1..Len(chain') :
           k > Len(chain) => chain'[k].id \in Int /\ chain'[k].id > known
  <2>1. CASE chain' = chain
    BY <1>3, <2>1
  <2>2. CASE \E w \in WatcherT : w.id > known /\ chain' = Append(chain, w)
    <3>1. PICK w \in WatcherT : w.id > known /\ chain' = Append(chain, w)
      BY <2>2
    <3>2. w.id \in Int
      BY DEF WatcherT
    <3> QED
      BY <1>3, <3>1, <3>2
  <2> QED
    BY <2>1, <2>2
<1>6. PICK next : next = IF p = Len(chain) THEN Len(chain') + 1 ELSE p + 1
  OBVIOUS
<1>7. /\ next \in 1..(Len(chain') + 1)
      /\ \A k \in 1..Len(chain) : k < next <=> k < p \/ k = p
  BY <1>3, <1>5, <1>6
<1>8. node' = (IF next > Len(chain') THEN None ELSE chain'[next].id) /\ node' \in 0..MaxWatcher
  BY <1>1, <1>3, <1>5, <1>6, Bounds DEF None
<1>9. Matches(node) => chain[p].id <= known
  BY <1>1, <1>2, <1>3 DEF IInv, Reports
<1>10. ASSUME NEW k \in 1..Len(chain')
       PROVE  CalledBefore(k, next)' <=>
                k \in 1..Len(chain) /\ (CalledBefore(k, p) \/ (k = p /\ Matches(node)))
  <2>1. \A i \in 1..Len(fds) : Hit(i)' <=> Hit(i)
    BY DEF Hit
  <2>2. CASE k > Len(chain)
    BY <1>2, <1>3, <1>5, <2>2 DEF CalledBefore
  <2>3. CASE k \in 1..Len(chain)
    <3>1. \A i \in 1..Len(fds) : Offered(i, k, next)' <=> Offered(i, k, p) \/ (i = slot /\ k = p)
      BY <1>7, <2>3 DEF Offered
    <3>2. CalledBefore(k, next)' <=>
            /\ chain[k].id <= known
            /\ \E i \in 1..Len(fds) :
                 /\ Offered(i, k, p) \/ (i = slot /\ k = p)
                 /\ Hit(i) /\ fds[i].fd = chain[k].fd
      BY <1>5, <2>1, <2>3, <3>1 DEF CalledBefore
    <3> QED
      BY <1>1, <1>2, <1>9, <2>3, <3>2 DEF CalledBefore
  <2> QED
    BY <1>3, <1>5, <2>2, <2>3
<1>11. /\ Len(called) \in Nat
       /\ Matches(node) => /\ Len(called') = Len(called) + 1 /\ called'[Len(called')] = node
                           /\ \A m \in 1..Len(called) : called'[m] = called[m]
       /\ ~Matches(node) => called' = called
  <2>1. called \in Seq(1..MaxWatcher)
    BY DEF IInv, TypeOK
  <2> QED
    BY <2>1
<1>12. VisitAt(next)'
  <2>1. ASSUME NEW k \in 1..Len(chain'), CalledBefore(k, next)'
        PROVE  \E m \in 1..Len(called') : called'[m] = chain'[k].id
    <3>1. CASE CalledBefore(k, p) /\ k \in 1..Len(chain)
      <4>1. PICK m \in 1..Len(called) : called[m] = chain[k].id
        BY <1>1, <3>1 DEF VisitAt
      <4>2. m \in 1..Len(called') /\ called'[m] = called[m]
        BY <1>11
      <4> QED
        BY <1>5, <3>1, <4>1, <4>2
    <3>2. CASE k = p /\ Matches(node)
      BY <1>1, <1>5, <1>11, <3>2
    <3> QED
      BY <1>10, <2>1, <3>1, <3>2
  <2>2. ASSUME NEW m \in 1..Len(called')
        PROVE  \E k \in 1..Len(chain') : chain'[k].id = called'[m] /\ CalledBefore(k, next)'
    <3>0. \A k \in 1..Len(chain) : k \in 1..Len(chain')
      BY <1>3, <1>5
    <3>1. CASE m \in 1..Len(called) /\ called'[m] = called[m]
      <4>1. PICK k \in 1..Len(chain) : chain[k].id = called[m] /\ CalledBefore(k, p)
        BY <1>1, <3>1 DEF VisitAt
      <4> QED
        BY <1>5, <1>10, <3>0, <3>1, <4>1
    <3>2. CASE Matches(node) /\ m = Len(called) + 1
      BY <1>1, <1>5, <1>10, <1>11, <3>0, <3>2
    <3> QED
      BY <1>11, <3>1, <3>2
  <2> QED
    BY <1>8, <2>1, <2>2 DEF VisitAt
<1>13. chain' # <<>> /\ (chain = <<>> => node = None)
  BY <1>3, <1>5 DEF IInv, Visiting
<1> QED
  BY <1>2, <1>4, <1>7, <1>8, <1>12, <1>13 DEF Visiting

LEMMA PassByStep ==
  ASSUME IInv, PassBy
  PROVE  IInv'
<1>1. /\ phase = "events" /\ phase' = "events" /\ node # None /\ ~Matches(node)
      /\ node' = NextOf(Watchers, node)
      /\ UNCHANGED <<program, chain, head, lastId, timers, added, walk, timeout, wait, fds, slot,
                     open, ready, called, known>>
  BY DEF PassBy, lists, kernel, round
<1>2. Visiting' /\ node' \in 0..MaxWatcher
  BY <1>1, WalkGoesOn
<1>3. TypeOK'
  BY <1>1, <1>2 DEF IInv, TypeOK
<1>4. Reports'
  <2>1. program = "server" => node' # 1
    BY <1>1, NeverFirst
  <2>2. \A i \in 1..Len(fds) : Hit(i)' <=> Hit(i)
    BY <1>1 DEF Hit
  <2> QED
    BY <1>1, <2>1, <2>2 DEF IInv, Reports
<1> QED
  BY <1>1, <1>2, <1>3, <1>4
     DEF IInv, Resting, Programs, Ids, Walking, SleepBound, Slots, PollCovers

(* A call in the middle of a round: what it leaves alone, whom it was for. *)
LEMMA CallStep ==
  ASSUME IInv, Call
  PROVE  /\ phase = "events" /\ phase' = "events" /\ node # None /\ Matches(node)
         /\ node' = NextOf(Watchers, node) /\ called' = Append(called, node)
         /\ UNCHANGED <<program, walk, timeout, wait, fds, slot, known>>
         /\ \A i \in 1..Len(fds) : Hit(i)' <=> Hit(i)
         /\ \E p \in 1..Len(chain) :
              /\ chain[p].id = node /\ FdOf(node) = chain[p].fd /\ fds[slot].fd = chain[p].fd
              /\ Hit(slot) /\ chain[p].fd \in Fd
              /\ NextOf(Watchers, node) = IF p = Len(chain) THEN None ELSE chain[p + 1].id
         /\ slot \in 1..Len(fds)
<1>1. /\ phase = "events" /\ phase' = "events" /\ node # None /\ Matches(node)
      /\ node' = NextOf(Watchers, node) /\ called' = Append(called, node)
      /\ UNCHANGED <<program, walk, timeout, wait, fds, slot, known>>
  BY DEF Call
<1>2. \A i \in 1..Len(fds) : Hit(i)' <=> Hit(i)
  BY <1>1 DEF Hit
<1>3. PICK p \in 1..Len(chain) :
        /\ chain[p].id = node /\ FdOf(node) = chain[p].fd
        /\ Matches(node) <=> fds[slot].fd = chain[p].fd /\ Hit(slot)
        /\ NextOf(Watchers, node) = IF p = Len(chain) THEN None ELSE chain[p + 1].id
  BY <1>1, WatcherCursor DEF IInv
<1>4. slot \in 1..Len(fds)
  BY <1>1, WatcherCursor DEF IInv
<1>5. chain[p].fd \in Fd
  BY Lists DEF IInv
<1> QED
  BY <1>1, <1>2, <1>3, <1>4, <1>5

(* In the server, the node of the listening socket is the first. *)
LEMMA FirstNode ==
  ASSUME IInv, program = "server", NEW p \in 1..Len(chain)
  PROVE  /\ chain[p].id = 1 => chain[p].fd = FirstFd
         /\ chain[p].fd = FirstFd => chain[p].id = 1
         /\ chain[p].id # 1 => chain[p].fd > FirstFd
<1>1. Len(chain) \in Nat
  BY Lists DEF IInv
<1>2. chain[1].id = 1 /\ chain[1].fd = FirstFd /\ 1 \in 1..Len(chain)
  BY <1>1 DEF IInv, Programs
<1>3. p # 1 => chain[p].fd > FirstFd
  BY <1>1 DEF IInv, Programs
<1> QED
  BY <1>2, <1>3, Bounds DEF IInv, Ids

(* The callback takes its time: what is left of every timer shrinks. *)
LEMMA TimersElapse ==
  ASSUME IInv, CallTakesTime, added' = added
  PROVE  /\ timers' \in Seq(TimerT)
         /\ \A j, k \in 1..Len(timers') : j < k => timers'[j].id < timers'[k].id
         /\ \A k \in 1..Len(timers') :
              timers'[k].id <= added' /\ timers'[k].left <= timers'[k].interval
<1>1. PICK time \in Nat : timers' = Elapsed(timers, time)
  BY Bounds DEF CallTakesTime
<1>2. /\ timers \in Seq(TimerT)
      /\ \A k \in 1..Len(timers) :
           timers[k].left \in Nat /\ timers[k].interval \in Nat
           /\ timers[k].left <= timers[k].interval
  BY Lists DEF IInv, Ids
<1>3. /\ timers' \in Seq(TimerT) /\ Len(timers') = Len(timers)
      /\ \A k \in 1..Len(timers) :
           /\ timers'[k].id = timers[k].id /\ timers'[k].interval = timers[k].interval
           /\ timers'[k].left = IF timers[k].left >= time THEN timers[k].left - time ELSE 0
  BY <1>1, <1>2, TimePassed
<1> QED
  BY <1>2, <1>3 DEF IInv, Ids

LEMMA ServerHangUpStep ==
  ASSUME IInv, ServerHangUp
  PROVE  IInv'
<1>1. program = "server" /\ Call /\ HungUp /\ CallTakesTime /\ UNCHANGED <<chain, head, lastId, added>>
  BY DEF ServerHangUp, lists
<1>2. /\ phase = "events" /\ phase' = "events" /\ node # None /\ Matches(node)
      /\ node' = NextOf(Watchers, node) /\ called' = Append(called, node)
      /\ UNCHANGED <<program, walk, timeout, wait, fds, slot, known>>
      /\ \A i \in 1..Len(fds) : Hit(i)' <=> Hit(i)
      /\ slot \in 1..Len(fds)
  BY <1>1, CallStep
<1>3. PICK p \in 1..Len(chain) :
        /\ chain[p].id = node /\ FdOf(node) = chain[p].fd /\ fds[slot].fd = chain[p].fd
        /\ chain[p].fd \in Fd
  BY <1>1, CallStep
<1>4. chain[p].fd > FirstFd
  <2>1. chain[p].fd # FirstFd
    BY <1>1, <1>2, <1>3 DEF IInv, Reports, HungUp
  <2> QED
    BY <1>1, <2>1, FirstNode
<1>5. /\ open' = open \ {chain[p].fd} /\ ready' = [ready EXCEPT ![chain[p].fd] = {}]
  BY <1>3 DEF ServerHangUp, Closed
<1>6. open' \subseteq Fd /\ ready' \in [Fd -> SUBSET Events] /\ ready'[FirstFd] = ready[FirstFd]
      /\ 0..FirstFd \subseteq open'
  <2>1. open \subseteq Fd /\ ready \in [Fd -> SUBSET Events] /\ 0..FirstFd \subseteq open
    BY <1>1 DEF IInv, TypeOK, Programs
  <2>2. FirstFd \in Fd /\ chain[p].fd \notin 0..FirstFd /\ chain[p].fd # FirstFd
    BY <1>3, <1>4, Bounds DEF Fd
  <2>3. ready' \in [Fd -> SUBSET Events] /\ ready'[FirstFd] = ready[FirstFd]
    BY <1>3, <1>5, <2>1, <2>2
  <2> QED
    BY <1>5, <2>1, <2>2, <2>3
<1>7. Visiting' /\ node' \in 0..MaxWatcher /\ called' \in Seq(1..MaxWatcher)
  BY <1>1, <1>2, WalkGoesOn
<1>8. /\ timers' \in Seq(TimerT)
      /\ \A j, k \in 1..Len(timers') : j < k => timers'[j].id < timers'[k].id
      /\ \A k \in 1..Len(timers') :
           timers'[k].id <= added' /\ timers'[k].left <= timers'[k].interval
  BY <1>1, TimersElapse
<1>9. TypeOK'
  <2>1. timers' \in Seq([id : 1..MaxTimer, interval : Interval, left : 0..(2 * IntMax + 1), again : BOOLEAN])
    BY <1>8 DEF TimerT
  <2> QED
    BY <1>1, <1>2, <1>6, <1>7, <2>1 DEF IInv, TypeOK
<1>10. Reports'
  <2>1. \A i \in 1..Len(fds) : i > slot /\ Hit(i) => fds[i].fd \in open'
    <3>1. SUFFICES ASSUME NEW i \in 1..Len(fds), i > slot, Hit(i)
                   PROVE  fds[i].fd \in open'
      OBVIOUS
    <3>2. i # slot /\ fds[i].fd \in open
      BY <1>1, <1>2, <3>1 DEF IInv, Reports
    <3>3. fds[i].fd # chain[p].fd
      BY <1>2, <1>3, <1>4, <3>2, Bounds DEF IInv, Slots, Stdin
    <3> QED
      BY <1>5, <3>2, <3>3
  <2>2. node' # 1
    BY <1>1, <1>2, NeverFirst
  <2> QED
    BY <1>1, <1>2, <1>6, <2>1, <2>2 DEF IInv, Reports
<1>11. Ids' /\ Programs'
  BY <1>1, <1>2, <1>6, <1>8 DEF IInv, Ids, Programs
<1> QED
  BY <1>1, <1>2, <1>7, <1>9, <1>10, <1>11
     DEF IInv, Resting, Walking, SleepBound, Slots, PollCovers

LEMMA AcceptStep ==
  ASSUME IInv, Accept
  PROVE  IInv'
<1>1. /\ program = "server" /\ Call /\ ~HungUp /\ node = 1 /\ CallTakesTime /\ UNCHANGED added
  BY DEF Accept
<1>2. /\ phase = "events" /\ phase' = "events" /\ node # None /\ Matches(node)
      /\ node' = NextOf(Watchers, node) /\ called' = Append(called, node)
      /\ UNCHANGED <<program, walk, timeout, wait, fds, slot, known>>
      /\ \A i \in 1..Len(fds) : Hit(i)' <=> Hit(i)
      /\ slot \in 1..Len(fds) /\ slot \in Int
  BY <1>1, CallStep
<1>3. /\ fds[slot].fd = FirstFd /\ "IN" \in fds[slot].revents
  <2>1. PICK p \in 1..Len(chain) :
          chain[p].id = node /\ fds[slot].fd = chain[p].fd /\ Hit(slot)
    BY <1>1, CallStep
  <2>2. chain[p].fd = FirstFd
    BY <1>1, <2>1, FirstNode
  <2> QED
    BY <1>1, <2>1, <2>2 DEF HungUp, Hit, Events
<1>4. lastId < MaxWatcher /\ known <= lastId /\ lastId \in Nat /\ known \in Nat
  <2>1. "IN" \in ready[FirstFd] /\ known <= lastId
    BY <1>1, <1>2, <1>3 DEF IInv, Reports
  <2> QED
    BY <1>1, <2>1 DEF IInv, Programs, TypeOK
<1>5. /\ timers' \in Seq(TimerT)
      /\ \A j, k \in 1..Len(timers') : j < k => timers'[j].id < timers'[k].id
      /\ \A k \in 1..Len(timers') :
           timers'[k].id <= added' /\ timers'[k].left <= timers'[k].interval
  BY <1>1, TimersElapse
<1>6. timers' \in Seq([id : 1..MaxTimer, interval : Interval, left : 0..(2 * IntMax + 1), again : BOOLEAN])
  BY <1>5 DEF TimerT
<1>7. node' # 1
  BY <1>1, <1>2, NeverFirst
<1>8. \A i \in 1..Len(fds) : fds[i].fd = FirstFd => i = slot
  BY <1>2, <1>3, Bounds DEF IInv, Slots, Stdin
<1>9. CASE Fd \subseteq open
  <2>1. UNCHANGED <<chain, head, lastId, open, ready>>
    BY <1>9 DEF Accept, lists, kernel
  <2>2. Visiting' /\ node' \in 0..MaxWatcher /\ called' \in Seq(1..MaxWatcher)
    BY <1>1, <1>2, <2>1, WalkGoesOn
  <2>3. TypeOK'
    BY <1>1, <1>2, <1>6, <2>1, <2>2 DEF IInv, TypeOK
  <2>4. Reports'
    BY <1>2, <1>7, <2>1 DEF IInv, Reports
  <2>5. Ids' /\ Programs'
    BY <1>1, <1>2, <1>5, <2>1 DEF IInv, Ids, Programs
  <2> QED
    BY <1>1, <1>2, <2>1, <2>2, <2>3, <2>4, <2>5
       DEF IInv, Resting, Walking, SleepBound, Slots, PollCovers
<1>10. CASE ~(Fd \subseteq open)
  <2>1. PICK fd : /\ fd = Min(Fd \ open) /\ AddWatcher(fd) /\ open' = open \cup {fd}
                  /\ ready' = [ready EXCEPT ![FirstFd] = {}]
    BY <1>10 DEF Accept
  <2>2. fd \in Fd /\ fd \notin open /\ fd > FirstFd
    <3>1. Fd \ open \subseteq Nat /\ Fd \ open # {}
      BY <1>10, Bounds DEF Fd
    <3>2. fd \in Fd \ open
      BY <2>1, <3>1, MinIn
    <3> QED
      BY <1>1, <3>2, Bounds DEF IInv, Programs, Fd
  <2> DEFINE w == [id |-> lastId + 1, fd |-> fd]
  <2>3. w \in WatcherT /\ w.id > known /\ w.id = lastId + 1 /\ w.fd = fd
    BY <1>4, <2>2, Bounds DEF WatcherT
  <2>4. chain' = Append(chain, w) /\ head' = head /\ lastId' = lastId + 1 /\ chain # <<>> /\ head = 1
    BY <1>1, <2>1 DEF AddWatcher, IInv, Programs
  <2>5. Visiting' /\ node' \in 0..MaxWatcher /\ called' \in Seq(1..MaxWatcher)
    BY <1>1, <1>2, <2>3, <2>4, WalkGoesOn
  <2> HIDE DEF w
  <2>6. /\ chain \in Seq(WatcherT) /\ Len(chain) \in Nat
        /\ \A k \in 1..Len(chain) : chain[k].id \in 1..MaxWatcher
    BY Lists DEF IInv
  <2>7. /\ chain' \in Seq(WatcherT) /\ Len(chain') = Len(chain) + 1
        /\ \A k \in 1..Len(chain) : chain'[k] = chain[k]
        /\ chain'[Len(chain) + 1] = w
    BY <2>3, <2>4, <2>6
  <2>8. open' \subseteq Fd /\ ready' \in [Fd -> SUBSET Events] /\ ready'[FirstFd] = {}
        /\ 0..FirstFd \subseteq open'
    <3>1. open \subseteq Fd /\ ready \in [Fd -> SUBSET Events] /\ 0..FirstFd \subseteq open
      BY <1>1 DEF IInv, TypeOK, Programs
    <3>2. FirstFd \in Fd
      BY Bounds DEF Fd
    <3>3. ready' \in [Fd -> SUBSET Events] /\ ready'[FirstFd] = {}
      BY <2>1, <3>1, <3>2
    <3> QED
      BY <2>1, <2>2, <3>1, <3>3
  <2>9. TypeOK'
    <3>1. chain' \in Seq([id : 1..MaxWatcher, fd : Fd])
      BY <2>7 DEF WatcherT
    <3>2. head' \in 0..Len(chain') /\ lastId' \in 0..MaxWatcher
      BY <1>4, <2>4, <2>6, <2>7, Bounds
    <3> QED
      BY <1>1, <1>2, <1>6, <2>5, <2>8, <3>1, <3>2 DEF IInv, TypeOK
  <2>10. Programs'
    <3>1. chain' # <<>> /\ head' = 1 /\ chain'[1] = [id |-> 1, fd |-> FirstFd]
      <4>1. 1 \in 1..Len(chain)
        BY <2>4, <2>6
      <4> QED
        BY <1>1, <2>4, <2>6, <2>7, <4>1 DEF IInv, Programs
    <3>2. \A k \in 2..Len(chain') : chain'[k].fd > FirstFd
      <4>1. \A k \in 2..Len(chain) : chain'[k].fd > FirstFd
        BY <1>1, <2>6, <2>7 DEF IInv, Programs
      <4> QED
        BY <2>2, <2>3, <2>6, <2>7, <4>1
    <3> QED
      BY <1>1, <1>2, <2>8, <3>1, <3>2 DEF Programs
  <2>11. Ids'
    <3>1. \A k \in 1..Len(chain) : chain[k].id <= lastId
      BY DEF IInv, Ids
    <3>2. \A k \in 1..Len(chain') : chain'[k].id <= lastId'
      BY <1>4, <2>3, <2>4, <2>6, <2>7, <3>1
    <3>3. ASSUME NEW j \in 1..Len(chain'), NEW k \in 1..Len(chain'), chain'[j].id = chain'[k].id
          PROVE  j = k
      <4>1. CASE j \in 1..Len(chain) /\ k \in 1..Len(chain)
        BY <2>7, <3>3, <4>1 DEF IInv, Ids
      <4>2. CASE j \in 1..Len(chain) /\ k = Len(chain) + 1
        BY <1>4, <2>3, <2>6, <2>7, <3>1, <3>3, <4>2
      <4>3. CASE k \in 1..Len(chain) /\ j = Len(chain) + 1
        BY <1>4, <2>3, <2>6, <2>7, <3>1, <3>3, <4>3
      <4> QED
        BY <2>6, <2>7, <4>1, <4>2, <4>3
    <3> QED
      BY <1>5, <3>2, <3>3 DEF Ids
  <2>12. Reports'
    <3>1. known' <= lastId'
      BY <1>2, <1>4, <2>4
    <3>2. \A i \in 1..Len(fds) : i > slot /\ Hit(i) => fds[i].fd \in open
      BY <1>1, <1>2 DEF IInv, Reports
    <3>3. FirstFd \in open
      BY <1>1, Bounds DEF IInv, Programs
    <3>4. \A i \in 1..Len(fds) : i >= slot /\ Hit(i) => fds[i].fd # fd
      BY <1>2, <1>3, <2>2, <3>2, <3>3
    <3>5. ASSUME NEW k \in 1..Len(chain'), NEW i \in 1..Len(fds),
                 chain'[k].id > known, i >= slot, Hit(i)
          PROVE  fds[i].fd # chain'[k].fd
      <4>1. CASE k \in 1..Len(chain)
        BY <1>2, <2>7, <3>5, <4>1 DEF IInv, Reports
      <4>2. CASE k = Len(chain) + 1
        BY <2>3, <2>7, <3>4, <3>5, <4>2
      <4> QED
        BY <2>6, <2>7, <4>1, <4>2
    <3>6. \A i \in 1..Len(fds) : fds[i].fd = FirstFd => "HUP" \notin fds[i].revents
      BY <1>1, <1>2 DEF IInv, Reports
    <3>7. \A i \in 1..Len(fds) : fds[i].fd = FirstFd => ~(i > slot \/ (i = slot /\ node' = 1))
      BY <1>2, <1>7, <1>8
    <3> QED
      BY <1>2, <2>1, <3>1, <3>2, <3>5, <3>6, <3>7 DEF Reports
  <2> QED
    BY <1>1, <1>2, <2>5, <2>9, <2>10, <2>11, <2>12
       DEF IInv, Resting, Walking, SleepBound, Slots, PollCovers
<1> QED
  BY <1>9, <1>10

LEMMA RequestStep ==
  ASSUME IInv, Request
  PROVE  IInv'
<1>1. /\ program = "server" /\ Call /\ ~HungUp /\ node # 1
      /\ UNCHANGED <<chain, head, lastId, open>>
  BY DEF Request, lists
<1>2. /\ phase = "events" /\ phase' = "events" /\ node # None /\ Matches(node)
      /\ node' = NextOf(Watchers, node) /\ called' = Append(called, node)
      /\ UNCHANGED <<program, walk, timeout, wait, fds, slot, known>>
      /\ \A i \in 1..Len(fds) : Hit(i)' <=> Hit(i)
  BY <1>1, CallStep
<1>3. FdOf(node) \in Fd /\ FdOf(node) # FirstFd
  <2>1. PICK p \in 1..Len(chain) :
          chain[p].id = node /\ FdOf(node) = chain[p].fd /\ chain[p].fd \in Fd
    BY <1>1, CallStep
  <2>2. chain[p].fd > FirstFd
    BY <1>1, <2>1, FirstNode
  <2> QED
    BY <2>1, <2>2, Bounds
<1>4. ready' \in [Fd -> SUBSET Events] /\ ready'[FirstFd] = ready[FirstFd]
  <2>1. ready \in [Fd -> SUBSET Events] /\ FirstFd \in Fd
    BY Bounds DEF IInv, TypeOK, Fd
  <2>2. PICK f : f = FdOf(node)
    OBVIOUS
  <2>3. ready' = ready \/ ready' = [ready EXCEPT ![f] = @ \ {"IN"}]
    BY <2>2 DEF Request
  <2> QED
    BY <1>3, <2>1, <2>2, <2>3
<1>5. /\ timers' \in Seq(TimerT) /\ added' \in 0..MaxTimer
      /\ \A j, k \in 1..Len(timers') : j < k => timers'[j].id < timers'[k].id
      /\ \A k \in 1..Len(timers') :
           timers'[k].id <= added' /\ timers'[k].left <= timers'[k].interval
  <2>1. CASE CallTakesTime /\ UNCHANGED added
    BY <2>1, TimersElapse DEF IInv, TypeOK
  <2>2. ASSUME added < MaxTimer, added' = added + 1,
               \E ivl \in Interval :
                 timers' = Append(timers, [id |-> added + 1, interval |-> ivl, left |-> ivl, again |-> FALSE])
        PROVE  /\ timers' \in Seq(TimerT) /\ added' \in 0..MaxTimer
               /\ \A j, k \in 1..Len(timers') : j < k => timers'[j].id < timers'[k].id
               /\ \A k \in 1..Len(timers') :
                    timers'[k].id <= added' /\ timers'[k].left <= timers'[k].interval
    <3>1. PICK ivl \in Interval :
            timers' = Append(timers, [id |-> added + 1, interval |-> ivl, left |-> ivl, again |-> FALSE])
      BY <2>2
    <3> DEFINE t == [id |-> added + 1, interval |-> ivl, left |-> ivl, again |-> FALSE]
    <3>2. added \in Nat /\ added' \in 1..MaxTimer
      BY <2>2, Bounds DEF IInv, TypeOK
    <3>3. t \in TimerT /\ t.id = added + 1 /\ t.left = ivl /\ t.interval = ivl /\ ivl \in Nat
      BY <2>2, <3>2, Bounds DEF TimerT
    <3>4. timers' = Append(timers, t)
      BY <3>1
    <3> HIDE DEF t
    <3>5. /\ timers \in Seq(TimerT) /\ Len(timers) \in Nat
          /\ \A k \in 1..Len(timers) : timers[k].id \in Int /\ timers[k].id <= added
          /\ \A k \in 1..Len(timers) : timers[k].left <= timers[k].interval
          /\ \A j, k \in 1..Len(timers) : j < k => timers[j].id < timers[k].id
      BY Lists DEF IInv, Ids
    <3>6. /\ timers' \in Seq(TimerT) /\ Len(timers') = Len(timers) + 1
          /\ \A k \in 1..Len(timers) : timers'[k] = timers[k]
          /\ timers'[Len(timers) + 1] = t
      BY <3>3, <3>4, <3>5
    <3>7. ASSUME NEW j \in 1..Len(timers'), NEW k \in 1..Len(timers'), j < k
          PROVE  timers'[j].id < timers'[k].id
      <4>1. j \in 1..Len(timers) /\ timers'[j].id \in Int /\ timers'[j].id <= added
        BY <3>5, <3>6, <3>7
      <4>2. CASE k \in 1..Len(timers)
        BY <3>5, <3>6, <3>7, <4>1, <4>2
      <4>3. CASE k = Len(timers) + 1
        BY <3>2, <3>3, <3>6, <4>1, <4>3
      <4> QED
        BY <3>5, <3>6, <4>2, <4>3
    <3>8. \A k \in 1..Len(timers') :
            timers'[k].id <= added' /\ timers'[k].left <= timers'[k].interval
      BY <2>2, <3>2, <3>3, <3>5, <3>6
    <3> QED
      BY <3>2, <3>6, <3>7, <3>8
  <2> QED
    BY <2>1, <2>2 DEF Request
<1>6. Visiting' /\ node' \in 0..MaxWatcher /\ called' \in Seq(1..MaxWatcher)
  BY <1>1, <1>2, WalkGoesOn
<1>7. TypeOK'
  <2>1. timers' \in Seq([id : 1..MaxTimer, interval : Interval, left : 0..(2 * IntMax + 1), again : BOOLEAN])
    BY <1>5 DEF TimerT
  <2> QED
    BY <1>1, <1>2, <1>4, <1>5, <1>6, <2>1 DEF IInv, TypeOK
<1>8. Reports'
  <2>1. node' # 1
    BY <1>1, <1>2, NeverFirst
  <2> QED
    BY <1>1, <1>2, <1>4, <2>1 DEF IInv, Reports
<1>9. Ids' /\ Programs'
  BY <1>1, <1>2, <1>4, <1>5 DEF IInv, Ids, Programs
<1> QED
  BY <1>1, <1>2, <1>6, <1>7, <1>8, <1>9
     DEF IInv, Resting, Walking, SleepBound, Slots, PollCovers

(* The socket's watcher is the client's last: freeing the list ends the walk. *)
LEMMA ClientHangUpStep ==
  ASSUME IInv, ClientHangUp
  PROVE  IInv'
<1>1. program = "client" /\ Call /\ UNCHANGED <<timers, added, open, ready>>
  BY DEF ClientHangUp, kernel
<1>2. /\ phase = "events" /\ phase' = "events" /\ node # None /\ Matches(node)
      /\ node' = NextOf(Watchers, node) /\ called' = Append(called, node)
      /\ UNCHANGED <<program, walk, timeout, wait, fds, slot, known>>
      /\ \A i \in 1..Len(fds) : Hit(i)' <=> Hit(i)
  BY <1>1, CallStep
<1>3. CASE ~IsResponse(node)
  <2>1. UNCHANGED <<chain, head, lastId>>
    BY <1>3 DEF ClientHangUp, lists
  <2>2. Visiting' /\ node' \in 0..MaxWatcher /\ called' \in Seq(1..MaxWatcher)
    BY <1>1, <1>2, <2>1, WalkGoesOn
  <2>3. TypeOK'
    BY <1>1, <1>2, <2>1, <2>2 DEF IInv, TypeOK
  <2>4. Reports'
    BY <1>1, <1>2, <2>1 DEF IInv, Reports
  <2> QED
    BY <1>1, <1>2, <2>1, <2>2, <2>3, <2>4
       DEF IInv, Resting, Ids, Programs, Walking, SleepBound, Slots, PollCovers
<1>4. CASE IsResponse(node)
  <2>1. chain' = <<>> /\ head' = None /\ lastId' = lastId
    BY <1>4 DEF ClientHangUp, RemoveAllWatchers
  <2>2. PICK p \in 1..Len(chain) :
          /\ chain[p].id = node
          /\ NextOf(Watchers, node) = IF p = Len(chain) THEN None ELSE chain[p + 1].id
    BY <1>1, CallStep
  <2>3. /\ Len(chain) = 2 /\ chain[1].id = 1 /\ chain[2].id = 2
    <3>1. chain # <<>>
      BY <2>2
    <3>2. chain = <<[id |-> 1, fd |-> Stdin], [id |-> 2, fd |-> FirstFd]>>
      BY <1>1, <3>1 DEF IInv, Programs
    <3> QED
      BY <3>2
  <2>4. node' = None
    BY <1>2, <1>4, <2>2, <2>3 DEF IsResponse
  <2>5. called' \in Seq(1..MaxWatcher) /\ IsInjective(called')
    BY <1>2, CalledOnce
  <2>6. Visiting'
    BY <2>1, <2>4, <2>5 DEF Visiting
  <2>7. TypeOK'
    <3>1. /\ chain' \in Seq([id : 1..MaxWatcher, fd : Fd]) /\ head' \in 0..Len(chain')
          /\ node' \in 0..MaxWatcher
      BY <2>1, <2>4, Bounds DEF None
    <3> QED
      BY <1>1, <1>2, <2>1, <2>5, <3>1 DEF IInv, TypeOK
  <2>8. Reports' /\ Ids' /\ Programs'
    BY <1>1, <1>2, <2>1 DEF IInv, Reports, Ids, Programs
  <2> QED
    BY <1>1, <1>2, <2>1, <2>6, <2>7, <2>8
       DEF IInv, Resting, Walking, SleepBound, Slots, PollCovers
<1> QED
  BY <1>3, <1>4

LEMMA ClientReadsStep ==
  ASSUME IInv, ClientReads
  PROVE  IInv'
<1>1. program = "client" /\ Call /\ UNCHANGED <<chain, head, lastId, timers, added, open>>
  BY DEF ClientReads, lists
<1>2. /\ phase = "events" /\ phase' = "events" /\ node # None /\ Matches(node)
      /\ node' = NextOf(Watchers, node) /\ called' = Append(called, node)
      /\ UNCHANGED <<program, walk, timeout, wait, fds, slot, known>>
      /\ \A i \in 1..Len(fds) : Hit(i)' <=> Hit(i)
  BY <1>1, CallStep
<1>3. ready' \in [Fd -> SUBSET Events]
  <2>1. PICK f : f = FdOf(node)
    OBVIOUS
  <2>2. ready' = [ready EXCEPT ![f] = @ \ {"IN"}]
    BY <2>1 DEF ClientReads
  <2>3. ready \in [Fd -> SUBSET Events] /\ f \in Fd
    BY <1>1, <2>1, CallStep DEF IInv, TypeOK
  <2> QED
    BY <2>2, <2>3
<1>4. Visiting' /\ node' \in 0..MaxWatcher /\ called' \in Seq(1..MaxWatcher)
  BY <1>1, <1>2, WalkGoesOn
<1>5. TypeOK'
  BY <1>1, <1>2, <1>3, <1>4 DEF IInv, TypeOK
<1>6. Reports' /\ Programs'
  BY <1>1, <1>2 DEF IInv, Reports, Programs
<1> QED
  BY <1>1, <1>2, <1>4, <1>5, <1>6
     DEF IInv, Resting, Ids, Walking, SleepBound, Slots, PollCovers

LEMMA NextIInv ==
  ASSUME IInv, [Next]_vars
  PROVE  IInv'
<1>1. CASE UNCHANGED vars
  <2>1. UNCHANGED <<program, chain, head, lastId, timers, added, phase, walk, timeout, wait, fds,
                    slot, node, open, ready, called, known>>
    BY <1>1 DEF vars, lists, kernel, round
  <2>2. Reports' /\ Visiting'
    <3>1. \A i \in 1..Len(fds) : Hit(i)' <=> Hit(i)
      BY <2>1 DEF Hit
    <3>2. \A k, p : CalledBefore(k, p)' <=> CalledBefore(k, p)
      BY <2>1, <3>1 DEF CalledBefore, Offered
    <3>3. \A p \in 1..(Len(chain) + 1) : VisitAt(p)' <=> VisitAt(p)
      BY <2>1, <3>2 DEF VisitAt
    <3>4. Reports'
      BY <2>1, <3>1 DEF IInv, Reports
    <3> QED
      BY <2>1, <3>3, <3>4 DEF IInv, Visiting
  <2>3. TypeOK' /\ Walking' /\ SleepBound' /\ PollCovers'
    BY <2>1 DEF IInv, TypeOK, Walking, WalkAt, SleepBound, PollCovers
  <2> QED
    BY <2>1, <2>2, <2>3 DEF IInv, Resting, Programs, Ids, Slots
<1>2. CASE \E fd \in Fd : Arrive(fd) \/ HangUp(fd)
  BY <1>2, KernelStep
<1>3. CASE Round
  BY <1>3, StopStep, StartRoundStep, NotExpiredStep, ExpiredStep, StartPollStep, TimePassesStep,
     PollTimesOutStep, PollReturnsStep, NextSlotStep, EndRoundStep, PassByStep,
     ServerHangUpStep, AcceptStep, RequestStep, ClientHangUpStep, ClientReadsStep DEF Round
<1> QED
  BY <1>1, <1>2, <1>3 DEF Next

LEMMA IInvHolds == Spec => []IInv
<1>1. Init => IInv
  BY InitIInv
<1>2. IInv /\ [Next]_vars => IInv'
  BY NextIInv
<1> QED
  BY <1>1, <1>2, PTL DEF Spec

-----------------------------------------------------------------------------
(* Theorems *)

(* Every list, number and descriptor of looper_run stays in its range: ids,
   times left and the timeout that is passed to poll do not over- or underflow. *)
THEOREM TypeCorrect == Spec => []TypeOK
<1>1. IInv => TypeOK
  BY DEF IInv
<1> QED
  BY <1>1, IInvHolds, PTL

(* Whatever looper_fd_sort did to the list and looper_match_fd_with_pollfd to
   the set, poll() is asked about every watcher's descriptor. *)
THEOREM PollCoversHolds == Spec => []PollCovers
<1>1. IInv => PollCovers
  BY DEF IInv
<1> QED
  BY <1>1, IInvHolds, PTL

(* looper_get_fds drops the first node that d_list_insert_sort returns, and yet
   watcher_list never points into the middle of the list: the node it points to
   has the lowest descriptor of its program, and the sort is stable. *)
NoNodeBefore == Watchers = chain

(* No watcher is ever out of looper_run's reach. *)
THEOREM NoNodeIsLost == Spec => []NoNodeBefore
<1>1. IInv => NoNodeBefore
  BY WholeChain DEF IInv, NoNodeBefore
<1> QED
  BY <1>1, IInvHolds, PTL

(* looper_timer_callback's timeout never lets poll() sleep past an expiration,
   for any intervals, unless all are above INT_MAX. *)
THEOREM SleepBoundHolds == Spec => []SleepBound
<1>1. IInv => SleepBound
  BY DEF IInv
<1> QED
  BY <1>1, IInvHolds, PTL

(* d_list_foreach never continues at a node that a callback has freed. *)
THEOREM NoStaleCursorHolds == Spec => []NoStaleCursor
<1>1. ASSUME IInv
      PROVE  NoStaleCursor
  <2>1. ASSUME node # None
        PROVE  node \in {w.id : w \in ToSet(Watchers)}
    <3>1. phase = "events"
      BY <1>1, <2>1 DEF IInv, Resting
    <3>2. PICK p \in 1..Len(chain) : chain[p].id = node
      BY <1>1, <2>1, <3>1, WatcherCursor DEF IInv
    <3>3. Watchers = chain /\ chain[p] \in ToSet(chain)
      BY <1>1, WholeChain, Lists DEF IInv, ToSet
    <3> QED
      BY <3>2, <3>3
  <2>2. ASSUME walk # None
        PROVE  walk \in {t.id : t \in ToSet(timers)}
    <3>1. phase = "timers"
      BY <1>1, <2>2 DEF IInv, Resting
    <3>2. Cursor \in 1..Len(timers) /\ timers[Cursor].id = walk
      BY <1>1, <2>2, <3>1, TimerCursor DEF IInv
    <3>3. timers[Cursor] \in ToSet(timers)
      BY <1>1, <3>2, Lists DEF IInv, ToSet
    <3> QED
      BY <3>2, <3>3
  <2> QED
    BY <2>1, <2>2 DEF NoStaleCursor
<1> QED
  BY <1>1, IInvHolds, PTL

(* The watchers called in a round are those whose descriptor poll() reported,
   each once, although the callbacks close descriptors, accept new ones with
   the same numbers and append nodes to the list that is walked. *)
THEOREM RoundIsExactHolds == Spec => RoundIsExact
<1> DEFINE Exact ==
      /\ IsInjective(called)
      /\ ToSet(called) =
           {w.id : w \in {v \in ToSet(chain) :
              /\ v.id <= known
              /\ \E s \in ToSet(fds) : s.fd = v.fd /\ s.revents \cap Events # {}}}
<1>1. ASSUME IInv, Next, phase = "events", phase' = "top", chain # <<>>
      PROVE  Exact
  <2>1. node = None /\ Later = {}
    BY <1>1 DEF Next, Round, Arrive, HangUp, Stop, StartRound, NotExpired, Expired, StartPoll,
       TimePasses, PollTimesOut, PollReturns, NextSlot, EndRound, PassBy, ServerHangUp, Accept,
       Request, ClientHangUp, ClientReads, Call
  <2>2. PICK p \in 1..(Len(chain) + 1) : VisitAt(p)
    BY <1>1 DEF IInv, Visiting
  <2>3. /\ Len(chain) \in Nat /\ DOMAIN chain = 1..Len(chain)
        /\ \A k \in 1..Len(chain) : chain[k].id \in 1..MaxWatcher
        /\ Len(fds) \in Nat /\ DOMAIN fds = 1..Len(fds) /\ slot \in Nat
        /\ called \in Seq(1..MaxWatcher) /\ DOMAIN called = 1..Len(called)
    <3>1. slot \in 0..Len(fds) /\ called \in Seq(1..MaxWatcher)
      BY <1>1 DEF IInv, TypeOK
    <3> QED
      BY <1>1, <3>1, Lists DEF IInv
  <2>4. p = Len(chain) + 1
    BY <2>1, <2>2, <2>3 DEF VisitAt, None
  <2>5. ASSUME NEW k \in 1..Len(chain)
        PROVE  CalledBefore(k, p) <=>
                 /\ chain[k].id <= known
                 /\ \E s \in ToSet(fds) : s.fd = chain[k].fd /\ s.revents \cap Events # {}
    <3>1. \A i \in 1..Len(fds) : Hit(i) => i <= slot
      BY <2>1, <2>3 DEF Later, Hit
    <3>2. \A i \in 1..Len(fds) : Hit(i) => Offered(i, k, p)
      BY <2>3, <2>4, <3>1 DEF Offered
    <3> QED
      BY <2>3, <3>2 DEF CalledBefore, Hit, ToSet
  <2>6. \A m \in 1..Len(called) : \E v \in ToSet(chain) :
          /\ v.id = called[m] /\ v.id <= known
          /\ \E s \in ToSet(fds) : s.fd = v.fd /\ s.revents \cap Events # {}
    <3>1. SUFFICES ASSUME NEW m \in 1..Len(called)
                   PROVE  \E v \in ToSet(chain) :
                            /\ v.id = called[m] /\ v.id <= known
                            /\ \E s \in ToSet(fds) : s.fd = v.fd /\ s.revents \cap Events # {}
      OBVIOUS
    <3>2. PICK k \in 1..Len(chain) : chain[k].id = called[m] /\ CalledBefore(k, p)
      BY <2>2 DEF VisitAt
    <3>3. chain[k] \in ToSet(chain)
      BY <2>3 DEF ToSet
    <3> QED
      BY <2>5, <3>2, <3>3
  <2>7. \A v \in ToSet(chain) :
          /\ v.id <= known
          /\ \E s \in ToSet(fds) : s.fd = v.fd /\ s.revents \cap Events # {}
          => v.id \in ToSet(called)
    <3>1. SUFFICES ASSUME NEW v \in ToSet(chain), v.id <= known,
                          \E s \in ToSet(fds) : s.fd = v.fd /\ s.revents \cap Events # {}
                   PROVE  v.id \in ToSet(called)
      OBVIOUS
    <3>2. PICK k \in 1..Len(chain) : chain[k] = v
      BY <2>3 DEF ToSet
    <3>3. PICK m \in 1..Len(called) : called[m] = chain[k].id
      BY <2>2, <2>5, <3>1, <3>2 DEF VisitAt
    <3> QED
      BY <2>3, <3>2, <3>3 DEF ToSet
  <2>8. \A id \in ToSet(called) : \E m \in 1..Len(called) : called[m] = id
    BY <2>3 DEF ToSet
  <2>9. IsInjective(called)
    BY <1>1 DEF IInv, Visiting
  <2> QED
    BY <2>6, <2>7, <2>8, <2>9
<1>2. IInv /\ [Next]_vars => [phase = "events" /\ phase' = "top" /\ chain # <<>> => Exact]_vars
  BY <1>1
<1>3. Spec => [][phase = "events" /\ phase' = "top" /\ chain # <<>> => Exact]_vars
  <2> HIDE DEF Exact
  <2> QED
    BY <1>2, IInvHolds, PTL DEF Spec
<1> QED
  BY <1>3, PTL DEF RoundIsExact
=============================================================================
