------------------------------- MODULE Looper -------------------------------
(***************************************************************************)
(* looper.c: one thread that runs the callbacks of expired timers, polls   *)
(* the watched descriptors and calls their watchers, over and over.  The   *)
(* callbacks are those of the programs that use it: the server's, the      *)
(* client's and the timers of test_timer_looper.c.                         *)
(*                                                                         *)
(* The list of watchers is the chain of its nodes and the place in it that *)
(* watcher_list points to, because the sort moves nodes but leaves the     *)
(* pointer alone.  Of a timer the model keeps the time left, so that the   *)
(* clock is not a variable; locals of a round are reset at its end.  All   *)
(* watchers ask for the same events, as those of each program do.          *)
(***************************************************************************)
EXTENDS Integers, Sequences, SequencesExt, FiniteSetsExt

CONSTANTS
  FirstFd,     \* the listening socket of a server, the socket of a client
  MaxFd,       \* bound: the highest descriptor
  MaxWatcher,  \* bound: watchers added
  MaxTimer,    \* bound: timers added
  Interval,    \* the intervals of timers, unsigned ints
  IntMax,      \* INT_MAX
  MaxWork      \* bound: the time one callback takes

ASSUME LooperAssumption ==
  /\ {FirstFd, MaxFd, MaxWatcher, MaxTimer, IntMax, MaxWork} \subseteq Nat
  /\ 0 < FirstFd /\ FirstFd < MaxFd
  /\ 2 <= MaxWatcher   \* the client's
  /\ Interval \subseteq 0..(2 * IntMax + 1)

Stdin == 0
Fd == 0..MaxFd
Events == {"IN", "HUP"}   \* what every watcher asks for
None == 0                 \* a NULL pointer, no id
Forever == -1

VARIABLES
  program,  \* whose callbacks run: "server", "client" or "timers"
  chain,    \* the nodes of watcher_list in the order of their links
  head,     \* the place of the node watcher_list points to
  lastId,   \* watcher_last_id
  timers,   \* timer_list
  added,    \* timer_last_id
  phase,    \* where looper_run is
  walk,     \* the next timer of looper_timer_callback
  timeout,  \* TimerData.timeout
  wait,     \* what is left of poll's timeout, negative for ever
  fds,      \* the poll set
  slot,     \* the index i of looper_run
  node,     \* the next watcher of looper_handle_event
  open,     \* the descriptors that are open
  ready,    \* what poll would report of each
  called,   \* history: the watchers called in this round, in order
  known     \* history: lastId when poll returned

lists  == <<chain, head, lastId>>
kernel == <<open, ready>>
round  == <<called, known>>
vars == <<program, lists, timers, added, phase, walk, timeout, wait, fds, slot, node, kernel, round>>

-----------------------------------------------------------------------------
(* The two lists *)

Watchers == IF chain = <<>> THEN <<>> ELSE SubSeq(chain, head, Len(chain))
FdOf(id) == LET i == CHOOSE i \in DOMAIN chain : chain[i].id = id IN chain[i].fd
Watched  == {w.fd : w \in ToSet(chain)}

FirstOf(list) == IF list = <<>> THEN None ELSE list[1].id
NextOf(list, id) ==
  LET i == CHOOSE i \in DOMAIN list : list[i].id = id
  IN  IF i = Len(list) THEN None ELSE list[i + 1].id

(* d_list_insert_sort moves a node to before those that looper_fd_sort finds
   greater, and no further: where each node goes. *)
(* Mutant: looper_fd_sort with its operands exchanged. *)
BeforeDescending(i, j) == chain[i].fd > chain[j].fd \/ (chain[i].fd = chain[j].fd /\ i < j)
Before(i, j) == chain[i].fd < chain[j].fd \/ (chain[i].fd = chain[j].fd /\ i < j)
Place(i) == Cardinality({j \in DOMAIN chain : Before(j, i)}) + 1
SortedChain == [k \in 1..Len(chain) |-> chain[CHOOSE i \in DOMAIN chain : Place(i) = k]]

(* d_list_insert_sort returns the new first node and looper_get_fds drops it:
   watcher_list is the old one, wherever it is now. *)
HeadAfterSort == IF chain = <<>> THEN None ELSE Place(head)

AddWatcher(fd) ==
  /\ chain' = Append(chain, [id |-> lastId + 1, fd |-> fd])
  /\ head' = IF chain = <<>> THEN 1 ELSE head
  /\ lastId' = lastId + 1

RemoveAllWatchers == chain' = <<>> /\ head' = None /\ UNCHANGED lastId

(* Mutant: the time left goes below 0. *)
ElapsedBelow(ts, time) == [i \in DOMAIN ts |-> [ts[i] EXCEPT !.left = @ - time]]
Elapsed(ts, time) ==
  [i \in DOMAIN ts |-> [ts[i] EXCEPT !.left = Max({0, @ - time})]]

-----------------------------------------------------------------------------
(* The poll set *)

(* looper_match_fd_with_pollfd.  An equal descriptor leaves a slot as memset
   made it, descriptor 0 without events; one more gives that slot its events. *)
Repeats(list, i) == i \in 2..Len(list) /\ list[i].fd = list[i - 1].fd

PollSet(list) ==
  [i \in 1..Len(list) |->
     IF Repeats(list, i)
     THEN [fd |-> Stdin, events |-> IF Repeats(list, i + 1) THEN Events ELSE {}, revents |-> {}]
     ELSE [fd |-> list[i].fd, events |-> Events, revents |-> {}]]

Revents(s) ==
  IF s.fd \in open THEN ready[s.fd] \cap (s.events \cup {"HUP"}) ELSE {"NVAL"}

(* Mutant: no timeout for 0. *)
ToIntOrForever(t) == IF t = 0 THEN Forever ELSE t

(* poll takes an int: the upper half of the unsigned range becomes negative. *)
ToInt(t) == IF t > IntMax THEN t - 2 * (IntMax + 1) ELSE t

-----------------------------------------------------------------------------
(* The programs start.  new_looper leaves timer_list as malloc returned it: a
   pointer to anything ends the process at its first use.  socket() has given
   the lowest free number: those below it are open. *)

ServerStarts ==
  /\ program = "server"
  /\ chain = <<[id |-> 1, fd |-> FirstFd]>> /\ head = 1 /\ lastId = 1
  /\ timers = <<>> /\ added = 0
ClientStarts ==
  /\ program = "client"
  /\ chain = <<[id |-> 1, fd |-> Stdin], [id |-> 2, fd |-> FirstFd]>> /\ head = 1 /\ lastId = 2
  /\ timers = <<>> /\ added = 0
TimersStart ==
  /\ program = "timers"
  /\ chain = <<>> /\ head = None /\ lastId = 0
  /\ added = MaxTimer
  /\ \E ivl \in [1..MaxTimer -> Interval \ {0}], again \in [1..MaxTimer -> BOOLEAN] :
       timers = [i \in 1..MaxTimer |->
                   [id |-> i, interval |-> ivl[i], left |-> ivl[i], again |-> again[i]]]

Init ==
  /\ ServerStarts \/ ClientStarts \/ TimersStart
  /\ phase \in {"top", "crashed"}
  /\ walk = None /\ timeout = Forever /\ wait = 0
  /\ fds = <<>> /\ slot = 0 /\ node = None
  /\ open = 0..FirstFd /\ ready = [f \in Fd |-> {}]
  /\ called = <<>> /\ known = 0

-----------------------------------------------------------------------------
(* looper_run *)

Stop ==
  /\ phase = "top" /\ Watchers = <<>> /\ timers = <<>>
  /\ phase' = "stopped"
  /\ UNCHANGED <<program, lists, timers, added, walk, timeout, wait, fds, slot, node, kernel, round>>

StartRound ==
  /\ phase = "top" /\ ~(Watchers = <<>> /\ timers = <<>>)
  /\ phase' = "timers"
  /\ walk' = FirstOf(timers) /\ timeout' = Forever
  /\ UNCHANGED <<program, lists, timers, added, wait, fds, slot, node, kernel, round>>

(* Mutant: the timeout is that of the last timer. *)
LastTimeout(t) == t
MinTimeout(t)  == IF timeout = Forever THEN t ELSE Min({timeout, t})

Cursor == CHOOSE i \in DOMAIN timers : timers[i].id = walk
TheTimer == timers[Cursor]

(* looper_timer_dispatch *)
NotExpired ==
  /\ phase = "timers" /\ walk # None /\ TheTimer.left > 0
  /\ timeout' = MinTimeout(TheTimer.left)
  /\ walk' = NextOf(timers, walk)
  /\ UNCHANGED <<program, lists, timers, added, phase, wait, fds, slot, node, kernel, round>>

(* d_list_foreach has saved the next node before the callback, which returns
   FALSE to have its timer removed; the new expiration counts from before. *)
Expired ==
  /\ phase = "timers" /\ walk # None /\ TheTimer.left <= 0
  /\ \E time \in 0..MaxWork :
       LET kept == IF TheTimer.again
                   THEN [timers EXCEPT ![Cursor].left = TheTimer.interval]
                   ELSE RemoveAt(timers, Cursor)
       IN  timers' = Elapsed(kept, time)
  /\ timeout' = MinTimeout(0)
  /\ walk' = NextOf(timers, walk)
  /\ UNCHANGED <<program, lists, added, phase, wait, fds, slot, node, kernel, round>>

StartPoll ==
  /\ phase = "timers" /\ walk = None
  /\ phase' = "poll"
  /\ chain' = SortedChain /\ head' = HeadAfterSort
  /\ fds' = PollSet(Watchers')
  /\ wait' = ToInt(timeout) /\ timeout' = Forever
  /\ UNCHANGED <<program, lastId, timers, added, walk, slot, node, kernel, round>>

Reported == \E i \in DOMAIN fds : Revents(fds[i]) # {}

TimePasses ==
  /\ phase = "poll" /\ ~Reported
  /\ wait > 0 \/ (wait < 0 /\ \E t \in ToSet(timers) : t.left > 0)
  /\ wait' = IF wait > 0 THEN wait - 1 ELSE wait
  /\ timers' = Elapsed(timers, 1)
  /\ UNCHANGED <<program, lists, added, phase, walk, timeout, fds, slot, node, kernel, round>>

PollTimesOut ==
  /\ phase = "poll" /\ ~Reported /\ wait = 0
  /\ phase' = "top" /\ fds' = <<>>
  /\ UNCHANGED <<program, lists, timers, added, walk, timeout, wait, slot, node, kernel, round>>

PollReturns ==
  /\ phase = "poll" /\ Reported
  /\ phase' = "events" /\ wait' = 0
  /\ fds' = [i \in DOMAIN fds |-> [fds[i] EXCEPT !.revents = Revents(fds[i])]]
  /\ known' = lastId
  /\ UNCHANGED <<program, lists, timers, added, walk, timeout, slot, node, kernel, called>>

-----------------------------------------------------------------------------
(* Ready descriptors *)

Later == {i \in DOMAIN fds : i > slot /\ fds[i].revents # {}}

NextSlot ==
  /\ phase = "events" /\ node = None /\ Later # {}
  /\ slot' = Min(Later) /\ node' = FirstOf(Watchers)
  /\ UNCHANGED <<program, lists, timers, added, phase, walk, timeout, wait, fds, kernel, round>>

EndRound ==
  /\ phase = "events" /\ node = None /\ Later = {}
  /\ phase' = "top" /\ fds' = <<>> /\ slot' = 0
  /\ called' = <<>> /\ known' = 0
  /\ UNCHANGED <<program, lists, timers, added, walk, timeout, wait, node, kernel>>

(* Mutant: the watcher's events are not looked at. *)
MatchesFd(id)  == FdOf(id) = fds[slot].fd
Matches(id) == FdOf(id) = fds[slot].fd /\ fds[slot].revents \cap Events # {}

(* looper_watcher_dispatch: not for this watcher. *)
PassBy ==
  /\ phase = "events" /\ node # None /\ ~Matches(node)
  /\ node' = NextOf(Watchers, node)
  /\ UNCHANGED <<program, lists, timers, added, phase, walk, timeout, wait, fds, slot, kernel, round>>

(* The next node is saved before the call; nodes may be appended by it. *)
Call ==
  /\ phase = "events" /\ node # None /\ Matches(node)
  /\ node' = NextOf(Watchers, node)
  /\ called' = Append(called, node)
  /\ UNCHANGED <<program, phase, walk, timeout, wait, fds, slot, known>>

HungUp == "HUP" \in fds[slot].revents
Newest(id) == \A w \in ToSet(chain) : w.fd = FdOf(id) => w.id <= id

CallTakesTime == \E time \in 0..MaxWork : timers' = Elapsed(timers, time)

(* Mutant: a hang-up is answered by logging it. *)
StillOpen(fd) == open
Closed(fd) == open \ {fd}

(* server_handle_disconnect_event: the descriptor is closed and its watcher
   stays.  A second watcher's close fails. *)
ServerHangUp ==
  /\ program = "server" /\ Call /\ HungUp
  /\ LET fd == FdOf(node)
     IN  /\ open' = Closed(fd)
         /\ ready' = IF fd \in open' THEN ready ELSE [ready EXCEPT ![fd] = {}]
  /\ CallTakesTime
  /\ UNCHANGED <<lists, added>>

(* server_handle_accept_event: the new socket has the lowest free number;
   without one accept fails and the connection stays pending. *)
Accept ==
  /\ program = "server" /\ Call /\ ~HungUp /\ node = 1
  /\ IF Fd \subseteq open
     THEN UNCHANGED <<lists, kernel>>
     ELSE LET fd == Min(Fd \ open)
          IN  /\ AddWatcher(fd)
              /\ open' = open \cup {fd}
              /\ ready' = [ready EXCEPT ![FirstFd] = {}]
  /\ CallTakesTime
  /\ UNCHANGED added

(* server_handle_req_event: a watcher that the descriptor outlived finds no
   client and reads nothing; a request may add a timer for a delayed message. *)
Request ==
  /\ program = "server" /\ Call /\ ~HungUp /\ node # 1
  /\ ready' = IF Newest(node) THEN [ready EXCEPT ![FdOf(node)] = @ \ {"IN"}] ELSE ready
  /\ \/ CallTakesTime /\ UNCHANGED added
     \/ /\ Newest(node) /\ added < MaxTimer
        /\ added' = added + 1
        /\ \E ivl \in Interval :
             timers' = Append(timers, [id |-> added + 1, interval |-> ivl, left |-> ivl, again |-> FALSE])
  /\ UNCHANGED <<lists, open>>

(* Mutant: the test of client_handle_disconnect on the other watcher. *)
IsInput(id) == id = 1
IsResponse(id) == id = 2

(* client_handle_disconnect, in the middle of the walk over the list. *)
ClientHangUp ==
  /\ program = "client" /\ Call /\ HungUp
  /\ IF IsResponse(node) THEN RemoveAllWatchers ELSE UNCHANGED lists
  /\ UNCHANGED <<timers, added, kernel>>

ClientReads ==
  /\ program = "client" /\ Call /\ ~HungUp
  /\ ready' = [ready EXCEPT ![FdOf(node)] = @ \ {"IN"}]
  /\ UNCHANGED <<lists, timers, added, open>>

-----------------------------------------------------------------------------
(* The other ends.  Stdin is a pipe or a terminal that may close too.  Only poll
   looks at ready: what happens before is as good as happening in it. *)

Arrive(fd) ==
  /\ phase = "poll"
  /\ fd \in open /\ "IN" \notin ready[fd]
  /\ (fd = FirstFd /\ program = "server") => lastId < MaxWatcher
  /\ ready' = [ready EXCEPT ![fd] = @ \cup {"IN"}]
  /\ UNCHANGED <<program, lists, timers, added, phase, walk, timeout, wait, fds, slot, node, open, round>>

HangUp(fd) ==
  /\ phase = "poll"
  /\ fd \in open /\ "HUP" \notin ready[fd]
  /\ program = "server" => fd # FirstFd
  /\ ready' = [ready EXCEPT ![fd] = @ \cup {"HUP"}]
  /\ UNCHANGED <<program, lists, timers, added, phase, walk, timeout, wait, fds, slot, node, open, round>>

Round ==
  \/ Stop \/ StartRound \/ NotExpired \/ Expired \/ StartPoll
  \/ TimePasses \/ PollTimesOut \/ PollReturns
  \/ NextSlot \/ EndRound \/ PassBy
  \/ ServerHangUp \/ Accept \/ Request \/ ClientHangUp \/ ClientReads

Next == Round \/ \E fd \in Fd : Arrive(fd) \/ HangUp(fd)

Spec == Init /\ [][Next]_vars

(* Callbacks return and time passes. *)
FairSpec == Spec /\ WF_vars(Round)

-----------------------------------------------------------------------------
(* Properties *)

TypeOK ==
  /\ program \in {"server", "client", "timers"}
  /\ chain \in Seq([id : 1..MaxWatcher, fd : Fd]) /\ head \in 0..Len(chain) /\ lastId \in 0..MaxWatcher
  /\ timers \in Seq([id : 1..MaxTimer, interval : Interval, left : 0..(2 * IntMax + 1), again : BOOLEAN])
  /\ added \in 0..MaxTimer
  /\ phase \in {"top", "timers", "poll", "events", "stopped", "crashed"}
  /\ walk \in 0..MaxTimer /\ node \in 0..MaxWatcher
  /\ timeout \in Forever..(2 * IntMax + 1) /\ wait \in (-IntMax - 1)..IntMax
  /\ fds \in Seq([fd : Fd, events : SUBSET Events, revents : SUBSET (Events \cup {"NVAL"})])
  /\ slot \in 0..Len(fds)
  /\ open \subseteq Fd /\ ready \in [Fd -> SUBSET Events]
  /\ called \in Seq(1..MaxWatcher) /\ known \in 0..MaxWatcher

(* Every watcher's descriptor is polled for its events, though equal ones share
   a slot and the head of the sorted list is not stored (looper_get_fds). *)
PollCovers ==
  phase = "poll" =>
    \A w \in ToSet(chain) : \E s \in ToSet(fds) : s.fd = w.fd /\ s.events = Events

(* poll does not sleep past an expiration, whatever the callbacks of the walk
   did to the timers and however long they took; only when every interval is
   above INT_MAX may it sleep for ever (looper_timer_callback, looper_run). *)
SleepBound ==
  phase = "poll" =>
    \A t \in ToSet(timers) :
      wait \in 0..t.left \/ (wait < 0 /\ \A u \in ToSet(timers) : u.interval > IntMax)

(* A walk that calls callbacks continues at a node of the list, not at one that
   a callback has freed (d_list_foreach saves the next node). *)
NoStaleCursor ==
  /\ node # None => node \in {w.id : w \in ToSet(Watchers)}
  /\ walk # None => walk \in {t.id : t \in ToSet(timers)}

(* In one round, the watchers called are those that watched when poll returned
   and whose descriptor was ready, each once (looper_watcher_dispatch), although
   descriptors are closed and given out again in between. *)
RoundIsExact ==
  [][ phase = "events" /\ phase' = "top" /\ chain # <<>> =>
        /\ IsInjective(called)
        /\ ToSet(called) =
             {w.id : w \in {v \in ToSet(chain) :
                /\ v.id <= known
                /\ \E s \in ToSet(fds) : s.fd = v.fd /\ s.revents \cap Events # {}}} ]_vars

(* A timer that has expired is run before long, unless its interval is above
   INT_MAX, whatever else is ready. *)
TimersRun ==
  \A id \in 1..MaxTimer :
    (phase # "crashed" /\ \E t \in ToSet(timers) : t.id = id /\ t.left = 0 /\ t.interval \in 0..IntMax)
      ~> ~\E t \in ToSet(timers) : t.id = id /\ t.left = 0

(* A watched connection that has data or has hung up is served in the end: no
   other descriptor and no timer can keep the loop from it. *)
ConnectionsServed ==
  \A fd \in Fd \ {Stdin} :
    (phase # "crashed" /\ fd \in Watched /\ ready[fd] # {} /\ (program = "server" => fd # FirstFd))
      ~> (ready[fd] = {} \/ chain = <<>>)
=============================================================================
