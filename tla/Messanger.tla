----------------------------- MODULE Messanger -----------------------------
(***************************************************************************)
(* chapter3/Messanger: the server that Messenger_v2 grew from.  One thread *)
(* polls an array of descriptors and handles what poll() reported, slot by *)
(* slot, while slots are removed from and added to the array.  Messages    *)
(* are kept in a list, in a file that survives the process, and are pushed *)
(* to all other clients; clients read the file page by page.               *)
(*                                                                         *)
(* A connection is its descriptor: the server never closes one, so that a  *)
(* number is not used again by the same process.  A request is one write() *)
(* of the client and is read whole, also after the client has closed; a    *)
(* place in the file is the number of messages before it; a write that     *)
(* fails leaves nothing in the file; no write to a client blocks.          *)
(***************************************************************************)
EXTENDS Naturals, Sequences, SequencesExt, FiniteSets

CONSTANTS MaxConn,   \* descriptors that the process may have for connections
          PollSize,  \* POLL_SIZE
          PageSize,  \* messages in a reply, 10
          MaxMesg,   \* bound: messages sent
          MaxLoad,   \* bound: connections and messages together
          MaxUnread  \* bound: requests written and not read

ASSUME MessangerAssumption ==
  /\ {MaxConn, PollSize, PageSize} \subseteq Nat \ {0} /\ {MaxMesg, MaxLoad, MaxUnread} \subseteq Nat

VARIABLES peer,     \* the other end of each connection
          waiting,  \* a connection has not been accepted yet
          request,  \* what each peer has written and is not read
          mode,     \* where the server is: "poll", "accept", "events"; "gone"; or
                    \* "undef" after writing beyond the array
          array,    \* pollfd_array but for the listening socket's slot 0; revents are
                    \* cleared as soon as the round will not look at them again; None is
                    \* the descriptor of an accept() that failed, -1, and of an unused slot
          numfds,   \* slots in use, with the listening socket's
          clients,  \* client_list; since, told and pages are history: the messages
                    \* sent before the client came, those pushed to it, and those
                    \* in its pages since it asked for the first
          list,     \* message_list
          file,     \* the message file
          author,   \* history: who sent each message
          hungUp    \* history: the hang-ups that poll() reported in this round

outside == <<peer, waiting, request>>
round   == <<array, numfds>>
store   == <<clients, list, file, author>>
vars == <<outside, mode, round, store, hungUp>>

Conn == 1..MaxConn
None == 0
Ops == {"REQ_ALL_MSG", "SND_MSG", "REQ_FIRST_MSG", "REQ_LAST_MSG"}
Mesg == Nat \ {0}
Slot == 1..(PollSize - 1)

\* struct _Client.
Client == [fd : Conn, offset : Nat, since : Nat, told : Seq(Mesg), pages : Seq(Mesg)]

Polled == {array[i].fd : i \in 1..(numfds - 1)}
Serving == mode \in {"poll", "accept", "events"}
Accepted == {c \in Conn : peer[c] # "none"}
Records == {clients[i].fd : i \in 1..Len(clients)}
RecordOf(c) == CHOOSE i \in 1..Len(clients) : clients[i].fd = c

TypeOK ==
  /\ peer \in [Conn -> {"none", "open", "closed"}] /\ waiting \in BOOLEAN
  /\ request \in [Conn -> Ops \cup {"none"}]
  /\ mode \in {"poll", "accept", "events", "gone", "undef"}
  /\ array \in [Slot -> [fd : Conn \cup {None}, revents : {"", "IN", "HUP"}]]
  /\ numfds \in 1..PollSize
  /\ clients \in Seq(Client)
  /\ list \in Seq(Mesg) /\ file \in Seq(Mesg) /\ author \in Seq(Conn)
  /\ hungUp \subseteq Conn

EmptyArray == [i \in Slot |-> [fd |-> None, revents |-> ""]]

Init ==
  /\ peer = [c \in Conn |-> "none"] /\ waiting = FALSE /\ request = [c \in Conn |-> "none"]
  /\ mode = "poll" /\ array = EmptyArray /\ numfds = 1
  /\ clients = <<>> /\ list = <<>> /\ file = <<>> /\ author = <<>>
  /\ hungUp = {}

----------------------------------------------------------------------------
(* The clients' side.                                                      *)

Sent == Len(author) + Cardinality({c \in Conn : request[c] = "SND_MSG"})

Connect ==
  /\ Serving /\ ~waiting
  /\ Cardinality(Accepted) + Sent < MaxLoad
  /\ waiting' = TRUE
  /\ UNCHANGED <<peer, request, mode, round, store, hungUp>>

\* A command typed by the user of a client.
Ask(c, op) ==
  /\ peer[c] = "open" /\ Serving /\ request[c] = "none"
  /\ Cardinality({d \in Conn : request[d] # "none"}) < MaxUnread
  /\ op = "SND_MSG" => /\ Sent < MaxMesg
                       /\ Cardinality(Accepted) + Sent + (IF waiting THEN 1 ELSE 0) < MaxLoad
  /\ request' = [request EXCEPT ![c] = op]
  /\ UNCHANGED <<peer, waiting, mode, round, store, hungUp>>

PeerClose(c) ==
  /\ peer[c] = "open" /\ Serving
  /\ peer' = [peer EXCEPT ![c] = "closed"]
  /\ UNCHANGED <<waiting, request, mode, round, store, hungUp>>

----------------------------------------------------------------------------
(* run() of server_looper.c.                                               *)

Revents(c) == IF c = None THEN ""
              ELSE IF peer[c] = "closed" THEN "HUP"
              ELSE IF request[c] # "none" THEN "IN"
              ELSE ""

\* Mutant: poll() is given one slot less.
SlotsButLast == 1..(numfds - 2)
SlotsInUse == 1..(numfds - 1)

Poll ==
  /\ mode = "poll"
  /\ waiting \/ \E i \in SlotsInUse : Revents(array[i].fd) # ""
  /\ array' = [i \in Slot |->
                 IF i \in SlotsInUse THEN [array[i] EXCEPT !.revents = Revents(array[i].fd)]
                 ELSE array[i]]
  /\ hungUp' = {c \in Polled : Revents(c) = "HUP"}
  /\ mode' = IF waiting THEN "accept" ELSE "events"
  /\ UNCHANGED <<outside, numfds, store>>

\* server_handle_accept_event: with no descriptor left the connection goes on
\* waiting.
Accepting(c) ==
  /\ peer' = [peer EXCEPT ![c] = "open"] /\ waiting' = FALSE
  /\ clients' = Append(clients, [fd |-> c, offset |-> 0, since |-> Len(author),
                                 told |-> <<>>, pages |-> <<>>])

\* add_and_set_fd_event, which does not look at the size of the array, and is
\* called with -1 if accept() failed.
Add(fd) ==
  \/ /\ numfds < PollSize
     /\ array' = [array EXCEPT ![numfds] = [fd |-> fd, revents |-> ""]]
     /\ numfds' = numfds + 1 /\ mode' = "events"
  \/ /\ numfds = PollSize
     /\ mode' = "undef" /\ UNCHANGED <<array, numfds>>

Accept ==
  /\ mode = "accept"
  /\ LET c == Cardinality(Accepted) + 1
     IN \/ c \in Conn /\ Accepting(c) /\ Add(c)
        \/ c \notin Conn /\ Add(None) /\ UNCHANGED <<peer, waiting, clients>>
  /\ UNCHANGED <<request, list, file, author, hungUp>>

\* The loop over the array comes to slot i: the next one of those polled in this
\* round that has an event.
AtSlot(i) ==
  /\ mode = "events" /\ array[i].revents # ""
  /\ \A j \in 1..(i - 1) : array[j].revents = ""

\* Mutant: the number of slots is taken for the place of the last.
BeyondLast == IF numfds \in Slot THEN array[numfds] ELSE array[numfds - 1]
LastSlot == array[numfds - 1]

\* remove_client_fd: the slot is overwritten by the last one.  The one that takes
\* its place is not looked at, but the last slot still is where it was: run() goes
\* up to the number of slots at the start of the round.
RemoveClientFd(i) ==
  /\ AtSlot(i) /\ array[i].revents = "HUP"
  /\ LET c == array[i].fd
     IN IF c \in Records
        THEN /\ clients' = RemoveAt(clients, RecordOf(c))
             /\ array' = [array EXCEPT ![i] = [fd |-> LastSlot.fd, revents |-> ""]]
             /\ numfds' = numfds - 1
        ELSE array' = [array EXCEPT ![i].revents = ""] /\ UNCHANGED <<clients, numfds>>
  /\ UNCHANGED <<outside, mode, list, file, author, hungUp>>

\* What the next round does not read is put back to its first value.
EndRound ==
  /\ mode = "events" /\ ~\E i \in Slot : AtSlot(i)
  /\ mode' = "poll" /\ hungUp' = {}
  /\ array' = [i \in Slot |->
                 [fd |-> IF i < numfds THEN array[i].fd ELSE None, revents |-> ""]]
  /\ UNCHANGED <<outside, numfds, store>>

----------------------------------------------------------------------------
(* server_handle_event.                                                    *)

Handling(c, op) ==
  /\ \E i \in Slot :
       /\ AtSlot(i) /\ array[i] = [fd |-> c, revents |-> "IN"]
       /\ array' = [array EXCEPT ![i].revents = ""]
  /\ request[c] = op
  /\ request' = [request EXCEPT ![c] = "none"]
  /\ UNCHANGED <<peer, waiting, numfds, hungUp>>

\* Writing to a peer that has closed raises SIGPIPE.
Written(c) == mode' = IF peer[c] = "open" THEN mode ELSE "gone"

ReqAllMsg(c) ==
  /\ Handling(c, "REQ_ALL_MSG")
  /\ IF list = <<>> THEN UNCHANGED mode ELSE Written(c)
  /\ UNCHANGED store

\* Mutant: the sender gets its message back.
Everyone(c) == DOMAIN clients
Others(c) == {i \in DOMAIN clients : clients[i].fd # c}

\* send_message_to_clients goes through client_list up to a closed peer.
SendMessageToClients(c, m) ==
  LET closed == {i \in Others(c) : peer[clients[i].fd] = "closed"}
      reached == {i \in Others(c) : \A k \in closed : i < k}
  IN /\ clients' = [i \in DOMAIN clients |->
                      IF i \in reached THEN [clients[i] EXCEPT !.told = Append(@, m)] ELSE clients[i]]
     /\ mode' = IF closed = {} THEN mode ELSE "gone"

\* get_packet_for_rcv_msg: the list has the message even if the file has not,
\* and then nobody is told.
SndMsg(c) ==
  /\ Handling(c, "SND_MSG")
  /\ LET m == Len(author) + 1
     IN /\ author' = Append(author, c)
        /\ list' = Append(list, m)
        /\ \/ file' = Append(file, m) /\ SendMessageToClients(c, m)
           \/ UNCHANGED <<file, clients, mode>>

PageFrom(o) == SubSeq(file, o + 1, IF o + PageSize < Len(file) THEN o + PageSize ELSE Len(file))

\* Mutant: the client's place is the end of the file.
PlaceAtEnd(o) == Len(file)
PlaceAfter(o) == o + Len(PageFrom(o))

\* get_packet_for_res_first_msg and get_packet_for_res_last_msg: nothing is sent
\* if there is nothing to read.
SendPage(c, o, before) ==
  IF PageFrom(o) = <<>> THEN UNCHANGED <<mode, clients>>
  ELSE /\ clients' = [clients EXCEPT ![RecordOf(c)].offset = PlaceAfter(o),
                                     ![RecordOf(c)].pages = before \o PageFrom(o)]
       /\ Written(c)

ReqFirstMsg(c) ==
  /\ Handling(c, "REQ_FIRST_MSG")
  /\ SendPage(c, 0, <<>>)
  /\ UNCHANGED <<list, file, author>>

ReqLastMsg(c) ==
  /\ Handling(c, "REQ_LAST_MSG")
  /\ SendPage(c, clients[RecordOf(c)].offset, clients[RecordOf(c)].pages)
  /\ UNCHANGED <<list, file, author>>

HandleEvent(c) == ReqAllMsg(c) \/ SndMsg(c) \/ ReqFirstMsg(c) \/ ReqLastMsg(c)

----------------------------------------------------------------------------

\* main() again: the file is opened and appended to, the list is empty.  The
\* clients of the process that ended have ended with it.
Restart ==
  /\ mode = "gone"
  /\ mode' = "poll" /\ array' = EmptyArray /\ numfds' = 1
  /\ clients' = <<>> /\ list' = <<>> /\ waiting' = FALSE /\ hungUp' = {}
  /\ peer' = [c \in Conn |-> "none"] /\ request' = [c \in Conn |-> "none"]
  /\ UNCHANGED <<file, author>>

Round ==
  \/ Poll \/ Accept \/ EndRound
  \/ \E i \in Slot : RemoveClientFd(i)
  \/ \E c \in Conn : HandleEvent(c)

Next ==
  \/ Connect
  \/ \E c \in Conn : PeerClose(c) \/ \E op \in Ops : Ask(c, op)
  \/ Round
  \/ Restart

Spec == Init /\ [][Next]_vars

\* The loop runs as long as poll() has something to report.
FairSpec == Spec /\ WF_vars(Round)

----------------------------------------------------------------------------
(* Properties.                                                             *)

\* Page after page a client reads the file from its beginning without a gap or a
\* repetition, however many messages and pages of others come in between.
PagesJoin ==
  Serving => \A i \in 1..Len(clients) : clients[i].pages = SubSeq(file, 1, clients[i].offset)

InOrder(ms) == \A j, k \in 1..Len(ms) : j < k => ms[j] < ms[k]

\* A client has been told what came into the file since it was accepted, once and
\* in that order, and nothing else but its own messages is missing.
ToldOfTheRest ==
  /\ InOrder(file)
  /\ Serving => \A i \in 1..Len(clients) :
       LET r == clients[i]
       IN  /\ ToSet(r.told) = {m \in ToSet(file) : m > r.since /\ author[m] # r.fd}
           /\ InOrder(r.told)

\* What a client got is what the file holds (server_controler.c).
NothingMissed == PagesJoin /\ ToldOfTheRest

\* A client that is not forgotten stays in the array unless two connections hung
\* up in one round (remove_client_fd during the loop over the array).
StaysPolled ==
  [][ \A c \in Polled \cap Records :
        c \in Records' /\ mode' # "undef" => c \in Polled' \/ Cardinality(hungUp) > 1 ]_vars

\* A request is read, and a hang-up is noticed, whatever the other clients do and
\* even while the array holds a connection that is forgotten and reports its
\* hang-up in every round, unless the connection left the array.
PolledIsServed ==
  \A c \in Conn :
    (Serving /\ c \in Polled \cap Records /\ Revents(c) # "")
      ~> (~Serving \/ c \notin Polled \cap Records \/ Revents(c) = "")
=============================================================================
