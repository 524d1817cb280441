------------------------------- MODULE Server -------------------------------
(***************************************************************************)
(* The chat server of Messenger_v2: server.c run by the event loop of      *)
(* looper.c.  One thread polls the listening socket and every connection,  *)
(* runs the handler of each ready descriptor, and runs expired timers.     *)
(*                                                                         *)
(* A connection is named by the id of the watcher made for it, which grows *)
(* by one at each accept (looper.c:372).  A descriptor is what the kernel  *)
(* gives out: the lowest free one, so a closed connection's number comes   *)
(* back for the next one.  What the server keeps under a descriptor (an    *)
(* online session, a delayed message) may therefore outlive the            *)
(* connection it was made for; the fields "conn" and "goal" are history:   *)
(* they record the connection that was meant and no action reads them.     *)
(*                                                                         *)
(* The two databases are seen as their in-memory lists: DataBase.tla has   *)
(* their files.  A peer is only its end of the socket.                     *)
(***************************************************************************)
EXTENDS Integers, Sequences, SequencesExt

CONSTANTS
  MaxConn,      \* bound: connections accepted over the whole history
  MaxFd,        \* bound: descriptors the process can have beside its own
  MaxMesg,      \* bound: messages stored
  MaxOnline,    \* bound: nodes in online_list
  MaxAccount,   \* bound: account ids
  ReadBatch,    \* messages in one reply to REQ_FIRST_OR_LAST_MSG: 10 in the code
  Users,        \* user names
  InitAccounts, \* users registered when the server first opens the account db
  SndAll,       \* the recipient of a message sent without a user id
  Ops           \* the requests that the peers of this instance send

AllOps == {"REQ_ALL_MSG", "FIRST", "LAST", "REQ_MAKE_ACCOUNT", "REQ_LOG_IN",
           "REQ_LOG_OUT", "REQ_DELETE_ACCOUNT", "REQ_LOG_IN_LIST",
           "SND_ONE", "SND_ALL"}

ASSUME BoundsAssumption == /\ MaxConn \in Nat
                           /\ MaxFd \in Nat
                           /\ MaxMesg \in Nat
                           /\ MaxOnline \in Nat
                           /\ MaxAccount \in Nat
                           /\ ReadBatch \in Nat \ {0}
ASSUME NamesAssumption == /\ SndAll \notin Users
                          /\ InitAccounts \in Seq(Users)
                          /\ Len(InitAccounts) <= MaxAccount
                          /\ Ops \subseteq AllOps

ConnId == 1..MaxConn
Fd     == 1..MaxFd
NoConn == 0     \* no connection; also a descriptor that is free
Leaked == -1    \* an index file left open by index_file_update
NoFd   == 0
NoId   == -1    \* account_db_* found no account
AcctId == 0..(MaxAccount - 1)

VARIABLES
  srv,       \* what the server thread is doing: poll, a blocking read, a write
  peer,      \* the peer's end of each connection: "none", "open", "closed"
  owner,     \* the kernel's table: the connection behind each descriptor
  fdOf,      \* Watcher.fd, by connection
  watchers,  \* looper->watcher_list
  clients,   \* server->client_list; appended with growing ids, so kept by id
  pos,       \* Client.last_read_pos
  mid,       \* clients with read_state = START_TO_READ_REQ
  online,    \* server->online_list; live = FALSE once the node is freed
  timers,    \* looper->timer_list with each timer's UserData
  mesgs,     \* the message db, in id order; message k has id k - 1
  got,       \* got[m][c]: how often c was pushed message m
  seen,      \* ids of the messages that replies to c contained
  accounts,  \* the account db: entry list with ids, in list order
  index,     \* the account db's keyword tree: "none", "sound", or "freed" when
             \* a key of it was freed (KeywordTree)
  tree       \* the keyword tree: user name to account id

netVars  == <<peer, owner, fdOf, watchers>>
dbVars   == <<mesgs, accounts, index, tree>>
vars     == <<srv, netVars, clients, pos, mid, online, timers, dbVars, got, seen>>

MesgId == 1..MaxMesg
NoMesgs == [m \in MesgId |-> [c \in ConnId |-> 0]]
SrvAt(a, c, p, ids) == [at |-> a, conn |-> c, pos |-> p, ids |-> ids]
Loop == SrvAt("loop", NoConn, 0, {})
Down == SrvAt("down", NoConn, 0, {})

Timer == [mesg : MesgId, fd : Fd \cup {NoFd}, all : BOOLEAN, goal : ConnId \cup {NoConn}]
Online == [acct : AcctId, fd : Fd, live : BOOLEAN, conn : ConnId]
Account == [id : AcctId, user : Users]
Mesg == [from : ConnId, to : Users \cup {SndAll}, goal : ConnId \cup {NoConn}]

(* Every variable holds a value of its type. *)
TypeOK ==
  /\ srv \in [at : {"loop", "read", "write", "down"}, conn : ConnId \cup {NoConn},
              pos : Nat, ids : SUBSET Nat]
  /\ peer \in [ConnId -> {"none", "open", "closed"}]
  /\ owner \in [Fd -> ConnId \cup {NoConn, Leaked}]
  /\ fdOf \in [ConnId -> Fd \cup {NoFd}]
  /\ watchers \subseteq ConnId
  /\ clients \subseteq ConnId
  /\ pos \in [ConnId -> Nat]
  /\ mid \subseteq ConnId
  /\ online \in Seq(Online)
  /\ timers \subseteq Timer
  /\ mesgs \in Seq(Mesg) /\ Len(mesgs) <= MaxMesg
  /\ got \in [MesgId -> [ConnId -> Nat]]
  /\ seen \in [ConnId -> SUBSET Nat]
  /\ accounts \in Seq(Account)
  /\ index \in {"none", "sound", "freed"}
  /\ tree \in [Users -> AcctId \cup {NoId}]

-----------------------------------------------------------------------------
(* Helpers *)

(* The descriptor that open() or accept() returns next. *)
LowestFree(f) == /\ owner[f] = NoConn
                 /\ \A g \in Fd : owner[g] = NoConn => f <= g

(* index_file_load fills the keyword tree in list order; an equal key is
   refused (tree.c:138), so the first account of a name is the one found. *)
LoadTree(accs) ==
  [u \in Users |->
     IF \E i \in 1..Len(accs) : accs[i].user = u
     THEN accs[CHOOSE i \in 1..Len(accs) :
                 /\ accs[i].user = u
                 /\ \A j \in 1..(i - 1) : accs[j].user # u].id
     ELSE NoId]

InitEntries == [i \in 1..Len(InitAccounts) |->
                  [id |-> i - 1, user |-> InitAccounts[i]]]

(* last_id + 1: the last entry of the list has the highest id. *)
NextAccount == IF accounts = <<>> THEN 0 ELSE accounts[Len(accounts)].id + 1

(* The tree, as far as Server relies on it: AvlTree implements KeywordTree. *)
K == INSTANCE KeywordTree WITH
       Key <- Users, Val <- AcctId, NoVal <- NoId, state <- index, table <- tree

(* database_search with the key u: the tree's id, if the list has its entry.  A
   tree with a freed key may find any id. *)
Listed(id) == \E k \in 1..Len(accounts) : accounts[k].id = id
Lookup(u) ==
  IF index = "freed" THEN {NoId} \cup {a \in AcctId : Listed(a)}
  ELSE IF Listed(tree[u]) THEN {tree[u]}
  ELSE {NoId}

(* d_list_find_data over online_list: the positions the search for account a
   may stop at, 0 when it may find nothing.  A freed node is still linked and
   its bytes are whatever malloc left there: it may match or not. *)
FindOnline(a) ==
  {i \in 1..Len(online) :
     /\ online[i].live => online[i].acct = a
     /\ \A j \in 1..(i - 1) : online[j].live => online[j].acct # a}
  \cup {i \in {0} : \A j \in 1..Len(online) : online[j].live => online[j].acct # a}

(* A variant: the match function accepts the first client of the list. *)
FirstOfList(f, c) == c \in clients /\ \A d \in clients : c <= d

(* server_find_client_with_fd: the first client of the list with descriptor f. *)
FirstClient(f, c) == /\ c \in clients /\ fdOf[c] = f
                     /\ \A d \in clients : fdOf[d] = f => c <= d

(* A variant: a hang-up reported for an earlier connection of descriptor f. *)
HungUpBefore(f) == /\ owner[f] \in ConnId
                   /\ \E w \in watchers : fdOf[w] = f /\ peer[w] = "closed"

(* The socket behind descriptor f has no peer any more. *)
HungUp(f) == owner[f] \in ConnId /\ peer[owner[f]] = "closed"

(* server_handle_req_event gets a complete packet of connection c: its watcher
   is the one dispatched, its record is found by id and has that descriptor. *)
Handling(c) == /\ srv.at = "loop" \/ (srv.at = "read" /\ srv.conn = c)
               /\ c \in clients
               /\ peer[c] = "open"
               /\ owner[fdOf[c]] = c

(* The handler is done with c's packet: it has a reply to write, or none. *)
Reply(c, p, ids) == srv' = SrvAt("write", c, p, ids) /\ mid' = mid \ {c}
NoReply(c) == srv' = Loop /\ mid' = mid \ {c}

(* A store rewrites an index file and leaves the previous descriptor open. *)
LeakFd == \E f \in Fd : /\ LowestFree(f)
                        /\ owner' = [owner EXCEPT ![f] = Leaked]

(* The process dies: the kernel closes every socket, memory is gone. *)
Die == /\ srv' = Down
       /\ peer' = [c \in ConnId |-> IF peer[c] = "none" THEN "none" ELSE "closed"]
       /\ owner' = [f \in Fd |-> NoConn]
       /\ fdOf' = [c \in ConnId |-> NoFd]
       /\ watchers' = {}
       /\ clients' = {}
       /\ pos' = [c \in ConnId |-> 0]
       /\ mid' = {}
       /\ online' = <<>>
       /\ timers' = {}
       /\ seen' = [c \in ConnId |-> {}]

Init ==
  /\ srv = Loop
  /\ peer = [c \in ConnId |-> "none"]
  /\ owner = [f \in Fd |-> NoConn]
  /\ fdOf = [c \in ConnId |-> NoFd]
  /\ watchers = {}
  /\ clients = {}
  /\ pos = [c \in ConnId |-> 0]
  /\ mid = {}
  /\ online = <<>>
  /\ timers = {}
  /\ mesgs = <<>>
  /\ got = NoMesgs
  /\ seen = [c \in ConnId |-> {}]
  /\ accounts = InitEntries
  /\ index = IF InitAccounts = <<>> THEN "none" ELSE "sound"
  /\ tree = LoadTree(InitEntries)

-----------------------------------------------------------------------------
(* Connections *)

(* server_handle_accept_event, looper_add_watcher, server_add_client: with no
   free descriptor accept() fails and the peer stays in the backlog. *)
HandleAcceptEvent(c) ==
  /\ srv.at = "loop"
  /\ peer[c] = "none"
  /\ \A d \in ConnId : d < c => peer[d] # "none"
  /\ \E f \in Fd : /\ LowestFree(f)
                   /\ owner' = [owner EXCEPT ![f] = c]
                   /\ fdOf' = [fdOf EXCEPT ![c] = f]
  /\ peer' = [peer EXCEPT ![c] = "open"]
  /\ watchers' = watchers \cup {c}
  /\ clients' = clients \cup {c}
  /\ pos' = [pos EXCEPT ![c] = 1]
  /\ UNCHANGED <<srv, mid, online, timers, dbVars, got, seen>>

(* The peer closes its end.  A read() the server is blocked in returns 0 and
   the handler leaves with "Not enough". *)
PeerClose(c) ==
  /\ peer[c] = "open"
  /\ peer' = [peer EXCEPT ![c] = "closed"]
  /\ srv' = IF srv.at = "read" /\ srv.conn = c THEN Loop ELSE srv
  /\ UNCHANGED <<owner, fdOf, watchers, clients, pos, mid, online, timers,
                 dbVars, got, seen>>

(* Variants: the record stays in the list; the list is always forgotten. *)
RemoveNoClient(ws) == clients
RemoveEveryClient(ws) == {}

(* What d_list_remove_with_user_data leaves of client_list after the watchers
   in ws have each asked to remove the client with their id: an id that is not
   in the list makes it return NULL, and the whole list is forgotten. *)
RemoveClients(ws) == IF ws \subseteq clients THEN clients \ ws ELSE {}

(* A variant: only server_destroy_client closes the descriptor. *)
ReleaseOfClient(f) ==
  IF owner[f] \in clients THEN [owner EXCEPT ![f] = NoConn] ELSE owner

(* The descriptor is closed by server_destroy_client and once more by
   server_handle_disconnect_event, which fails if the first did it. *)
Release(f) == [owner EXCEPT ![f] = NoConn]

(* looper_watcher_dispatch gives the hang-up of descriptor f to every watcher
   with that descriptor; each removes "its" client and closes f.  No watcher
   is ever removed, so those of earlier connections on f are called too. *)
HandleDisconnectEvent(f) ==
  /\ srv.at = "loop"
  /\ HungUp(f)
  /\ clients' = RemoveClients({w \in watchers : fdOf[w] = f})
  /\ owner' = Release(f)
  /\ pos' = [c \in ConnId |-> IF c \in clients' THEN pos[c] ELSE 0]
  /\ seen' = [c \in ConnId |-> IF c \in clients' THEN seen[c] ELSE {}]
  /\ mid' = mid \cap clients'
  /\ UNCHANGED <<srv, peer, fdOf, watchers, online, timers, dbVars, got>>

(* A packet arrives with its header but not whole: the handler goes on to
   START_TO_READ_REQ in the same call and read()s again, blocking the thread. *)
ReadPart(c) ==
  /\ srv.at = "loop" /\ Handling(c) /\ c \notin mid
  /\ srv' = SrvAt("read", c, 0, {})
  /\ mid' = mid \cup {c}
  /\ UNCHANGED <<netVars, clients, pos, online, timers, dbVars, got, seen>>

(* More bytes, still not the whole packet: "Not enough", back to poll(). *)
ReadMore(c) ==
  /\ srv.at = "read" /\ Handling(c)
  /\ srv' = Loop
  /\ UNCHANGED <<netVars, clients, pos, mid, online, timers, dbVars, got, seen>>

(* The completed packet has a wrong SOP, EOP or check sum and is dropped. *)
DropPacket(c) ==
  /\ Handling(c) /\ c \in mid
  /\ NoReply(c)
  /\ UNCHANGED <<netVars, clients, pos, online, timers, dbVars, got, seen>>

(* server_send_packet_to_client: a peer that closed in the meantime raises
   SIGPIPE, which the program neither handles nor ignores. *)
SendPacketToClient ==
  /\ srv.at = "write"
  /\ UNCHANGED <<dbVars, got>>
  /\ \/ /\ peer[srv.conn] = "open"
        /\ srv' = Loop
        /\ pos' = [pos EXCEPT ![srv.conn] = srv.pos]
        /\ seen' = [seen EXCEPT ![srv.conn] = @ \cup srv.ids]
        /\ UNCHANGED <<netVars, clients, mid, online, timers>>
     \/ /\ peer[srv.conn] = "closed"
        /\ Die

-----------------------------------------------------------------------------
(* Reading the message history *)

(* server_get_all_mesgs_size sums into an uninitialised int: the reply may be
   given up (0, or a size malloc refuses) or the buffer be too small for it. *)
SizeGarbage(c) ==
  /\ UNCHANGED <<dbVars, got>>
  /\ \/ /\ NoReply(c)
        /\ UNCHANGED <<netVars, clients, pos, online, timers, seen>>
     \/ Die

(* REQ_ALL_MSG *)
ReqAllMsg(c) ==
  /\ "REQ_ALL_MSG" \in Ops
  /\ Handling(c)
  /\ Len(mesgs) > 0
  /\ \/ /\ Reply(c, Len(mesgs), 0..(Len(mesgs) - 1))
        /\ UNCHANGED <<netVars, clients, pos, online, timers, dbVars, got, seen>>
     \/ SizeGarbage(c)

(* message_db_get_messages(pos, read_count) asks for the ids pos - 1, ... ;
   there is none below 0 or from the count on. *)
ReadCount == IF Len(mesgs) > ReadBatch THEN ReadBatch ELSE Len(mesgs)
FirstId(p) == IF p = 0 THEN 0 ELSE p - 1
LastIdAtCursor(p) == p - 1        \* a variant: the page ends at the cursor
LastId(p) ==
  IF p + ReadCount - 2 < Len(mesgs) THEN p + ReadCount - 2 ELSE Len(mesgs) - 1
NextPosAsked(p) == p + ReadCount  \* a variant: counts what was asked for
NextPos(p) == p + (LastId(p) - FirstId(p) + 1) - 1

(* REQ_FIRST_OR_LAST_MSG: '0' reads from the first message, anything else from
   the client's last_read_pos. *)
ReqFirstOrLastMsg(c, more) ==
  LET p == IF more THEN pos[c] ELSE 1
  IN  /\ (IF more THEN "LAST" ELSE "FIRST") \in Ops
      /\ Handling(c)
      /\ Len(mesgs) > 0
      /\ \/ /\ FirstId(p) <= LastId(p)
            /\ Reply(c, NextPos(p), FirstId(p)..LastId(p))
            /\ UNCHANGED <<netVars, clients, pos, online, timers, dbVars, got, seen>>
         \/ /\ FirstId(p) > LastId(p)
            /\ NoReply(c)
            /\ UNCHANGED <<netVars, clients, pos, online, timers, dbVars, got, seen>>
         \/ /\ FirstId(p) <= LastId(p)
            /\ SizeGarbage(c)

(* A history request on an empty db is dropped without a reply. *)
NoMessage(c) ==
  /\ Ops \cap {"REQ_ALL_MSG", "FIRST", "LAST"} # {}
  /\ Handling(c) /\ c \in mid
  /\ mesgs = <<>>
  /\ NoReply(c)
  /\ UNCHANGED <<netVars, clients, pos, online, timers, dbVars, got, seen>>

-----------------------------------------------------------------------------
(* Accounts and sessions.  Every reply of these requests is sent with the
   read_pos that server_handle_req_packet initialised to 0. *)

(* account_db_add_account with a name that is not found.  An account db without
   a tree gets none. *)
AddAccount(u) ==
  /\ NoId \in Lookup(u)
  /\ NextAccount \in AcctId
  /\ accounts' = Append(accounts, [id |-> NextAccount, user |-> u])
  /\ IF index = "none" THEN UNCHANGED <<index, tree>> ELSE K!Insert(u, NextAccount)

(* REQ_MAKE_ACCOUNT: when the account is refused, no reply is made. *)
ReqMakeAccount(c, u) ==
  /\ "REQ_MAKE_ACCOUNT" \in Ops
  /\ Handling(c)
  /\ UNCHANGED <<mesgs, got>>
  /\ \/ /\ Lookup(u) # {NoId}
        /\ NoReply(c)
        /\ UNCHANGED <<netVars, clients, pos, online, timers, seen, accounts,
                       index, tree>>
     \/ /\ AddAccount(u)
        /\ LeakFd
        /\ Reply(c, 0, {})
        /\ UNCHANGED <<peer, fdOf, watchers, clients, pos, online, timers, seen>>
     \/ /\ index = "freed"       \* a rotation around a child that is not there
        /\ AddAccount(u)
        /\ \E f \in Fd : LowestFree(f)
        /\ Die

(* account_db_identify_account: the id of user u, if the password is right. *)
Identify(u, pwRight) == IF pwRight THEN Lookup(u) ELSE {NoId}

(* A variant: the id account_db_identify_account returns is not checked. *)
MayLogInUnchecked(id) == 0 \in FindOnline(id)

(* server_login goes on to server_add_online, which finds no such session. *)
MayLogIn(id) == id # NoId /\ 0 \in FindOnline(id)

(* server_login and server_add_online *)
ReqLogIn(c, u, pwRight) ==
  /\ "REQ_LOG_IN" \in Ops
  /\ Handling(c)
  /\ Reply(c, 0, {})
  /\ \E id \in Identify(u, pwRight) :
       \/ /\ id = NoId \/ FindOnline(id) # {0}
          /\ UNCHANGED online
       \/ /\ MayLogIn(id)
          /\ Len(online) < MaxOnline
          /\ online' = Append(online, [acct |-> id, fd |-> fdOf[c],
                                       live |-> TRUE, conn |-> c])
  /\ UNCHANGED <<netVars, clients, pos, timers, dbVars, got, seen>>

(* A variant: the session is left as it is. *)
KeepOnline(i) == UNCHANGED online

(* destroy_online frees node i and leaves it linked.  Freeing a freed node is
   undefined: malloc aborts, or the call goes on. *)
DestroyOnline(i) == online' = [online EXCEPT ![i].live = FALSE]

(* server_logout and server_delete_online: the node found must have the id and
   this connection's descriptor; a freed node may seem to. *)
ReqLogOut(c, u, pwRight) ==
  LET Own(a) == {i \in FindOnline(a) \ {0} : online[i].live => online[i].fd = fdOf[c]}
  IN  /\ "REQ_LOG_OUT" \in Ops
      /\ Handling(c)
      /\ UNCHANGED <<dbVars, got>>
      /\ \E id \in Identify(u, pwRight) :
         \/ /\ Reply(c, 0, {})
            /\ \/ /\ id # NoId => FindOnline(id) \ Own(id) # {}
                  /\ UNCHANGED online
               \/ /\ id # NoId
                  /\ \E i \in Own(id) : DestroyOnline(i)
            /\ UNCHANGED <<netVars, clients, pos, timers, seen>>
         \/ /\ id # NoId
            /\ \E i \in FindOnline(id) \ {0} : ~online[i].live
            /\ Die

(* account_db_delete_account with the id it found *)
DeleteAccount(id) ==
  \E k \in 1..Len(accounts) :
     /\ accounts[k].id = id
     /\ accounts' = RemoveAt(accounts, k)
     /\ K!Delete(accounts[k].user)

(* server_delete_account: account_db_delete_account, then the session of that
   id, whichever connection holds it. *)
ReqDeleteAccount(c, u, pwRight) ==
  /\ "REQ_DELETE_ACCOUNT" \in Ops
  /\ Handling(c)
  /\ UNCHANGED <<mesgs, got>>
  /\ \E id \in Identify(u, pwRight) :
       \/ /\ id = NoId
          /\ Reply(c, 0, {})
          /\ UNCHANGED <<netVars, clients, pos, online, timers, seen, accounts,
                         index, tree>>
       \/ /\ id # NoId
          /\ \E f \in Fd : LowestFree(f)
          /\ DeleteAccount(id)
          /\ \/ /\ LeakFd
                /\ Reply(c, 0, {})
                /\ \E i \in FindOnline(id) :
                     IF i = 0 THEN UNCHANGED online ELSE DestroyOnline(i)
                /\ UNCHANGED <<peer, fdOf, watchers, clients, pos, timers, seen>>
             \/ /\ \E i \in FindOnline(id) \ {0} : ~online[i].live
                /\ Die
       \/ /\ id # NoId
          /\ index = "freed"        \* a key that was freed is freed again
          /\ Die
          /\ UNCHANGED <<accounts, index, tree>>

(* REQ_LOG_IN_LIST only reads. *)
ReqLogInList(c) ==
  /\ "REQ_LOG_IN_LIST" \in Ops
  /\ Handling(c)
  /\ Reply(c, 0, {})
  /\ UNCHANGED <<netVars, clients, pos, online, timers, dbVars, got, seen>>

-----------------------------------------------------------------------------
(* Delayed messages *)

(* message_db_add_mesg, then looper_add_timer for descriptor f. *)
StoreAndSchedule(c, to, f, goal) ==
  /\ Len(mesgs) < MaxMesg
  /\ mesgs' = Append(mesgs, [from |-> c, to |-> to, goal |-> goal])
  /\ timers' = timers \cup {[mesg |-> Len(mesgs) + 1, fd |-> f,
                             all |-> (to = SndAll), goal |-> goal]}
  /\ LeakFd

(* server_handle_snd_msg_event without a user id *)
SndMsgToAll(c) ==
  /\ "SND_ALL" \in Ops
  /\ Handling(c)
  /\ NoReply(c)
  /\ StoreAndSchedule(c, SndAll, fdOf[c], NoConn)
  /\ UNCHANGED <<peer, fdOf, watchers, clients, pos, online, got, seen, accounts,
                 index, tree>>

(* server_handle_snd_msg_event with a user id: the recipient is the descriptor
   of the online node found; that of a freed node may be anything. *)
SndMsgToOne(c, u) ==
  /\ "SND_ONE" \in Ops
  /\ Handling(c)
  /\ NoReply(c)
  /\ \E id \in Lookup(u) :
       \/ /\ id = NoId \/ 0 \in FindOnline(id)
          /\ UNCHANGED <<mesgs, timers, owner>>
       \/ /\ id # NoId
          /\ \E i \in FindOnline(id) \ {0} :
               IF online[i].live
               THEN StoreAndSchedule(c, u, online[i].fd, online[i].conn)
               ELSE \E f \in Fd \cup {NoFd} : StoreAndSchedule(c, u, f, NoConn)
  /\ UNCHANGED <<peer, fdOf, watchers, clients, pos, online, got, seen, accounts,
                 index, tree>>

(* Variants: the callback returns TRUE, or does so when it finds no client. *)
TimersKept(t) == timers
TimersRetried(t) ==
  IF \A c \in clients : fdOf[c] # t.fd THEN timers ELSE timers \ {t}

(* The callback returns FALSE: looper_timer_dispatch removes the timer. *)
TimersAfter(t) == timers \ {t}

(* A variant: comp_client is not left out. *)
EveryTarget(t, c) == IF t.all THEN clients ELSE {c}

(* The clients a timer whose descriptor belongs to client c writes to. *)
Targets(t, c) == IF t.all THEN clients \ {c} ELSE {c}

(* server_interval_send_packet: the timer's descriptor is looked up in the
   client list when it expires.  Packets go to whatever socket the descriptors
   name now; the first closed one kills the process half way. *)
IntervalSendPacket(t) ==
  /\ srv.at = "loop"
  /\ t \in timers
  /\ UNCHANGED dbVars
  /\ \/ /\ \A c \in clients : fdOf[c] # t.fd
        /\ timers' = TimersAfter(t)
        /\ UNCHANGED <<srv, netVars, clients, pos, mid, online, got, seen>>
     \/ \E c \in clients :
          LET closed == {d \in Targets(t, c) : HungUp(fdOf[d])}
              sent == {owner[fdOf[d]] :
                         d \in {e \in Targets(t, c) : \A x \in closed : e < x}}
          IN  /\ FirstClient(t.fd, c)
              /\ got' = [got EXCEPT ![t.mesg] =
                           [k \in ConnId |-> IF k \in sent THEN @[k] + 1 ELSE @[k]]]
              /\ \/ /\ closed = {}
                    /\ timers' = TimersAfter(t)
                    /\ UNCHANGED <<srv, netVars, clients, pos, mid, online, seen>>
                 \/ /\ closed # {}
                    /\ Die

-----------------------------------------------------------------------------
(* main() again after the process died: the databases are opened anew. *)
Restart ==
  /\ srv.at = "down"
  /\ srv' = Loop
  /\ index' = IF index = "none" /\ accounts = <<>> THEN "none" ELSE "sound"
  /\ tree' = LoadTree(accounts)
  /\ UNCHANGED <<netVars, clients, pos, mid, online, timers, mesgs, accounts, got, seen>>

Request(c) ==
  \/ ReqAllMsg(c)
  \/ \E more \in BOOLEAN : ReqFirstOrLastMsg(c, more)
  \/ NoMessage(c)
  \/ \E u \in Users : ReqMakeAccount(c, u)
  \/ \E u \in Users, pwRight \in BOOLEAN :
        \/ ReqLogIn(c, u, pwRight)
        \/ ReqLogOut(c, u, pwRight)
        \/ ReqDeleteAccount(c, u, pwRight)
  \/ ReqLogInList(c)
  \/ SndMsgToAll(c)
  \/ \E u \in Users : SndMsgToOne(c, u)

Next ==
  \/ \E c \in ConnId :
        \/ HandleAcceptEvent(c)
        \/ PeerClose(c)
        \/ ReadPart(c)
        \/ ReadMore(c)
        \/ DropPacket(c)
        \/ Request(c)
  \/ \E f \in Fd : HandleDisconnectEvent(f)
  \/ SendPacketToClient
  \/ \E t \in timers : IntervalSendPacket(t)
  \/ Restart

Spec == Init /\ [][Next]_vars

(* looper_run calls every expired timer and every ready descriptor once per
   round, and the rounds go on unless a handler blocks in read() or the process
   dies: a step that keeps becoming possible is taken.  The peers need not
   send, complete a packet or close; they are assumed to leave room in their
   socket buffers, so that the server's write() returns. *)
Fairness ==
  /\ WF_vars(SendPacketToClient)
  /\ \A f \in Fd : SF_vars(HandleDisconnectEvent(f))
  /\ \A m \in MesgId :
       SF_vars(\E t \in timers : t.mesg = m /\ IntervalSendPacket(t))

FairSpec == Spec /\ Fairness

-----------------------------------------------------------------------------
(* Properties *)

(* A client record's descriptor is open and is the record's own connection: a
   reply or a push written to Client.fd never reaches somebody else's socket,
   although descriptors are reused and watchers outlive them. *)
ClientTable ==
  \A c \in clients : fdOf[c] \in Fd /\ owner[fdOf[c]] = c

(* A session of the online list whose connection is still there names that
   connection's descriptor: only the end of the connection can redirect it. *)
SessionOwner ==
  \A i \in 1..Len(online) :
     (online[i].live /\ peer[online[i].conn] = "open") =>
        owner[online[i].fd] = online[i].conn

(* An account is online at most once, and only while it is registered: the
   next account that is given a deleted account's id inherits no session.  A
   node that was freed before and is found first keeps the deletion from it. *)
SessionAccount ==
  \A i \in 1..Len(online) : online[i].live =>
     /\ \A j \in 1..Len(online) :
           (online[j].live /\ online[j].acct = online[i].acct) => i = j
     /\ (\A j \in 1..(i - 1) : online[j].live) =>
           \E k \in 1..Len(accounts) : accounts[k].id = online[i].acct

(* test_account_db.c:44-46: adding an account under a user name that is taken
   is refused. *)
UserNamesUnique ==
  \A i, j \in 1..Len(accounts) : accounts[i].user = accounts[j].user => i = j

(* The message db keeps one list: a message is pushed to a connection at most
   once, whatever happened between the timer's start and its expiry. *)
AtMostOnce == \A m \in MesgId, c \in ConnId : got[m][c] <= 1

(* A message to everybody is not pushed back to the connection that sent it,
   although the sender is excluded by descriptor when the timer expires. *)
NoEcho ==
  \A m \in 1..Len(mesgs) : mesgs[m].to = SndAll => got[m][mesgs[m].from] = 0

(* The server implements Delivery: a timer is a pending message. *)
D == INSTANCE Delivery WITH
       Mesg <- MesgId, Conn <- ConnId, Nobody <- NoConn,
       status <- [m \in MesgId |->
                    IF m > Len(mesgs) THEN "unsent"
                    ELSE IF \E t \in timers : t.mesg = m THEN "pending" ELSE "done"],
       barred <- [m \in MesgId |->
                    IF m <= Len(mesgs) /\ mesgs[m].to = SndAll
                    THEN mesgs[m].from ELSE NoConn],
       copies <- got

(* Whatever becomes of descriptors and connections between the moment a message
   is sent and the expiry of its timer, the message is handed out at most once
   and as Delivery promises. *)
DeliverySpec == D!Spec

(* A message to a user reaches another connection than the one that was logged
   in when it was sent only if that one has closed since: the hazard of naming
   the recipient by descriptor is confined to closed connections. *)
DirectDelivery ==
  \A m \in 1..Len(mesgs) :
     (mesgs[m].to # SndAll /\ mesgs[m].goal # NoConn) =>
        \A c \in ConnId :
           (got[m][c] > 0 /\ c # mesgs[m].goal) => peer[mesgs[m].goal] = "closed"

(* The history a client has read is a prefix of the db without holes, and its
   next LAST request starts no further than just behind that prefix: paging
   through the history skips no message, whatever requests came in between. *)
NoGap ==
  \A c \in clients :
     \E k \in 0..Len(mesgs) : seen[c] = 0..(k - 1) /\ pos[c] <= k + 1

(* A LAST request that gets a reply before the cursor reached the end of the db
   is sent at least one message it has not been sent: paging does not stall. *)
NextPageAdvances ==
  [][\A c \in ConnId :
       ( /\ ReqFirstOrLastMsg(c, TRUE) /\ srv'.at = "write"
         /\ pos[c] \in 1..(Len(mesgs) - 1) )
       => srv'.ids \ (0..(pos[c] - 1)) # {}]_vars

(* A connection that is still open loses its client record only when the
   process dies or a descriptor has been used twice: as long as no descriptor
   is reused, one client's disconnect leaves the others alone. *)
DisconnectIsLocal ==
  [][\A c \in clients \ clients' :
       \/ peer[c] = "closed"
       \/ srv'.at = "down"
       \/ \E v, w \in watchers : v # w /\ fdOf[v] = fdOf[w]]_vars

(* A delayed message does not stay pending for ever, unless a handler waits for
   ever in read(): it is pushed, dropped, or lost with the process. *)
TimersExpire ==
  []<>(srv.at = "loop") =>
    \A m \in MesgId :
      (\E t \in timers : t.mesg = m) ~> ~(\E t \in timers : t.mesg = m)

(* The descriptor of a connection that its peer closed is given back, unless a
   handler waits for ever in read(). *)
HangUpsHandled ==
  []<>(srv.at = "loop") =>
    \A f \in Fd : HungUp(f) ~> ~HungUp(f)
=============================================================================
