---------------------------- MODULE Server_proof ----------------------------
(***************************************************************************)
(* Server, for every number of connections, descriptors, messages and      *)
(* users.  First the sockets, sessions and delayed messages: a client      *)
(* record names its own socket although descriptors are reused, sessions   *)
(* and delayed messages are redirected only by the end of the connection   *)
(* they name, a message is pushed at most once and a broadcast is not      *)
(* echoed.  Then what the clients see: the pages of the history join, one  *)
(* client's disconnect leaves the others alone as long as no descriptor    *)
(* was used twice, an account has one session while it is registered, and  *)
(* Server implements Delivery: each step accepts one message, hands one    *)
(* out, ends the process, or concerns no message.                          *)
(***************************************************************************)
EXTENDS Server, SequenceLemmas, WellFoundedInduction

-----------------------------------------------------------------------------
(* The inductive invariant *)

(* A client's descriptor is its own, and a client is still watched: that is
   why the hang-up of a descriptor also finds the record to remove. *)
Sockets == clients \subseteq watchers /\ ClientTable

Sessions ==
  /\ SessionOwner
  /\ \A i \in 1..Len(online) : peer[online[i].conn] # "none"

(* What a timer's UserData says agrees with the message it is for, and nobody
   was pushed that message yet. *)
PendingTimer(t) ==
  /\ t.mesg <= Len(mesgs)
  /\ t.all <=> mesgs[t.mesg].to = SndAll
  /\ t.goal = mesgs[t.mesg].goal
  /\ t.all => t.fd = fdOf[mesgs[t.mesg].from]
  /\ (~t.all /\ t.goal # NoConn) =>
        t.fd \in Fd /\ (peer[t.goal] = "open" => owner[t.fd] = t.goal)
  /\ \A c \in ConnId : got[t.mesg][c] = 0

Pending ==
  /\ \A t \in timers : PendingTimer(t)
  /\ \A s, t \in timers : s.mesg = t.mesg => s = t

(* Messages name connections that exist, and only stored ones were pushed. *)
History ==
  /\ \A m \in 1..Len(mesgs) :
        /\ peer[mesgs[m].from] # "none"
        /\ mesgs[m].goal # NoConn => peer[mesgs[m].goal] # "none"
  /\ \A m \in MesgId : m > Len(mesgs) => \A c \in ConnId : got[m][c] = 0
  /\ AtMostOnce
  /\ NoEcho
  /\ DirectDelivery

IInv == TypeOK /\ Sockets /\ Sessions /\ Pending /\ History

-----------------------------------------------------------------------------
(* Types of the elements, and of what the helpers return *)

(* An element of a list that TypeOK types has the element's type. *)
LEMMA ElementTypes ==
  ASSUME TypeOK
  PROVE  /\ \A i \in 1..Len(online) :
               /\ online[i] \in Online
               /\ online[i].fd \in Fd /\ online[i].conn \in ConnId
         /\ \A m \in 1..Len(mesgs) :
               /\ m \in MesgId
               /\ mesgs[m].from \in ConnId
               /\ mesgs[m].goal \in ConnId \cup {NoConn}
               /\ mesgs[m].to \in Users \cup {SndAll}
         /\ \A t \in timers :
               /\ t.mesg \in MesgId
               /\ t.fd \in Fd \cup {NoFd} /\ t.goal \in ConnId \cup {NoConn}
               /\ t.all \in BOOLEAN
         /\ \A k \in 1..Len(accounts) : accounts[k].id \in AcctId
<1>1. \A i \in 1..Len(online) : online[i] \in Online
  BY DEF TypeOK
<1>2. \A m \in 1..Len(mesgs) : mesgs[m] \in Mesg /\ m \in MesgId
  BY BoundsAssumption DEF TypeOK, MesgId
<1>3. \A k \in 1..Len(accounts) : accounts[k] \in Account
  BY DEF TypeOK
<1>4. \A o \in Online : o.fd \in Fd /\ o.conn \in ConnId
  BY DEF Online
<1>5. \A m \in Mesg : /\ m.from \in ConnId /\ m.goal \in ConnId \cup {NoConn}
                      /\ m.to \in Users \cup {SndAll}
  BY DEF Mesg
<1>6. \A t \in Timer : /\ t.mesg \in MesgId /\ t.fd \in Fd \cup {NoFd}
                       /\ t.goal \in ConnId \cup {NoConn} /\ t.all \in BOOLEAN
  BY DEF Timer
<1>7. \A a \in Account : a.id \in AcctId
  BY DEF Account
<1>8. timers \subseteq Timer
  BY DEF TypeOK
<1> QED
  BY <1>1, <1>2, <1>3, <1>4, <1>5, <1>6, <1>7, <1>8

(* A set of naturals that is not empty has a least element. *)
LEMMA LeastNat ==
  ASSUME NEW T \in SUBSET Nat, T # {}
  PROVE  \E x \in T : \A y \in T : ~(y < x)
<1>1. \E x \in T : \A y \in T : ~(<<y, x>> \in OpToRel(<, Nat))
  BY NatLessThanWellFounded, WFMin
<1> QED
  BY <1>1 DEF OpToRel

(* The keyword tree maps every user to an account id or to none. *)
LEMMA LoadTreeType ==
  ASSUME NEW accs \in Seq(Account)
  PROVE  LoadTree(accs) \in [Users -> AcctId \cup {NoId}]
<1>1. ASSUME NEW u \in Users, \E i \in 1..Len(accs) : accs[i].user = u
      PROVE  \E i \in 1..Len(accs) :
               accs[i].user = u /\ \A j \in 1..(i - 1) : accs[j].user # u
  <2> DEFINE T == {i \in 1..Len(accs) : accs[i].user = u}
  <2>1. PICK x \in T : \A y \in T : ~(y < x)
    <3>1. T \in SUBSET Nat /\ T # {}
      BY <1>1
    <3> HIDE DEF T
    <3> QED
      BY <3>1, LeastNat
  <2> QED
    BY <2>1
<1>2. \A i \in 1..Len(accs) : accs[i].id \in AcctId
  <2>1. \A i \in 1..Len(accs) : accs[i] \in Account
    OBVIOUS
  <2> QED
    BY <2>1 DEF Account
<1> QED
  BY <1>1, <1>2 DEF LoadTree

(* A store leaves every socket's descriptor alone. *)
LEMMA LeakFdKeeps ==
  ASSUME TypeOK, LeakFd
  PROVE  /\ owner' \in [Fd -> ConnId \cup {NoConn, Leaked}]
         /\ \A g \in Fd : owner[g] \in ConnId => owner'[g] = owner[g]
BY DEF TypeOK, LeakFd, LowestFree, ConnId, NoConn, Leaked

(* A client whose packet is handled, and the type of what is done with it. *)
LEMMA HandlingFacts ==
  ASSUME TypeOK, NEW c \in ConnId, Handling(c)
  PROVE  /\ c \in clients /\ peer[c] = "open"
         /\ owner[fdOf[c]] = c
BY DEF Handling

(* The states the server thread and the readers may be left in by a handler. *)
LEMMA ReplyType ==
  ASSUME TypeOK, NEW c \in ConnId, NEW p \in Nat, NEW ids \in SUBSET Nat,
         Reply(c, p, ids) \/ NoReply(c)
  PROVE  /\ srv' \in [at : {"loop", "read", "write", "down"},
                      conn : ConnId \cup {NoConn}, pos : Nat, ids : SUBSET Nat]
         /\ mid' \subseteq ConnId
BY DEF TypeOK, Reply, NoReply, SrvAt, Loop

-----------------------------------------------------------------------------
(* Initially the invariant holds. *)
LEMMA InitIInv == Init => IInv
<1> SUFFICES ASSUME Init PROVE IInv
  OBVIOUS
<1>1. TypeOK
  <2>1. InitEntries \in Seq(Account)
    <3>1. \A i \in 1..Len(InitAccounts) : [id |-> i - 1, user |-> InitAccounts[i]] \in Account
      BY BoundsAssumption, NamesAssumption DEF Account, AcctId
    <3> QED
      BY <3>1, NamesAssumption DEF InitEntries
  <2>2. tree \in [Users -> AcctId \cup {NoId}]
    BY <2>1, LoadTreeType DEF Init
  <2>3. srv \in [at : {"loop", "read", "write", "down"},
                 conn : ConnId \cup {NoConn}, pos : Nat, ids : SUBSET Nat]
    BY DEF Init, Loop, SrvAt
  <2>4. got \in [MesgId -> [ConnId -> Nat]]
    BY DEF Init, NoMesgs
  <2> QED
    BY <2>1, <2>2, <2>3, <2>4, BoundsAssumption DEF Init, TypeOK
<1>2. Sockets
  BY DEF Init, Sockets, ClientTable
<1>3. Sessions
  BY DEF Init, Sessions, SessionOwner
<1>4. Pending
  BY DEF Init, Pending
<1>5. History
  BY BoundsAssumption
     DEF Init, History, AtMostOnce, NoEcho, DirectDelivery, NoMesgs, MesgId
<1> QED
  BY <1>1, <1>2, <1>3, <1>4, <1>5 DEF IInv

(* What a step that concerns neither sockets nor sessions nor messages keeps. *)
LEMMA Frame ==
  ASSUME IInv,
         UNCHANGED <<peer, owner, fdOf, watchers, clients, online, timers, mesgs, got>>
  PROVE  Sockets' /\ Sessions' /\ Pending' /\ History'
BY DEF IInv, Sockets, ClientTable, Sessions, SessionOwner, Pending,
       PendingTimer, History, AtMostOnce, NoEcho, DirectDelivery

(* A step that at most leaves a descriptor open and frees sessions. *)
LEMMA FrameSessions ==
  ASSUME IInv, LeakFd \/ UNCHANGED owner, UNCHANGED peer,
         Len(online') = Len(online),
         \A j \in 1..Len(online) :
            /\ online'[j].fd = online[j].fd /\ online'[j].conn = online[j].conn
            /\ online'[j].live => online[j].live
  PROVE  Sessions'
<1>1. \A g \in Fd : owner[g] \in ConnId => owner'[g] = owner[g]
  BY LeakFdKeeps DEF IInv
<1> SUFFICES ASSUME NEW i \in 1..Len(online)
             PROVE  /\ peer[online'[i].conn] # "none"
                    /\ (online'[i].live /\ peer[online'[i].conn] = "open") =>
                          owner'[online'[i].fd] = online'[i].conn
  BY DEF Sessions, SessionOwner
<1> QED
  BY <1>1, ElementTypes DEF IInv, Sessions, SessionOwner

(* The same for everything else that names descriptors. *)
LEMMA FrameLeak ==
  ASSUME IInv, LeakFd \/ UNCHANGED owner,
         UNCHANGED <<peer, fdOf, watchers, clients, timers, mesgs, got>>
  PROVE  Sockets' /\ Pending' /\ History'
<1>1. \A g \in Fd : owner[g] \in ConnId => owner'[g] = owner[g]
  BY LeakFdKeeps DEF IInv
<1>2. Sockets'
  BY <1>1 DEF IInv, TypeOK, Sockets, ClientTable
<1>3. Pending'
  <2> SUFFICES ASSUME NEW t \in timers
               PROVE  PendingTimer(t)'
    BY DEF IInv, Pending
  <2>1. PendingTimer(t) /\ t.fd \in Fd \cup {NoFd} /\ t.goal \in ConnId \cup {NoConn}
    BY ElementTypes DEF IInv, Pending
  <2>2. (~t.all /\ t.goal # NoConn) =>
           t.fd \in Fd /\ (peer[t.goal] = "open" => owner'[t.fd] = t.goal)
    BY <1>1, <2>1 DEF PendingTimer
  <2> QED
    BY <2>1, <2>2 DEF PendingTimer
<1>4. History'
  BY DEF IInv, History, AtMostOnce, NoEcho, DirectDelivery
<1> QED
  BY <1>2, <1>3, <1>4

(* When the process dies, what was pushed until then stays as it is. *)
LEMMA DieKeeps ==
  ASSUME IInv, Die, mesgs' = mesgs,
         AtMostOnce', NoEcho', DirectDelivery',
         \A m \in MesgId : m > Len(mesgs) => got'[m] = got[m],
         mesgs' \in Seq(Mesg), got' \in [MesgId -> [ConnId -> Nat]],
         accounts' \in Seq(Account), index' \in {"none", "sound", "freed"},
         tree' \in [Users -> AcctId \cup {NoId}]
  PROVE  IInv'
<1>1. TypeOK'
  <2>1. srv' \in [at : {"loop", "read", "write", "down"},
                  conn : ConnId \cup {NoConn}, pos : Nat, ids : SUBSET Nat]
    BY DEF Die, Down, SrvAt
  <2> QED
    BY <2>1 DEF IInv, TypeOK, Die
<1>2. Sockets' /\ Sessions' /\ Pending'
  BY DEF Die, Sockets, ClientTable, Sessions, SessionOwner, Pending
<1>3. History'
  <2>1. \A c \in ConnId : peer'[c] = "none" <=> peer[c] = "none"
    BY DEF IInv, TypeOK, Die
  <2>2. ASSUME NEW m \in 1..Len(mesgs)
        PROVE  /\ peer'[mesgs[m].from] # "none"
               /\ mesgs[m].goal # NoConn => peer'[mesgs[m].goal] # "none"
    BY <2>1, ElementTypes DEF IInv, History
  <2> QED
    BY <2>2 DEF IInv, History
<1> QED
  BY <1>1, <1>2, <1>3 DEF IInv

(* The same when nothing was pushed on the way. *)
LEMMA DieQuietly ==
  ASSUME IInv, Die, UNCHANGED <<mesgs, got>>,
         accounts' \in Seq(Account), index' \in {"none", "sound", "freed"},
         tree' \in [Users -> AcctId \cup {NoId}]
  PROVE  IInv'
<1>1. AtMostOnce' /\ NoEcho'
  BY DEF IInv, History, AtMostOnce, NoEcho
<1>2. DirectDelivery'
  <2>1. \A c \in ConnId : peer[c] = "closed" => peer'[c] = "closed"
    BY DEF IInv, TypeOK, Die
  <2> QED
    BY <2>1, ElementTypes DEF IInv, History, DirectDelivery
<1> QED
  BY <1>1, <1>2, DieKeeps DEF IInv, TypeOK

-----------------------------------------------------------------------------
(* Every step keeps the invariant: connections, *)
LEMMA AcceptStep ==
  ASSUME IInv, NEW c \in ConnId, HandleAcceptEvent(c)
  PROVE  IInv'
<1>1. PICK f \in Fd : /\ owner[f] = NoConn
                      /\ owner' = [owner EXCEPT ![f] = c]
                      /\ fdOf' = [fdOf EXCEPT ![c] = f]
  BY DEF HandleAcceptEvent, LowestFree
<1>2. /\ peer[c] = "none"
      /\ peer' = [peer EXCEPT ![c] = "open"]
      /\ watchers' = watchers \cup {c} /\ clients' = clients \cup {c}
      /\ UNCHANGED <<online, timers, mesgs, got>>
  BY DEF HandleAcceptEvent, dbVars
<1>3. /\ \A g \in Fd : owner[g] \in ConnId => owner'[g] = owner[g]
      /\ \A d \in ConnId : d # c => peer'[d] = peer[d] /\ fdOf'[d] = fdOf[d]
      /\ peer'[c] = "open" /\ fdOf'[c] = f /\ owner'[f] = c
  BY <1>1, <1>2 DEF IInv, TypeOK, ConnId, NoConn
<1>4. TypeOK'
  BY <1>1, <1>2 DEF IInv, TypeOK, HandleAcceptEvent, dbVars
<1>5. Sockets'
  BY <1>2, <1>3 DEF IInv, TypeOK, Sockets, ClientTable
<1>6. Sessions'
  <2> SUFFICES ASSUME NEW i \in 1..Len(online)
               PROVE  /\ peer'[online[i].conn] # "none"
                      /\ (online[i].live /\ peer'[online[i].conn] = "open") =>
                           owner'[online[i].fd] = online[i].conn
    BY <1>2 DEF Sessions, SessionOwner
  <2>1. online[i].conn # c /\ online[i].conn \in ConnId /\ online[i].fd \in Fd
    BY <1>2, ElementTypes DEF IInv, Sessions
  <2> QED
    BY <1>3, <2>1 DEF IInv, Sessions, SessionOwner
<1>7. Pending'
  <2> SUFFICES ASSUME NEW t \in timers
               PROVE  PendingTimer(t)'
    BY <1>2 DEF IInv, Pending
  <2>1. PendingTimer(t) /\ t.mesg \in 1..Len(mesgs) /\ t.goal \in ConnId \cup {NoConn}
    BY ElementTypes DEF IInv, TypeOK, Pending, PendingTimer, MesgId
  <2>2. mesgs[t.mesg].from # c /\ mesgs[t.mesg].from \in ConnId
    BY <1>2, <2>1, ElementTypes DEF IInv, History
  <2>3. t.goal # NoConn => t.goal # c
    BY <1>2, <2>1 DEF IInv, History, PendingTimer
  <2> QED
    BY <1>2, <1>3, <2>1, <2>2, <2>3 DEF PendingTimer
<1>8. History'
  <2>1. ASSUME NEW m \in 1..Len(mesgs)
        PROVE  /\ peer'[mesgs[m].from] = peer[mesgs[m].from]
               /\ mesgs[m].goal # NoConn => peer'[mesgs[m].goal] = peer[mesgs[m].goal]
    BY <1>2, <1>3, ElementTypes DEF IInv, History
  <2> QED
    BY <1>2, <2>1 DEF IInv, History, AtMostOnce, NoEcho, DirectDelivery
<1> QED
  BY <1>4, <1>5, <1>6, <1>7, <1>8 DEF IInv

(* a peer that closes its end, *)
LEMMA PeerCloseStep ==
  ASSUME IInv, NEW c \in ConnId, PeerClose(c)
  PROVE  IInv'
<1>1. /\ peer[c] = "open" /\ peer' = [peer EXCEPT ![c] = "closed"]
      /\ UNCHANGED <<owner, fdOf, watchers, clients, online, timers, mesgs, got>>
  BY DEF PeerClose, dbVars
<1>2. \A d \in ConnId : /\ peer'[d] = "open" => peer[d] = "open"
                        /\ peer'[d] = "none" => peer[d] = "none"
                        /\ peer[d] = "closed" => peer'[d] = "closed"
  BY <1>1 DEF IInv, TypeOK
<1>3. TypeOK'
  BY DEF IInv, TypeOK, PeerClose, dbVars, Loop, SrvAt
<1>4. Sockets'
  BY <1>1 DEF IInv, Sockets, ClientTable
<1>5. Sessions'
  BY <1>1, <1>2, ElementTypes DEF IInv, Sessions, SessionOwner
<1>6. Pending'
  <2> SUFFICES ASSUME NEW t \in timers
               PROVE  PendingTimer(t)'
    BY <1>1 DEF IInv, Pending
  <2>1. PendingTimer(t) /\ t.goal \in ConnId \cup {NoConn}
    BY ElementTypes DEF IInv, Pending
  <2> QED
    BY <1>1, <1>2, <2>1 DEF PendingTimer
<1>7. History'
  <2>1. ASSUME NEW m \in 1..Len(mesgs)
        PROVE  /\ peer'[mesgs[m].from] # "none"
               /\ mesgs[m].goal # NoConn =>
                    /\ peer'[mesgs[m].goal] # "none"
                    /\ peer[mesgs[m].goal] = "closed" => peer'[mesgs[m].goal] = "closed"
    BY <1>2, ElementTypes DEF IInv, History
  <2> QED
    BY <1>1, <2>1 DEF IInv, History, AtMostOnce, NoEcho, DirectDelivery
<1> QED
  BY <1>3, <1>4, <1>5, <1>6, <1>7 DEF IInv

(* the hang-up of a descriptor, given to all of its watchers, *)
LEMMA DisconnectStep ==
  ASSUME IInv, NEW f \in Fd, HandleDisconnectEvent(f)
  PROVE  IInv'
<1>1. /\ owner[f] \in ConnId /\ peer[owner[f]] = "closed"
      /\ clients' = RemoveClients({w \in watchers : fdOf[w] = f})
      /\ owner' = [owner EXCEPT ![f] = NoConn]
      /\ UNCHANGED <<peer, fdOf, watchers, online, timers, mesgs, got>>
  BY DEF HandleDisconnectEvent, HungUp, Release, dbVars
<1>2. \A g \in Fd : g # f => owner'[g] = owner[g]
  BY <1>1 DEF IInv, TypeOK
<1>3. \A g \in Fd, d \in ConnId :
        (owner[g] = d /\ peer[d] = "open") => owner'[g] = d
  BY <1>1, <1>2
<1>4. clients' \subseteq clients /\ \A c \in clients' : fdOf[c] # f
  BY <1>1 DEF IInv, Sockets, RemoveClients
<1>5. TypeOK'
  <2>1. pos' \in [ConnId -> Nat] /\ seen' \in [ConnId -> SUBSET Nat]
    BY DEF IInv, TypeOK, HandleDisconnectEvent
  <2> QED
    BY <1>1, <1>4, <2>1 DEF IInv, TypeOK, HandleDisconnectEvent, dbVars
<1>6. Sockets'
  BY <1>1, <1>2, <1>4 DEF IInv, TypeOK, Sockets, ClientTable
<1>7. Sessions'
  BY <1>1, <1>3, ElementTypes DEF IInv, Sessions, SessionOwner
<1>8. Pending'
  <2> SUFFICES ASSUME NEW t \in timers
               PROVE  PendingTimer(t)'
    BY <1>1 DEF IInv, Pending
  <2>1. PendingTimer(t) /\ t.goal \in ConnId \cup {NoConn}
    BY ElementTypes DEF IInv, Pending
  <2> QED
    BY <1>1, <1>3, <2>1 DEF PendingTimer
<1>9. History'
  BY <1>1 DEF IInv, History, AtMostOnce, NoEcho, DirectDelivery
<1> QED
  BY <1>5, <1>6, <1>7, <1>8, <1>9 DEF IInv

(* reading packets and the history, *)
LEMMA ReadStep ==
  ASSUME IInv, NEW c \in ConnId,
         ReadPart(c) \/ ReadMore(c) \/ DropPacket(c) \/ NoMessage(c) \/ ReqLogInList(c)
  PROVE  IInv'
<1>1. /\ srv' \in [at : {"loop", "read", "write", "down"},
                   conn : ConnId \cup {NoConn}, pos : Nat, ids : SUBSET Nat]
      /\ mid' \subseteq ConnId
  BY ReplyType
     DEF IInv, TypeOK, ReadPart, ReadMore, DropPacket, NoMessage, ReqLogInList,
         Reply, NoReply, SrvAt, Loop
<1>2. UNCHANGED <<netVars, clients, pos, online, timers, dbVars, got, seen>>
  BY DEF ReadPart, ReadMore, DropPacket, NoMessage, ReqLogInList
<1>3. TypeOK'
  BY <1>1, <1>2 DEF IInv, TypeOK, netVars, dbVars
<1> QED
  BY <1>2, <1>3, Frame DEF IInv, netVars, dbVars

(* writing a reply, *)
LEMMA SendPacketStep ==
  ASSUME IInv, SendPacketToClient
  PROVE  IInv'
<1>1. CASE Die
  BY <1>1, DieQuietly DEF IInv, TypeOK, SendPacketToClient, dbVars
<1>2. CASE ~Die
  <2>1. /\ srv' = Loop
        /\ pos' = [pos EXCEPT ![srv.conn] = srv.pos]
        /\ seen' = [seen EXCEPT ![srv.conn] = @ \cup srv.ids]
        /\ UNCHANGED <<netVars, clients, mid, online, timers, dbVars, got>>
    BY <1>2 DEF SendPacketToClient
  <2>2. srv.pos \in Nat /\ srv.ids \in SUBSET Nat
    BY DEF IInv, TypeOK
  <2>3. pos' \in [ConnId -> Nat] /\ seen' \in [ConnId -> SUBSET Nat]
    BY <2>1, <2>2 DEF IInv, TypeOK
  <2>4. TypeOK'
    BY <2>1, <2>3 DEF IInv, TypeOK, netVars, dbVars, Loop, SrvAt
  <2> QED
    BY <2>1, <2>4, Frame DEF IInv, netVars, dbVars
<1> QED
  BY <1>1, <1>2

(* a reply given up because of its garbage size, *)
LEMMA SizeGarbageStep ==
  ASSUME IInv, NEW c \in ConnId, SizeGarbage(c)
  PROVE  IInv'
<1>1. CASE Die
  BY <1>1, DieQuietly DEF IInv, TypeOK, SizeGarbage, dbVars
<1>2. CASE ~Die
  <2>1. /\ NoReply(c)
        /\ UNCHANGED <<netVars, clients, pos, online, timers, seen, dbVars, got>>
    BY <1>2 DEF SizeGarbage
  <2>2. TypeOK'
    BY <2>1, ReplyType DEF IInv, TypeOK, netVars, dbVars
  <2> QED
    BY <2>1, <2>2, Frame DEF IInv, netVars, dbVars
<1> QED
  BY <1>1, <1>2

(* any request that only reads, *)
LEMMA ReplyStep ==
  ASSUME IInv, NEW c \in ConnId, NEW p \in Nat, NEW ids \in SUBSET Nat,
         Reply(c, p, ids) \/ NoReply(c),
         UNCHANGED <<netVars, clients, pos, online, timers, dbVars, got, seen>>
  PROVE  IInv'
<1>1. TypeOK'
  BY ReplyType DEF IInv, TypeOK, netVars, dbVars
<1> QED
  BY <1>1, Frame DEF IInv, netVars, dbVars

(* the whole history, *)
LEMMA ReqAllMsgStep ==
  ASSUME IInv, NEW c \in ConnId, ReqAllMsg(c)
  PROVE  IInv'
<1>1. Len(mesgs) \in Nat /\ 0..(Len(mesgs) - 1) \in SUBSET Nat
  BY DEF IInv, TypeOK
<1> QED
  BY <1>1, ReplyStep, SizeGarbageStep DEF ReqAllMsg

(* a page of it, *)
LEMMA ReqFirstOrLastMsgStep ==
  ASSUME IInv, NEW c \in ConnId, NEW more \in BOOLEAN, ReqFirstOrLastMsg(c, more)
  PROVE  IInv'
<1> DEFINE p == IF more THEN pos[c] ELSE 1
<1>1. p \in Nat /\ Len(mesgs) \in Nat /\ Len(mesgs) > 0
  BY DEF IInv, TypeOK, ReqFirstOrLastMsg
<1>2. CASE SizeGarbage(c)
  BY <1>2, SizeGarbageStep
<1>3. CASE ~SizeGarbage(c)
  <2>1. \/ FirstId(p) <= LastId(p) /\ Reply(c, NextPos(p), FirstId(p)..LastId(p))
        \/ NoReply(c)
    BY <1>3 DEF ReqFirstOrLastMsg
  <2>2. UNCHANGED <<netVars, clients, pos, online, timers, dbVars, got, seen>>
    BY <1>3 DEF ReqFirstOrLastMsg
  <2> HIDE DEF p
  <2>3. FirstId(p) \in Nat /\ LastId(p) \in Int
    BY <1>1, BoundsAssumption DEF FirstId, LastId, ReadCount
  <2>4. CASE FirstId(p) <= LastId(p) /\ Reply(c, NextPos(p), FirstId(p)..LastId(p))
    <3>1. FirstId(p)..LastId(p) \in SUBSET Nat
      BY <2>3
    <3>2. NextPos(p) \in Nat
      BY <1>1, <2>3, <2>4 DEF NextPos
    <3> QED
      BY <2>2, <2>4, <3>1, <3>2, ReplyStep
  <2>5. CASE NoReply(c)
    BY <2>2, <2>5, ReplyStep
  <2> QED
    BY <2>1, <2>4, <2>5
<1> QED
  BY <1>2, <1>3

(* The account db's list and tree keep their types when an account is added *)
LEMMA AddAccountKeeps ==
  ASSUME TypeOK, NEW u \in Users, AddAccount(u)
  PROVE  /\ accounts' \in Seq(Account)
         /\ index' \in {"none", "sound", "freed"}
         /\ tree' \in [Users -> AcctId \cup {NoId}]
<1>1. NextAccount \in AcctId /\ [id |-> NextAccount, user |-> u] \in Account
  BY DEF AddAccount, Account
<1>2. accounts' \in Seq(Account)
  BY <1>1 DEF AddAccount, TypeOK
<1>3. /\ index' = index
      /\ tree' = tree \/ tree' = [tree EXCEPT ![u] = NextAccount]
  BY DEF AddAccount, K!Insert
<1> QED
  BY <1>1, <1>2, <1>3 DEF TypeOK

(* or deleted. *)
LEMMA DeleteAccountKeeps ==
  ASSUME TypeOK, NEW id, DeleteAccount(id)
  PROVE  /\ accounts' \in Seq(Account)
         /\ index' \in {"none", "sound", "freed"}
         /\ tree' \in [Users -> AcctId \cup {NoId}]
<1>1. PICK k \in 1..Len(accounts) : /\ accounts' = RemoveAt(accounts, k)
                                    /\ K!Delete(accounts[k].user)
  BY DEF DeleteAccount
<1>2. accounts' \in Seq(Account)
  BY <1>1, RemoveAtProperties DEF TypeOK
<1> DEFINE u == accounts[k].user
<1>3. CASE K!DeleteSound(u)
  <2>1. PICK lost \in SUBSET (Users \ {u}) :
          tree' = [v \in Users |-> IF v \in lost \cup {u} THEN NoId ELSE tree[v]]
    BY <1>3 DEF K!DeleteSound
  <2> QED
    BY <1>2, <1>3, <2>1 DEF TypeOK, K!DeleteSound
<1>4. CASE K!DeleteFreeing(u)
  BY <1>2, <1>4 DEF K!DeleteFreeing, K!Empty
<1>5. CASE UNCHANGED <<index, tree>>
  BY <1>2, <1>5 DEF TypeOK
<1> QED
  BY <1>1, <1>3, <1>4, <1>5 DEF K!Delete, K!vars

(* accounts and sessions, *)
LEMMA ReqMakeAccountStep ==
  ASSUME IInv, NEW c \in ConnId, NEW u \in Users, ReqMakeAccount(c, u)
  PROVE  IInv'
<1>1. UNCHANGED <<mesgs, got>>
  BY DEF ReqMakeAccount
<1>2. CASE /\ NoReply(c)
           /\ UNCHANGED <<netVars, clients, pos, online, timers, seen, accounts,
                          index, tree>>
  BY <1>1, <1>2, ReplyStep DEF dbVars
<1>3. CASE /\ AddAccount(u) /\ LeakFd /\ Reply(c, 0, {})
           /\ UNCHANGED <<peer, fdOf, watchers, clients, pos, online, timers, seen>>
  <2>1. owner' \in [Fd -> ConnId \cup {NoConn, Leaked}]
    BY <1>3, LeakFdKeeps DEF IInv
  <2>2. TypeOK'
    BY <1>1, <1>3, <2>1, AddAccountKeeps, ReplyType DEF IInv, TypeOK
  <2> QED
    BY <1>1, <1>3, <2>2, FrameLeak, FrameSessions DEF IInv
<1>4. CASE AddAccount(u) /\ Die
  BY <1>1, <1>4, AddAccountKeeps, DieQuietly DEF IInv
<1> QED
  BY <1>2, <1>3, <1>4 DEF ReqMakeAccount

(* The sessions that are left when nodes are freed or stay. *)
LEMMA OnlineKeeps ==
  ASSUME IInv, NEW i \in 1..Len(online), DestroyOnline(i) \/ UNCHANGED online
  PROVE  /\ online' \in Seq(Online)
         /\ Len(online') = Len(online)
         /\ \A j \in 1..Len(online) :
               /\ online'[j].fd = online[j].fd /\ online'[j].conn = online[j].conn
               /\ online'[j].live => online[j].live
<1>1. CASE UNCHANGED online
  BY <1>1 DEF IInv, TypeOK
<1>2. CASE DestroyOnline(i)
  <2>1. ASSUME NEW o \in Online
        PROVE  /\ [o EXCEPT !.live = FALSE] \in Online
               /\ [o EXCEPT !.live = FALSE].fd = o.fd
               /\ [o EXCEPT !.live = FALSE].conn = o.conn
               /\ ~[o EXCEPT !.live = FALSE].live
    BY DEF Online
  <2> DEFINE x == [online[i] EXCEPT !.live = FALSE]
  <2>2. x \in Online /\ x.fd = online[i].fd /\ x.conn = online[i].conn /\ ~x.live
    BY <2>1, ElementTypes DEF IInv
  <2>3. online' = [online EXCEPT ![i] = x]
    BY <1>2 DEF DestroyOnline
  <2> HIDE DEF x
  <2> QED
    BY <2>2, <2>3, ReplaceElement DEF IInv, TypeOK
<1> QED
  BY <1>1, <1>2

(* logging in, *)
LEMMA ReqLogInStep ==
  ASSUME IInv, NEW c \in ConnId, NEW u \in Users, NEW pwRight \in BOOLEAN,
         ReqLogIn(c, u, pwRight)
  PROVE  IInv'
<1>1. /\ UNCHANGED <<netVars, clients, pos, timers, dbVars, got, seen>>
      /\ Reply(c, 0, {}) /\ Handling(c)
  BY DEF ReqLogIn
<1>2. CASE UNCHANGED online
  BY <1>1, <1>2, ReplyStep
<1>3. CASE ~UNCHANGED online
  <2>1. PICK id \in Identify(u, pwRight) :
          /\ id # NoId
          /\ online' = Append(online, [acct |-> id, fd |-> fdOf[c],
                                       live |-> TRUE, conn |-> c])
    BY <1>3 DEF ReqLogIn, MayLogIn
  <2> DEFINE x == [acct |-> id, fd |-> fdOf[c], live |-> TRUE, conn |-> c]
  <2>8. online' = Append(online, x)
    BY <2>1
  <2>2. /\ c \in clients /\ peer[c] = "open"
        /\ fdOf[c] \in Fd /\ owner[fdOf[c]] = c
    BY <1>1, HandlingFacts DEF IInv, Sockets, ClientTable
  <2>3. id \in AcctId
    BY <2>1 DEF IInv, TypeOK, Identify, Lookup
  <2>4. x \in Online /\ x.fd = fdOf[c] /\ x.conn = c
    BY <2>2, <2>3 DEF Online
  <2> HIDE DEF x
  <2>5. /\ online' \in Seq(Online) /\ Len(online') = Len(online) + 1
        /\ online'[Len(online) + 1] = x
        /\ \A i \in 1..Len(online) : online'[i] = online[i]
    BY <2>8, <2>4 DEF IInv, TypeOK
  <2>6. TypeOK'
    BY <1>1, <2>5, ReplyType DEF IInv, TypeOK, netVars, dbVars
  <2>7. Sessions'
    <3> SUFFICES ASSUME NEW i \in 1..Len(online')
                 PROVE  /\ peer[online'[i].conn] # "none"
                        /\ (online'[i].live /\ peer[online'[i].conn] = "open") =>
                              owner[online'[i].fd] = online'[i].conn
      BY <1>1 DEF Sessions, SessionOwner, netVars
    <3>1. CASE i = Len(online) + 1
      BY <2>2, <2>4, <2>5, <3>1
    <3>2. CASE i \in 1..Len(online)
      BY <2>5, <3>2 DEF IInv, Sessions, SessionOwner
    <3> QED
      BY <2>5, <3>1, <3>2 DEF IInv, TypeOK
  <2> QED
    BY <1>1, <2>6, <2>7, FrameLeak DEF IInv, netVars, dbVars
<1> QED
  BY <1>2, <1>3

(* logging out, *)
LEMMA ReqLogOutStep ==
  ASSUME IInv, NEW c \in ConnId, NEW u \in Users, NEW pwRight \in BOOLEAN,
         ReqLogOut(c, u, pwRight)
  PROVE  IInv'
<1>1. UNCHANGED <<dbVars, got>>
  BY DEF ReqLogOut
<1>2. CASE Die
  BY <1>1, <1>2, DieQuietly DEF IInv, TypeOK, dbVars
<1>3. CASE ~Die
  <2>1. /\ Reply(c, 0, {})
        /\ UNCHANGED <<netVars, clients, pos, timers, seen>>
        /\ UNCHANGED online \/ \E i \in 1..Len(online) : DestroyOnline(i)
    BY <1>3 DEF ReqLogOut, FindOnline
  <2>2. CASE UNCHANGED online
    BY <1>1, <2>1, <2>2, ReplyStep
  <2>3. ASSUME NEW i \in 1..Len(online), DestroyOnline(i)
        PROVE  IInv'
    <3>1. TypeOK'
      BY <1>1, <2>1, <2>3, OnlineKeeps, ReplyType
         DEF IInv, TypeOK, netVars, dbVars
    <3>2. Sessions'
      BY <2>1, <2>3, OnlineKeeps, FrameSessions DEF netVars
    <3> QED
      BY <1>1, <2>1, <3>1, <3>2, FrameLeak DEF IInv, netVars, dbVars
  <2> QED
    BY <2>1, <2>2, <2>3
<1> QED
  BY <1>2, <1>3

(* deleting an account with its session, *)
LEMMA ReqDeleteAccountStep ==
  ASSUME IInv, NEW c \in ConnId, NEW u \in Users, NEW pwRight \in BOOLEAN,
         ReqDeleteAccount(c, u, pwRight)
  PROVE  IInv'
<1>1. UNCHANGED <<mesgs, got>>
  BY DEF ReqDeleteAccount
<1>2. CASE /\ Reply(c, 0, {})
           /\ UNCHANGED <<netVars, clients, pos, online, timers, seen, accounts,
                          index, tree>>
  BY <1>1, <1>2, ReplyStep DEF dbVars
<1>3. CASE Die /\ UNCHANGED <<accounts, index, tree>>
  BY <1>1, <1>3, DieQuietly DEF IInv, TypeOK
<1>4. ASSUME NEW id \in Identify(u, pwRight), DeleteAccount(id),
             \/ /\ LeakFd /\ Reply(c, 0, {})
                /\ \E i \in FindOnline(id) :
                     IF i = 0 THEN UNCHANGED online ELSE DestroyOnline(i)
                /\ UNCHANGED <<peer, fdOf, watchers, clients, pos, timers, seen>>
             \/ Die
      PROVE  IInv'
  <2>1. /\ accounts' \in Seq(Account)
        /\ index' \in {"none", "sound", "freed"}
        /\ tree' \in [Users -> AcctId \cup {NoId}]
    BY <1>4, DeleteAccountKeeps DEF IInv
  <2>4. CASE Die
    BY <1>1, <2>1, <2>4, DieQuietly DEF IInv, TypeOK
  <2>5. CASE ~Die
    <3>1. /\ LeakFd /\ Reply(c, 0, {})
          /\ UNCHANGED <<peer, fdOf, watchers, clients, pos, timers, seen>>
          /\ UNCHANGED online \/ \E i \in 1..Len(online) : DestroyOnline(i)
      BY <1>4, <2>5 DEF FindOnline
    <3>2. /\ online' \in Seq(Online)
          /\ Len(online') = Len(online)
          /\ \A j \in 1..Len(online) :
                /\ online'[j].fd = online[j].fd /\ online'[j].conn = online[j].conn
                /\ online'[j].live => online[j].live
      <4>1. CASE UNCHANGED online
        BY <4>1 DEF IInv, TypeOK
      <4>2. ASSUME NEW i \in 1..Len(online), DestroyOnline(i)
            PROVE  /\ online' \in Seq(Online)
                   /\ Len(online') = Len(online)
                   /\ \A j \in 1..Len(online) :
                         /\ online'[j].fd = online[j].fd
                         /\ online'[j].conn = online[j].conn
                         /\ online'[j].live => online[j].live
        BY <4>2, OnlineKeeps
      <4> QED
        BY <3>1, <4>1, <4>2
    <3>3. owner' \in [Fd -> ConnId \cup {NoConn, Leaked}]
      BY <3>1, LeakFdKeeps DEF IInv
    <3>4. TypeOK'
      BY <1>1, <2>1, <3>1, <3>2, <3>3, ReplyType DEF IInv, TypeOK
    <3>5. Sessions'
      BY <3>1, <3>2, FrameSessions
    <3> QED
      BY <1>1, <3>1, <3>4, <3>5, FrameLeak DEF IInv
  <2> QED
    BY <2>4, <2>5
<1> QED
  BY <1>2, <1>3, <1>4 DEF ReqDeleteAccount

(* and delayed messages. *)
LEMMA StoreStep ==
  ASSUME IInv, NEW c \in ConnId, Handling(c), NoReply(c),
         NEW to \in Users \cup {SndAll}, NEW f \in Fd \cup {NoFd},
         NEW goal \in ConnId \cup {NoConn},
         StoreAndSchedule(c, to, f, goal),
         to = SndAll => f = fdOf[c],
         (to # SndAll /\ goal # NoConn) =>
            f \in Fd /\ (peer[goal] = "open" => owner[f] = goal),
         goal # NoConn => peer[goal] # "none",
         UNCHANGED <<peer, fdOf, watchers, clients, pos, online, got, seen, accounts,
                     index, tree>>
  PROVE  IInv'
<1>0. PICK n \in Nat : n = Len(mesgs) + 1
  BY DEF IInv, TypeOK
<1> DEFINE x == [from |-> c, to |-> to, goal |-> goal]
           t == [mesg |-> n, fd |-> f, all |-> (to = SndAll), goal |-> goal]
<1>1. /\ mesgs' = Append(mesgs, x) /\ timers' = timers \cup {t} /\ LeakFd
      /\ n \in MesgId
  <2>1. /\ mesgs' = Append(mesgs, x) /\ timers' = timers \cup {t} /\ LeakFd
        /\ Len(mesgs) < MaxMesg
    BY <1>0 DEF StoreAndSchedule
  <2>2. n \in MesgId
    BY <1>0, <2>1, BoundsAssumption DEF IInv, TypeOK, MesgId
  <2> QED
    BY <2>1, <2>2
<1>2. /\ x \in Mesg /\ x.from = c /\ x.to = to /\ x.goal = goal
      /\ t \in Timer /\ t.mesg = n /\ t.fd = f /\ t.goal = goal
      /\ t.all <=> to = SndAll
  BY <1>1 DEF Mesg, Timer
<1>3. n \in Nat /\ ~(n <= Len(mesgs))
  BY <1>0 DEF IInv, TypeOK
<1> HIDE DEF x, t
<1>4. /\ mesgs' \in Seq(Mesg) /\ Len(mesgs') = n /\ mesgs'[n] = x
      /\ \A m \in 1..Len(mesgs) : mesgs'[m] = mesgs[m]
  BY <1>0, <1>1, <1>2 DEF IInv, TypeOK
<1>5. c \in clients /\ peer[c] = "open"
  BY HandlingFacts DEF IInv
<1>6. \A g \in Fd : owner[g] \in ConnId => owner'[g] = owner[g]
  BY <1>1, LeakFdKeeps DEF IInv
<1>7. \A m \in 1..Len(mesgs') : m = n \/ m \in 1..Len(mesgs)
  BY <1>0, <1>3, <1>4 DEF IInv, TypeOK
<1>8. \A d \in ConnId : got[n][d] = 0
  <2>1. n > Len(mesgs)
    BY <1>0 DEF IInv, TypeOK
  <2> QED
    BY <1>1, <2>1 DEF IInv, History
<1>9. TypeOK'
  <2>1. owner' \in [Fd -> ConnId \cup {NoConn, Leaked}]
    BY <1>1, LeakFdKeeps DEF IInv
  <2>2. Len(mesgs') <= MaxMesg
    BY <1>1, <1>4, BoundsAssumption DEF MesgId
  <2> QED
    BY <1>1, <1>2, <1>4, <2>1, <2>2, ReplyType DEF IInv, TypeOK
<1>10. Sockets'
  BY <1>6 DEF IInv, TypeOK, Sockets, ClientTable
<1>11. Sessions'
  BY <1>1, FrameSessions DEF IInv
<1>12. Pending'
  <2>1. ASSUME NEW s \in timers
        PROVE  PendingTimer(s)' /\ s.mesg \in 1..Len(mesgs)
    <3>1. /\ PendingTimer(s) /\ s.mesg \in 1..Len(mesgs)
          /\ s.fd \in Fd \cup {NoFd} /\ s.goal \in ConnId \cup {NoConn}
      BY ElementTypes DEF IInv, TypeOK, Pending, PendingTimer, MesgId
    <3>2. (~s.all /\ s.goal # NoConn) =>
             s.fd \in Fd /\ (peer[s.goal] = "open" => owner'[s.fd] = s.goal)
      BY <1>6, <3>1 DEF PendingTimer
    <3>3. mesgs'[s.mesg] = mesgs[s.mesg] /\ s.mesg <= Len(mesgs')
      BY <1>0, <1>3, <1>4, <3>1 DEF IInv, TypeOK
    <3> QED
      BY <3>1, <3>2, <3>3 DEF PendingTimer
  <2>2. PendingTimer(t)'
    <3>1. (to # SndAll /\ goal # NoConn) => (peer[goal] = "open" => owner'[f] = goal)
      BY <1>6
    <3>2. t.mesg <= Len(mesgs')
      BY <1>2, <1>3, <1>4
    <3>3. mesgs'[t.mesg] = x /\ \A d \in ConnId : got'[t.mesg][d] = 0
      BY <1>2, <1>4, <1>8
    <3>4. (t.all <=> x.to = SndAll) /\ t.goal = x.goal
      BY <1>2
    <3>5. t.all => t.fd = fdOf'[x.from]
      BY <1>2
    <3>6. (~t.all /\ t.goal # NoConn) =>
             t.fd \in Fd /\ (peer'[t.goal] = "open" => owner'[t.fd] = t.goal)
      BY <1>2, <3>1
    <3> QED
      BY <3>2, <3>3, <3>4, <3>5, <3>6 DEF PendingTimer
  <2>3. ASSUME NEW s \in timers', NEW r \in timers', s.mesg = r.mesg
        PROVE  s = r
    <3>1. n \notin 1..Len(mesgs)
      BY <1>3
    <3>2. CASE s \in timers /\ r \in timers
      BY <2>3, <3>2 DEF IInv, Pending
    <3>3. CASE s = t \/ r = t
      BY <1>1, <1>2, <2>1, <2>3, <3>1, <3>3
    <3> QED
      BY <1>1, <3>2, <3>3
  <2> QED
    BY <1>1, <2>1, <2>2, <2>3 DEF Pending
<1>13. History'
  <2>1. ASSUME NEW m \in 1..Len(mesgs')
        PROVE  /\ peer[mesgs'[m].from] # "none"
               /\ mesgs'[m].goal # NoConn => peer[mesgs'[m].goal] # "none"
               /\ mesgs'[m].to = SndAll => got[m][mesgs'[m].from] = 0
               /\ (mesgs'[m].to # SndAll /\ mesgs'[m].goal # NoConn) =>
                     \A d \in ConnId :
                        (got[m][d] > 0 /\ d # mesgs'[m].goal) =>
                           peer[mesgs'[m].goal] = "closed"
    <3>1. CASE m = n
      BY <1>2, <1>4, <1>5, <1>8, <3>1
    <3>2. CASE m \in 1..Len(mesgs)
      BY <1>4, <3>2 DEF IInv, History, NoEcho, DirectDelivery
    <3> QED
      BY <1>7, <3>1, <3>2
  <2>2. \A m \in MesgId : m > Len(mesgs') => m > Len(mesgs)
    BY <1>0, <1>3, <1>4 DEF IInv, TypeOK, MesgId
  <2> QED
    BY <2>1, <2>2 DEF IInv, History, AtMostOnce, NoEcho, DirectDelivery
<1> QED
  BY <1>9, <1>10, <1>11, <1>12, <1>13 DEF IInv

(* Sending to everybody, *)
LEMMA SndMsgToAllStep ==
  ASSUME IInv, NEW c \in ConnId, SndMsgToAll(c)
  PROVE  IInv'
<1>1. fdOf[c] \in Fd
  BY HandlingFacts DEF IInv, Sockets, ClientTable, SndMsgToAll
<1> QED
  BY <1>1, StoreStep DEF SndMsgToAll

(* and to one user, by the descriptor of the session found. *)
LEMMA SndMsgToOneStep ==
  ASSUME IInv, NEW c \in ConnId, NEW u \in Users, SndMsgToOne(c, u)
  PROVE  IInv'
<1>1. /\ Handling(c) /\ NoReply(c) /\ u # SndAll
      /\ UNCHANGED <<peer, fdOf, watchers, clients, pos, online, got, seen, accounts,
                     index, tree>>
  BY NamesAssumption DEF SndMsgToOne
<1>2. CASE UNCHANGED <<mesgs, timers, owner>>
  BY <1>1, <1>2, ReplyStep DEF netVars, dbVars
<1>3. ASSUME NEW i \in 1..Len(online), online[i].live,
             StoreAndSchedule(c, u, online[i].fd, online[i].conn)
      PROVE  IInv'
  <2>1. online[i].fd \in Fd /\ online[i].conn \in ConnId
    BY ElementTypes DEF IInv
  <2>2. /\ peer[online[i].conn] # "none"
        /\ peer[online[i].conn] = "open" => owner[online[i].fd] = online[i].conn
    BY <1>3 DEF IInv, Sessions, SessionOwner
  <2> QED
    BY <1>1, <1>3, <2>1, <2>2, StoreStep
<1>4. ASSUME NEW f \in Fd \cup {NoFd}, StoreAndSchedule(c, u, f, NoConn)
      PROVE  IInv'
  BY <1>1, <1>4, StoreStep
<1> QED
  BY <1>2, <1>3, <1>4 DEF SndMsgToOne, FindOnline

(* The connections that an expiring timer's packet reaches, and how often. *)
LEMMA IntervalStep ==
  ASSUME IInv, NEW t \in timers, IntervalSendPacket(t)
  PROVE  IInv'
<1> DEFINE m == t.mesg
<1>1. /\ PendingTimer(t) /\ m \in MesgId /\ m \in 1..Len(mesgs)
      /\ t.goal \in ConnId \cup {NoConn} /\ t.all \in BOOLEAN
  BY ElementTypes DEF IInv, TypeOK, Pending, PendingTimer, MesgId
<1>2. UNCHANGED dbVars
  BY DEF IntervalSendPacket
<1>3. CASE \A c \in clients : fdOf[c] # t.fd
  <2>1. /\ timers' = timers \ {t}
        /\ UNCHANGED <<srv, netVars, clients, pos, mid, online, got, seen>>
    BY <1>3 DEF IntervalSendPacket, TimersAfter, FirstClient
  <2>2. TypeOK'
    BY <1>2, <2>1 DEF IInv, TypeOK, netVars, dbVars
  <2>3. Pending'
    BY <1>2, <2>1 DEF IInv, Pending, PendingTimer, netVars, dbVars
  <2> QED
    BY <1>2, <2>1, <2>2, <2>3
       DEF IInv, Sockets, ClientTable, Sessions, SessionOwner, History,
           AtMostOnce, NoEcho, DirectDelivery, netVars, dbVars
<1>4. CASE ~(\A c \in clients : fdOf[c] # t.fd)
  <2> DEFINE Closed(c) == {d \in Targets(t, c) : HungUp(fdOf[d])}
             Sent(c) == {owner[fdOf[d]] :
                           d \in {e \in Targets(t, c) : \A x \in Closed(c) : e < x}}
  <2>1. PICK c \in clients :
          /\ FirstClient(t.fd, c)
          /\ got' = [got EXCEPT ![m] =
                       [k \in ConnId |-> IF k \in Sent(c) THEN @[k] + 1 ELSE @[k]]]
          /\ \/ /\ timers' = timers \ {t}
                /\ UNCHANGED <<srv, netVars, clients, pos, mid, online, seen>>
             \/ Die
    BY <1>4 DEF IntervalSendPacket, TimersAfter
  <2> DEFINE sent == Sent(c)
  <2>2. sent \subseteq Targets(t, c) /\ sent \subseteq clients
    BY <2>1 DEF IInv, Sockets, ClientTable, Targets
  <2>3. got' = [got EXCEPT ![m] = [k \in ConnId |-> IF k \in sent
                                                    THEN got[m][k] + 1 ELSE got[m][k]]]
    BY <1>1, <2>1 DEF IInv, TypeOK
  <2>4. \/ /\ timers' = timers \ {t}
           /\ UNCHANGED <<srv, netVars, clients, pos, mid, online, seen>>
        \/ Die
    BY <2>1
  <2>5. c \in clients /\ fdOf[c] = t.fd /\ t.fd \in Fd /\ owner[t.fd] = c
    BY <2>1 DEF FirstClient, IInv, Sockets, ClientTable
  <2> HIDE DEF sent
  <2>6. /\ got' \in [MesgId -> [ConnId -> Nat]]
        /\ \A n \in MesgId : n # m => got'[n] = got[n]
        /\ \A k \in ConnId : got'[m][k] = IF k \in sent THEN 1 ELSE 0
    BY <1>1, <2>3 DEF IInv, TypeOK, PendingTimer
  <2>7. AtMostOnce'
    BY <2>6 DEF IInv, History, AtMostOnce
  <2>8. mesgs[m].to = SndAll => mesgs[m].from \notin sent
    <3> SUFFICES ASSUME mesgs[m].to = SndAll, mesgs[m].from \in sent
                 PROVE  FALSE
      OBVIOUS
    <3>1. t.fd = fdOf[mesgs[m].from] /\ t.all
      BY <1>1 DEF PendingTimer
    <3>2. mesgs[m].from \in clients \ {c}
      BY <2>2, <3>1 DEF Targets
    <3> QED
      BY <2>5, <3>1, <3>2 DEF IInv, Sockets, ClientTable
  <2>9. NoEcho'
    <3> SUFFICES ASSUME NEW n \in 1..Len(mesgs), mesgs[n].to = SndAll
                 PROVE  got'[n][mesgs[n].from] = 0
      BY <1>2 DEF NoEcho, dbVars
    <3>1. n \in MesgId /\ mesgs[n].from \in ConnId
      BY ElementTypes DEF IInv
    <3> QED
      BY <2>6, <2>8, <3>1 DEF IInv, History, NoEcho
  <2>10. ASSUME NEW n \in 1..Len(mesgs), mesgs[n].to # SndAll,
                mesgs[n].goal # NoConn, NEW d \in ConnId,
                got'[n][d] > 0, d # mesgs[n].goal
         PROVE  peer[mesgs[n].goal] = "closed"
    <3>1. n \in MesgId /\ mesgs[n].goal \in ConnId
      BY <2>10, ElementTypes DEF IInv
    <3>2. CASE n # m
      BY <2>6, <2>10, <3>1, <3>2 DEF IInv, History, DirectDelivery
    <3>3. CASE n = m
      <4>1. d \in sent
        BY <2>6, <2>10, <3>3
      <4>2. ~t.all /\ t.goal = mesgs[m].goal
        BY <1>1, <2>10, <3>3 DEF PendingTimer
      <4>3. d = c
        BY <2>2, <4>1, <4>2 DEF Targets
      <4>4. peer[t.goal] = "open" => owner[t.fd] = t.goal
        BY <1>1, <2>10, <3>3, <4>2 DEF PendingTimer
      <4>5. peer[t.goal] # "open"
        BY <2>5, <2>10, <3>3, <4>2, <4>3, <4>4
      <4>6. peer[t.goal] # "none"
        BY <1>1, <2>10, <3>3, <4>2 DEF IInv, History
      <4> QED
        BY <3>1, <3>3, <4>2, <4>5, <4>6 DEF IInv, TypeOK
    <3> QED
      BY <3>2, <3>3
  <2>11. \A k \in ConnId : peer[k] = "closed" => peer'[k] = "closed"
    BY <2>4 DEF IInv, TypeOK, Die, netVars
  <2>12. DirectDelivery'
    BY <1>2, <2>10, <2>11, ElementTypes DEF IInv, DirectDelivery, dbVars
  <2>13. \A n \in MesgId : n > Len(mesgs) => got'[n] = got[n]
    BY <1>1, <2>6 DEF IInv, TypeOK, MesgId
  <2>14. CASE Die
    BY <1>2, <2>6, <2>7, <2>9, <2>12, <2>13, <2>14, DieKeeps
       DEF IInv, TypeOK, dbVars
  <2>15. CASE /\ timers' = timers \ {t}
              /\ UNCHANGED <<srv, netVars, clients, pos, mid, online, seen>>
    <3>1. TypeOK'
      BY <1>2, <2>6, <2>15 DEF IInv, TypeOK, netVars, dbVars
    <3>2. Sockets' /\ Sessions'
      BY <2>15 DEF IInv, Sockets, ClientTable, Sessions, SessionOwner, netVars
    <3>3. Pending'
      <4>1. ASSUME NEW s \in timers, s # t
            PROVE  PendingTimer(s)'
        <5>1. PendingTimer(s) /\ s.mesg # m /\ s.mesg \in MesgId
          BY <4>1, ElementTypes DEF IInv, Pending
        <5>2. got'[s.mesg] = got[s.mesg]
          BY <2>6, <5>1
        <5> QED
          BY <1>2, <2>15, <5>1, <5>2 DEF PendingTimer, netVars, dbVars
      <4> QED
        BY <2>15, <4>1 DEF IInv, Pending
    <3>4. History'
      BY <1>2, <2>7, <2>9, <2>12, <2>13, <2>15
         DEF IInv, History, netVars, dbVars
    <3> QED
      BY <3>1, <3>2, <3>3, <3>4 DEF IInv
  <2> QED
    BY <2>4, <2>14, <2>15
<1> QED
  BY <1>3, <1>4

(* The databases are opened again. *)
LEMMA RestartStep ==
  ASSUME IInv, Restart
  PROVE  IInv'
<1>1. tree' \in [Users -> AcctId \cup {NoId}]
  BY LoadTreeType DEF IInv, TypeOK, Restart
<1>2. TypeOK'
  BY <1>1 DEF IInv, TypeOK, Restart, netVars, Loop, SrvAt
<1> QED
  BY <1>2, Frame DEF IInv, Restart, netVars

(* Every step of the server keeps the invariant. *)
LEMMA NextIInv == IInv /\ [Next]_vars => IInv'
<1> SUFFICES ASSUME IInv, [Next]_vars
             PROVE  IInv'
  OBVIOUS
<1>1. CASE UNCHANGED vars
  <2>1. TypeOK'
    BY <1>1 DEF IInv, TypeOK, vars, netVars, dbVars
  <2> QED
    BY <1>1, <2>1, Frame DEF IInv, vars, netVars, dbVars
<1>2. ASSUME NEW c \in ConnId, Request(c)
      PROVE  IInv'
  BY <1>2, ReadStep, ReqAllMsgStep, ReqFirstOrLastMsgStep, ReqMakeAccountStep,
     ReqLogInStep, ReqLogOutStep, ReqDeleteAccountStep, SndMsgToAllStep,
     SndMsgToOneStep
     DEF Request
<1>3. CASE Next
  BY <1>2, <1>3, AcceptStep, PeerCloseStep, DisconnectStep, ReadStep,
     SendPacketStep, IntervalStep, RestartStep
     DEF Next
<1> QED
  BY <1>1, <1>3

(* The invariant holds in every behaviour. *)
THEOREM Invariance == Spec => []IInv
BY InitIInv, NextIInv, PTL DEF Spec

(* Every variable keeps its type: in particular the pages of the history that
   a LAST request asks for are never empty or below id 0, and every timer is
   for a message that was stored. *)
THEOREM TypeCorrect == Spec => []TypeOK
<1>1. IInv => TypeOK
  BY DEF IInv
<1> QED
  BY <1>1, Invariance, PTL

(* A client record always names its own socket: server_handle_disconnect_event
   removes the record whose descriptor it closes, although watchers are never
   removed and server_remove_client may forget the whole list. *)
THEOREM ClientTableHolds == Spec => []ClientTable
<1>1. IInv => ClientTable
  BY DEF IInv, Sockets
<1> QED
  BY <1>1, Invariance, PTL

(* A session names the descriptor of its own connection as long as that is
   open: server_add_online stores it, nothing rewrites it, and the kernel gives
   the descriptor to another connection only after a close. *)
THEOREM SessionOwnerHolds == Spec => []SessionOwner
<1>1. IInv => SessionOwner
  BY DEF IInv, Sessions
<1> QED
  BY <1>1, Invariance, PTL

(* A message to a user is pushed to another connection only after the one it
   was meant for has closed (server_handle_snd_msg_event, then
   server_interval_send_packet). *)
THEOREM DirectDeliveryHolds == Spec => []DirectDelivery
<1>1. IInv => DirectDelivery
  BY DEF IInv, History
<1> QED
  BY <1>1, Invariance, PTL

(* No message is pushed twice to a connection: a timer is removed by the call
   that pushes its message, whatever clients it finds. *)
THEOREM AtMostOnceHolds == Spec => []AtMostOnce
<1>1. IInv => AtMostOnce
  BY DEF IInv, History
<1> QED
  BY <1>1, Invariance, PTL

(* A broadcast is never pushed to its sender: when the timer expires, the only
   client record with the sender's descriptor is the sender's or a later
   connection's, and then the sender's own record is gone. *)
THEOREM NoEchoHolds == Spec => []NoEcho
<1>1. IInv => NoEcho
  BY DEF IInv, History
<1> QED
  BY <1>1, Invariance, PTL

-----------------------------------------------------------------------------
(* The history *)

(* The reply that is being written continues what its client has read; nothing
   was read by who is no client. *)
ReplyContinues ==
  srv.at = "write" =>
     /\ srv.conn \in clients
     /\ \E k \in 0..Len(mesgs) :
          seen[srv.conn] \cup srv.ids = 0..(k - 1) /\ srv.pos <= k + 1

Reading ==
  /\ NoGap
  /\ \A c \in ConnId \ clients : seen[c] = {}
  /\ ReplyContinues

(* Numbers that the history is counted with. *)
LEMMA Counts ==
  ASSUME TypeOK
  PROVE  /\ Len(mesgs) \in Nat
         /\ \A c \in ConnId : pos[c] \in Nat
         /\ ReadCount \in Nat /\ ReadCount <= Len(mesgs)
         /\ Len(mesgs) > 0 => ReadCount > 0
         /\ (ReadBatch >= 2 /\ Len(mesgs) >= 2) => ReadCount >= 2
<1>1. Len(mesgs) \in Nat
  BY DEF TypeOK
<1>2. \A c \in ConnId : pos[c] \in Nat
  BY DEF TypeOK
<1>3. ReadBatch \in Nat /\ ReadBatch > 0
  BY BoundsAssumption
<1> QED
  BY <1>1, <1>2, <1>3 DEF ReadCount

(* A page that begins in what was read, or just behind it, continues it. *)
LEMMA PageContinues ==
  ASSUME NEW k \in Nat, NEW p \in Nat, NEW n \in Nat, NEW first \in Nat, NEW last \in Int,
         k <= n, p <= k + 1, first = (IF p = 0 THEN 0 ELSE p - 1),
         first <= last, last < n
  PROVE  \E j \in 0..n : /\ (0..(k - 1)) \cup (first..last) = 0..(j - 1)
                         /\ p + (last - first + 1) - 1 <= j + 1
<1>1. first <= k
  OBVIOUS
<1>2. CASE last < k
  <2>1. (0..(k - 1)) \cup (first..last) = 0..(k - 1)
    BY <1>2
  <2>2. p + (last - first + 1) - 1 <= k + 1
    BY <1>2
  <2>3. k \in 0..n
    OBVIOUS
  <2> QED
    BY <2>1, <2>2, <2>3
<1>3. CASE last >= k
  <2>1. (0..(k - 1)) \cup (first..last) = 0..((last + 1) - 1)
    BY <1>1, <1>3
  <2>2. p + (last - first + 1) - 1 <= (last + 1) + 1
    BY <1>3
  <2>3. last + 1 \in 0..n
    BY <1>3
  <2> QED
    BY <2>1, <2>2, <2>3
<1> QED
  BY <1>2, <1>3

(* Steps that hand nothing out and take nothing back. *)
LEMMA ReadingKept ==
  ASSUME IInv, Reading, UNCHANGED <<clients, pos, seen>>,
         Len(mesgs') \in Nat, Len(mesgs) <= Len(mesgs'),
         srv'.at # "write" \/ srv' = srv
  PROVE  Reading'
<1>1. Len(mesgs) \in Nat
  BY Counts DEF IInv
<1>2. \A k \in 0..Len(mesgs) : k \in 0..Len(mesgs')
  BY <1>1
<1>3. NoGap'
  BY <1>2 DEF Reading, NoGap
<1>4. ReplyContinues'
  BY <1>2 DEF Reading, ReplyContinues
<1> QED
  BY <1>3, <1>4 DEF Reading

(* The process died, or a reply without messages is due. *)
LEMMA ReadingDie ==
  ASSUME Die
  PROVE  Reading'
<1>1. srv'.at # "write"
  BY DEF Die, Down, SrvAt
<1> QED
  BY <1>1 DEF Die, Reading, NoGap, ReplyContinues

LEMMA ReadingReply ==
  ASSUME IInv, Reading, UNCHANGED <<clients, pos, seen>>, UNCHANGED mesgs,
         NEW c \in clients, NEW p, NEW ids, srv' = SrvAt("write", c, p, ids),
         \E k \in 0..Len(mesgs) : seen[c] \cup ids = 0..(k - 1) /\ p <= k + 1
  PROVE  Reading'
<1>1. srv'.conn = c /\ srv'.pos = p /\ srv'.ids = ids
  BY DEF SrvAt
<1>2. ReplyContinues'
  BY <1>1 DEF ReplyContinues
<1>3. NoGap'
  BY DEF Reading, NoGap
<1> QED
  BY <1>2, <1>3 DEF Reading

LEMMA ReadingEmptyReply ==
  ASSUME IInv, Reading, UNCHANGED <<clients, pos, seen>>, UNCHANGED mesgs,
         NEW c \in clients, srv' = SrvAt("write", c, 0, {})
  PROVE  Reading'
<1>1. PICK k \in 0..Len(mesgs) : seen[c] = 0..(k - 1)
  BY DEF Reading, NoGap
<1>2. seen[c] \cup {} = 0..(k - 1) /\ 0 <= k + 1
  <2>1. Len(mesgs) \in Nat
    BY Counts DEF IInv
  <2> QED
    BY <1>1, <2>1
<1> QED
  BY <1>2, ReadingReply

LEMMA ReadingAllMsg ==
  ASSUME IInv, Reading, NEW c \in ConnId, ReqAllMsg(c)
  PROVE  Reading'
<1>1. CASE SizeGarbage(c)
  <2>1. CASE Die
    BY <2>1, ReadingDie
  <2>2. CASE ~Die
    <3>1. srv' = Loop /\ UNCHANGED <<clients, pos, seen, mesgs>>
      BY <1>1, <2>2 DEF SizeGarbage, NoReply, dbVars
    <3>2. srv'.at # "write"
      BY <3>1 DEF Loop, SrvAt
    <3>3. Len(mesgs') \in Nat /\ Len(mesgs) <= Len(mesgs')
      BY <3>1, Counts DEF IInv
    <3> QED
      BY <3>1, <3>2, <3>3, ReadingKept
  <2> QED
    BY <2>1, <2>2
<1>2. CASE ~SizeGarbage(c)
  <2>1. /\ c \in clients /\ srv' = SrvAt("write", c, Len(mesgs), 0..(Len(mesgs) - 1))
        /\ UNCHANGED <<clients, pos, seen>> /\ UNCHANGED mesgs
    BY <1>2 DEF ReqAllMsg, Reply, Handling, dbVars
  <2>2. PICK k \in 0..Len(mesgs) : seen[c] = 0..(k - 1)
    BY <2>1 DEF Reading, NoGap
  <2>3. Len(mesgs) \in Nat
    BY Counts DEF IInv
  <2>4. /\ seen[c] \cup (0..(Len(mesgs) - 1)) = 0..(Len(mesgs) - 1)
        /\ Len(mesgs) \in 0..Len(mesgs) /\ Len(mesgs) <= Len(mesgs) + 1
    BY <2>2, <2>3
  <2> QED
    BY <2>1, <2>4, ReadingReply
<1> QED
  BY <1>1, <1>2

LEMMA ReadingPage ==
  ASSUME IInv, Reading, NEW c \in ConnId, NEW more \in BOOLEAN, ReqFirstOrLastMsg(c, more)
  PROVE  Reading'
<1> DEFINE p == IF more THEN pos[c] ELSE 1
<1>1. /\ c \in clients /\ Len(mesgs) > 0
      /\ \/ /\ FirstId(p) <= LastId(p)
            /\ srv' = SrvAt("write", c, NextPos(p), FirstId(p)..LastId(p))
            /\ UNCHANGED <<clients, pos, seen, mesgs>>
         \/ srv' = Loop /\ UNCHANGED <<clients, pos, seen, mesgs>>
         \/ Die
  BY DEF ReqFirstOrLastMsg, Reply, NoReply, SizeGarbage, Handling, dbVars
<1>2. Len(mesgs) \in Nat /\ p \in Nat /\ ReadCount \in Nat
  BY Counts DEF IInv
<1>3. PICK k \in 0..Len(mesgs) : seen[c] = 0..(k - 1) /\ pos[c] <= k + 1
  BY <1>1 DEF Reading, NoGap
<1>4. p <= k + 1
  BY <1>2, <1>3
<1> HIDE DEF p
<1>5. CASE Die
  BY <1>5, ReadingDie
<1>6. CASE srv' = Loop /\ UNCHANGED <<clients, pos, seen, mesgs>>
  <2>1. srv'.at # "write"
    BY <1>6 DEF Loop, SrvAt
  <2>2. Len(mesgs') \in Nat /\ Len(mesgs) <= Len(mesgs')
    BY <1>2, <1>6
  <2> QED
    BY <1>6, <2>1, <2>2, ReadingKept
<1>7. CASE /\ FirstId(p) <= LastId(p)
           /\ srv' = SrvAt("write", c, NextPos(p), FirstId(p)..LastId(p))
           /\ UNCHANGED <<clients, pos, seen, mesgs>>
  <2>1. FirstId(p) = (IF p = 0 THEN 0 ELSE p - 1) /\ FirstId(p) \in Nat
    BY <1>2 DEF FirstId
  <2>2. LastId(p) \in Int /\ LastId(p) < Len(mesgs)
    BY <1>2 DEF LastId
  <2>3. NextPos(p) = p + (LastId(p) - FirstId(p) + 1) - 1
    BY DEF NextPos
  <2>4. k \in Nat /\ k <= Len(mesgs)
    BY <1>2, <1>3
  <2>5. \E j \in 0..Len(mesgs) :
           /\ (0..(k - 1)) \cup (FirstId(p)..LastId(p)) = 0..(j - 1)
           /\ p + (LastId(p) - FirstId(p) + 1) - 1 <= j + 1
    BY <1>2, <1>4, <1>7, <2>1, <2>2, <2>4, PageContinues
  <2>6. \E j \in 0..Len(mesgs) :
           seen[c] \cup (FirstId(p)..LastId(p)) = 0..(j - 1) /\ NextPos(p) <= j + 1
    BY <1>3, <2>3, <2>5
  <2> QED
    BY <1>1, <1>7, <2>6, ReadingReply
<1> QED
  BY <1>1, <1>5, <1>6, <1>7

LEMMA ReadingSent ==
  ASSUME IInv, Reading, SendPacketToClient
  PROVE  Reading'
<1>1. CASE Die
  BY <1>1, ReadingDie
<1>2. CASE ~Die
  <2> DEFINE c == srv.conn
  <2>1. /\ srv.at = "write" /\ srv' = Loop
        /\ pos' = [pos EXCEPT ![c] = srv.pos] /\ seen' = [seen EXCEPT ![c] = @ \cup srv.ids]
        /\ UNCHANGED <<clients, mesgs>>
    BY <1>2 DEF SendPacketToClient, dbVars
  <2>2. pos \in [ConnId -> Nat] /\ seen \in [ConnId -> SUBSET Nat] /\ clients \subseteq ConnId
    BY DEF IInv, TypeOK
  <2>3. PICK k \in 0..Len(mesgs) : seen[c] \cup srv.ids = 0..(k - 1) /\ srv.pos <= k + 1
    BY <2>1 DEF Reading, ReplyContinues
  <2>4. c \in clients
    BY <2>1 DEF Reading, ReplyContinues
  <2> HIDE DEF c
  <2>5. /\ pos'[c] = srv.pos /\ seen'[c] = seen[c] \cup srv.ids
        /\ \A d \in ConnId : d # c => pos'[d] = pos[d] /\ seen'[d] = seen[d]
    BY <2>1, <2>2, <2>4
  <2>6. NoGap'
    BY <2>1, <2>2, <2>3, <2>5 DEF Reading, NoGap
  <2>7. \A d \in ConnId \ clients' : seen'[d] = {}
    BY <2>1, <2>4, <2>5 DEF Reading
  <2>8. ReplyContinues'
    BY <2>1 DEF ReplyContinues, Loop, SrvAt
  <2> QED
    BY <2>6, <2>7, <2>8 DEF Reading
<1> QED
  BY <1>1, <1>2

LEMMA ReadingAccept ==
  ASSUME IInv, Reading, NEW c \in ConnId, HandleAcceptEvent(c)
  PROVE  Reading'
<1>1. /\ srv' = srv /\ srv.at = "loop" /\ peer[c] = "none"
      /\ clients' = clients \cup {c} /\ pos' = [pos EXCEPT ![c] = 1]
      /\ UNCHANGED <<seen, mesgs>>
  BY DEF HandleAcceptEvent, dbVars
<1>2. pos \in [ConnId -> Nat] /\ Len(mesgs) \in Nat
  BY Counts DEF IInv, TypeOK
<1>3. c \notin clients => seen[c] = {}
  BY DEF Reading
<1>4. PICK k \in 0..Len(mesgs) : seen[c] = 0..(k - 1)
  <2>1. CASE c \in clients
    BY <2>1 DEF Reading, NoGap
  <2>2. CASE c \notin clients
    <3>1. seen[c] = 0..(0 - 1) /\ 0 \in 0..Len(mesgs)
      BY <1>2, <1>3, <2>2
    <3> QED
      BY <3>1
  <2> QED
    BY <2>1, <2>2
<1>5. 1 <= k + 1
  BY <1>2
<1>6. pos'[c] = 1 /\ \A d \in ConnId : d # c => pos'[d] = pos[d]
  BY <1>1, <1>2
<1>7. NoGap'
  <2>1. ASSUME NEW d \in clients'
        PROVE  \E j \in 0..Len(mesgs) : seen[d] = 0..(j - 1) /\ pos'[d] <= j + 1
    <3>1. CASE d = c
      BY <1>4, <1>5, <1>6, <3>1
    <3>2. CASE d # c
      <4>1. d \in clients /\ pos'[d] = pos[d]
        BY <1>1, <1>6, <3>2 DEF IInv, TypeOK
      <4> QED
        BY <4>1 DEF Reading, NoGap
    <3> QED
      BY <3>1, <3>2
  <2> QED
    BY <1>1, <2>1 DEF NoGap
<1>8. ReplyContinues'
  BY <1>1 DEF ReplyContinues
<1> QED
  BY <1>1, <1>7, <1>8 DEF Reading

LEMMA ReadingDisconnect ==
  ASSUME IInv, Reading, NEW f \in Fd, HandleDisconnectEvent(f)
  PROVE  Reading'
<1>1. /\ srv' = srv /\ srv.at = "loop"
      /\ pos' = [c \in ConnId |-> IF c \in clients' THEN pos[c] ELSE 0]
      /\ seen' = [c \in ConnId |-> IF c \in clients' THEN seen[c] ELSE {}]
      /\ UNCHANGED mesgs
  BY DEF HandleDisconnectEvent, dbVars
<1>2. clients' \subseteq clients /\ clients \subseteq ConnId
  BY DEF HandleDisconnectEvent, RemoveClients, IInv, TypeOK
<1>3. NoGap'
  BY <1>1, <1>2 DEF Reading, NoGap
<1>4. ReplyContinues'
  BY <1>1 DEF ReplyContinues
<1> QED
  BY <1>1, <1>3, <1>4 DEF Reading

(* A step that only ends a request, or begins to read one. *)
LEMMA ReadingQuiet ==
  ASSUME IInv, Reading, UNCHANGED <<clients, pos, seen, mesgs>>,
         srv'.at # "write" \/ srv' = srv
  PROVE  Reading'
<1>1. Len(mesgs') \in Nat /\ Len(mesgs) <= Len(mesgs')
  BY Counts DEF IInv
<1> QED
  BY <1>1, ReadingKept

LEMMA ReadingSmallSteps ==
  ASSUME IInv, Reading, NEW c \in ConnId,
         PeerClose(c) \/ ReadPart(c) \/ ReadMore(c) \/ DropPacket(c) \/ NoMessage(c)
  PROVE  Reading'
<1>1. UNCHANGED <<clients, pos, seen, mesgs>>
  BY DEF PeerClose, ReadPart, ReadMore, DropPacket, NoMessage, dbVars
<1>2. srv'.at # "write" \/ srv' = srv
  BY DEF PeerClose, ReadPart, ReadMore, DropPacket, NoMessage, NoReply, Loop, SrvAt
<1> QED
  BY <1>1, <1>2, ReadingQuiet

(* Requests about accounts and sessions *)
LEMMA ReadingAccounts ==
  ASSUME IInv, Reading, NEW c \in ConnId, NEW u \in Users, NEW pwRight \in BOOLEAN,
         \/ ReqMakeAccount(c, u) \/ ReqLogIn(c, u, pwRight) \/ ReqLogOut(c, u, pwRight)
         \/ ReqDeleteAccount(c, u, pwRight) \/ ReqLogInList(c)
  PROVE  Reading'
<1>1. c \in clients
  BY DEF ReqMakeAccount, ReqLogIn, ReqLogOut, ReqDeleteAccount, ReqLogInList, Handling
<1>2. CASE Die
  BY <1>2, ReadingDie
<1>3. CASE ~Die
  <2>1. UNCHANGED <<clients, pos, seen, mesgs>>
    BY <1>3
       DEF ReqMakeAccount, ReqLogIn, ReqLogOut, ReqDeleteAccount, ReqLogInList, dbVars
  <2>2. srv' = SrvAt("write", c, 0, {}) \/ srv' = Loop
    BY <1>3
       DEF ReqMakeAccount, ReqLogIn, ReqLogOut, ReqDeleteAccount, ReqLogInList,
           Reply, NoReply
  <2>3. CASE srv' = Loop
    <3>1. srv'.at # "write"
      BY <2>3 DEF Loop, SrvAt
    <3> QED
      BY <2>1, <3>1, ReadingQuiet
  <2> QED
    BY <1>1, <2>1, <2>2, <2>3, ReadingEmptyReply
<1> QED
  BY <1>2, <1>3

(* Messages only make the history longer. *)
LEMMA ReadingSend ==
  ASSUME IInv, Reading, NEW c \in ConnId,
         SndMsgToAll(c) \/ \E u \in Users : SndMsgToOne(c, u)
  PROVE  Reading'
<1>1. UNCHANGED <<clients, pos, seen>> /\ srv' = Loop
  BY DEF SndMsgToAll, SndMsgToOne, NoReply
<1>2. srv'.at # "write"
  BY <1>1 DEF Loop, SrvAt
<1>3. UNCHANGED mesgs \/ \E x : mesgs' = Append(mesgs, x)
  BY DEF SndMsgToAll, SndMsgToOne, StoreAndSchedule
<1>4. Len(mesgs') \in Nat /\ Len(mesgs) <= Len(mesgs')
  <2>1. CASE UNCHANGED mesgs
    BY <2>1, Counts DEF IInv
  <2>2. ASSUME NEW x, mesgs' = Append(mesgs, x)
        PROVE  Len(mesgs') \in Nat /\ Len(mesgs) <= Len(mesgs')
    BY <2>2 DEF IInv, TypeOK
  <2> QED
    BY <1>3, <2>1, <2>2
<1> QED
  BY <1>1, <1>2, <1>4, ReadingKept

LEMMA ReadingInterval ==
  ASSUME IInv, Reading, NEW t \in timers, IntervalSendPacket(t)
  PROVE  Reading'
<1>1. CASE Die
  BY <1>1, ReadingDie
<1>2. CASE ~Die
  <2>1. UNCHANGED <<srv, clients, pos, seen, mesgs>>
    BY <1>2 DEF IntervalSendPacket, dbVars
  <2> QED
    BY <2>1, ReadingQuiet
<1> QED
  BY <1>1, <1>2

LEMMA ReadingRestart ==
  ASSUME IInv, Reading, Restart
  PROVE  Reading'
<1>1. UNCHANGED <<clients, pos, seen, mesgs>> /\ srv' = Loop
  BY DEF Restart
<1>2. srv'.at # "write"
  BY <1>1 DEF Loop, SrvAt
<1> QED
  BY <1>1, <1>2, ReadingQuiet

LEMMA InitReading == Init => Reading
<1> SUFFICES ASSUME Init PROVE Reading
  OBVIOUS
<1>1. srv.at # "write"
  BY DEF Init, Loop, SrvAt
<1> QED
  BY <1>1 DEF Init, Reading, NoGap, ReplyContinues

LEMMA NextReading ==
  ASSUME IInv, Reading, [Next]_vars
  PROVE  Reading'
<1>1. CASE UNCHANGED vars
  BY <1>1, ReadingQuiet DEF vars, dbVars
<1>2. ASSUME NEW c \in ConnId, Request(c)
      PROVE  Reading'
  <2>1. CASE ReqAllMsg(c)
    BY <2>1, ReadingAllMsg
  <2>2. CASE \E more \in BOOLEAN : ReqFirstOrLastMsg(c, more)
    BY <2>2, ReadingPage
  <2>3. CASE NoMessage(c)
    BY <2>3, ReadingSmallSteps
  <2>4. CASE SndMsgToAll(c) \/ \E u \in Users : SndMsgToOne(c, u)
    BY <2>4, ReadingSend
  <2>5. CASE ReqLogInList(c)
    <3>1. c \in clients /\ srv' = SrvAt("write", c, 0, {})
          /\ UNCHANGED <<clients, pos, seen>> /\ UNCHANGED mesgs
      BY <2>5 DEF ReqLogInList, Handling, Reply, dbVars
    <3> QED
      BY <3>1, ReadingEmptyReply
  <2>6. CASE \E u \in Users, pwRight \in BOOLEAN :
               \/ ReqMakeAccount(c, u) \/ ReqLogIn(c, u, pwRight)
               \/ ReqLogOut(c, u, pwRight) \/ ReqDeleteAccount(c, u, pwRight)
    BY <2>6, ReadingAccounts
  <2> QED
    BY <1>2, <2>1, <2>2, <2>3, <2>4, <2>5, <2>6 DEF Request
<1>3. CASE Next
  BY <1>2, <1>3, ReadingAccept, ReadingSmallSteps, ReadingDisconnect, ReadingSent,
     ReadingInterval, ReadingRestart
     DEF Next
<1> QED
  BY <1>1, <1>3

(* What a client has read is a prefix of the db, and its next LAST request
   starts no further than just behind it: the pages that ReqFirstOrLastMsg cuts
   and the cursors that SendPacketToClient stores join without a hole, whatever
   the batch size, and whatever the client asked for in between. *)
THEOREM NoGapHolds == Spec => []NoGap
<1>1. Init => IInv /\ Reading
  BY InitIInv, InitReading
<1>2. IInv /\ Reading /\ [Next]_vars => (IInv /\ Reading)'
  BY NextIInv, NextReading
<1>3. IInv /\ Reading => NoGap
  BY DEF Reading
<1> QED
  BY <1>1, <1>2, <1>3, PTL DEF Spec

(* A page of two messages or more gets past its cursor. *)
LEMMA PageAdvances ==
  ASSUME IInv, ReadBatch >= 2, Next
  PROVE  \A c \in ConnId :
           ( /\ ReqFirstOrLastMsg(c, TRUE) /\ srv'.at = "write"
             /\ pos[c] \in 1..(Len(mesgs) - 1) )
           => srv'.ids \ (0..(pos[c] - 1)) # {}
<1> SUFFICES ASSUME NEW c \in ConnId, ReqFirstOrLastMsg(c, TRUE), srv'.at = "write",
                    pos[c] \in 1..(Len(mesgs) - 1)
             PROVE  srv'.ids \ (0..(pos[c] - 1)) # {}
  OBVIOUS
<1> DEFINE p == pos[c]
<1>1. srv' = SrvAt("write", c, NextPos(p), FirstId(p)..LastId(p)) \/ srv' = Loop \/ srv' = Down
  BY DEF ReqFirstOrLastMsg, Reply, NoReply, SizeGarbage, Die
<1>2. srv'.ids = FirstId(p)..LastId(p)
  BY <1>1 DEF SrvAt, Loop, Down
<1>3. Len(mesgs) \in Nat /\ p \in Nat /\ ReadCount \in Nat
  BY Counts DEF IInv
<1>4. p >= 1 /\ p <= Len(mesgs) - 1
  BY <1>3
<1>5. ReadCount >= 2
  BY <1>3, <1>4, Counts DEF IInv
<1> HIDE DEF p
<1>6. FirstId(p) = p - 1
  BY <1>3, <1>4 DEF FirstId
<1>7. LastId(p) \in Int /\ LastId(p) >= p
  BY <1>3, <1>4, <1>5 DEF LastId
<1>8. p \in FirstId(p)..LastId(p) /\ p \notin 0..(p - 1)
  BY <1>3, <1>6, <1>7
<1> QED
  BY <1>2, <1>8 DEF p

(* A LAST request before the end of the db brings news if a page holds two
   messages or more, as the code's ten: the page overlaps the last one by one
   message, and a page of one message would repeat it for ever. *)
THEOREM NextPageAdvancesHolds ==
  ASSUME ReadBatch >= 2
  PROVE  Spec => NextPageAdvances
<1>1. IInv /\ [Next]_vars =>
        [\A c \in ConnId :
           ( /\ ReqFirstOrLastMsg(c, TRUE) /\ srv'.at = "write"
             /\ pos[c] \in 1..(Len(mesgs) - 1) )
           => srv'.ids \ (0..(pos[c] - 1)) # {}]_vars
  BY PageAdvances
<1> QED
  BY <1>1, Invariance, PTL DEF Spec, NextPageAdvances

-----------------------------------------------------------------------------
(* Disconnects *)

(* Two watchers have the same descriptor: no watcher is ever removed, and the
   kernel gives a closed descriptor out again. *)
Shared == \E v, w \in watchers : v # w /\ fdOf[v] = fdOf[w]

(* The connection behind a descriptor is watched under it, and it is a client
   unless a descriptor was used twice. *)
Owners ==
  /\ \A w \in watchers : peer[w] # "none"
  /\ \A g \in Fd : owner[g] \in ConnId =>
        /\ owner[g] \in watchers /\ fdOf[owner[g]] = g
        /\ owner[g] \in clients \/ Shared

LEMMA OwnersKept ==
  ASSUME Owners, UNCHANGED <<fdOf, watchers, clients>>,
         \A w \in watchers : peer[w] # "none" => peer'[w] # "none",
         \A g \in Fd : owner'[g] \in ConnId => owner'[g] = owner[g]
  PROVE  Owners'
<1>1. Shared' <=> Shared
  BY DEF Shared
<1> QED
  BY <1>1 DEF Owners

LEMMA OwnersDie ==
  ASSUME Die
  PROVE  Owners'
BY DEF Die, Owners, ConnId, NoConn

LEMMA OwnersAccept ==
  ASSUME IInv, Owners, NEW c \in ConnId, HandleAcceptEvent(c)
  PROVE  Owners'
<1>1. PICK f \in Fd : /\ owner' = [owner EXCEPT ![f] = c]
                      /\ fdOf' = [fdOf EXCEPT ![c] = f]
  BY DEF HandleAcceptEvent
<1>2. /\ peer[c] = "none" /\ peer' = [peer EXCEPT ![c] = "open"]
      /\ watchers' = watchers \cup {c} /\ clients' = clients \cup {c}
  BY DEF HandleAcceptEvent
<1>3. c \notin watchers /\ watchers \subseteq ConnId
  BY <1>2 DEF Owners, IInv, TypeOK
<1>4. /\ owner'[f] = c /\ \A g \in Fd : g # f => owner'[g] = owner[g]
      /\ fdOf'[c] = f /\ \A d \in ConnId : d # c => fdOf'[d] = fdOf[d]
      /\ peer'[c] = "open" /\ \A d \in ConnId : d # c => peer'[d] = peer[d]
  BY <1>1, <1>2 DEF IInv, TypeOK
<1>5. Shared => Shared'
  BY <1>2, <1>3, <1>4 DEF Shared
<1>6. \A w \in watchers' : peer'[w] # "none"
  BY <1>2, <1>3, <1>4 DEF Owners
<1>7. ASSUME NEW g \in Fd, owner'[g] \in ConnId
      PROVE  /\ owner'[g] \in watchers' /\ fdOf'[owner'[g]] = g
             /\ owner'[g] \in clients' \/ Shared'
  <2>1. CASE g = f
    BY <1>2, <1>4, <2>1
  <2>2. CASE g # f
    <3>1. owner'[g] = owner[g] /\ owner[g] \in watchers /\ owner[g] # c
      BY <1>3, <1>4, <1>7, <2>2 DEF Owners
    <3> QED
      BY <1>2, <1>4, <1>5, <1>7, <3>1 DEF Owners
  <2> QED
    BY <2>1, <2>2
<1> QED
  BY <1>6, <1>7 DEF Owners

(* The hang-up of a descriptor removes the client behind it and no other, or
   two watchers share a descriptor. *)
LEMMA DisconnectRemoves ==
  ASSUME IInv, Owners, NEW f \in Fd, HandleDisconnectEvent(f), ~Shared
  PROVE  /\ clients' = clients \ {owner[f]}
         /\ peer[owner[f]] = "closed"
<1>1. owner[f] \in ConnId /\ peer[owner[f]] = "closed"
  BY DEF HandleDisconnectEvent, HungUp
<1>2. owner[f] \in watchers /\ fdOf[owner[f]] = f /\ owner[f] \in clients
  BY <1>1 DEF Owners
<1>3. {w \in watchers : fdOf[w] = f} = {owner[f]}
  BY <1>2 DEF Shared
<1>4. clients' = RemoveClients({owner[f]})
  BY <1>3 DEF HandleDisconnectEvent
<1> QED
  BY <1>1, <1>2, <1>4 DEF RemoveClients

LEMMA OwnersDisconnect ==
  ASSUME IInv, Owners, NEW f \in Fd, HandleDisconnectEvent(f)
  PROVE  Owners'
<1>1. /\ UNCHANGED <<peer, fdOf, watchers>>
      /\ owner' = [owner EXCEPT ![f] = NoConn]
  BY DEF HandleDisconnectEvent, Release
<1>2. /\ NoConn \notin ConnId
      /\ owner'[f] = NoConn
      /\ \A g \in Fd : g # f => owner'[g] = owner[g]
  BY <1>1 DEF IInv, TypeOK, NoConn, ConnId
<1>3. Shared' <=> Shared
  BY <1>1 DEF Shared
<1>4. ASSUME NEW g \in Fd, owner'[g] \in ConnId
      PROVE  /\ owner'[g] \in watchers' /\ fdOf'[owner'[g]] = g
             /\ owner'[g] \in clients' \/ Shared'
  <2>1. g # f /\ owner'[g] = owner[g]
    BY <1>2, <1>4
  <2>2. owner[g] \in watchers /\ fdOf[owner[g]] = g /\ (owner[g] \in clients \/ Shared)
    BY <1>4, <2>1 DEF Owners
  <2>3. CASE Shared
    BY <1>1, <1>3, <2>1, <2>2, <2>3
  <2>4. CASE ~Shared
    <3>1. clients' = clients \ {owner[f]} /\ owner[f] \in ConnId
      BY <2>4, DisconnectRemoves DEF HandleDisconnectEvent, HungUp
    <3>2. fdOf[owner[f]] = f
      BY <3>1 DEF Owners
    <3>3. owner[g] # owner[f]
      BY <2>1, <2>2, <3>2
    <3> QED
      BY <1>1, <2>1, <2>2, <2>4, <3>1, <3>3
  <2> QED
    BY <2>3, <2>4
<1> QED
  BY <1>1, <1>4 DEF Owners

(* The other steps leave clients and watchers as they are; a store may open a
   file under a free descriptor. *)
LEMMA OtherSteps ==
  ASSUME IInv, NEW c \in ConnId, Request(c) \/ PeerClose(c) \/ ReadPart(c)
                                  \/ ReadMore(c) \/ DropPacket(c)
  PROVE  \/ Die
         \/ /\ UNCHANGED <<fdOf, watchers, clients>>
            /\ \A w \in ConnId : peer[w] # "none" => peer'[w] # "none"
            /\ UNCHANGED owner \/ LeakFd
<1>1. CASE PeerClose(c)
  BY <1>1 DEF PeerClose, IInv, TypeOK
<1>2. CASE ReadPart(c) \/ ReadMore(c) \/ DropPacket(c) \/ NoMessage(c) \/ ReqLogInList(c)
  BY <1>2 DEF ReadPart, ReadMore, DropPacket, NoMessage, ReqLogInList, netVars
<1>3. CASE ReqAllMsg(c) \/ \E more \in BOOLEAN : ReqFirstOrLastMsg(c, more)
  BY <1>3 DEF ReqAllMsg, ReqFirstOrLastMsg, SizeGarbage, netVars
<1>4. ASSUME NEW u \in Users, NEW pwRight \in BOOLEAN,
             \/ ReqMakeAccount(c, u) \/ ReqLogIn(c, u, pwRight)
             \/ ReqLogOut(c, u, pwRight) \/ ReqDeleteAccount(c, u, pwRight)
      PROVE  \/ Die
             \/ /\ UNCHANGED <<peer, fdOf, watchers, clients>>
                /\ UNCHANGED owner \/ LeakFd
  BY <1>4 DEF ReqMakeAccount, ReqLogIn, ReqLogOut, ReqDeleteAccount, netVars
<1>5. CASE SndMsgToAll(c) \/ \E u \in Users : SndMsgToOne(c, u)
  BY <1>5 DEF SndMsgToAll, SndMsgToOne, StoreAndSchedule
<1>6. CASE \E u \in Users : ReqMakeAccount(c, u)
  <2>1. TRUE \in BOOLEAN
    OBVIOUS
  <2> QED
    BY <1>4, <1>6, <2>1
<1> QED
  BY <1>1, <1>2, <1>3, <1>4, <1>5, <1>6 DEF Request

LEMMA OwnersOther ==
  ASSUME IInv, Owners, NEW c \in ConnId,
         Request(c) \/ PeerClose(c) \/ ReadPart(c) \/ ReadMore(c) \/ DropPacket(c)
  PROVE  Owners'
<1>1. CASE Die
  BY <1>1, OwnersDie
<1>2. CASE /\ UNCHANGED <<fdOf, watchers, clients>>
           /\ \A w \in ConnId : peer[w] # "none" => peer'[w] # "none"
           /\ UNCHANGED owner \/ LeakFd
  <2>1. \A g \in Fd : owner'[g] \in ConnId => owner'[g] = owner[g]
    BY <1>2 DEF LeakFd, IInv, TypeOK, ConnId, Leaked
  <2>2. watchers \subseteq ConnId
    BY DEF IInv, TypeOK
  <2> QED
    BY <1>2, <2>1, <2>2, OwnersKept
<1> QED
  BY <1>1, <1>2, OtherSteps

LEMMA OwnersRest ==
  ASSUME Owners, NEW t, IntervalSendPacket(t) \/ SendPacketToClient \/ Restart
  PROVE  Owners'
<1>1. CASE Die
  BY <1>1, OwnersDie
<1>2. CASE ~Die
  <2>1. UNCHANGED netVars /\ UNCHANGED clients
    BY <1>2 DEF IntervalSendPacket, SendPacketToClient, Restart
  <2> QED
    BY <2>1, OwnersKept DEF netVars
<1> QED
  BY <1>1, <1>2

LEMMA InitOwners == Init => Owners
BY DEF Init, Owners, ConnId, NoConn

LEMMA NextOwners ==
  ASSUME IInv, Owners, [Next]_vars
  PROVE  Owners'
<1>1. CASE UNCHANGED vars
  BY <1>1, OwnersKept DEF vars, netVars
<1>2. CASE Next
  BY <1>2, OwnersAccept, OwnersOther, OwnersDisconnect, OwnersRest DEF Next
<1> QED
  BY <1>1, <1>2

(* Which step can take away a client whose connection is open. *)
LEMMA LostClient ==
  ASSUME IInv, Owners, Next, NEW c \in clients \ clients'
  PROVE  peer[c] = "closed" \/ srv'.at = "down" \/ Shared
<1>1. CASE Die
  BY <1>1 DEF Die, Down, SrvAt
<1>2. CASE ~Die
  <2>1. ASSUME NEW f \in Fd, HandleDisconnectEvent(f)
        PROVE  peer[c] = "closed" \/ Shared
    BY <2>1, DisconnectRemoves
  <2>2. ~ \E d \in ConnId : HandleAcceptEvent(d)
    BY DEF HandleAcceptEvent
  <2>3. \A d \in ConnId : ~(Request(d) \/ PeerClose(d) \/ ReadPart(d)
                            \/ ReadMore(d) \/ DropPacket(d))
    BY <1>2, OtherSteps
  <2>4. ~Restart /\ ~SendPacketToClient /\ ~ \E t \in timers : IntervalSendPacket(t)
    BY <1>2 DEF Restart, SendPacketToClient, IntervalSendPacket
  <2> QED
    BY <2>1, <2>2, <2>3, <2>4 DEF Next
<1> QED
  BY <1>1, <1>2

(* One client's disconnect leaves the others alone as long as no descriptor is
   used twice: the only watcher of the descriptor is that of the connection
   behind it, so looper_watcher_dispatch calls server_handle_disconnect_event
   once, for a client that is in the list. *)
THEOREM DisconnectIsLocalHolds == Spec => DisconnectIsLocal
<1>1. Init => IInv /\ Owners
  BY InitIInv, InitOwners
<1>2. IInv /\ Owners /\ [Next]_vars => (IInv /\ Owners)'
  BY NextIInv, NextOwners
<1>3. IInv /\ Owners /\ [Next]_vars =>
        [\A c \in clients \ clients' :
           \/ peer[c] = "closed"
           \/ srv'.at = "down"
           \/ \E v, w \in watchers : v # w /\ fdOf[v] = fdOf[w]]_vars
  BY LostClient DEF Shared
<1> QED
  BY <1>1, <1>2, <1>3, PTL DEF Spec, DisconnectIsLocal

-----------------------------------------------------------------------------
(* Sessions and accounts *)

LEMMA OnlineTypes ==
  ASSUME TypeOK
  PROVE  /\ Len(online) \in Nat
         /\ \A i \in 1..Len(online) : online[i] \in Online /\ online[i].acct \in AcctId
<1>1. Len(online) \in Nat /\ \A i \in 1..Len(online) : online[i] \in Online
  BY DEF TypeOK
<1>2. \A o \in Online : o.acct \in AcctId
  BY DEF Online
<1> QED
  BY <1>1, <1>2

(* What is kept when no session is added and the accounts that the live
   sessions name stay registered. *)
LEMMA AccountsKept ==
  ASSUME SessionAccount,
         Len(online') = Len(online),
         \A i \in 1..Len(online) : online'[i].acct = online[i].acct
                                  /\ (online'[i].live => online[i].live),
         \A i \in 1..Len(online) :
            (online'[i].live /\ \A j \in 1..(i - 1) : online'[j].live)
            => \A k \in 1..Len(accounts) : accounts[k].id = online[i].acct
                  => \E n \in 1..Len(accounts') : accounts'[n].id = online[i].acct,
         Len(online) \in Nat
  PROVE  SessionAccount'
<1> SUFFICES ASSUME NEW i \in 1..Len(online), online'[i].live
             PROVE  /\ \A j \in 1..Len(online) :
                         (online'[j].live /\ online'[j].acct = online'[i].acct) => i = j
                    /\ (\A j \in 1..(i - 1) : online'[j].live) =>
                         \E k \in 1..Len(accounts') : accounts'[k].id = online'[i].acct
  BY DEF SessionAccount
<1>1. online[i].live
  OBVIOUS
<1>2. \A j \in 1..Len(online) :
        (online'[j].live /\ online'[j].acct = online'[i].acct) => i = j
  BY <1>1 DEF SessionAccount
<1>3. ASSUME \A j \in 1..(i - 1) : online'[j].live
      PROVE  \E k \in 1..Len(accounts') : accounts'[k].id = online'[i].acct
  <2>1. \A j \in 1..(i - 1) : j \in 1..Len(online)
    OBVIOUS
  <2>2. \A j \in 1..(i - 1) : online[j].live
    BY <1>3, <2>1
  <2>3. \E k \in 1..Len(accounts) : accounts[k].id = online[i].acct
    BY <1>1, <2>2 DEF SessionAccount
  <2>4. online'[i].acct = online[i].acct
    OBVIOUS
  <2> QED
    BY <1>3, <2>3, <2>4
<1> QED
  BY <1>2, <1>3

LEMMA AccountsUnchanged ==
  ASSUME SessionAccount, UNCHANGED <<online, accounts>>
  PROVE  SessionAccount'
BY DEF SessionAccount

LEMMA AccountsDie ==
  ASSUME Die
  PROVE  SessionAccount'
<1>1. online' = <<>>
  BY DEF Die
<1> QED
  BY <1>1 DEF SessionAccount

(* A node is freed, or none is. *)
LEMMA FreedNode ==
  ASSUME TypeOK, NEW i \in 1..Len(online), DestroyOnline(i)
  PROVE  /\ Len(online') = Len(online)
         /\ \A j \in 1..Len(online) : online'[j].acct = online[j].acct
                                      /\ (online'[j].live => online[j].live)
         /\ ~online'[i].live
<1>1. ASSUME NEW o \in Online
      PROVE  /\ [o EXCEPT !.live = FALSE] \in Online
             /\ [o EXCEPT !.live = FALSE].acct = o.acct
             /\ ~[o EXCEPT !.live = FALSE].live
  BY DEF Online
<1> DEFINE x == [online[i] EXCEPT !.live = FALSE]
<1>2. x \in Online /\ x.acct = online[i].acct /\ ~x.live
  BY <1>1, OnlineTypes
<1>3. online' = [online EXCEPT ![i] = x]
  BY DEF DestroyOnline
<1> HIDE DEF x
<1> QED
  BY <1>2, <1>3, ReplaceElement DEF TypeOK

LEMMA AccountsFreed ==
  ASSUME IInv, SessionAccount, NEW i \in 1..Len(online), DestroyOnline(i),
         UNCHANGED accounts
  PROVE  SessionAccount'
<1>1. TypeOK /\ Len(online) \in Nat
  BY OnlineTypes DEF IInv
<1>2. /\ Len(online') = Len(online)
      /\ \A j \in 1..Len(online) : online'[j].acct = online[j].acct
                                   /\ (online'[j].live => online[j].live)
  BY <1>1, FreedNode
<1> QED
  BY <1>1, <1>2, AccountsKept

(* Logging in: the account is found by its keyword, so it is registered, and
   no live session has its id. *)
LEMMA AccountsLogIn ==
  ASSUME IInv, SessionAccount, NEW c \in ConnId, NEW u \in Users,
         NEW pwRight \in BOOLEAN, ReqLogIn(c, u, pwRight)
  PROVE  SessionAccount'
<1>1. UNCHANGED accounts
  BY DEF ReqLogIn, dbVars
<1>2. CASE UNCHANGED online
  BY <1>1, <1>2, AccountsUnchanged
<1>3. CASE ~UNCHANGED online
  <2>1. PICK id \in Identify(u, pwRight) :
          /\ id # NoId /\ 0 \in FindOnline(id)
          /\ online' = Append(online, [acct |-> id, fd |-> fdOf[c],
                                       live |-> TRUE, conn |-> c])
    BY <1>3 DEF ReqLogIn, MayLogIn
  <2> DEFINE x == [acct |-> id, fd |-> fdOf[c], live |-> TRUE, conn |-> c]
  <2>2. online' = Append(online, x) /\ x.acct = id
    BY <2>1
  <2> HIDE DEF x
  <2>3. Len(online) \in Nat /\ online \in Seq(Online)
    BY DEF IInv, TypeOK
  <2>4. \E k \in 1..Len(accounts) : accounts[k].id = id
    BY <2>1 DEF Identify, Lookup, Listed
  <2>5. \A j \in 1..Len(online) : online[j].live => online[j].acct # id
    BY <2>1, <2>3 DEF FindOnline
  <2>6. /\ Len(online') = Len(online) + 1
        /\ online'[Len(online) + 1] = x
        /\ \A j \in 1..Len(online) : online'[j] = online[j]
    BY <2>2, <2>3
  <2>7. \A j \in 1..Len(online') : j \in 1..Len(online) \/ j = Len(online) + 1
    BY <2>3, <2>6
  <2>8. ASSUME NEW i \in 1..Len(online'), online'[i].live, NEW j \in 1..Len(online'),
               online'[j].live, online'[j].acct = online'[i].acct
        PROVE  i = j
    <3>1. CASE i \in 1..Len(online) /\ j \in 1..Len(online)
      BY <2>6, <2>8, <3>1 DEF SessionAccount
    <3>2. CASE i = Len(online) + 1 /\ j \in 1..Len(online)
      BY <2>2, <2>5, <2>6, <2>8, <3>2
    <3>3. CASE j = Len(online) + 1 /\ i \in 1..Len(online)
      BY <2>2, <2>5, <2>6, <2>8, <3>3
    <3> QED
      BY <2>7, <3>1, <3>2, <3>3
  <2>9. ASSUME NEW i \in 1..Len(online'), online'[i].live,
               \A j \in 1..(i - 1) : online'[j].live
        PROVE  \E k \in 1..Len(accounts') : accounts'[k].id = online'[i].acct
    <3>1. CASE i \in 1..Len(online)
      <4>1. \A j \in 1..(i - 1) : j \in 1..Len(online)
        BY <2>3, <3>1
      <4>2. \A j \in 1..(i - 1) : online[j].live
        BY <2>6, <2>9, <4>1
      <4>3. online[i].live /\ online'[i].acct = online[i].acct
        BY <2>6, <2>9, <3>1
      <4> QED
        BY <1>1, <3>1, <4>2, <4>3 DEF SessionAccount
    <3>2. CASE i = Len(online) + 1
      BY <1>1, <2>2, <2>4, <2>6, <3>2
    <3> QED
      BY <2>7, <3>1, <3>2
  <2> QED
    BY <2>8, <2>9 DEF SessionAccount
<1> QED
  BY <1>2, <1>3

LEMMA AccountsLogOut ==
  ASSUME IInv, SessionAccount, NEW c \in ConnId, NEW u \in Users,
         NEW pwRight \in BOOLEAN, ReqLogOut(c, u, pwRight)
  PROVE  SessionAccount'
<1>1. CASE Die
  BY <1>1, AccountsDie
<1>2. CASE ~Die
  <2>1. /\ UNCHANGED accounts
        /\ UNCHANGED online \/ \E i \in 1..Len(online) : DestroyOnline(i)
    BY <1>2 DEF ReqLogOut, FindOnline, dbVars
  <2> QED
    BY <2>1, AccountsUnchanged, AccountsFreed
<1> QED
  BY <1>1, <1>2

(* A new account is appended. *)
LEMMA AccountsMake ==
  ASSUME IInv, SessionAccount, NEW c \in ConnId, NEW u \in Users, ReqMakeAccount(c, u)
  PROVE  SessionAccount'
<1>1. CASE Die
  BY <1>1, AccountsDie
<1>2. CASE ~Die
  <2>1. UNCHANGED online /\ (UNCHANGED accounts \/ AddAccount(u))
    BY <1>2 DEF ReqMakeAccount
  <2>2. CASE AddAccount(u)
    <3>1. PICK a : accounts' = Append(accounts, a)
      BY <2>2 DEF AddAccount
    <3>2. Len(accounts) \in Nat /\ accounts \in Seq(Account)
      BY DEF IInv, TypeOK
    <3>3. \A k \in 1..Len(accounts) : k \in 1..Len(accounts') /\ accounts'[k] = accounts[k]
      BY <3>1, <3>2
    <3>4. Len(online) \in Nat
      BY OnlineTypes DEF IInv
    <3> QED
      BY <2>1, <3>3, <3>4, AccountsKept
  <2> QED
    BY <2>1, <2>2, AccountsUnchanged
<1> QED
  BY <1>1, <1>2

(* An entry other than the one taken off the list is still in it. *)
LEMMA OthersListed ==
  ASSUME TypeOK, NEW k \in 1..Len(accounts), accounts' = RemoveAt(accounts, k),
         NEW m \in 1..Len(accounts), m # k
  PROVE  \E n \in 1..Len(accounts') : accounts'[n] = accounts[m]
<1>1. accounts \in Seq(Account)
  BY DEF TypeOK
<1>2. Len(accounts) \in Nat
  BY <1>1
<1>3. /\ Len(accounts') = Len(accounts) - 1
      /\ \A i \in 1..(Len(accounts) - 1) :
           accounts'[i] = IF i < k THEN accounts[i] ELSE accounts[i + 1]
  BY <1>1, RemoveAtProperties
<1>4. CASE m < k
  <2>1. m \in 1..(Len(accounts) - 1)
    BY <1>2, <1>4
  <2> QED
    BY <1>3, <1>4, <2>1
<1>5. CASE m > k
  <2>1. m - 1 \in 1..(Len(accounts) - 1) /\ ~(m - 1 < k) /\ (m - 1) + 1 = m
    BY <1>2, <1>5
  <2> QED
    BY <1>3, <2>1
<1> QED
  BY <1>4, <1>5

(* Deleting an account: the live session of its id is freed with it, or a node
   that was freed before is found first. *)
LEMMA AccountsDelete ==
  ASSUME IInv, SessionAccount, NEW c \in ConnId, NEW u \in Users,
         NEW pwRight \in BOOLEAN, ReqDeleteAccount(c, u, pwRight)
  PROVE  SessionAccount'
<1>1. CASE Die
  BY <1>1, AccountsDie
<1>2. CASE UNCHANGED <<online, accounts>>
  BY <1>2, AccountsUnchanged
<1>3. ASSUME NEW id, DeleteAccount(id), NEW i \in FindOnline(id),
             IF i = 0 THEN UNCHANGED online ELSE DestroyOnline(i)
      PROVE  SessionAccount'
  <2>1. PICK k \in 1..Len(accounts) :
          accounts[k].id = id /\ accounts' = RemoveAt(accounts, k)
    BY <1>3 DEF DeleteAccount
  <2>2. TypeOK /\ Len(online) \in Nat
    BY OnlineTypes DEF IInv
  <2>3. \A m \in 1..Len(accounts) : accounts[m].id # id
           => \E n \in 1..Len(accounts') : accounts'[n].id = accounts[m].id
    <3> SUFFICES ASSUME NEW m \in 1..Len(accounts), accounts[m].id # id
                 PROVE  \E n \in 1..Len(accounts') : accounts'[n].id = accounts[m].id
      OBVIOUS
    <3>1. PICK n \in 1..Len(accounts') : accounts'[n] = accounts[m]
      BY <2>1, <2>2, OthersListed
    <3> QED
      BY <3>1
  <2>4. CASE i = 0
    <3>1. UNCHANGED online /\ \A j \in 1..Len(online) : online[j].live => online[j].acct # id
      BY <1>3, <2>4 DEF FindOnline
    <3> QED
      BY <2>2, <2>3, <3>1, AccountsKept
  <2>5. CASE i # 0
    <3>1. /\ i \in 1..Len(online) /\ DestroyOnline(i)
          /\ online[i].live => online[i].acct = id
          /\ \A j \in 1..(i - 1) : online[j].live => online[j].acct # id
      BY <1>3, <2>5 DEF FindOnline
    <3>2. /\ Len(online') = Len(online)
          /\ \A j \in 1..Len(online) : online'[j].acct = online[j].acct
                                       /\ (online'[j].live => online[j].live)
          /\ ~online'[i].live
      BY <2>2, <3>1, FreedNode
    <3>3. ASSUME NEW j \in 1..Len(online), online'[j].live,
                 \A h \in 1..(j - 1) : online'[h].live
          PROVE  online[j].acct # id
      <4>1. online[j].live /\ j # i
        BY <3>2, <3>3
      <4>2. i \notin 1..(j - 1)
        BY <3>2, <3>3
      <4>3. j \in 1..(i - 1)
        BY <2>2, <3>1, <4>1, <4>2
      <4> QED
        BY <3>1, <4>1, <4>3
    <3> QED
      BY <2>2, <2>3, <3>2, <3>3, AccountsKept
  <2> QED
    BY <2>4, <2>5
<1> QED
  BY <1>1, <1>2, <1>3 DEF ReqDeleteAccount

LEMMA InitAccountsKnown == Init => SessionAccount
<1> SUFFICES ASSUME Init PROVE SessionAccount
  OBVIOUS
<1>1. online = <<>>
  BY DEF Init
<1> QED
  BY <1>1 DEF SessionAccount

LEMMA NextAccounts ==
  ASSUME IInv, SessionAccount, [Next]_vars
  PROVE  SessionAccount'
<1>1. CASE UNCHANGED vars
  BY <1>1, AccountsUnchanged DEF vars, dbVars
<1>2. CASE Die
  BY <1>2, AccountsDie
<1>3. ASSUME NEW c \in ConnId, Request(c), ~Die
      PROVE  SessionAccount'
  <2>1. CASE \/ ReqAllMsg(c) \/ \E more \in BOOLEAN : ReqFirstOrLastMsg(c, more)
             \/ NoMessage(c) \/ ReqLogInList(c)
    <3>1. UNCHANGED <<online, accounts>>
      BY <1>3, <2>1
         DEF ReqAllMsg, ReqFirstOrLastMsg, NoMessage, ReqLogInList, SizeGarbage, dbVars
    <3> QED
      BY <3>1, AccountsUnchanged
  <2>2. CASE SndMsgToAll(c) \/ \E u \in Users : SndMsgToOne(c, u)
    BY <2>2, AccountsUnchanged DEF SndMsgToAll, SndMsgToOne
  <2>3. CASE \E u \in Users : ReqMakeAccount(c, u)
    BY <2>3, AccountsMake
  <2>4. CASE \E u \in Users, pwRight \in BOOLEAN :
               \/ ReqLogIn(c, u, pwRight) \/ ReqLogOut(c, u, pwRight)
               \/ ReqDeleteAccount(c, u, pwRight)
    BY <2>4, AccountsLogIn, AccountsLogOut, AccountsDelete
  <2> QED
    BY <1>3, <2>1, <2>2, <2>3, <2>4 DEF Request
<1>4. ASSUME Next, ~Die, ~ \E c \in ConnId : Request(c)
      PROVE  UNCHANGED <<online, accounts>>
  BY <1>4
     DEF Next, HandleAcceptEvent, PeerClose, ReadPart, ReadMore, DropPacket,
         HandleDisconnectEvent, SendPacketToClient, IntervalSendPacket, Restart, dbVars
<1> QED
  BY <1>1, <1>2, <1>3, <1>4, AccountsUnchanged

(* An account is online once, and while it is registered: server_add_online
   refuses a second session, an account that is found by its name is listed,
   and server_delete_account frees the session of the entry it deletes, but
   for the list's freed nodes that the search may stop at. *)
THEOREM SessionAccountHolds == Spec => []SessionAccount
<1>1. Init => IInv /\ SessionAccount
  BY InitIInv, InitAccountsKnown
<1>2. IInv /\ SessionAccount /\ [Next]_vars => (IInv /\ SessionAccount)'
  BY NextIInv, NextAccounts
<1> QED
  BY <1>1, <1>2, PTL DEF Spec

-----------------------------------------------------------------------------
(* The refinement mapping of Delivery *)

Status == [m \in MesgId |->
             IF m > Len(mesgs) THEN "unsent"
             ELSE IF \E t \in timers : t.mesg = m THEN "pending" ELSE "done"]

Barred == [m \in MesgId |->
             IF m <= Len(mesgs) /\ mesgs[m].to = SndAll
             THEN mesgs[m].from ELSE NoConn]

(* Numbers of stored messages, and of the messages that timers are for. *)
LEMMA StoredIds ==
  ASSUME IInv
  PROVE  /\ Len(mesgs) \in Nat /\ Len(mesgs) <= MaxMesg /\ MaxMesg \in Nat
         /\ \A m \in MesgId : m \in Nat
         /\ \A t \in timers : t.mesg \in MesgId /\ ~(t.mesg > Len(mesgs))
<1>1. Len(mesgs) \in Nat /\ Len(mesgs) <= MaxMesg /\ MaxMesg \in Nat
  BY BoundsAssumption DEF IInv, TypeOK
<1>2. \A m \in MesgId : m \in Nat
  BY DEF MesgId
<1>3. \A t \in timers : t.mesg \in MesgId /\ t.mesg <= Len(mesgs)
  BY ElementTypes DEF IInv, Pending, PendingTimer
<1> QED
  BY <1>1, <1>2, <1>3

LEMMA InitDelivery == Init => D!Init
<1> SUFFICES ASSUME Init PROVE D!Init
  OBVIOUS
<1>1. \A m \in MesgId : m > Len(mesgs) /\ ~(m <= Len(mesgs))
  BY DEF Init, MesgId
<1> QED
  BY <1>1 DEF Init, D!Init, NoMesgs

(* Steps that concern no message *)
LEMMA NoDelivery ==
  ASSUME UNCHANGED <<mesgs, timers, got>>
  PROVE  UNCHANGED D!vars
BY DEF D!vars

(* The process dies: every pending message is lost. *)
LEMMA StatusLost ==
  ASSUME IInv, timers' = {}, UNCHANGED mesgs
  PROVE  /\ Status' = [m \in MesgId |-> IF Status[m] = "pending" THEN "done" ELSE Status[m]]
         /\ Barred' = Barred
BY DEF Status, Barred

LEMMA DieEnds ==
  ASSUME IInv, Die, UNCHANGED <<mesgs, got>>
  PROVE  D!End
<1>1. timers' = {}
  BY DEF Die
<1> QED
  BY <1>1, StatusLost DEF D!End, D!LoseAll, Status, Barred

(* A message that is stored with its timer is accepted. *)
LEMMA StoreAccepts ==
  ASSUME IInv, NEW c \in ConnId, NEW to \in Users \cup {SndAll}, NEW f, NEW goal,
         StoreAndSchedule(c, to, f, goal), UNCHANGED got
  PROVE  \E m \in MesgId, b \in ConnId \cup {NoConn} : D!Accept(m, b)
<1>1. PICK n \in Nat : n = Len(mesgs) + 1
  BY StoredIds
<1> DEFINE x == [from |-> c, to |-> to, goal |-> goal]
           r == [mesg |-> n, fd |-> f, all |-> (to = SndAll), goal |-> goal]
           b == IF to = SndAll THEN c ELSE NoConn
<1>2. /\ mesgs' = Append(mesgs, x) /\ timers' = timers \cup {r}
      /\ Len(mesgs) < MaxMesg
  BY <1>1 DEF StoreAndSchedule
<1>3. x.from = c /\ x.to = to /\ r.mesg = n
  OBVIOUS
<1> HIDE DEF x, r
<1>4. n \in MesgId /\ n > Len(mesgs)
  BY <1>1, <1>2, StoredIds DEF MesgId
<1>5. /\ Len(mesgs') = n /\ mesgs'[n] = x
      /\ \A m \in 1..Len(mesgs) : mesgs'[m] = mesgs[m]
  BY <1>1, <1>2 DEF IInv, TypeOK
<1>6. \A m \in MesgId : /\ m > Len(mesgs') <=> (m > Len(mesgs) /\ m # n)
                        /\ m <= Len(mesgs') <=> (m <= Len(mesgs) \/ m = n)
                        /\ m <= Len(mesgs) => m \in 1..Len(mesgs)
  BY <1>1, <1>5, StoredIds DEF MesgId
<1>7. \A m \in MesgId : m # n =>
        ((\E t \in timers' : t.mesg = m) <=> (\E t \in timers : t.mesg = m))
  BY <1>2, <1>3
<1>8. \E t \in timers' : t.mesg = n
  BY <1>2, <1>3
<1>9. ~(n > Len(mesgs')) /\ n <= Len(mesgs')
  BY <1>1, <1>5
<1>10. Status[n] = "unsent"
  BY <1>4 DEF Status
<1>11. Status' = [Status EXCEPT ![n] = "pending"]
  <2>1. \A m \in MesgId :
          (IF m > Len(mesgs') THEN "unsent"
           ELSE IF \E t \in timers' : t.mesg = m THEN "pending" ELSE "done")
          = (IF m = n THEN "pending" ELSE Status[m])
    BY <1>6, <1>7, <1>8, <1>9 DEF Status
  <2> QED
    BY <1>4, <2>1 DEF Status
<1>12. Barred' = [Barred EXCEPT ![n] = b]
  <2>1. ASSUME NEW m \in MesgId
        PROVE  (IF m <= Len(mesgs') /\ mesgs'[m].to = SndAll
                THEN mesgs'[m].from ELSE NoConn)
               = (IF m = n THEN b ELSE Barred[m])
    <3>1. CASE m = n
      BY <1>3, <1>5, <1>9, <3>1
    <3>2. CASE m # n
      BY <1>5, <1>6, <3>2 DEF Barred
    <3> QED
      BY <3>1, <3>2
  <2> QED
    BY <1>4, <2>1 DEF Barred
<1>13. D!Accept(n, b)
  BY <1>10, <1>11, <1>12 DEF D!Accept, Status, Barred
<1> QED
  BY <1>4, <1>13

(* A timer that expires hands its message out to those it is pushed to. *)
LEMMA TimerHandsOut ==
  ASSUME IInv, IInv', NEW t \in timers, IntervalSendPacket(t)
  PROVE  \E S \in SUBSET ConnId : D!HandOut(t.mesg, S)
<1> DEFINE m == t.mesg
<1>0. PICK S \in SUBSET ConnId : S = {c \in ConnId : got'[m][c] > 0}
  OBVIOUS
<1>1. m \in MesgId /\ ~(m > Len(mesgs)) /\ m \in 1..Len(mesgs)
  BY StoredIds DEF MesgId
<1>2. UNCHANGED mesgs
  BY DEF IntervalSendPacket, dbVars
<1>3. Status[m] = "pending"
  BY <1>1 DEF Status
<1>4. Barred[m] \notin S
  <2>1. CASE mesgs[m].to = SndAll
    <3>1. got'[m][mesgs[m].from] = 0
      BY <1>1, <1>2, <2>1 DEF IInv, History, NoEcho
    <3> QED
      BY <1>0, <1>1, <2>1, <3>1 DEF Barred
  <2>2. CASE mesgs[m].to # SndAll
    BY <1>0, <1>1, <2>2 DEF Barred, NoConn, ConnId
  <2> QED
    BY <2>1, <2>2
<1>5. Barred' = Barred
  BY <1>2 DEF Barred
<1>6. got \in [MesgId -> [ConnId -> Nat]] /\ got' \in [MesgId -> [ConnId -> Nat]]
  BY DEF IInv, TypeOK
<1>7. \A c \in ConnId : got'[m][c] = IF c \in S THEN 1 ELSE 0
  <2>1. AtMostOnce'
    BY DEF IInv, History
  <2>2. \A c \in ConnId : got'[m][c] <= 1
    BY <1>1, <2>1 DEF AtMostOnce
  <2>3. \A c \in ConnId : got'[m][c] \in Nat
    BY <1>1, <1>6
  <2> HIDE DEF m
  <2> QED
    BY <1>0, <2>2, <2>3
<1>8. \A n \in MesgId : n # m => got'[n] = got[n]
  BY <1>1, <1>6 DEF IntervalSendPacket
<1>9. got'[m] = [c \in ConnId |-> IF c \in S THEN 1 ELSE 0]
  BY <1>1, <1>7, <1>6
<1> HIDE DEF m
<1>10. got' = [got EXCEPT ![m] = [c \in ConnId |-> IF c \in S THEN 1 ELSE 0]]
  BY <1>1, <1>6, <1>8, <1>9
<1>11. D!HandOut(m, S)
  BY <1>3, <1>4, <1>5, <1>10 DEF D!HandOut, Status, Barred
<1> QED
  BY <1>11 DEF m

LEMMA TimerDelivers ==
  ASSUME IInv, IInv', NEW t \in timers, IntervalSendPacket(t)
  PROVE  D!Next
<1> DEFINE m == t.mesg
<1>1. PICK S \in SUBSET ConnId : D!HandOut(m, S)
  BY TimerHandsOut
<1>2. m \in MesgId /\ UNCHANGED mesgs
  BY StoredIds DEF IntervalSendPacket, dbVars
<1>3. CASE Die
  <2>1. timers' = {}
    BY <1>3 DEF Die
  <2>2. D!LoseAll
    BY <1>2, <2>1, StatusLost DEF D!LoseAll, Status
  <2> QED
    BY <1>1, <1>2, <2>2 DEF D!Next, D!End
<1>4. CASE ~Die
  <2>1. timers' = timers \ {t}
    BY <1>4 DEF IntervalSendPacket, TimersAfter
  <2>2. \A s \in timers : s.mesg = m => s = t
    BY DEF IInv, Pending
  <2>3. ~ \E s \in timers' : s.mesg = m
    BY <2>1, <2>2
  <2>4. \A n \in MesgId : n # m =>
          ((\E s \in timers' : s.mesg = n) <=> (\E s \in timers : s.mesg = n))
    BY <2>1
  <2>5. ~(m > Len(mesgs))
    BY StoredIds
  <2>6. Status' = [Status EXCEPT ![m] = "done"]
    BY <1>2, <2>3, <2>4, <2>5 DEF Status
  <2>7. D!Deliver(m, S)
    BY <1>1, <2>6 DEF D!Deliver, Status
  <2> QED
    BY <1>2, <2>7 DEF D!Next
<1> QED
  BY <1>3, <1>4

(* What a request does about messages *)
LEMMA RequestDelivers ==
  ASSUME IInv, NEW c \in ConnId, Request(c)
  PROVE  D!Next \/ UNCHANGED D!vars
<1>1. CASE UNCHANGED <<mesgs, timers, got>>
  BY <1>1, NoDelivery
<1>2. CASE Die /\ UNCHANGED <<mesgs, got>>
  BY <1>2, DieEnds DEF D!Next
<1>3. CASE \/ ReqAllMsg(c) \/ \E more \in BOOLEAN : ReqFirstOrLastMsg(c, more)
           \/ NoMessage(c) \/ ReqLogInList(c)
  <2>1. \/ UNCHANGED <<mesgs, timers, got>>
        \/ Die /\ UNCHANGED <<mesgs, got>>
    BY <1>3
       DEF ReqAllMsg, ReqFirstOrLastMsg, NoMessage, ReqLogInList, SizeGarbage, dbVars
  <2> QED
    BY <1>1, <1>2, <2>1
<1>4. ASSUME NEW u \in Users, ReqMakeAccount(c, u)
      PROVE  D!Next \/ UNCHANGED D!vars
  <2>1. \/ UNCHANGED <<mesgs, timers, got>>
        \/ Die /\ UNCHANGED <<mesgs, got>>
    BY <1>4 DEF ReqMakeAccount
  <2> QED
    BY <1>1, <1>2, <2>1
<1>5. ASSUME NEW u \in Users, NEW pwRight \in BOOLEAN,
             \/ ReqLogIn(c, u, pwRight) \/ ReqLogOut(c, u, pwRight)
             \/ ReqDeleteAccount(c, u, pwRight)
      PROVE  D!Next \/ UNCHANGED D!vars
  <2>1. \/ UNCHANGED <<mesgs, timers, got>>
        \/ Die /\ UNCHANGED <<mesgs, got>>
    BY <1>5 DEF ReqLogIn, ReqLogOut, ReqDeleteAccount, dbVars
  <2> QED
    BY <1>1, <1>2, <2>1
<1>6. CASE SndMsgToAll(c)
  BY <1>6, StoreAccepts DEF SndMsgToAll, D!Next
<1>7. ASSUME NEW u \in Users, SndMsgToOne(c, u)
      PROVE  D!Next \/ UNCHANGED D!vars
  <2>1. \/ UNCHANGED <<mesgs, timers, got>>
        \/ \E f, goal : StoreAndSchedule(c, u, f, goal) /\ UNCHANGED got
    BY <1>7 DEF SndMsgToOne
  <2> QED
    BY <1>1, <2>1, StoreAccepts DEF D!Next
<1> QED
  BY <1>3, <1>4, <1>5, <1>6, <1>7 DEF Request

(* Every step of the server is a step of Delivery, or concerns no message. *)
LEMMA NextDelivers ==
  ASSUME IInv, IInv', [Next]_vars
  PROVE  [D!Next]_(D!vars)
<1>1. CASE UNCHANGED vars
  BY <1>1, NoDelivery DEF vars, dbVars
<1>2. CASE \E c \in ConnId : Request(c)
  BY <1>2, RequestDelivers
<1>3. CASE \E t \in timers : IntervalSendPacket(t)
  BY <1>3, TimerDelivers
<1>4. CASE SendPacketToClient
  <2>1. \/ UNCHANGED <<mesgs, timers, got>>
        \/ Die /\ UNCHANGED <<mesgs, got>>
    BY <1>4 DEF SendPacketToClient, dbVars
  <2> QED
    BY <2>1, NoDelivery, DieEnds DEF D!Next
<1>5. CASE \/ \E c \in ConnId : \/ HandleAcceptEvent(c) \/ PeerClose(c) \/ ReadPart(c)
                                \/ ReadMore(c) \/ DropPacket(c)
           \/ \E f \in Fd : HandleDisconnectEvent(f)
           \/ Restart
  <2>1. UNCHANGED <<mesgs, timers, got>>
    BY <1>5 DEF HandleAcceptEvent, PeerClose, ReadPart, ReadMore, DropPacket,
                HandleDisconnectEvent, Restart, dbVars
  <2> QED
    BY <2>1, NoDelivery
<1> QED
  BY <1>1, <1>2, <1>3, <1>4, <1>5 DEF Next

(* The timers of the looper implement the delivery of messages: whatever
   becomes of descriptors and connections until server_interval_send_packet
   runs, a message is handed out once, in one go, and not to its sender; and
   what the process had pending when it died is lost, never repeated. *)
THEOREM ImplementsDelivery == Spec => DeliverySpec
<1>1. IInv /\ IInv' /\ [Next]_vars => [D!Next]_(D!vars)
  BY NextDelivers
<1> QED
  BY <1>1, InitDelivery, Invariance, PTL DEF Spec, DeliverySpec, D!Spec
=============================================================================
