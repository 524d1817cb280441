---------------------------- MODULE Client_proof ----------------------------
(***************************************************************************)
(* What the client sends and when it ends, for every length of a buffer,   *)
(* every set of lines and every room in the socket: a command typed at a   *)
(* terminal is a request of its own, requests go out in the order of their *)
(* lines, and the end of the input does not end the program.               *)
(***************************************************************************)
EXTENDS Client, SequenceLemmas

-----------------------------------------------------------------------------
(* The inductive invariant *)

(* Lines follow one another; a list that holds everything up to the last
   newline has been destroyed. *)
Layout ==
  /\ \A k \in 1..Len(ends) : ends[k] > 0
  /\ \A j, k \in 1..Len(ends) : j < k => ends[j] < ends[k]
  /\ rd = Total => start = rd

(* A read of a terminal never goes beyond a newline: none is in the list. *)
NoneWaiting == input = "terminal" => \A k \in 1..Len(ends) : ends[k] <= start \/ ends[k] > rd

(* Who waits for a reply has typed one line at most that was not handled. *)
OneTyped == waits => \A k \in 1..Len(ends) : k < Len(ends) => ends[k] <= start

(* What poll() reported is still so when it is looked at. *)
Reports ==
  /\ "hup" \in ready => ~up
  /\ round \in {"stdin", "write", "socket"} /\ "res" \in ready => unread > 0

(* Requests go out in the order of their lines, and no line is in two. *)
RequestsInOrder ==
  \A i, j \in 1..Len(sent) : i < j => sent[i].to < sent[j].from

(* The lines sent lie before the list. *)
SentBefore ==
  \A i \in 1..Len(sent) : sent[i].from <= sent[i].to /\ ends[sent[i].to] <= start

IInv ==
  /\ TypeOK /\ Layout /\ NoneWaiting /\ OneTyped /\ Reports
  /\ SentBefore /\ RequestsInOrder /\ OneLineOneRequest

-----------------------------------------------------------------------------
(* The input *)

LEMMA Bounds ==
  /\ BufLen \in Nat /\ RequestRoom \in Nat /\ PieceRoom \in Nat /\ MaxLines \in Nat
  /\ BufLen > 0 /\ RequestRoom > 0 /\ PieceRoom > 0
  /\ MaxReply \in Nat
  /\ \A l \in Lines : l.len \in Nat /\ l.len > 0
BY ClientAssumption

(* The lines by their places; the end of the last is the end of the input. *)
LEMMA Input ==
  ASSUME TypeOK, Layout
  PROVE  /\ Len(ends) \in Nat /\ DOMAIN ends = 1..Len(ends) /\ ends \in Seq(Nat)
         /\ \A k \in 1..Len(ends) : ends[k] \in Nat /\ ends[k] <= Total
         /\ Total \in Nat /\ rd \in Nat /\ start \in Nat /\ start <= rd /\ rd <= Total
         /\ Len(ends) > 0 => Total = ends[Len(ends)] /\ Len(ends) \in 1..Len(ends)
         /\ Len(ends) = 0 => Total = 0 /\ rd = 0
<1>1. ends \in Seq(Nat) /\ Len(ends) \in Nat /\ rd \in Nat /\ start \in Nat /\ start <= rd /\ rd <= Total
  BY DEF TypeOK
<1>2. CASE Len(ends) = 0
  <2>1. ends = <<>>
    BY <1>1, <1>2
  <2>2. Total = 0
    BY <2>1 DEF Total
  <2> QED
    BY <1>1, <1>2, <2>2
<1>3. CASE Len(ends) > 0
  <2>1. Total = ends[Len(ends)] /\ Len(ends) \in 1..Len(ends)
    BY <1>1, <1>3 DEF Total
  <2>2. \A k \in 1..Len(ends) : ends[k] \in Nat
    BY <1>1
  <2>3. \A k \in 1..Len(ends) : ends[k] <= Total
    BY <1>1, <2>1, <2>2 DEF Layout
  <2> QED
    BY <1>1, <1>3, <2>1, <2>2, <2>3
<1> QED
  BY <1>1, <1>2, <1>3

(* Where the next newline is. *)
LEMMA NextNewline ==
  ASSUME TypeOK, Layout, rd # Total
  PROVE  /\ LineEnd \in Nat /\ rd < LineEnd /\ LineEnd <= Total
         /\ \A k \in 1..Len(ends) : ends[k] > rd => LineEnd <= ends[k]
<1> DEFINE T == LinesIn(rd, Total)
<1>1. Len(ends) > 0 /\ Len(ends) \in T
  BY Input DEF LinesIn
<1>2. T \subseteq Nat /\ T # {} /\ T \subseteq 1..Len(ends)
  BY <1>1 DEF LinesIn
<1>3. PICK m \in T : m = Min(T) /\ \A k \in T : m <= k
  BY <1>2, MinIn
<1>4. LineEnd = ends[m]
  BY <1>3 DEF LineEnd
<1>5. m \in 1..Len(ends) /\ rd < ends[m]
  BY <1>3 DEF LinesIn
<1>6. ASSUME NEW k \in 1..Len(ends), ends[k] > rd
      PROVE  ends[m] <= ends[k]
  <2>1. k \in T
    BY <1>6, Input DEF LinesIn
  <2>2. m <= k
    BY <1>3, <2>1
  <2> QED
    BY <1>5, <2>2, Input DEF Layout
<1> QED
  BY <1>4, <1>5, <1>6, Input

(* A read() fits into the buffer and does not go beyond the input, nor, of a
   terminal, beyond the line. *)
LEMMA Reading ==
  ASSUME TypeOK, Layout, NEW n \in ReadSizes
  PROVE  /\ n \in Nat /\ rd + n <= Total /\ n <= Available
         /\ Available \in 1..BufLen
         /\ n = 0 => rd = Total
         /\ input = "terminal" => \A k \in 1..Len(ends) : ends[k] > rd => ends[k] >= rd + n
<1>1. Available \in 1..BufLen
  BY Bounds DEF Available, TypeOK
<1>2. \A m \in Nat : FitsIn(m) \in Nat /\ FitsIn(m) <= m /\ FitsIn(m) <= Available
                     /\ (FitsIn(m) = 0 => m = 0)
  BY <1>1 DEF FitsIn
<1>3. CASE rd = Total
  <2>1. n = 0
    BY <1>3 DEF ReadSizes
  <2> QED
    BY <1>1, <1>3, <2>1, Input
<1>4. CASE rd # Total
  <2>1. Total - rd \in Nat /\ Total - rd > 0
    BY <1>4, Input
  <2>2. CASE input = "terminal"
    <3>1. LineEnd - rd \in Nat /\ LineEnd - rd > 0 /\ LineEnd <= Total
      BY <1>4, NextNewline, Input
    <3>2. n = FitsIn(LineEnd - rd)
      BY <1>4, <2>2 DEF ReadSizes
    <3>3. n \in Nat /\ n <= LineEnd - rd /\ n <= Available /\ n # 0
      BY <1>2, <3>1, <3>2
    <3> QED
      BY <1>1, <1>4, <3>1, <3>3, NextNewline, Input
  <2>3. CASE input = "pipe"
    <3>1. n \in 1..FitsIn(Total - rd)
      BY <1>4, <2>3 DEF ReadSizes
    <3>2. FitsIn(Total - rd) \in Nat /\ FitsIn(Total - rd) <= Total - rd /\ FitsIn(Total - rd) <= Available
      BY <1>2, <2>1
    <3>3. n \in Nat /\ n # 0 /\ n <= Total - rd /\ n <= Available
      BY <1>1, <3>1, <3>2, Input
    <3> QED
      BY <1>1, <2>1, <2>3, <3>3, Input
  <2>4. CASE input = "file"
    <3>1. n = FitsIn(Total - rd)
      BY <1>4, <2>4 DEF ReadSizes
    <3> QED
      BY <1>1, <1>2, <2>1, <2>4, <3>1, Input
  <2> QED
    BY <2>2, <2>3, <2>4 DEF TypeOK
<1> QED
  BY <1>3, <1>4

(* The lines a command is made of: the last is the one that ends where the read
   does. *)
LEMMA Command ==
  ASSUME TypeOK, Layout, NEW n \in Nat, n > 0, EndsLine(n)
  PROVE  LET T == LinesIn(start, rd + n)
         IN  /\ Min(T) \in T /\ Max(T) \in T /\ T \subseteq 1..Len(ends)
             /\ Min(T) <= Max(T) /\ ends[Max(T)] = rd + n
             /\ \A k \in T : Min(T) <= k
<1> DEFINE T == LinesIn(start, rd + n)
<1>1. PICK e \in 1..Len(ends) : ends[e] = rd + n
  BY DEF EndsLine
<1>2. T \subseteq 1..Len(ends) /\ T \subseteq Nat
  BY Input DEF LinesIn
<1>3. e \in T
  BY <1>1, Input DEF LinesIn
<1>4. ASSUME NEW k \in T
      PROVE  k <= e
  <2>1. k \in 1..Len(ends) /\ ends[k] <= rd + n
    BY DEF LinesIn
  <2>2. ~(e < k)
    BY <1>1, <2>1, Input DEF Layout
  <2> QED
    BY <2>1, <2>2, Input
<1>5. Max(T) = e
  <2>1. \A m \in T : (\A k \in T : m >= k) => m = e
    BY <1>2, <1>3, <1>4
  <2>2. \A k \in T : e >= k
    BY <1>2, <1>3, <1>4
  <2> HIDE DEF T
  <2> QED
    BY <1>3, <2>1, <2>2 DEF Max
<1>6. Min(T) \in T /\ \A k \in T : Min(T) <= k
  BY <1>2, <1>3, MinIn
<1> QED
  BY <1>1, <1>2, <1>3, <1>5, <1>6

(* A request's lines are places of the input. *)
LEMMA Requests ==
  ASSUME TypeOK
  PROVE  /\ Len(sent) \in Nat
         /\ \A i \in 1..Len(sent) :
              /\ sent[i].from \in 1..Len(ends) /\ sent[i].from \in Nat
              /\ sent[i].to \in 1..Len(ends) /\ sent[i].to \in Nat
<1>1. PICK P : P = [from : 1..Len(ends), to : 1..Len(ends)]
  OBVIOUS
<1>2. sent \in Seq(P) /\ Len(ends) \in Nat
  BY <1>1 DEF TypeOK
<1>3. Len(sent) \in Nat /\ \A i \in 1..Len(sent) : sent[i] \in P
  BY <1>2, ElementOfSeq
<1>4. \A p \in P : p.from \in 1..Len(ends) /\ p.to \in 1..Len(ends)
  BY <1>1
<1> QED
  BY <1>2, <1>3, <1>4

-----------------------------------------------------------------------------
(* Every step keeps the invariant *)

LEMMA InitIInv == Init => IInv
<1> SUFFICES ASSUME Init
             PROVE  IInv
  OBVIOUS
<1>1. /\ ends = <<>> /\ sent = <<>> /\ rd = 0 /\ start = 0 /\ ready = {}
      /\ round = "poll" /\ up = TRUE
  BY DEF Init
<1>2. Total = 0
  BY <1>1 DEF Total
<1>3. TypeOK
  <2>1. /\ input \in {"terminal", "pipe", "file"} /\ waits \in BOOLEAN
        /\ typed = <<>> /\ over = FALSE /\ room = 0 /\ requests = 0 /\ unread = 0 /\ reply = 0
    BY DEF Init
  <2>2. 0 \in 0..BufLen /\ 0 \in 0..RequestRoom /\ 0 \in 0..PieceRoom /\ 0 \in 0..MaxReply
    BY Bounds
  <2>3. typed \in Seq(Lines) /\ ends \in Seq(Nat) /\ Len(ends) = Len(typed)
        /\ sent \in Seq([from : 1..Len(ends), to : 1..Len(ends)])
    BY <1>1, <2>1
  <2> QED
    <3>1. {start, rd} \subseteq Nat /\ start <= rd /\ rd <= Total
      BY <1>1, <1>2
    <3>2. waits \in BOOLEAN /\ over \in BOOLEAN /\ up \in BOOLEAN
      BY <1>1, <2>1
    <3>3. round \in {"poll", "stdin", "write", "socket", "ended"} /\ ready \subseteq {"in", "res", "hup"}
      BY <1>1
    <3> QED
      BY <2>1, <2>2, <2>3, <3>1, <3>2, <3>3 DEF TypeOK
<1> QED
  BY <1>1, <1>2, <1>3 DEF IInv, Layout, NoneWaiting, OneTyped, Reports, SentBefore, RequestsInOrder,
     OneLineOneRequest

LEMMA TypeStep ==
  ASSUME IInv, NEW l \in Lines, Type(l)
  PROVE  IInv'
<1>1. /\ ends' = Append(ends, Total + l.len) /\ typed' = Append(typed, l)
      /\ waits => Idle
      /\ UNCHANGED <<input, waits, over, rd, start, room, round, ready, requests, unread, reply, up, sent>>
  BY DEF Type, stdin, server
<1>2. /\ Len(ends) \in Nat /\ ends \in Seq(Nat) /\ Total \in Nat /\ rd \in Nat /\ start \in Nat
      /\ start <= rd /\ rd <= Total
      /\ \A k \in 1..Len(ends) : ends[k] \in Nat /\ ends[k] <= Total
  BY Input DEF IInv
<1>3. l.len \in Nat /\ l.len > 0
  BY Bounds
<1>4. /\ ends' \in Seq(Nat) /\ Len(ends') = Len(ends) + 1
      /\ \A k \in 1..Len(ends) : ends'[k] = ends[k]
      /\ ends'[Len(ends) + 1] = Total + l.len
  BY <1>1, <1>2, <1>3
<1>5. Total' = Total + l.len
  <2>1. ends' # <<>>
    BY <1>2, <1>4
  <2> QED
    BY <1>2, <1>4, <2>1 DEF Total
<1>6. TypeOK'
  <2>1. typed' \in Seq(Lines) /\ Len(ends') = Len(typed')
    BY <1>1, <1>4 DEF IInv, TypeOK
  <2>2. PICK S, P : S = 1..Len(ends') /\ P = [from : 1..Len(ends), to : 1..Len(ends)]
    OBVIOUS
  <2>3. sent \in Seq(P) /\ \A p \in P : p \in [from : S, to : S]
    BY <1>2, <1>4, <2>2 DEF IInv, TypeOK
  <2>4. sent' \in Seq([from : 1..Len(ends'), to : 1..Len(ends')])
    <3>1. PICK Q : Q = [from : S, to : S]
      OBVIOUS
    <3>2. P \subseteq Q
      BY <2>3, <3>1
    <3>3. sent \in Seq(Q)
      BY <2>3, <3>2, SeqMonotonic
    <3> QED
      BY <1>1, <2>2, <3>1, <3>3
  <2>5. {start', rd'} \subseteq Nat /\ start' <= rd' /\ rd' <= Total'
    BY <1>1, <1>2, <1>3, <1>5
  <2> QED
    BY <1>1, <1>4, <2>1, <2>4, <2>5 DEF IInv, TypeOK
<1>7. Layout'
  <2>1. \A k \in 1..Len(ends) : ends[k] > 0
    BY DEF IInv, Layout
  <2>2. ASSUME NEW k \in 1..Len(ends')
        PROVE  ends'[k] > 0
    <3>1. CASE k \in 1..Len(ends)
      BY <1>4, <2>1, <3>1
    <3>2. CASE k = Len(ends) + 1
      <4>1. ends'[k] = Total + l.len
        BY <1>4, <3>2
      <4> QED
        BY <1>2, <1>3, <4>1
    <3> QED
      BY <1>2, <1>4, <3>1, <3>2
  <2>3. ASSUME NEW j \in 1..Len(ends'), NEW k \in 1..Len(ends'), j < k
        PROVE  ends'[j] < ends'[k]
    <3>1. j \in 1..Len(ends)
      BY <1>2, <1>4, <2>3
    <3>2. CASE k \in 1..Len(ends)
      BY <1>4, <2>3, <3>1, <3>2 DEF IInv, Layout
    <3>3. CASE k = Len(ends) + 1
      <4>1. ends'[k] = Total + l.len /\ ends'[j] = ends[j]
        BY <1>4, <3>1, <3>3
      <4>2. ends[j] \in Nat /\ ends[j] <= Total
        BY <1>2, <3>1
      <4> QED
        BY <1>2, <1>3, <4>1, <4>2
    <3> QED
      BY <1>2, <1>4, <3>2, <3>3
  <2>4. rd' # Total'
    BY <1>1, <1>2, <1>3, <1>5
  <2> QED
    BY <2>2, <2>3, <2>4 DEF Layout
<1>8. NoneWaiting'
  <2>1. input = "terminal" => \A k \in 1..Len(ends) : ends[k] <= start \/ ends[k] > rd
    BY DEF IInv, NoneWaiting
  <2>2. Total + l.len > rd
    BY <1>2, <1>3
  <2> QED
    BY <1>1, <1>2, <1>4, <2>1, <2>2 DEF NoneWaiting
<1>9. OneTyped'
  <2>1. waits => start = Total
    BY <1>1 DEF IInv, Layout, Idle
  <2>2. waits => \A k \in 1..Len(ends) : ends'[k] <= start
    BY <1>2, <1>4, <2>1
  <2> QED
    BY <1>1, <1>2, <1>4, <2>2 DEF OneTyped
<1>10. SentBefore'
  <2>1. \A i \in 1..Len(sent) : sent[i].to \in 1..Len(ends)
    BY Requests DEF IInv
  <2> QED
    BY <1>1, <1>4, <2>1 DEF IInv, SentBefore
<1>11. Reports' /\ RequestsInOrder' /\ OneLineOneRequest'
  BY <1>1 DEF IInv, Reports, RequestsInOrder, OneLineOneRequest
<1> QED
  BY <1>6, <1>7, <1>8, <1>9, <1>10, <1>11 DEF IInv

(* Steps that leave the input, the list and the requests alone. *)
LEMMA Elsewhere ==
  ASSUME IInv, UNCHANGED <<input, waits, typed, ends, rd, start, sent>>
  PROVE  /\ Layout' /\ NoneWaiting' /\ OneTyped' /\ SentBefore' /\ RequestsInOrder'
         /\ OneLineOneRequest' /\ Total' = Total
<1>1. Total' = Total
  BY DEF Total
<1>2. Layout' /\ NoneWaiting' /\ OneTyped'
  BY <1>1 DEF IInv, Layout, NoneWaiting, OneTyped
<1> QED
  BY <1>1, <1>2 DEF IInv, SentBefore, RequestsInOrder, OneLineOneRequest

LEMMA OthersStep ==
  ASSUME IInv, StopTyping \/ TakeRequest \/ WritePiece \/ CloseConnection
  PROVE  IInv'
<1>1. UNCHANGED <<input, waits, typed, ends, rd, start, room, round, ready, sent>>
  BY DEF StopTyping, TakeRequest, WritePiece, CloseConnection, user, stdin, server
<1>2. /\ requests' \in 0..RequestRoom /\ unread' \in 0..PieceRoom /\ reply' \in 0..MaxReply
      /\ over' \in BOOLEAN /\ up' \in BOOLEAN /\ unread' >= unread /\ (up' => up)
  <2>1. /\ requests \in 0..RequestRoom /\ unread \in 0..PieceRoom /\ reply \in 0..MaxReply
        /\ over \in BOOLEAN /\ up \in BOOLEAN
    BY DEF IInv, TypeOK
  <2>2. CASE StopTyping
    BY <2>1, <2>2, Bounds DEF StopTyping, server
  <2>3. CASE TakeRequest
    BY <2>1, <2>3, Bounds DEF TakeRequest, user
  <2>4. CASE WritePiece
    BY <2>1, <2>4, Bounds DEF WritePiece, user
  <2>5. CASE CloseConnection
    <3>1. up' = FALSE /\ UNCHANGED <<over, requests, unread, reply>>
      BY <2>5 DEF CloseConnection, user
    <3>2. unread' >= unread
      BY <2>1, <3>1, Bounds
    <3>3. up' \in BOOLEAN /\ over' \in BOOLEAN
      BY <2>1, <3>1
    <3> QED
      BY <2>1, <3>1, <3>2, <3>3
  <2> QED
    BY <2>2, <2>3, <2>4, <2>5
<1>3. TypeOK'
  BY <1>1, <1>2, Elsewhere DEF IInv, TypeOK
<1>4. Reports'
  BY <1>1, <1>2, Bounds DEF IInv, TypeOK, Reports
<1> QED
  BY <1>1, <1>3, <1>4, Elsewhere DEF IInv

LEMMA PollStep ==
  ASSUME IInv, Poll
  PROVE  IInv'
<1>1. /\ round' = "stdin"
      /\ ready' = SocketEvents \cup (IF StdinReady THEN {"in"} ELSE {})
      /\ UNCHANGED <<input, waits, typed, ends, over, rd, start, room, requests, unread, reply, up, sent>>
  BY DEF Poll, user, stdin, server
<1>2. /\ ready' \subseteq {"in", "res", "hup"}
      /\ "hup" \in ready' => ~up
      /\ "res" \in ready' => unread > 0
  BY <1>1 DEF SocketEvents
<1>3. TypeOK'
  BY <1>1, <1>2, Elsewhere DEF IInv, TypeOK
<1>4. Reports'
  BY <1>1, <1>2 DEF Reports
<1> QED
  BY <1>1, <1>3, <1>4, Elsewhere DEF IInv

LEMMA SocketStep ==
  ASSUME IInv, SendRequest \/ HandleSocket
  PROVE  IInv'
<1>1. UNCHANGED <<input, waits, typed, ends, over, rd, start, room, ready, reply, up, sent>>
  BY DEF SendRequest, HandleSocket, user, stdin, server
<1>2. /\ requests' \in 0..RequestRoom /\ unread' \in 0..PieceRoom
      /\ round' \in {"poll", "socket", "ended"}
      /\ round' = "socket" => unread' = unread /\ round = "write"
  <2>1. requests \in 0..RequestRoom /\ unread \in 0..PieceRoom
    BY DEF IInv, TypeOK
  <2>2. CASE SendRequest
    BY <2>1, <2>2, Bounds DEF SendRequest
  <2>3. CASE HandleSocket
    <3>1. "res" \in ready => unread > 0
      BY <2>3 DEF IInv, Reports, HandleSocket
    <3> QED
      BY <2>1, <2>3, <3>1, Bounds DEF HandleSocket
  <2> QED
    BY <2>2, <2>3
<1>3. TypeOK'
  BY <1>1, <1>2, Elsewhere DEF IInv, TypeOK
<1>4. Reports'
  BY <1>1, <1>2 DEF IInv, Reports
<1> QED
  BY <1>1, <1>3, <1>4, Elsewhere DEF IInv

(* Nothing becomes a command before its line is complete. *)
LEMMA KeepStep ==
  ASSUME IInv, round = "stdin", NEW n \in ReadSizes,
         \/ n = 0 /\ ReadNothing
         \/ n > 0 /\ ~EndsLine(n) /\ KeepBytes(n),
         UNCHANGED <<user, ready, requests, unread, server>>
  PROVE  IInv'
<1>1. /\ round' = "socket"
      /\ UNCHANGED <<input, waits, typed, ends, over, ready, requests, unread, reply, up, sent>>
  BY DEF ReadNothing, KeepBytes, user, server
<1>2. /\ Len(ends) \in Nat /\ Total \in Nat /\ rd \in Nat /\ start \in Nat
      /\ start <= rd /\ rd <= Total
      /\ \A k \in 1..Len(ends) : ends[k] \in Nat /\ ends[k] <= Total
      /\ Len(ends) > 0 => Total = ends[Len(ends)] /\ Len(ends) \in 1..Len(ends)
      /\ Len(ends) = 0 => Total = 0 /\ rd = 0
  BY Input DEF IInv
<1>3. /\ n \in Nat /\ rd + n <= Total /\ n <= Available /\ Available \in 1..BufLen
      /\ n = 0 => rd = Total
      /\ input = "terminal" => \A k \in 1..Len(ends) : ends[k] > rd => ends[k] >= rd + n
  BY Reading DEF IInv
<1>4. /\ rd' = rd + n /\ start' \in Nat /\ start <= start' /\ start' <= rd' /\ room' \in 0..BufLen
      /\ start' = start \/ rd' = rd
  <2>1. CASE n = 0 /\ ReadNothing
    BY <1>2, <2>1 DEF ReadNothing, IInv, TypeOK
  <2>2. CASE n > 0 /\ KeepBytes(n)
    BY <1>2, <1>3, <2>2, Bounds DEF KeepBytes
  <2> QED
    BY <2>1, <2>2
<1>5. Total' = Total
  BY <1>1 DEF Total
<1>6. TypeOK'
  <2>1. sent' \in Seq([from : 1..Len(ends'), to : 1..Len(ends')])
    BY <1>1 DEF IInv, TypeOK
  <2>2. {start', rd'} \subseteq Nat /\ start' <= rd' /\ rd' <= Total' /\ room' \in 0..BufLen
    BY <1>2, <1>3, <1>4, <1>5
  <2> QED
    BY <1>1, <2>1, <2>2 DEF IInv, TypeOK
<1>7. Layout'
  <2>1. CASE n = 0
    BY <1>1, <1>2, <1>3, <1>4, <1>5, <2>1 DEF IInv, Layout
  <2>2. CASE n > 0
    <3>1. rd + n # Total
      BY <1>2, <1>3, <2>2 DEF EndsLine
    <3> QED
      BY <1>1, <1>4, <1>5, <3>1 DEF IInv, Layout
  <2> QED
    BY <1>3, <2>1, <2>2
<1>8. NoneWaiting'
  <2>1. SUFFICES ASSUME input = "terminal", NEW k \in 1..Len(ends)
                 PROVE  ends[k] <= start' \/ ends[k] > rd + n
    BY <1>1, <1>4 DEF NoneWaiting
  <2>2. ends[k] <= start \/ ends[k] > rd
    BY <2>1 DEF IInv, NoneWaiting
  <2>3. n > 0 => ends[k] # rd + n
    BY DEF EndsLine
  <2> QED
    BY <1>2, <1>3, <1>4, <2>1, <2>2, <2>3
<1>9. OneTyped'
  BY <1>1, <1>2, <1>4 DEF IInv, OneTyped
<1>10. SentBefore'
  <2>1. \A i \in 1..Len(sent) : sent[i].to \in 1..Len(ends) /\ ends[sent[i].to] <= start
    BY Requests DEF IInv, SentBefore
  <2> QED
    BY <1>1, <1>2, <1>4, <2>1 DEF IInv, SentBefore
<1>11. Reports' /\ RequestsInOrder' /\ OneLineOneRequest'
  BY <1>1 DEF IInv, Reports, RequestsInOrder, OneLineOneRequest
<1> QED
  BY <1>6, <1>7, <1>8, <1>9, <1>10, <1>11 DEF IInv

(* One line is one command, of a terminal and of a user who waits. *)
LEMMA OneLine ==
  ASSUME IInv, NEW n \in ReadSizes, n > 0, EndsLine(n), input = "terminal" \/ waits
  PROVE  Min(LinesIn(start, rd + n)) = Max(LinesIn(start, rd + n))
<1>1. n \in Nat
  BY Reading DEF IInv
<1>2. PICK from \in 1..Len(ends), to \in 1..Len(ends) :
        /\ from = Min(LinesIn(start, rd + n)) /\ to = Max(LinesIn(start, rd + n))
        /\ start < ends[from] /\ from <= to /\ ends[to] = rd + n
  BY <1>1, Command DEF IInv, LinesIn
<1>3. /\ Len(ends) \in Nat /\ rd \in Nat /\ \A k \in 1..Len(ends) : ends[k] \in Nat
  BY Input DEF IInv
<1>4. CASE waits
  <2>1. ~(from < Len(ends))
    BY <1>2, <1>3, <1>4, Input DEF IInv, OneTyped
  <2> QED
    BY <1>2, <1>3, <2>1
<1>5. CASE input = "terminal"
  <2>1. ends[from] > rd
    BY <1>2, <1>3, <1>5, Input DEF IInv, NoneWaiting
  <2>2. ends[from] >= rd + n
    BY <1>5, <2>1, Reading DEF IInv
  <2>3. ~(from < to)
    BY <1>1, <1>2, <1>3, <2>2 DEF IInv, Layout
  <2> QED
    BY <1>2, <2>3
<1> QED
  BY <1>4, <1>5

LEMMA CommandStep ==
  ASSUME IInv, NEW n \in ReadSizes, n > 0, EndsLine(n), HandleInputStr(n),
         round = "stdin", UNCHANGED <<user, ready, requests, unread, server>>
  PROVE  IInv'
<1>1. UNCHANGED <<input, waits, typed, ends, over, ready, requests, unread, reply, up>>
  BY DEF user, server
<1>2. /\ n \in Nat /\ rd + n <= Total
  BY Reading DEF IInv
<1>3. PICK from, to :
        /\ from = Min(LinesIn(start, rd + n)) /\ to = Max(LinesIn(start, rd + n))
        /\ from \in 1..Len(ends) /\ to \in 1..Len(ends)
        /\ start < ends[from] /\ from <= to /\ ends[to] = rd + n
  BY <1>2, Command DEF IInv, LinesIn
<1>4. /\ rd' = rd + n /\ start' = rd + n /\ room' = 0 /\ round' \in {"write", "socket", "ended"}
      /\ sent' = sent \/ sent' = Append(sent, [from |-> from, to |-> to])
  BY <1>3 DEF HandleInputStr
<1>5. /\ Len(ends) \in Nat /\ Total \in Nat /\ rd \in Nat /\ start \in Nat /\ start <= rd
      /\ \A k \in 1..Len(ends) : ends[k] \in Nat
  BY Input DEF IInv
<1>6. Total' = Total
  BY <1>1 DEF Total
<1> DEFINE P == [from : 1..Len(ends), to : 1..Len(ends)]
<1>7. sent \in Seq(P) /\ Len(sent) \in Nat
      /\ \A i \in 1..Len(sent) :
           /\ sent[i].from \in 1..Len(ends) /\ sent[i].to \in 1..Len(ends)
           /\ sent[i].from <= sent[i].to /\ ends[sent[i].to] <= start
           /\ sent[i].from \in Nat /\ sent[i].to \in Nat
  <2>1. sent \in Seq(P)
    BY DEF IInv, TypeOK
  <2> QED
    BY <2>1, Requests DEF IInv, SentBefore
<1>8. /\ sent' \in Seq(P)
      /\ \/ Len(sent') = Len(sent)
         \/ /\ Len(sent') = Len(sent) + 1
            /\ sent'[Len(sent) + 1].from = from /\ sent'[Len(sent) + 1].to = to
      /\ \A i \in 1..Len(sent) : sent'[i] = sent[i]
  <2>1. [from |-> from, to |-> to] \in P
    BY <1>3
  <2> HIDE DEF P
  <2> QED
    <3>1. PICK q : q = [from |-> from, to |-> to]
      OBVIOUS
    <3>2. q \in P /\ q.from = from /\ q.to = to /\ (sent' = sent \/ sent' = Append(sent, q))
      BY <1>4, <2>1, <3>1
    <3>3. sent \in Seq(P)
      BY <1>7
    <3>4. CASE sent' = sent
      BY <3>3, <3>4
    <3>5. CASE sent' = Append(sent, q)
      <4>1. /\ Append(sent, q) \in Seq(P) /\ Len(Append(sent, q)) = Len(sent) + 1
            /\ \A i \in 1..Len(sent) : Append(sent, q)[i] = sent[i]
            /\ Append(sent, q)[Len(sent) + 1] = q
        BY <3>2, <3>3, AppendProperties
      <4> QED
        BY <3>2, <3>5, <4>1
    <3> QED
      BY <3>2, <3>4, <3>5
<1> HIDE DEF P
<1>9. TypeOK'
  <2>1. sent' \in Seq([from : 1..Len(ends'), to : 1..Len(ends')])
    BY <1>1, <1>8 DEF P
  <2>2. room' \in 0..BufLen
    BY <1>4, Bounds
  <2> QED
    BY <1>1, <1>2, <1>4, <1>5, <1>6, <2>1, <2>2 DEF IInv, TypeOK
<1>10. Layout' /\ NoneWaiting' /\ OneTyped'
  <2>1. Layout'
    BY <1>1, <1>4, <1>6 DEF IInv, Layout
  <2>2. NoneWaiting'
    BY <1>1, <1>2, <1>4, <1>5 DEF NoneWaiting
  <2>3. OneTyped'
    BY <1>1, <1>2, <1>4, <1>5 DEF IInv, OneTyped
  <2> QED
    BY <2>1, <2>2, <2>3
<1>11. SentBefore'
  <2>1. SUFFICES ASSUME NEW i \in 1..Len(sent')
                 PROVE  sent'[i].from <= sent'[i].to /\ ends[sent'[i].to] <= rd + n
    BY <1>1, <1>4 DEF SentBefore
  <2>2. CASE i \in 1..Len(sent)
    <3>1. ends[sent[i].to] \in Nat /\ ends[sent[i].to] <= start /\ sent[i].from <= sent[i].to
      BY <1>5, <1>7, <2>2
    <3>2. sent'[i] = sent[i]
      BY <1>8, <2>2
    <3> QED
      BY <1>2, <1>5, <3>1, <3>2
  <2>3. CASE i = Len(sent) + 1
    <3>1. sent'[i].from = from /\ sent'[i].to = to
      BY <1>7, <1>8, <2>1, <2>3
    <3> QED
      BY <1>2, <1>3, <1>5, <3>1
  <2> QED
    BY <1>7, <1>8, <2>1, <2>2, <2>3
<1>12. RequestsInOrder'
  <2>1. SUFFICES ASSUME NEW i \in 1..Len(sent'), NEW j \in 1..Len(sent'), i < j
                 PROVE  sent'[i].to < sent'[j].from
    BY DEF RequestsInOrder
  <2>2. CASE j \in 1..Len(sent)
    <3>1. i \in 1..Len(sent) /\ sent'[i] = sent[i] /\ sent'[j] = sent[j]
      <4>1. Len(sent') \in Nat
        BY <1>7, <1>8
      <4>2. i \in 1..Len(sent)
        BY <1>7, <2>1, <2>2, <4>1
      <4> QED
        BY <1>8, <2>2, <4>2
    <3> QED
      BY <2>1, <2>2, <3>1 DEF IInv, RequestsInOrder
  <2>3. CASE j = Len(sent) + 1
    <3>1. i \in 1..Len(sent) /\ ends[sent[i].to] <= start /\ sent[i].to \in 1..Len(ends)
      BY <1>7, <1>8, <2>1, <2>3
    <3>2. ~(from <= sent[i].to)
      BY <1>3, <1>5, <3>1 DEF IInv, Layout
    <3>3. sent'[i] = sent[i] /\ sent'[j].from = from
      BY <1>7, <1>8, <2>1, <2>3, <3>1
    <3>4. from \in Nat /\ sent[i].to \in Nat
      BY <1>3, <1>7, <3>1
    <3> QED
      BY <3>2, <3>3, <3>4
  <2> QED
    BY <1>7, <1>8, <2>2, <2>3
<1>13. OneLineOneRequest'
  <2>1. SUFFICES ASSUME input = "terminal" \/ (waits /\ input = "pipe"), NEW i \in 1..Len(sent')
                 PROVE  sent'[i].from = sent'[i].to
    BY <1>1 DEF OneLineOneRequest
  <2>2. CASE i \in 1..Len(sent)
    BY <1>8, <2>1, <2>2 DEF IInv, OneLineOneRequest
  <2>3. CASE i = Len(sent) + 1
    BY <1>3, <1>7, <1>8, <2>1, <2>3, OneLine
  <2> QED
    BY <1>7, <1>8, <2>2, <2>3
<1>14. Reports'
  BY <1>1 DEF IInv, Reports
<1> QED
  BY <1>9, <1>10, <1>11, <1>12, <1>13, <1>14 DEF IInv

LEMMA StdinStep ==
  ASSUME IInv, HandleStdin
  PROVE  IInv'
<1>1. round = "stdin" /\ UNCHANGED <<user, ready, requests, unread, server>>
  BY DEF HandleStdin
<1>2. CASE "in" \in ready
  <2>1. PICK n \in ReadSizes :
          \/ n = 0 /\ ReadNothing
          \/ n > 0 /\ EndsLine(n) /\ HandleInputStr(n)
          \/ n > 0 /\ ~EndsLine(n) /\ KeepBytes(n)
    BY <1>2 DEF HandleStdin
  <2> QED
    BY <1>1, <2>1, KeepStep, CommandStep
<1>3. CASE "in" \notin ready
  <2>1. /\ round' = "socket"
        /\ UNCHANGED <<input, waits, typed, ends, over, rd, start, room, ready, requests, unread,
                       reply, up, sent>>
    BY <1>3 DEF HandleStdin, user, stdin, server
  <2>2. TypeOK' /\ Reports'
    BY <1>1, <2>1, Elsewhere DEF IInv, TypeOK, Reports
  <2> QED
    BY <2>1, <2>2, Elsewhere DEF IInv
<1> QED
  BY <1>2, <1>3

LEMMA NextIInv ==
  ASSUME IInv, [Next]_vars
  PROVE  IInv'
<1>1. CASE UNCHANGED vars
  <2>1. UNCHANGED <<input, waits, typed, ends, over, rd, start, room, round, ready, requests, unread,
                    reply, up, sent>>
    BY <1>1 DEF vars, user, stdin, server
  <2>2. TypeOK' /\ Reports'
    BY <2>1, Elsewhere DEF IInv, TypeOK, Reports
  <2> QED
    BY <2>1, <2>2, Elsewhere DEF IInv
<1>2. CASE Next
  BY <1>2, TypeStep, OthersStep, PollStep, StdinStep, SocketStep DEF Next
<1> QED
  BY <1>1, <1>2

LEMMA IInvHolds == Spec => []IInv
<1>1. Init => IInv
  BY InitIInv
<1>2. IInv /\ [Next]_vars => IInv'
  BY NextIInv
<1> QED
  BY <1>1, <1>2, PTL DEF Spec

-----------------------------------------------------------------------------
(* Theorems *)

(* stdin_stream_buf_list holds bytes that were typed, no buffer has less than no
   room, and no message is read from a socket without one. *)
THEOREM TypeCorrect == Spec => []TypeOK
<1>1. IInv => TypeOK
  BY DEF IInv
<1> QED
  BY <1>1, IInvHolds, PTL

(* A request that client_create_req_packet makes is of one line, whether typed at
   a terminal or by a user of a pipe who waits for the replies. *)
THEOREM OneLineOneRequestHolds == Spec => []OneLineOneRequest
<1>1. IInv => OneLineOneRequest
  BY DEF IInv
<1> QED
  BY <1>1, IInvHolds, PTL

(* Of every input, the requests are of lines in the order typed, and no line is
   part of two: client_handle_stdin_event destroys the list it made one of. *)
THEOREM RequestsInOrderHolds == Spec => []RequestsInOrder
<1>1. IInv => RequestsInOrder
  BY DEF IInv
<1> QED
  BY <1>1, IInvHolds, PTL

(* Neither the end of the input nor what is in it ends the program while the
   server keeps the connection, but for the command that frees a list twice. *)
THEOREM OutlivesInputHolds == Spec => OutlivesInput
<1> DEFINE Ends == ~up \/ \E k \in LinesIn(start, rd') : FreesTwice(k, k)
<1>1. ASSUME IInv, Next, round # "ended", round' = "ended"
      PROVE  Ends
  <2>1. SendRequest \/ HandleSocket \/ HandleStdin
    BY <1>1 DEF Next, Type, StopTyping, TakeRequest, WritePiece, CloseConnection, Poll
  <2>2. CASE SendRequest
    BY <1>1, <2>2 DEF SendRequest
  <2>3. CASE HandleSocket
    BY <1>1, <2>3 DEF HandleSocket, IInv, Reports
  <2>4. CASE HandleStdin
    <3>1. PICK n \in ReadSizes : n > 0 /\ EndsLine(n) /\ HandleInputStr(n)
      BY <1>1, <2>4 DEF HandleStdin, ReadNothing, KeepBytes
    <3>2. PICK from, to :
            from = Min(LinesIn(start, rd + n)) /\ to = Max(LinesIn(start, rd + n))
      OBVIOUS
    <3>3. FreesTwice(from, to) /\ rd' = rd + n
      BY <1>1, <3>1, <3>2 DEF HandleInputStr
    <3>4. from \in LinesIn(start, rd + n) /\ from = to
      BY <1>1, <3>1, <3>2, <3>3, Command, Reading DEF IInv, FreesTwice
    <3> QED
      BY <3>3, <3>4
  <2> QED
    BY <2>1, <2>2, <2>3, <2>4
<1>2. IInv /\ [Next]_vars => [round # "ended" /\ round' = "ended" => Ends]_vars
  BY <1>1
<1>3. Spec => [][round # "ended" /\ round' = "ended" => Ends]_vars
  <2> HIDE DEF Ends
  <2> QED
    BY <1>2, IInvHolds, PTL DEF Spec
<1> QED
  BY <1>3, PTL DEF OutlivesInput
=============================================================================
