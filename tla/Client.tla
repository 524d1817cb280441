------------------------------- MODULE Client -------------------------------
(***************************************************************************)
(* client.c: one thread that reads commands from standard input, sends     *)
(* each as a request and reads what the server sends, until the server     *)
(* closes the connection.                                                  *)
(*                                                                         *)
(* Standard input is a terminal, where a read() returns bytes of one line  *)
(* at most; a pipe, where it returns what has arrived; or a file, which is *)
(* all there from the start.  A line is what client_create_req_packet can  *)
(* tell of it, and its bytes are places in the input; the list of buffers  *)
(* holds the bytes start + 1 .. rd.                                        *)
(*                                                                         *)
(* The socket holds a number of requests one way and a number of pieces of *)
(* replies the other way, a piece being what one call of                   *)
(* client_handle_res_events reads (Framing says how).                      *)
(***************************************************************************)
EXTENDS Integers, Sequences, FiniteSetsExt

CONSTANTS
  BufLen,         \* MAX_BUF_LEN
  MinLen,         \* REQ_STR_MIN_LEN: "command ", the code and a byte
  PageLen,        \* REQ_FIRST_OR_LAST_MESG_PACKET_SIZE
  LogInInfo,      \* LOG_IN_INFO_NUM
  AccountInfo,    \* ACCOUNT_INFO_NUM
  Lines,          \* what may be typed: [op, words, len] of each line
  RequestRoom,    \* requests that fit into the socket
  PieceRoom,      \* pieces of replies that fit into the socket
  MaxReply,       \* pieces of the longest reply
  MaxLines        \* bound: lines that are typed

\* op is the request the code after "command " asks for, "none" for a line that
\* does not start so; words are the fields after the code, of a line without a
\* code all of them.
Ops == {"all", "list", "first", "interval", "account", "login", "send", "none"}

ASSUME ClientAssumption ==
  /\ {BufLen, RequestRoom, PieceRoom, MaxLines} \subseteq Nat \ {0}
  /\ {MinLen, PageLen, LogInInfo, AccountInfo, MaxReply} \subseteq Nat
  /\ \A l \in Lines : l.op \in Ops /\ l.words \in Nat /\ l.len \in Nat \ {0}

VARIABLES
  input,      \* what standard input is
  waits,      \* the user waits for one reply before the next line
  typed,      \* the lines, in order
  ends,       \* the place of each line's newline
  over,       \* no line follows: the pipe's other end is closed, the file ends
  rd,         \* bytes that read() has returned
  start,      \* bytes before the first one in stdin_stream_buf_list
  room,       \* free bytes in the last buffer of the list, 0 if none
  round,      \* where the looper's round is
  ready,      \* what poll() reported: "in", "res", "hup"
  requests,   \* requests in the socket
  reply,      \* pieces of its reply the server has not written
  unread,     \* pieces in the socket
  up,         \* the server has the connection open
  sent        \* history: the first and the last line of each request, in order

stdin == <<rd, start, room>>
user == <<input, waits, typed, ends, over>>
server == <<reply, up>>
vars == <<user, stdin, round, ready, requests, unread, server, sent>>

Total == IF ends = <<>> THEN 0 ELSE ends[Len(ends)]
Begin(k) == IF k = 1 THEN 0 ELSE ends[k - 1]

\* The lines of which a part lies behind `from` and none behind `to`.
LinesIn(from, to) == {k \in 1..Len(ends) : from < ends[k] /\ ends[k] <= to}

TypeOK ==
  /\ input \in {"terminal", "pipe", "file"}
  /\ waits \in BOOLEAN /\ over \in BOOLEAN /\ up \in BOOLEAN
  /\ typed \in Seq(Lines) /\ ends \in Seq(Nat) /\ Len(ends) = Len(typed)
  /\ {start, rd} \subseteq Nat /\ start <= rd /\ rd <= Total
  /\ room \in 0..BufLen
  /\ round \in {"poll", "stdin", "write", "socket", "ended"}
  /\ ready \subseteq {"in", "res", "hup"}
  /\ requests \in 0..RequestRoom /\ unread \in 0..PieceRoom /\ reply \in 0..MaxReply
  /\ sent \in Seq([from : 1..Len(ends), to : 1..Len(ends)])

\* new_client
Init ==
  /\ input \in {"terminal", "pipe", "file"} /\ waits \in BOOLEAN
  /\ typed = <<>> /\ ends = <<>> /\ over = FALSE
  /\ rd = 0 /\ start = 0 /\ room = 0
  /\ round = "poll" /\ ready = {}
  /\ requests = 0 /\ unread = 0 /\ reply = 0 /\ up = TRUE
  /\ sent = <<>>

-----------------------------------------------------------------------------
(* The user.                                                               *)

Idle == rd = Total /\ round = "poll" /\ requests = 0 /\ reply = 0 /\ unread = 0

Type(l) ==
  /\ round # "ended" /\ ~over /\ Len(typed) < MaxLines
  /\ waits => Idle
  /\ typed' = Append(typed, l)
  /\ ends' = Append(ends, Total + l.len)
  /\ UNCHANGED <<input, waits, over, stdin, round, ready, requests, unread, server, sent>>

StopTyping ==
  /\ round # "ended" /\ ~over
  /\ over' = TRUE
  /\ UNCHANGED <<input, waits, typed, ends, stdin, round, ready, requests, unread, server, sent>>

-----------------------------------------------------------------------------
(* The server: it handles one request after the other and waits in write() *)
(* while the socket is full.                                               *)

TakeRequest ==
  /\ round # "ended" /\ up /\ reply = 0 /\ requests > 0
  /\ requests' = requests - 1
  /\ reply' \in 0..MaxReply
  /\ UNCHANGED <<user, stdin, round, ready, unread, up, sent>>

WritePiece ==
  /\ round # "ended" /\ up /\ reply > 0 /\ unread < PieceRoom
  /\ reply' = reply - 1
  /\ unread' = unread + 1
  /\ UNCHANGED <<user, stdin, round, ready, requests, up, sent>>

CloseConnection ==
  /\ round # "ended" /\ up /\ up' = FALSE
  /\ UNCHANGED <<user, stdin, round, ready, requests, unread, reply, sent>>

-----------------------------------------------------------------------------
(* Polling.                                                                *)

\* The other end of a pipe that is closed is a HUP, which wins over what is left
\* to read and is not handled; a file is always ready.
StdinReady == CASE input = "terminal" -> rd < Total
                [] input = "pipe"     -> rd < Total /\ ~over
                [] input = "file"     -> over
StdinHungUp == input = "pipe" /\ over
SocketEvents == IF ~up THEN {"hup"} ELSE IF unread > 0 THEN {"res"} ELSE {}

\* Mutant: HUP is handled whichever descriptor it is of.
PollAnyHup ==
  /\ round = "poll"
  /\ StdinReady \/ StdinHungUp \/ SocketEvents # {}
  /\ ready' = SocketEvents \cup (IF StdinReady THEN {"in"} ELSE {})
                           \cup (IF StdinHungUp THEN {"hup"} ELSE {})
  /\ round' = "stdin"
  /\ UNCHANGED <<user, stdin, requests, unread, server, sent>>

Poll ==
  /\ round = "poll"
  /\ StdinReady \/ StdinHungUp \/ SocketEvents # {}
  /\ ready' = SocketEvents \cup (IF StdinReady THEN {"in"} ELSE {})
  /\ round' = "stdin"
  /\ UNCHANGED <<user, stdin, requests, unread, server, sent>>

-----------------------------------------------------------------------------
(* client_handle_stdin_event.                                              *)

\* Mutant: a new buffer only for an empty list.
AvailableOnce == IF room = 0 /\ start = rd THEN BufLen ELSE room
Available == IF room = 0 THEN BufLen ELSE room
FitsIn(n) == IF n < Available THEN n ELSE Available

LineEnd == ends[Min(LinesIn(rd, Total))]

\* Mutant: a read() of a terminal may go on into the next line.
ReadAcross == IF rd = Total THEN {0} ELSE {FitsIn(Total - rd)}

ReadSizes ==
  IF rd = Total THEN {0}
  ELSE CASE input = "terminal" -> {FitsIn(LineEnd - rd)}
         [] input = "pipe"     -> 1..FitsIn(Total - rd)
         [] input = "file"     -> {FitsIn(Total - rd)}

\* What a command of several lines has of fields after its code: newlines
\* separate fields as spaces do, and a code and the word before it are two.
FieldsOf(l) == IF l.op = "none" THEN l.words ELSE l.words + 2
Fields(from, to) ==
  typed[from].words + MapThenSumSet(LAMBDA k : FieldsOf(typed[k]), (from + 1)..to)
StrLen(from, to) == ends[to] - Begin(from)

\* client_new_interval_msg_payload reads an interval up to a space.
IsInterval(from, to) == from = to /\ typed[from].words >= 2

\* client_new_send_msg_data reads a name up to a space or a newline and a message
\* up to the first newline, which has to be the last byte.
IsMessage(from, to) ==
  \/ from = to /\ typed[from].words >= 2
  \/ from + 1 = to /\ typed[from].words = 1

\* client_create_req_packet.  The page command is the only one of its length.
IsRequest(from, to) ==
  LET op == typed[from].op
      len == StrLen(from, to)
      words == typed[from].words
  IN \/ op \in {"all", "list"} /\ len = MinLen
     \/ op = "first" /\ len = PageLen /\ from = to /\ words = 1
     \/ op = "interval" /\ IsInterval(from, to)
     \/ op = "account" /\ words > 0 /\ Fields(from, to) = AccountInfo
     \/ op = "login" /\ words > 0 /\ Fields(from, to) = LogInInfo
     \/ op = "send" /\ IsMessage(from, to)

\* client_new_send_msg_data finds nothing behind the user's name, frees the name
\* and then the list it is in: the second free() may end the program.
FreesTwice(from, to) == typed[from].op = "send" /\ typed[from].words = 1 /\ from = to

\* The last byte read is a newline: the list is destroyed, and all it held is one
\* command, without a code if the beginning of its line was dropped.
HandleInputStr(n) ==
  LET from == Min(LinesIn(start, rd + n))
      to == Max(LinesIn(start, rd + n))
      sends == start = Begin(from) /\ IsRequest(from, to)
  IN /\ rd' = rd + n /\ start' = rd + n /\ room' = 0
     /\ \/ /\ sends
           /\ sent' = Append(sent, [from |-> from, to |-> to])
           /\ round' = "write"
        \/ /\ ~sends
           /\ UNCHANGED sent
           /\ round' \in {"socket"} \cup (IF FreesTwice(from, to) THEN {"ended"} ELSE {})

KeepBytes(n) ==
  /\ rd' = rd + n /\ room' = Available - n
  /\ round' = "socket"
  /\ UNCHANGED <<start, sent>>

\* At the end of a file the list is destroyed if its last buffer is new.
ReadNothing ==
  /\ IF room = 0 THEN start' = rd ELSE UNCHANGED start
  /\ round' = "socket"
  /\ UNCHANGED <<rd, room, sent>>

EndsLine(n) == \E k \in 1..Len(ends) : ends[k] = rd + n

HandleStdin ==
  /\ round = "stdin"
  /\ \/ /\ "in" \in ready
        /\ \E n \in ReadSizes :
             \/ n = 0 /\ ReadNothing
             \/ n > 0 /\ EndsLine(n) /\ HandleInputStr(n)
             \/ n > 0 /\ ~EndsLine(n) /\ KeepBytes(n)
     \/ "in" \notin ready /\ round' = "socket" /\ UNCHANGED <<stdin, sent>>
  /\ UNCHANGED <<user, ready, requests, unread, server>>

\* send_packet_to_server waits while the socket is full; writing to a connection
\* that is closed raises SIGPIPE.
SendRequest ==
  /\ round = "write"
  /\ \/ up /\ requests < RequestRoom /\ requests' = requests + 1 /\ round' = "socket"
     \/ ~up /\ round' = "ended" /\ UNCHANGED requests
  /\ UNCHANGED <<user, stdin, ready, unread, server, sent>>

-----------------------------------------------------------------------------
(* The socket.                                                             *)

\* Mutant: one event is handled in a round.
HandleOneEvent ==
  /\ round = "socket"
  /\ \/ "hup" \in ready /\ round' = "ended" /\ UNCHANGED unread
     \/ "hup" \notin ready /\ round' = "poll"
        /\ unread' = IF ready = {"res"} THEN unread - 1 ELSE unread
  /\ UNCHANGED <<user, stdin, ready, requests, server, sent>>

\* client_handle_disconnect removes the watchers, and looper_run returns: what
\* was left to read is lost.
HandleSocket ==
  /\ round = "socket"
  /\ \/ "hup" \in ready /\ round' = "ended" /\ UNCHANGED unread
     \/ "hup" \notin ready /\ round' = "poll"
        /\ unread' = IF "res" \in ready THEN unread - 1 ELSE unread
  /\ UNCHANGED <<user, stdin, ready, requests, server, sent>>

Round == Poll \/ HandleStdin \/ SendRequest \/ HandleSocket
Serve == TakeRequest \/ WritePiece

Next ==
  \/ \E l \in Lines : Type(l)
  \/ StopTyping
  \/ TakeRequest \/ WritePiece \/ CloseConnection
  \/ Poll \/ HandleStdin \/ SendRequest \/ HandleSocket

Spec == Init /\ [][Next]_vars

\* Both processes run; neither user nor server has to do anything more.
FairSpec == Spec /\ WF_vars(Round) /\ WF_vars(Serve)

-----------------------------------------------------------------------------
(* Properties.                                                             *)

\* A request stands for one line, typed at a terminal or by a user who waits for
\* the reply: only lines that come faster through a pipe, or from a file, are
\* taken for one command.
OneLineOneRequest ==
  (input = "terminal" \/ (waits /\ input = "pipe")) =>
     \A i \in 1..Len(sent) : sent[i].from = sent[i].to

\* Neither reads what the other writes.
ClientBlocked == round = "write" /\ up /\ requests = RequestRoom
ServerBlocked == up /\ reply > 0 /\ unread = PieceRoom
MutualWait == ClientBlocked /\ ServerBlocked

\* The program outlives its input: while the server keeps the connection it ends
\* only on the command that frees twice.
OutlivesInput ==
  [][round # "ended" /\ round' = "ended" => ~up \/ \E k \in LinesIn(start, rd') : FreesTwice(k, k)]_vars

\* A command typed at a terminal is sent, however far ahead of the replies it
\* was typed, unless the program ends or client and server wait for one another.
Sent(k) == \E i \in 1..Len(sent) : sent[i].from = k /\ sent[i].to = k
CommandIsSent ==
  \A k \in 1..MaxLines :
     (input = "terminal" /\ Len(typed) = k /\ IsRequest(k, k))
        ~> (Sent(k) \/ round = "ended" \/ MutualWait)

\* A user who waits for it gets to the end of the reply, unless a pipe is closed
\* before its last line was read.
ReplyIsRead ==
  \A k \in 1..MaxLines :
     (waits /\ Len(typed) = k /\ (input = "file" => over))
        ~> (Idle \/ round = "ended" \/ StdinHungUp)
=============================================================================
