------------------------------ MODULE Framing ------------------------------
(***************************************************************************)
(* How packets become a stream of bytes and packets again.                 *)
(*                                                                         *)
(* The client writes requests and the server writes messages through       *)
(* write_n_byte, which calls write() until the bytes are counted; the      *)
(* server writes a reply by one write().  A write() may be short: on a     *)
(* socket whose buffer is full it is, when the process is stopped and      *)
(* continued.  write_n_byte then starts again with the first byte, and a   *)
(* reply is left as it is.                                                 *)
(*                                                                         *)
(* server_handle_req_event and client_handle_res_events cut the stream     *)
(* the same way: they keep a list of buffers of BufLen bytes until it      *)
(* holds what the header in front announces.                               *)
(*                                                                         *)
(* A byte is its place in the stream.  A piece is what one write() put     *)
(* there, a packet or the beginning of one.  The buffers always hold one   *)
(* run of the stream, the bytes start + 1 .. rd.  The byte SOP is assumed  *)
(* to occur only at the start of a packet, so that a header read elsewhere *)
(* is recognised as wrong, and the check of EOP and check sum to fail for  *)
(* whatever is not a packet.                                               *)
(***************************************************************************)
EXTENDS Naturals, Sequences

CONSTANTS BufLen,       \* MAX_BUF_LEN
          HeaderSize,   \* HEADER_SIZE: SOP, operation code, payload length
          Lengths,      \* lengths of the packets that are sent
          Cuts,         \* where a short write() may stop
          Garbage,      \* lengths a damaged header may announce, 0 for none
          MaxPieces     \* bound: pieces in a behaviour

ASSUME FramingAssumption ==
  /\ {BufLen, HeaderSize, MaxPieces} \subseteq Nat \ {0}
  /\ Lengths \subseteq {n \in Nat : n > HeaderSize}
  /\ Cuts \subseteq Nat \ {0} /\ Garbage \subseteq Nat

VARIABLES waits,      \* the sender waits for one packet's effect before the next
          loops,      \* the sender uses write_n_byte
          ends,       \* pieces written, as the place of each one's last byte
          full,       \* the length of the packet each piece begins
          unsent,     \* write_n_byte's tmp: bytes still to be counted, 0 if none
          rd,         \* bytes that read() has returned
          start,      \* bytes before the first one in stream_buf_list
          room,       \* free bytes in the last buffer of the list, 0 if none
          readState,  \* read_state of the Client
          packetLen,  \* packet_len of the Client
          at,         \* "loop", or "read": in the second read() of one call
          handled,    \* pieces given to the handler, in order
          overread    \* history: bytes beyond a packet have been read

vars == <<waits, loops, ends, full, unsent, rd, start, room, readState, packetLen, at,
          handled, overread>>
buffered == <<rd, start, room>>
sender == <<waits, loops, ends, full, unsent>>

Begin(p) == IF p = 1 THEN 0 ELSE ends[p - 1]
Total == IF ends = <<>> THEN 0 ELSE ends[Len(ends)]
PiecesAt(s) == {p \in 1..Len(ends) : Begin(p) = s}

\* A piece that is less than its packet.
Torn(p) == ends[p] - Begin(p) < full[p]
TornPieces == {p \in 1..Len(ends) : Torn(p)}

Handled(p) == \E i \in 1..Len(handled) : handled[i] = p

TypeOK ==
  /\ waits \in BOOLEAN /\ loops \in BOOLEAN
  /\ ends \in Seq(Nat) /\ full \in Seq(Lengths) /\ Len(full) = Len(ends)
  /\ handled \in Seq(1..Len(ends))
  /\ {start, rd, unsent} \subseteq Nat
  /\ start <= rd /\ rd <= Total
  /\ room \in 0..BufLen
  /\ readState \in {"READY", "START"} /\ at \in {"loop", "read"}
  /\ packetLen \in Lengths \cup Garbage \cup {0}
  /\ overread \in BOOLEAN

Init ==
  /\ waits \in BOOLEAN /\ loops \in BOOLEAN
  /\ ends = <<>> /\ full = <<>> /\ unsent = 0
  /\ rd = 0 /\ start = 0 /\ room = 0
  /\ readState = "READY" /\ packetLen = 0 /\ at = "loop"
  /\ handled = <<>> /\ overread = FALSE

----------------------------------------------------------------------------
(* The other end.                                                          *)

\* The bytes write_n_byte still counts after a write() of n, whose packet has
\* len bytes: it takes what is returned off tmp, but not off the buffer.
Unsent(len, n) ==
  LET tmp == IF unsent = 0 THEN len ELSE unsent IN
  IF loops /\ n < tmp THEN tmp - n ELSE 0

\* One call of write() for a packet, the next one or the one that is being
\* written again.
Write(len, n) ==
  /\ Len(ends) < MaxPieces
  /\ IF unsent = 0
     THEN waits => Len(handled) = Len(ends)
     ELSE len = full[Len(full)]
  /\ n \in {len} \cup {k \in Cuts : k < len}
  /\ ends' = Append(ends, Total + n)
  /\ full' = Append(full, len)
  /\ unsent' = Unsent(len, n)
  /\ UNCHANGED <<waits, loops, buffered, readState, packetLen, at, handled, overread>>

----------------------------------------------------------------------------
(* The reader.                                                             *)

\* Mutant: a new buffer only for an empty list.
AvailableOnce == IF room = 0 /\ start = rd THEN BufLen ELSE room

\* Where the next read() puts its bytes: the rest of the last buffer, or a
\* new one if there is none or it is full.
Available == IF room = 0 THEN BufLen ELSE room
\* What a read() may return that does not block: the bytes that have arrived of
\* those that were written, as far as there is room.
ReadSizes == {n \in 1..Available : rd + n <= Total}
ReadLen(n) == rd + n - start

\* Mutant: "Not enough" destroys the list, as the errors do.
KeepNothing(n) ==
  /\ rd' = rd + n
  /\ start' = rd + n
  /\ room' = 0
  /\ UNCHANGED <<handled, overread>>

\* The bytes are appended to the list and stay there.
Keep(n) ==
  /\ rd' = rd + n
  /\ room' = Available - n
  /\ UNCHANGED <<start, handled, overread>>

\* The list does not start with a header and is destroyed with whatever it
\* holds.  packet_len has a value that is overwritten before it is used.
WrongHeader(n) ==
  /\ rd' = rd + n
  /\ start' = rd + n
  /\ room' = 0
  /\ readState' = "READY"
  /\ UNCHANGED <<packetLen, at, handled, overread>>

\* The list starts with a packet of this length: only then do EOP and check sum
\* agree.
IsWhole(p, len) == p \in PiecesAt(start) /\ full[p] = len /\ ~Torn(p)

\* The list is destroyed.  Bytes beyond the packet are copied to a new buffer
\* of their size whose position stays 0: the next bytes will be put over them.
OverreadRoom(len, n) == ReadLen(n) - len

\* Mutant: the list is not destroyed when its packet is handled.
FinishKeeping(p, n) ==
  /\ rd' = rd + n /\ room' = Available - n /\ start' = start
  /\ readState' = "READY" /\ packetLen' = full[p] /\ at' = "loop"
  /\ handled' = Append(handled, p)
  /\ overread' = (overread \/ ReadLen(n) > full[p])

\* FINISH_TO_READ_REQ.
Finish(p, n) ==
  /\ rd' = rd + n
  /\ start' = rd + n
  /\ room' = OverreadRoom(full[p], n)
  /\ readState' = "READY"
  /\ packetLen' = full[p]
  /\ at' = "loop"
  /\ handled' = Append(handled, p)
  /\ overread' = (overread \/ ReadLen(n) > full[p])

\* What the header announces has been read, and is no packet: EOP or the check
\* sum is wrong, or the length is none and malloc() fails.  The list is
\* destroyed with whatever it holds.
WrongPacket(len, n) ==
  /\ rd' = rd + n
  /\ start' = rd + n
  /\ room' = 0
  /\ readState' = "READY"
  /\ packetLen' = len
  /\ at' = "loop"
  /\ UNCHANGED <<handled, overread>>

Complete(len, n) ==
  \/ \E p \in PiecesAt(start) : IsWhole(p, len) /\ Finish(p, n)
  \/ (\A p \in PiecesAt(start) : ~IsWhole(p, len)) /\ WrongPacket(len, n)

\* The length in a header: the packet's, unless the piece ends within the header
\* and the length is read from whatever follows.
Announced(p) == IF ends[p] - Begin(p) >= HeaderSize THEN {full[p]} ELSE Garbage

\* Mutant: a packet that is just there is not complete.
ReadHeaderLate(n) ==
  /\ at = "loop" /\ readState = "READY"
  /\ \/ ReadLen(n) < HeaderSize /\ Keep(n) /\ UNCHANGED <<readState, packetLen, at>>
     \/ ReadLen(n) >= HeaderSize /\ PiecesAt(start) = {} /\ WrongHeader(n)
     \/ /\ ReadLen(n) >= HeaderSize
        /\ \E p \in PiecesAt(start) : \E len \in Announced(p) :
             \/ ReadLen(n) > len /\ Complete(len, n)
             \/ /\ ReadLen(n) <= len
                /\ Keep(n)
                /\ readState' = "START" /\ packetLen' = len /\ at' = "read"
  /\ UNCHANGED sender

\* server_handle_req_event in READY_TO_READ_REQ.
ReadHeader(n) ==
  /\ at = "loop" /\ readState = "READY"
  /\ \/ /\ ReadLen(n) < HeaderSize
        /\ Keep(n)
        /\ UNCHANGED <<readState, packetLen, at>>
     \/ /\ ReadLen(n) >= HeaderSize /\ PiecesAt(start) = {}
        /\ WrongHeader(n)
     \/ /\ ReadLen(n) >= HeaderSize
        /\ \E p \in PiecesAt(start) : \E len \in Announced(p) :
             \/ ReadLen(n) >= len /\ Complete(len, n)
             \/ /\ ReadLen(n) < len
                /\ Keep(n)
                /\ readState' = "START" /\ packetLen' = len /\ at' = "read"
  /\ UNCHANGED sender

\* START_TO_READ_REQ: in the same call as the header, where read() waits for
\* bytes, and in a call of its own for each further one.
ReadRest(n) ==
  /\ at = "read" \/ readState = "START"
  /\ \/ /\ ReadLen(n) < packetLen
        /\ Keep(n)
        /\ at' = "loop"
        /\ UNCHANGED <<readState, packetLen>>
     \/ ReadLen(n) >= packetLen /\ Complete(packetLen, n)
  /\ UNCHANGED sender

Next ==
  \/ \E len \in Lengths : \E n \in Cuts \cup {len} : Write(len, n)
  \/ \E n \in ReadSizes : ReadHeader(n)
  \/ \E n \in ReadSizes : ReadRest(n)

Spec == Init /\ [][Next]_vars

\* What was written arrives; looper_run polls again and again.
FairSpec == Spec /\ WF_vars(\E n \in ReadSizes : ReadHeader(n) \/ ReadRest(n))

----------------------------------------------------------------------------
(* Properties.                                                             *)

\* Packets are handled in the order they were written and none twice, even those
\* write_n_byte writes twice, however the stream is cut into pieces and however
\* much of it is thrown away.
InOrder == \A i, j \in 1..Len(handled) : i < j => handled[i] < handled[j]

\* Bytes are lost only by a short write or by reading beyond a packet: until one
\* of these the packets handled are the first ones written, and what is in the
\* buffers starts with the next one.
InStep == ~overread /\ \A p \in TornPieces : start <= Begin(p)
LossHasACause ==
  InStep =>
     /\ \A i \in 1..Len(handled) : handled[i] = i
     /\ start = Begin(Len(handled) + 1)

\* The second read() waits only for the rest of the packet whose header was
\* read, never for a packet that may not come, unless a write was short: the
\* one thread of the server waits there.
WaitsForTheRest ==
  at = "read" =>
     \E p \in PiecesAt(start) : Torn(p) \/ (rd < ends[p] /\ packetLen = full[p])

\* With a sender that waits for each packet's effect nothing is lost, and
\* everything it sends is handled, up to the first short write.
WaitingSenderIsServed ==
  \A p \in 1..MaxPieces : (waits /\ Len(ends) = p /\ TornPieces = {}) ~> Handled(p)
=============================================================================
