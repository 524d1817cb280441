--------------------------- MODULE Framing_proof ---------------------------
(***************************************************************************)
(* The reader of a stream hands out packets in order and once, loses bytes *)
(* only after a short write or by reading beyond a packet, and blocks only *)
(* for the rest of one unless a write was short: for every length of the   *)
(* buffers, every packet longer than a header and every place where a      *)
(* write may stop.                                                         *)
(***************************************************************************)
EXTENDS Framing, Integers, TLAPS

-----------------------------------------------------------------------------
(* The inductive invariant *)

(* Pieces lie one after the other in the stream, none longer than its packet, *)
Layout ==
  /\ \A p \in 1..Len(ends) : Begin(p) < ends[p] /\ ends[p] - Begin(p) <= full[p]
  /\ \A p, q \in 1..Len(ends) : p < q => ends[p] < ends[q]

(* what was handled lies before the list, *)
Behind == \A i \in 1..Len(handled) : ends[handled[i]] <= start

(* and the list holds less than a header, or less than its header announces. *)
Short ==
  /\ readState = "READY" => rd < start + HeaderSize
  /\ readState = "START" =>
       \E p \in PiecesAt(start) : packetLen \in Announced(p) /\ rd < start + packetLen
  /\ at = "read" => readState = "START"

IInv == TypeOK /\ Layout /\ Behind /\ Short /\ InOrder /\ LossHasACause

-----------------------------------------------------------------------------
(* A sequence over a set is one over any larger set. *)
LEMMA SeqMonotone ==
  ASSUME NEW S, NEW T, S \subseteq T, NEW s \in Seq(S)
  PROVE  s \in Seq(T)
OBVIOUS

(* What is left of a read that goes past a point is no longer than the read. *)
LEMMA LessThanAll ==
  ASSUME NEW a \in Nat, NEW n \in Nat, NEW e \in Nat, NEW top \in Nat, NEW b,
         b = a + n, a < e, e <= b, n <= top
  PROVE  b - e \in 0..top
OBVIOUS

(* What the assumption says of numbers. *)
LEMMA Constants ==
  /\ BufLen \in Nat /\ BufLen > 0
  /\ HeaderSize \in Nat /\ HeaderSize > 0
  /\ \A len \in Lengths : len \in Nat /\ len > HeaderSize
  /\ \A k \in Cuts : k \in Nat /\ k > 0
  /\ Garbage \subseteq Nat
<1>1. BufLen \in Nat \ {0} /\ HeaderSize \in Nat \ {0}
  BY FramingAssumption
<1>2. Lengths \subseteq {n \in Nat : n > HeaderSize}
  BY FramingAssumption
<1>3. Cuts \subseteq Nat \ {0} /\ Garbage \subseteq Nat
  BY FramingAssumption
<1> QED
  BY <1>1, <1>2, <1>3

(* What the type invariant says of the variables. *)
LEMMA Numbers ==
  ASSUME TypeOK
  PROVE  /\ rd \in Nat /\ start \in Nat /\ unsent \in Nat
         /\ Len(ends) \in Nat /\ Len(handled) \in Nat /\ Len(full) = Len(ends)
         /\ \A p \in 1..Len(ends) : ends[p] \in Nat /\ full[p] \in Lengths /\ full[p] \in Nat
         /\ \A i \in 1..Len(handled) : handled[i] \in 1..Len(ends)
         /\ Total \in Nat /\ (ends # <<>> => Len(ends) \in 1..Len(ends))
         /\ start <= rd /\ rd <= Total
<1>1. start \in Nat /\ rd \in Nat /\ unsent \in Nat
  BY DEF TypeOK
<1>2. ends \in Seq(Nat) /\ handled \in Seq(1..Len(ends)) /\ full \in Seq(Lengths)
      /\ Len(full) = Len(ends)
  BY DEF TypeOK
<1>3. ends # <<>> => Len(ends) \in 1..Len(ends)
  BY <1>2
<1>4. Total \in Nat
  BY <1>2, <1>3 DEF Total
<1>5. \A p \in 1..Len(ends) : ends[p] \in Nat /\ full[p] \in Lengths /\ full[p] \in Nat
  BY <1>2, Constants
<1> QED
  BY <1>1, <1>2, <1>3, <1>4, <1>5 DEF TypeOK

(* Where pieces begin. *)
LEMMA BeginProperties ==
  ASSUME TypeOK, Layout
  PROVE  /\ \A p \in 1..Len(ends) :
              /\ ends[p] \in Nat /\ Begin(p) \in Nat
              /\ Begin(p) < ends[p] /\ ends[p] <= Total
         /\ \A p, q \in 1..Len(ends) : p < q => ends[p] <= Begin(q)
         /\ Total \in Nat
<1>1. Len(ends) \in Nat /\ \A p \in 1..Len(ends) : ends[p] \in Nat
  BY Numbers
<1>2. ASSUME NEW p \in 1..Len(ends)
      PROVE  /\ Begin(p) \in Nat /\ Begin(p) < ends[p] /\ ends[p] <= Total
  <2>1. CASE p = 1
    BY <1>1, <2>1 DEF Begin, Layout, Total
  <2>2. CASE p > 1
    <3>1. p - 1 \in 1..Len(ends) /\ p - 1 < p
      BY <1>1, <2>2
    <3> QED
      BY <1>1, <2>2, <3>1 DEF Begin, Layout, Total
  <2> QED
    BY <1>1, <2>1, <2>2
<1>3. ASSUME NEW p \in 1..Len(ends), NEW q \in 1..Len(ends), p < q
      PROVE  ends[p] <= Begin(q)
  <2>1. q - 1 \in 1..Len(ends) /\ Begin(q) = ends[q - 1] /\ p <= q - 1
    BY <1>1, <1>3 DEF Begin
  <2> QED
    BY <1>1, <2>1 DEF Layout
<1>4. Total \in Nat
  BY Numbers
<1> QED
  BY <1>1, <1>2, <1>3, <1>4

(* No two pieces begin at one place, *)
LEMMA OnePieceAt ==
  ASSUME TypeOK, Layout, NEW s, NEW p \in PiecesAt(s), NEW q \in PiecesAt(s)
  PROVE  p = q
<1>1. p \in 1..Len(ends) /\ q \in 1..Len(ends) /\ Begin(p) = Begin(q) /\ Len(ends) \in Nat
  BY Numbers DEF PiecesAt
<1>2. ~(p < q) /\ ~(q < p)
  BY <1>1, BeginProperties
<1> QED
  BY <1>1, <1>2

(* a piece that is not torn is its packet, whose header announces its length, *)
LEMMA WholePiece ==
  ASSUME TypeOK, Layout, NEW p \in 1..Len(ends), ~Torn(p)
  PROVE  ends[p] = Begin(p) + full[p] /\ Announced(p) = {full[p]}
<1>1. /\ ends[p] \in Nat /\ Begin(p) \in Nat /\ full[p] \in Nat /\ full[p] > HeaderSize
      /\ HeaderSize \in Nat
  BY BeginProperties, Numbers, Constants
<1>2. ends[p] - Begin(p) <= full[p] /\ ~(ends[p] - Begin(p) < full[p])
  BY DEF Layout, Torn
<1>3. ends[p] = Begin(p) + full[p]
  <2>1. \A e, b, f \in Nat : e - b <= f /\ ~(e - b < f) => e = b + f
    OBVIOUS
  <2> QED
    BY <1>1, <1>2, <2>1
<1>4. ends[p] - Begin(p) >= HeaderSize
  BY <1>1, <1>3
<1> QED
  BY <1>3, <1>4 DEF Announced

(* what a header announces is a number, *)
LEMMA AnnouncedType ==
  ASSUME TypeOK, NEW p \in 1..Len(ends), NEW len \in Announced(p)
  PROVE  len \in Nat /\ len \in Lengths \cup Garbage
BY Numbers, Constants DEF Announced

(* and a read brings at least one byte of those that were written. *)
LEMMA ReadProperties ==
  ASSUME TypeOK, NEW n \in ReadSizes
  PROVE  /\ Available \in 1..BufLen
         /\ n \in 1..Available /\ n \in Nat /\ n > 0
         /\ rd + n \in Nat /\ rd + n <= Total
         /\ ReadLen(n) \in Nat /\ start + ReadLen(n) = rd + n
         /\ Total \in Nat
<1>1. Available \in 1..BufLen
  BY Constants DEF TypeOK, Available
<1>2. n \in 1..Available /\ rd + n <= Total
  BY DEF ReadSizes
<1> QED
  BY <1>1, <1>2, Constants, Numbers DEF ReadLen

(* Initially the invariant holds, *)
LEMMA InitIInv == Init => IInv
<1> SUFFICES ASSUME Init PROVE IInv
  OBVIOUS
<1>1. TypeOK
  <2>1. /\ ends \in Seq(Nat) /\ handled \in Seq(1..Len(ends)) /\ Total = 0
        /\ full \in Seq(Lengths) /\ Len(full) = Len(ends)
    BY DEF Init, Total
  <2>2. start <= rd /\ rd <= Total /\ room \in 0..BufLen
    BY <2>1, Constants DEF Init
  <2>3. {start, rd, unsent} \subseteq Nat /\ packetLen \in Lengths \cup Garbage \cup {0}
    BY DEF Init
  <2> QED
    BY <2>1, <2>2, <2>3 DEF Init, TypeOK
<1>2. Layout /\ Behind /\ Short /\ InOrder /\ LossHasACause
  BY Constants DEF Init, Layout, Behind, Short, InOrder, LossHasACause, Begin
<1> QED
  BY <1>1, <1>2 DEF IInv

-----------------------------------------------------------------------------
(* While the reader is in step, the list starts with the piece after the last
   one handled, if there is any. *)
LEMMA NextPiece ==
  ASSUME IInv, InStep
  PROVE  /\ Len(handled) \in 0..Len(ends)
         /\ start < Total => Len(handled) + 1 \in PiecesAt(start)
<1>1. /\ Len(ends) \in Nat /\ Len(handled) \in Nat
      /\ \A i \in 1..Len(handled) : handled[i] \in 1..Len(ends)
      /\ \A i \in 1..Len(handled) : handled[i] = i
      /\ start = Begin(Len(handled) + 1)
  BY Numbers DEF IInv, LossHasACause
<1>2. Len(handled) <= Len(ends)
  <2>1. CASE Len(handled) = 0
    BY <1>1, <2>1
  <2>2. CASE Len(handled) > 0
    <3>1. Len(handled) \in 1..Len(handled)
      BY <1>1, <2>2
    <3> QED
      BY <1>1, <3>1
  <2> QED
    BY <1>1, <2>1, <2>2
<1>3. ASSUME start < Total, Len(handled) = Len(ends)
      PROVE  FALSE
  <2>1. start = Total
    <3>1. CASE ends = <<>>
      BY <1>1, <1>3, <3>1 DEF Begin, Total
    <3>2. CASE ends # <<>>
      <4>1. Len(ends) > 0
        BY <3>2, Numbers DEF IInv
      <4> QED
        BY <1>1, <1>3, <3>2, <4>1 DEF Begin, Total
    <3> QED
      BY <3>1, <3>2
  <2> QED
    BY <1>3, <2>1, Numbers DEF IInv
<1> QED
  BY <1>1, <1>2, <1>3 DEF PiecesAt

(* The list only moves on: a reader in step was in step before. *)
LEMMA InStepBefore ==
  ASSUME IInv, UNCHANGED sender, start \in Nat, start' \in Nat, start <= start',
         overread => overread', InStep'
  PROVE  InStep
<1>1. ends' = ends /\ full' = full
  BY DEF sender
<1>2. TornPieces' = TornPieces /\ \A p : Begin(p)' = Begin(p)
  BY <1>1 DEF TornPieces, Torn, Begin
<1>3. ~overread
  BY DEF InStep
<1>4. ASSUME NEW p \in TornPieces
      PROVE  start <= Begin(p)
  <2>1. start' <= Begin(p)
    BY <1>2, <1>4 DEF InStep
  <2>2. Begin(p) \in Nat
    BY <1>4, BeginProperties DEF TornPieces, IInv
  <2> QED
    BY <2>1, <2>2
<1> QED
  BY <1>3, <1>4 DEF InStep

-----------------------------------------------------------------------------
(* The steps *)

(* A piece that is written lies behind the others. *)
LEMMA WriteStep ==
  ASSUME IInv, NEW len \in Lengths, NEW n \in Cuts \cup {len}, Write(len, n)
  PROVE  IInv'
<1>1. n \in Nat /\ n > 0 /\ n <= len /\ len \in Nat
  BY Constants DEF Write
<1>2. /\ ends' = Append(ends, Total + n) /\ Total + n \in Nat
      /\ Len(ends') = Len(ends) + 1 /\ ends'[Len(ends) + 1] = Total + n
      /\ \A p \in 1..Len(ends) : ends'[p] = ends[p]
      /\ ends' \in Seq(Nat)
  BY <1>1, Numbers DEF Write, IInv, TypeOK
<1>3. /\ full' = Append(full, len) /\ Len(full') = Len(ends') /\ full' \in Seq(Lengths)
      /\ full'[Len(ends) + 1] = len
      /\ \A p \in 1..Len(ends) : full'[p] = full[p]
  BY <1>2 DEF Write, IInv, TypeOK
<1>4. /\ waits' = waits /\ loops' = loops /\ rd' = rd /\ start' = start /\ room' = room
      /\ readState' = readState /\ packetLen' = packetLen /\ at' = at
      /\ handled' = handled /\ overread' = overread
  BY DEF Write, buffered
<1>5. /\ \A p \in Nat : p = Len(ends) + 1 => Begin(p)' = Total
      /\ Total' = Total + n
  <2>1. CASE ends = <<>>
    BY <1>2, <2>1 DEF Begin, Total
  <2>2. CASE ends # <<>>
    <3>1. Len(ends) \in 1..Len(ends) /\ Len(ends) \in Nat
      BY <2>2, Numbers DEF IInv
    <3>2. ends' # <<>>
      BY <1>2
    <3> QED
      BY <1>2, <2>2, <3>1, <3>2 DEF Begin, Total
  <2> QED
    BY <2>1, <2>2
<1>6. \A p \in 1..Len(ends) : Begin(p)' = Begin(p)
  <2>1. \A p \in 1..Len(ends) : p # 1 => p - 1 \in 1..Len(ends)
    BY Numbers DEF IInv
  <2> QED
    BY <1>2, <2>1 DEF Begin
<1>7. TypeOK'
  <2>1. handled' \in Seq(1..Len(ends'))
    <3>1. handled \in Seq(1..Len(ends))
      BY DEF IInv, TypeOK
    <3>2. 1..Len(ends) \subseteq 1..Len(ends')
      BY <1>2, Numbers DEF IInv
    <3> QED
      BY <1>4, <3>1, <3>2, SeqMonotone
  <2>2. rd' <= Total'
    BY <1>1, <1>4, <1>5, Numbers DEF IInv
  <2>3. unsent' \in Nat
    <3>1. unsent' = Unsent(len, n) /\ unsent \in Nat
      BY Numbers DEF Write, IInv
    <3> QED
      BY <1>1, <3>1 DEF Unsent
  <2> QED
    BY <1>2, <1>3, <1>4, <2>1, <2>2, <2>3 DEF IInv, TypeOK
<1>8. Layout'
  <2>1. \A p \in 1..Len(ends) : ends[p] <= Total
    BY BeginProperties DEF IInv
  <2>2. ASSUME NEW p \in 1..Len(ends)'
        PROVE  Begin(p)' < ends'[p] /\ ends'[p] - Begin(p)' <= full'[p]
    <3>1. CASE p \in 1..Len(ends)
      BY <3>1, <1>2, <1>3, <1>6 DEF IInv, Layout
    <3>2. CASE p = Len(ends) + 1
      <4>1. ends'[p] = Total + n /\ Begin(p)' = Total /\ full'[p] = len
        BY <3>2, <1>2, <1>3, <1>5, Numbers DEF IInv
      <4> QED
        BY <4>1, <1>1, Numbers DEF IInv
    <3> QED
      BY <1>2, <3>1, <3>2, Numbers DEF IInv
  <2>3. ASSUME NEW p \in 1..Len(ends)', NEW q \in 1..Len(ends)', p < q
        PROVE  ends'[p] < ends'[q]
    <3>1. p \in 1..Len(ends)
      BY <1>2, <2>3, Numbers DEF IInv
    <3>2. CASE q \in 1..Len(ends)
      BY <2>3, <3>1, <3>2, <1>2 DEF IInv, Layout
    <3>3. CASE q = Len(ends) + 1
      BY <2>1, <3>1, <3>3, <1>1, <1>2, Numbers DEF IInv
    <3> QED
      BY <1>2, <3>2, <3>3, Numbers DEF IInv
  <2> QED
    BY <2>2, <2>3 DEF Layout
<1>9. Behind'
  BY <1>2, <1>4, Numbers DEF IInv, Behind
<1>10. Short'
  <2>1. ASSUME NEW p \in PiecesAt(start)
        PROVE  p \in PiecesAt(start)' /\ Announced(p)' = Announced(p)
    <3>1. p \in 1..Len(ends) /\ Begin(p) = start
      BY DEF PiecesAt
    <3>2. p \in 1..Len(ends)' /\ Begin(p)' = start'
      BY <3>1, <1>2, <1>4, <1>6, Numbers DEF IInv
    <3>3. ends'[p] = ends[p] /\ full'[p] = full[p] /\ Begin(p)' = Begin(p)
      BY <3>1, <1>2, <1>3, <1>6
    <3> QED
      BY <3>2, <3>3 DEF PiecesAt, Announced
  <2> QED
    BY <1>4, <2>1 DEF IInv, Short
<1>11. InOrder'
  BY <1>4 DEF IInv, InOrder
<1>12. LossHasACause'
  <2>1. ASSUME InStep'
        PROVE  InStep
    <3>1. \A p \in TornPieces : p \in TornPieces' /\ Begin(p)' = Begin(p)
      BY <1>2, <1>3, <1>6, Numbers DEF TornPieces, Torn, IInv
    <3> QED
      BY <1>4, <2>1, <3>1 DEF InStep
  <2>2. ASSUME InStep
        PROVE  Begin(Len(handled) + 1)' = Begin(Len(handled) + 1)
    <3>1. Len(handled) \in 0..Len(ends)
      BY <2>2, NextPiece
    <3> QED
      BY <1>2, <1>4, <3>1, Numbers DEF Begin, IInv
  <2> QED
    BY <1>4, <2>1, <2>2 DEF IInv, LossHasACause
<1> QED
  BY <1>7, <1>8, <1>9, <1>10, <1>11, <1>12 DEF IInv

(* What a read that leaves the stream alone keeps. *)
LEMMA SameStream ==
  ASSUME IInv, UNCHANGED sender
  PROVE  /\ waits' = waits /\ loops' = loops /\ ends' = ends /\ full' = full
         /\ unsent' = unsent
         /\ Layout' /\ Total' = Total
         /\ \A p : Begin(p)' = Begin(p)
         /\ \A p : Announced(p)' = Announced(p)
         /\ \A s : PiecesAt(s)' = PiecesAt(s)
BY DEF sender, IInv, Layout, Total, Begin, Announced, PiecesAt

(* Bytes that are kept do not complete what they belong to. *)
LEMMA KeepStep ==
  ASSUME IInv, NEW n \in ReadSizes, Keep(n), UNCHANGED sender,
         \/ /\ ReadLen(n) < HeaderSize
            /\ readState' = "READY" /\ at' = "loop" /\ packetLen' = packetLen
         \/ /\ readState' = "START" /\ at' \in {"loop", "read"}
            /\ \E p \in PiecesAt(start) :
                  packetLen' \in Announced(p) /\ ReadLen(n) < packetLen'
  PROVE  IInv'
<1>1. /\ rd' = rd + n /\ room' = Available - n /\ start' = start
      /\ handled' = handled /\ overread' = overread
  BY DEF Keep
<1>2. /\ Available \in 1..BufLen /\ n \in 1..Available
      /\ rd' \in Nat /\ rd' <= Total /\ ReadLen(n) \in Nat /\ start + ReadLen(n) = rd'
  BY <1>1, ReadProperties DEF IInv
<1>3. \A p \in PiecesAt(start) : p \in 1..Len(ends)
  BY DEF PiecesAt
<1>4. TypeOK'
  <2>1. room' \in 0..BufLen /\ start <= rd'
    BY <1>1, <1>2, Constants, Numbers DEF IInv
  <2>2. packetLen' \in Lengths \cup Garbage \cup {0}
    BY <1>3, AnnouncedType DEF IInv, TypeOK
  <2>3. readState' \in {"READY", "START"} /\ at' \in {"loop", "read"}
    OBVIOUS
  <2> QED
    BY <1>1, <1>2, <2>1, <2>2, <2>3, SameStream DEF IInv, TypeOK
<1>5. Short'
  <2>1. CASE ReadLen(n) < HeaderSize /\ readState' = "READY" /\ at' = "loop"
    BY <2>1, <1>1, <1>2, Constants, Numbers DEF IInv, Short
  <2>2. CASE /\ readState' = "START"
             /\ \E p \in PiecesAt(start) :
                  packetLen' \in Announced(p) /\ ReadLen(n) < packetLen'
    <3>1. PICK p \in PiecesAt(start) :
                  packetLen' \in Announced(p) /\ ReadLen(n) < packetLen'
      BY <2>2
    <3>2. rd' < start + packetLen'
      BY <3>1, <1>2, <1>3, AnnouncedType, Numbers DEF IInv
    <3>3. p \in PiecesAt(start)' /\ packetLen' \in Announced(p)'
      BY <1>1, <3>1, SameStream
    <3> QED
      BY <2>2, <3>2, <3>3, <1>1 DEF Short
  <2> QED
    BY <2>1, <2>2
<1>6. Behind' /\ InOrder'
  BY <1>1, SameStream DEF IInv, Behind, InOrder
<1>7. LossHasACause'
  <2>1. InStep' => InStep
    BY <1>1, InStepBefore, Numbers DEF IInv
  <2> QED
    BY <1>1, <2>1, SameStream DEF IInv, LossHasACause
<1> QED
  BY <1>4, <1>5, <1>6, <1>7, SameStream DEF IInv

(* Bytes are thrown away only by a reader that is not in step. *)
LEMMA DropStep ==
  ASSUME IInv, NEW n \in ReadSizes, UNCHANGED sender,
         rd' = rd + n, start' = rd + n, room' = 0, readState' = "READY", at' = "loop",
         packetLen' \in Lengths \cup Garbage \cup {0},
         UNCHANGED <<handled, overread>>,
         \A p \in PiecesAt(start) : Torn(p)
  PROVE  IInv'
<1>1. /\ rd' \in Nat /\ start' = rd' /\ rd' <= Total /\ start < rd' /\ start < Total
      /\ start \in Nat
  BY ReadProperties, Numbers DEF IInv
<1>2. TypeOK'
  BY <1>1, SameStream, Constants DEF IInv, TypeOK
<1>3. Behind'
  <2>1. \A i \in 1..Len(handled) : handled[i] \in 1..Len(ends) /\ ends[handled[i]] \in Nat
    BY Numbers DEF IInv
  <2> QED
    BY <1>1, <2>1, SameStream, Numbers DEF IInv, Behind
<1>4. Short'
  BY <1>1, Constants DEF Short
<1>5. ~InStep'
  <2>1. SUFFICES ASSUME InStep'
                 PROVE  FALSE
    OBVIOUS
  <2>2. InStep
    BY <1>1, <2>1, InStepBefore
  <2>3. Len(handled) + 1 \in PiecesAt(start)
    BY <1>1, <2>2, NextPiece
  <2>4. Len(handled) + 1 \in TornPieces /\ Begin(Len(handled) + 1) = start
    BY <2>3 DEF TornPieces, PiecesAt
  <2>5. Len(handled) + 1 \in TornPieces'
    BY <2>4, SameStream DEF TornPieces, Torn
  <2>6. start' <= Begin(Len(handled) + 1)'
    BY <2>1, <2>5 DEF InStep
  <2> QED
    BY <1>1, <2>4, <2>6, SameStream
<1>6. InOrder' /\ LossHasACause'
  BY <1>5 DEF IInv, InOrder, LossHasACause
<1> QED
  BY <1>2, <1>3, <1>4, <1>6, SameStream DEF IInv

(* The packet that is complete is behind the list and after all others. *)
LEMMA FinishStep ==
  ASSUME IInv, NEW n \in ReadSizes, UNCHANGED sender,
         NEW p \in PiecesAt(start), ~Torn(p), rd < start + full[p], ReadLen(n) >= full[p],
         Finish(p, n)
  PROVE  IInv'
<1>1. /\ p \in 1..Len(ends) /\ Begin(p) = start
      /\ ends[p] \in Nat /\ start < ends[p] /\ ends[p] <= Total
      /\ full[p] \in Lengths /\ full[p] \in Nat
  BY BeginProperties, Numbers DEF IInv, PiecesAt
<1>2. ends[p] = start + full[p]
  BY <1>1, WholePiece DEF IInv
<1>3. /\ rd' = rd + n /\ start' = rd' /\ room' = ReadLen(n) - full[p]
      /\ readState' = "READY" /\ packetLen' = full[p] /\ at' = "loop"
      /\ overread' = (overread \/ ReadLen(n) > full[p])
      /\ handled' = Append(handled, p)
  BY DEF Finish, OverreadRoom
<1>4. /\ Len(handled) \in Nat /\ Len(handled') = Len(handled) + 1
      /\ handled'[Len(handled) + 1] = p
      /\ \A i \in 1..Len(handled) : handled'[i] = handled[i]
      /\ handled' \in Seq(1..Len(ends))
  BY <1>1, <1>3 DEF IInv, TypeOK
<1>5. /\ Available \in 1..BufLen /\ n \in 1..Available
      /\ rd' \in Nat /\ rd' <= Total /\ ReadLen(n) \in Nat /\ start + ReadLen(n) = rd'
  BY <1>3, ReadProperties DEF IInv
<1>6. room' \in 0..BufLen /\ room' = rd' - ends[p] /\ ends[p] <= rd' /\ start <= rd'
  <2>1. /\ rd \in Nat /\ start \in Nat /\ BufLen \in Nat /\ n \in Nat /\ n <= BufLen
        /\ full[p] \in Nat
    BY <1>1, <1>5, Constants, Numbers DEF IInv
  <2>2. room' = rd' - ends[p] /\ ends[p] <= rd'
    BY <2>1, <1>2, <1>3, <1>5
  <2>3. rd < ends[p] /\ rd' = rd + n /\ ends[p] <= rd' /\ ends[p] \in Nat
    BY <1>1, <1>2, <1>3, <2>2
  <2>4. rd' - ends[p] \in 0..BufLen
    BY <2>1, <2>3, LessThanAll
  <2> QED
    BY <2>1, <2>2, <2>4, <1>1, <1>5
<1>7. TypeOK'
  <2>1. overread' \in BOOLEAN
    BY <1>3
  <2>2. /\ waits' \in BOOLEAN /\ loops' \in BOOLEAN /\ ends' \in Seq(Nat)
        /\ full' \in Seq(Lengths) /\ Len(full') = Len(ends') /\ unsent' \in Nat
    BY SameStream DEF IInv, TypeOK
  <2>3. handled' \in Seq(1..Len(ends'))
    BY <1>4, SameStream
  <2>4. {start', rd', unsent'} \subseteq Nat /\ start' <= rd' /\ rd' <= Total'
    BY <1>3, <1>5, <2>2, SameStream
  <2>5. /\ room' \in 0..BufLen
        /\ readState' \in {"READY", "START"} /\ at' \in {"loop", "read"}
        /\ packetLen' \in Lengths \cup Garbage \cup {0}
    BY <1>1, <1>3, <1>6
  <2> QED
    BY <2>1, <2>2, <2>3, <2>4, <2>5 DEF TypeOK
<1>8. \A i \in 1..Len(handled) :
        /\ handled[i] \in 1..Len(ends) /\ ends[handled[i]] \in Nat
        /\ ends[handled[i]] <= start
  BY Numbers DEF IInv, Behind
<1>9. Behind'
  <2>1. ASSUME NEW i \in 1..Len(handled')
        PROVE  ends[handled'[i]] <= rd'
    <3>1. CASE i \in 1..Len(handled)
      <4>1. handled'[i] = handled[i]
        BY <3>1, <1>4
      <4>2. ends[handled[i]] \in Nat /\ ends[handled[i]] <= start
        BY <3>1, <1>8
      <4>3. start \in Nat /\ rd' \in Nat /\ start <= rd'
        BY <1>5, <1>6, Numbers DEF IInv
      <4> QED
        BY <4>1, <4>2, <4>3
    <3>2. CASE i = Len(handled) + 1
      BY <3>2, <1>4, <1>6
    <3> QED
      BY <1>4, <3>1, <3>2
  <2> QED
    BY <2>1, <1>3, SameStream DEF Behind
<1>10. Short'
  BY <1>3, <1>5, Constants DEF Short
<1>11. InOrder'
  <2>1. \A i \in 1..Len(handled) : handled[i] < p
    BY <1>1, <1>8, BeginProperties, Numbers DEF IInv
  <2>2. ASSUME NEW i \in 1..Len(handled'), NEW j \in 1..Len(handled'), i < j
        PROVE  handled'[i] < handled'[j]
    <3>1. i \in 1..Len(handled)
      BY <2>2, <1>4
    <3>2. CASE j \in 1..Len(handled)
      BY <2>2, <3>1, <3>2, <1>4 DEF IInv, InOrder
    <3>3. CASE j = Len(handled) + 1
      BY <2>1, <3>1, <3>3, <1>4
    <3> QED
      BY <1>4, <3>2, <3>3
  <2> QED
    BY <2>2 DEF InOrder
<1>12. LossHasACause'
  <2>1. SUFFICES ASSUME InStep'
                 PROVE  /\ \A i \in 1..Len(handled') : handled'[i] = i
                        /\ start' = Begin(Len(handled) + 1)'
    BY DEF LossHasACause
  <2>2. ~overread' /\ ~(ReadLen(n) > full[p])
    <3>1. ~overread'
      BY <2>1 DEF InStep
    <3> QED
      BY <3>1, <1>3, Zenon
  <2>3. rd' = ends[p]
    <3>1. start \in Nat /\ full[p] \in Nat /\ ReadLen(n) \in Nat
      BY <1>1, <1>5, Numbers DEF IInv
    <3>2. rd' = start + ReadLen(n) /\ ends[p] = start + full[p] /\ ends[p] <= rd'
      BY <1>2, <1>5, <1>6
    <3> QED
      BY <2>2, <3>1, <3>2
  <2>4. InStep
    <3>1. start \in Nat /\ start' \in Nat /\ start <= start'
      BY <1>3, <1>5, <1>6, Numbers DEF IInv
    <3>2. overread => overread'
      BY <1>3
    <3> QED
      BY <2>1, <3>1, <3>2, InStepBefore
  <2>5. p = Len(handled) + 1
    <3>1. start < Total
      BY <1>1, Numbers DEF IInv
    <3>2. Len(handled) + 1 \in PiecesAt(start)
      BY <2>4, <3>1, NextPiece
    <3> QED
      BY <3>2, OnePieceAt DEF IInv
  <2>6. \A i \in 1..Len(handled) : handled[i] = i
    BY <2>4 DEF IInv, LossHasACause
  <2>7. Begin(Len(handled) + 1)' = ends[p]
    <3>1. Len(handled') + 1 # 1 /\ Len(handled') + 1 - 1 = p
      BY <2>5, <1>4
    <3> QED
      BY <3>1, SameStream DEF Begin
  <2> QED
    BY <2>3, <2>5, <2>6, <2>7, <1>3, <1>4
<1> QED
  BY <1>7, <1>9, <1>10, <1>11, <1>12, SameStream DEF IInv

(* What is complete is a packet, or what a short write left of one. *)
LEMMA CompleteStep ==
  ASSUME IInv, NEW n \in ReadSizes, UNCHANGED sender,
         NEW p \in PiecesAt(start), NEW len \in Announced(p),
         ~Torn(p) => rd < start + full[p],
         ReadLen(n) >= len, Complete(len, n)
  PROVE  IInv'
<1>1. p \in 1..Len(ends) /\ \A q \in PiecesAt(start) : q = p
  BY OnePieceAt DEF IInv, PiecesAt
<1>2. CASE Torn(p)
  <2>1. \A q \in PiecesAt(start) : ~IsWhole(q, len)
    BY <1>1, <1>2 DEF IsWhole
  <2>2. WrongPacket(len, n)
    BY <2>1 DEF Complete
  <2>3. len \in Lengths \cup Garbage \cup {0}
    BY <1>1, AnnouncedType DEF IInv
  <2>4. \A q \in PiecesAt(start) : Torn(q)
    BY <1>1, <1>2
  <2> QED
    BY <2>2, <2>3, <2>4, DropStep DEF WrongPacket
<1>3. CASE ~Torn(p)
  <2>1. len = full[p]
    BY <1>1, <1>3, WholePiece DEF IInv
  <2>2. IsWhole(p, len)
    BY <1>3, <2>1 DEF IsWhole
  <2>3. Finish(p, n)
    BY <1>1, <2>2 DEF Complete
  <2> QED
    BY <1>3, <2>1, <2>3, FinishStep
<1> QED
  BY <1>2, <1>3

(* A read for a header keeps the bytes, drops them or completes a packet, *)
LEMMA ReadHeaderStep ==
  ASSUME IInv, NEW n \in ReadSizes, ReadHeader(n)
  PROVE  IInv'
<1>1. at = "loop" /\ readState = "READY" /\ UNCHANGED sender
  BY DEF ReadHeader
<1>2. CASE ReadLen(n) < HeaderSize /\ Keep(n) /\ UNCHANGED <<readState, packetLen, at>>
  BY <1>1, <1>2, KeepStep
<1>3. CASE PiecesAt(start) = {} /\ WrongHeader(n)
  <2>1. packetLen' \in Lengths \cup Garbage \cup {0}
    BY <1>3 DEF WrongHeader, IInv, TypeOK
  <2> QED
    BY <1>1, <1>3, <2>1, DropStep DEF WrongHeader
<1>4. ASSUME NEW p \in PiecesAt(start), NEW len \in Announced(p),
             \/ ReadLen(n) >= len /\ Complete(len, n)
             \/ /\ ReadLen(n) < len
                /\ Keep(n)
                /\ readState' = "START" /\ packetLen' = len /\ at' = "read"
      PROVE  IInv'
  <2>1. rd < start + full[p]
    <3>1. full[p] \in Nat /\ full[p] > HeaderSize
      BY Constants, Numbers DEF IInv, PiecesAt
    <3> QED
      BY <1>1, <3>1, Constants, Numbers DEF IInv, Short
  <2>2. CASE ReadLen(n) >= len /\ Complete(len, n)
    BY <1>1, <2>1, <2>2, CompleteStep
  <2>3. CASE /\ ReadLen(n) < len
             /\ Keep(n)
             /\ readState' = "START" /\ packetLen' = len /\ at' = "read"
    BY <1>1, <2>3, KeepStep
  <2> QED
    BY <1>4, <2>2, <2>3
<1> QED
  BY <1>2, <1>3, <1>4 DEF ReadHeader

(* and so does one for the rest, except that the bytes are a packet's. *)
LEMMA ReadRestStep ==
  ASSUME IInv, NEW n \in ReadSizes, ReadRest(n)
  PROVE  IInv'
<1>1. readState = "START" /\ UNCHANGED sender
  BY DEF ReadRest, IInv, Short
<1>2. PICK p \in PiecesAt(start) : packetLen \in Announced(p) /\ rd < start + packetLen
  BY <1>1 DEF IInv, Short
<1>3. CASE /\ ReadLen(n) < packetLen /\ Keep(n)
           /\ at' = "loop" /\ UNCHANGED <<readState, packetLen>>
  BY <1>1, <1>2, <1>3, KeepStep
<1>4. CASE ReadLen(n) >= packetLen /\ Complete(packetLen, n)
  <2>1. ~Torn(p) => rd < start + full[p]
    <3>1. ~Torn(p) => packetLen = full[p]
      BY <1>2, WholePiece DEF IInv, PiecesAt
    <3> QED
      BY <1>2, <3>1
  <2> QED
    BY <1>1, <1>2, <1>4, <2>1, CompleteStep
<1> QED
  BY <1>3, <1>4 DEF ReadRest

(* Every step keeps the invariant. *)
LEMMA NextIInv == IInv /\ [Next]_vars => IInv'
<1> SUFFICES ASSUME IInv, [Next]_vars PROVE IInv'
  OBVIOUS
<1>1. CASE \E len \in Lengths : \E n \in Cuts \cup {len} : Write(len, n)
  BY <1>1, WriteStep
<1>2. CASE \E n \in ReadSizes : ReadHeader(n)
  BY <1>2, ReadHeaderStep
<1>3. CASE \E n \in ReadSizes : ReadRest(n)
  BY <1>3, ReadRestStep
<1>4. CASE UNCHANGED vars
  BY <1>4 DEF vars, buffered, IInv, TypeOK, Layout, Behind, Short, InOrder, LossHasACause,
              InStep, TornPieces, Torn, Announced, Begin, Total, PiecesAt
<1> QED
  BY <1>1, <1>2, <1>3, <1>4 DEF Next

(* The invariant holds in every behaviour. *)
LEMMA Invariance == Spec => []IInv
BY InitIInv, NextIInv, PTL DEF Spec

-----------------------------------------------------------------------------
(* The theorems *)

(* Every variable of the reader keeps its type; in particular it never takes
   bytes that were not written, and the last buffer never has more room than
   a buffer has. *)
THEOREM TypeCorrect == Spec => []TypeOK
<1>1. IInv => TypeOK
  BY DEF IInv
<1> QED
  BY <1>1, Invariance, PTL

(* Packets are handled in the order they were written and none twice. *)
THEOREM InOrderHolds == Spec => []InOrder
<1>1. IInv => InOrder
  BY DEF IInv
<1> QED
  BY <1>1, Invariance, PTL

(* Up to the first short write or overread nothing that was sent is lost. *)
THEOREM LossHasACauseHolds == Spec => []LossHasACause
<1>1. IInv => LossHasACause
  BY DEF IInv
<1> QED
  BY <1>1, Invariance, PTL

(* The second read() of a call waits only for the rest of a packet, unless a
   write was short. *)
THEOREM WaitsForTheRestHolds == Spec => []WaitsForTheRest
<1>1. ASSUME IInv
      PROVE  WaitsForTheRest
  <2>1. SUFFICES ASSUME at = "read"
                 PROVE  \E p \in PiecesAt(start) :
                           Torn(p) \/ (rd < ends[p] /\ packetLen = full[p])
    BY DEF WaitsForTheRest
  <2>2. PICK p \in PiecesAt(start) : packetLen \in Announced(p) /\ rd < start + packetLen
    BY <1>1, <2>1 DEF IInv, Short
  <2>3. ~Torn(p) => rd < ends[p] /\ packetLen = full[p]
    BY <1>1, <2>2, WholePiece DEF IInv, PiecesAt
  <2> QED
    BY <2>2, <2>3
<1> QED
  BY <1>1, Invariance, PTL
=============================================================================
