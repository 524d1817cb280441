--------------------------- MODULE DataBase_proof ---------------------------
(***************************************************************************)
(* DataBase keeps its types, refers to whole records only, gives out       *)
(* unique ids and implements Store: for every bound, every set of values   *)
(* and every set of calls that fail, wherever the process ends, the next   *)
(* open finds the table before the operation, the one after it, an empty   *)
(* one, or does not return.                                                *)
(***************************************************************************)
EXTENDS DataBase, SequenceLemmas

-----------------------------------------------------------------------------
(* The inductive invariant *)

(* The entry being added is the only one that may lack its record, and its
   offset is where that record is about to be or is being written. *)
InFlight ==
  /\ pc \in {"append", "value"} => cur.id \in Id /\ cur.val \in Val
  /\ pc = "append" => Len(data) < MaxData
  /\ pc = "value" => /\ Len(data) > 0
                     /\ data[Len(data)].id = cur.id
  /\ \A k \in 1..Len(entries) :
        \/ Stored(entries[k])
        \/ /\ pc = "append"
           /\ entries[k].id = cur.id /\ entries[k].off = Len(data) + 1
        \/ /\ pc = "value"
           /\ entries[k].id = cur.id /\ entries[k].off = Len(data)

(* The index file is a copy of the entry list by the time it is written, and
   lists nothing when the data file is emptied. *)
IndexCopy ==
  /\ \A k \in 1..Len(index.list) : Stored(index.list[k])
  /\ ~index.there => index.list = <<>>
  /\ pc = "create" => ~index.there
  /\ pc = "write" => index.list = entries
  /\ then = "wipe" => entries = <<>>
  /\ pc = "wipe" => entries = <<>> /\ index.list = <<>>

LastOf(es) == IF es = <<>> THEN NoId ELSE es[Len(es)].id

IndexLast == index.last = LastOf(index.list)

IInv == TypeOK /\ InFlight /\ IndexCopy /\ IdsAscending /\ IndexLast
-----------------------------------------------------------------------------
(* The elements of the lists that TypeOK types, and an update of one. *)
LEMMA ElementTypes ==
  ASSUME TypeOK
  PROVE  /\ \A k \in 1..Len(entries) :
               /\ entries[k] \in Entry
               /\ entries[k].id \in Id /\ entries[k].off \in Offset
         /\ \A k \in 1..Len(index.list) :
               index.list[k].id \in Id /\ index.list[k].off \in Offset
         /\ \A i \in 1..Len(data) :
               data[i] \in Record /\ data[i].val \in Val \cup {Torn}
<1>1. \A k \in 1..Len(entries) : entries[k] \in Entry
  BY DEF TypeOK
<1>2. \A k \in 1..Len(index.list) : index.list[k] \in Entry
  <2>1. index.list \in Seq(Entry)
    BY DEF TypeOK
  <2> QED
    BY <2>1
<1>3. \A i \in 1..Len(data) : data[i] \in Record
  BY DEF TypeOK
<1>4. \A e \in Entry : e.id \in Id /\ e.off \in Offset
  BY DEF Entry
<1>5. \A r \in Record : r.val \in Val \cup {Torn}
  BY DEF Record
<1> QED
  BY <1>1, <1>2, <1>3, <1>4, <1>5

(* Initially the invariant holds, *)
LEMMA InitIInv == Init => IInv
<1> SUFFICES ASSUME Init PROVE IInv
  OBVIOUS
<1>1. data = <<>> /\ entries = <<>> /\ index.list = <<>> /\ Torn \notin Val
  BY DataBaseAssumption DEF Init, EmptyFile
<1>2. index \in [there : BOOLEAN, n : Nat, last : Id \cup {NoId}, list : Seq(Entry)]
  BY DEF Init, EmptyFile
<1>3. TypeOK
  BY <1>1, <1>2, DataBaseAssumption DEF Init, TypeOK, Idle, NoId
<1>4. InFlight
  BY <1>1 DEF Init, InFlight
<1>5. IndexCopy
  BY <1>1 DEF Init, IndexCopy, EmptyFile
<1>6. IdsAscending /\ IndexLast
  BY <1>1 DEF Init, IdsAscending, Ascending, IndexLast, LastOf, EmptyFile
<1> QED
  BY <1>3, <1>4, <1>5, <1>6 DEF IInv

(* the table an entry list stands for is a table, *)
LEMMA TableOfType ==
  TypeOK => TableOf(entries) \in [Id -> Val \cup {Torn}]
<1> SUFFICES ASSUME TypeOK PROVE TableOf(entries) \in [Id -> Val \cup {Torn}]
  OBVIOUS
<1>1. \A off : ValueAt(off) \in Val \cup {Torn}
  <2>1. DOMAIN data = 1..Len(data)
    BY DEF TypeOK
  <2> QED
    BY <2>1, ElementTypes DEF ValueAt
<1> QED
  BY <1>1 DEF TableOf

(* and every step keeps it. *)
LEMMA AddEntryStep ==
  ASSUME IInv, NEW v \in Val, AddEntry(v)
  PROVE  IInv'
<1>1. TypeOK'
  BY DataBaseAssumption, TableOfType
     DEF IInv, TypeOK, InFlight, AddEntry, Begin, Goto, EndOffset, Id, Offset,
         NoId, Entry, Record, Idle, NoFile, EmptyFile
<1>2. InFlight'
  <2>1. /\ pc = "idle" /\ pc' = "append" /\ data' = data
        /\ Len(data) < MaxData
        /\ cur'.id = last + 1 /\ cur'.id \in Id /\ cur'.val \in Val
        /\ entries' = Append(entries, [id |-> last + 1, off |-> Len(data) + 1])
    BY DEF AddEntry, Begin, Goto, EndOffset
  <2>2. ASSUME NEW k \in 1..Len(entries')
        PROVE  \/ Stored(entries[k])'
               \/ entries'[k].id = cur'.id /\ entries'[k].off = Len(data') + 1
    <3>1. CASE k = Len(entries) + 1
      BY <2>1, <3>1 DEF IInv, TypeOK
    <3>2. CASE k \in 1..Len(entries)
      <4>1. entries'[k] = entries[k]
        BY <2>1, <3>2 DEF IInv, TypeOK
      <4> QED
        BY <2>1, <3>2, <4>1 DEF IInv, InFlight, Stored
    <3> QED
      BY <2>1, <3>1, <3>2 DEF IInv, TypeOK
  <2> QED
    BY <2>1, <2>2 DEF InFlight
<1>3. IndexCopy'
  BY DEF IInv, TypeOK, InFlight, IndexCopy, Stored, AddEntry, Begin, Goto,
         EndOffset, Id, Offset, NoId, Entry, Record, Idle, NoFile, EmptyFile
<1>4. IdsAscending'
  <2>1. /\ entries' = Append(entries, [id |-> last + 1, off |-> EndOffset])
        /\ last' = last + 1 /\ index' = index
    BY DEF AddEntry, Begin
  <2>2. /\ Len(entries') = Len(entries) + 1
        /\ entries'[Len(entries) + 1].id = last + 1
        /\ \A k \in 1..Len(entries) : entries'[k] = entries[k]
    BY <2>1 DEF IInv, TypeOK
  <2>3. \A k \in 1..Len(entries) : entries[k].id \in Int /\ entries[k].id < last + 1
    <3>1. \A k \in 1..Len(entries) : entries[k].id \in Int
      BY ElementTypes DEF IInv, Id
    <3>2. CASE entries = <<>>
      BY <3>2
    <3>3. CASE entries # <<>>
      <4>1. last = entries[Len(entries)].id /\ Len(entries) \in 1..Len(entries)
        BY <3>3 DEF IInv, TypeOK, IdsAscending
      <4>2. \A k \in 1..Len(entries) :
               k # Len(entries) => entries[k].id < entries[Len(entries)].id
        BY <4>1 DEF IInv, TypeOK, IdsAscending, Ascending
      <4> QED
        BY <3>1, <4>1, <4>2
    <3> QED
      BY <3>2, <3>3
  <2>4. Ascending(entries)'
    <3>1. SUFFICES ASSUME NEW j \in 1..Len(entries'), NEW k \in 1..Len(entries'), j < k
                   PROVE  entries'[j].id < entries'[k].id
      BY DEF Ascending
    <3>2. j \in 1..Len(entries) /\ entries'[j] = entries[j]
      BY <2>2, <3>1 DEF IInv, TypeOK
    <3>3. CASE k = Len(entries) + 1
      BY <2>2, <2>3, <3>2, <3>3
    <3>4. CASE k \in 1..Len(entries)
      BY <2>2, <3>1, <3>2, <3>4 DEF IInv, IdsAscending, Ascending
    <3> QED
      BY <2>2, <3>3, <3>4 DEF IInv, TypeOK
  <2>5. Ascending(index.list)'
    BY <2>1 DEF IInv, IdsAscending, Ascending
  <2>6. entries' # <<>> /\ last' = entries'[Len(entries')].id
    BY <2>1, <2>2 DEF IInv, TypeOK
  <2> QED
    BY <2>4, <2>5, <2>6 DEF IdsAscending
<1>5. IndexLast'
  BY DEF IInv, TypeOK, IdsAscending, IndexLast, LastOf, AddEntry, Begin, Goto,
         EndOffset, Id, Offset, NoId, Entry, Record, Idle, NoFile, EmptyFile
<1> QED
  BY <1>1, <1>2, <1>3, <1>4, <1>5 DEF IInv

(* Updating: only an offset changes. *)
LEMMA UpdateEntryStep ==
  ASSUME IInv, NEW n \in 1..Len(entries), NEW v \in Val, UpdateEntry(n, v)
  PROVE  IInv'
<1>1. TypeOK'
  <2>1. entries[n].id \in Id /\ Len(data) + 1 \in Offset
    BY ElementTypes, DataBaseAssumption DEF IInv, TypeOK, UpdateEntry, Offset
  <2>2. entries' \in Seq(Entry)
    <3>1. entries' = [entries EXCEPT ![n] = [@ EXCEPT !.off = Len(data) + 1]]
      BY DEF UpdateEntry, EndOffset
    <3>2. [entries[n] EXCEPT !.off = Len(data) + 1] \in Entry
      BY <2>1, ElementTypes DEF IInv, Entry
    <3> QED
      BY <3>1, <3>2, ReplaceElement DEF IInv, TypeOK
  <2>3. cur' \in [id : Id \cup {NoId}, val : Val \cup {Torn}]
    BY <2>1 DEF UpdateEntry
  <2> QED
    BY <2>2, <2>3, TableOfType DEF IInv, TypeOK, UpdateEntry, Begin, Goto
<1>2. InFlight'
  <2>1. /\ pc = "idle" /\ pc' = "append" /\ data' = data
        /\ Len(data) < MaxData
        /\ cur' = [id |-> entries[n].id, val |-> v]
        /\ entries' = [entries EXCEPT ![n].off = Len(data) + 1]
    BY DEF UpdateEntry, Begin, Goto, EndOffset
  <2>2. /\ Len(entries') = Len(entries)
        /\ entries'[n] = [id |-> entries[n].id, off |-> Len(data) + 1]
        /\ \A k \in 1..Len(entries) : k # n => entries'[k] = entries[k]
    <3>1. [entries[n] EXCEPT !.off = Len(data) + 1]
            = [id |-> entries[n].id, off |-> Len(data) + 1]
      BY ElementTypes DEF IInv, Entry
    <3> QED
      BY <2>1, <3>1 DEF IInv, TypeOK
  <2>3. ASSUME NEW k \in 1..Len(entries')
        PROVE  \/ Stored(entries[k])'
               \/ entries'[k].id = cur'.id /\ entries'[k].off = Len(data') + 1
    <3>1. CASE k = n
      BY <2>1, <2>2, <3>1
    <3>2. CASE k # n
      BY <2>1, <2>2, <3>2 DEF IInv, InFlight, Stored
    <3> QED
      BY <3>1, <3>2
  <2>4. entries[n].id \in Id
    BY ElementTypes DEF IInv
  <2> QED
    BY <2>1, <2>3, <2>4 DEF InFlight
<1>3. IndexCopy'
  BY DEF IInv, TypeOK, InFlight, IndexCopy, Stored, UpdateEntry, Begin, Goto,
         EndOffset, Id, Offset, NoId, Entry, Record, Idle, NoFile, EmptyFile
<1>4. IdsAscending'
  <2>1. /\ entries' = [entries EXCEPT ![n].off = EndOffset]
        /\ last' = last /\ index' = index
    BY DEF UpdateEntry
  <2>2. /\ Len(entries') = Len(entries)
        /\ \A k \in 1..Len(entries) : entries'[k].id = entries[k].id
    BY <2>1 DEF IInv, TypeOK, Entry
  <2>3. entries' = <<>> <=> entries = <<>>
    BY <2>1, <2>2 DEF IInv, TypeOK
  <2> QED
    BY <2>1, <2>2, <2>3 DEF IInv, TypeOK, IdsAscending, Ascending
<1>5. IndexLast'
  BY DEF IInv, TypeOK, IdsAscending, IndexLast, LastOf, UpdateEntry, Begin,
         Goto, EndOffset, Id, Offset, NoId, Entry, Record, Idle, NoFile,
         EmptyFile
<1> QED
  BY <1>1, <1>2, <1>3, <1>4, <1>5 DEF IInv

(* Deleting: the remaining entries keep their order. *)
LEMMA DeleteEntryStep ==
  ASSUME IInv, NEW n \in 1..Len(entries), DeleteEntry(n)
  PROVE  IInv'
<1>1. TypeOK'
  <2>1. /\ entries' \in Seq(Entry)
        /\ Len(entries') = Len(entries) - 1
        /\ \A i \in 1..(Len(entries) - 1) :
             entries'[i] = IF i < n THEN entries[i] ELSE entries[i + 1]
    BY RemoveAtProperties DEF IInv, TypeOK, DeleteEntry
  <2>2. last' \in Id \cup {NoId}
    <3>1. ASSUME entries' # <<>> PROVE entries'[Len(entries')].id \in Id
      <4>1. entries'[Len(entries')] \in Entry
        BY <2>1, <3>1
      <4> QED
        BY <4>1 DEF Entry
    <3> QED
      BY <3>1 DEF IInv, TypeOK, DeleteEntry, LastAfterDelete
  <2> QED
    BY <2>1, <2>2, TableOfType DEF IInv, TypeOK, DeleteEntry, Begin, Goto
<1>2. InFlight'
  <2>1. /\ entries' \in Seq(Entry)
        /\ Len(entries') = Len(entries) - 1
        /\ \A i \in 1..(Len(entries) - 1) :
             entries'[i] = IF i < n THEN entries[i] ELSE entries[i + 1]
    BY RemoveAtProperties DEF IInv, TypeOK, DeleteEntry
  <2>2. pc = "idle" /\ pc' = "unlink" /\ data' = data
    BY DEF DeleteEntry, Begin, Goto
  <2>3. \A k \in 1..Len(entries) : Stored(entries[k])
    BY <2>2 DEF IInv, InFlight
  <2>4. ASSUME NEW k \in 1..Len(entries')
        PROVE  Stored(entries[k])'
    <3>1. PICK j \in 1..Len(entries) : entries'[k] = entries[j]
      BY <2>1 DEF IInv, TypeOK
    <3> QED
      BY <2>2, <2>3, <3>1 DEF Stored
  <2> QED
    BY <2>2, <2>4 DEF InFlight
<1>3. IndexCopy'
  BY DEF IInv, TypeOK, InFlight, IndexCopy, Stored, DeleteEntry, Begin, Goto,
         LastAfterDelete, Id, Offset, NoId, Entry, Record, Idle, NoFile,
         EmptyFile
<1>4. IdsAscending'
  <2>1. /\ entries' \in Seq(Entry)
        /\ Len(entries') = Len(entries) - 1
        /\ \A i \in 1..(Len(entries) - 1) :
             entries'[i] = IF i < n THEN entries[i] ELSE entries[i + 1]
    BY RemoveAtProperties DEF IInv, TypeOK, DeleteEntry
  <2>2. Ascending(entries)'
    <3>1. SUFFICES ASSUME NEW j \in 1..Len(entries'), NEW k \in 1..Len(entries'), j < k
                   PROVE  entries'[j].id < entries'[k].id
      BY DEF Ascending
    <3>2. Len(entries) \in Nat
      BY DEF IInv, TypeOK
    <3>3. PICK i, l \in 1..Len(entries) :
             i < l /\ entries'[j] = entries[i] /\ entries'[k] = entries[l]
      <4>1. CASE k < n
        BY <2>1, <3>1, <3>2, <4>1
      <4>2. CASE ~(k < n) /\ j < n
        BY <2>1, <3>1, <3>2, <4>2
      <4>3. CASE ~(j < n)
        BY <2>1, <3>1, <3>2, <4>3
      <4> QED
        BY <4>1, <4>2, <4>3
    <3> QED
      BY <3>3 DEF IInv, IdsAscending, Ascending
  <2>3. last' = LastOf(entries)'
    <3>1. last = entries[Len(entries)].id
      BY DEF IInv, TypeOK, IdsAscending
    <3>2. CASE entries[n].id = last
      BY <3>2 DEF DeleteEntry, LastAfterDelete, LastOf
    <3>3. CASE entries[n].id # last
      <4>1. n < Len(entries)
        BY <3>1, <3>3 DEF IInv, TypeOK
      <4>2. entries'[Len(entries')] = entries[Len(entries)] /\ entries' # <<>>
        BY <2>1, <4>1 DEF IInv, TypeOK
      <4> QED
        BY <3>1, <3>3, <4>2 DEF DeleteEntry, LastAfterDelete, LastOf
    <3> QED
      BY <3>2, <3>3
  <2> QED
    BY <2>2, <2>3 DEF IInv, IdsAscending, Ascending, LastOf, DeleteEntry
<1>5. IndexLast'
  BY DEF IInv, TypeOK, IdsAscending, IndexLast, LastOf, DeleteEntry, Begin,
         Goto, LastAfterDelete, Id, Offset, NoId, Entry, Record, Idle, NoFile,
         EmptyFile
<1> QED
  BY <1>1, <1>2, <1>3, <1>4, <1>5 DEF IInv

(* Deleting all: the list is empty before any file is touched. *)
LEMMA DeleteAllStep ==
  ASSUME IInv, DeleteAll
  PROVE  IInv'
<1>1. TypeOK'
  BY DataBaseAssumption, TableOfType
     DEF IInv, TypeOK, InFlight, DeleteAll, Goto, Id, Offset, NoId, Entry,
         Record, Idle, NoFile, EmptyFile
<1>2. InFlight'
  BY DEF IInv, TypeOK, InFlight, IndexCopy, Stored, DeleteAll, Goto, Id, Offset,
         NoId, Entry, Record, Idle, NoFile, EmptyFile
<1>3. IndexCopy'
  BY DEF IInv, TypeOK, InFlight, IndexCopy, Stored, DeleteAll, Goto, Id, Offset,
         NoId, Entry, Record, Idle, NoFile, EmptyFile
<1>4. IdsAscending'
  BY DEF IInv, TypeOK, IdsAscending, Ascending, IndexLast, LastOf, DeleteAll,
         Goto, Id, Offset, NoId, Entry, Record, Idle, NoFile, EmptyFile
<1>5. IndexLast'
  BY DEF IInv, TypeOK, IdsAscending, IndexLast, LastOf, DeleteAll, Goto, Id,
         Offset, NoId, Entry, Record, Idle, NoFile, EmptyFile
<1> QED
  BY <1>1, <1>2, <1>3, <1>4, <1>5 DEF IInv

(* Writing the id of a record: older records stay where they are. *)
LEMMA AppendIdStep ==
  ASSUME IInv, AppendId
  PROVE  IInv'
<1>1. TypeOK'
  BY DataBaseAssumption, TableOfType
     DEF IInv, TypeOK, InFlight, AppendId, Running, Goto, Id, Offset, NoId,
         Entry, Record, Idle, NoFile, EmptyFile
<1>2. InFlight'
  <2>1. /\ pc = "append" /\ pc' = "value" /\ entries' = entries /\ cur' = cur
        /\ data' = Append(data, [id |-> cur.id, val |-> Torn])
    BY DEF AppendId, Running, Goto
  <2>2. /\ Len(data') = Len(data) + 1
        /\ data'[Len(data) + 1].id = cur.id
        /\ \A i \in 1..Len(data) : data'[i] = data[i]
    BY <2>1 DEF IInv, TypeOK
  <2>3. \A e : Stored(e) => e.off \in DOMAIN data' /\ data'[e.off] = data[e.off]
    BY <2>1, <2>2 DEF IInv, TypeOK, Stored
  <2>4. ASSUME NEW k \in 1..Len(entries')
        PROVE  \/ Stored(entries[k])'
               \/ entries'[k].id = cur'.id /\ entries'[k].off = Len(data')
    <3>1. CASE Stored(entries[k])
      BY <2>1, <2>3, <3>1 DEF Stored
    <3>2. CASE ~Stored(entries[k])
      BY <2>1, <2>2, <3>2 DEF IInv, InFlight
    <3> QED
      BY <3>1, <3>2
  <2> QED
    BY <2>1, <2>2, <2>4 DEF IInv, TypeOK, InFlight
<1>3. IndexCopy'
  <2>1. /\ pc = "append" /\ pc' = "value" /\ entries' = entries /\ cur' = cur
        /\ data' = Append(data, [id |-> cur.id, val |-> Torn])
    BY DEF AppendId, Running, Goto
  <2>2. /\ Len(data') = Len(data) + 1
        /\ data'[Len(data) + 1].id = cur.id
        /\ \A i \in 1..Len(data) : data'[i] = data[i]
    BY <2>1 DEF IInv, TypeOK
  <2>3. \A e : Stored(e) => e.off \in DOMAIN data' /\ data'[e.off] = data[e.off]
    BY <2>1, <2>2 DEF IInv, TypeOK, Stored
  <2>4. \A k \in 1..Len(index.list) : Stored(index.list[k])'
    BY <2>3 DEF IInv, IndexCopy, Stored, AppendId
  <2> QED
    BY <2>1, <2>4 DEF IInv, IndexCopy, AppendId
<1>4. IdsAscending'
  BY DEF IInv, TypeOK, IdsAscending, Ascending, IndexLast, LastOf, AppendId,
         Running, Goto, Id, Offset, NoId, Entry, Record, Idle, NoFile, EmptyFile
<1>5. IndexLast'
  BY DEF IInv, TypeOK, IdsAscending, IndexLast, LastOf, AppendId, Running, Goto,
         Id, Offset, NoId, Entry, Record, Idle, NoFile, EmptyFile
<1> QED
  BY <1>1, <1>2, <1>3, <1>4, <1>5 DEF IInv

(* Writing its value: the record is whole now. *)
LEMMA WriteValueStep ==
  ASSUME IInv, WriteValue
  PROVE  IInv'
<1>1. TypeOK'
  <2>1. /\ pc = "value" /\ pc' = "unlink" /\ entries' = entries /\ index' = index
        /\ data' = [data EXCEPT ![Len(data)].val = cur.val]
        /\ Len(data) > 0 /\ data[Len(data)].id = cur.id /\ cur.val \in Val
    BY DEF WriteValue, Running, Goto, IInv, InFlight
  <2>2. /\ Len(data') = Len(data)
        /\ data'[Len(data)] = [id |-> cur.id, val |-> cur.val]
        /\ \A i \in 1..Len(data) : i # Len(data) => data'[i] = data[i]
        /\ data' \in Seq(Record)
    <3>1. [data[Len(data)] EXCEPT !.val = cur.val] = [id |-> cur.id, val |-> cur.val]
      <4>1. data[Len(data)] \in Record
        BY <2>1 DEF IInv, TypeOK
      <4> QED
        BY <2>1, <4>1 DEF Record
    <3>2. [id |-> cur.id, val |-> cur.val] \in Record
      BY <2>1 DEF IInv, InFlight, Record
    <3>3. data' = [data EXCEPT ![Len(data)] = [id |-> cur.id, val |-> cur.val]]
      BY <2>1, <3>1
    <3> QED
      BY <2>1, <3>2, <3>3, ReplaceElement DEF IInv, TypeOK
  <2> QED
    BY <2>1, <2>2 DEF IInv, TypeOK, WriteValue
<1>2. InFlight'
  <2>1. /\ pc = "value" /\ pc' = "unlink" /\ entries' = entries /\ index' = index
        /\ data' = [data EXCEPT ![Len(data)].val = cur.val]
        /\ Len(data) > 0 /\ data[Len(data)].id = cur.id /\ cur.val \in Val
    BY DEF WriteValue, Running, Goto, IInv, InFlight
  <2>2. /\ Len(data') = Len(data)
        /\ data'[Len(data)] = [id |-> cur.id, val |-> cur.val]
        /\ \A i \in 1..Len(data) : i # Len(data) => data'[i] = data[i]
        /\ data' \in Seq(Record)
    <3>1. [data[Len(data)] EXCEPT !.val = cur.val] = [id |-> cur.id, val |-> cur.val]
      <4>1. data[Len(data)] \in Record
        BY <2>1 DEF IInv, TypeOK
      <4> QED
        BY <2>1, <4>1 DEF Record
    <3>2. [id |-> cur.id, val |-> cur.val] \in Record
      BY <2>1 DEF IInv, InFlight, Record
    <3>3. data' = [data EXCEPT ![Len(data)] = [id |-> cur.id, val |-> cur.val]]
      BY <2>1, <3>1
    <3> QED
      BY <2>1, <3>2, <3>3, ReplaceElement DEF IInv, TypeOK
  <2>3. ASSUME NEW e, Stored(e)
        PROVE  e.off \in DOMAIN data' /\ data'[e.off].id = e.id
               /\ data'[e.off].val # Torn
    <3>1. CASE e.off = Len(data)
      BY <2>1, <2>2, <2>3, <3>1, DataBaseAssumption DEF IInv, TypeOK, Stored
    <3>2. CASE e.off # Len(data)
      BY <2>1, <2>2, <2>3, <3>2 DEF IInv, TypeOK, Stored
    <3> QED
      BY <3>1, <3>2
  <2>4. ASSUME NEW k \in 1..Len(entries')
        PROVE  Stored(entries[k])'
    <3>1. CASE Stored(entries[k])
      BY <2>1, <2>3, <3>1 DEF Stored
    <3>2. CASE entries[k].id = cur.id /\ entries[k].off = Len(data)
      BY <2>1, <2>2, <3>2, DataBaseAssumption DEF IInv, TypeOK, Stored
    <3> QED
      BY <2>1, <3>1, <3>2 DEF IInv, InFlight
  <2> QED
    BY <2>1, <2>4 DEF InFlight
<1>3. IndexCopy'
  <2>1. /\ pc = "value" /\ pc' = "unlink" /\ entries' = entries /\ index' = index
        /\ data' = [data EXCEPT ![Len(data)].val = cur.val]
        /\ Len(data) > 0 /\ data[Len(data)].id = cur.id /\ cur.val \in Val
    BY DEF WriteValue, Running, Goto, IInv, InFlight
  <2>2. /\ Len(data') = Len(data)
        /\ data'[Len(data)] = [id |-> cur.id, val |-> cur.val]
        /\ \A i \in 1..Len(data) : i # Len(data) => data'[i] = data[i]
        /\ data' \in Seq(Record)
    <3>1. [data[Len(data)] EXCEPT !.val = cur.val] = [id |-> cur.id, val |-> cur.val]
      <4>1. data[Len(data)] \in Record
        BY <2>1 DEF IInv, TypeOK
      <4> QED
        BY <2>1, <4>1 DEF Record
    <3>2. [id |-> cur.id, val |-> cur.val] \in Record
      BY <2>1 DEF IInv, InFlight, Record
    <3>3. data' = [data EXCEPT ![Len(data)] = [id |-> cur.id, val |-> cur.val]]
      BY <2>1, <3>1
    <3> QED
      BY <2>1, <3>2, <3>3, ReplaceElement DEF IInv, TypeOK
  <2>3. ASSUME NEW e, Stored(e)
        PROVE  e.off \in DOMAIN data' /\ data'[e.off].id = e.id
               /\ data'[e.off].val # Torn
    <3>1. CASE e.off = Len(data)
      BY <2>1, <2>2, <2>3, <3>1, DataBaseAssumption DEF IInv, TypeOK, Stored
    <3>2. CASE e.off # Len(data)
      BY <2>1, <2>2, <2>3, <3>2 DEF IInv, TypeOK, Stored
    <3> QED
      BY <3>1, <3>2
  <2>4. \A k \in 1..Len(index.list) : Stored(index.list[k])'
    BY <2>1, <2>3 DEF IInv, IndexCopy, Stored
  <2> QED
    BY <2>1, <2>4 DEF IInv, IndexCopy, WriteValue
<1>4. IdsAscending'
  BY DEF IInv, TypeOK, IdsAscending, Ascending, IndexLast, LastOf, WriteValue,
         Running, Goto, Id, Offset, NoId, Entry, Record, Idle, NoFile, EmptyFile
<1>5. IndexLast'
  BY DEF IInv, TypeOK, IdsAscending, IndexLast, LastOf, WriteValue, Running,
         Goto, Id, Offset, NoId, Entry, Record, Idle, NoFile, EmptyFile
<1> QED
  BY <1>1, <1>2, <1>3, <1>4, <1>5 DEF IInv

(* Unlinking the index file. *)
LEMMA UnlinkStep ==
  ASSUME IInv, Unlink
  PROVE  IInv'
<1>1. TypeOK'
  <2>1. index' \in [there : BOOLEAN, n : Nat, last : Id \cup {NoId}, list : Seq(Entry)]
    BY DEF Unlink, NoFile
  <2> QED
    BY <2>1 DEF IInv, TypeOK, Unlink, Running, Goto
<1>2. InFlight'
  BY DEF IInv, TypeOK, InFlight, IndexCopy, Stored, Unlink, Running, Goto, Id,
         Offset, NoId, Entry, Record, Idle, NoFile, EmptyFile
<1>3. IndexCopy'
  BY DEF IInv, TypeOK, InFlight, IndexCopy, Stored, Unlink, Running, Goto, Id,
         Offset, NoId, Entry, Record, Idle, NoFile, EmptyFile
<1>4. IdsAscending'
  BY DEF IInv, TypeOK, IdsAscending, Ascending, IndexLast, LastOf, Unlink,
         Running, Goto, Id, Offset, NoId, Entry, Record, Idle, NoFile, EmptyFile
<1>5. IndexLast'
  BY DEF IInv, TypeOK, IdsAscending, IndexLast, LastOf, Unlink, Running, Goto,
         Id, Offset, NoId, Entry, Record, Idle, NoFile, EmptyFile
<1> QED
  BY <1>1, <1>2, <1>3, <1>4, <1>5 DEF IInv

(* Creating it again. *)
LEMMA CreateStep ==
  ASSUME IInv, Create
  PROVE  IInv'
<1>1. TypeOK'
  BY DataBaseAssumption, TableOfType
     DEF IInv, TypeOK, InFlight, Create, Running, Goto, Id, Offset, NoId, Entry,
         Record, Idle, NoFile, EmptyFile
<1>2. InFlight'
  BY DEF IInv, TypeOK, InFlight, IndexCopy, Stored, Create, Running, Goto, Id,
         Offset, NoId, Entry, Record, Idle, NoFile, EmptyFile
<1>3. IndexCopy'
  BY DEF IInv, TypeOK, InFlight, IndexCopy, Stored, Create, Running, Goto, Id,
         Offset, NoId, Entry, Record, Idle, NoFile, EmptyFile
<1>4. IdsAscending'
  BY DEF IInv, TypeOK, IdsAscending, Ascending, IndexLast, LastOf, Create,
         Running, Goto, Id, Offset, NoId, Entry, Record, Idle, NoFile, EmptyFile
<1>5. IndexLast'
  BY DEF IInv, TypeOK, IdsAscending, IndexLast, LastOf, Create, Running, Goto,
         Id, Offset, NoId, Entry, Record, Idle, NoFile, EmptyFile
<1> QED
  BY <1>1, <1>2, <1>3, <1>4, <1>5 DEF IInv

(* Writing a word of it. *)
LEMMA WriteWordStep ==
  ASSUME IInv, WriteWord
  PROVE  IInv'
<1>1. TypeOK'
  <2>1. index' \in [there : BOOLEAN, n : Nat, last : Id \cup {NoId}, list : Seq(Entry)]
    <3>1. index' = [index EXCEPT !.n = index.n + 1] /\ index.n + 1 \in Nat
      BY DEF IInv, TypeOK, WriteWord
    <3> QED
      BY <3>1 DEF IInv, TypeOK
  <2> QED
    BY <2>1 DEF IInv, TypeOK, WriteWord
<1>2. InFlight'
  BY DEF IInv, TypeOK, InFlight, IndexCopy, Stored, WriteWord, Running, Id,
         Offset, NoId, Entry, Record, Idle, NoFile, EmptyFile
<1>3. IndexCopy'
  BY DEF IInv, TypeOK, InFlight, IndexCopy, Stored, WriteWord, Running, Id,
         Offset, NoId, Entry, Record, Idle, NoFile, EmptyFile
<1>4. IdsAscending'
  BY DEF IInv, TypeOK, IdsAscending, Ascending, IndexLast, LastOf, WriteWord,
         Running, Id, Offset, NoId, Entry, Record, Idle, NoFile, EmptyFile
<1>5. IndexLast'
  BY DEF IInv, TypeOK, IdsAscending, IndexLast, LastOf, WriteWord, Running, Id,
         Offset, NoId, Entry, Record, Idle, NoFile, EmptyFile
<1> QED
  BY <1>1, <1>2, <1>3, <1>4, <1>5 DEF IInv

(* The index file is complete. *)
LEMMA UpdatedStep ==
  ASSUME IInv, Updated
  PROVE  IInv'
<1>1. TypeOK'
  BY DataBaseAssumption, TableOfType
     DEF IInv, TypeOK, InFlight, Updated, Running, Goto, Id, Offset, NoId,
         Entry, Record, Idle, NoFile, EmptyFile
<1>2. InFlight'
  BY DEF IInv, TypeOK, InFlight, IndexCopy, Stored, Updated, Running, Goto, Id,
         Offset, NoId, Entry, Record, Idle, NoFile, EmptyFile
<1>3. IndexCopy'
  BY DEF IInv, TypeOK, InFlight, IndexCopy, Stored, Updated, Running, Goto, Id,
         Offset, NoId, Entry, Record, Idle, NoFile, EmptyFile
<1>4. IdsAscending'
  BY DEF IInv, TypeOK, IdsAscending, Ascending, IndexLast, LastOf, Updated,
         Running, Goto, Id, Offset, NoId, Entry, Record, Idle, NoFile, EmptyFile
<1>5. IndexLast'
  BY DEF IInv, TypeOK, IdsAscending, IndexLast, LastOf, Updated, Running, Goto,
         Id, Offset, NoId, Entry, Record, Idle, NoFile, EmptyFile
<1> QED
  BY <1>1, <1>2, <1>3, <1>4, <1>5 DEF IInv

(* Emptying the data file. *)
LEMMA WipeStep ==
  ASSUME IInv, Wipe
  PROVE  IInv'
<1>1. TypeOK'
  BY DataBaseAssumption, TableOfType
     DEF IInv, TypeOK, InFlight, Wipe, Running, Goto, Id, Offset, NoId, Entry,
         Record, Idle, NoFile, EmptyFile
<1>2. InFlight'
  BY DEF IInv, TypeOK, InFlight, IndexCopy, Stored, Wipe, Running, Goto, Id,
         Offset, NoId, Entry, Record, Idle, NoFile, EmptyFile
<1>3. IndexCopy'
  BY DEF IInv, TypeOK, InFlight, IndexCopy, Stored, Wipe, Running, Goto, Id,
         Offset, NoId, Entry, Record, Idle, NoFile, EmptyFile
<1>4. IdsAscending'
  BY DEF IInv, TypeOK, IdsAscending, Ascending, IndexLast, LastOf, Wipe,
         Running, Goto, Id, Offset, NoId, Entry, Record, Idle, NoFile, EmptyFile
<1>5. IndexLast'
  BY DEF IInv, TypeOK, IdsAscending, IndexLast, LastOf, Wipe, Running, Goto, Id,
         Offset, NoId, Entry, Record, Idle, NoFile, EmptyFile
<1> QED
  BY <1>1, <1>2, <1>3, <1>4, <1>5 DEF IInv

(* There is no index file to unlink. *)
LEMMA UnlinkFailsStep ==
  ASSUME IInv, UnlinkFails
  PROVE  IInv'
<1>1. TypeOK'
  BY DataBaseAssumption, TableOfType
     DEF IInv, TypeOK, InFlight, UnlinkFails, ReturnFalse, Running, Goto, Id,
         Offset, NoId, Entry, Record, Idle, NoFile, EmptyFile
<1>2. InFlight'
  BY DEF IInv, TypeOK, InFlight, IndexCopy, Stored, UnlinkFails, ReturnFalse,
         Running, Goto, Id, Offset, NoId, Entry, Record, Idle, NoFile, EmptyFile
<1>3. IndexCopy'
  BY DEF IInv, TypeOK, InFlight, IndexCopy, Stored, UnlinkFails, ReturnFalse,
         Running, Goto, Id, Offset, NoId, Entry, Record, Idle, NoFile, EmptyFile
<1>4. IdsAscending'
  BY DEF IInv, TypeOK, IdsAscending, Ascending, IndexLast, LastOf, UnlinkFails,
         ReturnFalse, Running, Goto, Id, Offset, NoId, Entry, Record, Idle,
         NoFile, EmptyFile
<1>5. IndexLast'
  BY DEF IInv, TypeOK, IdsAscending, IndexLast, LastOf, UnlinkFails,
         ReturnFalse, Running, Goto, Id, Offset, NoId, Entry, Record, Idle,
         NoFile, EmptyFile
<1> QED
  BY <1>1, <1>2, <1>3, <1>4, <1>5 DEF IInv

(* No descriptor is left. *)
LEMMA CreateFailsStep ==
  ASSUME IInv, CreateFails
  PROVE  IInv'
<1>1. TypeOK'
  BY DataBaseAssumption, TableOfType
     DEF IInv, TypeOK, InFlight, CreateFails, ReturnFalse, Running, Goto, Id,
         Offset, NoId, Entry, Record, Idle, NoFile, EmptyFile
<1>2. InFlight'
  BY DEF IInv, TypeOK, InFlight, IndexCopy, Stored, CreateFails, ReturnFalse,
         Running, Goto, Id, Offset, NoId, Entry, Record, Idle, NoFile, EmptyFile
<1>3. IndexCopy'
  BY DEF IInv, TypeOK, InFlight, IndexCopy, Stored, CreateFails, ReturnFalse,
         Running, Goto, Id, Offset, NoId, Entry, Record, Idle, NoFile, EmptyFile
<1>4. IdsAscending'
  BY DEF IInv, TypeOK, IdsAscending, Ascending, IndexLast, LastOf, CreateFails,
         ReturnFalse, Running, Goto, Id, Offset, NoId, Entry, Record, Idle,
         NoFile, EmptyFile
<1>5. IndexLast'
  BY DEF IInv, TypeOK, IdsAscending, IndexLast, LastOf, CreateFails,
         ReturnFalse, Running, Goto, Id, Offset, NoId, Entry, Record, Idle,
         NoFile, EmptyFile
<1> QED
  BY <1>1, <1>2, <1>3, <1>4, <1>5 DEF IInv

(* The index file is cut short. *)
LEMMA WriteWordFailsStep ==
  ASSUME IInv, WriteWordFails
  PROVE  IInv'
<1>1. TypeOK'
  <2>1. CASE ReturnFalse
    BY <2>1 DEF IInv, TypeOK, WriteWordFails, ReturnFalse, Goto
  <2>2. CASE Goto(then) /\ cur' = Idle /\ UNCHANGED <<mode, then, entries, last>>
    BY <2>2 DEF IInv, TypeOK, WriteWordFails, Goto, Idle
  <2> QED
    BY <2>1, <2>2 DEF WriteWordFails
<1>2. InFlight'
  BY DEF IInv, TypeOK, InFlight, IndexCopy, Stored, WriteWordFails, ReturnFalse,
         Running, Goto, Id, Offset, NoId, Entry, Record, Idle, NoFile, EmptyFile
<1>3. IndexCopy'
  BY DEF IInv, TypeOK, InFlight, IndexCopy, Stored, WriteWordFails, ReturnFalse,
         Running, Goto, Id, Offset, NoId, Entry, Record, Idle, NoFile, EmptyFile
<1>4. IdsAscending'
  BY DEF IInv, TypeOK, IdsAscending, Ascending, IndexLast, LastOf,
         WriteWordFails, ReturnFalse, Running, Goto, Id, Offset, NoId, Entry,
         Record, Idle, NoFile, EmptyFile
<1>5. IndexLast'
  BY DEF IInv, TypeOK, IdsAscending, IndexLast, LastOf, WriteWordFails,
         ReturnFalse, Running, Goto, Id, Offset, NoId, Entry, Record, Idle,
         NoFile, EmptyFile
<1> QED
  BY <1>1, <1>2, <1>3, <1>4, <1>5 DEF IInv

(* The record is not written. *)
LEMMA AppendFailsStep ==
  ASSUME IInv, AppendFails
  PROVE  IInv'
<1>1. TypeOK'
  BY DataBaseAssumption, TableOfType
     DEF IInv, TypeOK, InFlight, AppendFails, ReturnFalse, Running, Goto, Id,
         Offset, NoId, Entry, Record, Idle, NoFile, EmptyFile
<1>2. InFlight'
  <2>1. cur # Idle
    BY DEF IInv, InFlight, AppendFails, Running, Idle, Id, NoId
  <2> QED
    BY <2>1 DEF IInv, InFlight, Stored, AppendFails, ReturnFalse
<1>3. IndexCopy'
  BY DEF IInv, TypeOK, InFlight, IndexCopy, Stored, AppendFails, ReturnFalse,
         Running, Goto, Id, Offset, NoId, Entry, Record, Idle, NoFile, EmptyFile
<1>4. IdsAscending'
  BY DEF IInv, TypeOK, IdsAscending, Ascending, IndexLast, LastOf, AppendFails,
         ReturnFalse, Running, Goto, Id, Offset, NoId, Entry, Record, Idle,
         NoFile, EmptyFile
<1>5. IndexLast'
  BY DEF IInv, TypeOK, IdsAscending, IndexLast, LastOf, AppendFails,
         ReturnFalse, Running, Goto, Id, Offset, NoId, Entry, Record, Idle,
         NoFile, EmptyFile
<1> QED
  BY <1>1, <1>2, <1>3, <1>4, <1>5 DEF IInv

(* The process ends. *)
LEMMA ExitStep ==
  ASSUME IInv, Exit
  PROVE  IInv'
<1>1. TypeOK'
  BY DataBaseAssumption, TableOfType
     DEF IInv, TypeOK, InFlight, Exit, Id, Offset, NoId, Entry, Record, Idle,
         NoFile, EmptyFile
<1>2. InFlight'
  BY DEF IInv, TypeOK, InFlight, IndexCopy, Stored, Exit, Id, Offset, NoId,
         Entry, Record, Idle, NoFile, EmptyFile
<1>3. IndexCopy'
  BY DEF IInv, TypeOK, InFlight, IndexCopy, Stored, Exit, Id, Offset, NoId,
         Entry, Record, Idle, NoFile, EmptyFile
<1>4. IdsAscending'
  BY DEF IInv, TypeOK, IdsAscending, Ascending, IndexLast, LastOf, Exit, Id,
         Offset, NoId, Entry, Record, Idle, NoFile, EmptyFile
<1>5. IndexLast'
  BY DEF IInv, TypeOK, IdsAscending, IndexLast, LastOf, Exit, Id, Offset, NoId,
         Entry, Record, Idle, NoFile, EmptyFile
<1> QED
  BY <1>1, <1>2, <1>3, <1>4, <1>5 DEF IInv

(* The index file is read back. *)
LEMMA OpenStep ==
  ASSUME IInv, Open
  PROVE  IInv'
<1>1. TypeOK'
  <2>1. /\ pc' = "idle" /\ then' = "idle" /\ cur' = Idle /\ data' = data
        /\ \/ /\ entries' = <<>> /\ last' = NoId
              /\ index' = EmptyFile
           \/ /\ entries' = <<>> /\ last' = NoId
              /\ index' = index
           \/ /\ entries' = index.list /\ last' = index.last
              /\ index' = index
    BY DEF Open
  <2>2. index' \in [there : BOOLEAN, n : Nat, last : Id \cup {NoId}, list : Seq(Entry)]
    <3>1. EmptyFile \in [there : BOOLEAN, n : Nat, last : Id \cup {NoId}, list : Seq(Entry)]
      BY DEF EmptyFile
    <3> QED
      BY <2>1, <3>1 DEF IInv, TypeOK
  <2>3. entries' \in Seq(Entry) /\ last' \in Id \cup {NoId}
    <3>0. <<>> \in Seq(Entry)
      OBVIOUS
    <3>1. index.list \in Seq(Entry) /\ index.last \in Id \cup {NoId}
      BY DEF IInv, TypeOK
    <3> QED
      BY <2>1, <3>0, <3>1
  <2> QED
    BY <2>1, <2>2, <2>3, DataBaseAssumption DEF IInv, TypeOK, Open, Idle
<1>2. InFlight'
  <2>1. /\ pc' = "idle" /\ then' = "idle" /\ cur' = Idle /\ data' = data
        /\ \/ /\ entries' = <<>> /\ last' = NoId
              /\ index' = EmptyFile
           \/ /\ entries' = <<>> /\ last' = NoId
              /\ index' = index
           \/ /\ entries' = index.list /\ last' = index.last
              /\ index' = index
    BY DEF Open
  <2>2. \A k \in 1..Len(entries') : Stored(entries[k])'
    BY <2>1 DEF IInv, IndexCopy, Stored
  <2> QED
    BY <2>1, <2>2 DEF InFlight
<1>3. IndexCopy'
  <2>1. /\ pc' = "idle" /\ then' = "idle" /\ cur' = Idle /\ data' = data
        /\ \/ /\ entries' = <<>> /\ last' = NoId
              /\ index' = EmptyFile
           \/ /\ entries' = <<>> /\ last' = NoId
              /\ index' = index
           \/ /\ entries' = index.list /\ last' = index.last
              /\ index' = index
    BY DEF Open
  <2>2. index'.list = <<>> \/ index' = index
    BY <2>1 DEF EmptyFile
  <2>3. \A k \in 1..Len(index'.list) : Stored(index.list[k])'
    BY <2>1, <2>2 DEF IInv, IndexCopy, Stored
  <2>4. ~index'.there => index'.list = <<>>
    BY <2>1, <2>2 DEF IInv, IndexCopy
  <2> QED
    BY <2>1, <2>3, <2>4 DEF IndexCopy
<1>4. IdsAscending'
  <2>1. /\ pc' = "idle" /\ then' = "idle" /\ cur' = Idle /\ data' = data
        /\ \/ /\ entries' = <<>> /\ last' = NoId
              /\ index' = EmptyFile
           \/ /\ entries' = <<>> /\ last' = NoId
              /\ index' = index
           \/ /\ entries' = index.list /\ last' = index.last
              /\ index' = index
    BY DEF Open
  <2>2. index'.list = <<>> \/ index' = index
    BY <2>1 DEF EmptyFile
  <2>3. Ascending(index.list)'
    BY <2>2 DEF IInv, IdsAscending, Ascending
  <2> QED
    BY <2>1, <2>3 DEF IInv, IdsAscending, Ascending, IndexLast, LastOf
<1>5. IndexLast'
  BY DEF IInv, TypeOK, IdsAscending, IndexLast, LastOf, Open, Id, Offset, NoId,
         Entry, Record, Idle, NoFile, EmptyFile
<1> QED
  BY <1>1, <1>2, <1>3, <1>4, <1>5 DEF IInv

-----------------------------------------------------------------------------
(* Every step keeps the invariant. *)
LEMMA NextIInv == IInv /\ [Next]_vars => IInv'
<1> SUFFICES ASSUME IInv, [Next]_vars
             PROVE  IInv'
  OBVIOUS
<1>1. CASE UNCHANGED vars
  BY <1>1
     DEF vars, IInv, TypeOK, InFlight, IndexCopy, IdsAscending, Ascending,
         IndexLast, LastOf, Stored
<1>2. CASE Next
  BY <1>2, AddEntryStep, UpdateEntryStep, DeleteEntryStep, DeleteAllStep,
     AppendIdStep, WriteValueStep, UnlinkStep, CreateStep, WriteWordStep,
     UpdatedStep, WipeStep, UnlinkFailsStep, CreateFailsStep,
     WriteWordFailsStep, AppendFailsStep, ExitStep, OpenStep
     DEF Next
<1> QED
  BY <1>1, <1>2

(* The invariant holds in every behaviour. *)
THEOREM Invariance == Spec => []IInv
BY InitIInv, NextIInv, PTL DEF Spec

(* Every variable keeps its type; in particular the data file and the
   descriptors stay within the bounds, and ids are ids. *)
THEOREM TypeCorrect == Spec => []TypeOK
<1>1. IInv => TypeOK
  BY DEF IInv
<1> QED
  BY <1>1, Invariance, PTL

(* Wherever the process ends and whichever call fails, what the index file
   lists is whole in the data file (database_add_entry writes the record before
   index_file_update, database_delete_all empties the index file before the
   data file). *)
THEOREM DurableRefsHold == Spec => []DurableRefs
<1>1. IInv => DurableRefs
  BY DEF IInv, InFlight, IndexCopy, DurableRefs
<1> QED
  BY <1>1, Invariance, PTL

(* Ids are unique and ascending, and last_id is the last of them, through
   deletions of the highest id, crashes and failed updates
   (index_file_delete_entry, index_file_load). *)
THEOREM IdsAscendingHold == Spec => []IdsAscending
<1>1. IInv => IdsAscending
  BY DEF IInv
<1> QED
  BY <1>1, Invariance, PTL

-----------------------------------------------------------------------------
(* Tables, as constants of a data file d and an entry list es *)

ValueIn(d, off) == IF off \in DOMAIN d THEN d[off].val ELSE Torn

TableIn(d, es) ==
  [i \in Id |-> IF \E k \in 1..Len(es) : es[k].id = i
                THEN ValueIn(d, es[CHOOSE k \in 1..Len(es) : es[k].id = i].off)
                ELSE Torn]

Empty == [i \in Id |-> Torn]

(* What one operation can make of a table: S!After, written out. *)
After(t) == {[t EXCEPT ![i] = v] : i \in Id, v \in Val \cup {Torn}} \cup {Empty}

(* An entry list without equal ids. *)
Unique(es) == \A j, k \in 1..Len(es) : es[j].id = es[k].id => j = k

-----------------------------------------------------------------------------
(* The inductive invariant *)

Found == IF index.n = 0 THEN Empty ELSE TableIn(data, index.list)
Busy == mode = "undef" \/ (mode = "up" /\ pc # "idle")

(* Between operations the files have the table, unless a call failed: then
   they have nothing, or too little to be opened. *)
AtRest ==
  (mode = "up" /\ pc = "idle") =>
     IF intact THEN ~Truncated /\ Found = TableIn(data, entries)
     ELSE Truncated \/ index.n = 0

(* Within an operation the files can be left for good at any call. *)
Recoverable == Busy => Truncated \/ Found \in After(was) \cup {was}

(* When the index file is about to be written, the operation is done in memory. *)
Prepared ==
  (mode = "up" /\ pc \in {"unlink", "create", "write", "wipe"}) =>
     TableIn(data, entries) \in After(was)

(* Until then, only the entry being added is different. *)
Adding ==
  (mode = "up" /\ pc \in {"append", "value"}) =>
     /\ \E k \in 1..Len(entries) :
          /\ entries[k].id = cur.id
          /\ entries[k].off = IF pc = "append" THEN Len(data) + 1 ELSE Len(data)
     /\ \A i \in Id : i # cur.id => TableIn(data, entries)[i] = was[i]

RInv ==
  /\ AtRest /\ Recoverable /\ Prepared /\ Adding
  /\ pc = "value" => data[Len(data)].val = Torn
  /\ ~index.there => index.n = 0
  /\ pc = "write" => index.there

-----------------------------------------------------------------------------
(* Facts about tables *)

(* The table has, under an entry's id, the value at its offset. *)
LEMMA TableAt ==
  ASSUME NEW d, NEW es, NEW k \in 1..Len(es), es[k].id \in Id, Unique(es)
  PROVE  TableIn(d, es)[es[k].id] = ValueIn(d, es[k].off)
<1> DEFINE c == CHOOSE j \in 1..Len(es) : es[j].id = es[k].id
<1>1. c \in 1..Len(es) /\ es[c].id = es[k].id
  OBVIOUS
<1>2. c = k
  BY <1>1 DEF Unique
<1>3. TableIn(d, es)[es[k].id] = ValueIn(d, es[c].off)
  BY DEF TableIn
<1> QED
  BY <1>2, <1>3

LEMMA TableAtNone ==
  ASSUME NEW d, NEW es, NEW i \in Id, \A k \in 1..Len(es) : es[k].id # i
  PROVE  TableIn(d, es)[i] = Torn
BY DEF TableIn

(* Two lists that have the same entry for an id agree on it. *)
LEMMA SameAt ==
  ASSUME NEW d, NEW es, NEW fs, Unique(es), Unique(fs), NEW i \in Id,
         \A k \in 1..Len(es) : es[k].id = i =>
            \E m \in 1..Len(fs) : fs[m].id = i /\ fs[m].off = es[k].off,
         \A m \in 1..Len(fs) : fs[m].id = i => \E k \in 1..Len(es) : es[k].id = i
  PROVE  TableIn(d, fs)[i] = TableIn(d, es)[i]
<1>1. CASE \E k \in 1..Len(es) : es[k].id = i
  <2>1. PICK k \in 1..Len(es) : es[k].id = i
    BY <1>1
  <2>2. PICK m \in 1..Len(fs) : fs[m].id = i /\ fs[m].off = es[k].off
    BY <2>1
  <2>3. TableIn(d, es)[i] = ValueIn(d, es[k].off)
    BY <2>1, TableAt
  <2>4. TableIn(d, fs)[i] = ValueIn(d, fs[m].off)
    BY <2>2, TableAt
  <2> QED
    BY <2>2, <2>3, <2>4
<1>2. CASE ~ \E k \in 1..Len(es) : es[k].id = i
  BY <1>2, TableAtNone
<1> QED
  BY <1>1, <1>2

(* Data files that agree on a list's offsets give it one table. *)
LEMMA SameTable ==
  ASSUME NEW d, NEW e, NEW es,
         \A k \in 1..Len(es) : ValueIn(e, es[k].off) = ValueIn(d, es[k].off)
  PROVE  TableIn(e, es) = TableIn(d, es)
<1>1. ASSUME NEW i \in Id
      PROVE  (IF \E k \in 1..Len(es) : es[k].id = i
              THEN ValueIn(e, es[CHOOSE k \in 1..Len(es) : es[k].id = i].off)
              ELSE Torn)
           = (IF \E k \in 1..Len(es) : es[k].id = i
              THEN ValueIn(d, es[CHOOSE k \in 1..Len(es) : es[k].id = i].off)
              ELSE Torn)
  <2> DEFINE c == CHOOSE k \in 1..Len(es) : es[k].id = i
  <2>1. CASE \E k \in 1..Len(es) : es[k].id = i
    <3>1. c \in 1..Len(es)
      BY <2>1
    <3>2. ValueIn(e, es[c].off) = ValueIn(d, es[c].off)
      BY <3>1
    <3> QED
      BY <2>1, <3>2
  <2>2. CASE ~ \E k \in 1..Len(es) : es[k].id = i
    BY <2>2
  <2> QED
    BY <2>1, <2>2
<1> QED
  BY <1>1 DEF TableIn

LEMMA EmptyTable ==
  ASSUME NEW d
  PROVE  TableIn(d, <<>>) = Empty
BY DEF TableIn, Empty

LEMMA TableType ==
  ASSUME NEW d, NEW es
  PROVE  DOMAIN TableIn(d, es) = Id
BY DEF TableIn

LEMMA AscendingIsUnique ==
  ASSUME NEW es, \A k \in 1..Len(es) : es[k].id \in Int, Ascending(es), Len(es) \in Nat
  PROVE  Unique(es)
<1> SUFFICES ASSUME NEW j \in 1..Len(es), NEW k \in 1..Len(es), es[j].id = es[k].id, j # k
             PROVE  FALSE
  BY DEF Unique
<1>1. j < k \/ k < j
  OBVIOUS
<1> QED
  BY <1>1 DEF Ascending

(* A table that is another one but for one id, *)
LEMMA PutMakes ==
  ASSUME NEW t, DOMAIN t = Id, NEW u \in [Id -> Val \cup {Torn}], NEW i \in Id,
         t[i] \in Val \cup {Torn}, \A j \in Id : j # i => t[j] = u[j],
         t = [j \in Id |-> t[j]]
  PROVE  t \in After(u)
<1>1. t = [u EXCEPT ![i] = t[i]]
  OBVIOUS
<1> QED
  BY <1>1 DEF After

(* and one that is none of its entries. *)
LEMMA EmptyIsAfter ==
  ASSUME NEW u
  PROVE  Empty \in After(u)
BY DEF After

(* The lists in memory and in the index file have no equal ids, and what their
   entries refer to. *)
LEMMA Lists ==
  ASSUME IInv
  PROVE  /\ Len(entries) \in Nat /\ Len(index.list) \in Nat /\ Len(data) \in Nat
         /\ DOMAIN data = 1..Len(data)
         /\ Unique(entries) /\ Unique(index.list)
         /\ \A k \in 1..Len(entries) : entries[k].id \in Id
         /\ \A k \in 1..Len(index.list) : Stored(index.list[k])
<1>1. index.list \in Seq(Entry)
  BY DEF IInv, TypeOK
<1>2. Len(entries) \in Nat /\ Len(index.list) \in Nat /\ Len(data) \in Nat
      /\ DOMAIN data = 1..Len(data)
  BY <1>1 DEF IInv, TypeOK
<1>3. /\ \A k \in 1..Len(entries) : entries[k].id \in Id
      /\ \A k \in 1..Len(index.list) : index.list[k].id \in Id
  BY ElementTypes DEF IInv
<1>4. \A i \in Id : i \in Int
  BY DEF Id
<1>5. Unique(entries) /\ Unique(index.list)
  BY <1>2, <1>3, <1>4, AscendingIsUnique DEF IInv, IdsAscending
<1> QED
  BY <1>2, <1>3, <1>5 DEF IInv, IndexCopy

-----------------------------------------------------------------------------
(* The refinement mapping *)

AbsState == IF mode = "hung" \/ (mode = "down" /\ Truncated) THEN "stuck"
            ELSE IF mode = "down" THEN "closed"
            ELSE IF mode = "undef" \/ pc # "idle" THEN "busy"
            ELSE IF intact THEN "open" ELSE "broken"

AbsTable == IF mode = "hung" \/ (mode = "down" /\ Truncated)
            THEN [i \in Id |-> Torn]
            ELSE IF mode = "down" THEN Recovered
            ELSE IF mode = "undef" \/ pc # "idle" THEN was
            ELSE TableOf(entries)

(* What Store sees in each situation of the process. *)
View ==
  /\ Busy => AbsState = "busy" /\ AbsTable = was
  /\ (mode = "up" /\ pc = "idle") =>
        /\ AbsState = IF intact THEN "open" ELSE "broken"
        /\ AbsTable = TableIn(data, entries)
  /\ (mode = "down" /\ ~Truncated) => AbsState = "closed" /\ AbsTable = Found
  /\ (mode = "hung" \/ (mode = "down" /\ Truncated)) =>
        AbsState = "stuck" /\ AbsTable = Empty

LEMMA ViewNow == View
BY DEF View, Busy, AbsState, AbsTable, Found, Recovered, Empty, TableOf, TableIn,
       ValueAt, ValueIn

LEMMA ViewNext == View'
BY DEF View, Busy, AbsState, AbsTable, Found, Recovered, Empty, TableOf, TableIn,
       ValueAt, ValueIn

LEMMA AfterIsAfter ==
  ASSUME NEW t
  PROVE  S!After(t) = After(t)
BY DEF S!After, S!Put, S!Empty, After, Empty

(* An operation of Store, step by step: it begins, *)
LEMMA Begins ==
  ASSUME mode = "up", pc = "idle", mode' = "up", pc' # "idle",
         was' = TableIn(data, entries)
  PROVE  S!Next
<1>1. AbsState \in {"open", "broken"} /\ AbsTable = TableIn(data, entries)
  BY ViewNow DEF View
<1>2. AbsState' = "busy" /\ AbsTable' = was'
  BY ViewNext DEF View, Busy
<1>3. AbsTable' = AbsTable
  BY <1>1, <1>2
<1>4. S!Begin
  BY <1>1, <1>2, <1>3 DEF S!Begin, AbsState, AbsTable
<1> QED
  BY <1>4 DEF S!Next

(* goes on, *)
LEMMA GoesOn ==
  ASSUME Busy, Busy', was' = was
  PROVE  UNCHANGED S!vars
<1>1. AbsState' = AbsState /\ AbsTable' = AbsTable
  BY ViewNow, ViewNext DEF View
<1> QED
  BY <1>1 DEF S!vars, AbsState, AbsTable

(* ends, with the files up to date or not, *)
LEMMA Ends ==
  ASSUME Busy, mode' = "up", pc' = "idle", TableIn(data', entries') \in After(was)
  PROVE  S!Next
<1>1. AbsState = "busy" /\ AbsTable = was
  BY ViewNow DEF View
<1>2. /\ AbsState' = (IF intact' THEN "open" ELSE "broken")
      /\ AbsTable' = TableIn(data', entries')
  BY ViewNext DEF View
<1>3. AbsTable' \in S!After(AbsTable)
  BY <1>1, <1>2, AfterIsAfter
<1>4. CASE intact'
  <2>1. S!Finish
    BY <1>1, <1>2, <1>3, <1>4 DEF S!Finish, AbsState, AbsTable
  <2> QED
    BY <2>1 DEF S!Next
<1>5. CASE ~intact'
  <2>1. S!Fail
    BY <1>1, <1>2, <1>3, <1>5 DEF S!Fail, AbsState, AbsTable
  <2> QED
    BY <2>1 DEF S!Next
<1> QED
  BY <1>4, <1>5

(* or the process ends. *)
LEMMA ProcessEnds ==
  ASSUME RInv, mode \in {"up", "undef"}, mode' = "down",
         Truncated' <=> Truncated, Found' = Found
  PROVE  S!Next
<1>1. AbsState' = (IF Truncated THEN "stuck" ELSE "closed")
      /\ AbsTable' = (IF Truncated THEN Empty ELSE Found)
  BY ViewNext DEF View
<1>2. CASE Busy
  <2>1. AbsState = "busy" /\ AbsTable = was
    BY <1>2, ViewNow DEF View
  <2>2. CASE Truncated
    <3>1. S!Exit
      BY <1>1, <2>1, <2>2 DEF S!Exit, S!Empty, Empty, AbsState, AbsTable
    <3> QED
      BY <3>1 DEF S!Next
  <2>3. CASE ~Truncated
    <3>1. AbsTable' \in S!After(AbsTable) \cup {AbsTable}
      BY <1>1, <1>2, <2>1, <2>3, AfterIsAfter DEF RInv, Recoverable
    <3>2. S!Exit
      BY <1>1, <2>1, <2>3, <3>1 DEF S!Exit, AbsState, AbsTable
    <3> QED
      BY <3>2 DEF S!Next
  <2> QED
    BY <2>2, <2>3
<1>3. CASE ~Busy
  <2>1. /\ mode = "up" /\ pc = "idle"
        /\ AbsState = (IF intact THEN "open" ELSE "broken")
        /\ AbsTable = TableIn(data, entries)
    BY <1>3, ViewNow DEF View, Busy
  <2>2. CASE intact
    <3>1. AbsState = "open" /\ AbsState' = "closed" /\ AbsTable' = AbsTable
      BY <1>1, <2>1, <2>2 DEF RInv, AtRest
    <3>2. S!Exit
      BY <3>1 DEF S!Exit, AbsState, AbsTable
    <3> QED
      BY <3>2 DEF S!Next
  <2>3. CASE ~intact
    <3>1. AbsState = "broken" /\ AbsState' \in {"closed", "stuck"} /\ AbsTable' = Empty
      BY <1>1, <2>1, <2>3 DEF RInv, AtRest, Found
    <3>2. S!Exit
      BY <3>1 DEF S!Exit, S!Empty, Empty, AbsState, AbsTable
    <3> QED
      BY <3>2 DEF S!Next
  <2> QED
    BY <2>2, <2>3
<1> QED
  BY <1>2, <1>3

-----------------------------------------------------------------------------
(* Every step keeps the invariant and is a step of Store or none: the
   operations begin, *)
Step == S!Next \/ UNCHANGED S!vars

(* When an operation begins, the files are as the last one left them. *)
LEMMA FilesAtBegin ==
  ASSUME RInv, mode = "up", pc = "idle", was' = TableIn(data, entries),
         UNCHANGED <<data, index>>
  PROVE  /\ Recoverable'
         /\ ~index'.there => index'.n = 0
<1>1. (Truncated' <=> Truncated) /\ Found' = Found
  BY DEF Truncated, Words, Found
<1>2. CASE intact
  BY <1>1, <1>2 DEF RInv, AtRest, Recoverable
<1>3. CASE ~intact
  <2>1. Truncated \/ Found = Empty
    BY <1>3 DEF RInv, AtRest, Found
  <2>2. Truncated' \/ Found' = Empty
    BY <1>1, <2>1
  <2> QED
    BY <2>2 DEF Recoverable, After, RInv
<1> QED
  BY <1>2, <1>3

LEMMA WasTable ==
  ASSUME Begin \/ DeleteAll
  PROVE  was' = TableIn(data, entries) /\ mode = "up" /\ pc = "idle"
BY DEF Begin, DeleteAll, TableOf, TableIn, ValueAt, ValueIn

LEMMA AddEntryRefines ==
  ASSUME IInv, IInv', RInv, NEW v \in Val, AddEntry(v)
  PROVE  RInv' /\ Step
<1>1. /\ mode = "up" /\ pc = "idle" /\ mode' = "up" /\ pc' = "append"
      /\ was' = TableIn(data, entries)
      /\ UNCHANGED <<data, index>>
  BY WasTable DEF AddEntry, Goto
<1>2. Step
  BY <1>1, Begins DEF Step
<1> DEFINE x == [id |-> last + 1, off |-> EndOffset]
<1>3. entries' = Append(entries, x) /\ cur'.id = x.id /\ x.off = Len(data) + 1
  BY DEF AddEntry, EndOffset
<1> HIDE DEF x
<1>4. /\ Len(entries) \in Nat /\ Unique(entries) /\ Unique(entries')
      /\ Len(entries') = Len(entries) + 1 /\ entries'[Len(entries) + 1] = x
      /\ \A k \in 1..Len(entries) : entries'[k] = entries[k]
  <2>1. Unique(entries) /\ Len(entries) \in Nat
    BY Lists
  <2>2. Unique(entries')
    <3>1. \A k \in 1..Len(entries') : entries'[k].id \in Int
      <4>1. TypeOK'
        BY DEF IInv
      <4>2. \A k \in 1..Len(entries') : entries'[k] \in Entry
        BY <4>1 DEF TypeOK
      <4>3. \A e \in Entry : e.id \in Int
        BY DEF Entry, Id
      <4> QED
        BY <4>2, <4>3
    <3>2. Ascending(entries')
      BY DEF IInv, IdsAscending, Ascending
    <3>3. Len(entries') \in Nat
      BY DEF IInv, TypeOK
    <3> QED
      BY <3>1, <3>2, <3>3, AscendingIsUnique
  <2>3. /\ Len(entries') = Len(entries) + 1 /\ entries'[Len(entries) + 1] = x
        /\ \A k \in 1..Len(entries) : entries'[k] = entries[k]
    BY <1>3 DEF IInv, TypeOK
  <2> QED
    BY <2>1, <2>2, <2>3
<1>5. ASSUME NEW i \in Id, i # x.id
      PROVE  TableIn(data, entries')[i] = TableIn(data, entries)[i]
  <2>1. \A k \in 1..Len(entries) : entries[k].id = i =>
           \E m \in 1..Len(entries') : entries'[m].id = i /\ entries'[m].off = entries[k].off
    <3> SUFFICES ASSUME NEW k \in 1..Len(entries), entries[k].id = i
                 PROVE  \E m \in 1..Len(entries') :
                          entries'[m].id = i /\ entries'[m].off = entries[k].off
      OBVIOUS
    <3>1. k \in 1..Len(entries') /\ entries'[k] = entries[k]
      BY <1>4
    <3> QED
      BY <3>1
  <2>2. \A m \in 1..Len(entries') : entries'[m].id = i =>
           \E k \in 1..Len(entries) : entries[k].id = i
    <3> SUFFICES ASSUME NEW m \in 1..Len(entries'), entries'[m].id = i
                 PROVE  \E k \in 1..Len(entries) : entries[k].id = i
      OBVIOUS
    <3>1. m # Len(entries) + 1
      BY <1>4, <1>5
    <3>2. m \in 1..Len(entries)
      BY <1>4, <3>1
    <3> QED
      BY <1>4, <3>2
  <2> QED
    BY <1>4, <2>1, <2>2, SameAt
<1>6. Adding'
  <2>1. Len(entries) + 1 \in 1..Len(entries')
    BY <1>4
  <2>2. \E k \in 1..Len(entries') : entries'[k].id = cur'.id /\ entries'[k].off = Len(data') + 1
    BY <1>1, <1>3, <1>4, <2>1
  <2>3. \A i \in Id : i # cur'.id => TableIn(data', entries')[i] = was'[i]
    BY <1>1, <1>3, <1>5
  <2> QED
    BY <1>1, <2>2, <2>3 DEF Adding
<1>7. RInv'
  BY <1>1, <1>6, FilesAtBegin DEF RInv, AtRest, Prepared
<1> QED
  BY <1>2, <1>7

LEMMA UpdateEntryRefines ==
  ASSUME IInv, IInv', RInv, NEW n \in 1..Len(entries), NEW v \in Val, UpdateEntry(n, v)
  PROVE  RInv' /\ Step
<1>1. /\ mode = "up" /\ pc = "idle" /\ mode' = "up" /\ pc' = "append"
      /\ was' = TableIn(data, entries)
      /\ UNCHANGED <<data, index>>
  BY WasTable DEF UpdateEntry, Goto
<1>2. Step
  BY <1>1, Begins DEF Step
<1> DEFINE x == [entries[n] EXCEPT !.off = EndOffset]
<1>3. /\ x \in Entry /\ x.id = entries[n].id /\ x.off = Len(data) + 1
      /\ cur'.id = entries[n].id
  <2>1. entries[n] \in Entry
    BY ElementTypes DEF IInv
  <2>2. EndOffset \in Offset /\ EndOffset = Len(data) + 1
    BY DataBaseAssumption DEF UpdateEntry, EndOffset, Offset, IInv, TypeOK
  <2>3. \A e \in Entry, o \in Offset : /\ [e EXCEPT !.off = o] \in Entry
                                      /\ [e EXCEPT !.off = o].id = e.id
                                      /\ [e EXCEPT !.off = o].off = o
    BY DEF Entry
  <2>4. cur'.id = entries[n].id
    BY DEF UpdateEntry
  <2> QED
    BY <2>1, <2>2, <2>3, <2>4
<1>4. entries' = [entries EXCEPT ![n] = x]
  BY DEF UpdateEntry
<1> HIDE DEF x
<1>5. /\ Len(entries') = Len(entries) /\ entries'[n] = x
      /\ \A k \in 1..Len(entries) : k # n => entries'[k] = entries[k]
  BY <1>3, <1>4, ReplaceElement DEF IInv, TypeOK
<1>6. Unique(entries) /\ Unique(entries')
  <2>1. Unique(entries)
    BY Lists
  <2>2. \A k \in 1..Len(entries) : entries'[k].id = entries[k].id
    BY <1>3, <1>5
  <2> QED
    BY <1>5, <2>1, <2>2 DEF Unique
<1>7. ASSUME NEW i \in Id, i # x.id
      PROVE  TableIn(data, entries')[i] = TableIn(data, entries)[i]
  <2>1. \A k \in 1..Len(entries) : entries[k].id = i => entries'[k] = entries[k]
    BY <1>3, <1>5, <1>7
  <2>2. \A k \in 1..Len(entries') : entries'[k].id = i => entries'[k] = entries[k]
    BY <1>3, <1>5, <1>7
  <2> QED
    BY <1>5, <1>6, <2>1, <2>2, SameAt
<1>8. Adding'
  <2>1. \E k \in 1..Len(entries') : entries'[k].id = cur'.id /\ entries'[k].off = Len(data') + 1
    BY <1>1, <1>3, <1>5
  <2>2. \A i \in Id : i # cur'.id => TableIn(data', entries')[i] = was'[i]
    BY <1>1, <1>3, <1>7
  <2> QED
    BY <1>1, <2>1, <2>2 DEF Adding
<1>9. RInv'
  BY <1>1, <1>8, FilesAtBegin DEF RInv, AtRest, Prepared
<1> QED
  BY <1>2, <1>9

LEMMA DeleteEntryRefines ==
  ASSUME IInv, IInv', RInv, NEW n \in 1..Len(entries), DeleteEntry(n)
  PROVE  RInv' /\ Step
<1>1. /\ mode = "up" /\ pc = "idle" /\ mode' = "up" /\ pc' = "unlink"
      /\ was' = TableIn(data, entries)
      /\ UNCHANGED <<data, index>>
  BY WasTable DEF DeleteEntry, Goto
<1>2. Step
  BY <1>1, Begins DEF Step
<1>3. /\ entries' \in Seq(Entry)
      /\ Len(entries') = Len(entries) - 1
      /\ \A i \in 1..(Len(entries) - 1) :
           entries'[i] = IF i < n THEN entries[i] ELSE entries[i + 1]
  <2>1. entries \in Seq(Entry) /\ entries' = RemoveAt(entries, n)
    BY DEF IInv, TypeOK, DeleteEntry
  <2> QED
    BY <2>1, RemoveAtProperties
<1>4. /\ Len(entries) \in Nat /\ Unique(entries)
      /\ \A k \in 1..Len(entries) : entries[k].id \in Id
  BY Lists
<1>5. \A k \in 1..Len(entries') : \E j \in 1..Len(entries) : j # n /\ entries'[k] = entries[j]
  <2> SUFFICES ASSUME NEW k \in 1..Len(entries')
               PROVE  \E j \in 1..Len(entries) : j # n /\ entries'[k] = entries[j]
    OBVIOUS
  <2>1. CASE k < n
    BY <1>3, <1>4, <2>1
  <2>2. CASE ~(k < n)
    <3>1. k + 1 \in 1..Len(entries) /\ k + 1 # n
      BY <1>3, <1>4, <2>2
    <3> QED
      BY <1>3, <2>2, <3>1
  <2> QED
    BY <2>1, <2>2
<1>6. \A j \in 1..Len(entries) : j # n => \E k \in 1..Len(entries') : entries'[k] = entries[j]
  <2> SUFFICES ASSUME NEW j \in 1..Len(entries), j # n
               PROVE  \E k \in 1..Len(entries') : entries'[k] = entries[j]
    OBVIOUS
  <2>1. CASE j < n
    <3>1. j \in 1..(Len(entries) - 1)
      BY <1>4, <2>1
    <3> QED
      BY <1>3, <2>1, <3>1
  <2>2. CASE ~(j < n)
    <3>1. j - 1 \in 1..(Len(entries) - 1) /\ ~(j - 1 < n) /\ (j - 1) + 1 = j
      BY <1>4, <2>2
    <3> QED
      BY <1>3, <3>1
  <2> QED
    BY <2>1, <2>2
<1> DEFINE i0 == entries[n].id
<1>7. Unique(entries')
  <2>1. \A k \in 1..Len(entries') : entries'[k].id \in Int
    BY <1>4, <1>5 DEF Id
  <2>2. Ascending(entries')
    BY DEF IInv, IdsAscending, Ascending
  <2>3. Len(entries') \in Nat
    BY DEF IInv, TypeOK
  <2> QED
    BY <2>1, <2>2, <2>3, AscendingIsUnique
<1>8. ASSUME NEW i \in Id, i # i0
      PROVE  TableIn(data, entries')[i] = TableIn(data, entries)[i]
  <2>1. \A k \in 1..Len(entries) : entries[k].id = i =>
           \E m \in 1..Len(entries') : entries'[m].id = i /\ entries'[m].off = entries[k].off
    <3> SUFFICES ASSUME NEW k \in 1..Len(entries), entries[k].id = i
                 PROVE  \E m \in 1..Len(entries') :
                          entries'[m].id = i /\ entries'[m].off = entries[k].off
      OBVIOUS
    <3>1. k # n
      BY <1>8
    <3>2. PICK m \in 1..Len(entries') : entries'[m] = entries[k]
      BY <1>6, <3>1
    <3> QED
      BY <3>2
  <2>2. \A m \in 1..Len(entries') : entries'[m].id = i =>
           \E k \in 1..Len(entries) : entries[k].id = i
    BY <1>5
  <2> QED
    BY <1>4, <1>7, <2>1, <2>2, SameAt
<1>9. TableIn(data, entries')[i0] = Torn
  <2>1. \A m \in 1..Len(entries') : entries'[m].id # i0
    BY <1>4, <1>5 DEF Unique
  <2> QED
    BY <1>4, <2>1, TableAtNone
<1>10. TableIn(data', entries') \in After(was')
  <2> DEFINE t == TableIn(data, entries')
             u == TableIn(data, entries)
  <2>1. u \in [Id -> Val \cup {Torn}]
    BY <1>1 DEF IInv, TypeOK
  <2>2. i0 \in Id /\ t[i0] \in Val \cup {Torn} /\ \A j \in Id : j # i0 => t[j] = u[j]
    BY <1>4, <1>8, <1>9
  <2>3. DOMAIN t = Id /\ t = [j \in Id |-> t[j]]
    BY DEF TableIn
  <2> HIDE DEF t, u, i0
  <2>4. t \in After(u)
    BY <2>1, <2>2, <2>3, PutMakes
  <2> QED
    BY <1>1, <2>4 DEF t, u
<1>11. RInv'
  BY <1>1, <1>10, FilesAtBegin DEF RInv, AtRest, Prepared, Adding
<1> QED
  BY <1>2, <1>11

LEMMA DeleteAllRefines ==
  ASSUME IInv, IInv', RInv, DeleteAll
  PROVE  RInv' /\ Step
<1>1. /\ mode = "up" /\ pc = "idle" /\ mode' = "up" /\ pc' = "unlink"
      /\ was' = TableIn(data, entries)
      /\ UNCHANGED <<data, index>> /\ entries' = <<>>
  BY WasTable DEF DeleteAll, Goto
<1>2. Step
  BY <1>1, Begins DEF Step
<1>3. TableIn(data', entries') \in After(was')
  BY <1>1, EmptyTable, EmptyIsAfter
<1>4. RInv'
  BY <1>1, <1>3, FilesAtBegin DEF RInv, AtRest, Prepared, Adding
<1> QED
  BY <1>2, <1>4

-----------------------------------------------------------------------------
(* the system calls, *)

(* The id of a record changes no table: what is behind the last record is no
   value, and no more is a torn one. *)
LEMMA AppendIdRefines ==
  ASSUME IInv, IInv', RInv, AppendId
  PROVE  RInv' /\ Step
<1>1. /\ mode = "up" /\ pc = "append" /\ mode' = "up" /\ pc' = "value"
      /\ UNCHANGED <<index, entries, was, cur>>
  BY DEF AppendId, Running, Goto
<1>2. Step
  BY <1>1, GoesOn DEF Step, Busy
<1> DEFINE r == [id |-> cur.id, val |-> Torn]
<1>3. data' = Append(data, r) /\ r.val = Torn
  BY DEF AppendId
<1> HIDE DEF r
<1>4. /\ Len(data) \in Nat /\ Len(data') = Len(data) + 1
      /\ DOMAIN data = 1..Len(data) /\ DOMAIN data' = 1..Len(data')
      /\ data'[Len(data) + 1] = r
      /\ \A k \in 1..Len(data) : data'[k] = data[k]
  BY <1>3 DEF IInv, TypeOK
<1>5. ASSUME NEW off
      PROVE  ValueIn(data', off) = ValueIn(data, off)
  <2>1. CASE off \in 1..Len(data)
    <3>1. off \in 1..Len(data')
      BY <1>4, <2>1
    <3> QED
      BY <1>4, <2>1, <3>1 DEF ValueIn
  <2>2. CASE off = Len(data) + 1
    <3>1. off \notin 1..Len(data) /\ off \in 1..Len(data')
      BY <1>4, <2>2
    <3> QED
      BY <1>3, <1>4, <2>2, <3>1 DEF ValueIn
  <2>3. CASE off \notin 1..Len(data) /\ off # Len(data) + 1
    <3>1. off \notin 1..Len(data')
      BY <1>4, <2>3
    <3> QED
      BY <1>4, <2>3, <3>1 DEF ValueIn
  <2> QED
    BY <2>1, <2>2, <2>3
<1>6. /\ TableIn(data', entries') = TableIn(data, entries)
      /\ TableIn(data', index'.list) = TableIn(data, index.list)
  BY <1>1, <1>5, SameTable
<1>7. (Truncated' <=> Truncated) /\ Found' = Found
  BY <1>1, <1>6 DEF Truncated, Words, Found
<1>8. Adding'
  BY <1>1, <1>4, <1>6 DEF RInv, Adding
<1>9. Recoverable'
  BY <1>1, <1>7 DEF RInv, Recoverable, Busy
<1>10. data'[Len(data')].val = Torn
  BY <1>3, <1>4
<1> QED
  BY <1>1, <1>2, <1>8, <1>9, <1>10 DEF RInv, AtRest, Prepared

LEMMA SameValueAt ==
  ASSUME NEW d, NEW e, NEW es, Unique(es), NEW i \in Id,
         \A k \in 1..Len(es) : es[k].id = i => ValueIn(e, es[k].off) = ValueIn(d, es[k].off)
  PROVE  TableIn(e, es)[i] = TableIn(d, es)[i]
<1>1. CASE \E k \in 1..Len(es) : es[k].id = i
  <2>1. PICK k \in 1..Len(es) : es[k].id = i
    BY <1>1
  <2>2. TableIn(d, es)[i] = ValueIn(d, es[k].off) /\ TableIn(e, es)[i] = ValueIn(e, es[k].off)
    BY <2>1, TableAt
  <2> QED
    BY <2>1, <2>2
<1>2. CASE ~ \E k \in 1..Len(es) : es[k].id = i
  BY <1>2, TableAtNone
<1> QED
  BY <1>1, <1>2

(* The value completes the record: the entry being added gets it, and no index
   file refers to that record. *)
LEMMA WriteValueRefines ==
  ASSUME IInv, IInv', RInv, WriteValue
  PROVE  RInv' /\ Step
<1>1. /\ mode = "up" /\ pc = "value" /\ mode' = "up" /\ pc' = "unlink"
      /\ UNCHANGED <<index, entries, was, cur>>
  BY DEF WriteValue, Running, Goto
<1>2. Step
  BY <1>1, GoesOn DEF Step, Busy
<1>3. PICK n : n = Len(data)
  OBVIOUS
<1>4. /\ n \in Nat /\ n > 0 /\ n \in 1..n /\ Len(data') = n
      /\ DOMAIN data = 1..n /\ DOMAIN data' = 1..n
      /\ data[n].val = Torn /\ data'[n].val = cur.val
      /\ cur.id \in Id /\ cur.val \in Val
      /\ \A k \in 1..n : k # n => data'[k] = data[k]
  <2>1. n \in Nat /\ n > 0 /\ cur.id \in Id /\ cur.val \in Val
    BY <1>1, <1>3, Lists DEF IInv, InFlight
  <2>2. n \in 1..n /\ DOMAIN data = 1..n
    BY <1>3, <2>1, Lists
  <2>3. data[n] \in Record
    BY <1>3, <2>2, ElementTypes DEF IInv
  <2>4. [data[n] EXCEPT !.val = cur.val].val = cur.val
    BY <2>3 DEF Record
  <2>5. data' = [data EXCEPT ![n] = [data[n] EXCEPT !.val = cur.val]]
    BY <1>3 DEF WriteValue
  <2>6. /\ DOMAIN data' = 1..n /\ data'[n] = [data[n] EXCEPT !.val = cur.val]
        /\ \A k \in 1..n : k # n => data'[k] = data[k]
    BY <2>2, <2>5
  <2>7. Len(data') = n
    BY <1>3, <2>1, <2>5 DEF IInv, TypeOK
  <2>8. data[n].val = Torn
    BY <1>1, <1>3 DEF RInv
  <2> QED
    BY <2>1, <2>2, <2>4, <2>6, <2>7, <2>8
<1>5. ASSUME NEW off, off # n
      PROVE  ValueIn(data', off) = ValueIn(data, off)
  BY <1>4, <1>5 DEF ValueIn
<1>6. \A k \in 1..Len(index.list) : index.list[k].off # n
  BY <1>4, Lists DEF Stored
<1>7. TableIn(data', index'.list) = TableIn(data, index.list)
  BY <1>1, <1>5, <1>6, SameTable
<1>8. (Truncated' <=> Truncated) /\ Found' = Found
  BY <1>1, <1>7 DEF Truncated, Words, Found
<1>9. Recoverable'
  BY <1>1, <1>8 DEF RInv, Recoverable, Busy
<1>10. PICK k0 \in 1..Len(entries) : entries[k0].id = cur.id /\ entries[k0].off = n
  BY <1>1, <1>3 DEF RInv, Adding
<1>11. TableIn(data', entries)[cur.id] = cur.val
  <2>1. Unique(entries)
    BY Lists
  <2>2. TableIn(data', entries)[cur.id] = ValueIn(data', n)
    BY <1>4, <1>10, <2>1, TableAt
  <2> QED
    BY <1>4, <2>2 DEF ValueIn
<1>12. ASSUME NEW i \in Id, i # cur.id
       PROVE  TableIn(data', entries)[i] = was[i]
  <2>1. ASSUME NEW k \in 1..Len(entries), entries[k].id = i
        PROVE  ValueIn(data', entries[k].off) = ValueIn(data, entries[k].off)
    <3>1. Stored(entries[k])
      BY <1>1, <1>12, <2>1 DEF IInv, InFlight
    <3>2. entries[k].off # n
      BY <1>4, <3>1 DEF Stored
    <3> QED
      BY <1>5, <3>2
  <2>2. Unique(entries)
    BY Lists
  <2>3. TableIn(data', entries)[i] = TableIn(data, entries)[i]
    BY <2>1, <2>2, SameValueAt
  <2> QED
    BY <1>1, <1>12, <2>3 DEF RInv, Adding
<1>13. TableIn(data', entries') \in After(was')
  <2> DEFINE t == TableIn(data', entries)
  <2>1. was \in [Id -> Val \cup {Torn}]
    BY DEF IInv, TypeOK
  <2>2. cur.id \in Id /\ t[cur.id] \in Val \cup {Torn}
        /\ \A j \in Id : j # cur.id => t[j] = was[j]
    BY <1>4, <1>11, <1>12
  <2>3. DOMAIN t = Id /\ t = [j \in Id |-> t[j]]
    BY DEF TableIn
  <2> HIDE DEF t
  <2>4. t \in After(was)
    BY <2>1, <2>2, <2>3, PutMakes
  <2> QED
    BY <1>1, <2>4 DEF t
<1> QED
  BY <1>1, <1>2, <1>9, <1>13 DEF RInv, AtRest, Prepared, Adding

LEMMA UnlinkOrCreateRefines ==
  ASSUME IInv, IInv', RInv, Unlink \/ Create
  PROVE  RInv' /\ Step
<1>1. /\ mode = "up" /\ pc \in {"unlink", "create"}
      /\ mode' = "up" /\ pc' \in {"create", "write"}
      /\ UNCHANGED <<data, entries, was>> /\ index'.n = 0
      /\ pc' = "write" => index'.there
  BY DEF Unlink, Create, Running, Goto, NoFile
<1>2. Step
  BY <1>1, GoesOn DEF Step, Busy
<1>3. Recoverable'
  BY <1>1, EmptyIsAfter DEF Recoverable, Found
<1> QED
  BY <1>1, <1>2, <1>3 DEF RInv, AtRest, Prepared, Adding

LEMMA WriteWordRefines ==
  ASSUME IInv, IInv', RInv, WriteWord
  PROVE  RInv' /\ Step
<1>1. /\ mode = "up" /\ pc = "write" /\ mode' = "up" /\ pc' = "write"
      /\ UNCHANGED <<data, entries, was>> /\ index.n < Words(index.list)
      /\ index' = [index EXCEPT !.n = @ + 1]
  BY DEF WriteWord, Running
<1>2. Step
  BY <1>1, GoesOn DEF Step, Busy
<1>3. index'.n = index.n + 1 /\ index'.list = index.list /\ index'.there = index.there
  BY <1>1 DEF IInv, TypeOK
<1>4. index.n \in Nat /\ Words(index.list) \in Nat
  BY Lists DEF IInv, TypeOK, Words, Header
<1>5. index.list = entries
  BY <1>1 DEF IInv, IndexCopy
<1>6. TableIn(data, entries) \in After(was)
  BY <1>1 DEF RInv, Prepared
<1>7. CASE index'.n < Words(index'.list)
  <2>1. Truncated'
    BY <1>3, <1>4, <1>7 DEF Truncated
  <2>2. index'.there
    BY <1>1, <1>3 DEF RInv
  <2> QED
    BY <1>1, <1>2, <1>6, <2>1, <2>2 DEF RInv, AtRest, Prepared, Adding, Recoverable
<1>8. CASE ~(index'.n < Words(index'.list))
  <2>1. Found' = TableIn(data, entries)
    BY <1>1, <1>3, <1>4, <1>5 DEF Found
  <2>2. index'.there
    BY <1>1, <1>3 DEF RInv
  <2> QED
    BY <1>1, <1>2, <1>6, <2>1, <2>2 DEF RInv, AtRest, Prepared, Adding, Recoverable
<1> QED
  BY <1>7, <1>8

(* The index file is complete: the operation is done, or its data file is
   still to be emptied. *)
LEMMA UpdatedRefines ==
  ASSUME IInv, IInv', RInv, Updated
  PROVE  RInv' /\ Step
<1>1. /\ mode = "up" /\ pc = "write" /\ mode' = "up" /\ pc' = then
      /\ then \in {"idle", "wipe"} /\ intact' /\ index.n = Words(index.list)
      /\ UNCHANGED <<data, index, entries, was>>
  BY DEF Updated, Running, Goto, IInv, TypeOK
<1>2. TableIn(data', entries') \in After(was')
  BY <1>1 DEF RInv, Prepared
<1>3. index.n > 0 /\ index.list = entries
  <2>1. Words(index.list) > 0
    BY Lists DEF Words, Header
  <2> QED
    BY <1>1, <2>1 DEF IInv, IndexCopy
<1>4. ~Truncated' /\ Found' = TableIn(data', entries')
  BY <1>1, <1>3, Lists DEF Truncated, Found, Words, Header
<1>5. (~index'.there => index'.n = 0) /\ pc' # "value" /\ pc' # "write"
  BY <1>1 DEF RInv
<1>6. CASE then = "idle"
  <2>1. Step
    BY <1>1, <1>2, <1>6, Ends DEF Step, Busy
  <2>2. RInv'
    BY <1>1, <1>4, <1>5, <1>6 DEF RInv, AtRest, Recoverable, Prepared, Adding, Busy
  <2> QED
    BY <2>1, <2>2
<1>7. CASE then = "wipe"
  <2>1. Step
    BY <1>1, <1>7, GoesOn DEF Step, Busy
  <2>2. RInv'
    BY <1>1, <1>2, <1>4, <1>5, <1>7 DEF RInv, AtRest, Recoverable, Prepared, Adding
  <2> QED
    BY <2>1, <2>2
<1> QED
  BY <1>1, <1>6, <1>7

(* No list refers to the data file that is emptied. *)
LEMMA WipeRefines ==
  ASSUME IInv, IInv', RInv, Wipe
  PROVE  RInv' /\ Step
<1>1. /\ mode = "up" /\ pc = "wipe" /\ mode' = "up" /\ pc' = "unlink"
      /\ UNCHANGED <<index, entries, was>>
      /\ entries = <<>> /\ index.list = <<>>
  BY DEF Wipe, Running, Goto, IInv, IndexCopy
<1>2. Step
  BY <1>1, GoesOn DEF Step, Busy
<1>3. TableIn(data', entries') \in After(was')
  BY <1>1, EmptyTable, EmptyIsAfter
<1>4. Found' = Empty
  BY <1>1, EmptyTable DEF Found
<1>5. Recoverable'
  <2>1. Empty \in After(was')
    BY EmptyIsAfter
  <2> QED
    BY <1>4, <2>1 DEF Recoverable
<1> QED
  BY <1>1, <1>2, <1>3, <1>5 DEF RInv, AtRest, Prepared, Adding

-----------------------------------------------------------------------------
(* calls that fail, *)

(* A caller that reports the failure or goes on without a word: what the files
   have then is nothing, or too little to be opened, unless the entry was never
   written. *)
LEMMA ReturnFalseRefines ==
  ASSUME IInv, IInv', RInv, mode = "up", ReturnFalse, UNCHANGED <<data, index, was>>,
         \/ pc \in {"append", "value"}
         \/ pc \in {"unlink", "create", "write"} /\ ~intact' /\ (Truncated \/ index.n = 0)
  PROVE  RInv' /\ Step
<1>1. (Truncated' <=> Truncated) /\ (entries' = entries => Found' = Found)
      /\ (index.n = 0 <=> index'.n = 0) /\ (~index'.there => index'.n = 0)
  BY DEF Truncated, Words, Found, RInv
<1>2. entries' = entries
  BY DEF ReturnFalse
<1>3. CASE cur # Idle
  <2>1. mode' \in {"down", "undef"} /\ pc' = pc /\ pc # "idle"
    BY <1>3 DEF ReturnFalse
  <2>2. CASE mode' = "down"
    <3>1. Step
      BY <1>1, <1>2, <2>2, ProcessEnds DEF Step
    <3>2. RInv'
      BY <1>1, <2>1, <2>2 DEF RInv, AtRest, Recoverable, Prepared, Adding, Busy
    <3> QED
      BY <3>1, <3>2
  <2>3. CASE mode' = "undef"
    <3>1. Step
      BY <2>1, <2>3, GoesOn DEF Step, Busy
    <3>2. Recoverable'
      BY <1>1, <1>2, <2>1 DEF RInv, Recoverable, Busy
    <3>3. RInv'
      BY <1>1, <2>1, <2>3, <3>2 DEF RInv, AtRest, Prepared, Adding
    <3> QED
      BY <3>1, <3>3
  <2> QED
    BY <2>1, <2>2, <2>3
<1>4. CASE cur = Idle
  <2>1. pc \notin {"append", "value"}
    BY <1>4 DEF IInv, InFlight, Idle, Id, NoId
  <2>2. /\ mode' = "up" /\ pc' = then /\ then \in {"idle", "wipe"}
        /\ ~intact' /\ (Truncated \/ index.n = 0) /\ pc # "idle"
        /\ pc \in {"unlink", "create", "write"}
    BY <1>4, <2>1 DEF ReturnFalse, Goto, IInv, TypeOK
  <2>3. TableIn(data', entries') \in After(was')
    BY <1>2, <2>2 DEF RInv, Prepared
  <2>4. CASE then = "idle"
    <3>1. Step
      BY <2>2, <2>3, <2>4, Ends DEF Step, Busy
    <3>2. RInv'
      BY <1>1, <2>2, <2>4 DEF RInv, AtRest, Recoverable, Prepared, Adding, Busy
    <3> QED
      BY <3>1, <3>2
  <2>5. CASE then = "wipe"
    <3>1. Step
      BY <2>2, <2>5, GoesOn DEF Step, Busy
    <3>2. Recoverable'
      BY <1>1, <1>2, <2>2 DEF RInv, Recoverable, Busy
    <3>3. RInv'
      BY <1>1, <2>2, <2>3, <2>5, <3>2 DEF RInv, AtRest, Prepared, Adding
    <3> QED
      BY <3>1, <3>3
  <2> QED
    BY <2>2, <2>4, <2>5
<1> QED
  BY <1>3, <1>4

LEMMA FailureRefines ==
  ASSUME IInv, IInv', RInv, UnlinkFails \/ CreateFails \/ AppendFails
  PROVE  RInv' /\ Step
<1>1. mode = "up" /\ ReturnFalse /\ UNCHANGED <<data, index, was>>
  BY DEF UnlinkFails, CreateFails, AppendFails, Running
<1>2. CASE UnlinkFails
  <2>1. pc = "unlink" /\ ~intact' /\ index.n = 0
    BY <1>2 DEF UnlinkFails, Running, RInv
  <2> QED
    BY <1>1, <2>1, ReturnFalseRefines
<1>3. CASE CreateFails
  <2>1. pc = "create" /\ ~intact' /\ index.n = 0
    BY <1>3 DEF CreateFails, Running, RInv, IInv, IndexCopy
  <2> QED
    BY <1>1, <2>1, ReturnFalseRefines
<1>4. CASE AppendFails
  <2>1. pc \in {"append", "value"}
    BY <1>4 DEF AppendFails, Running
  <2> QED
    BY <1>1, <2>1, ReturnFalseRefines
<1> QED
  BY <1>2, <1>3, <1>4

(* A failure in an entry goes unnoticed, with the file cut short. *)
LEMMA WriteWordFailsRefines ==
  ASSUME IInv, IInv', RInv, WriteWordFails
  PROVE  RInv' /\ Step
<1>1. /\ mode = "up" /\ pc = "write" /\ ~intact'
      /\ index.n < Words(index.list) /\ UNCHANGED <<data, index, was>>
  BY DEF WriteWordFails, Running
<1>2. index.n \in Nat
  BY DEF IInv, TypeOK
<1>3. Truncated \/ index.n = 0
  BY <1>1, <1>2 DEF Truncated
<1>4. CASE ReturnFalse
  BY <1>1, <1>3, <1>4, ReturnFalseRefines
<1>5. CASE ~ReturnFalse
  <2>1. /\ index.n >= Header /\ mode' = "up" /\ pc' = then
        /\ entries' = entries /\ then \in {"idle", "wipe"}
    <3>1. ~(index.n < Header) /\ Goto(then) /\ mode' = mode /\ entries' = entries
      BY <1>5 DEF WriteWordFails
    <3>2. index.n >= Header
      BY <1>2, <3>1 DEF Header
    <3>3. then \in {"idle", "wipe"}
      BY DEF IInv, TypeOK
    <3> QED
      BY <1>1, <3>1, <3>2, <3>3 DEF Goto
  <2>2. Truncated /\ Truncated' /\ (~index'.there => index'.n = 0)
    BY <1>1, <1>2, <2>1 DEF Truncated, Words, Header, RInv
  <2>3. TableIn(data', entries') \in After(was')
    BY <1>1, <2>1 DEF RInv, Prepared
  <2>4. CASE then = "idle"
    <3>1. Step
      BY <1>1, <2>1, <2>3, <2>4, Ends DEF Step, Busy
    <3>2. RInv'
      BY <1>1, <2>1, <2>2, <2>4 DEF RInv, AtRest, Recoverable, Prepared, Adding, Busy
    <3> QED
      BY <3>1, <3>2
  <2>5. CASE then = "wipe"
    <3>1. Step
      BY <1>1, <2>1, <2>5, GoesOn DEF Step, Busy
    <3>2. RInv'
      BY <2>1, <2>2, <2>3, <2>5 DEF RInv, AtRest, Recoverable, Prepared, Adding
    <3> QED
      BY <3>1, <3>2
  <2> QED
    BY <2>1, <2>4, <2>5
<1> QED
  BY <1>4, <1>5

-----------------------------------------------------------------------------
(* and the end and the beginning of a process. *)
LEMMA ExitRefines ==
  ASSUME IInv, RInv, Exit
  PROVE  RInv' /\ Step
<1>1. /\ mode \in {"up", "undef"} /\ mode' = "down"
      /\ UNCHANGED <<pc, data, index>>
  BY DEF Exit
<1>2. (Truncated' <=> Truncated) /\ Found' = Found
  BY <1>1 DEF Truncated, Words, Found
<1>3. Step
  BY <1>1, <1>2, ProcessEnds DEF Step
<1> QED
  BY <1>1, <1>3 DEF RInv, AtRest, Recoverable, Prepared, Adding, Busy

(* A file that can be opened. *)
LEMMA OpenFinds ==
  ASSUME mode = "down", ~Truncated, mode' = "up", pc' = "idle", intact',
         TableIn(data', entries') = Found
  PROVE  Step
<1>1. AbsState = "closed" /\ AbsTable = Found
  BY ViewNow DEF View
<1>2. AbsState' = "open" /\ AbsTable' = TableIn(data', entries')
  BY ViewNext DEF View
<1>3. AbsTable' = AbsTable
  BY <1>1, <1>2
<1>4. S!Open
  BY <1>1, <1>2, <1>3 DEF S!Open, AbsState, AbsTable
<1> QED
  BY <1>4 DEF S!Next, Step

LEMMA OpenRefines ==
  ASSUME IInv, IInv', RInv, Open
  PROVE  RInv' /\ Step
<1>1. mode = "down" /\ pc' = "idle" /\ intact' /\ UNCHANGED data
  BY DEF Open
<1>2. index.n \in Nat /\ Words(index.list) \in Nat /\ Words(index.list) > 0
  BY Lists DEF IInv, TypeOK, Words, Header
<1>3. CASE index.n = 0 /\ mode' = "up" /\ entries' = <<>> /\ index' = EmptyFile
  <2>1. index'.n = 0 /\ index'.there
    BY <1>3 DEF EmptyFile
  <2>2. Found = Empty /\ Found' = Empty /\ TableIn(data', entries') = Empty
    BY <1>3, <2>1, EmptyTable DEF Found
  <2>3. ~Truncated /\ ~Truncated'
    BY <1>3, <2>1 DEF Truncated
  <2>4. Step
    BY <1>1, <1>3, <2>2, <2>3, OpenFinds
  <2> QED
    BY <1>1, <1>3, <2>1, <2>2, <2>3, <2>4
       DEF RInv, AtRest, Recoverable, Prepared, Adding, Busy
<1>4. CASE index.n > 0 /\ index.n < Words(index.list) /\ mode' = "hung" /\ index' = index
  <2>1. AbsState = "stuck" /\ AbsTable = Empty
    BY <1>1, <1>4, ViewNow DEF View, Truncated
  <2>2. AbsState' = "stuck" /\ AbsTable' = Empty
    BY <1>4, ViewNext DEF View
  <2>3. Step
    BY <2>1, <2>2 DEF Step, S!vars, AbsState, AbsTable
  <2> QED
    BY <1>1, <1>4, <2>3 DEF RInv, AtRest, Recoverable, Prepared, Adding, Busy
<1>5. CASE index.n = Words(index.list) /\ mode' = "up" /\ entries' = index.list
           /\ index' = index
  <2>1. ~Truncated /\ ~Truncated'
    BY <1>2, <1>5 DEF Truncated, Words
  <2>2. Found = TableIn(data, index.list) /\ Found' = Found
    BY <1>1, <1>2, <1>5 DEF Found
  <2>3. TableIn(data', entries') = Found
    BY <1>1, <1>5, <2>2
  <2>4. Step
    BY <1>1, <1>5, <2>1, <2>3, OpenFinds
  <2> QED
    BY <1>1, <1>5, <2>1, <2>2, <2>3, <2>4
       DEF RInv, AtRest, Recoverable, Prepared, Adding, Busy
<1> QED
  BY <1>3, <1>4, <1>5 DEF Open

-----------------------------------------------------------------------------
LEMMA InitRefines ==
  ASSUME Init
  PROVE  RInv /\ S!Init
<1>1. /\ mode = "up" /\ pc = "idle" /\ intact /\ entries = <<>>
      /\ index.n = 0 /\ index.there
  BY DEF Init, EmptyFile
<1>2. TableIn(data, entries) = Empty
  BY <1>1, EmptyTable
<1>3. AbsState = "open" /\ AbsTable = Empty
  BY <1>1, <1>2, ViewNow DEF View
<1>4. S!Init
  BY <1>3 DEF S!Init, S!Empty, Empty, AbsState, AbsTable
<1>5. RInv
  BY <1>1, <1>2
     DEF RInv, AtRest, Recoverable, Prepared, Adding, Busy, Truncated, Found
<1> QED
  BY <1>4, <1>5

LEMMA NextRefines ==
  ASSUME IInv, IInv', RInv, [Next]_vars
  PROVE  RInv' /\ [S!Next]_(S!vars)
<1>1. CASE UNCHANGED vars
  <2>1. RInv'
    BY <1>1
       DEF vars, RInv, AtRest, Recoverable, Prepared, Adding, Busy, Truncated, Words, Found
  <2>2. UNCHANGED S!vars
    BY <1>1 DEF vars, S!vars, Truncated, Words, Recovered, TableOf, ValueAt
  <2> QED
    BY <2>1, <2>2
<1>2. CASE Next
  <2>1. RInv' /\ Step
    BY <1>2, AddEntryRefines, UpdateEntryRefines, DeleteEntryRefines, DeleteAllRefines,
       AppendIdRefines, WriteValueRefines, UnlinkOrCreateRefines, WriteWordRefines,
       UpdatedRefines, WipeRefines, FailureRefines, WriteWordFailsRefines, ExitRefines,
       OpenRefines
       DEF Next
  <2> QED
    BY <2>1 DEF Step
<1> QED
  BY <1>1, <1>2

(* The files keep what Store promises: index_file_update unlinks the index file
   and writes it word by word, and between any two calls what is there is the
   table before the operation, the one after it, an empty one, or a file whose
   header announces more than it holds, which index_file_open never gets past.
   No order of calls, crashes and failures makes it another table. *)
THEOREM ImplementsStore == Spec => StoreSpec
<1>1. Init => IInv /\ RInv /\ S!Init
  BY InitIInv, InitRefines
<1>2. IInv /\ RInv /\ [Next]_vars => (IInv /\ RInv)' /\ [S!Next]_(S!vars)
  BY NextIInv, NextRefines
<1> QED
  BY <1>1, <1>2, PTL DEF Spec, StoreSpec, S!Spec
=============================================================================
