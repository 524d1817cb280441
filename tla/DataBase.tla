------------------------------ MODULE DataBase ------------------------------
(***************************************************************************)
(* database.c with index_file.c, data_file.c and entry_point.c, for a      *)
(* format without keyword columns (the message database's "is"): an        *)
(* append-only data file of records and an index file of (id, offset)      *)
(* words that every operation unlinks and writes again.                    *)
(*                                                                         *)
(* An operation is a sequence of system calls, one action each; the        *)
(* process may end between any two of them, and a call may fail.  A        *)
(* file keeps what was written when the process ends (the machine does     *)
(* not go down).  A record is written by two calls, its id and its value:  *)
(* between them it is torn.  An offset is the position of a record.  The   *)
(* index file is the list it is a copy of and the number n of 4-byte       *)
(* words of that copy written so far: field_mask, last_id, entry_count,    *)
(* then an id and an offset for each entry.                                *)
(***************************************************************************)
EXTENDS Integers, Sequences, SequencesExt

CONSTANTS
  Val,      \* values of an entry
  Torn,     \* what is under a record's id before its value is written
  MaxData,  \* bound: records in the data file
  MaxFd,    \* descriptors the index file may take: one is left open per update
  Faults    \* calls that fail in this instance: "open", "write"

ASSUME DataBaseAssumption == /\ Torn \notin Val
                             /\ MaxData \in Nat
                             /\ MaxFd \in Nat \ {0}
                             /\ Faults \subseteq {"open", "write"}

Id     == 0..(MaxData - 1)
Offset == 1..MaxData
NoId   == -1
Header == 3     \* words before the first entry

VARIABLES
  mode,     \* the process: "up", "down", "hung" (open never returns), or
            \* "undef" (it went on after using freed memory)
  pc,       \* the next system call of the running operation, or "idle"
  then,     \* where the operation goes on after the index file is written
  cur,      \* the entry being added
  data,     \* the data file
  index,    \* the index file: whether the path exists, and its words
  entries,  \* IndexFile.entry_list
  last,     \* IndexFile.last_id
  fds,      \* descriptors open on index files, unlinked ones included
  intact,   \* history: the last rewriting of the index file was complete
  was       \* history: the entries when the operation began

vars == <<mode, pc, then, cur, data, index, entries, last, fds, intact, was>>

Entry  == [id : Id, off : Offset]
Record == [id : Id, val : Val \cup {Torn}]
NoFile == [there |-> FALSE, n |-> 0, last |-> NoId, list |-> <<>>]
EmptyFile == [there |-> TRUE, n |-> 0, last |-> NoId, list |-> <<>>]
Idle   == [id |-> NoId, val |-> Torn]

(* Every variable holds a value of its type. *)
TypeOK ==
  /\ mode \in {"up", "down", "hung", "undef"}
  /\ pc \in {"idle", "append", "value", "unlink", "create", "write", "wipe"}
  /\ then \in {"idle", "wipe"}
  /\ cur \in [id : Id \cup {NoId}, val : Val \cup {Torn}]
  /\ data \in Seq(Record) /\ Len(data) <= MaxData
  /\ index \in [there : BOOLEAN, n : Nat, last : Id \cup {NoId}, list : Seq(Entry)]
  /\ entries \in Seq(Entry)
  /\ last \in Id \cup {NoId}
  /\ fds \in 0..MaxFd
  /\ intact \in BOOLEAN
  /\ was \in [Id -> Val \cup {Torn}]

-----------------------------------------------------------------------------
(* Helpers *)

(* The number of words of a complete index file. *)
Words(list) == Header + 2 * Len(list)

(* The table the entry list es stands for: each id's value in the data file. *)
ValueAt(off) == IF off \in DOMAIN data THEN data[off].val ELSE Torn
TableOf(es) ==
  [i \in Id |-> IF \E k \in 1..Len(es) : es[k].id = i
                THEN ValueAt(es[CHOOSE k \in 1..Len(es) : es[k].id = i].off)
                ELSE Torn]

(* Variants: the offset of the last record instead of the end; positions
   counted from 0. *)
LastOffset == IF data = <<>> THEN 1 ELSE Len(data)
EndFromZero == Len(data)

(* data_file_get_offset: lseek to the end. *)
EndOffset == Len(data) + 1

(* A variant: last_id is computed from the number of entries. *)
LastCounted(id, es) == Len(es) - 1

(* index_file_delete_entry: when the highest id goes, last_id falls back to
   the id of the list's new last entry. *)
LastAfterDelete(id, es) ==
  IF id # last THEN last ELSE IF es = <<>> THEN NoId ELSE es[Len(es)].id

Goto(p) == pc' = p

Init ==
  /\ mode = "up" /\ pc = "idle" /\ then = "idle" /\ cur = Idle
  /\ data = <<>>
  /\ index = EmptyFile
  /\ entries = <<>> /\ last = NoId
  /\ fds = 1
  /\ intact = TRUE
  /\ was = [i \in Id |-> Torn]

-----------------------------------------------------------------------------
(* The operations begin: their effects in memory. *)

Begin == /\ mode = "up" /\ pc = "idle"
         /\ was' = TableOf(entries)
         /\ then' = "idle"

(* database_add_entry with the id of database_get_last_id, last_id + 1. *)
AddEntry(v) ==
  LET id == last + 1
  IN  /\ Begin
      /\ Len(data) < MaxData /\ id \in Id
      /\ cur' = [id |-> id, val |-> v]
      /\ entries' = Append(entries, [id |-> id, off |-> EndOffset])
      /\ last' = id
      /\ Goto("append")
      /\ UNCHANGED <<mode, data, index, fds, intact>>

(* database_update_entry: the id is in the list, its offset is set anew. *)
UpdateEntry(k, v) ==
  /\ Begin
  /\ Len(data) < MaxData
  /\ cur' = [id |-> entries[k].id, val |-> v]
  /\ entries' = [entries EXCEPT ![k].off = EndOffset]
  /\ Goto("append")
  /\ UNCHANGED <<mode, data, index, last, fds, intact>>

(* database_delete_entry: the record stays in the data file. *)
DeleteEntry(k) ==
  /\ Begin
  /\ entries' = RemoveAt(entries, k)
  /\ last' = LastAfterDelete(entries[k].id, entries')
  /\ Goto("unlink")
  /\ UNCHANGED <<mode, cur, data, index, fds, intact>>

(* A variant: the data file is emptied before the index file is. *)
DeleteAllDataFirst ==
  /\ mode = "up" /\ pc = "idle" /\ was' = TableOf(entries)
  /\ entries' = <<>>
  /\ last' = NoId
  /\ then' = "idle"
  /\ Goto("wipe")
  /\ UNCHANGED <<mode, cur, data, index, fds, intact>>

(* database_delete_all: the index file is emptied, then the data file, and the
   index file is written once more. *)
DeleteAll ==
  /\ mode = "up" /\ pc = "idle" /\ was' = TableOf(entries)
  /\ entries' = <<>>
  /\ last' = NoId
  /\ then' = "wipe"
  /\ Goto("unlink")
  /\ UNCHANGED <<mode, cur, data, index, fds, intact>>

-----------------------------------------------------------------------------
(* The system calls *)

Running(p) == mode = "up" /\ pc = p

(* data_file_write_entry: the id, then the value. *)
AppendId ==
  /\ Running("append")
  /\ data' = Append(data, [id |-> cur.id, val |-> Torn])
  /\ Goto("value")
  /\ UNCHANGED <<mode, then, cur, index, entries, last, fds, intact, was>>

WriteValue ==
  /\ Running("value")
  /\ data' = [data EXCEPT ![Len(data)].val = cur.val]
  /\ Goto("unlink")
  /\ UNCHANGED <<mode, then, cur, index, entries, last, fds, intact, was>>

(* index_file_update: unlink the path, *)
Unlink ==
  /\ Running("unlink") /\ index.there
  /\ index' = NoFile
  /\ intact' = FALSE
  /\ Goto("create")
  /\ UNCHANGED <<mode, then, cur, data, entries, last, fds, was>>

(* open it anew, leaving the unlinked file's descriptor open, *)
Create ==
  /\ Running("create") /\ fds < MaxFd
  /\ index' = [there |-> TRUE, n |-> 0, last |-> last, list |-> entries]
  /\ fds' = fds + 1
  /\ Goto("write")
  /\ UNCHANGED <<mode, then, cur, data, entries, last, intact, was>>

(* and write the words. *)
WriteWord ==
  /\ Running("write") /\ index.n < Words(index.list)
  /\ index' = [index EXCEPT !.n = @ + 1]
  /\ UNCHANGED <<mode, pc, then, cur, data, entries, last, fds, intact, was>>

(* index_file_update returns TRUE. *)
Updated ==
  /\ Running("write") /\ index.n = Words(index.list)
  /\ intact' = TRUE
  /\ Goto(then) /\ cur' = Idle
  /\ UNCHANGED <<mode, then, data, index, entries, last, fds, was>>

(* data_file_delete_all: the data file is unlinked and created empty. *)
Wipe ==
  /\ Running("wipe")
  /\ data' = <<>>
  /\ then' = "idle"
  /\ Goto("unlink")
  /\ UNCHANGED <<mode, cur, index, entries, last, fds, intact, was>>

-----------------------------------------------------------------------------
(* A call fails. *)

(* index_file_update or data_file_write_entry returned FALSE.  The error path
   of database_add_entry frees the entry point and only then takes it off the
   list, reading its id from the freed memory: malloc aborts the process, or
   the freed entry stays in the list.  Deleting goes on without a word. *)
ReturnFalse ==
  IF cur # Idle
  THEN /\ mode' \in {"down", "undef"}
       /\ UNCHANGED <<pc, then, cur, entries, last>>
  ELSE /\ Goto(then) /\ then' = "idle"
       /\ UNCHANGED <<mode, cur, entries, last>>

(* The index file of an earlier failure is not there to be unlinked. *)
UnlinkFails ==
  /\ Running("unlink") /\ ~index.there
  /\ intact' = FALSE
  /\ ReturnFalse
  /\ UNCHANGED <<data, index, fds, was>>

(* No descriptor is left: the index file has just been unlinked. *)
CreateFails ==
  /\ "open" \in Faults
  /\ Running("create") /\ fds = MaxFd
  /\ intact' = FALSE
  /\ ReturnFalse
  /\ UNCHANGED <<data, index, fds, was>>

(* The disk is full.  A failure in the header is reported; one in the entries
   is not: index_file_write_entry_point returns nothing, and the update counts
   as done.  The disk stays full: the words after it are not written either. *)
WriteWordFails ==
  /\ "write" \in Faults
  /\ Running("write") /\ index.n < Words(index.list)
  /\ intact' = FALSE
  /\ IF index.n < Header
     THEN ReturnFalse
     ELSE /\ Goto(then) /\ cur' = Idle
          /\ UNCHANGED <<mode, then, entries, last>>
  /\ UNCHANGED <<data, index, fds, was>>

AppendFails ==
  /\ "write" \in Faults
  /\ Running("append") \/ Running("value")
  /\ ReturnFalse
  /\ UNCHANGED <<data, index, fds, intact, was>>

-----------------------------------------------------------------------------
(* The process is killed, or calls database_close and ends.  In "undef" nothing
   is modelled but this. *)
Exit ==
  /\ mode \in {"up", "undef"}
  /\ mode' = "down"
  /\ UNCHANGED <<pc, then, cur, data, index, entries, last, fds, intact, was>>

(* index_file_open and index_file_load.  An absent or empty file is an empty
   table.  A file with fewer words than its header announces sends
   utils_read_n_byte into a loop: read() returns 0 for ever. *)
Open ==
  /\ mode = "down"
  /\ pc' = "idle" /\ then' = "idle" /\ cur' = Idle /\ fds' = 1 /\ intact' = TRUE
  /\ was' = [i \in Id |-> Torn]
  /\ \/ /\ index.n = 0
        /\ mode' = "up"
        /\ entries' = <<>> /\ last' = NoId
        /\ index' = EmptyFile
     \/ /\ index.n > 0 /\ index.n < Words(index.list)
        /\ mode' = "hung"
        /\ entries' = <<>> /\ last' = NoId
        /\ UNCHANGED index
     \/ /\ index.n = Words(index.list)
        /\ mode' = "up"
        /\ entries' = index.list /\ last' = index.last
        /\ UNCHANGED index
  /\ UNCHANGED data

Next ==
  \/ \E v \in Val : AddEntry(v)
  \/ \E k \in 1..Len(entries), v \in Val : UpdateEntry(k, v)
  \/ \E k \in 1..Len(entries) : DeleteEntry(k)
  \/ DeleteAll
  \/ AppendId \/ WriteValue
  \/ Unlink \/ Create \/ WriteWord \/ Updated \/ Wipe
  \/ UnlinkFails \/ CreateFails \/ WriteWordFails \/ AppendFails
  \/ Exit \/ Open

Spec == Init /\ [][Next]_vars

-----------------------------------------------------------------------------
(* Properties *)

(* The record of entry e is in the data file, is e's own and is whole. *)
Stored(e) == /\ e.off \in DOMAIN data
             /\ data[e.off].id = e.id
             /\ data[e.off].val # Torn

(* Whatever an index file lists, however little of it was written, and
   whenever the process ends: the offsets name whole records of the ids they
   are listed with.  In memory this holds but for the entry being added. *)
DurableRefs ==
  /\ \A k \in 1..Len(index.list) : Stored(index.list[k])
  /\ \A k \in 1..Len(entries) :
        \/ Stored(entries[k])
        \/ pc \in {"append", "value"} /\ entries[k].id = cur.id

Ascending(es) == \A j, k \in 1..Len(es) : j < k => es[j].id < es[k].id

(* Ids are unique and ascending in memory and in the index file, though ids are
   given out again after the highest one was deleted, and last_id is the id of
   the last entry: the next id given out is always a free one. *)
IdsAscending ==
  /\ Ascending(entries)
  /\ Ascending(index.list)
  /\ last = IF entries = <<>> THEN NoId ELSE entries[Len(entries)].id

(* The table that the next open will find. *)
Recovered == IF index.n = 0 THEN [i \in Id |-> Torn] ELSE TableOf(index.list)
Truncated == index.n > 0 /\ index.n < Words(index.list)

S == INSTANCE Store WITH
       NoVal <- Torn,
       state <- IF mode = "hung" \/ (mode = "down" /\ Truncated) THEN "stuck"
                ELSE IF mode = "down" THEN "closed"
                ELSE IF mode = "undef" \/ pc # "idle" THEN "busy"
                ELSE IF intact THEN "open" ELSE "broken",
       table <- IF mode = "hung" \/ (mode = "down" /\ Truncated)
                THEN [i \in Id |-> Torn]
                ELSE IF mode = "down" THEN Recovered
                ELSE IF mode = "undef" \/ pc # "idle" THEN was
                ELSE TableOf(entries)

(* The files implement Store: wherever the process ends and whichever call
   fails, the next open finds a table that Store allows or does not return. *)
StoreSpec == S!Spec
=============================================================================
