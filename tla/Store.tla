------------------------------- MODULE Store --------------------------------
(***************************************************************************)
(* What a database of Messenger_v2 promises its caller: a table from ids   *)
(* to values that one operation at a time changes, and what is left of it  *)
(* when the process ends.  Between operations the table survives.  If the  *)
(* process ends inside an operation, the next open finds the table before  *)
(* it, the table after it, an empty table, or never returns.  It finds no  *)
(* other table: no value under a wrong id, none that was never stored, and *)
(* no selection of the entries.                                            *)
(***************************************************************************)
CONSTANTS
  Id, Val,
  NoVal   \* not in Val

VARIABLES
  state,  \* "open", "busy" (an operation runs), "broken" (files out of date),
          \* "closed" or "stuck" (open does not return)
  table

vars == <<state, table>>

Table == [Id -> Val \cup {NoVal}]
Empty == [i \in Id |-> NoVal]

TypeOK == state \in {"open", "busy", "broken", "closed", "stuck"} /\ table \in Table

Init == state = "open" /\ table = Empty

Put(t, i, v) == [t EXCEPT ![i] = v]

(* The tables that one operation can make of t. *)
After(t) == {Put(t, i, v) : i \in Id, v \in Val \cup {NoVal}} \cup {Empty}

Begin == state \in {"open", "broken"} /\ state' = "busy" /\ UNCHANGED table

Finish == state = "busy" /\ state' = "open" /\ table' \in After(table)

(* The operation could not bring the files up to date: from then on only the
   process's memory has the table. *)
Fail == state = "busy" /\ state' = "broken" /\ table' \in After(table) \cup {table}

(* The process ends. *)
Exit ==
  \/ state = "open" /\ state' = "closed" /\ UNCHANGED table
  \/ state = "busy" /\ state' = "closed" /\ table' \in After(table) \cup {table}
  \/ state = "broken" /\ state' = "closed" /\ table' = Empty
  \/ state \in {"busy", "broken"} /\ state' = "stuck" /\ table' = Empty

Open == state = "closed" /\ state' = "open" /\ UNCHANGED table

Next == Begin \/ Finish \/ Fail \/ Exit \/ Open

Spec == Init /\ [][Next]_vars
=============================================================================
