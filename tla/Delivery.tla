------------------------------ MODULE Delivery ------------------------------
(***************************************************************************)
(* What the server promises of a delayed message: it is accepted once,     *)
(* stays pending, and is then handed out once, in one go, to some          *)
(* connections, to none of them twice and never back to the connection a   *)
(* broadcast came from.  Everything pending is lost when the server        *)
(* process ends; nothing that was handed out is taken back.                *)
(***************************************************************************)
EXTENDS Naturals

CONSTANTS
  Mesg, Conn,
  Nobody  \* not in Conn

VARIABLES
  status,  \* "unsent", "pending" or "done"
  barred,  \* the connection a message must not go to, or Nobody
  copies   \* copies[m][c]: how often connection c was handed message m

vars == <<status, barred, copies>>

TypeOK ==
  /\ status \in [Mesg -> {"unsent", "pending", "done"}]
  /\ barred \in [Mesg -> Conn \cup {Nobody}]
  /\ copies \in [Mesg -> [Conn -> {0, 1}]]

Init ==
  /\ status = [m \in Mesg |-> "unsent"]
  /\ barred = [m \in Mesg |-> Nobody]
  /\ copies = [m \in Mesg |-> [c \in Conn |-> 0]]

(* Message m is accepted. *)
Accept(m, b) ==
  /\ status[m] = "unsent"
  /\ status' = [status EXCEPT ![m] = "pending"]
  /\ barred' = [barred EXCEPT ![m] = b]
  /\ UNCHANGED copies

(* Handing message m out to the connections in S. *)
HandOut(m, S) ==
  /\ status[m] = "pending"
  /\ barred[m] \notin S
  /\ copies' = [copies EXCEPT ![m] = [c \in Conn |-> IF c \in S THEN 1 ELSE 0]]
  /\ UNCHANGED barred

Deliver(m, S) ==
  /\ HandOut(m, S)
  /\ status' = [status EXCEPT ![m] = "done"]

LoseAll ==
  status' = [m \in Mesg |-> IF status[m] = "pending" THEN "done" ELSE status[m]]

(* The server process ends, perhaps while it hands out a message. *)
End ==
  /\ LoseAll
  /\ \/ UNCHANGED <<barred, copies>>
     \/ \E m \in Mesg, S \in SUBSET Conn : HandOut(m, S)

Next ==
  \/ \E m \in Mesg, b \in Conn \cup {Nobody} : Accept(m, b)
  \/ \E m \in Mesg, S \in SUBSET Conn : Deliver(m, S)
  \/ End

Spec == Init /\ [][Next]_vars
=============================================================================
