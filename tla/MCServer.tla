------------------------------ MODULE MCServer ------------------------------
(***************************************************************************)
(* Instances of Server for TLC: which users are registered at the start.   *)
(***************************************************************************)
EXTENDS Server

CONSTANTS u1, u2

NoAccounts == <<>>
OneAccount == <<u1>>
TwoAccounts == <<u1, u2>>

(* A bound of the states explored: what many messages do is looked at with *)
(* one live session, and what many or freed sessions do with one message   *)
(* and without the last descriptor.                                        *)
MessagesOrSessions ==
  \/ Len(online) <= 1 /\ \A i \in 1..Len(online) : online[i].live
  \/ Len(mesgs) <= 1 /\ owner[MaxFd] = NoConn
=============================================================================
