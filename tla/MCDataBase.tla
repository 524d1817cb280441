----------------------------- MODULE MCDataBase -----------------------------
(* Instances of DataBase for TLC. *)
EXTENDS DataBase

CONSTANTS v1, v2

TwoValues == {v1, v2}
=============================================================================
