------------------------------ MODULE MCClient ------------------------------
(***************************************************************************)
(* Lines for Client: commands that are whole, that lack a field, that      *)
(* other lines may complete, and a line without a code.                    *)
(***************************************************************************)
EXTENDS Client

Line(op, words, len) == [op |-> op, words |-> words, len |-> len]

SomeLines == {Line("all", 0, 10), Line("login", 2, 14), Line("send", 1, 13), Line("none", 1, 3)}
=============================================================================
