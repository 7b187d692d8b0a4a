------------------------------- MODULE MCPages -------------------------------
(***************************************************************************)
(* The instance of Pages that TLC checks: two accounts, ACT and a token,   *)
(* two pages; two delegates and pages of one row.                          *)
(***************************************************************************)
EXTENDS Pages

Ids == {1, 2}
================================================================================
