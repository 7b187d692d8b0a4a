---------------------------- MODULE MCWithdrawPlan ----------------------------
(***************************************************************************)
(* TLC instance of WithdrawPlan.                                           *)
(***************************************************************************)
EXTENDS WithdrawPlan

CONSTANTS MaxLen, MaxBalance, MaxAmount

\* Every list of at most MaxLen records, a negative balance among them.
MCBalanceLists == UNION {[1..n -> -1..MaxBalance] : n \in 0..MaxLen}
MCAmounts == 1..MaxAmount
================================================================================
