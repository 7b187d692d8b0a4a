---------------------------- MODULE MCTransferFlow ----------------------------
(***************************************************************************)
(* TLC instances of TransferFlow: what goes on behind the form in them.    *)
(***************************************************************************)
EXTENDS TransferFlow

ListOutsideDialog == {"balances", "list"}
ListAnyTime == {"list", "listInDialog"}
================================================================================
