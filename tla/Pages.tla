-------------------------------- MODULE Pages --------------------------------
(***************************************************************************)
(* The two pages of the frame that ask a server while they are shown, the  *)
(* page of transactions and the page of delegates, and what opens and      *)
(* closes them (frame.cpp, functionbar.cpp).                               *)
(*                                                                         *)
(* One page is shown at a time.  While the waiting page of the delegates   *)
(* covers the frame no button is reached, those of other pages neither;    *)
(* the requests, the timer and the list of currencies go on.  Settings     *)
(* that are saved show the current page anew, as its button would.         *)
(***************************************************************************)
EXTENDS BillPage, DelegatesPage

vars == <<billVars, delVars>>

Init == BillInit /\ DelInit

\* Frame::showBillPage, showDelegatesPage: closeCurrentPage, then the new one.
ShowBillPage ==
    /\ ~waiting
    /\ \E a \in Accounts : BillShow(a)
    /\ DelClose
ShowDelegatesPage ==
    /\ DelShow /\ BillClose
ShowOtherPage ==
    /\ ~waiting
    /\ billOpen \/ delOpen
    /\ BillClose /\ DelClose

\* The program ends and is started again: the votes and the list of
\* currencies, whose first is ACT, are loaded.
Restart ==
    /\ billOpen' = FALSE /\ account' \in Accounts /\ currency' = ACT /\ box' = ACT
    /\ page' = 1 /\ pager' = TRUE /\ lastPage' = 0
    /\ vector' = NoRows /\ table' = NoRows /\ asked' = None
    /\ DelRestart

BillStep == BillNext /\ UNCHANGED delVars
DelStep == DelNext /\ UNCHANGED billVars

Next ==
    \/ ShowBillPage \/ ShowDelegatesPage \/ ShowOtherPage \/ Restart
    \/ BillStep \/ DelStep

(***************************************************************************)
(* The refresh timer goes on, as it does until the balance poller drops a  *)
(* name (BalanceQuery); a request ends, if only by the error of a          *)
(* connection that is gone; and a server that is asked again and again     *)
(* answers at last.                                                        *)
(***************************************************************************)
Spec ==
    /\ Init /\ [][Next]_vars
    /\ WF_vars(AutoRefresh /\ UNCHANGED delVars)
    /\ WF_vars((Answered \/ Refused \/ Failed) /\ UNCHANGED delVars)
    /\ SF_vars(Answered /\ UNCHANGED delVars)
    /\ WF_vars(DelAnswer /\ UNCHANGED billVars)

--------------------------------------------------------------------------------
(***************************************************************************)
(* One page is shown at a time, and the frame is covered only while it is  *)
(* the page of delegates.                                                  *)
(***************************************************************************)
OnePage ==
    /\ ~(billOpen /\ delOpen)
    /\ waiting => delOpen

\* Every variable of the two pages has its type.
PagesTypeOK == BillTypeOK /\ DelTypeOK
================================================================================
