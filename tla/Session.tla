-------------------------------- MODULE Session --------------------------------
(***************************************************************************)
(* What runs from the login on behind every page (frame.cpp): the lock and *)
(* its timer, the reports of use, the prices and the rates; the last two   *)
(* are asked for from the start of the program.                            *)
(*                                                                         *)
(* The login starts all of them.  Saved settings and a reported transfer   *)
(* make the current page anew, which recomputes its prices, and which,     *)
(* after a report, covers the lock page if there is one.                   *)
(***************************************************************************)
EXTENDS LockTimer, TrackQueue, Quotation

vars == <<lockVars, trackVars, quoteVars>>

Init == LockInit /\ TrackInit /\ QuoteInit

\* Frame::alreadyLogin
Login == LockLogin /\ TrackPush /\ QuoteLogin

\* The user goes to another page by the function bar; the lock page and a
\* dialog keep him from it.
ShowPage ==
    /\ loggedIn /\ ~lockPage /\ dialog = "none"
    /\ \E v \in {"home", "quotations", "other"} : ShowView(v)
    /\ UNCHANGED <<quoteSide, halfHourly, rate, currencyName>>

\* The box on the home page.
Choose ==
    /\ ~lockPage /\ dialog = "none"
    /\ \E name \in {"CNY", "USD"} : ChooseCurrency(name)

\* Frame::settingSaved and the page it makes anew.
Save ==
    /\ \E m \in Minutes, b \in BOOLEAN : SaveSettings(m, b)
    /\ ShowView(view)
    /\ UNCHANGED <<trackVars, quoteSide, halfHourly, rate, currencyName>>

\* A transfer is reported on its own page.
ReportOpens == view = "other" /\ Report

LockStep ==
    \/ Input \/ Minute \/ AutoLock \/ OpenSettings \/ ReportOpens
    \/ CloseDialog \/ CloseReport \/ Unlock

\* TrackMgr::heartbeat
Heartbeat == loggedIn /\ TrackPush

Next ==
    \/ Login \/ Save
    \/ LockStep /\ UNCHANGED <<trackVars, quoteVars>>
    \/ (Heartbeat \/ TrackNext) /\ UNCHANGED <<lockVars, quoteVars>>
    \/ (ShowPage \/ Choose \/ QuoteNext) /\ UNCHANGED <<lockVars, trackVars>>

OfTrack(A) == A /\ UNCHANGED <<lockVars, quoteVars>>
OfQuotes(A) == A /\ UNCHANGED <<lockVars, trackVars>>

(***************************************************************************)
(* Timers and single shots fire.  A server that is asked again and again   *)
(* gets the request and answers it at last.  The balances are refreshed    *)
(* every few seconds, prices change every half hour, so a refresh falls    *)
(* between two answers.                                                    *)
(***************************************************************************)
Spec ==
    /\ Init /\ [][Next]_vars
    /\ WF_vars(OfTrack(TrackShot)) /\ SF_vars(OfTrack(TrackFinished))
    /\ WF_vars(OfQuotes(HalfHour)) /\ WF_vars(OfQuotes(QuoteShot))
    /\ SF_vars(OfQuotes(\E r \in Reqs : QuoteAnswered(r, TRUE)))
    /\ WF_vars(OfQuotes(RateShot)) /\ SF_vars(OfQuotes(RateAnswered))
    /\ SF_vars(OfQuotes(BalancesRefreshed /\ prices))

--------------------------------------------------------------------------------
\* Every variable of the three has its type.
SessionTypeOK == LockTypeOK /\ TrackTypeOK /\ QuoteTypeOK

(***************************************************************************)
(* The reports of use arrive in order, each of them at last, whatever      *)
(* requests fail, and however often a message is sent again.               *)
(***************************************************************************)
ImplementsOutbox == Reports!Spec
================================================================================
