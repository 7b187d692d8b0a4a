------------------------------- MODULE Quotation -------------------------------
(***************************************************************************)
(* Prices and exchange rates (thirddatamgr.cpp) and the pages that show    *)
(* them in the currency chosen on the home page, CNY or USD.  Prices are   *)
(* asked for at start, by a timer every half hour after login and one      *)
(* second after an error; the rates at start and after an error only.      *)
(*                                                                         *)
(* One pointer stands for the request of prices, and the timer does not    *)
(* look whether the last one is over.  finished() of any request reads and *)
(* deletes the reply the pointer has.  A price is computed when a page is  *)
(* refreshed, with the rate there is then, or 1; the rate of USD is 1.     *)
(* error() and the finished() that follows it are one step.                *)
(*                                                                         *)
(* An operator called XMut is a slip a programmer could make in X.  No     *)
(* specification uses it; it replaces X to show that a property can fail.  *)
(***************************************************************************)
EXTENDS Naturals, FiniteSets

CONSTANTS
    Reqs,        \* requests of prices; a bound on those out or to come at once
    None         \* nullptr

ASSUME ReqAssumption == None \notin Reqs /\ IsFiniteSet(Reqs) /\ Reqs # {}

VARIABLES
    quoteReply,  \* netReply_quotation
    quoting,     \* requests that have not ended and whose reply is not deleted
    quoteShots,  \* single shots after an error that have not fired
    halfHourly,  \* timerForQuotation runs
    prices,      \* there are prices in quotationInfoMap
    firstReq,    \* firstReqQuotation
    rate,        \* "asked", "again" before the single shot after an error,
                 \* "known" if CNY is in exchangeRateMap, or "lost": the answer
                 \* was no JSON or without CNY, nobody asks again
    currencyName,  \* currentCurrencyName, "CNY" or "USD"
    view,        \* what is shown: "none" before login, "home" for the home and
                 \* the account page, "quotations", "other"
    shown        \* the prices on that page: "none", "USD" at rate 1, "CNY" at the
                 \* rate of CNY; the sign with them is that of currencyName

quoteSide == <<quoteReply, quoting, quoteShots, prices, firstReq>>
quoteVars == <<quoteSide, halfHourly, rate, currencyName, view, shown>>

\* getAssetPrice, getCurrentExchangeRate, QuotationListModel::setQuotationInfos
PriceNow(known, name) ==
    IF ~known THEN "none" ELSE IF rate = "known" THEN name ELSE "USD"

\* A page is made, or made anew.
ShowView(v) ==
    /\ view' = v
    /\ shown' = IF v \in {"home", "quotations"} THEN PriceNow(prices, currencyName) ELSE "none"

QuoteInit ==
    /\ quoteReply = (CHOOSE r \in Reqs : TRUE) /\ quoting = {quoteReply} /\ quoteShots = 0
    /\ halfHourly = FALSE /\ prices = FALSE /\ firstReq = TRUE
    /\ rate = "asked" /\ currencyName = "CNY" /\ view = "none" /\ shown = "none"

\* requestQuotationInfo; requests are alike, so one that is not out will do.
NewRequest == CHOOSE r \in Reqs \ quoting : TRUE
RequestQuotation ==
    /\ Reqs \ quoting # {}
    /\ quoteReply' = NewRequest /\ quoting' = quoting \cup {NewRequest}

\* Frame::startTimerForQuotation, showHomePage
QuoteLogin ==
    /\ halfHourly' = TRUE /\ ShowView("home")
    /\ UNCHANGED <<quoteSide, rate, currencyName>>

\* Frame::autoRefreshQuotation
HalfHour ==
    /\ halfHourly /\ quoteShots + Cardinality(quoting) < Cardinality(Reqs)
    /\ RequestQuotation
    /\ UNCHANGED <<quoteShots, halfHourly, prices, firstReq, rate, currencyName, view, shown>>

QuoteShot ==
    /\ quoteShots > 0 /\ quoteShots' = quoteShots - 1
    /\ RequestQuotation
    /\ UNCHANGED <<halfHourly, prices, firstReq, rate, currencyName, view, shown>>

--------------------------------------------------------------------------------
\* Frame::reqQuotationFinished
PricesChanged(first) ==
    IF view = "quotations" \/ (view = "home" /\ first)
    THEN shown' = PriceNow(prices', currencyName) ELSE UNCHANGED shown

Drop(r) == quoteReply' = None /\ quoting' = quoting \ {r, quoteReply}

\* requestQuotationFinished of request r with a list of prices, or an object,
\* which is read as an empty list.  If the pointer has another request there
\* is nothing to read yet; if it is null nothing is done.
QuoteAnswered(r, known) ==
    /\ r \in quoting /\ quoteReply = r
    /\ Drop(r)
    /\ prices' = known /\ firstReq' = FALSE
    /\ PricesChanged(firstReq)
    /\ UNCHANGED <<quoteShots, halfHourly, rate, currencyName, view>>

QuoteUnread(r) ==
    /\ r \in quoting
    /\ Drop(r)
    /\ UNCHANGED <<quoteShots, halfHourly, prices, firstReq, rate, currencyName, view, shown>>

\* requestQuotationError.  A null pointer gets the call too; deleteLater of
\* null is undefined, and goes on with a warning.
QuoteError(r) ==
    /\ r \in quoting
    /\ Drop(r)
    /\ quoteShots' = quoteShots + 1
    /\ UNCHANGED <<halfHourly, prices, firstReq, rate, currencyName, view, shown>>

\* requestExchageRateFinished
RateAnswered ==
    /\ rate = "asked" /\ rate' \in {"known", "lost"}
    /\ UNCHANGED <<quoteSide, halfHourly, currencyName, view, shown>>

\* requestExchageRateError, and the single shot for requestExchageRateInfo.
RateErrorMut ==             \* nobody asks again
    /\ rate = "asked" /\ rate' = "none"
    /\ UNCHANGED <<quoteSide, halfHourly, currencyName, view, shown>>
RateError ==
    /\ rate = "asked" /\ rate' = "again"
    /\ UNCHANGED <<quoteSide, halfHourly, currencyName, view, shown>>
RateShot ==
    /\ rate = "again" /\ rate' = "asked"
    /\ UNCHANGED <<quoteSide, halfHourly, currencyName, view, shown>>

\* HomePage::refreshPage, AccountPage::refreshPage, by updateAccountBalance.
BalancesRefreshed ==
    /\ view = "home" /\ ShowView(view)
    /\ UNCHANGED <<quoteSide, halfHourly, rate, currencyName>>

\* HomePage::on_currencyTypeBox_currentIndexChanged
ChooseCurrency(name) ==
    /\ view = "home" /\ name # currencyName
    /\ currencyName' = name /\ shown' = PriceNow(prices, name)
    /\ UNCHANGED <<quoteSide, halfHourly, rate, view>>

QuoteNext ==
    \/ HalfHour \/ QuoteShot
    \/ \E r \in Reqs : (\E known \in BOOLEAN : QuoteAnswered(r, known))
                          \/ QuoteUnread(r) \/ QuoteError(r)
    \/ RateAnswered \/ RateError \/ RateShot \/ BalancesRefreshed

--------------------------------------------------------------------------------
QuoteTypeOK ==
    /\ quoteReply \in Reqs \cup {None} /\ quoting \subseteq Reqs
    /\ quoteShots \in Nat /\ quoteShots + Cardinality(quoting) <= Cardinality(Reqs)
    /\ halfHourly \in BOOLEAN /\ prices \in BOOLEAN /\ firstReq \in BOOLEAN
    /\ rate \in {"asked", "again", "known", "lost"}
    /\ view \in {"none", "home", "quotations", "other"}
    /\ currencyName \in {"CNY", "USD"} /\ shown \in {"none", "CNY", "USD"}

(***************************************************************************)
(* A price in CNY is never shown with the sign of USD, nor before the rate *)
(* of CNY is known, and no page but two shows prices.                      *)
(***************************************************************************)
SignFits ==
    /\ shown = "CNY" => currencyName = "CNY" /\ rate = "known"
    /\ shown # "none" => view \in {"home", "quotations"}

(***************************************************************************)
(* If the requests do not overlap for ever, a page of prices shows them at *)
(* last, and again and again, in the currency of the sign they are shown   *)
(* with: one that was refreshed before the rate came is refreshed after    *)
(* it.  Unless the one answer for the rates was of no use.                 *)
(***************************************************************************)
PricesArrive ==
    <>[](Cardinality(quoting) <= 1) =>
        []<>(view \in {"none", "other"} \/ shown = currencyName \/ rate = "lost")
================================================================================
