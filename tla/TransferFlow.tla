----------------------------- MODULE TransferFlow -----------------------------
(***************************************************************************)
(* Sending money: TransferPage's form and its confirmation dialog          *)
(* (transferpage.cpp, transferconfirmdialog.cpp), the two requests of      *)
(* DataMgr behind it, one for the balances of the sender's address and one *)
(* that broadcasts the signed transaction (datamgr.cpp), and what goes on  *)
(* meanwhile on the same event loop: balances are polled, and a new list   *)
(* of tokens arrives and makes ACT the current currency (frame.cpp).       *)
(*                                                                         *)
(* A dialog is modal and WaitingPage covers the window, so that the user   *)
(* does nothing else under them; timers and replies go on.  The page keeps *)
(* the currencies it was built with, the current currency is DataMgr's.    *)
(*                                                                         *)
(* An operator called XMut is a slip a programmer could make in X.  No     *)
(* specification uses it; it replaces X to show that a property can fail.  *)
(***************************************************************************)
EXTENDS Integers, FiniteSets

CONSTANTS
    Names,          \* accounts
    Tokens,         \* tokens, each with its contract
    ACT,            \* the chain's own currency, asset 0
    Unlisted,       \* the CurrencyInfo getCurrencyById returns for an id that
                    \* is in no list: no name, no contract, any id
    Addrs,          \* receivers that pass walletCheckAddress
    NoAddr,         \* an empty or an invalid receiver
    MaxAmount,      \* bound on the amounts typed
    MaxBalance,     \* bound on the balances
    Fee, TokenFee,  \* ACT wanted of a sender of ACT and of a token
    NoOrder,        \* nothing is offered or in flight
    Background      \* what happens while the form is filled in: "balances",
                    \* "list" and, while the dialog is open, "listInDialog"

ASSUME CurrencyAssumption == ACT \notin Tokens /\ Unlisted \notin Tokens \cup {ACT}
ASSUME AddrAssumption == NoAddr \notin Addrs
ASSUME FeeAssumption ==
    MaxAmount \in Nat /\ MaxBalance \in Nat /\ Fee \in Nat /\ TokenFee \in Nat

Listed == Tokens \cup {ACT}
Currencies == Listed \cup {Unlisted}
Orders == [to : Addrs, amount : 1..MaxAmount, cur : Currencies]
ASSUME OrderAssumption == NoOrder \notin Orders

VARIABLES
    tokens,      \* DataMgr::_currency_list without ACT
    current,     \* DataMgr::_current_currency
    balances,    \* the balances of _account_info_map
    items,       \* the entries of the page's assetComboBox
    combo,       \* the entry chosen
    account,     \* accountName
    to, amount,  \* the input fields
    sendEnabled, \* sendBtn
    checked,     \* auxiliary: since checkAmountValid last decided about sendBtn no
                 \* balance fell and the current currency is the same
    dialog,      \* "none", "confirm", or the outcome: "submitted", "error"
    shown,       \* what the confirmation dialog showed: an order or NoOrder
    toAddressText, amountText,  \* what was read from the fields when sending
    waitingPage, \* it is on screen
    getReply,    \* getAddressBalancesReply is set
    castReply,   \* broadcastReply is set
    posted,      \* the transaction being broadcast, or NoOrder
    stray,       \* a finished() that follows an error(): "get", "cast" or "none"
    swallowed,   \* auxiliary: an answer was dropped without a signal
    reports      \* auxiliary: outcomes reported of the latest broadcast

inputVars == <<items, combo, account, to, amount, sendEnabled>>
formVars == <<inputVars, checked>>
dataVars == <<tokens, current, balances>>
textVars == <<toAddressText, amountText>>
netVars  == <<getReply, castReply, posted, stray, swallowed, reports>>
dlgVars  == <<dialog, shown, waitingPage>>
vars     == <<formVars, dataVars, textVars, netVars, dlgVars>>

--------------------------------------------------------------------------------
\* CurrencyInfo::isAsset: the contract does not begin with CON.  Its number,
\* assetId, is that of ACT then, whatever the name.
IsAsset(c) == c \notin Tokens

\* getBalance of a name the map has no balance for is 0.
Balance(n, c) == IF c \in Listed THEN balances[n][c] ELSE 0

\* TransferPage::checkAmountValid decides about sendBtn.
AmountValid(n, m, c) ==
    /\ c = ACT => m + Fee <= Balance(n, ACT)
    /\ m <= Balance(n, c)

\* The constructor, with a form that is empty.
FreshPageMut(n) ==          \* the current currency is taken to be in the list
    /\ items' = tokens \cup {ACT}
    /\ combo' = current
    /\ account' = n /\ to' = NoAddr /\ amount' = 0
    /\ sendEnabled' = AmountValid(n, 0, current) /\ checked' = TRUE
FreshPage(n) ==
    /\ items' = tokens \cup {ACT}
    /\ combo' = IF current \in items' THEN current ELSE ACT
    /\ account' = n /\ to' = NoAddr /\ amount' = 0
    /\ sendEnabled' = AmountValid(n, 0, current) /\ checked' = TRUE

Init ==
    /\ tokens \in SUBSET Tokens /\ current = ACT
    /\ balances \in [Names -> [Listed -> 0..MaxBalance]]
    /\ items = tokens \cup {ACT} /\ combo = ACT
    /\ account \in Names /\ to = NoAddr /\ amount = 0
    /\ sendEnabled = AmountValid(account, 0, ACT) /\ checked = TRUE
    /\ dialog = "none" /\ shown = NoOrder /\ waitingPage = FALSE
    /\ toAddressText = NoAddr /\ amountText = 0
    /\ getReply = FALSE /\ castReply = FALSE /\ posted = NoOrder
    /\ stray = "none" /\ swallowed = FALSE /\ reports = 0

--------------------------------------------------------------------------------
(***************************************************************************)
(* The form.  finished() follows error() before the user can act again.    *)
(***************************************************************************)
UserFree == dialog = "none" /\ ~waitingPage /\ stray = "none"

EditTo(a) ==
    /\ UserFree /\ to' = a
    /\ UNCHANGED <<items, combo, account, amount, sendEnabled, checked, dataVars, textVars, netVars, dlgVars>>

EditAmount(m) ==
    /\ UserFree /\ amount' = m
    /\ sendEnabled' = AmountValid(account, m, current) /\ checked' = TRUE
    /\ UNCHANGED <<items, combo, account, to, dataVars, textVars, netVars, dlgVars>>

\* on_accountComboBox_currentIndexChanged
ChooseAccountMut(n) ==      \* the amount is not checked again
    /\ UserFree /\ account' = n
    /\ UNCHANGED <<items, combo, to, amount, sendEnabled, checked, dataVars, textVars, netVars, dlgVars>>
ChooseAccount(n) ==
    /\ UserFree /\ account' = n
    /\ sendEnabled' = AmountValid(n, amount, current) /\ checked' = TRUE
    /\ UNCHANGED <<items, combo, to, amount, dataVars, textVars, netVars, dlgVars>>

\* getCurrencyById looks in DataMgr's list, which may not be the page's.
CurrencyById(c) == IF c \in tokens \cup {ACT} THEN c ELSE Unlisted

\* on_assetComboBox_currentIndexChanged.  The id of Unlisted is not
\* initialised and may equal any other.
ChooseAssetMut(c) ==        \* the amount is not checked again
    /\ UserFree /\ c \in items \ {combo}
    /\ combo' = c
    /\ current' = CurrencyById(c)
    /\ checked' = TRUE
    /\ UNCHANGED <<items, account, to, amount, sendEnabled, tokens, balances, textVars, netVars, dlgVars>>
ChooseAsset(c) ==
    /\ UserFree /\ c \in items \ {combo}
    /\ combo' = c
    /\ \/ /\ current' = CurrencyById(c)
          /\ sendEnabled' = AmountValid(account, amount, current') /\ checked' = TRUE
       \/ /\ CurrencyById(c) = current \/ Unlisted \in {CurrencyById(c), current}
          /\ UNCHANGED <<current, sendEnabled, checked>>
    /\ UNCHANGED <<items, account, to, amount, tokens, balances, textVars, netVars, dlgVars>>

\* Frame::showTransferPage from the function bar.
ShowTransferPage(n) ==
    /\ UserFree /\ FreshPage(n)
    /\ UNCHANGED <<dataVars, textVars, netVars, dlgVars>>

\* on_sendBtn_clicked and walletCheckAddress up to the dialog.  An empty field
\* or a wrong address changes nothing; with an amount of zero, or less ACT than
\* the fee, the page has read its fields and shows a tip.
CanOffer ==
    /\ amount # 0
    /\ Balance(account, ACT) >= IF IsAsset(current) THEN Fee ELSE TokenFee

Send ==
    /\ UserFree /\ sendEnabled /\ to # NoAddr
    /\ toAddressText' = to /\ amountText' = amount
    /\ IF CanOffer
       THEN dialog' = "confirm" /\ shown' = [to |-> to, amount |-> amount, cur |-> current]
       ELSE UNCHANGED <<dialog, shown>>
    /\ UNCHANGED <<formVars, dataVars, netVars, waitingPage>>

--------------------------------------------------------------------------------
(***************************************************************************)
(* The dialog, and what walletCheckAddress does when it returns.           *)
(***************************************************************************)
Cancel ==
    /\ dialog = "confirm"
    /\ dialog' = "none" /\ shown' = NoOrder
    /\ UNCHANGED <<formVars, dataVars, textVars, netVars, waitingPage>>

\* sign_broadcast and DataMgr::broadcast of a transfer of currency c.
Broadcast(c) ==
    /\ castReply' = TRUE
    /\ posted' = [to |-> toAddressText, amount |-> amountText, cur |-> c]
    /\ reports' = 0

\* DataMgr::tokenTransferTo and callContract find the contract by the name of
\* the current currency.
TokenTransferTo == Broadcast(current)

OkMut ==                    \* only ACT is waited for
    /\ dialog = "confirm"
    /\ dialog' = "none" /\ waitingPage' = IsAsset(current)
    /\ IF IsAsset(current)
       THEN getReply' = TRUE /\ UNCHANGED <<castReply, posted, reports>>
       ELSE TokenTransferTo /\ UNCHANGED getReply
    /\ UNCHANGED <<formVars, dataVars, textVars, stray, swallowed, shown>>
\* The current currency is read again.  ACT waits for the balances; a token
\* is sent by a call of its contract at once.
Ok ==
    /\ dialog = "confirm"
    /\ dialog' = "none" /\ waitingPage' = TRUE
    /\ IF IsAsset(current)
       THEN getReply' = TRUE /\ UNCHANGED <<castReply, posted, reports>>
       ELSE TokenTransferTo /\ UNCHANGED getReply
    /\ UNCHANGED <<formVars, dataVars, textVars, stray, swallowed, shown>>

--------------------------------------------------------------------------------
(***************************************************************************)
(* The balances of the sender's address.                                   *)
(***************************************************************************)
\* onGetAddressBalancesFinished with a document, and walletTransferToAddressWithId.
BalancesOk ==
    /\ getReply /\ stray = "none"
    /\ getReply' = FALSE
    /\ Broadcast(ACT)
    /\ UNCHANGED <<formVars, dataVars, textVars, stray, swallowed, dlgVars>>

\* The same with an empty or malformed body: no signal, nothing happens.
BalancesUnparsable ==
    /\ getReply /\ stray = "none"
    /\ getReply' = FALSE /\ swallowed' = TRUE /\ shown' = NoOrder
    /\ UNCHANGED <<formVars, dataVars, textVars, castReply, posted, stray, reports, dialog, waitingPage>>

\* onGetAddressBalancesError, and TransferPage::onGetAddressBalances.
BalancesError ==
    /\ getReply /\ stray = "none"
    /\ getReply' = FALSE /\ stray' = "get"
    /\ waitingPage' = FALSE /\ shown' = NoOrder
    /\ UNCHANGED <<formVars, dataVars, textVars, castReply, posted, swallowed, reports, dialog>>

--------------------------------------------------------------------------------
(***************************************************************************)
(* The broadcast.  TransferPage::walletTransferToAddress hides the waiting *)
(* page and shows a dialog.                                                *)
(***************************************************************************)
ReportMut(outcome) ==      \* the waiting page is hidden on success only
    /\ waitingPage' = (waitingPage /\ outcome = "error")
    /\ dialog' = outcome
    /\ posted' = NoOrder /\ shown' = NoOrder
    /\ reports' = reports + 1
Report(outcome) ==
    /\ waitingPage' = FALSE
    /\ dialog' = outcome
    /\ posted' = NoOrder /\ shown' = NoOrder
    /\ reports' = reports + 1

\* onbroadcastFinished: refused by the node, or accepted; the pointer stays.
BroadcastAnswered ==
    /\ posted # NoOrder /\ stray = "none"
    /\ \E outcome \in {"submitted", "error"} : Report(outcome)
    /\ UNCHANGED <<formVars, dataVars, textVars, getReply, castReply, stray, swallowed>>

\* onbroadcastError
BroadcastError ==
    /\ posted # NoOrder /\ stray = "none"
    /\ castReply' = FALSE /\ stray' = "cast"
    /\ Report("error")
    /\ UNCHANGED <<formVars, dataVars, textVars, getReply, swallowed>>

\* finished() of a failed request, maybe from within the dialog's own loop.
\* It finds the pointer null, or reports the failure (again).
StrayFinished ==
    /\ stray # "none" /\ stray' = "none"
    /\ IF stray = "cast" /\ castReply
       THEN Report("error")
       ELSE UNCHANGED <<dlgVars, posted, reports>>
    /\ UNCHANGED <<formVars, dataVars, textVars, getReply, castReply, swallowed>>

\* The user closes the report; after a success the page is built anew.
CloseReport ==
    /\ dialog \in {"submitted", "error"} /\ stray = "none"
    /\ dialog' = "none"
    /\ IF dialog = "submitted" THEN \E n \in Names : FreshPage(n) ELSE UNCHANGED formVars
    /\ UNCHANGED <<dataVars, textVars, netVars, shown, waitingPage>>

--------------------------------------------------------------------------------
(***************************************************************************)
(* In the background.                                                      *)
(***************************************************************************)
\* onFetchAssetInfoFinished and Frame::assetTypeGet.
AssetTypeGet(S) ==
    /\ "list" \in Background /\ (dialog = "confirm" => "listInDialog" \in Background)
    /\ tokens' = S /\ current' = ACT
    /\ checked' = (checked /\ current = ACT)
    /\ UNCHANGED <<balances, inputVars, textVars, netVars, dlgVars>>

\* Frame::walletAccountBalance; TransferPage::updateBalance changes a label.
BalanceUpdate(n, c, v) ==
    /\ "balances" \in Background
    /\ balances' = [balances EXCEPT ![n][c] = v]
    /\ checked' = (checked /\ balances[n][c] <= v)
    /\ UNCHANGED <<tokens, current, inputVars, textVars, netVars, dlgVars>>

--------------------------------------------------------------------------------
User ==
    \/ \E a \in Addrs \cup {NoAddr} : EditTo(a)
    \/ \E m \in 0..MaxAmount : EditAmount(m)
    \/ \E n \in Names : ChooseAccount(n) \/ ShowTransferPage(n)
    \/ \E c \in Listed : ChooseAsset(c)
    \/ Send \/ Cancel \/ Ok \/ CloseReport

Network ==
    \/ BalancesOk \/ BalancesUnparsable \/ BalancesError
    \/ BroadcastAnswered \/ BroadcastError \/ StrayFinished

Events ==
    \/ \E S \in SUBSET Tokens : AssetTypeGet(S)
    \/ \E n \in Names, c \in Listed, v \in 0..MaxBalance : BalanceUpdate(n, c, v)

Next == User \/ Network \/ Events

\* A request of QNetworkAccessManager is answered or fails at last.
Spec == Init /\ [][Next]_vars /\ WF_vars(Network)

--------------------------------------------------------------------------------
\* Every variable has its type.
TypeOK ==
    /\ tokens \subseteq Tokens /\ current \in Currencies
    /\ balances \in [Names -> [Listed -> 0..MaxBalance]]
    /\ items \subseteq Listed /\ combo \in Listed /\ account \in Names
    /\ to \in Addrs \cup {NoAddr} /\ amount \in 0..MaxAmount
    /\ sendEnabled \in BOOLEAN /\ checked \in BOOLEAN
    /\ dialog \in {"none", "confirm", "submitted", "error"}
    /\ shown \in Orders \cup {NoOrder} /\ waitingPage \in BOOLEAN
    /\ toAddressText \in Addrs \cup {NoAddr} /\ amountText \in 0..MaxAmount
    /\ getReply \in BOOLEAN /\ castReply \in BOOLEAN /\ posted \in Orders \cup {NoOrder}
    /\ stray \in {"none", "get", "cast"} /\ swallowed \in BOOLEAN
    /\ reports \in Nat

(***************************************************************************)
(* A currency that the list does not have any more, which would be sent as *)
(* ACT, is never offered: its balance of 0 keeps sendBtn disabled.         *)
(***************************************************************************)
NeverOffersUnlisted == shown # NoOrder => shown.cur # Unlisted

(***************************************************************************)
(* One request at a time, and the window is covered as long as it runs: no *)
(* second transfer takes over getAddressBalancesReply or broadcastReply.   *)
(***************************************************************************)
OneRequest ==
    /\ ~(getReply /\ posted # NoOrder)
    /\ getReply \/ posted # NoOrder => waitingPage /\ dialog = "none"
    /\ waitingPage => getReply \/ posted # NoOrder \/ swallowed

(***************************************************************************)
(* The dialog offers what the account can pay, as the label "Invalid       *)
(* Balance" and the disabled button of checkAmountValid are there for,     *)
(* unless a balance fell, or the currency changed, since that check.       *)
(***************************************************************************)
OffersCovered ==
    dialog = "confirm" /\ checked =>
        shown.amount + (IF shown.cur = ACT THEN Fee ELSE 0) <= Balance(account, shown.cur)

(***************************************************************************)
(* What is sent is what the dialog showed.                                 *)
(***************************************************************************)
SendsWhatWasShown == posted # NoOrder => posted = shown

(***************************************************************************)
(* The waiting page goes away, unless a document could not be parsed.      *)
(***************************************************************************)
WaitingEnds == waitingPage ~> (~waitingPage \/ swallowed)

(***************************************************************************)
(* The inductive invariants.  FlowInv, AgreedInv and CoveredInv hold       *)
(* always, ShownInv if no list of tokens arrives under the dialog.         *)
(***************************************************************************)
(***************************************************************************)
(* The current currency is one of the list or none: tokenTransferTo, which *)
(* looks the contract up by the name of the current currency, finds it.    *)
(***************************************************************************)
CurrentInList == current \in tokens \cup {ACT, Unlisted}

(***************************************************************************)
(* error() is followed by finished(), but an outcome is reported once.     *)
(***************************************************************************)
ReportedOnce == reports <= 1 /\ (posted # NoOrder => reports = 0)

(***************************************************************************)
(* Whatever arrives under the dialog, the receiver and the amount sent are *)
(* those that were shown: at worst a token has become ACT.                 *)
(***************************************************************************)
InAct(order) == [order EXCEPT !.cur = ACT]

AgreedInAct == posted # NoOrder => shown # NoOrder /\ posted \in {shown, InAct(shown)}

FormInv == current = Unlisted /\ sendEnabled => amount = 0

StrayInv ==
    /\ stray # "none" => ~getReply /\ posted = NoOrder /\ dialog # "confirm"
    /\ stray = "cast" => ~castReply

Read(c) == [to |-> toAddressText, amount |-> amountText, cur |-> c]

ReadInv == dialog = "confirm" \/ getReply => Read(ACT) \in Orders

OfferInv == dialog = "confirm" => shown # NoOrder

FlowInv ==
    /\ TypeOK /\ CurrentInList /\ NeverOffersUnlisted /\ OneRequest /\ ReportedOnce
    /\ FormInv /\ StrayInv /\ ReadInv

ShownInv ==
    /\ FlowInv /\ SendsWhatWasShown
    /\ dialog = "confirm" => shown = Read(current)
    /\ getReply => shown = Read(ACT)
    /\ ~getReply /\ posted = NoOrder /\ dialog # "confirm" => shown = NoOrder

AgreedInv ==
    /\ FlowInv /\ AgreedInAct
    /\ dialog = "confirm" => shown # NoOrder /\ Read(current) \in {shown, InAct(shown)}
    /\ getReply => shown # NoOrder /\ Read(ACT) = InAct(shown)

CoveredInv ==
    /\ TypeOK /\ OffersCovered /\ OfferInv
    /\ checked /\ sendEnabled => AmountValid(account, amount, current)

(***************************************************************************)
(* The page implements TransferOrder: offered while the dialog is open or  *)
(* the balances are awaited, submitted while the broadcast runs, reported  *)
(* while its outcome is on screen.                                         *)
(***************************************************************************)
phase ==
    IF posted # NoOrder THEN "submitted"
    ELSE IF dialog = "confirm" \/ getReply THEN "offered"
    ELSE IF dialog = "none" THEN "idle"
    ELSE "reported"

(***************************************************************************)
(* Whatever arrives meanwhile, the outcome of one order is on screen       *)
(* before the next is offered, and nothing is sent that was not offered.   *)
(***************************************************************************)
PhaseSteps == {<<"idle", "offered">>, <<"offered", "idle">>, <<"offered", "submitted">>,
               <<"submitted", "reported">>, <<"reported", "idle">>}
PhasesInOrder == [][phase' # phase => <<phase, phase'>> \in PhaseSteps]_vars

Desk == INSTANCE TransferOrder
            WITH order <- IF posted # NoOrder THEN posted ELSE shown

ImplementsOrder == Desk!Spec
================================================================================
