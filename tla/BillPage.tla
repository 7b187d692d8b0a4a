------------------------------- MODULE BillPage -------------------------------
(***************************************************************************)
(* The page of transactions (billpage.cpp) and the one request it can have *)
(* out (tokentransaction.cpp).                                             *)
(*                                                                         *)
(* The page asks for one account, one currency and one page of them; the   *)
(* answer is put in a vector that the page and TokenTransaction share, and *)
(* the table is filled from the vector.  While a request is out another is *)
(* dropped, not queued.  An answer is filtered by the currency that is     *)
(* current when it comes and shown from the side of the account that is    *)
(* chosen when it comes.  The page may be closed and opened again, and the *)
(* list of currencies may be renewed, while a request is out.              *)
(*                                                                         *)
(* The account is DataMgr's current account and the page's accountName:    *)
(* nobody else changes it while the page is open.                          *)
(*                                                                         *)
(* An operator called XMut is a slip a programmer could make in X.  No     *)
(* specification uses it; it replaces X to show that a property can fail.  *)
(***************************************************************************)
EXTENDS Naturals

CONSTANTS
    Accounts,     \* the accounts of the wallet; the page opens if there is one
    Tokens,       \* the other currencies, coins of contracts
    ACT,          \* COMMONASSET, always the first of the list
    MaxBillPage,  \* a bound on the pages the server has of an account
    None,         \* no request is out
    NoRows        \* the vector or the table is cleared

ASSUME BillAssumption ==
    ACT \notin Tokens /\ MaxBillPage \in Nat \ {0}

Coins == Tokens \cup {ACT}
Query == [account : Accounts, coin : Coins, page : 1..MaxBillPage]

\* What trxFromJson makes of an answer: whose rows, and which coins it kept.
Rows == [query : Query, kept : Coins, total : 0..MaxBillPage]

ASSUME NoneAssumption == None \notin Query /\ NoRows \notin Rows

VARIABLES
    billOpen,   \* the page exists
    account,    \* accountName
    currency,   \* DataMgr::_current_currency
    box,        \* the currency the combo box names
    page,       \* currentPageIndex
    pager,      \* the page buttons and the page number are shown
    lastPage,   \* the number of pages in pageLabel
    vector,     \* trxvector, NoRows when it was cleared
    table,      \* the vector at the last display, and the account whose side the
                \* amounts are on; NoRows when it was cleared
    asked       \* what the request that is out asks for: token_req

billVars == <<billOpen, account, currency, box, page, pager, lastPage, vector, table, asked>>

choice == <<billOpen, account, currency, page>>

--------------------------------------------------------------------------------
\* connectToBlockBrower
Request(query) == asked' = IF asked = None THEN query ELSE asked

UpdateTransactions(a, c, n) == Request([account |-> a, coin |-> c, page |-> n])

ClearTransactions == vector' = NoRows /\ table' = NoRows

BillInit ==
    /\ billOpen = FALSE /\ account \in Accounts /\ currency = ACT /\ box = ACT
    /\ page = 1 /\ pager = TRUE /\ lastPage = 0
    /\ vector = NoRows /\ table = NoRows /\ asked = None

\* Frame::showBillPage: the constructor clears, then asks.  That getAccountInfo
\* asks again changes nothing.
BillShow(a) ==
    /\ billOpen' = TRUE /\ account' = a /\ box' = currency
    /\ page' = 1 /\ pager' = TRUE /\ lastPage' = 0
    /\ ClearTransactions
    /\ UpdateTransactions(a, currency, 1)
    /\ UNCHANGED currency

\* closeCurrentPage; the request stays out.  The vector, which nobody reads now
\* and the next page clears, is cleared at once.
BillClose ==
    /\ billOpen' = FALSE /\ box' = ACT
    /\ page' = 1 /\ pager' = TRUE /\ lastPage' = 0
    /\ ClearTransactions
    /\ UNCHANGED <<account, currency, asked>>

\* on_accountComboBox_currentIndexChanged.  The number of pages of the other
\* account stays in the label.
ChooseAccountMut(a) ==      \* the table keeps the rows
    /\ billOpen /\ a # account
    /\ account' = a /\ page' = 1
    /\ UpdateTransactions(a, currency, 1)
    /\ UNCHANGED <<billOpen, currency, box, pager, lastPage, vector, table>>
ChooseAccount(a) ==
    /\ billOpen /\ a # account
    /\ account' = a /\ page' = 1
    /\ ClearTransactions
    /\ UpdateTransactions(a, currency, 1)
    /\ UNCHANGED <<billOpen, currency, box, pager, lastPage>>

\* on_assetComboBox_currentIndexChanged; the page number is kept.
ChooseAsset(c) ==
    /\ billOpen /\ c # box
    /\ box' = c
    /\ \/ c = currency /\ UNCHANGED <<currency, vector, table, asked>>
       \/ /\ c # currency /\ currency' = c
          /\ ClearTransactions
          /\ UpdateTransactions(account, c, page)
    /\ UNCHANGED <<billOpen, account, page, pager, lastPage>>

\* on_prePageBtn_clicked, on_nextPageBtn_clicked.  The buttons are hidden for
\* the coin of a contract, until something is displayed.
TurnTo(n) ==
    /\ page' = n
    /\ ClearTransactions
    /\ UpdateTransactions(account, currency, n)
    /\ pager' = (currency = ACT)
    /\ UNCHANGED <<billOpen, account, currency, box, lastPage>>

PrePage == billOpen /\ pager /\ page # 1 /\ TurnTo(page - 1)
NextPageMut == billOpen /\ pager /\ page <= lastPage /\ TurnTo(page + 1)   \* one page too far
NextPage == billOpen /\ pager /\ page < lastPage /\ TurnTo(page + 1)

\* Frame::getAccountInfo, by timerForAutoRefresh.
AutoRefreshMut ==           \* the first page, whichever is shown
    /\ billOpen
    /\ UpdateTransactions(account, currency, 1)
    /\ UNCHANGED <<billOpen, account, currency, box, page, pager, lastPage, vector, table>>
AutoRefresh ==
    /\ billOpen
    /\ UpdateTransactions(account, currency, page)
    /\ UNCHANGED <<billOpen, account, currency, box, page, pager, lastPage, vector, table>>

\* Frame::assetTypeGet
ListRenewed ==
    /\ currency' = ACT
    /\ UNCHANGED <<billOpen, account, box, page, pager, lastPage, vector, table, asked>>

--------------------------------------------------------------------------------
\* displayTokenTrxVector, which only an open page is connected to.
Display ==
    /\ table' = IF vector' = NoRows THEN NoRows ELSE [rows |-> vector', side |-> account]
    /\ lastPage' = IF vector' = NoRows THEN 0 ELSE vector'.total
    /\ pager' = TRUE

\* httpFinished, when the vector is filled; nobody is told if the page is gone.
QueryEnded ==
    /\ asked' = None
    /\ \/ billOpen /\ Display
       \/ ~billOpen /\ UNCHANGED <<table, pager, lastPage>>
    /\ UNCHANGED <<billOpen, account, currency, box, page>>

\* A page of rows, which trxFromJson filters; an error object; no JSON, as
\* after an error.
Fill(rows) == vector' = IF billOpen THEN rows ELSE NoRows

Answered ==
    /\ asked # None
    /\ \E total \in 0..MaxBillPage :
           Fill([query |-> asked, kept |-> currency, total |-> total])
    /\ QueryEnded
Refused == asked # None /\ vector' = NoRows /\ QueryEnded
Failed == asked # None /\ vector' = vector /\ QueryEnded

BillNext ==
    \/ \E a \in Accounts : ChooseAccount(a)
    \/ \E c \in Coins : ChooseAsset(c)
    \/ PrePage \/ NextPage \/ AutoRefresh \/ ListRenewed
    \/ Answered \/ Refused \/ Failed

--------------------------------------------------------------------------------
\* Every variable has its type, and a closed page is as a new one begins.
BillTypeOK ==
    /\ billOpen \in BOOLEAN /\ pager \in BOOLEAN
    /\ account \in Accounts
    /\ currency \in Coins /\ box \in Coins
    /\ page \in 1..MaxBillPage /\ lastPage \in 0..MaxBillPage
    /\ vector \in Rows \cup {NoRows}
    /\ table \in [rows : Rows, side : Accounts] \cup {NoRows}
    /\ asked \in Query \cup {None}

(***************************************************************************)
(* The rows shown were drawn from the side of the account that is chosen,  *)
(* which decides the sign of an amount (but under ACT a transfer of a      *)
(* token shows its fee, negative for either side), and while a token is    *)
(* chosen no row is of another coin, whatever was asked and chosen while   *)
(* the request was out.  (The rows may be those of another account: see    *)
(* ShowsChoice.)                                                           *)
(***************************************************************************)
RowsOfChosen ==
    table # NoRows =>
        /\ billOpen /\ table.side = account
        /\ currency # ACT => table.rows.kept = currency

(***************************************************************************)
(* The table shows the vector that TokenTransaction fills, from the side   *)
(* of the account that is chosen, never rows that the vector has lost; and *)
(* with rows there are the buttons to turn the page and the right number   *)
(* of pages.                                                               *)
(***************************************************************************)
TableIsVector ==
    /\ table = IF vector = NoRows THEN NoRows ELSE [rows |-> vector, side |-> account]
    /\ vector # NoRows => pager /\ lastPage = vector.total

(***************************************************************************)
(* If the page is open and the account, the currency and the page are not  *)
(* changed any more, then at last no other rows than theirs are shown, and *)
(* theirs are shown again and again with the buttons to turn the page: a   *)
(* request that was dropped is made up for, and no late answer of another  *)
(* choice stays.  (An error object in between empties the table.)          *)
(***************************************************************************)
OfChoice == table.rows.query = [account |-> account, coin |-> currency, page |-> page]

ShowsChoice ==
    <>[][choice' = choice]_choice =>
        /\ <>[](billOpen /\ table # NoRows => OfChoice)
        /\ []<>(billOpen => table # NoRows /\ pager)
================================================================================
