# Verification of the Achain light wallet

TLA+ specifications of the light wallet in this repository (a Qt program in
C++), the TLC runs that check them on small instances, and the TLAPS proofs of
what holds for every value of their constants.

`X.tla` models a component, `MCX.tla` and `X*.cfg` instantiate it for TLC,
`XProofs.tla` proves theorems about it. Run `tlc -config X.cfg MCX.tla` and
`tlapm XProofs.tla` (BalanceQuery needs no MC module: `tlc -config
BalanceQuery.cfg BalanceQuery.tla`). Line numbers of definitions are in `PROJECT.json` (`map`),
what can go wrong in the code, line by line, is there under `hazards`.

## 1. The system

One process, one thread, one Qt event loop. Every handler (a slot, a timer
event, a click) runs to its end before the next begins, with one exception: a
modal dialog's `exec()` runs a nested event loop, in which timers and replies
are delivered while the function that opened the dialog waits. There is no
locking because there are no threads; what can go wrong is the **order** in
which clicks, timers and the signals of network replies come, and what a
handler believes from before a nested loop or a request.

| component | state | operations | talks to |
|---|---|---|---|
| Balance poller (`datamgr.cpp` 496-619, `frame.cpp` 237-264) | `queryBalanceQueue`, `isRequestingBalance`, `queryBalanceReply`, a 100 ms single shot, Frame's `timerForAutoRefresh` | `getAccountInfo`, `walletAccountBalance`, `startQueryBalance`, `qureyBalanceHttpFinished/Error`, `delayQueryBalance` | table `account`, the account map, the pages (signal `onWalletAccountBalance`) |
| Accounts and keys (`database.cpp`, `datamgr.cpp`, `accountpage.cpp`, `namedialog.cpp`, `importdialog.cpp`) | tables `user`, `account`, `abandon_account`; `_account_info_map`, `_current_account`; the settings file; the open name dialog | first login, login, change of password, create, import, delete, choose | everything that reads an account by name |
| Withdrawal (`achainlightwalletapi.cpp`, `src/blockchain/Transaction.cpp`) | the transaction being built | `wallet_transfer_to_address`, `withdraw`, `deposit` | DataMgr, which broadcasts it |
| Transfer page (`transferpage.cpp`, `transferconfirmdialog.cpp`, `datamgr.cpp`) | the form, the confirmation dialog, the waiting page, `getAddressBalancesReply`, `broadcastReply` | choose, edit, send, confirm, the two requests and their reports | current currency, balances, list of currencies |
| List of currencies (`datamgr.cpp` 87-131, 203-275, 810-833; `database.cpp` 457-514) | `_currency_list`, `_currency_name_map`, `fetchAssetInfoReply`, `timerGetAsset`, table `currency` | fetch, parse, save, reload, retry every ten minutes | Frame (`assetTypeGet`), the poller's filter |
| Frame (`frame.cpp`) | the current page, four timers | show/close pages, lock, unlock, refresh, language | all of the above |
| Lock, login (`lockpage.cpp`, `normallogin.cpp`) | the lock timer, the lock page | auto lock, unlock, wrong passwords | Frame |
| Transaction history (`tokentransaction.cpp`, `billpage.cpp`) | `token_req`, the vector shown, account, currency and page number | request, answer, choose account or currency, turn the page | current account and currency, the refresh timer |
| Delegates and votes (`delegatespage.cpp`, `datamgr.cpp` 400-486, 995-1148) | tab, page number, label, waiting page, two reply pointers, votes in memory and in a table | two kinds of list, tick a delegate | DataMgr, database, Frame, which the waiting page covers |
| Quotations (`thirddatamgr.cpp`, `homepage.cpp`, `quotationlistmodel.cpp`) | two reply pointers, retry single shots, the half-hour timer, the prices, the rates, the currency they are shown in | request, answer, error, choose the currency | pages that show prices |
| Usage reports (`trackmgr.cpp`) | `trackMsgVec`, `isSendingTrackData` | queue, send, retry | the server only |
| Contacts, export, update tool, widgets, vendored libraries | see `components` in `PROJECT.json` | | |

What makes these hard:

* **One pointer, many replies.** Every request keeps its `QNetworkReply` in a
  member and its handlers use the member, not the sender. `error()` is followed
  by `finished()` of the same reply; by then the pointer is null, or that of
  the next request.
* **Names as keys.** Balances, private keys and abandoned keys are found by the
  account's name, while accounts are deleted, made again under the same name,
  and imported.
* **Check, dialog, use.** The confirmation dialog, the name dialog and the
  reports run nested event loops between a check and what relies on it.
* **Retries.** 100 ms, 1 s and ten-minute timers race with answers that are
  late, and must neither double a loop nor lose it.
* **Two statements, no transaction.** Deleting an account and replacing the
  saved list take several SQL statements; each can fail, and the program can
  die between them.

The properties that make the components correct are, in this order: no request
loop runs twice or stops for ever; an answer is booked for what it was asked
for; a key never leaves without a trace and is never used for another address;
what the user confirmed is what is sent, once, and its outcome is shown once;
what is saved is what was fetched; what a page shows is what is chosen on it; a
wallet that is left alone locks itself.

## 2. What each module models

### BalanceQuery, PollCycle

Actions are the handlers: `ReplyOk`, `ReplyUnparsable`, `ReplyError`,
`StrayFinished` (the `finished()` after an `error()`, which acts on whatever
the pointer holds by then, or `StrayDropped` if the reply is deleted first),
`DelayQueryBalance`, `AutoRefresh`, `Login`, `ShowPage`, `ChooseAccount`,
`AddAccount`, `AddDialogClosed`, `DeleteAccount`. The loop of `getAccountInfo`
over all accounts is one handler, hence one action; `Push` says in one step
what its calls of `walletAccountBalance` come to. A balance is
abstracted to the address it is the balance of, so that a balance booked for the
wrong account is visible. Creating an account ends with a dialog, during which
requests go on (`adding`); what happens at its end is `AddDialogClosed`. The
saved current account may name one that is gone (`stale`): `initSettings` and
`walletListAccounts` replace only an empty one, and the pages that ask for the
current account queue it. `dropped` remembers that `startQueryBalance` has
dropped a queued name as no account.

`PollCycle` is what the flag, the pointer and the single shot promise together:
idle, in flight, pause; a request in flight is never replaced.

### KeyStore, WalletBook

Tables and the settings file survive a crash, the rest does not. A key stands
for its address; a row is a key and the password it is encrypted under, by the
SHA-512 text the program keeps in memory. The rows of a name are a sequence,
because nothing in the schema makes names unique: the map shows the last,
`queryPrivateKey` reads the first, deletion removes all and records one. The
name dialog has its buttons: `CheckName`, which enables Ok for a free name
(`checked`), `Dismiss` for Cancel and for an Ok that comes to nothing, and Ok
inside `AddAccount` and `ImportAccount` (`Confirmed`). `NameSlips` says what else
the user may do: "edit" the name after Check, which leaves Ok enabled, or leave
the dialog with "escape", which confirms whatever is typed, unchecked and past
the limit, because `NameDialog` starts with `yesOrNO = true` and only its slots
reset it. A row that enters without the leave of the checks (`Approved`) puts its
name into `unchecked`, until all rows of the name are deleted.
`CrashInDelete` and `CrashInImport` are crashes between two statements,
`DbFaults` the statements that may fail. A wrong password changes nothing and is
no action.

The properties claim what the code keeps up under all of this: whatever is
entered unchecked spoils its own name only. An account whose name was confirmed
as checked has one row, signs with its own key, leaves a record when it goes.

`WalletBook` is a book of names in which an entry is entered once, never altered,
and removed; it is implemented by the accounts that are not `unchecked`.

### WithdrawPlan

One action is one iteration of the loop of `wallet_transfer_to_address` over
the balance records of the sender, with the `FC_ASSERT`s of
`Transaction::withdraw` and `deposit` as the state `thrown`. The amount is the
integer its text is converted to. The serialisation and the signature are left
out. What the loop should come to (`EnoughIsEnough`) is stated with a sum over
all records (`SumTo`, a recursive function) that knows nothing of the loop.

### TransferFlow, TransferOrder

The form, the confirmation dialog, the waiting page, and the two requests: for
the balances of the sender (only for ACT), then for the broadcast. In the
background balances change and a list of currencies arrives, which makes ACT
current again (`AssetTypeGet`). `Background` says whether the latter may happen
while the dialog is open. A modal dialog and the waiting page cover the window,
so no other click comes. `Unlisted` is the `CurrencyInfo` that `getCurrencyById`
returns for an id it does not find: its members are never set, so its id may
equal any other (both outcomes of that comparison are allowed). `checked`
remembers whether `checkAmountValid` has decided about the button since a
balance fell or the currency changed.

`TransferOrder`: an order is offered as it will be sent, broadcast at most once,
and reported once.

### AssetFetch

The requests for the list, of which several may be in flight, because the retry
timer does not look; the pointer; the list and the names that filter the
poller's answers; the table with its delete outside of the transaction; crashes
and restarts. `error()` and the `finished()` that follows it are one step: in
between nothing comes, and the second finds the pointer null. `answered` says
that a body was parsed, which ends the retries whether it was a list or not.
`mishaps` records what no caller can prevent: a statement that fails, and
"unread", a body taken for a list that is none, or that was read from the reply
of another request.

### BillPage, DelegatesPage, Pages

The two pages that ask a server while they are shown. `BillPage` is the page of
transactions and the class TokenTransaction: the account, the currency (of
DataMgr, which a new list of currencies may change, and of the combo box, which
then goes on naming the old one), the page number, the buttons, the vector the
two share, and the one request that may be out. An answer is abstracted to the
question it answers and the filter that was applied to it, a table to the vector
it was filled from and the account whose side the amounts are on. The page number
is typed by nobody: the field is disabled.

`DelegatesPage` is the page of delegates, its two requests in DataMgr, and the
votes, in memory and in their table; statements may fail. An answer that is no
JSON is reported to nobody (`swallowed`).

`Pages` composes them as Frame does: one page is shown at a time, closing one
leaves its request out, the waiting page covers everything, and the program may
end and start again at any time (`Restart`).

### LockTimer, TrackQueue, Outbox, Quotation, Session

What the login starts behind every page. `LockTimer`: time goes in minutes, and a
timer that is due fires before time goes on; `idle`, which the code does not
have, counts the minutes without input. Two dialogs may be open when it fires.
The settings are a child of the frame (`setdialog.cpp` 29-32), neither a window
nor modal: the lock page, made later, lies above them, so they can be neither
saved nor closed until it is gone, and the wallet can be unlocked with them open
and then saves. The report of a transfer is a window of its own (`Qt::Tool`,
`commondialog.cpp`), which stays in front of the lock page and must be closed
before it can be unlocked. The end of either makes the current page anew, and
`pageAbove` says that the new page covers the lock page.
`TrackQueue`: the queue of reports, its request and the shots; what the server
received is booked when the request ends, and after an error it may have; `Outbox` is what
it promises, every message in order, at least once, and at last. `Quotation`:
overlapping requests behind one pointer (`finished()` of one reads and deletes
the reply the pointer has), the answer for the exchange rates that is asked for
again only after an error, and what a page shows, computed when it is refreshed.
`Session` composes the three: login, saved settings, page changes.

## 3. What the runs check

All runs are exhaustive. Deadlock is checked except for `withdraw_plan`, whose
loop ends, and for `pages` and the runs of `Session`, where a bound can stop
what the program would go on doing.

| run | instance | shows |
|---|---|---|
| `balance` | 2 names, 2 keys, both statements of a deletion may fail, 1 deletion, queue of 3 | One request loop (`SingleFlight`), every answer is booked for the name it was asked for (`AnswerForAsked`), a row holds its own balance unless its name was given another key under a request (`OwnBalance`), the refresh timer runs or will be started again until a queued name is dropped, and only a deleted account or a saved current account that was gone at the start is ever dropped (`RefreshKeepsGoing`), `PollCycle` is implemented, and every round ends (`RoundEnds`) |
| `balance_stall` | the same with 1 key, no failing statement | *violation* of `AutoRefreshGoesOn`: the timer never starts again when the head of the queue is no account |
| `keystore` | 2 names, 2 keys, 2 passwords, room for 2 accounts, 1 change of password, every statement may fail, crashes, edits after Check and Escape | The accounts of names that were confirmed as checked: one row each (`NamesUnique`), signed for with the key of the address shown (`SignsWithOwnKey`), a key leaves with a record (`KeyLeavesWithRecord`), `WalletBook` is implemented; the list is the table, a refused import is of a key the user sees, there is a current account |
| `keystore_unchecked` | 2 names, edits after Check and Escape | *violation* of `NoNameTwice`: Escape enters a second row of a name |
| `keystore_rekey` | 2 names, 1 change of password, no slips | *violation* of `KeysUnique`: a key is imported twice |
| `withdraw_plan` | every list of up to 4 records of -1..3, amounts 1..4, fee 2, ACT and an asset | No assertion fails, what goes in comes out, only the last record is overdrawn and only if the funds are short, and enough is enough (`EnoughIsEnough`, against a definition without a loop) |
| `transfer` | 2 accounts, 1 token, balances 0..2, background changes | One request at a time, nothing unlisted is offered, an offer is covered by the balance as long as it was checked since, `TransferOrder` (an order is reported once) is implemented, and the waiting page goes away unless an answer was swallowed |
| `transfer_dialog` | 1 account, a list arrives under the dialog | *violation* of `SendsWhatWasShown`: an amount shown in a token is sent in ACT |
| `assets` | 1 token, 3 requests, late answers, garbage, failing statements, crashes | The pointer never dangles, the list is at last one the server has sent unless a body that is none was parsed (`ListArrives`), what is saved and shown was sent, and once a body was parsed no stored balance of a listed currency is lost (`KeepsBalances`) |
| `pages` | 2 accounts, ACT and a token, 2 pages of each; 2 delegates, 1 in a page; restarts, failing statements, garbage | Whatever is chosen while a request is out, the rows are drawn from the side of the account chosen and a token shows no other coin (`RowsOfChosen`); the list of delegates is that of its tab, its page, its label and the votes of now (`ListIsLabelled`); a request that was dropped is made up for and no late answer stays (`ShowsChoice`); the frame is uncovered at last (`WaitingPageEnds`) |
| `session` | locks after 1 minute, 2 reports, 2 requests of prices at a time | An idle wallet locks in time (`IdleLocks`); `Outbox` is implemented, liveness included; pages show prices at last, in the currency of the sign they stand under (`PricesArrive`) |
| `session_lock` | the same with 1 report | *violation* of `LockCovers`: the report of a transfer, confirmed after the wallet has locked itself, puts a page in front of the lock page |

**Bounds and why they are enough.** Two names tell a booking for the wrong
account from a right one, two keys a name that was given another key; the queue
of three holds a round of both accounts and one more name pushed behind it. In
`keystore` two rows of a name (`MaxRows`) tell the first from the last, two names
a spoilt account from a sound one, and two passwords suffice because the code
never looks at more than the present one. That the limit holds with more names
than it has room for is left to the proof, which takes any set of names. Four records
in `withdraw_plan` give a first, a middle, a last and a record to skip, with
balances below, at and above what is left. In `transfer` a fee of 1 and
balances up to 2 put an amount on each side of every comparison. Three requests
in `assets` are needed for the pointer to be null while one is still out: the
end of a request deletes the reply of the latest one, too. In `pages` two
accounts, two coins and two pages make an answer differ from the choice in each
of them, and two delegates with one in a page give a second page of votes that a
vote taken back empties. In the session two reports make an order, and two
requests overlap; that saved settings shorten and lengthen a timer that runs is
left to the proof, which takes any set of minutes. Every bound is a
constant that only guards an action (`MaxQueue`, `MaxDeletes`, `MaxRows`,
`MaxPwChanges`, `MaxMsgs`), or the answers of a server (`MaxBillPage`, `MaxDelPage`), or the size of a set.

**Fairness.** `balance`: Qt delivers the single shot (`WF(DelayQueryBalance)`);
a request ends, by the transport's timeout at the latest
(`WF(ReplyOk \/ ReplyUnparsable \/ ReplyError)`); and a server that is asked
again and again answers at some time (`SF(ReplyOk)`), which is an assumption
about the network: without it the code retries for ever. `transfer`: a request
ends (`WF` of the network actions). `assets`: the timer fires (`WF(Timer)`) and
the server answers at some time (`SF(ServerAnswers)`); `ListArrives` leaves out
behaviours in which requests overlap for ever. `pages`: the refresh timer goes on
firing (`WF` of `AutoRefresh`), which is an assumption about the poller that
`balance_stall` shows the code can break: once a queued name was dropped, what
`ShowsChoice` says holds only until then. A request ends, if only by the error of
a connection that is gone, and a server that is asked again and again answers
(`SF(Answered)`). Session: single shots and the half-hour timer fire, the
servers answer what they are asked again and again, and the balances, which are
refreshed every few seconds, are refreshed between two changes of the prices,
which come every half hour (`SF(BalancesRefreshed /\ prices)`); `PricesArrive`
leaves out requests that overlap for ever. Nothing obliges the user.

### What the violations mean

* `balance_stall`: the head of the queue is no account. `startQueryBalance` drops
  it and returns; nobody emits `onWalletAccountBalance`, and the refresh timer
  stays stopped until the user changes pages. TLC's trace starts with a saved
  current account that is gone and opens the bill page; an account deleted while
  the request for its balance is being retried does the same.
* `keystore_unchecked`: type a name in the name dialog and press Escape, twice.
  Two accounts of one name: the address of the second, the key of the first, and
  a deletion that removes both. Checking a free name, typing a used one and
  pressing Ok does it, too (`NameSlips = {"edit"}`).
* `keystore_rekey`: after a change of password the keys stay encrypted under the
  old one. They cannot be read, and the check for existing keys, which compares
  ciphertexts, lets them be imported again.
* `transfer_dialog`: see the run.
* `session_lock`: the report of a transfer is on the screen when the wallet locks
  itself. It is a window of its own with its own event loop, in front of the lock
  page. Confirming it emits `recreateTransferPage`, which makes the page anew, as
  the newest child of Frame, above the lock page, while the wallet counts as
  locked. The settings do not do this: they lie under the lock page, and are
  saved, if at all, after the wallet was unlocked.

More is visible as what a property has to exempt. `SavedIsSent`: a body that is
no list replaces the saved list by ACT alone and ends the retries, as
`parseContract` ignores the parser's error (`ListArrives` exempts it, too), and a
late answer is read from the newer request's reply. `KeepsBalances`: before the
first body of a start is parsed, `initCurrencyListFromDB` has filled the list and
not the map of names, so every entry of an answer is skipped and the stored
balances are overwritten with none. `WaitingPageEnds`, `WaitingEnds`: an answer that is no JSON leaves the
frame covered. `PricesArrive`: an answer for the rates that is of no use is the
last; prices stay in dollars under the sign of CNY.

## 4. What is proved

The theorems hold for all values of the constants that satisfy the modules'
assumptions: any sets of names, keys, passwords, tokens, requests, any bounds.
The pattern is the same everywhere: `Init => I`, `I /\ [Next]_vars => I'` with
one step per action, and `I` implies the property.

* **BalanceQueryProofs.** `IInv` = the type, `SingleFlight`, `AnswerForAsked`,
  `OwnBalance`, `RefreshKeepsGoing`, and three facts they need: the map agrees
  with the table (`MapAgrees`), the address in flight is that of the row it was
  asked for (`InFlightOwn`), and before the first deletion, if the saved current
  account exists, every queued name is an account (`NamesKnown`). Also that
  every step is a step of `PollCycle`, and
  that a round only takes names off the head of its queue, booking a balance for
  the name that leaves and for no other (`RoundOnlyShrinks`).
* **KeyStoreProofs.** Nothing is assumed of the user: the theorems hold for every
  set of `NameSlips` and `DbFaults`. `CoreInv` is the type, the dialog, list and
  table, the current account and the limit (`LimitKept`: the accounts confirmed
  as checked). `NameInv` adds that a name not in `unchecked` has one row at most,
  that the name for which Ok is enabled is free (`CheckedFree`; this is why Ok on
  the name that was checked spoils none), and that an unchecked name is one of
  the table (`UncheckedStored`); it gives `SignsWithOwnKey`, `RefusedIsShown` and
  `KeyLeavesWithRecord`. `TableInv` adds that no row is there twice, that the key
  being imported is not in the table under the present password, and that until
  the first change there is one password: before it no key is in the table twice
  (`KeysUniqueAtFirst`; `keystore_rekey` shows that the change is needed), and at
  no time under one password (`CiphertextsUnique`). `KeyInv`, the two together,
  gives the refinement of `WalletBook`.
* **WithdrawPlanProofs.** `PlanInv`: while the loop runs something is left, what
  is taken and what is left make up what is due, and the records passed are
  emptied. It gives the two assertions, `Balanced` and `OverdrawsLastOnly`. Its
  part `SumInv` says that the running totals of the loop are sums of records,
  and gives `EnoughIsEnough`: a withdrawal the records can pay together takes
  exactly what is due. That sums exist, grow with the list and depend only on
  its members is proved by induction over the length; the library's induction
  theorems take an operator, so `SetInduction` states induction for a set of
  numbers and proves it from well-foundedness. `LoopEnds`: every step lowers a
  measure in the natural numbers, so the loop ends.
* **TransferFlowProofs.** `FlowInv` (one request, one report, nothing unlisted)
  and `CoveredInv` (an enabled, checked button means an affordable amount) hold
  always. `ShownInv`, that what was read is what was shown, needs that no list
  arrives under the dialog, as `transfer_dialog` shows; it gives the refinement
  of `TransferOrder`. Without that condition `AgreedInv` bounds the damage:
  receiver and amount sent are always those shown, and the currency is the one
  shown or ACT (`SentAtWorstInAct`); and the phases keep their order, one order
  reported and closed before the next is offered (`OrderOfPhases`).
* **AssetFetchProofs.** `IInv` (type, pointer, retries, names), and `SavedWhole`
  and `SavedIsSent`, each inductive by itself. That the names are those of the
  list once a body was parsed (`AcceptsListed`) gives `KeepsBalances`. That the
  list then is one the server has sent, unless a body was misread
  (`ParsedIsSent`), gives `NeverGivesUp`: a program without such a list has a
  request out or the timer running.
* **PagesProofs.** `BillInv`: the vector, too, was filtered for the token that is
  chosen (`VectorOfChosen`), or the next display would show it. `DelInv`: a
  request is out only while the frame is covered (`Covered`), hence only for the
  tab, the page and the votes as they still are (`RequestOfTab`); this is why
  an answer that names neither can be shown (`RequestFitsTab`). The frame is
  covered exactly while a request is out or an answer was swallowed
  (`CoveredByRequest`), and the table is always the vector's
  (`TableFollowsVector`).
* **SessionProofs.** `TimerRuns`: while an open wallet is to lock itself its timer
  is on, and has been for exactly as long as nobody gave input; `TimerOff`: it is
  off if it is not to. Together they say that the wallet locks no later
  (`IdleWalletLocks`) and no earlier (`NotLockedEarly`) than it was told to.
  `QueueIsRest`: the queue holds the last messages handed over, the server has
  those before the head, and while it is not empty a request is out or a shot is
  due (`QueueNeverStalls`); it gives the safety part of `Outbox`. `ReplyLives`:
  the pointer to the reply of prices never has one that was deleted.
  `PriceFitsSign`: no price in CNY is shown with another sign.

The seven `TypeCorrect` theorems and the others are listed in `PROJECT.json`.
Every safety invariant and every action property that a run shows to hold is
also a theorem.

**Only model-checked:** liveness (`RoundEnds`, `WaitingEnds`, `ListArrives`,
`ShowsChoice`, `WaitingPageEnds`, `PricesArrive`, the second half of
`ImplementsOutbox`), since fairness and `ENABLED` are out of the prover's reach.
The safety they rest on is proved: `RoundOnlyShrinks` and `RequestsOneAtATime`
for `RoundEnds`, `RequestsAlone` for `WaitingEnds`, `NeverGivesUp` for
`ListArrives`, `RowsFollowChoice` for `ShowsChoice`, `CoveredByRequest` for
`WaitingPageEnds`, `NoDeletedReply` for `PricesArrive`, and `QueueNeverStalls`
for `ImplementsOutbox`.

## 5. What is left out, and why

* Texts, layout, translations, painting. Amounts are integers of the smallest
  unit; the conversion from text is not modelled, nor the extra question for the
  password above 1000 ACT, nor the slate of votes in the memo of a transfer.
* The server: an answer may say anything of its type. Two servers are taken to
  answer what they were asked: the one of the transactions the account and the
  page, the one of the delegates the ids and the page.
* `showTransferPageWithAddress` has no caller.
* A list of currencies with duplicate ids or a token with the id of ACT.
* An answer for the balances that is no JSON leaves the waiting page on screen
  for ever (`swallowed` in TransferFlow); `WaitingEnds` exempts it.
* A body of a broadcast that is no JSON is reported as a success; the model
  reports what the handler emits and does not know what the node did.
* A page of transactions that is closed: its vector, which nobody reads and the
  next page clears, is cleared with it.
* Requests of prices are alike; which of the free ones is taken is left to
  `CHOOSE`. `deleteLater` on a null pointer (`requestQuotationError` after an
  overlap) is undefined, and is taken to go on.
* The lockout after wrong passwords (`normallogin.cpp`, `lockpage.cpp`): it is
  measured by a file nobody writes, so it never begins.
* Contacts and remarks: reading and writing their file is commented out, and
  nothing opens the dialogs. The update tool is a process that is started and
  forgotten. The export of a key writes what `queryPrivateKey` reads.
* `src/boost`, `src/openssl`, `src/fc` and most of `src/blockchain` are vendored
  headers and libraries, by far the larger part of the repository's lines; the
  wallet's own code is some fifty files beside them. Only the functions of
  Transaction that the wallet calls are modelled.

## 6. Plan

What is left, in order of what matters:

1. The composition of AssetFetch, TransferFlow, BillPage and BalanceQuery through
   the one list of currencies and the one current currency.
2. The session under a crash: settings that were saved and not synced
   (`setdialog.cpp` 166-187).
