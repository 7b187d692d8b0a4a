----------------------------- MODULE BalanceQuery -----------------------------
(***************************************************************************)
(* The balance poller: DataMgr's queue of account names, its single        *)
(* outstanding HTTP request and 100 ms retry timer (datamgr.cpp), driven   *)
(* by Frame's auto-refresh timer and page changes (frame.cpp), while the   *)
(* user adds and deletes accounts on the account page (accountpage.cpp).   *)
(*                                                                         *)
(* Everything runs on one Qt event loop: an action is one handler run to   *)
(* its end, and the interleaving is the order in which UI events, timer    *)
(* events and signals of the network reply are delivered.                  *)
(*                                                                         *)
(* An operator called XMut is a slip a programmer could make in X.  No     *)
(* specification uses it; it replaces X to show that a property can fail.  *)
(***************************************************************************)
EXTENDS Integers, Sequences, FiniteSets

CONSTANTS
    Names,        \* account names the user can choose
    Addrs,        \* addresses of the keys the user can create or import
    NoName,       \* the empty string as current account
    NoReply,      \* queryBalanceReply == nullptr
    NoBalance,    \* the balance text '{}' of a fresh row
    DbFaults,     \* SQL statements of abandonAccount that may fail
    MaxQueue,     \* bound on queryBalanceQueue
    MaxDeletes    \* bound on the number of deletions

ASSUME NamesAssumption == IsFiniteSet(Names) /\ NoName \notin Names
ASSUME AddrsAssumption == NoReply \notin Addrs /\ NoBalance \notin Addrs
ASSUME BoundsAssumption == MaxQueue \in Nat /\ MaxDeletes \in Nat

VARIABLES
    rows,         \* DataBase: account table, name -> [addr, bal]; bal is the
                  \* address whose balance the balance column holds
    accounts,     \* DataMgr::_account_info_map, name -> address
    current,      \* DataMgr::_current_account
    queue,        \* DataMgr::queryBalanceQueue
    isRequesting, \* DataMgr::isRequestingBalance
    reply,        \* DataMgr::queryBalanceReply: the address requested
    delays,       \* pending QTimer::singleShot(100, delayQueryBalance)
    stray,        \* a finished() is still to follow an error()
    page,         \* Frame::currentPageId, "none" before login
    timer,        \* timerForAutoRefresh is active
    adding,       \* a dialog of addAccount()/importAccount() is still open
    deletes,      \* deletions so far
    asked,        \* auxiliary: the name the request in flight was sent for
    rekeyed,      \* auxiliary: names given another key while a request for
                  \* them was in flight
    stale,        \* auxiliary: at the start the settings named an account
                  \* that is gone
    dropped       \* auxiliary: a queued name was dropped as no account

dataVars == <<rows, accounts, current>>
netVars  == <<queue, isRequesting, reply, delays, stray, asked, dropped>>
uiVars   == <<page, timer, adding, deletes>>
auxVars  == <<rekeyed, stale>>
vars     == <<dataVars, netVars, uiVars, auxVars>>

Pages == {"none", "home", "bill", "transfer", "account", "other"}

\* Names a page can ask the poller about.
QNames == Names \cup {NoName}

\* queryAllAccount read into the map: name -> address.
MapOf(r) == [n \in DOMAIN r |-> r[n].addr]

\* keys().at(0), or "" when there is no account; names are not ordered here,
\* so that any of them can be the first.
FirstKeyMut(m) == IF DOMAIN m = {} THEN {NoName} ELSE {m[n] : n \in DOMAIN m}
FirstKey(m) == IF DOMAIN m = {} THEN {NoName} ELSE DOMAIN m

\* The orders in which the names of a map can be pushed.
Orders(S) ==
    {s \in [1..Cardinality(S) -> S] : \A n \in S : \E i \in 1..Cardinality(S) : s[i] = n}

--------------------------------------------------------------------------------
(***************************************************************************)
(* The program when main() has read the account table and shows the login  *)
(* page.  The current account comes from the settings, which may name one  *)
(* that is gone or none; only the empty name is replaced.                  *)
(***************************************************************************)
Init ==
    /\ \E S \in SUBSET Names : \E f \in [S -> Addrs] :
          rows = [n \in S |-> [addr |-> f[n], bal |-> NoBalance]]
    /\ accounts = MapOf(rows)
    /\ current \in FirstKey(accounts) \cup Names
    /\ stale = (current \in Names \ DOMAIN accounts) /\ dropped = FALSE
    /\ queue = <<>> /\ isRequesting = FALSE /\ reply = NoReply
    /\ delays = 0 /\ stray = FALSE
    /\ page = "none" /\ timer = FALSE /\ adding = FALSE /\ deletes = 0
    /\ asked = NoName /\ rekeyed = {}

--------------------------------------------------------------------------------
(***************************************************************************)
(* walletAccountBalance(n) for every n of s, back to back.  Each call      *)
(* pushes its name and then looks at the head of the queue, unless a       *)
(* request is under way: a head that names no account is dropped and the   *)
(* call returns, any other head is requested.  So of the m leading names   *)
(* of queue \o s that are no accounts one is dropped per call, and the     *)
(* (m+1)st name is requested if there is a call left for it.               *)
(***************************************************************************)
Drops(all, calls) ==
    {m \in 0..calls : /\ \A i \in 1..m : all[i] \notin DOMAIN accounts
                      /\ m < calls => all[m + 1] \in DOMAIN accounts}

Push(s) ==
    LET all == queue \o s
    IN  /\ Len(all) <= MaxQueue
        /\ \E m \in Drops(all, Len(s)) :
              /\ queue' = SubSeq(all, m + 1, Len(all)) /\ dropped' = (dropped \/ m > 0)
              /\ IF m < Len(s)
                 THEN isRequesting' = TRUE /\ reply' = accounts[all[m + 1]] /\ asked' = all[m + 1]
                 ELSE UNCHANGED <<isRequesting, reply, asked>>
        /\ UNCHANGED <<delays, stray>>

\* Frame::getAccountInfo with page pg on screen.
Polls(pg) == pg \in {"home", "account", "bill", "transfer"} /\ DOMAIN accounts # {}

GetAccountInfoMut(pg) ==   \* stops the timer although nothing is queued
    /\ timer' = FALSE
    /\ UNCHANGED netVars
GetAccountInfo(pg) ==
    IF isRequesting \/ ~Polls(pg)
    THEN UNCHANGED <<netVars, timer>>
    ELSE /\ timer' = FALSE
         /\ IF pg \in {"home", "account"}
            THEN \E s \in Orders(DOMAIN accounts) : Push(s)
            ELSE Push(<<current>>)

\* DataMgr::startQueryBalance, called when no request is under way.
StartQueryBalanceMut ==     \* pops the name when it is requested
    /\ queue # <<>> /\ Head(queue) \in DOMAIN accounts
    /\ isRequesting' = TRUE
    /\ reply' = accounts[Head(queue)] /\ asked' = Head(queue)
    /\ queue' = Tail(queue) /\ UNCHANGED dropped
StartQueryBalance ==
    IF queue = <<>>
    THEN isRequesting' = FALSE /\ UNCHANGED <<queue, reply, asked, dropped>>
    ELSE IF Head(queue) \notin DOMAIN accounts
    THEN /\ queue' = Tail(queue) /\ dropped' = TRUE
         /\ isRequesting' = FALSE /\ UNCHANGED <<reply, asked>>
    ELSE /\ isRequesting' = TRUE
         /\ reply' = accounts[Head(queue)]
         /\ asked' = Head(queue)
         /\ UNCHANGED <<queue, dropped>>

\* DataBase::updateAccount(n) with the balances of address a.
UpdateAccountMut(n, a) ==   \* an update without its where clause
    [m \in DOMAIN rows |-> [rows[m] EXCEPT !.bal = a]]
UpdateAccount(n, a) ==
    IF n \in DOMAIN rows THEN [rows EXCEPT ![n].bal = a] ELSE rows

\* qureyBalanceHttpFinished past its early returns.  parsed: the body is
\* non-empty JSON.  An empty queue emits onWalletAccountBalance, which
\* Frame::walletAccountBalance answers by reading the table again.
TakeReply(parsed) ==
    LET rest == IF parsed THEN Tail(queue) ELSE queue
    IN  /\ reply' = NoReply /\ asked' = NoName
        /\ queue' = rest
        /\ rows' = IF parsed THEN UpdateAccount(Head(queue), reply) ELSE rows
        /\ IF rest = <<>>
           THEN isRequesting' = FALSE /\ accounts' = MapOf(rows') /\ timer' = TRUE /\ UNCHANGED delays
           ELSE delays' = delays + 1 /\ UNCHANGED <<isRequesting, accounts, timer>>
        /\ UNCHANGED <<current, dropped>>

\* DataMgr::qureyBalanceHttpFinished
HttpFinishedMut(parsed) ==  \* the pointer is not checked
    IF ~isRequesting
    THEN UNCHANGED <<dataVars, queue, isRequesting, reply, delays, asked, dropped, timer>>
    ELSE TakeReply(parsed)
HttpFinished(parsed) ==
    IF ~isRequesting \/ reply = NoReply
    THEN UNCHANGED <<dataVars, queue, isRequesting, reply, delays, asked, dropped, timer>>
    ELSE TakeReply(parsed)

--------------------------------------------------------------------------------
(***************************************************************************)
(* The network and the timers.                                             *)
(***************************************************************************)
ReplyOk ==
    /\ reply # NoReply
    /\ HttpFinished(TRUE)
    /\ UNCHANGED <<stray, page, adding, deletes, auxVars>>

\* The server answered with a body that is no JSON, or an empty document.
ReplyUnparsable ==
    /\ reply # NoReply
    /\ HttpFinished(FALSE)
    /\ UNCHANGED <<stray, page, adding, deletes, auxVars>>

\* DataMgr::qureyBalanceHttpError; finished() of the same reply is to follow.
ReplyErrorMut ==            \* no retry is scheduled
    /\ reply # NoReply
    /\ reply' = NoReply /\ asked' = NoName
    /\ UNCHANGED <<dataVars, queue, isRequesting, delays, stray, dropped, uiVars, auxVars>>
ReplyError ==
    /\ reply # NoReply
    /\ reply' = NoReply /\ asked' = NoName
    /\ delays' = delays + 1
    /\ stray' = TRUE
    /\ UNCHANGED <<dataVars, queue, isRequesting, dropped, uiVars, auxVars>>

(***************************************************************************)
(* The finished() that follows an error(): the slot looks at whatever      *)
(* reply the pointer now holds, with what has been received of it.         *)
(***************************************************************************)
StrayFinished ==
    /\ stray
    /\ stray' = FALSE
    /\ \E parsed \in BOOLEAN : HttpFinished(parsed)
    /\ UNCHANGED <<page, adding, deletes, auxVars>>

\* deleteLater() deleted the failed reply before it emitted finished().
StrayDropped ==
    /\ stray
    /\ stray' = FALSE
    /\ UNCHANGED <<dataVars, queue, isRequesting, reply, delays, asked, dropped, uiVars, auxVars>>

\* DataMgr::delayQueryBalance, the 100 ms single shot.
DelayQueryBalance ==
    /\ delays > 0
    /\ delays' = delays - 1
    /\ StartQueryBalance
    /\ UNCHANGED <<dataVars, stray, uiVars, auxVars>>

\* Frame::autoRefresh, the 30 s timer.
AutoRefresh ==
    /\ timer
    /\ GetAccountInfo(page)
    /\ UNCHANGED <<dataVars, page, adding, deletes, auxVars>>

--------------------------------------------------------------------------------
(***************************************************************************)
(* The user.                                                               *)
(***************************************************************************)
\* Frame::alreadyLogin: start the refresh timer and show the home page.
Login ==
    /\ page = "none"
    /\ page' = "home"
    /\ IF Polls("home") THEN GetAccountInfo("home") ELSE timer' = TRUE /\ UNCHANGED netVars
    /\ UNCHANGED <<dataVars, adding, deletes, auxVars>>

\* The buttons of FunctionBar; bills and transfers need an account.
ShowPage(pg) ==
    /\ page # "none" /\ ~adding
    /\ pg \in {"bill", "transfer"} => DOMAIN accounts # {}
    /\ page' = pg
    /\ GetAccountInfo(pg)
    /\ UNCHANGED <<dataVars, adding, deletes, auxVars>>

\* The account combo box of the bill page and of the transfer page.
ChooseAccount(n) ==
    /\ page \in {"bill", "transfer"} /\ ~adding
    /\ n \in DOMAIN accounts
    /\ current' = n
    /\ UNCHANGED <<rows, accounts, netVars, uiVars, auxVars>>

(***************************************************************************)
(* walletAccountCreate / walletImportPrivateKey: insert the row, read the  *)
(* table again.  Of two rows with one name the map keeps the later one.    *)
(* The confirmation dialogs run an event loop of their own before          *)
(* refreshAccountInfo is emitted.                                          *)
(***************************************************************************)
AddAccount(n, a) ==
    /\ page = "account" /\ ~adding
    /\ rows' = [m \in DOMAIN rows \cup {n} |->
                   IF m = n THEN [addr |-> a, bal |-> NoBalance] ELSE rows[m]]
    /\ accounts' = MapOf(rows')
    /\ current' \in IF current = NoName THEN FirstKey(accounts') ELSE {current}
    /\ adding' = TRUE
    /\ rekeyed' = IF reply # NoReply /\ asked = n /\ reply # a
                  THEN rekeyed \cup {n} ELSE rekeyed
    /\ UNCHANGED <<netVars, page, timer, deletes, stale>>

\* The last dialog is closed: emit refreshAccountInfo.
AddDialogClosed ==
    /\ adding /\ page = "account"
    /\ adding' = FALSE
    /\ GetAccountInfo(page)
    /\ UNCHANGED <<dataVars, page, deletes, auxVars>>

(***************************************************************************)
(* walletAccountDelete: the name leaves the map, then the row is moved to  *)
(* abandon_account by a delete and an insert that can each fail.  The      *)
(* current account is replaced only if both succeeded.                     *)
(***************************************************************************)
CurrentAfterDelete(n, m, ok) == IF ok /\ current = n THEN FirstKey(m) ELSE {current}

DeleteAccount(n) ==
    /\ page = "account" /\ ~adding
    /\ n \in DOMAIN accounts
    /\ deletes < MaxDeletes
    /\ deletes' = deletes + 1
    /\ accounts' = [m \in DOMAIN accounts \ {n} |-> accounts[m]]
    /\ \E fault \in DbFaults \cup {"none"} :
          /\ rows' = IF fault = "delete" THEN rows
                     ELSE [m \in DOMAIN rows \ {n} |-> rows[m]]
          /\ current' \in CurrentAfterDelete(n, accounts', fault = "none")
    /\ UNCHANGED <<netVars, page, timer, adding, auxVars>>

--------------------------------------------------------------------------------
Network == ReplyOk \/ ReplyUnparsable \/ ReplyError \/ StrayFinished \/ StrayDropped
Timers  == DelayQueryBalance \/ AutoRefresh
User    == \/ Login \/ AddDialogClosed
           \/ \E pg \in Pages \ {"none"} : ShowPage(pg)
           \/ \E n \in Names : ChooseAccount(n) \/ DeleteAccount(n)
           \/ \E n \in Names, a \in Addrs : AddAccount(n, a)

Next == Network \/ Timers \/ User

Spec == Init /\ [][Next]_vars

(***************************************************************************)
(* The event loop delivers timer events; a request ends (the transport     *)
(* times out at the latest); a server that is asked again and again does   *)
(* answer.  Nothing obliges the user, or the network to fail.              *)
(***************************************************************************)
Fairness ==
    /\ WF_vars(DelayQueryBalance)
    /\ WF_vars(ReplyOk \/ ReplyUnparsable \/ ReplyError)
    /\ SF_vars(ReplyOk)

FairSpec == Spec /\ Fairness

--------------------------------------------------------------------------------
(***************************************************************************)
(* Properties.                                                             *)
(***************************************************************************)
Row == [addr : Addrs, bal : Addrs \cup {NoBalance}]

TypeOK ==
    /\ DOMAIN rows \subseteq Names /\ rows \in [DOMAIN rows -> Row]
    /\ DOMAIN accounts \subseteq Names /\ accounts \in [DOMAIN accounts -> Addrs]
    /\ current \in QNames
    /\ queue \in Seq(QNames) /\ isRequesting \in BOOLEAN
    /\ reply \in Addrs \cup {NoReply} /\ delays \in Nat /\ stray \in BOOLEAN
    /\ page \in Pages /\ timer \in BOOLEAN /\ adding \in BOOLEAN
    /\ deletes \in 0..MaxDeletes /\ asked \in QNames /\ rekeyed \in SUBSET Names
    /\ stale \in BOOLEAN /\ dropped \in BOOLEAN

(***************************************************************************)
(* The flag, the reply pointer and the retry timer agree: while            *)
(* isRequestingBalance is set there is a name left to serve and exactly    *)
(* one of a request in flight and one pending single shot; while it is     *)
(* not set there is neither.  So error() followed by finished() never      *)
(* doubles the requests and never loses the last one.                      *)
(***************************************************************************)
SingleFlight ==
    /\ isRequesting => queue # <<>>
    /\ isRequesting <=> (reply # NoReply \/ delays > 0)
    /\ delays = IF isRequesting /\ reply = NoReply THEN 1 ELSE 0

(***************************************************************************)
(* qureyBalanceHttpFinished books an answer under the name at the head of  *)
(* the queue at that moment: that is the name the request was sent for,    *)
(* whatever was queued, refreshed, added or deleted since.                 *)
(***************************************************************************)
AnswerForAsked == reply # NoReply => queue # <<>> /\ Head(queue) = asked

(***************************************************************************)
(* The balance in a row is the balance of that row's own address, except   *)
(* for a name that was given another key while a request for it was in     *)
(* flight: updateAccount books by name, not by address.                    *)
(***************************************************************************)
OwnBalance ==
    \A n \in DOMAIN rows : rows[n].bal \in {NoBalance, rows[n].addr} \/ n \in rekeyed

(***************************************************************************)
(* Frame stops the refresh timer when it queues names and relies on        *)
(* onWalletAccountBalance to start it again.  As long as no name was       *)
(* dropped as no account that signal is always still to come: the timer is *)
(* active or a request is under way.  And none is dropped unless an        *)
(* account was deleted or the settings named one that is gone.             *)
(***************************************************************************)
RefreshKeepsGoing ==
    /\ page # "none" /\ ~dropped => timer \/ isRequesting
    /\ dropped => deletes > 0 \/ stale

(***************************************************************************)
(* A round only takes names off its queue, from the head: pages, dialogs   *)
(* and timers queue nothing while it runs.  And a balance is booked for    *)
(* the name that leaves the queue with it, so that no answer is booked     *)
(* twice, and none for a name that stays to be asked for again.            *)
(***************************************************************************)
RoundTakesOff ==
    [][/\ isRequesting => queue' \in {queue, Tail(queue)}
       /\ \A n \in DOMAIN rows \cap DOMAIN rows' :
             rows'[n].bal \notin {rows[n].bal, NoBalance} =>
                 isRequesting /\ n = Head(queue) /\ queue' = Tail(queue)]_vars

(***************************************************************************)
(* The inductive invariant: what the properties above rest on.             *)
(***************************************************************************)
\* Every account of the map has its row, with the same address; before the
\* first deletion the map has all of them.
MapAgrees ==
    /\ \A n \in DOMAIN accounts : n \in DOMAIN rows /\ rows[n].addr = accounts[n]
    /\ deletes = 0 => DOMAIN accounts = DOMAIN rows

\* The address in flight is the address of the row it was asked for.
InFlightOwn ==
    reply # NoReply /\ asked \in DOMAIN rows => rows[asked].addr = reply \/ asked \in rekeyed

\* If the current account was known at the start, every queued name, and the
\* current one, is an account before the first deletion.  Until a name is
\* dropped nothing is left in the queue between rounds.
NamesKnown ==
    /\ deletes = 0 /\ ~stale =>
          /\ \A i \in 1..Len(queue) : queue[i] \in DOMAIN accounts
          /\ DOMAIN accounts # {} => current \in DOMAIN accounts
          /\ current = NoName \/ DOMAIN accounts # {}
    /\ dropped \/ isRequesting \/ queue = <<>>

IInv ==
    /\ TypeOK /\ SingleFlight /\ AnswerForAsked /\ OwnBalance
    /\ RefreshKeepsGoing /\ MapAgrees /\ InFlightOwn /\ NamesKnown

(***************************************************************************)
(* The poller implements its abstract cycle.                               *)
(***************************************************************************)
phase == IF ~isRequesting THEN "idle" ELSE IF reply # NoReply THEN "inflight" ELSE "backoff"

Cycle == INSTANCE PollCycle WITH request <- reply

ImplementsCycle == Cycle!Spec

(***************************************************************************)
(* Every round ends: isRequestingBalance is cleared again, so that a later *)
(* refresh can ask anew, whatever fails on the way.                        *)
(***************************************************************************)
RoundEnds == isRequesting ~> ~isRequesting

(***************************************************************************)
(* The account information is refreshed automatically, over and over: once *)
(* logged in, the refresh timer is always active again sooner or later.    *)
(***************************************************************************)
AutoRefreshGoesOn == page # "none" ~> timer
================================================================================
