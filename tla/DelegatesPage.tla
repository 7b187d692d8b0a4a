----------------------------- MODULE DelegatesPage -----------------------------
(***************************************************************************)
(* The page of the delegates (delegatespage.cpp), the votes it records     *)
(* (datamgr.cpp, database.cpp) and its two requests: a page of all         *)
(* delegates, and the records of the delegates voted for.                  *)
(*                                                                         *)
(* Both lists share a view, a page number, a label and a waiting page that *)
(* covers the whole frame; what is covered gets no input, so one request   *)
(* is out at a time.  An answer tells neither the tab nor the page it was  *)
(* asked for.  An answer that is no JSON makes no signal, and the waiting  *)
(* page stays.  error() and the finished() that follows are one step.      *)
(*                                                                         *)
(* The votes are sorted by id; a page of them is RowMax of that order.     *)
(*                                                                         *)
(* An operator called XMut is a slip a programmer could make in X.  No     *)
(* specification uses it; it replaces X to show that a property can fail.  *)
(***************************************************************************)
EXTENDS Integers, FiniteSets

CONSTANTS
    Delegates,    \* the ids of the delegates
    RowMax,       \* PAGE_ROW_MAX
    MaxDelPage    \* a bound on the pages the server has of all delegates

ASSUME DelegateAssumption ==
    /\ Delegates \subseteq Nat /\ IsFiniteSet(Delegates)
    /\ RowMax \in Nat \ {0} /\ MaxDelPage \in Nat \ {0}

VARIABLES
    delOpen,      \* the page exists
    tab,          \* tabFlag
    pageNum, totalPageNum,
    label,        \* the two numbers of pageLabel
    list,         \* the delegates of the list model, {} after a clear
    listOf,       \* auxiliary: the tab and page the list was asked for
    typed,        \* the page number in pageLineEdit, 0 if it is empty
    waiting,      \* waitingPage is shown
    request,      \* what is out: the tab, the page and for "supported" the ids
    swallowed,    \* auxiliary: an answer was no JSON, nobody was told
    votes,        \* pVoteDelegateAccounts
    voteTable     \* the ids in table vote_delegate_account

delView == <<delOpen, tab, pageNum, totalPageNum, label, list, listOf, typed>>
delVotes == <<votes, voteTable>>
delVars == <<delView, waiting, request, swallowed, delVotes>>

NoRequest == [tab |-> "none", page |-> 0, ids |-> {}]

--------------------------------------------------------------------------------
\* Page n of the votes: the positions (n - 1) * RowMax and on of their order.
Place(id, all) == Cardinality({v \in all : v < id})
PageOfVotes(n, all) ==
    {id \in all : (n - 1) * RowMax <= Place(id, all) /\ Place(id, all) < n * RowMax}

VotePages(all) == IF all = {} THEN 1 ELSE (Cardinality(all) + RowMax - 1) \div RowMax

AtMost(n, most) == IF n > most THEN most ELSE n

Clear == list' = {} /\ listOf' = <<"none", 0>>
Ask(what) == waiting' = TRUE /\ request' = what

GoToAllPageMut(num) ==      \* the list is kept while the answer is out
    /\ Ask([tab |-> "all", page |-> num, ids |-> {}])
    /\ UNCHANGED <<list, listOf>>
GoToAllPage(num) ==
    /\ Ask([tab |-> "all", page |-> num, ids |-> {}])
    /\ Clear

\* goToSupportedPage; all are the votes, those a click has just changed.
GoToSupportedPage(num, all) ==
    /\ totalPageNum' = VotePages(all)
    /\ pageNum' = AtMost(num, VotePages(all))
    /\ Ask([tab |-> "supported", page |-> AtMost(num, VotePages(all)),
            ids |-> PageOfVotes(AtMost(num, VotePages(all)), all)])
    /\ Clear

ResetPageNum == pageNum' = 1 /\ totalPageNum' = 1 /\ label' = <<1, 1>>

DelInit ==
    /\ delOpen = FALSE /\ tab = "all" /\ pageNum = 1 /\ totalPageNum = 1
    /\ label = <<1, 1>> /\ list = {} /\ listOf = <<"none", 0>> /\ typed = 0
    /\ waiting = FALSE /\ request = NoRequest /\ swallowed = FALSE
    /\ votes = {} /\ voteTable = {}

\* Frame::showDelegatesPage: the constructor clicks the first tab.
DelShow ==
    /\ ~waiting
    /\ delOpen' = TRUE /\ tab' = "all" /\ typed' = 0
    /\ ResetPageNum /\ GoToAllPage(1)
    /\ UNCHANGED <<swallowed, delVotes>>

DelClose ==
    /\ ~waiting
    /\ delOpen' = FALSE /\ tab' = "all" /\ typed' = 0
    /\ ResetPageNum /\ Clear
    /\ UNCHANGED <<waiting, request, swallowed, delVotes>>

\* on_allDelegatesBtn_clicked, on_supportedDelegatesBtn_clicked
AllTab ==
    /\ delOpen /\ ~waiting
    /\ tab' = "all"
    /\ ResetPageNum /\ GoToAllPage(1)
    /\ UNCHANGED <<delOpen, typed, swallowed, delVotes>>
SupportedTab ==
    /\ delOpen /\ ~waiting
    /\ tab' = "supported" /\ label' = <<1, 1>>
    /\ GoToSupportedPage(1, votes)
    /\ UNCHANGED <<delOpen, typed, swallowed, delVotes>>

\* on_prePageBtn_clicked, on_nextPageBtn_clicked, on_goToBtn_clicked
TurnPage(num) ==
    /\ delOpen /\ ~waiting
    /\ \/ tab = "all" /\ pageNum' = num /\ GoToAllPage(num) /\ UNCHANGED totalPageNum
       \/ tab = "supported" /\ GoToSupportedPage(num, votes)
    /\ UNCHANGED <<delOpen, tab, label, typed, swallowed, delVotes>>

Previous == pageNum > 1 /\ TurnPage(pageNum - 1)
Following == pageNum < totalPageNum /\ TurnPage(pageNum + 1)
GoTo == tab = "all" /\ typed # 0 /\ TurnPage(typed)

\* on_pageLineEdit_textChanged; the field is hidden in the other tab.
TypePage(num) ==
    /\ delOpen /\ ~waiting /\ tab = "all"
    /\ typed' = AtMost(num, totalPageNum)
    /\ UNCHANGED <<delOpen, tab, pageNum, totalPageNum, label, list, listOf,
                   waiting, request, swallowed, delVotes>>

\* saveVoteDelegateAccount, deleteVoteDelegateAccount: the memory first, then
\* the table, whose statement may fail.
Vote(id) ==
    /\ id \notin votes /\ votes' = votes \cup {id}
    /\ voteTable' \in {voteTable, voteTable \cup {id}}
    /\ UNCHANGED <<delView, waiting, request>>
TakeBack(id) ==
    /\ id \in votes /\ votes' = votes \ {id}
    /\ voteTable' \in {voteTable, voteTable \ {id}}
    /\ \/ tab = "all" /\ UNCHANGED <<delView, waiting, request>>
       \/ /\ tab = "supported" /\ GoToSupportedPage(pageNum, votes \ {id})
          /\ UNCHANGED <<delOpen, tab, label, typed>>

\* onCheckboxClicked, in the row of a delegate that is shown.
CheckboxClicked ==
    /\ delOpen /\ ~waiting
    /\ \E id \in list : Vote(id) \/ TakeBack(id)
    /\ UNCHANGED swallowed

--------------------------------------------------------------------------------
ReplyDone == request # NoRequest /\ request' = NoRequest
HideWaitingPage == waiting' = FALSE

\* onDelegateAccountsFinished and the page's callback: a page of delegates, or
\* an error object, which reads as page 0 of 0.
ShowAll(num, total, ids) ==
    /\ pageNum' = num /\ totalPageNum' = total /\ label' = <<num, total>>
    /\ list' = ids /\ listOf' = <<"all", num>>

AllAnswered ==
    /\ request.tab = "all" /\ ReplyDone /\ HideWaitingPage
    /\ \/ ShowAll(0, 0, {})
       \/ \E total \in 1..MaxDelPage, ids \in SUBSET Delegates :
              ShowAll(request.page, total, ids)
    /\ UNCHANGED <<delOpen, tab, typed, swallowed, delVotes>>

\* onDelegateAccountsByIdsFinished: the records of those ids the server knows.
IdsAnswered ==
    /\ request.tab = "supported" /\ ReplyDone /\ HideWaitingPage
    /\ label' = <<pageNum, totalPageNum>>
    /\ list' \in SUBSET request.ids /\ listOf' = <<"supported", request.page>>
    /\ UNCHANGED <<delOpen, tab, pageNum, totalPageNum, typed, swallowed, delVotes>>

\* onDelegateAccountsError, onDelegateAccountsByIdsError
AskFailedMut ==                 \* the waiting page stays
    /\ ReplyDone
    /\ UNCHANGED <<delView, waiting, swallowed, delVotes>>
AskFailed ==
    /\ ReplyDone /\ HideWaitingPage
    /\ UNCHANGED <<delView, swallowed, delVotes>>

\* An empty document: no signal.
Garbage ==
    /\ ReplyDone /\ swallowed' = TRUE
    /\ UNCHANGED <<delView, waiting, delVotes>>

DelAnswer == AllAnswered \/ IdsAnswered \/ AskFailed \/ Garbage

\* main, with the votes as the table has them.
DelRestart ==
    /\ delOpen' = FALSE /\ tab' = "all" /\ typed' = 0
    /\ ResetPageNum /\ Clear
    /\ waiting' = FALSE /\ request' = NoRequest /\ swallowed' = FALSE
    /\ votes' = voteTable /\ UNCHANGED voteTable

DelNext ==
    \/ AllTab \/ SupportedTab \/ Previous \/ Following \/ GoTo
    \/ (\E num \in 1..MaxDelPage : TypePage(num))
    \/ CheckboxClicked \/ DelAnswer

--------------------------------------------------------------------------------
\* Every variable has its type; one of two kinds of request is out, or none.
DelTypeOK ==
    /\ delOpen \in BOOLEAN /\ waiting \in BOOLEAN /\ swallowed \in BOOLEAN
    /\ tab \in {"all", "supported"}
    /\ pageNum \in Nat /\ totalPageNum \in Nat /\ typed \in Nat /\ label \in Nat \X Nat
    /\ list \subseteq Delegates /\ listOf \in {"none", "all", "supported"} \X Nat
    /\ request \in [tab : {"none", "all", "supported"}, page : Nat, ids : SUBSET Delegates]
    /\ votes \subseteq Delegates /\ voteTable \subseteq Delegates

(***************************************************************************)
(* The delegates listed are those of the tab that is chosen and of the     *)
(* page the label names, the one the buttons go on from; and those of the  *)
(* second tab are voted for, on that page of the votes as they are now:    *)
(* whatever failed, was clicked or was changed in between.                 *)
(***************************************************************************)
ListIsLabelled ==
    list # {} =>
        /\ listOf = <<tab, pageNum>> /\ label = <<pageNum, totalPageNum>>
        /\ tab = "supported" =>
               list \subseteq PageOfVotes(pageNum, votes) /\ totalPageNum = VotePages(votes)

(***************************************************************************)
(* The frame is covered exactly while an answer is awaited, or was no JSON *)
(* and is awaited for ever: no error and no change of tab leaves it        *)
(* covered without a request, and none uncovers it while one is out.       *)
(***************************************************************************)
Covered ==
    /\ waiting <=> request # NoRequest \/ swallowed
    /\ swallowed => request = NoRequest

(***************************************************************************)
(* A request is of the tab and the page that are chosen, one for votes of  *)
(* the votes as they are now: an answer, which tells neither, never fills  *)
(* the other list or another page.                                         *)
(***************************************************************************)
RequestOfTab ==
    request # NoRequest =>
        /\ request.tab = tab /\ request.page = pageNum
        /\ tab = "supported" =>
               request.ids = PageOfVotes(pageNum, votes) /\ totalPageNum = VotePages(votes)

(***************************************************************************)
(* The page that covers the frame goes away, by an answer or by an error,  *)
(* unless the answer is no JSON.                                           *)
(***************************************************************************)
WaitingPageEnds == waiting ~> (~waiting \/ swallowed)
================================================================================
