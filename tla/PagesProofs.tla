------------------------------ MODULE PagesProofs ------------------------------
(***************************************************************************)
(* Proofs about Pages, for any accounts, currencies and delegates, and     *)
(* pages of any length.                                                    *)
(***************************************************************************)
EXTENDS Pages, FiniteSetTheorems, TLAPS

--------------------------------------------------------------------------------
\* Part 1: the page of transactions.

(***************************************************************************)
(* The vector is that of an open page, and filtered by the token that is   *)
(* chosen: an answer that brings nothing may show it again.                *)
(***************************************************************************)
VectorOfChosen ==
    vector # NoRows => billOpen /\ (currency # ACT => vector.kept = currency)

BillInv == BillTypeOK /\ RowsOfChosen /\ VectorOfChosen /\ TableIsVector

LEMMA BillInitInv == BillInit => BillInv
<1> SUFFICES ASSUME BillInit PROVE BillInv
  OBVIOUS
<1>1. 1 \in 1..MaxBillPage /\ 0 \in 0..MaxBillPage /\ ACT \in Coins
  BY BillAssumption DEF Coins
<1>2. BillTypeOK
  BY <1>1 DEF BillInit, BillTypeOK
<1>3. RowsOfChosen /\ VectorOfChosen /\ TableIsVector
  BY DEF BillInit, RowsOfChosen, VectorOfChosen, TableIsVector
<1> QED
  BY <1>2, <1>3 DEF BillInv

\* What is asked for has the type of a query, whether or not it is dropped.
LEMMA RequestTyped ==
    ASSUME BillTypeOK, NEW a \in Accounts, NEW c \in Coins, NEW n \in 1..MaxBillPage,
           UpdateTransactions(a, c, n)
    PROVE  asked' \in Query \cup {None}
BY DEF UpdateTransactions, Request, Query, BillTypeOK

\* A cleared table shows nothing of anybody.
LEMMA ClearedKeeps ==
    ASSUME ClearTransactions
    PROVE  RowsOfChosen' /\ VectorOfChosen' /\ TableIsVector'
           /\ vector' \in Rows \cup {NoRows}
           /\ table' \in [rows : Rows, side : Accounts] \cup {NoRows}
BY DEF ClearTransactions, RowsOfChosen, VectorOfChosen, TableIsVector

LEMMA ShowKeeps ==
    ASSUME BillInv, NEW a \in Accounts, BillShow(a)
    PROVE  BillInv'
<1>0. BillTypeOK
  BY DEF BillInv
<1>1. RowsOfChosen' /\ VectorOfChosen' /\ TableIsVector'
  BY ClearedKeeps DEF BillShow
<1>2. asked' \in Query \cup {None}
  <2>1. currency \in Coins /\ 1 \in 1..MaxBillPage
    BY <1>0, BillAssumption DEF BillTypeOK
  <2> QED
    BY <1>0, <2>1, RequestTyped DEF BillShow
<1>3. BillTypeOK'
  BY <1>0, <1>2, ClearedKeeps, BillAssumption DEF BillShow, BillTypeOK
<1> QED
  BY <1>1, <1>3 DEF BillInv

LEMMA CloseKeeps ==
    ASSUME BillInv, BillClose
    PROVE  BillInv'
<1>0. BillTypeOK
  BY DEF BillInv
<1>1. RowsOfChosen' /\ VectorOfChosen' /\ TableIsVector'
  BY ClearedKeeps DEF BillClose
<1>2. 1 \in 1..MaxBillPage /\ 0 \in 0..MaxBillPage /\ ACT \in Coins
  BY BillAssumption DEF Coins
<1>3. BillTypeOK'
  BY <1>0, <1>2, ClearedKeeps DEF BillClose, BillTypeOK
<1> QED
  BY <1>1, <1>3 DEF BillInv

LEMMA ChooseAccountKeeps ==
    ASSUME BillInv, NEW a \in Accounts, ChooseAccount(a)
    PROVE  BillInv'
<1>0. BillTypeOK
  BY DEF BillInv
<1>1. RowsOfChosen' /\ VectorOfChosen' /\ TableIsVector'
  BY ClearedKeeps DEF ChooseAccount
<1>2. currency \in Coins /\ 1 \in 1..MaxBillPage
  BY <1>0, BillAssumption DEF BillTypeOK
<1>3. asked' \in Query \cup {None}
  BY <1>0, <1>2, RequestTyped DEF ChooseAccount
<1>4. BillTypeOK'
  BY <1>0, <1>2, <1>3, ClearedKeeps DEF ChooseAccount, BillTypeOK
<1> QED
  BY <1>1, <1>4 DEF BillInv

LEMMA ChooseAssetKeeps ==
    ASSUME BillInv, NEW c \in Coins, ChooseAsset(c)
    PROVE  BillInv'
<1>0. BillTypeOK
  BY DEF BillInv
<1>1. CASE c = currency /\ UNCHANGED <<currency, vector, table, asked>>
  BY <1>1 DEF BillInv, ChooseAsset, BillTypeOK, RowsOfChosen, VectorOfChosen, TableIsVector
<1>2. CASE ClearTransactions /\ UpdateTransactions(account, c, page) /\ currency' = c
  <2>1. RowsOfChosen' /\ VectorOfChosen' /\ TableIsVector'
    BY <1>2, ClearedKeeps
  <2>2. account \in Accounts /\ page \in 1..MaxBillPage
    BY <1>0 DEF BillTypeOK
  <2>3. asked' \in Query \cup {None}
    BY <1>0, <1>2, <2>2, RequestTyped
  <2>4. BillTypeOK'
    BY <1>0, <1>2, <2>3, ClearedKeeps DEF ChooseAsset, BillTypeOK
  <2> QED
    BY <2>1, <2>4 DEF BillInv
<1> QED
  BY <1>1, <1>2 DEF ChooseAsset

LEMMA TurnKeeps ==
    ASSUME BillInv, NEW n \in 1..MaxBillPage, TurnTo(n)
    PROVE  BillInv'
<1>0. BillTypeOK
  BY DEF BillInv
<1>1. RowsOfChosen' /\ VectorOfChosen' /\ TableIsVector'
  BY ClearedKeeps DEF TurnTo
<1>2. account \in Accounts /\ currency \in Coins
  BY <1>0 DEF BillTypeOK
<1>3. asked' \in Query \cup {None}
  BY <1>0, <1>2, RequestTyped DEF TurnTo
<1>4. pager' \in BOOLEAN
  BY DEF TurnTo
<1>5. BillTypeOK'
  BY <1>0, <1>3, <1>4, ClearedKeeps DEF TurnTo, BillTypeOK
<1> QED
  BY <1>1, <1>5 DEF BillInv

\* However the request ends, what is displayed is the vector there is then.
LEMMA QueryEndedKeeps ==
    ASSUME BillInv, QueryEnded,
           vector' \in Rows \cup {NoRows},
           vector' # NoRows => billOpen /\ (currency # ACT => vector'.kept = currency)
    PROVE  BillInv'
<1>0. BillTypeOK /\ RowsOfChosen /\ VectorOfChosen /\ TableIsVector
  BY DEF BillInv
<1>1. CASE billOpen /\ Display
  <2>1. lastPage' \in 0..MaxBillPage
    BY <1>1, BillAssumption DEF Display, Rows
  <2>2. table' \in [rows : Rows, side : Accounts] \cup {NoRows}
    BY <1>0, <1>1 DEF Display, BillTypeOK
  <2>3. BillTypeOK'
    BY <1>0, <1>1, <2>1, <2>2 DEF Display, QueryEnded, BillTypeOK
  <2>4. RowsOfChosen' /\ VectorOfChosen' /\ TableIsVector'
    BY <1>1 DEF Display, QueryEnded, RowsOfChosen, VectorOfChosen, TableIsVector
  <2> QED
    BY <2>3, <2>4 DEF BillInv
<1>2. CASE ~billOpen /\ UNCHANGED <<table, pager, lastPage>>
  <2>1. BillTypeOK'
    BY <1>0, <1>2 DEF QueryEnded, BillTypeOK
  <2>2. RowsOfChosen' /\ VectorOfChosen' /\ TableIsVector'
    BY <1>0, <1>2 DEF QueryEnded, RowsOfChosen, VectorOfChosen, TableIsVector
  <2> QED
    BY <2>1, <2>2 DEF BillInv
<1> QED
  BY <1>1, <1>2 DEF QueryEnded

LEMMA BillNextKeeps ==
    ASSUME BillInv, BillNext
    PROVE  BillInv'
<1>0. BillTypeOK /\ VectorOfChosen
  BY DEF BillInv
<1>1. CASE \E a \in Accounts : ChooseAccount(a)
  BY <1>1, ChooseAccountKeeps
<1>2. CASE \E c \in Coins : ChooseAsset(c)
  BY <1>2, ChooseAssetKeeps
<1>3. CASE PrePage
  <2>1. page - 1 \in 1..MaxBillPage
    BY <1>0, <1>3, BillAssumption DEF PrePage, BillTypeOK
  <2> QED
    BY <1>3, <2>1, TurnKeeps DEF PrePage
<1>4. CASE NextPage
  <2>1. page + 1 \in 1..MaxBillPage
    BY <1>0, <1>4, BillAssumption DEF NextPage, BillTypeOK
  <2> QED
    BY <1>4, <2>1, TurnKeeps DEF NextPage
<1>5. CASE AutoRefresh
  <2>1. asked' \in Query \cup {None}
    <3>1. account \in Accounts /\ currency \in Coins /\ page \in 1..MaxBillPage
      BY <1>0 DEF BillTypeOK
    <3> QED
      BY <1>0, <1>5, <3>1, RequestTyped DEF AutoRefresh
  <2> QED
    BY <1>5, <2>1 DEF AutoRefresh, BillInv, BillTypeOK, RowsOfChosen, VectorOfChosen, TableIsVector
<1>6. CASE ListRenewed
  BY <1>6 DEF ListRenewed, BillInv, BillTypeOK, RowsOfChosen, VectorOfChosen, TableIsVector, Coins
<1>7. CASE Answered
  <2>1. PICK total \in 0..MaxBillPage :
            Fill([query |-> asked, kept |-> currency, total |-> total])
    BY <1>7 DEF Answered
  <2>2. [query |-> asked, kept |-> currency, total |-> total] \in Rows
    BY <1>0, <1>7 DEF Answered, Rows, BillTypeOK
  <2>3. vector' \in Rows \cup {NoRows}
    BY <2>1, <2>2 DEF Fill
  <2>4. vector' # NoRows => billOpen /\ (currency # ACT => vector'.kept = currency)
    BY <2>1 DEF Fill
  <2> QED
    BY <1>7, <2>3, <2>4, QueryEndedKeeps DEF Answered
<1>8. CASE Refused
  BY <1>8, QueryEndedKeeps DEF Refused
<1>9. CASE Failed
  <2>1. vector' \in Rows \cup {NoRows}
    BY <1>0, <1>9 DEF Failed, BillTypeOK
  <2>2. vector' # NoRows => billOpen /\ (currency # ACT => vector'.kept = currency)
    BY <1>0, <1>9 DEF Failed, VectorOfChosen
  <2> QED
    BY <1>9, <2>1, <2>2, QueryEndedKeeps DEF Failed
<1> QED
  BY <1>1, <1>2, <1>3, <1>4, <1>5, <1>6, <1>7, <1>8, <1>9 DEF BillNext

--------------------------------------------------------------------------------
\* Part 2: the page of delegates.

DelInv == DelTypeOK /\ ListIsLabelled /\ Covered /\ RequestOfTab

\* The number of pages of the votes.
LEMMA VotePagesNat ==
    ASSUME NEW all \in SUBSET Delegates
    PROVE  VotePages(all) \in Nat \ {0}
<1>1. IsFiniteSet(all)
  BY DelegateAssumption, FS_Subset
<1>2. Cardinality(all) \in Nat
  BY <1>1, FS_CardinalityType
<1>3. CASE all = {}
  BY <1>3 DEF VotePages
<1>4. CASE all # {}
  <2>1. Cardinality(all) >= 1
    BY <1>1, <1>2, <1>4, FS_EmptySet
  <2>2. RowMax \in Nat /\ RowMax >= 1
    BY DelegateAssumption
  <2>3. Cardinality(all) + RowMax - 1 \in Nat /\ Cardinality(all) + RowMax - 1 >= RowMax
    BY <1>2, <2>1, <2>2
  <2>4. \A m, k \in Nat : k >= 1 /\ m >= k => m \div k \in Nat \ {0}
    OBVIOUS
  <2>5. (Cardinality(all) + RowMax - 1) \div RowMax \in Nat \ {0}
    BY <2>2, <2>3, <2>4
  <2> QED
    BY <1>4, <2>5 DEF VotePages
<1> QED
  BY <1>3, <1>4

LEMMA AtMostNat ==
    ASSUME NEW n \in Nat, NEW most \in Nat
    PROVE  AtMost(n, most) \in Nat /\ AtMost(n, most) <= most
BY DEF AtMost

LEMMA NothingRequested == NoRequest.tab = "none"
BY DEF NoRequest

LEMMA DelInitInv == DelInit => DelInv
<1> SUFFICES ASSUME DelInit PROVE DelInv
  OBVIOUS
<1>1. NoRequest \in [tab : {"none", "all", "supported"}, page : Nat, ids : SUBSET Delegates]
  BY DEF NoRequest
<1>2. DelTypeOK
  BY <1>1 DEF DelInit, DelTypeOK
<1>3. ListIsLabelled /\ Covered
  BY DEF DelInit, ListIsLabelled, Covered
<1>4. RequestOfTab
  BY NothingRequested DEF DelInit, RequestOfTab
<1> QED
  BY <1>2, <1>3, <1>4 DEF DelInv

\* A page of all delegates is asked for.
LEMMA AllAsked ==
    ASSUME NEW num \in Nat, GoToAllPage(num), tab' = "all", pageNum' = num, ~swallowed'
    PROVE  /\ waiting' = TRUE
           /\ request' \in [tab : {"none", "all", "supported"}, page : Nat, ids : SUBSET Delegates]
           /\ list' = {} /\ listOf' \in {"none", "all", "supported"} \X Nat
           /\ ListIsLabelled' /\ Covered' /\ RequestOfTab'
<1>1. request' = [tab |-> "all", page |-> num, ids |-> {}] /\ waiting' = TRUE
  BY DEF GoToAllPage, Ask
<1>2. list' = {} /\ listOf' = <<"none", 0>>
  BY DEF GoToAllPage, Clear
<1>3. request'.tab = "all" /\ request'.page = num /\ request' # NoRequest
  BY <1>1 DEF NoRequest
<1>4. RequestOfTab'
  BY <1>3 DEF RequestOfTab
<1>5. ListIsLabelled' /\ Covered'
  BY <1>1, <1>2, <1>3 DEF ListIsLabelled, Covered
<1> QED
  BY <1>1, <1>2, <1>4, <1>5

\* A page of the votes is asked for, when they are those of all.
LEMMA SupportedAsked ==
    ASSUME NEW num \in Nat, NEW all \in SUBSET Delegates, GoToSupportedPage(num, all),
           votes' = all, tab' = "supported", ~swallowed'
    PROVE  /\ waiting' = TRUE /\ pageNum' \in Nat /\ totalPageNum' \in Nat
           /\ request' \in [tab : {"none", "all", "supported"}, page : Nat, ids : SUBSET Delegates]
           /\ list' = {} /\ listOf' \in {"none", "all", "supported"} \X Nat
           /\ ListIsLabelled' /\ Covered' /\ RequestOfTab'
<1> DEFINE n == AtMost(num, VotePages(all))
<1>1. n \in Nat /\ VotePages(all) \in Nat
  BY VotePagesNat, AtMostNat
<1>2. PageOfVotes(n, all) \in SUBSET Delegates
  BY DEF PageOfVotes
<1> HIDE DEF n
<1>3. /\ request' = [tab |-> "supported", page |-> n, ids |-> PageOfVotes(n, all)]
      /\ waiting' = TRUE /\ pageNum' = n /\ totalPageNum' = VotePages(all)
  BY DEF GoToSupportedPage, Ask, n
<1>4. list' = {} /\ listOf' = <<"none", 0>>
  BY DEF GoToSupportedPage, Clear
<1>5. request'.tab = "supported" /\ request'.page = n /\ request'.ids = PageOfVotes(n, all)
  BY <1>3
<1>6. request' # NoRequest
  BY <1>5 DEF NoRequest
<1>7. RequestOfTab'
  BY <1>3, <1>5 DEF RequestOfTab
<1>8. ListIsLabelled' /\ Covered'
  BY <1>3, <1>4, <1>6 DEF ListIsLabelled, Covered
<1>9. request' \in [tab : {"none", "all", "supported"}, page : Nat, ids : SUBSET Delegates]
  BY <1>1, <1>2, <1>3
<1> QED
  BY <1>1, <1>3, <1>4, <1>7, <1>8, <1>9

LEMMA Reset ==
    ASSUME ResetPageNum
    PROVE  pageNum' \in Nat /\ totalPageNum' \in Nat /\ label' \in Nat \X Nat
BY DEF ResetPageNum

LEMMA DelShowKeeps ==
    ASSUME DelInv, DelShow
    PROVE  DelInv' /\ delOpen'
<1>0. DelTypeOK
  BY DEF DelInv
<1>1. GoToAllPage(1) /\ tab' = "all" /\ pageNum' = 1 /\ ~swallowed'
  BY DEF DelShow, ResetPageNum, DelInv, Covered
<1>2. /\ waiting' = TRUE
      /\ request' \in [tab : {"none", "all", "supported"}, page : Nat, ids : SUBSET Delegates]
      /\ list' = {} /\ listOf' \in {"none", "all", "supported"} \X Nat
      /\ ListIsLabelled' /\ Covered' /\ RequestOfTab'
  BY <1>1, AllAsked
<1>3. DelTypeOK'
  BY <1>0, <1>2, Reset DEF DelShow, DelTypeOK, delVotes
<1> QED
  BY <1>2, <1>3 DEF DelInv, DelShow

LEMMA DelCloseKeeps ==
    ASSUME DelInv, DelClose
    PROVE  DelInv'
<1>0. DelTypeOK /\ Covered
  BY DEF DelInv
<1>1. request = NoRequest /\ request' = NoRequest
  BY <1>0 DEF DelClose, Covered
<1>2. list' = {} /\ listOf' \in {"none", "all", "supported"} \X Nat
  BY DEF DelClose, Clear
<1>3. ListIsLabelled' /\ RequestOfTab'
  BY <1>1, <1>2, NothingRequested DEF ListIsLabelled, RequestOfTab
<1>4. Covered'
  BY <1>0 DEF DelClose, Covered
<1>5. DelTypeOK'
  BY <1>0, <1>2, Reset DEF DelClose, DelTypeOK, delVotes
<1> QED
  BY <1>3, <1>4, <1>5 DEF DelInv

LEMMA AllTabKeeps ==
    ASSUME DelInv, AllTab
    PROVE  DelInv'
<1>0. DelTypeOK
  BY DEF DelInv
<1>1. GoToAllPage(1) /\ tab' = "all" /\ pageNum' = 1 /\ ~swallowed'
  BY DEF AllTab, ResetPageNum, DelInv, Covered
<1>2. /\ waiting' = TRUE
      /\ request' \in [tab : {"none", "all", "supported"}, page : Nat, ids : SUBSET Delegates]
      /\ list' = {} /\ listOf' \in {"none", "all", "supported"} \X Nat
      /\ ListIsLabelled' /\ Covered' /\ RequestOfTab'
  BY <1>1, AllAsked
<1>3. DelTypeOK'
  BY <1>0, <1>2, Reset DEF AllTab, DelTypeOK, delVotes
<1> QED
  BY <1>2, <1>3 DEF DelInv

LEMMA SupportedTabKeeps ==
    ASSUME DelInv, SupportedTab
    PROVE  DelInv'
<1>0. DelTypeOK
  BY DEF DelInv
<1>1. GoToSupportedPage(1, votes) /\ tab' = "supported" /\ votes' = votes /\ votes \in SUBSET Delegates
  BY <1>0 DEF SupportedTab, delVotes, DelTypeOK
<1>a. ~swallowed'
  BY DEF SupportedTab, DelInv, Covered
<1>2. /\ waiting' = TRUE /\ pageNum' \in Nat /\ totalPageNum' \in Nat
      /\ request' \in [tab : {"none", "all", "supported"}, page : Nat, ids : SUBSET Delegates]
      /\ list' = {} /\ listOf' \in {"none", "all", "supported"} \X Nat
      /\ ListIsLabelled' /\ Covered' /\ RequestOfTab'
  BY <1>1, <1>a, SupportedAsked
<1>3. DelTypeOK'
  BY <1>0, <1>2 DEF SupportedTab, DelTypeOK, delVotes
<1> QED
  BY <1>2, <1>3 DEF DelInv

LEMMA TurnPageKeeps ==
    ASSUME DelInv, NEW num \in Nat, TurnPage(num)
    PROVE  DelInv'
<1>0. DelTypeOK
  BY DEF DelInv
<1>a. ~swallowed'
  BY DEF TurnPage, DelInv, Covered
<1>1. CASE tab = "all" /\ pageNum' = num /\ GoToAllPage(num) /\ UNCHANGED totalPageNum
  <2>1. tab' = "all"
    BY <1>1 DEF TurnPage
  <2>2. /\ waiting' = TRUE
        /\ request' \in [tab : {"none", "all", "supported"}, page : Nat, ids : SUBSET Delegates]
        /\ list' = {} /\ listOf' \in {"none", "all", "supported"} \X Nat
        /\ ListIsLabelled' /\ Covered' /\ RequestOfTab'
    BY <1>1, <1>a, <2>1, AllAsked
  <2>3. DelTypeOK'
    BY <1>0, <1>1, <2>2 DEF TurnPage, DelTypeOK, delVotes
  <2> QED
    BY <2>2, <2>3 DEF DelInv
<1>2. CASE tab = "supported" /\ GoToSupportedPage(num, votes)
  <2>1. tab' = "supported" /\ votes' = votes /\ votes \in SUBSET Delegates
    BY <1>0, <1>2 DEF TurnPage, delVotes, DelTypeOK
  <2>2. /\ waiting' = TRUE /\ pageNum' \in Nat /\ totalPageNum' \in Nat
        /\ request' \in [tab : {"none", "all", "supported"}, page : Nat, ids : SUBSET Delegates]
        /\ list' = {} /\ listOf' \in {"none", "all", "supported"} \X Nat
        /\ ListIsLabelled' /\ Covered' /\ RequestOfTab'
    BY <1>2, <1>a, <2>1, SupportedAsked
  <2>3. DelTypeOK'
    BY <1>0, <2>2 DEF TurnPage, DelTypeOK, delVotes
  <2> QED
    BY <2>2, <2>3 DEF DelInv
<1> QED
  BY <1>1, <1>2 DEF TurnPage

LEMMA TypePageKeeps ==
    ASSUME DelInv, NEW num \in Nat, TypePage(num)
    PROVE  DelInv'
<1>0. DelTypeOK
  BY DEF DelInv
<1>1. typed' \in Nat
  BY <1>0, AtMostNat DEF TypePage, DelTypeOK
<1>2. DelTypeOK'
  BY <1>0, <1>1 DEF TypePage, DelTypeOK, delVotes
<1>3. ListIsLabelled' /\ Covered' /\ RequestOfTab'
  BY DEF TypePage, DelInv, ListIsLabelled, Covered, RequestOfTab, delVotes
<1> QED
  BY <1>2, <1>3 DEF DelInv

\* A vote is given or taken back while nothing is out.
LEMMA VoteKeeps ==
    ASSUME DelInv, ~waiting, NEW id \in list, Vote(id), UNCHANGED swallowed
    PROVE  DelInv'
<1>0. DelTypeOK /\ ListIsLabelled /\ Covered
  BY DEF DelInv
<1>1. request' = NoRequest
  BY <1>0 DEF Vote, Covered
<1>2. tab = "all"
  <2>1. SUFFICES ASSUME tab = "supported" PROVE FALSE
    BY <1>0 DEF DelTypeOK
  <2>2. id \in PageOfVotes(pageNum, votes)
    BY <1>0, <2>1 DEF ListIsLabelled
  <2> QED
    BY <2>2 DEF Vote, PageOfVotes
<1>3. ListIsLabelled'
  BY <1>0, <1>2 DEF Vote, delView, ListIsLabelled
<1>4. RequestOfTab' /\ Covered'
  BY <1>0, <1>1, NothingRequested DEF Vote, delView, RequestOfTab, Covered
<1>5. DelTypeOK'
  BY <1>0 DEF Vote, delView, DelTypeOK
<1> QED
  BY <1>3, <1>4, <1>5 DEF DelInv

LEMMA TakeBackKeeps ==
    ASSUME DelInv, ~waiting, NEW id \in list, TakeBack(id), UNCHANGED swallowed
    PROVE  DelInv'
<1>0. DelTypeOK /\ ListIsLabelled /\ Covered
  BY DEF DelInv
<1>1. votes' = votes \ {id} /\ votes' \subseteq Delegates /\ voteTable' \subseteq Delegates
  BY <1>0 DEF TakeBack, DelTypeOK
<1>a. ~swallowed'
  BY <1>0 DEF Covered
<1>2. CASE tab = "all" /\ UNCHANGED <<delView, waiting, request>>
  <2>1. request' = NoRequest
    BY <1>0, <1>2 DEF Covered
  <2>2. ListIsLabelled'
    BY <1>0, <1>2 DEF delView, ListIsLabelled
  <2>3. RequestOfTab' /\ Covered'
    BY <1>0, <1>2, <2>1, NothingRequested DEF delView, RequestOfTab, Covered
  <2>4. DelTypeOK'
    BY <1>0, <1>1, <1>2 DEF delView, DelTypeOK
  <2> QED
    BY <2>2, <2>3, <2>4 DEF DelInv
<1>3. CASE /\ tab = "supported" /\ GoToSupportedPage(pageNum, votes \ {id})
           /\ UNCHANGED <<delOpen, tab, label, typed>>
  <2>1. tab' = "supported" /\ votes \ {id} \in SUBSET Delegates /\ pageNum \in Nat
    BY <1>0, <1>3 DEF DelTypeOK
  <2>2. /\ waiting' = TRUE /\ pageNum' \in Nat /\ totalPageNum' \in Nat
        /\ request' \in [tab : {"none", "all", "supported"}, page : Nat, ids : SUBSET Delegates]
        /\ list' = {} /\ listOf' \in {"none", "all", "supported"} \X Nat
        /\ ListIsLabelled' /\ Covered' /\ RequestOfTab'
    BY <1>1, <1>3, <1>a, <2>1, SupportedAsked
  <2>3. DelTypeOK'
    BY <1>0, <1>1, <1>3, <2>2 DEF DelTypeOK
  <2> QED
    BY <2>2, <2>3 DEF DelInv
<1> QED
  BY <1>2, <1>3 DEF TakeBack

LEMMA AllAnsweredKeeps ==
    ASSUME DelInv, AllAnswered
    PROVE  DelInv'
<1>0. DelTypeOK /\ Covered /\ RequestOfTab
  BY DEF DelInv
<1>1. PICK num \in Nat, total \in Nat, ids \in SUBSET Delegates : ShowAll(num, total, ids)
  BY <1>0 DEF AllAnswered, DelTypeOK
<1>2. tab = "all" /\ tab' = "all"
  BY <1>0 DEF AllAnswered, ReplyDone, RequestOfTab
<1>3. request' = NoRequest /\ waiting' = FALSE
  BY DEF AllAnswered, ReplyDone, HideWaitingPage
<1>4. ListIsLabelled'
  BY <1>1, <1>2 DEF ShowAll, ListIsLabelled
<1>5. RequestOfTab'
  BY <1>3, NothingRequested DEF RequestOfTab
<1>6. swallowed' = FALSE
  BY <1>0 DEF AllAnswered, Covered, ReplyDone, DelTypeOK
<1>7. Covered'
  BY <1>3, <1>6 DEF Covered
<1>8. NoRequest \in [tab : {"none", "all", "supported"}, page : Nat, ids : SUBSET Delegates]
  BY DEF NoRequest
<1>9. DelTypeOK'
  BY <1>0, <1>1, <1>3, <1>8 DEF AllAnswered, ShowAll, DelTypeOK, delVotes
<1> QED
  BY <1>4, <1>5, <1>7, <1>9 DEF DelInv

LEMMA IdsAnsweredKeeps ==
    ASSUME DelInv, IdsAnswered
    PROVE  DelInv'
<1>0. DelTypeOK /\ Covered /\ RequestOfTab
  BY DEF DelInv
<1>1. /\ tab' = "supported" /\ pageNum' = pageNum /\ totalPageNum' = VotePages(votes')
      /\ votes' = votes /\ listOf' = <<"supported", pageNum>>
      /\ list' \subseteq PageOfVotes(pageNum, votes) /\ label' = <<pageNum', totalPageNum'>>
  BY <1>0 DEF IdsAnswered, ReplyDone, RequestOfTab, delVotes
<1>2. request' = NoRequest /\ waiting' = FALSE
  BY DEF IdsAnswered, ReplyDone, HideWaitingPage
<1>3. ListIsLabelled'
  BY <1>1 DEF ListIsLabelled
<1>4. RequestOfTab'
  BY <1>2, NothingRequested DEF RequestOfTab
<1>5. swallowed' = FALSE
  BY <1>0 DEF IdsAnswered, Covered, ReplyDone, DelTypeOK
<1>6. Covered'
  BY <1>2, <1>5 DEF Covered
<1>7. NoRequest \in [tab : {"none", "all", "supported"}, page : Nat, ids : SUBSET Delegates]
  BY DEF NoRequest
<1>8. list' \subseteq Delegates
  BY <1>0, <1>1 DEF PageOfVotes, DelTypeOK
<1>9. DelTypeOK'
  <2>1. UNCHANGED <<delOpen, tab, pageNum, totalPageNum, typed, votes, voteTable>>
    BY DEF IdsAnswered, delVotes
  <2>2. pageNum \in Nat /\ totalPageNum \in Nat
    BY <1>0 DEF DelTypeOK
  <2>3. label' \in Nat \X Nat /\ listOf' \in {"none", "all", "supported"} \X Nat
    BY <1>1, <2>1, <2>2
  <2> QED
    BY <1>0, <1>2, <1>5, <1>7, <1>8, <2>1, <2>3 DEF DelTypeOK
<1> QED
  BY <1>3, <1>4, <1>6, <1>9 DEF DelInv

\* An answer that is none: an error hides the waiting page, no JSON does not.
LEMMA NoAnswerKeeps ==
    ASSUME DelInv, AskFailed \/ Garbage
    PROVE  DelInv'
<1>0. DelTypeOK /\ ListIsLabelled /\ Covered
  BY DEF DelInv
<1>1. request' = NoRequest /\ UNCHANGED <<delView, delVotes>>
  BY DEF AskFailed, Garbage, ReplyDone
<1>2. ListIsLabelled'
  BY <1>0, <1>1 DEF delView, delVotes, ListIsLabelled
<1>3. RequestOfTab'
  BY <1>1, NothingRequested DEF RequestOfTab
<1>6. Covered'
  <2>1. CASE AskFailed
    BY <1>0, <1>1, <2>1 DEF AskFailed, HideWaitingPage, ReplyDone, Covered
  <2>2. CASE Garbage
    BY <1>0, <1>1, <2>2 DEF Garbage, ReplyDone, Covered
  <2> QED
    BY <2>1, <2>2
<1>7. NoRequest \in [tab : {"none", "all", "supported"}, page : Nat, ids : SUBSET Delegates]
  BY DEF NoRequest
<1>8. waiting' \in BOOLEAN /\ swallowed' \in BOOLEAN
  BY <1>0 DEF AskFailed, Garbage, HideWaitingPage, DelTypeOK
<1>9. DelTypeOK'
  BY <1>0, <1>1, <1>7, <1>8 DEF DelTypeOK, delView, delVotes
<1> QED
  BY <1>2, <1>3, <1>6, <1>9 DEF DelInv

LEMMA DelNextKeeps ==
    ASSUME DelInv, DelNext
    PROVE  DelInv'
<1>0. DelTypeOK
  BY DEF DelInv
<1>1. CASE AllTab
  BY <1>1, AllTabKeeps
<1>2. CASE SupportedTab
  BY <1>2, SupportedTabKeeps
<1>3. CASE Previous
  <2>1. pageNum - 1 \in Nat
    BY <1>0, <1>3 DEF Previous, DelTypeOK
  <2> QED
    BY <1>3, <2>1, TurnPageKeeps DEF Previous
<1>4. CASE Following
  <2>1. pageNum + 1 \in Nat
    BY <1>0 DEF DelTypeOK
  <2> QED
    BY <1>4, <2>1, TurnPageKeeps DEF Following
<1>5. CASE GoTo
  BY <1>0, <1>5, TurnPageKeeps DEF GoTo, DelTypeOK
<1>6. CASE \E num \in 1..MaxDelPage : TypePage(num)
  <2>1. 1..MaxDelPage \subseteq Nat
    BY DelegateAssumption
  <2> QED
    BY <1>6, <2>1, TypePageKeeps
<1>7. CASE CheckboxClicked
  BY <1>7, VoteKeeps, TakeBackKeeps DEF CheckboxClicked
<1>8. CASE DelAnswer
  BY <1>8, AllAnsweredKeeps, IdsAnsweredKeeps, NoAnswerKeeps DEF DelAnswer
<1> QED
  BY <1>1, <1>2, <1>3, <1>4, <1>5, <1>6, <1>7, <1>8 DEF DelNext

LEMMA DelRestartKeeps ==
    ASSUME DelInv, DelRestart
    PROVE  DelInv'
<1>0. DelTypeOK
  BY DEF DelInv
<1>1. request' = NoRequest /\ waiting' = FALSE /\ swallowed' = FALSE
  BY DEF DelRestart
<1>2. list' = {} /\ listOf' = <<"none", 0>>
  BY DEF DelRestart, Clear
<1>3. ListIsLabelled' /\ RequestOfTab' /\ Covered'
  BY <1>1, <1>2, NothingRequested DEF ListIsLabelled, RequestOfTab, Covered
<1>4. NoRequest \in [tab : {"none", "all", "supported"}, page : Nat, ids : SUBSET Delegates]
  BY DEF NoRequest
<1>5. DelTypeOK'
  BY <1>0, <1>1, <1>2, <1>4, Reset DEF DelRestart, DelTypeOK
<1> QED
  BY <1>3, <1>5 DEF DelInv

--------------------------------------------------------------------------------
\* Part 3: the two together.

IInv == BillInv /\ DelInv /\ OnePage

LEMMA InitIInv == Init => IInv
<1> SUFFICES ASSUME Init PROVE IInv
  OBVIOUS
<1>1. BillInv /\ DelInv
  BY BillInitInv, DelInitInv DEF Init
<1>2. OnePage
  BY DEF Init, BillInit, DelInit, OnePage
<1> QED
  BY <1>1, <1>2 DEF IInv

\* The user's actions on the page of delegates leave it open.
LEMMA DelStaysOpen ==
    ASSUME DelNext, waiting => delOpen
    PROVE  delOpen' = delOpen /\ (waiting' => delOpen')
<1>1. CASE AllTab \/ SupportedTab
  BY <1>1 DEF AllTab, SupportedTab
<1>2. CASE Previous \/ Following \/ GoTo
  BY <1>2 DEF Previous, Following, GoTo, TurnPage
<1>3. CASE \E num \in 1..MaxDelPage : TypePage(num)
  BY <1>3 DEF TypePage
<1>4. CASE CheckboxClicked
  BY <1>4 DEF CheckboxClicked, Vote, TakeBack, delView
<1>5. CASE AllAnswered \/ IdsAnswered
  BY <1>5 DEF AllAnswered, IdsAnswered, HideWaitingPage
<1>6. CASE AskFailed \/ Garbage
  BY <1>6 DEF AskFailed, Garbage, HideWaitingPage, delView
<1> QED
  BY <1>1, <1>2, <1>3, <1>4, <1>5, <1>6 DEF DelNext, DelAnswer

LEMMA BillStaysOpen ==
    ASSUME BillNext
    PROVE  billOpen' = billOpen
BY DEF BillNext, ChooseAccount, ChooseAsset, PrePage, NextPage, TurnTo, AutoRefresh,
       ListRenewed, Answered, Refused, Failed, QueryEnded

LEMMA NextIInv == IInv /\ [Next]_vars => IInv'
<1> SUFFICES ASSUME IInv, [Next]_vars PROVE IInv'
  OBVIOUS
<1>0. BillInv /\ DelInv /\ OnePage
  BY DEF IInv
<1>1. CASE ShowBillPage
  <2>1. BillInv' /\ DelInv'
    BY <1>0, <1>1, ShowKeeps, DelCloseKeeps DEF ShowBillPage
  <2>2. ~delOpen' /\ ~waiting'
    BY <1>1 DEF ShowBillPage, DelClose
  <2> QED
    BY <2>1, <2>2 DEF IInv, OnePage
<1>2. CASE ShowDelegatesPage
  <2>1. BillInv' /\ DelInv' /\ delOpen'
    BY <1>0, <1>2, CloseKeeps, DelShowKeeps DEF ShowDelegatesPage
  <2>2. ~billOpen'
    BY <1>2 DEF ShowDelegatesPage, BillClose
  <2> QED
    BY <2>1, <2>2 DEF IInv, OnePage
<1>3. CASE ShowOtherPage
  <2>1. BillInv' /\ DelInv'
    BY <1>0, <1>3, CloseKeeps, DelCloseKeeps DEF ShowOtherPage
  <2>2. ~billOpen' /\ ~waiting'
    BY <1>3 DEF ShowOtherPage, BillClose, DelClose
  <2> QED
    BY <2>1, <2>2 DEF IInv, OnePage
<1>4. CASE Restart
  <2>1. DelInv'
    BY <1>0, <1>4, DelRestartKeeps DEF Restart
  <2>2. 1 \in 1..MaxBillPage /\ 0 \in 0..MaxBillPage /\ ACT \in Coins
    BY BillAssumption DEF Coins
  <2>3. BillTypeOK'
    BY <1>4, <2>2 DEF Restart, BillTypeOK
  <2>4. RowsOfChosen' /\ VectorOfChosen' /\ TableIsVector'
    BY <1>4 DEF Restart, RowsOfChosen, VectorOfChosen, TableIsVector
  <2>5. OnePage'
    BY <1>4 DEF Restart, DelRestart, OnePage
  <2> QED
    BY <2>1, <2>3, <2>4, <2>5 DEF IInv, BillInv
<1>5. CASE BillStep
  <2>1. BillInv' /\ billOpen' = billOpen
    BY <1>0, <1>5, BillNextKeeps, BillStaysOpen DEF BillStep
  <2>2. DelInv'
    BY <1>0, <1>5 DEF BillStep, delVars, delView, delVotes, DelInv, DelTypeOK,
       ListIsLabelled, Covered, RequestOfTab
  <2>3. OnePage'
    BY <1>0, <1>5, <2>1 DEF BillStep, delVars, delView, OnePage
  <2> QED
    BY <2>1, <2>2, <2>3 DEF IInv
<1>6. CASE DelStep
  <2>1. DelInv' /\ delOpen' = delOpen /\ (waiting' => delOpen')
    BY <1>0, <1>6, DelNextKeeps, DelStaysOpen DEF DelStep, OnePage
  <2>2. BillInv'
    BY <1>0, <1>6 DEF DelStep, billVars, BillInv, BillTypeOK, RowsOfChosen, VectorOfChosen, TableIsVector
  <2>3. OnePage'
    BY <1>0, <1>6, <2>1 DEF DelStep, billVars, OnePage
  <2> QED
    BY <2>1, <2>2, <2>3 DEF IInv
<1>7. CASE UNCHANGED vars
  <2>1. BillInv'
    BY <1>0, <1>7 DEF vars, billVars, BillInv, BillTypeOK, RowsOfChosen, VectorOfChosen, TableIsVector
  <2>2. DelInv'
    BY <1>0, <1>7 DEF vars, delVars, delView, delVotes, DelInv, DelTypeOK,
       ListIsLabelled, Covered, RequestOfTab
  <2>3. OnePage'
    BY <1>0, <1>7 DEF vars, billVars, delVars, delView, OnePage
  <2> QED
    BY <2>1, <2>2, <2>3 DEF IInv
<1> QED
  BY <1>1, <1>2, <1>3, <1>4, <1>5, <1>6, <1>7 DEF Next

\* The inductive invariant holds of the specification.
THEOREM Invariance == Spec => []IInv
<1>1. Init => IInv
  BY InitIInv
<1>2. IInv /\ [Next]_vars => IInv'
  BY NextIInv
<1> QED
  BY <1>1, <1>2, PTL DEF Spec

(***************************************************************************)
(* Every variable of the two pages keeps its type, for any accounts,       *)
(* currencies, delegates and lengths of a page.                            *)
(***************************************************************************)
THEOREM TypeCorrect == Spec => []PagesTypeOK
<1>1. IInv => PagesTypeOK
  BY DEF IInv, BillInv, DelInv, PagesTypeOK
<1> QED
  BY <1>1, Invariance, PTL

(***************************************************************************)
(* The signs of the amounts are those of the account that is chosen, and   *)
(* while a token is chosen no row of another coin is shown.                *)
(***************************************************************************)
THEOREM RowsFollowChoice == Spec => []RowsOfChosen
<1>1. IInv => RowsOfChosen
  BY DEF IInv, BillInv
<1> QED
  BY <1>1, Invariance, PTL

(***************************************************************************)
(* The delegates shown are those of the tab, the page and the label, and   *)
(* in the second tab those of that page of the votes.                      *)
(***************************************************************************)
THEOREM ListLabelled == Spec => []ListIsLabelled
<1>1. IInv => ListIsLabelled
  BY DEF IInv, DelInv
<1> QED
  BY <1>1, Invariance, PTL

(***************************************************************************)
(* What is on screen is what TokenTransaction has, with its number of      *)
(* pages and the buttons to turn them, however choices, answers, errors    *)
(* and pages that are closed follow each other.                            *)
(***************************************************************************)
THEOREM TableFollowsVector == Spec => []TableIsVector
<1>1. IInv => TableIsVector
  BY DEF IInv, BillInv
<1> QED
  BY <1>1, Invariance, PTL

(***************************************************************************)
(* The frame is covered while a request of the delegates is out and not    *)
(* longer, but for an answer that is no JSON: what WaitingPageEnds rests   *)
(* on, together with the end of every request.                             *)
(***************************************************************************)
THEOREM CoveredByRequest == Spec => []Covered
<1>1. IInv => Covered
  BY DEF IInv, DelInv
<1> QED
  BY <1>1, Invariance, PTL

(***************************************************************************)
(* An answer, which tells neither tab nor page, is of the tab and the page *)
(* that are chosen when it comes, and of the votes as they are then.       *)
(***************************************************************************)
THEOREM RequestFitsTab == Spec => []RequestOfTab
<1>1. IInv => RequestOfTab
  BY DEF IInv, DelInv
<1> QED
  BY <1>1, Invariance, PTL

(***************************************************************************)
(* One of the two pages is shown at a time, and the frame is covered only  *)
(* while it is the page of delegates.                                      *)
(***************************************************************************)
THEOREM OnePageShown == Spec => []OnePage
<1>1. IInv => OnePage
  BY DEF IInv
<1> QED
  BY <1>1, Invariance, PTL
================================================================================
