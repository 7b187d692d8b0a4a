------------------------------ MODULE AssetFetch ------------------------------
(***************************************************************************)
(* The list of currencies: DataMgr asks for it at start and, after an      *)
(* error, every ten minutes (datamgr.cpp), saves each answer in the        *)
(* database (database.cpp) and begins with what it saved the next time.    *)
(* The answers of the balance poller are filtered by _currency_name_map.   *)
(*                                                                         *)
(* One pointer, fetchAssetInfoReply, stands for the request; the timer     *)
(* does not look whether the last one is over, and a signal does not say   *)
(* which request it is of.  error() and the finished() that follows it are *)
(* one step: nothing comes between them, and the second finds the pointer  *)
(* null and the timer there.                                               *)
(*                                                                         *)
(* An operator called XMut is a slip a programmer could make in X.  No     *)
(* specification uses it; it replaces X to show that a property can fail.  *)
(***************************************************************************)
EXTENDS Naturals, FiniteSets

CONSTANTS
    Tokens,    \* the tokens the server may list
    ACT,       \* the chain's own currency
    Reqs,      \* requests; a bound on how many are in flight at once
    None,      \* nullptr
    Faults     \* "hang": an answer may take more than ten minutes,
               \* "garbage": a body that is no list, "sql": statements fail,
               \* "crash": the program dies, the database as far as it got

ASSUME TokenAssumption == ACT \notin Tokens
ASSUME ReqAssumption == None \notin Reqs

Currencies == Tokens \cup {ACT}

VARIABLES
    running,   \* the program runs
    table,     \* the rows of table currency
    booked,    \* currencies in the balance column of an account
    holds,     \* currencies the server knows a balance of the account in
    list,      \* _currency_list
    names,     \* the keys of _currency_name_map
    reply,     \* fetchAssetInfoReply
    inFlight,  \* requests that have not ended and whose reply is not deleted
    timer,     \* timerGetAsset runs
    answered,  \* auxiliary: since the start a body was parsed, a list or not
    sent,      \* auxiliary: the lists the server has sent
    mishaps    \* auxiliary: "sql", a statement has failed, and "unread", a list
               \* was made of a body that is none or of another request

memory == <<list, names>>
request == <<reply, inFlight, timer, answered>>
history == <<sent, mishaps>>
vars == <<running, table, booked, holds, memory, request, history>>

--------------------------------------------------------------------------------
\* DataMgr::initCurrencyListFromDB; the names of the list are not filled in.
FromTableMut == table       \* nothing saved, nothing listed
FromTable == IF table = {} THEN {ACT} ELSE table

Init ==
    /\ running = TRUE
    /\ table = {} /\ booked = {} /\ holds \in SUBSET Currencies
    /\ list = {ACT} /\ names = {}
    /\ reply \in Reqs /\ inFlight = {reply} /\ timer = FALSE
    /\ answered = FALSE /\ sent = {} /\ mishaps = {}

\* fetchAssetInfo
Fetch ==
    \E r \in Reqs \ inFlight : reply' = r /\ inFlight' = inFlight \cup {r}

\* main: the constructor asks, then the list is loaded.
Restart ==
    /\ ~running /\ running' = TRUE
    /\ list' = FromTable /\ names' = {}
    /\ \E r \in Reqs : reply' = r /\ inFlight' = {r}
    /\ timer' = FALSE /\ answered' = FALSE
    /\ UNCHANGED <<table, booked, holds, history>>

Die ==
    /\ running' = FALSE
    /\ reply' = None /\ inFlight' = {} /\ timer' = FALSE /\ answered' = FALSE
    /\ UNCHANGED <<booked, holds, memory>>

\* The retry timer.
Timer ==
    /\ running /\ timer
    /\ inFlight # {} => "hang" \in Faults
    /\ Fetch
    /\ UNCHANGED <<running, table, booked, holds, memory, timer, answered, history>>

--------------------------------------------------------------------------------
\* DataMgr::parseContract: names is cleared with the list.
ParseMut(body) ==           \* names are entered once only
    /\ list' = body \cup {ACT}
    /\ names' = IF names = {} THEN body \cup {ACT} ELSE names
Parse(body) ==
    /\ list' = body \cup {ACT}
    /\ names' = body \cup {ACT}

\* DataBase::updateCurrencyList: delete, then insert in a transaction; a row
\* that fails is left out.
UpdateCurrencyListMut(rows, slips) ==       \* the old rows are not deleted
    /\ table' = table \cup rows /\ mishaps' = mishaps \cup slips
UpdateCurrencyList(rows, slips) ==
    \/ table' = rows /\ mishaps' = mishaps \cup slips
    \/ /\ "sql" \in Faults /\ (table' = table \/ table' \in SUBSET rows)
       /\ mishaps' = mishaps \cup slips \cup {"sql"}

\* onFetchAssetInfoFinished of request r.  The body is read from reply, which
\* has none yet if it is a later request: its reply is deleted unread.
BodyOf(r, body) == IF reply = r THEN body ELSE {}

Finish(r) ==
    /\ reply' = None /\ inFlight' = inFlight \ {r, reply}

Finished(r, body, slips) ==
    /\ running /\ r \in inFlight /\ reply # None
    /\ Finish(r)
    /\ Parse(BodyOf(r, body))
    /\ UpdateCurrencyList(list', IF reply = r THEN slips ELSE {"unread"})
    /\ timer' = FALSE /\ answered' = TRUE
    /\ UNCHANGED <<running, booked, holds>>

\* The same when the reply was deleted by the end of another request.
FinishedLate(r) ==
    /\ running /\ r \in inFlight /\ reply = None
    /\ inFlight' = inFlight \ {r} /\ timer' = TRUE
    /\ UNCHANGED <<running, table, booked, holds, memory, reply, answered, mishaps>>

ServerAnswers ==
    \E r \in Reqs :
        \/ \E body \in SUBSET Tokens :
               /\ Finished(r, body, {}) \/ FinishedLate(r)
               /\ sent' = sent \cup {body \cup {ACT}}
        \/ "garbage" \in Faults /\ Finished(r, {}, {"unread"}) /\ UNCHANGED sent

\* onFetchAssetInfoError.  The pointer is used before it is compared with
\* null: if it is null the program dies, or goes on by luck.
ErrorMut(r) ==              \* the pointer is not reset
    /\ running /\ r \in inFlight
    /\ inFlight' = inFlight \ {r, reply} /\ timer' = TRUE
    /\ UNCHANGED <<running, table, booked, holds, memory, reply, answered, history>>
ErrorMut2(r) ==             \* nobody asks again
    /\ running /\ r \in inFlight
    /\ Finish(r)
    /\ UNCHANGED <<running, table, booked, holds, memory, timer, answered, history>>
Error(r) ==
    /\ running /\ r \in inFlight
    /\ \/ /\ Finish(r)
          /\ timer' = TRUE
          /\ UNCHANGED <<running, booked, holds, memory, answered>>
       \/ reply = None /\ Die
    /\ UNCHANGED <<table, history>>

\* The program is killed, or dies after the delete of updateCurrencyList and
\* before the commit.
Crash ==
    /\ running /\ "crash" \in Faults
    /\ Die
    /\ \/ UNCHANGED table
       \/ reply # None /\ inFlight # {} /\ table' = {}
    /\ UNCHANGED history

\* qureyBalanceHttpFinished keeps the balances of the currencies it knows.
BalanceAnswer ==
    /\ running
    /\ booked' = holds \cap names
    /\ UNCHANGED <<running, table, holds, memory, request, history>>

--------------------------------------------------------------------------------
Next ==
    \/ Restart \/ Timer \/ ServerAnswers \/ (\E r \in Reqs : Error(r)) \/ Crash
    \/ BalanceAnswer

\* QTimer fires, and a server that is asked again and again answers at last.
Spec ==
    /\ Init /\ [][Next]_vars
    /\ WF_vars(Timer) /\ SF_vars(ServerAnswers)

--------------------------------------------------------------------------------
\* Every variable has its type; there is a first currency.
TypeOK ==
    /\ running \in BOOLEAN /\ timer \in BOOLEAN /\ answered \in BOOLEAN
    /\ table \subseteq Currencies /\ booked \subseteq Currencies /\ holds \subseteq Currencies
    /\ list \in (SUBSET Currencies) \ {{}} /\ names \subseteq Currencies
    /\ sent \subseteq SUBSET Currencies /\ mishaps \subseteq {"sql", "unread"}
    /\ reply \in Reqs \cup {None} /\ inFlight \subseteq Reqs

(***************************************************************************)
(* The pointer is null or the reply of a request that has not ended: no    *)
(* handler reads from a reply that another one has deleted.                *)
(***************************************************************************)
ReplyAlive == reply # None => reply \in inFlight

(***************************************************************************)
(* What is saved and shown is a list the server has sent, whole, or ACT    *)
(* alone because nothing is saved, and once a body was parsed the two are  *)
(* the same; unless statements failed or a body was taken for a list that  *)
(* is none.                                                                *)
(***************************************************************************)
SavedIsSent ==
    mishaps = {} =>
        /\ table \in sent \cup {{}} /\ list \in sent \cup {{ACT}}
        /\ answered => table = list

(***************************************************************************)
(* Once a body was parsed, a stored balance of a currency that stays       *)
(* listed is not dropped as long as the server reports it.  (Before, the   *)
(* names that filter the answers are empty, though the list was loaded:    *)
(* the first answer after a start drops every balance.)                    *)
(***************************************************************************)
KeepsBalances ==
    [][answered => booked \cap holds \cap list \cap list' \subseteq booked']_vars

(***************************************************************************)
(* The list is at last one the server has sent since it was asked, unless  *)
(* the program stops or requests overlap for ever.  The exception: a body  *)
(* that is no list, or that is read for another request, is parsed as a    *)
(* list of nothing and ends the retries: ACT is all there is until the     *)
(* next start.                                                             *)
(***************************************************************************)
Overlap == Cardinality(inFlight) > 1

ListIsSent == answered /\ list \in sent

ListArrives ==
    <>[]~Overlap => (running ~> (ListIsSent \/ "unread" \in mishaps \/ ~running))
================================================================================
