-------------------------- MODULE AssetFetchProofs --------------------------
(***************************************************************************)
(* Proofs about AssetFetch, for every set of tokens, any number of         *)
(* requests and any faults.                                                *)
(***************************************************************************)
EXTENDS AssetFetch, TLAPS

(***************************************************************************)
(* Until a body was parsed, a request is in flight or the timer will ask   *)
(* again: no order of errors and late answers loses both.                  *)
(***************************************************************************)
AsksAgain == running /\ ~answered => timer \/ reply # None

(***************************************************************************)
(* Without a list of the server's the program waits: a request that has    *)
(* not ended is out, or the timer will ask again.  Only a body that is no  *)
(* list, or that was read for another request, has ever ended that.        *)
(***************************************************************************)
AsksForList ==
    running /\ ~ListIsSent /\ "unread" \notin mishaps => timer \/ inFlight # {}

(***************************************************************************)
(* Once a body was parsed, the balances accepted are those of its          *)
(* currencies and no others.                                               *)
(***************************************************************************)
AcceptsListed == answered => names = list

(***************************************************************************)
(* The inductive invariant: the type and what relates the pointer, the     *)
(* requests and the timer.                                                 *)
(***************************************************************************)
IInv == TypeOK /\ ReplyAlive /\ AsksAgain /\ AcceptsListed

LEMMA FromTableListed ==
    ASSUME table \subseteq Currencies
    PROVE  FromTable \in (SUBSET Currencies) \ {{}}
BY DEF FromTable, Currencies

LEMMA ParsedListed ==
    ASSUME NEW body \in SUBSET Tokens
    PROVE  body \cup {ACT} \in (SUBSET Currencies) \ {{}}
BY DEF Currencies

LEMMA SavedListed ==
    ASSUME TypeOK, NEW rows \in SUBSET Currencies, NEW slips \in SUBSET {"sql", "unread"},
           UpdateCurrencyList(rows, slips)
    PROVE  table' \subseteq Currencies /\ mishaps' \subseteq {"sql", "unread"}
BY DEF UpdateCurrencyList, TypeOK

LEMMA InitIInv == Init => IInv
<1> SUFFICES ASSUME Init PROVE IInv
  OBVIOUS
<1>1. TypeOK
  BY DEF Init, TypeOK, Currencies
<1>2. ReplyAlive /\ AsksAgain /\ AcceptsListed
  BY ReqAssumption DEF Init, ReplyAlive, AsksAgain, AcceptsListed
<1> QED
  BY <1>1, <1>2 DEF IInv

LEMMA DieKeeps ==
    ASSUME IInv, Die, table' \subseteq Currencies, UNCHANGED history
    PROVE  IInv'
<1>1. TypeOK'
  BY DEF Die, IInv, TypeOK, memory, history
<1>2. ReplyAlive' /\ AsksAgain' /\ AcceptsListed'
  BY DEF Die, ReplyAlive, AsksAgain, AcceptsListed
<1> QED
  BY <1>1, <1>2 DEF IInv

LEMMA FinishedKeeps ==
    ASSUME IInv, NEW r \in Reqs, NEW body \in SUBSET Tokens,
           NEW slips \in SUBSET {"sql", "unread"}, Finished(r, body, slips),
           sent' \subseteq SUBSET Currencies
    PROVE  IInv'
<1>0. TypeOK
  BY DEF IInv
<1>1. BodyOf(r, body) \in SUBSET Tokens
  BY DEF BodyOf
<1>2. list' \in (SUBSET Currencies) \ {{}} /\ names' = list'
  BY <1>1, ParsedListed DEF Finished, Parse
<1>3. table' \subseteq Currencies /\ mishaps' \subseteq {"sql", "unread"}
  <2>1. (IF reply = r THEN slips ELSE {"unread"}) \in SUBSET {"sql", "unread"}
    OBVIOUS
  <2>2. UpdateCurrencyList(list', IF reply = r THEN slips ELSE {"unread"})
    BY DEF Finished
  <2> QED
    BY <1>0, <1>2, <2>1, <2>2, SavedListed
<1>4. TypeOK'
  BY <1>0, <1>2, <1>3 DEF Finished, Finish, TypeOK
<1>5. ReplyAlive' /\ AsksAgain' /\ AcceptsListed'
  BY <1>2 DEF Finished, Finish, ReplyAlive, AsksAgain, AcceptsListed
<1> QED
  BY <1>4, <1>5 DEF IInv

LEMMA NextIInv == IInv /\ [Next]_vars => IInv'
<1> SUFFICES ASSUME IInv, [Next]_vars PROVE IInv'
  OBVIOUS
<1>0. TypeOK
  BY DEF IInv
<1>1. CASE UNCHANGED vars
  BY <1>1 DEF vars, memory, request, history, IInv, TypeOK, ReplyAlive, AsksAgain, AcceptsListed
<1>2. CASE Restart
  <2>1. TypeOK'
    BY <1>0, <1>2, FromTableListed DEF Restart, TypeOK, history
  <2>2. ReplyAlive' /\ AsksAgain' /\ AcceptsListed'
    BY <1>2, ReqAssumption DEF Restart, ReplyAlive, AsksAgain, AcceptsListed
  <2> QED
    BY <2>1, <2>2 DEF IInv
<1>3. CASE Timer
  <2>1. TypeOK'
    BY <1>0, <1>3 DEF Timer, Fetch, TypeOK, memory, history
  <2>2. ReplyAlive' /\ AsksAgain' /\ AcceptsListed'
    BY <1>3 DEF Timer, Fetch, IInv, ReplyAlive, AsksAgain, AcceptsListed, memory
  <2> QED
    BY <2>1, <2>2 DEF IInv
<1>4. CASE ServerAnswers
  <2>1. ASSUME NEW r \in Reqs, NEW body \in SUBSET Tokens, Finished(r, body, {}),
               sent' = sent \cup {body \cup {ACT}}
        PROVE  IInv'
    <3>1. sent' \subseteq SUBSET Currencies
      BY <1>0, <2>1 DEF TypeOK, Currencies
    <3> QED
      BY <2>1, <3>1, FinishedKeeps
  <2>2. ASSUME NEW r \in Reqs, Finished(r, {}, {"unread"}), UNCHANGED sent
        PROVE  IInv'
    <3>1. sent' \subseteq SUBSET Currencies
      BY <1>0, <2>2 DEF TypeOK
    <3> QED
      BY <2>2, <3>1, FinishedKeeps
  <2>3. ASSUME NEW r \in Reqs, NEW body \in SUBSET Tokens, FinishedLate(r),
               sent' = sent \cup {body \cup {ACT}}
        PROVE  IInv'
    <3>1. sent' \subseteq SUBSET Currencies
      BY <1>0, <2>3 DEF TypeOK, Currencies
    <3>2. TypeOK'
      BY <1>0, <2>3, <3>1 DEF FinishedLate, TypeOK, memory
    <3>3. ReplyAlive' /\ AsksAgain' /\ AcceptsListed'
      BY <2>3 DEF FinishedLate, IInv, ReplyAlive, AsksAgain, AcceptsListed, memory
    <3> QED
      BY <3>2, <3>3 DEF IInv
  <2> QED
    BY <1>4, <2>1, <2>2, <2>3 DEF ServerAnswers
<1>5. ASSUME NEW r \in Reqs, Error(r) PROVE IInv'
  <2>1. CASE reply = None /\ Die
    <3>1. table' \subseteq Currencies /\ UNCHANGED history
      BY <1>0, <1>5 DEF Error, TypeOK
    <3> QED
      BY <2>1, <3>1, DieKeeps
  <2>2. CASE /\ Finish(r) /\ timer' = TRUE
             /\ UNCHANGED <<running, booked, holds, memory, answered>>
    <3>1. TypeOK'
      BY <1>0, <1>5, <2>2 DEF Error, Finish, TypeOK, memory, history
    <3>2. ReplyAlive' /\ AsksAgain' /\ AcceptsListed'
      BY <2>2 DEF Finish, IInv, ReplyAlive, AsksAgain, AcceptsListed, memory
    <3> QED
      BY <3>1, <3>2 DEF IInv
  <2> QED
    BY <1>5, <2>1, <2>2 DEF Error
<1>6. CASE Crash
  <2>1. table' \subseteq Currencies /\ UNCHANGED history
    BY <1>0, <1>6 DEF Crash, TypeOK
  <2> QED
    BY <1>6, <2>1, DieKeeps DEF Crash
<1>7. CASE BalanceAnswer
  <2>1. TypeOK'
    BY <1>0, <1>7 DEF BalanceAnswer, TypeOK, memory, request, history
  <2>2. ReplyAlive' /\ AsksAgain' /\ AcceptsListed'
    BY <1>7 DEF BalanceAnswer, IInv, ReplyAlive, AsksAgain, AcceptsListed, memory, request
  <2> QED
    BY <2>1, <2>2 DEF IInv
<1> QED
  BY <1>1, <1>2, <1>3, <1>4, <1>5, <1>6, <1>7 DEF Next

LEMMA Invariance == Spec => []IInv
BY InitIInv, NextIInv, PTL DEF Spec

(***************************************************************************)
(* The list is never empty, and every variable keeps its type.             *)
(***************************************************************************)
THEOREM TypeCorrect == Spec => []TypeOK
<1>1. IInv => TypeOK
  BY DEF IInv
<1> QED
  BY <1>1, Invariance, PTL

(***************************************************************************)
(* fetchAssetInfoReply is null or the reply of a request that goes on,     *)
(* however many requests overlap.                                          *)
(***************************************************************************)
THEOREM ReplyNeverDangles == Spec => []ReplyAlive
<1>1. IInv => ReplyAlive
  BY DEF IInv
<1> QED
  BY <1>1, Invariance, PTL

(***************************************************************************)
(* Once a body was parsed the balance poller accepts what is listed.       *)
(***************************************************************************)
THEOREM PollerFollowsList == Spec => []AcceptsListed
<1>1. IInv => AcceptsListed
  BY DEF IInv
<1> QED
  BY <1>1, Invariance, PTL

(***************************************************************************)
(* No answer to a request for balances drops one the list and the server   *)
(* still have.                                                             *)
(***************************************************************************)
THEOREM BalancesKept == Spec => KeepsBalances
<1>1. IInv /\ [Next]_vars =>
          [answered => booked \cap holds \cap list \cap list' \subseteq booked']_vars
  <2> SUFFICES ASSUME IInv, Next, answered
               PROVE  booked \cap holds \cap list \cap list' \subseteq booked'
    OBVIOUS
  <2>1. CASE BalanceAnswer
    <3>1. names = list
      BY DEF IInv, AcceptsListed
    <3> QED
      BY <2>1, <3>1 DEF BalanceAnswer
  <2>2. CASE Restart \/ Timer \/ ServerAnswers \/ Crash
    BY <2>2 DEF Restart, Timer, ServerAnswers, Finished, FinishedLate, Crash, Die
  <2>3. ASSUME NEW r \in Reqs, Error(r)
        PROVE  booked' = booked
    BY <2>3 DEF Error, Die
  <2> QED
    BY <2>1, <2>2, <2>3 DEF Next
<1> QED
  BY <1>1, Invariance, PTL DEF Spec, KeepsBalances

--------------------------------------------------------------------------------
(***************************************************************************)
(* Whatever crashed, the saved list is gone or it is whole: ACT, which the *)
(* program takes for the first currency, is in it.                         *)
(***************************************************************************)
SavedWhole == "sql" \notin mishaps => (table # {} => ACT \in table) /\ ACT \in list

(***************************************************************************)
(* SavedWhole and SavedIsSent are inductive by themselves: what was a      *)
(* mishap before a step is one after it, and every step that saves or      *)
(* loads a list without one keeps them.                                    *)
(***************************************************************************)
LEMMA SavedNext ==
    ASSUME SavedWhole, [Next]_vars
    PROVE  SavedWhole'
<1>1. CASE UNCHANGED vars
  BY <1>1 DEF vars, memory, history, SavedWhole
<1>2. CASE Restart
  BY <1>2 DEF Restart, FromTable, SavedWhole, history
<1>3. CASE Timer \/ BalanceAnswer
  BY <1>3 DEF Timer, BalanceAnswer, memory, SavedWhole, history
<1>4. CASE ServerAnswers
  <2>1. ASSUME NEW r, NEW body, NEW slips, Finished(r, body, slips) PROVE SavedWhole'
    <3>1. ACT \in list'
      BY <2>1 DEF Finished, Parse
    <3>2. table' = list' \/ "sql" \in mishaps'
      BY <2>1 DEF Finished, UpdateCurrencyList
    <3> QED
      BY <3>1, <3>2 DEF SavedWhole
  <2>2. ASSUME NEW r, FinishedLate(r) PROVE SavedWhole'
    BY <2>2 DEF FinishedLate, memory, SavedWhole
  <2> QED
    BY <1>4, <2>1, <2>2 DEF ServerAnswers
<1>5. ASSUME NEW r \in Reqs, Error(r) PROVE SavedWhole'
  BY <1>5 DEF Error, Die, memory, SavedWhole, history
<1>6. CASE Crash
  BY <1>6 DEF Crash, Die, memory, SavedWhole, history
<1> QED
  BY <1>1, <1>2, <1>3, <1>4, <1>5, <1>6 DEF Next

LEMMA SentNext ==
    ASSUME SavedIsSent, [Next]_vars
    PROVE  SavedIsSent'
<1>1. CASE UNCHANGED vars
  BY <1>1 DEF vars, memory, request, history, SavedIsSent
<1>2. CASE Restart
  BY <1>2 DEF Restart, FromTable, SavedIsSent, history
<1>3. CASE Timer \/ BalanceAnswer
  BY <1>3 DEF Timer, BalanceAnswer, memory, request, SavedIsSent, history
<1>4. CASE ServerAnswers
  <2>1. ASSUME NEW r, NEW body, Finished(r, body, {}), sent' = sent \cup {body \cup {ACT}}
        PROVE  SavedIsSent'
    <3>1. CASE reply = r
      <4>1. list' = body \cup {ACT}
        BY <2>1, <3>1 DEF Finished, Parse, BodyOf
      <4>2. table' = list' \/ "sql" \in mishaps'
        BY <2>1 DEF Finished, UpdateCurrencyList
      <4> QED
        BY <2>1, <4>1, <4>2 DEF SavedIsSent
    <3>2. CASE reply # r
      <4>1. "unread" \in mishaps'
        BY <2>1, <3>2 DEF Finished, UpdateCurrencyList
      <4> QED
        BY <4>1 DEF SavedIsSent
    <3> QED
      BY <3>1, <3>2
  <2>2. ASSUME NEW r, Finished(r, {}, {"unread"}) PROVE SavedIsSent'
    <3>1. "unread" \in mishaps'
      BY <2>2 DEF Finished, UpdateCurrencyList
    <3> QED
      BY <3>1 DEF SavedIsSent
  <2>3. ASSUME NEW r, NEW body, FinishedLate(r), sent' = sent \cup {body \cup {ACT}}
        PROVE  SavedIsSent'
    BY <2>3 DEF FinishedLate, memory, SavedIsSent
  <2> QED
    BY <1>4, <2>1, <2>2, <2>3 DEF ServerAnswers
<1>5. ASSUME NEW r \in Reqs, Error(r) PROVE SavedIsSent'
  BY <1>5 DEF Error, Die, memory, history, SavedIsSent
<1>6. CASE Crash
  BY <1>6 DEF Crash, Die, memory, history, SavedIsSent
<1> QED
  BY <1>1, <1>2, <1>3, <1>4, <1>5, <1>6 DEF Next

(***************************************************************************)
(* Whatever crashes, the next start finds ACT or nothing: updateCurrency-  *)
(* List deletes outside of its transaction, but never leaves a part.       *)
(***************************************************************************)
THEOREM SavedListWhole == Spec => []SavedWhole
<1>1. Init => SavedWhole
  BY DEF Init, SavedWhole
<1>2. SavedWhole /\ [Next]_vars => SavedWhole'
  BY SavedNext
<1> QED
  BY <1>1, <1>2, PTL DEF Spec

(***************************************************************************)
(* The list shown and the list saved are one the server sent, however      *)
(* requests, errors and crashes are interleaved.                           *)
(***************************************************************************)
THEOREM SavedListSent == Spec => []SavedIsSent
<1>1. Init => SavedIsSent
  BY DEF Init, SavedIsSent
<1>2. SavedIsSent /\ [Next]_vars => SavedIsSent'
  BY SentNext
<1> QED
  BY <1>1, <1>2, PTL DEF Spec

(***************************************************************************)
(* A body that was parsed for its own request is the list that is shown.   *)
(***************************************************************************)
ParsedIsSent == answered /\ "unread" \notin mishaps => list \in sent

LEMMA ParsedNext ==
    ASSUME ParsedIsSent, [Next]_vars
    PROVE  ParsedIsSent'
<1>1. CASE UNCHANGED vars
  BY <1>1 DEF vars, memory, request, history, ParsedIsSent
<1>2. CASE Restart
  BY <1>2 DEF Restart, ParsedIsSent
<1>3. CASE Timer \/ BalanceAnswer
  <2>1. UNCHANGED <<list, answered, sent, mishaps>>
    BY <1>3 DEF Timer, BalanceAnswer, memory, request, history
  <2> QED
    BY <2>1 DEF ParsedIsSent
<1>4. CASE ServerAnswers
  <2>1. ASSUME NEW r, NEW body, Finished(r, body, {}), sent' = sent \cup {body \cup {ACT}}
        PROVE  ParsedIsSent'
    <3>1. CASE reply = r
      BY <2>1, <3>1 DEF Finished, Parse, BodyOf, ParsedIsSent
    <3>2. CASE reply # r
      <4>1. "unread" \in mishaps'
        BY <2>1, <3>2 DEF Finished, UpdateCurrencyList
      <4> QED
        BY <4>1 DEF ParsedIsSent
    <3> QED
      BY <3>1, <3>2
  <2>2. ASSUME NEW r, Finished(r, {}, {"unread"}) PROVE ParsedIsSent'
    <3>1. "unread" \in mishaps'
      BY <2>2 DEF Finished, UpdateCurrencyList
    <3> QED
      BY <3>1 DEF ParsedIsSent
  <2>3. ASSUME NEW r, NEW body, FinishedLate(r), sent' = sent \cup {body \cup {ACT}}
        PROVE  ParsedIsSent'
    BY <2>3 DEF FinishedLate, memory, ParsedIsSent
  <2> QED
    BY <1>4, <2>1, <2>2, <2>3 DEF ServerAnswers
<1>5. ASSUME NEW r \in Reqs, Error(r) PROVE ParsedIsSent'
  BY <1>5 DEF Error, Die, memory, history, ParsedIsSent
<1>6. CASE Crash
  BY <1>6 DEF Crash, Die, memory, history, ParsedIsSent
<1> QED
  BY <1>1, <1>2, <1>3, <1>4, <1>5, <1>6 DEF Next

(***************************************************************************)
(* Unless a body that is no list, or was read for another request, was     *)
(* ever parsed, a program that does not show a list the server has sent    *)
(* has a request out or the timer running, whatever the order of errors,   *)
(* late answers and crashes.                                               *)
(***************************************************************************)
THEOREM NeverGivesUp == Spec => []AsksForList
<1>1. Init => ParsedIsSent
  BY DEF Init, ParsedIsSent
<1>2. ParsedIsSent /\ [Next]_vars => ParsedIsSent'
  BY ParsedNext
<1>3. IInv /\ ParsedIsSent => AsksForList
  <2> SUFFICES ASSUME IInv, ParsedIsSent, running, ~ListIsSent, "unread" \notin mishaps
               PROVE  timer \/ inFlight # {}
    BY DEF AsksForList
  <2>1. ~answered
    BY DEF ParsedIsSent, ListIsSent
  <2>2. timer \/ reply # None
    BY <2>1 DEF IInv, AsksAgain
  <2> QED
    BY <2>2 DEF IInv, ReplyAlive
<1> QED
  BY <1>1, <1>2, <1>3, Invariance, PTL DEF Spec
================================================================================
