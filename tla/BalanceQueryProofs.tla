-------------------------- MODULE BalanceQueryProofs --------------------------
(***************************************************************************)
(* The balance poller is correct for every set of names and addresses,     *)
(* every bound and every choice of failing SQL statements.                 *)
(***************************************************************************)
EXTENDS BalanceQuery, SequenceTheorems, FiniteSetTheorems, TLAPS

--------------------------------------------------------------------------------
(***************************************************************************)
(* What a call of Frame::getAccountInfo leaves behind: nothing changed, or *)
(* a round begins.                                                         *)
(***************************************************************************)
Requested ==
    /\ isRequesting' = TRUE
    /\ queue' # <<>>
    /\ asked' = Head(queue')
    /\ asked' \in DOMAIN accounts
    /\ reply' = accounts[asked']

Round ==
    /\ ~isRequesting
    /\ timer' = FALSE
    /\ queue' \in Seq(QNames)
    /\ UNCHANGED <<delays, stray>>
    /\ Requested \/ UNCHANGED <<isRequesting, reply, asked>>
    /\ dropped' \in BOOLEAN
    /\ ~dropped' => Requested /\ ~dropped
    /\ deletes = 0 /\ ~stale =>
          /\ Requested /\ dropped' = dropped
          /\ \A i \in 1..Len(queue') : queue'[i] \in DOMAIN accounts

\* An order of the accounts is a non-empty sequence of accounts.
LEMMA OrdersType ==
    ASSUME NEW S \in SUBSET Names, S # {}, NEW s \in Orders(S)
    PROVE  s \in Seq(QNames) /\ Len(s) > 0 /\ \A i \in 1..Len(s) : s[i] \in S
<1>1. Cardinality(S) \in Nat /\ Cardinality(S) # 0
  BY NamesAssumption, FS_Subset, FS_CardinalityType, FS_EmptySet
<1>2. s \in [1..Cardinality(S) -> S]
  BY DEF Orders
<1>3. s \in Seq(S) /\ Len(s) = Cardinality(S)
  BY <1>1, <1>2
<1> QED BY <1>1, <1>2, <1>3 DEF QNames

\* The calls of one loop either leave no request or request the head of the
\* queue; if all names are accounts they request it.
LEMMA PushEffect ==
    ASSUME TypeOK, NEW s \in Seq(QNames), Push(s)
    PROVE  /\ queue' \in Seq(QNames)
           /\ UNCHANGED <<delays, stray>>
           /\ Requested \/ UNCHANGED <<isRequesting, reply, asked>>
           /\ dropped' \in BOOLEAN
           /\ Len(s) > 0 /\ ~dropped' => Requested /\ ~dropped
           /\ /\ Len(s) > 0
              /\ \A i \in 1..Len(queue) : queue[i] \in DOMAIN accounts
              /\ \A i \in 1..Len(s) : s[i] \in DOMAIN accounts
              => /\ Requested /\ dropped' = dropped
                 /\ \A i \in 1..Len(queue') : queue'[i] \in DOMAIN accounts
<1> DEFINE all == queue \o s
<1>1. PICK m \in Drops(all, Len(s)) :
         /\ queue' = SubSeq(all, m + 1, Len(all)) /\ dropped' = (dropped \/ m > 0)
         /\ IF m < Len(s)
            THEN isRequesting' = TRUE /\ reply' = accounts[all[m + 1]] /\ asked' = all[m + 1]
            ELSE UNCHANGED <<isRequesting, reply, asked>>
  BY DEF Push
<1>2. /\ all \in Seq(QNames) /\ Len(all) = Len(queue) + Len(s)
      /\ \A i \in 1..Len(all) : all[i] = IF i <= Len(queue) THEN queue[i] ELSE s[i - Len(queue)]
  BY ConcatProperties DEF TypeOK
<1>3. /\ m \in 0..Len(s)
      /\ \A i \in 1..m : all[i] \notin DOMAIN accounts
      /\ m < Len(s) => all[m + 1] \in DOMAIN accounts
  BY DEF Drops
<1>4. Len(queue) \in Nat /\ Len(s) \in Nat /\ m \in Nat /\ m <= Len(all)
  BY <1>2, <1>3, LenProperties DEF TypeOK
<1> HIDE DEF all
<1>5. /\ queue' \in Seq(QNames)
      /\ Len(queue') = Len(all) - m
      /\ \A i \in 1..Len(all) - m : queue'[i] = all[m + i]
  <2> DEFINE sub == SubSeq(all, m + 1, Len(all))
  <2>1. \A i \in m + 1..Len(all) : all[i] \in QNames
    BY <1>2, <1>4, ElementOfSeq
  <2>2. m + 1 \in Int /\ Len(all) \in Int
    BY <1>2, <1>4
  <2>3. /\ sub \in Seq(QNames)
        /\ Len(sub) = IF m + 1 <= Len(all) THEN Len(all) - (m + 1) + 1 ELSE 0
        /\ \A i \in 1..Len(all) - (m + 1) + 1 : sub[i] = all[m + 1 + i - 1]
    BY <2>1, <2>2, SubSeqProperties
  <2>4. queue' = sub
    BY <1>1
  <2> HIDE DEF sub
  <2> QED BY <2>2, <2>3, <2>4, <1>2, <1>4
<1>6. m < Len(s) => Requested
  <2> SUFFICES ASSUME m < Len(s) PROVE Requested
    OBVIOUS
  <2>1. queue' # <<>> /\ Head(queue') = queue'[1] /\ queue'[1] = all[m + 1]
    BY <1>2, <1>4, <1>5
  <2> QED BY <2>1, <1>1, <1>3 DEF Requested
<1>7. ~(m < Len(s)) => UNCHANGED <<isRequesting, reply, asked>>
  BY <1>1
<1>8. ASSUME Len(s) > 0,
             \A i \in 1..Len(queue) : queue[i] \in DOMAIN accounts,
             \A i \in 1..Len(s) : s[i] \in DOMAIN accounts
      PROVE  /\ Requested /\ dropped' = dropped
             /\ \A i \in 1..Len(queue') : queue'[i] \in DOMAIN accounts
  <2>1. \A i \in 1..Len(all) : all[i] \in DOMAIN accounts
    <3> SUFFICES ASSUME NEW i \in 1..Len(all) PROVE all[i] \in DOMAIN accounts
      OBVIOUS
    <3>1. CASE i <= Len(queue)
      <4>1. i \in 1..Len(queue) /\ all[i] = queue[i]
        BY <1>2, <1>4, <3>1
      <4> QED BY <4>1, <1>8
    <3>2. CASE ~(i <= Len(queue))
      <4>1. i - Len(queue) \in 1..Len(s) /\ all[i] = s[i - Len(queue)]
        BY <1>2, <1>4, <3>2
      <4> QED BY <4>1, <1>8
    <3> QED BY <3>1, <3>2
  <2>2. m = 0
    BY <2>1, <1>2, <1>3, <1>4, <1>8
  <2>3. Requested
    BY <2>2, <1>6, <1>8
  <2>4. dropped' = dropped
    <3>1. (m > 0) = FALSE
      BY <2>2
    <3> QED BY <3>1, <1>1 DEF TypeOK
  <2> QED BY <2>1, <2>2, <2>3, <2>4, <1>4, <1>5
<1>9. UNCHANGED <<delays, stray>>
  BY DEF Push
<1>10. dropped' \in BOOLEAN /\ (Len(s) > 0 /\ ~dropped' => Requested /\ ~dropped)
  <2>1. dropped' = (dropped \/ m > 0)
    BY <1>1
  <2>2. m = 0 /\ Len(s) > 0 => Requested
    BY <1>6
  <2>3. m > 0 \/ m = 0
    BY <1>4
  <2> QED BY <2>1, <2>2, <2>3
<1> QED BY <1>5, <1>6, <1>7, <1>8, <1>9, <1>10

\* Frame::getAccountInfo changes nothing, or begins a round.
LEMMA GetAccountInfoEffect ==
    ASSUME IInv, NEW pg, GetAccountInfo(pg)
    PROVE  \/ (isRequesting \/ ~Polls(pg)) /\ UNCHANGED <<netVars, timer>>
           \/ Round
<1> USE DEF IInv
<1> SUFFICES ASSUME ~isRequesting, Polls(pg) PROVE Round
  BY DEF GetAccountInfo
<1>1. timer' = FALSE
  BY DEF GetAccountInfo
<1>2. DOMAIN accounts \in SUBSET Names /\ DOMAIN accounts # {}
  BY DEF Polls, TypeOK
<1>3. PICK s \in Seq(QNames) :
        /\ Push(s) /\ Len(s) > 0
        /\ deletes = 0 /\ ~stale => \A i \in 1..Len(s) : s[i] \in DOMAIN accounts
  <2>1. CASE pg \in {"home", "account"}
    <3>1. PICK s \in Orders(DOMAIN accounts) : Push(s)
      BY <2>1 DEF GetAccountInfo
    <3> QED BY <3>1, <1>2, OrdersType
  <2>2. CASE pg \notin {"home", "account"}
    <3>1. Push(<<current>>)
      BY <2>2 DEF GetAccountInfo
    <3>2. <<current>> \in Seq(QNames) /\ Len(<<current>>) = 1 /\ <<current>>[1] = current
      BY DEF TypeOK
    <3>3. deletes = 0 /\ ~stale => current \in DOMAIN accounts
      BY <1>2 DEF NamesKnown
    <3> <<current>> \in Seq(QNames)
      BY <3>2
    <3> WITNESS <<current>> \in Seq(QNames)
    <3> QED BY <3>1, <3>2, <3>3
  <2> QED BY <2>1, <2>2
<1>4. deletes = 0 /\ ~stale => \A i \in 1..Len(queue) : queue[i] \in DOMAIN accounts
  BY DEF NamesKnown
<1> QED BY <1>1, <1>3, <1>4, PushEffect DEF Round

--------------------------------------------------------------------------------
(***************************************************************************)
(* IInv is inductive.                                                      *)
(***************************************************************************)
LEMMA InitIInv == Init => IInv
<1> SUFFICES ASSUME Init PROVE IInv
  OBVIOUS
<1>0. PICK S \in SUBSET Names : \E f \in [S -> Addrs] :
        rows = [n \in S |-> [addr |-> f[n], bal |-> NoBalance]]
  BY DEF Init
<1>1. PICK f \in [S -> Addrs] : rows = [n \in S |-> [addr |-> f[n], bal |-> NoBalance]]
  BY <1>0
<1>2. accounts = [n \in S |-> f[n]]
  BY <1>1 DEF Init, MapOf
<1>a. /\ DOMAIN rows = S /\ rows \in [S -> Row]
      /\ DOMAIN accounts = S /\ accounts \in [S -> Addrs]
  BY <1>1, <1>2 DEF Row
<1>b. /\ current \in (IF S = {} THEN {NoName} ELSE S) \cup Names
      /\ stale = (current \in Names \ S) /\ dropped = FALSE
  BY <1>a DEF Init, FirstKey
<1>3. TypeOK
  <2>1. current \in QNames
    BY <1>b DEF QNames
  <2>2. queue \in Seq(QNames) /\ delays \in Nat /\ deletes \in 0..MaxDeletes
    <3>1. queue = <<>> /\ delays = 0 /\ deletes = 0
      BY DEF Init
    <3> QED BY <3>1, BoundsAssumption
  <2>3. /\ reply \in Addrs \cup {NoReply} /\ stray \in BOOLEAN /\ isRequesting \in BOOLEAN
        /\ asked \in QNames /\ rekeyed \in SUBSET Names
        /\ page \in Pages /\ timer \in BOOLEAN /\ adding \in BOOLEAN
    BY DEF Init, Pages, QNames
  <2>4. stale \in BOOLEAN /\ dropped \in BOOLEAN
    <3> DEFINE gone == current \in Names \ S
    <3>1. stale = gone /\ dropped = FALSE
      BY <1>b
    <3>2. gone = TRUE \/ gone = FALSE
      OBVIOUS
    <3> HIDE DEF gone
    <3> QED BY <3>1, <3>2
  <2> QED BY <1>a, <2>1, <2>2, <2>3, <2>4 DEF TypeOK
<1>4. SingleFlight /\ AnswerForAsked /\ InFlightOwn /\ RefreshKeepsGoing
  BY DEF Init, SingleFlight, AnswerForAsked, InFlightOwn, RefreshKeepsGoing
<1>5. OwnBalance /\ MapAgrees
  BY <1>1, <1>2 DEF OwnBalance, MapAgrees
<1>6. NamesKnown
  <2>1. queue = <<>>
    BY DEF Init
  <2>2. \A i \in 1..Len(queue) : queue[i] \in DOMAIN accounts
    BY <2>1
  <2> QED BY <1>a, <1>b, <2>1, <2>2 DEF NamesKnown
<1> QED BY <1>3, <1>4, <1>5, <1>6 DEF IInv

\* A handler that only calls getAccountInfo keeps the invariant.
LEMMA PollKeepsIInv ==
    ASSUME IInv, UNCHANGED <<dataVars, deletes, auxVars>>,
           page' \in Pages, adding' \in BOOLEAN,
           \/ (page # "none" \/ timer \/ isRequesting) /\ UNCHANGED <<netVars, timer>>
           \/ UNCHANGED netVars /\ timer' = TRUE
           \/ Round
    PROVE  IInv'
<1> USE DEF IInv
<1>1. UNCHANGED <<rows, accounts, current, deletes, rekeyed, stale>>
  BY DEF dataVars, auxVars
<1>2. CASE UNCHANGED netVars /\ (\/ (page # "none" \/ timer \/ isRequesting) /\ UNCHANGED timer
                                \/ timer' = TRUE)
  <2>1. UNCHANGED <<queue, isRequesting, reply, delays, stray, asked, dropped>>
    BY <1>2 DEF netVars
  <2> QED
    BY <1>1, <1>2, <2>1 DEF TypeOK, SingleFlight, AnswerForAsked, OwnBalance,
       RefreshKeepsGoing, MapAgrees, InFlightOwn, NamesKnown
<1>3. CASE Round
  <2>1. reply = NoReply /\ delays = 0
    BY <1>3 DEF Round, SingleFlight, TypeOK
  <2>2. TypeOK'
    <3>1. asked' \in QNames /\ reply' \in Addrs \cup {NoReply} /\ isRequesting' \in BOOLEAN
      BY <1>3 DEF Round, Requested, TypeOK, QNames
    <3> QED BY <1>1, <1>3, <3>1 DEF Round, TypeOK
  <2>3. SingleFlight' /\ AnswerForAsked'
    BY <1>1, <1>3, <2>1, AddrsAssumption DEF Round, Requested, SingleFlight, AnswerForAsked, TypeOK
  <2>4. InFlightOwn'
    BY <1>1, <1>3, <2>1 DEF Round, Requested, InFlightOwn, MapAgrees
  <2>5. OwnBalance' /\ MapAgrees'
    BY <1>1 DEF OwnBalance, MapAgrees
  <2>6. RefreshKeepsGoing' /\ NamesKnown'
    <3>1. deletes = 0 \/ deletes > 0
      BY BoundsAssumption DEF TypeOK
    <3>2. deletes > 0 \/ stale \/ dropped' = dropped
      BY <1>3, <3>1 DEF Round
    <3>3. RefreshKeepsGoing'
      BY <1>1, <1>3, <3>2 DEF Round, Requested, RefreshKeepsGoing
    <3>4. NamesKnown'
      BY <1>1, <1>3 DEF Round, Requested, NamesKnown
    <3> QED BY <3>3, <3>4
  <2> QED BY <2>2, <2>3, <2>4, <2>5, <2>6
<1> QED BY <1>2, <1>3

\* qureyBalanceHttpFinished keeps the invariant, whichever reply emitted it.
LEMMA FinishedKeepsIInv ==
    ASSUME IInv, NEW parsed \in BOOLEAN, HttpFinished(parsed),
           UNCHANGED <<page, adding, deletes, auxVars>>, stray' \in BOOLEAN
    PROVE  IInv'
<1> USE DEF IInv
<1>a. UNCHANGED <<page, adding, deletes, rekeyed, stale, dropped>>
  <2>1. dropped' = dropped
    BY DEF HttpFinished, TakeReply
  <2> QED BY <2>1 DEF auxVars
<1>1. CASE ~isRequesting \/ reply = NoReply
  <2>1. UNCHANGED <<rows, accounts, current, queue, isRequesting, reply, delays, asked, timer>>
    BY <1>1 DEF HttpFinished, dataVars
  <2> QED
    BY <1>a, <2>1 DEF TypeOK, SingleFlight, AnswerForAsked, OwnBalance,
       RefreshKeepsGoing, MapAgrees, InFlightOwn, NamesKnown
<1>2. CASE isRequesting /\ reply # NoReply
  <2> DEFINE rest == IF parsed THEN Tail(queue) ELSE queue
  <2>1. /\ reply' = NoReply /\ asked' = NoName /\ queue' = rest /\ current' = current
        /\ rows' = IF parsed THEN UpdateAccount(Head(queue), reply) ELSE rows
        /\ IF rest = <<>>
           THEN isRequesting' = FALSE /\ accounts' = MapOf(rows') /\ timer' = TRUE /\ delays' = delays
           ELSE delays' = delays + 1 /\ UNCHANGED <<isRequesting, accounts, timer>>
    BY <1>2 DEF HttpFinished, TakeReply
  <2>2. queue # <<>> /\ Head(queue) = asked /\ delays = 0 /\ reply \in Addrs
    BY <1>2 DEF SingleFlight, AnswerForAsked, TypeOK
  <2>3. /\ rest \in Seq(QNames)
        /\ \A i \in 1..Len(rest) : \E j \in 1..Len(queue) : rest[i] = queue[j]
    <3>1. CASE parsed
      <4>1. Tail(queue) \in Seq(QNames) /\ Len(Tail(queue)) = Len(queue) - 1
            /\ \A i \in 1..Len(Tail(queue)) : Tail(queue)[i] = queue[i + 1]
        BY <2>2, HeadTailProperties DEF TypeOK
      <4>2. Len(queue) \in Nat
        BY DEF TypeOK
      <4> QED BY <3>1, <4>1, <4>2
    <3>2. CASE ~parsed
      BY <3>2 DEF TypeOK
    <3> QED BY <3>1, <3>2
  <2> HIDE DEF rest
  <2>4. /\ DOMAIN rows' = DOMAIN rows
        /\ rows' \in [DOMAIN rows' -> Row]
        /\ \A n \in DOMAIN rows : /\ rows'[n].addr = rows[n].addr
                                  /\ rows'[n].bal = rows[n].bal \/ (n = asked /\ rows'[n].bal = reply)
    <3>1. CASE parsed /\ asked \in DOMAIN rows
      <4>1. rows' = [rows EXCEPT ![asked] = [rows[asked] EXCEPT !.bal = reply]]
        BY <2>1, <2>2, <3>1 DEF UpdateAccount
      <4>2. /\ rows[asked] \in Row
            /\ [rows[asked] EXCEPT !.bal = reply] \in Row
            /\ [rows[asked] EXCEPT !.bal = reply].addr = rows[asked].addr
            /\ [rows[asked] EXCEPT !.bal = reply].bal = reply
        BY <2>2, <3>1 DEF TypeOK, Row
      <4> QED BY <4>1, <4>2, <3>1 DEF TypeOK
    <3>2. CASE ~(parsed /\ asked \in DOMAIN rows)
      <4>1. rows' = rows
        BY <2>1, <2>2, <3>2 DEF UpdateAccount
      <4> QED BY <4>1 DEF TypeOK
    <3> QED BY <3>1, <3>2
  <2>5. /\ DOMAIN accounts' \subseteq Names /\ accounts' \in [DOMAIN accounts' -> Addrs]
        /\ DOMAIN accounts \subseteq DOMAIN accounts' /\ DOMAIN accounts' \subseteq DOMAIN rows
        /\ \A n \in DOMAIN accounts' : rows'[n].addr = accounts'[n]
    BY <2>1, <2>4 DEF MapOf, MapAgrees, TypeOK, Row
  <2>6. DOMAIN accounts = DOMAIN rows => DOMAIN accounts' = DOMAIN accounts
    BY <2>5
  <2>a. \/ queue' = <<>> /\ isRequesting' = FALSE /\ delays' = 0 /\ timer' = TRUE
        \/ queue' # <<>> /\ isRequesting' = isRequesting /\ delays' = 1 /\ timer' = timer
    <3>1. CASE rest = <<>>
      BY <2>1, <2>2, <3>1
    <3>2. CASE rest # <<>>
      BY <2>1, <2>2, <3>2
    <3> QED BY <3>1, <3>2
  <2>7. TypeOK'
    <3>a. isRequesting' \in BOOLEAN /\ timer' \in BOOLEAN
      BY <2>a DEF TypeOK
    <3>b. delays' \in Nat
      BY <2>a
    <3>1. asked' \in QNames /\ reply' \in Addrs \cup {NoReply} /\ current' \in QNames
      BY <2>1 DEF TypeOK, QNames
    <3>2. DOMAIN rows' \subseteq Names
      BY <2>4 DEF TypeOK
    <3>3. queue' \in Seq(QNames)
      BY <2>1, <2>3
    <3> QED BY <1>a, <2>4, <2>5, <3>a, <3>b, <3>1, <3>2, <3>3 DEF TypeOK
  <2>8. SingleFlight' /\ AnswerForAsked' /\ InFlightOwn'
    <3>1. reply' = NoReply
      BY <2>1
    <3>2. CASE queue' = <<>> /\ isRequesting' = FALSE /\ delays' = 0
      BY <3>1, <3>2 DEF SingleFlight, AnswerForAsked, InFlightOwn
    <3>3. CASE queue' # <<>> /\ isRequesting' = isRequesting /\ delays' = 1
      BY <3>1, <3>3, <1>2 DEF SingleFlight, AnswerForAsked, InFlightOwn
    <3> QED BY <2>a, <3>2, <3>3
  <2>9. OwnBalance'
    BY <1>a, <2>1, <2>2, <2>4, <1>2 DEF OwnBalance, InFlightOwn
  <2>10. MapAgrees'
    BY <1>a, <2>1, <2>4, <2>5, <2>6 DEF MapAgrees
  <2>11. RefreshKeepsGoing'
    BY <1>a, <1>2, <2>a DEF RefreshKeepsGoing
  <2>12. NamesKnown'
    <3>1. dropped' \/ isRequesting' \/ queue' = <<>>
      BY <1>2, <2>a
    <3>2. ASSUME deletes = 0, ~stale
          PROVE  /\ \A i \in 1..Len(queue') : queue'[i] \in DOMAIN accounts'
                 /\ DOMAIN accounts' # {} => current' \in DOMAIN accounts'
                 /\ current' = NoName \/ DOMAIN accounts' # {}
      <4>1. DOMAIN accounts' = DOMAIN accounts
        BY <2>6, <3>2 DEF MapAgrees
      <4> QED BY <2>1, <2>3, <3>2, <4>1 DEF NamesKnown
    <3> QED BY <1>a, <3>1, <3>2 DEF NamesKnown
  <2> QED BY <2>7, <2>8, <2>9, <2>10, <2>11, <2>12
<1> QED BY <1>1, <1>2

\* Every step of the program keeps the invariant.
LEMMA NextIInv == IInv /\ [Next]_vars => IInv'
<1> SUFFICES ASSUME IInv, [Next]_vars PROVE IInv'
  OBVIOUS
<1>1. ASSUME NEW parsed \in BOOLEAN, reply # NoReply, HttpFinished(parsed),
             UNCHANGED <<stray, page, adding, deletes, auxVars>>
      PROVE  IInv'
  <2>1. stray' \in BOOLEAN
    BY <1>1 DEF IInv, TypeOK
  <2> QED BY <1>1, <2>1, FinishedKeepsIInv
<1>2. CASE ReplyOk
  BY <1>1, <1>2 DEF ReplyOk
<1>3. CASE ReplyUnparsable
  BY <1>1, <1>3 DEF ReplyUnparsable
<1>4. CASE ReplyError
  <2>1. /\ reply # NoReply /\ reply' = NoReply /\ asked' = NoName
        /\ delays' = delays + 1 /\ stray' = TRUE
        /\ UNCHANGED <<rows, accounts, current, queue, isRequesting, dropped,
                      page, timer, adding, deletes, rekeyed, stale>>
    BY <1>4 DEF ReplyError, dataVars, uiVars, auxVars
  <2>2. isRequesting /\ queue # <<>> /\ delays = 0
    BY <2>1 DEF IInv, SingleFlight
  <2>3. TypeOK'
    <3>1. delays' \in Nat
      BY <2>1, <2>2
    <3> QED BY <2>1, <3>1 DEF IInv, TypeOK, QNames
  <2>4. SingleFlight' /\ AnswerForAsked' /\ InFlightOwn'
    BY <2>1, <2>2 DEF SingleFlight, AnswerForAsked, InFlightOwn
  <2>5. OwnBalance' /\ RefreshKeepsGoing' /\ MapAgrees' /\ NamesKnown'
    BY <2>1 DEF IInv, OwnBalance, RefreshKeepsGoing, MapAgrees, NamesKnown
  <2> QED BY <2>3, <2>4, <2>5 DEF IInv
<1>5. CASE StrayFinished
  <2>1. PICK parsed \in BOOLEAN : HttpFinished(parsed)
    BY <1>5 DEF StrayFinished
  <2>2. stray' \in BOOLEAN /\ UNCHANGED <<page, adding, deletes, auxVars>>
    BY <1>5 DEF StrayFinished
  <2> QED BY <2>1, <2>2, FinishedKeepsIInv
<1>6. CASE StrayDropped
  BY <1>6 DEF StrayDropped, dataVars, uiVars, auxVars, IInv, TypeOK, SingleFlight, AnswerForAsked, OwnBalance,
     RefreshKeepsGoing, MapAgrees, InFlightOwn, NamesKnown
<1>7. CASE DelayQueryBalance
  <2>1. /\ delays > 0 /\ delays' = delays - 1 /\ StartQueryBalance
        /\ UNCHANGED <<rows, accounts, current, stray, page, timer, adding, deletes, rekeyed, stale>>
    BY <1>7 DEF DelayQueryBalance, dataVars, uiVars, auxVars
  <2>2. isRequesting /\ reply = NoReply /\ delays = 1 /\ queue # <<>>
    BY <2>1 DEF IInv, SingleFlight
  <2>3. delays' = 0
    BY <2>1, <2>2
  <2>4. CASE Head(queue) \in DOMAIN accounts
    <3>1. /\ isRequesting' = TRUE /\ reply' = accounts[Head(queue)]
          /\ asked' = Head(queue) /\ queue' = queue /\ dropped' = dropped
      BY <2>1, <2>2, <2>4 DEF StartQueryBalance
    <3>2. reply' \in Addrs /\ asked' \in QNames /\ reply' # NoReply
      BY <2>4, <3>1, AddrsAssumption DEF IInv, TypeOK, QNames
    <3>3. TypeOK'
      BY <2>1, <2>3, <3>1, <3>2 DEF IInv, TypeOK
    <3>4. SingleFlight' /\ AnswerForAsked'
      BY <2>2, <2>3, <3>1, <3>2 DEF SingleFlight, AnswerForAsked
    <3>5. InFlightOwn'
      BY <2>1, <2>4, <3>1 DEF IInv, InFlightOwn, MapAgrees
    <3>6. OwnBalance' /\ MapAgrees'
      BY <2>1 DEF IInv, OwnBalance, MapAgrees
    <3>7. RefreshKeepsGoing' /\ NamesKnown'
      BY <2>1, <3>1 DEF IInv, RefreshKeepsGoing, NamesKnown
    <3> QED BY <3>3, <3>4, <3>5, <3>6, <3>7 DEF IInv
  <2>5. CASE Head(queue) \notin DOMAIN accounts
    <3>1. /\ isRequesting' = FALSE /\ queue' = Tail(queue) /\ dropped' = TRUE
          /\ UNCHANGED <<reply, asked>>
      BY <2>1, <2>2, <2>5 DEF StartQueryBalance
    <3>2. queue' \in Seq(QNames)
      BY <2>2, <3>1, HeadTailProperties DEF IInv, TypeOK
    <3>3. deletes > 0 \/ stale
      <4>2. deletes = 0 \/ deletes > 0
        BY BoundsAssumption DEF IInv, TypeOK
      <4>1. Head(queue) = queue[1] /\ 1 \in 1..Len(queue)
        BY <2>2 DEF IInv, TypeOK
      <4> QED BY <2>5, <4>1, <4>2 DEF IInv, NamesKnown
    <3>4. TypeOK'
      <4>1. isRequesting' \in BOOLEAN /\ delays' \in Nat
        BY <2>3, <3>1
      <4> QED BY <2>1, <3>1, <3>2, <4>1 DEF IInv, TypeOK
    <3>5. SingleFlight' /\ AnswerForAsked' /\ InFlightOwn'
      BY <2>2, <2>3, <3>1 DEF SingleFlight, AnswerForAsked, InFlightOwn
    <3>6. OwnBalance' /\ MapAgrees' /\ RefreshKeepsGoing' /\ NamesKnown'
      BY <2>1, <3>1, <3>3 DEF IInv, OwnBalance, MapAgrees, RefreshKeepsGoing, NamesKnown
    <3> QED BY <3>4, <3>5, <3>6 DEF IInv
  <2> QED BY <2>4, <2>5
<1>8. CASE AutoRefresh
  <2>1. UNCHANGED <<netVars, timer>> \/ Round
    BY <1>8, GetAccountInfoEffect DEF AutoRefresh
  <2>2. /\ timer /\ UNCHANGED <<dataVars, deletes, auxVars>>
        /\ page' \in Pages /\ adding' \in BOOLEAN
    BY <1>8 DEF AutoRefresh, IInv, TypeOK
  <2> QED BY <2>1, <2>2, PollKeepsIInv
<1>9. CASE Login
  <2>1. /\ page' = "home" /\ UNCHANGED <<dataVars, adding, deletes, auxVars>>
        /\ IF Polls("home") THEN GetAccountInfo("home") ELSE timer' = TRUE /\ UNCHANGED netVars
    BY <1>9 DEF Login
  <2>2. page' \in Pages /\ adding' \in BOOLEAN /\ UNCHANGED <<dataVars, deletes, auxVars>>
    BY <2>1 DEF IInv, TypeOK, Pages
  <2>3. CASE ~Polls("home")
    BY <2>1, <2>2, <2>3, PollKeepsIInv
  <2>4. CASE Polls("home")
    <3>1. (isRequesting /\ UNCHANGED <<netVars, timer>>) \/ Round
      BY <2>1, <2>4, GetAccountInfoEffect
    <3> QED BY <2>2, <3>1, PollKeepsIInv
  <2> QED BY <2>3, <2>4
<1>10. CASE AddDialogClosed
  <2>1. UNCHANGED <<netVars, timer>> \/ Round
    BY <1>10, GetAccountInfoEffect DEF AddDialogClosed
  <2>2. /\ UNCHANGED <<dataVars, deletes, auxVars>>
        /\ page # "none" /\ page' \in Pages /\ adding' \in BOOLEAN
    BY <1>10 DEF AddDialogClosed, IInv, TypeOK
  <2> QED BY <2>1, <2>2, PollKeepsIInv
<1>11. ASSUME NEW pg \in Pages \ {"none"}, ShowPage(pg) PROVE IInv'
  <2>1. UNCHANGED <<netVars, timer>> \/ Round
    BY <1>11, GetAccountInfoEffect DEF ShowPage
  <2>2. /\ UNCHANGED <<dataVars, deletes, auxVars>>
        /\ page # "none" /\ page' \in Pages /\ adding' \in BOOLEAN
    BY <1>11 DEF ShowPage, IInv, TypeOK
  <2> QED BY <2>1, <2>2, PollKeepsIInv
<1>12. ASSUME NEW n \in Names, ChooseAccount(n) PROVE IInv'
  <2>1. /\ n \in DOMAIN accounts /\ current' = n
        /\ UNCHANGED <<rows, accounts, queue, isRequesting, reply, delays, stray, asked,
                      dropped, page, timer, adding, deletes, rekeyed, stale>>
    BY <1>12 DEF ChooseAccount, netVars, uiVars, auxVars
  <2> QED
    BY <2>1 DEF IInv, TypeOK, QNames, SingleFlight, AnswerForAsked, OwnBalance,
       RefreshKeepsGoing, MapAgrees, InFlightOwn, NamesKnown
<1>13. ASSUME NEW n \in Names, NEW a \in Addrs, AddAccount(n, a) PROVE IInv'
  <2>1. /\ rows' = [m \in DOMAIN rows \cup {n} |->
                      IF m = n THEN [addr |-> a, bal |-> NoBalance] ELSE rows[m]]
        /\ accounts' = MapOf(rows')
        /\ current' \in IF current = NoName THEN FirstKey(accounts') ELSE {current}
        /\ rekeyed' = IF reply # NoReply /\ asked = n /\ reply # a
                      THEN rekeyed \cup {n} ELSE rekeyed
        /\ page = "account" /\ adding' = TRUE
        /\ UNCHANGED <<queue, isRequesting, reply, delays, stray, asked, dropped,
                      page, timer, deletes, stale>>
    BY <1>13 DEF AddAccount, netVars
  <2>2. /\ DOMAIN rows' = DOMAIN rows \cup {n}
        /\ rows'[n] = [addr |-> a, bal |-> NoBalance]
        /\ \A m \in DOMAIN rows \ {n} : rows'[m] = rows[m]
        /\ rows' \in [DOMAIN rows' -> Row]
    BY <2>1 DEF IInv, TypeOK, Row
  <2>3. /\ DOMAIN accounts' = DOMAIN rows \cup {n}
        /\ \A m \in DOMAIN accounts' : accounts'[m] = rows'[m].addr
        /\ accounts' \in [DOMAIN accounts' -> Addrs]
    BY <2>1, <2>2 DEF MapOf, Row
  <2>4. current' \in QNames /\ (current' = current \/ current' \in DOMAIN accounts')
    BY <2>1, <2>2, <2>3 DEF IInv, TypeOK, QNames, FirstKey
  <2>5. TypeOK'
    BY <2>1, <2>2, <2>3, <2>4 DEF IInv, TypeOK
  <2>6. SingleFlight' /\ AnswerForAsked' /\ RefreshKeepsGoing'
    BY <2>1 DEF IInv, SingleFlight, AnswerForAsked, RefreshKeepsGoing
  <2>7. OwnBalance' /\ MapAgrees' /\ InFlightOwn'
    BY <2>1, <2>2, <2>3 DEF IInv, OwnBalance, MapAgrees, InFlightOwn
  <2>8. DOMAIN accounts \subseteq DOMAIN accounts'
    BY <2>3 DEF IInv, MapAgrees
  <2>9. current \in DOMAIN accounts \/ current = NoName => current' \in DOMAIN accounts'
    BY <2>1, <2>3, <2>8, NamesAssumption DEF FirstKey, IInv, TypeOK
  <2>11. NamesKnown'
    BY <2>1, <2>3, <2>8, <2>9 DEF IInv, NamesKnown
  <2> QED BY <2>5, <2>6, <2>7, <2>11 DEF IInv
<1>14. ASSUME NEW n \in Names, DeleteAccount(n) PROVE IInv'
  <2>1. PICK fault \in DbFaults \cup {"none"} :
          /\ rows' = IF fault = "delete" THEN rows ELSE [m \in DOMAIN rows \ {n} |-> rows[m]]
          /\ current' \in CurrentAfterDelete(n, accounts', fault = "none")
    BY <1>14 DEF DeleteAccount
  <2>2. /\ n \in DOMAIN accounts /\ deletes < MaxDeletes /\ deletes' = deletes + 1
        /\ accounts' = [m \in DOMAIN accounts \ {n} |-> accounts[m]]
        /\ UNCHANGED <<queue, isRequesting, reply, delays, stray, asked, dropped,
                      page, timer, adding, rekeyed, stale>>
    BY <1>14 DEF DeleteAccount, netVars, auxVars
  <2>3. /\ DOMAIN rows' \subseteq DOMAIN rows
        /\ \A m \in DOMAIN rows' : rows'[m] = rows[m]
        /\ rows' \in [DOMAIN rows' -> Row]
        /\ DOMAIN rows \ {n} \subseteq DOMAIN rows'
    BY <2>1 DEF IInv, TypeOK
  <2>4. /\ DOMAIN accounts' = DOMAIN accounts \ {n}
        /\ \A m \in DOMAIN accounts' : accounts'[m] = accounts[m]
        /\ accounts' \in [DOMAIN accounts' -> Addrs]
    BY <2>2 DEF IInv, TypeOK
  <2>5. current' = current \/ current' \in FirstKey(accounts')
    BY <2>1 DEF CurrentAfterDelete
  <2>6. deletes' \in 0..MaxDeletes /\ deletes' # 0 /\ deletes' > 0
    BY <2>2, BoundsAssumption DEF IInv, TypeOK
  <2>7. TypeOK'
    BY <2>2, <2>3, <2>4, <2>5, <2>6 DEF IInv, TypeOK, QNames, FirstKey
  <2>8. SingleFlight' /\ AnswerForAsked'
    BY <2>2 DEF IInv, SingleFlight, AnswerForAsked
  <2>9. OwnBalance' /\ InFlightOwn'
    BY <2>2, <2>3 DEF IInv, OwnBalance, InFlightOwn
  <2>11. MapAgrees'
    BY <2>3, <2>4, <2>6 DEF IInv, MapAgrees
  <2>13. RefreshKeepsGoing' /\ NamesKnown'
    BY <2>2, <2>6 DEF IInv, RefreshKeepsGoing, NamesKnown
  <2> QED BY <2>7, <2>8, <2>9, <2>11, <2>13 DEF IInv
<1>15. CASE UNCHANGED vars
  BY <1>15 DEF vars, dataVars, netVars, uiVars, auxVars, IInv, TypeOK, SingleFlight, AnswerForAsked, OwnBalance,
     RefreshKeepsGoing, MapAgrees, InFlightOwn, NamesKnown
<1> QED
  BY <1>2, <1>3, <1>4, <1>5, <1>6, <1>7, <1>8, <1>9, <1>10, <1>11, <1>12, <1>13, <1>14, <1>15
  DEF Next, Network, Timers, User

--------------------------------------------------------------------------------
(***************************************************************************)
(* The theorems.                                                           *)
(***************************************************************************)
\* The inductive invariant of datamgr.cpp's balance poller holds always.
THEOREM Invariance == Spec => []IInv
<1>1. Init => IInv
  BY InitIInv
<1>2. IInv /\ [Next]_vars => IInv'
  BY NextIInv
<1> QED BY <1>1, <1>2, PTL DEF Spec

\* Every variable keeps its type.
THEOREM TypeCorrect == Spec => []TypeOK
<1>1. IInv => TypeOK
  BY DEF IInv
<1> QED BY <1>1, Invariance, PTL

\* isRequestingBalance is set exactly while one request is in flight or one
\* retry is pending, and then there is a name left to serve.
THEOREM RequestsOneAtATime == Spec => []SingleFlight
<1>1. IInv => SingleFlight
  BY DEF IInv
<1> QED BY <1>1, Invariance, PTL

\* An answer is booked under the name it was asked for.
THEOREM AnswersBookedRight == Spec => []AnswerForAsked
<1>1. IInv => AnswerForAsked
  BY DEF IInv
<1> QED BY <1>1, Invariance, PTL

\* A row holds the balance of its own address unless its name was given
\* another key while a request for the name was in flight.
THEOREM BalancesBelongToRows == Spec => []OwnBalance
<1>1. IInv => OwnBalance
  BY DEF IInv
<1> QED BY <1>1, Invariance, PTL

(***************************************************************************)
(* As long as no queued name was dropped as no account, a stopped refresh  *)
(* timer means that a request is under way whose end starts it again.  No  *)
(* name is dropped unless an account was deleted or the settings named one *)
(* that is gone: the two ways there are to lose the refresh.               *)
(***************************************************************************)
THEOREM RefreshNotLost == Spec => []RefreshKeepsGoing
<1>1. IInv => RefreshKeepsGoing
  BY DEF IInv
<1> QED BY <1>1, Invariance, PTL

(***************************************************************************)
(* The queue of a round only gets shorter, from the head, and a balance is *)
(* booked for the name that leaves with it, whatever pages are opened,     *)
(* accounts added and deleted, and requests failed meanwhile.              *)
(***************************************************************************)
THEOREM RoundOnlyShrinks == Spec => RoundTakesOff
<1> DEFINE Shrinks == isRequesting => queue' \in {queue, Tail(queue)}
           Books == \A n \in DOMAIN rows \cap DOMAIN rows' :
                        rows'[n].bal \notin {rows[n].bal, NoBalance} =>
                            isRequesting /\ n = Head(queue) /\ queue' = Tail(queue)
<1>1. ASSUME IInv, [Next]_vars PROVE Shrinks /\ Books
  <2>1. UNCHANGED rows => Books
    OBVIOUS
  <2>2. ASSUME NEW parsed \in BOOLEAN, HttpFinished(parsed) PROVE Shrinks /\ Books
    <3>1. CASE ~isRequesting \/ reply = NoReply
      BY <2>1, <2>2, <3>1 DEF HttpFinished, dataVars
    <3>2. CASE isRequesting /\ reply # NoReply
      <4>1. /\ queue' = IF parsed THEN Tail(queue) ELSE queue
            /\ rows' = IF parsed THEN UpdateAccount(Head(queue), reply) ELSE rows
        BY <2>2, <3>2 DEF HttpFinished, TakeReply
      <4>2. ASSUME NEW n \in DOMAIN rows, n # Head(queue) PROVE rows'[n] = rows[n]
        BY <4>1, <4>2 DEF UpdateAccount
      <4>3. Books
        BY <2>1, <3>2, <4>1, <4>2
      <4> QED BY <4>1, <4>3
    <3> QED BY <3>1, <3>2
  <2>3. ASSUME NEW pg, GetAccountInfo(pg), UNCHANGED rows PROVE Shrinks /\ Books
    BY <2>1, <2>3 DEF GetAccountInfo, netVars
  <2>4. CASE ReplyOk \/ ReplyUnparsable \/ StrayFinished
    BY <2>2, <2>4 DEF ReplyOk, ReplyUnparsable, StrayFinished
  <2>5. CASE ReplyError \/ StrayDropped
    BY <2>1, <2>5 DEF ReplyError, StrayDropped, dataVars
  <2>6. CASE DelayQueryBalance
    BY <2>1, <2>6 DEF DelayQueryBalance, StartQueryBalance, dataVars
  <2>7. CASE AutoRefresh \/ AddDialogClosed \/ \E pg \in Pages \ {"none"} : ShowPage(pg)
    BY <2>3, <2>7 DEF AutoRefresh, AddDialogClosed, ShowPage, dataVars
  <2>8. CASE Login
    <3>1. CASE Polls("home")
      BY <2>3, <2>8, <3>1 DEF Login, dataVars
    <3>2. CASE ~Polls("home")
      BY <2>1, <2>8, <3>2 DEF Login, netVars, dataVars
    <3> QED BY <3>1, <3>2
  <2>9. ASSUME NEW n \in Names, ChooseAccount(n) PROVE Shrinks /\ Books
    BY <2>1, <2>9 DEF ChooseAccount, netVars
  <2>10. ASSUME NEW n \in Names, NEW a \in Addrs, AddAccount(n, a) PROVE Shrinks /\ Books
    <3>1. \A m \in DOMAIN rows : rows'[m] = IF m = n THEN [addr |-> a, bal |-> NoBalance] ELSE rows[m]
      BY <2>10 DEF AddAccount
    <3> QED BY <2>10, <3>1 DEF AddAccount, netVars
  <2>11. ASSUME NEW n \in Names, DeleteAccount(n) PROVE Shrinks /\ Books
    <3>1. \A m \in DOMAIN rows \cap DOMAIN rows' : rows'[m] = rows[m]
      BY <2>11 DEF DeleteAccount
    <3> QED BY <2>11, <3>1 DEF DeleteAccount, netVars
  <2>12. CASE UNCHANGED vars
    BY <2>1, <2>12 DEF vars, netVars, dataVars
  <2> HIDE DEF Shrinks, Books
  <2> QED
    BY <1>1, <2>4, <2>5, <2>6, <2>7, <2>8, <2>9, <2>10, <2>11, <2>12, Zenon
    DEF Next, Network, Timers, User
<1>2. IInv /\ [Next]_vars => [Shrinks /\ Books]_vars
  BY <1>1
<1> QED BY <1>2, Invariance, PTL DEF Spec, RoundTakesOff

\* The poller implements PollCycle: one request at a time, never replaced,
\* and a pause between two requests.
THEOREM Refinement == Spec => ImplementsCycle
<1>1. Init => Cycle!Init
  BY DEF Init, Cycle!Init, phase
<1>2. IInv /\ [Next]_vars => [Cycle!Next]_(Cycle!vars)
  <2> SUFFICES ASSUME IInv, [Next]_vars, ~(isRequesting' = isRequesting /\ reply' = reply)
               PROVE  Cycle!Next
    BY DEF Cycle!vars, phase
  <2> USE DEF Cycle!Next, Cycle!Start, Cycle!Pause, Cycle!Finish, phase
  <2>1. ASSUME NEW parsed \in BOOLEAN, HttpFinished(parsed) PROVE Cycle!Next
    <3>1. isRequesting /\ reply # NoReply /\ TakeReply(parsed)
      BY <2>1 DEF HttpFinished
    <3>2. reply' = NoReply /\ (isRequesting' = FALSE \/ isRequesting' = isRequesting)
      BY <3>1 DEF TakeReply
    <3> QED BY <3>1, <3>2
  <2>2. ASSUME NEW pg, GetAccountInfo(pg) PROVE Cycle!Next
    <3>1. Round
      BY <2>2, GetAccountInfoEffect DEF netVars
    <3>2. ~isRequesting /\ isRequesting' = TRUE /\ reply' = accounts[asked'] /\ asked' \in DOMAIN accounts
      BY <3>1 DEF Round, Requested
    <3>3. reply' \in Addrs /\ reply' # NoReply
      BY <3>2, AddrsAssumption DEF IInv, TypeOK
    <3> QED BY <3>2, <3>3
  <2>3. CASE ReplyOk \/ ReplyUnparsable \/ StrayFinished
    BY <2>1, <2>3 DEF ReplyOk, ReplyUnparsable, StrayFinished
  <2>4. CASE ReplyError
    BY <2>4 DEF ReplyError, IInv, SingleFlight
  <2>5. CASE DelayQueryBalance
    <3>1. isRequesting /\ reply = NoReply /\ StartQueryBalance
      BY <2>5 DEF DelayQueryBalance, IInv, SingleFlight
    <3>2. CASE isRequesting' = FALSE /\ reply' = reply
      BY <3>1, <3>2
    <3>3. CASE isRequesting' = TRUE /\ Head(queue) \in DOMAIN accounts /\ reply' = accounts[Head(queue)]
      <4>1. reply' \in Addrs /\ reply' # NoReply
        BY <3>3, AddrsAssumption DEF IInv, TypeOK
      <4> QED BY <3>1, <3>3, <4>1
    <3> QED BY <3>1, <3>2, <3>3 DEF StartQueryBalance
  <2>6. CASE AutoRefresh \/ AddDialogClosed \/ \E pg \in Pages \ {"none"} : ShowPage(pg)
    BY <2>2, <2>6 DEF AutoRefresh, AddDialogClosed, ShowPage
  <2>7. CASE Login
    <3>1. CASE Polls("home")
      BY <2>2, <2>7, <3>1 DEF Login
    <3>2. CASE ~Polls("home")
      BY <2>7, <3>2 DEF Login, netVars
    <3> QED BY <3>1, <3>2
  <2>8. CASE \/ StrayDropped
             \/ \E n \in Names : ChooseAccount(n) \/ DeleteAccount(n)
             \/ \E n \in Names, a \in Addrs : AddAccount(n, a)
             \/ UNCHANGED vars
    BY <2>8 DEF StrayDropped, ChooseAccount, DeleteAccount, AddAccount, vars, netVars
  <2> QED
    BY <2>3, <2>4, <2>5, <2>6, <2>7, <2>8 DEF Next, Network, Timers, User
<1> QED BY <1>1, <1>2, Invariance, PTL DEF Spec, ImplementsCycle, Cycle!Spec

================================================================================
