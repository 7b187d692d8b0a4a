----------------------------- MODULE SessionProofs -----------------------------
(***************************************************************************)
(* Proofs about Session, for any minutes, messages and requests: the lock  *)
(* comes in time, and the reports of use come in order.                    *)
(***************************************************************************)
EXTENDS Session, FiniteSetTheorems, TLAPS

--------------------------------------------------------------------------------
\* Part 1: the lock and its timer.

(***************************************************************************)
(* While the wallet is open and is to lock itself its timer runs, and has  *)
(* run as long as nobody gave input; if it is not to, no timer runs.       *)
(***************************************************************************)
TimerRuns ==
    loggedIn /\ ~lockPage /\ ~notAutoLock => lockTimer = "on" /\ idle = elapsed

TimerOff == notAutoLock => lockTimer # "on"

\* Before the login there is nothing to lock and no dialog.
AfterLogin == lockPage \/ dialog # "none" => loggedIn

LockInv == LockTypeOK /\ TimerRuns /\ TimerOff /\ AfterLogin

LEMMA MinutesAreNumbers == Minutes \subseteq Nat
BY MinutesAssumption

LEMMA LockInitInv == LockInit => LockInv
<1> SUFFICES ASSUME LockInit PROVE LockInv
  OBVIOUS
<1>1. lockMinutes \in Nat
  BY MinutesAreNumbers DEF LockInit
<1>2. 0 \in 0..lockMinutes
  BY <1>1
<1>3. LockTypeOK
  BY <1>2 DEF LockInit, LockTypeOK
<1> QED
  BY <1>3 DEF LockInit, LockInv, TimerRuns, TimerOff, AfterLogin

\* Whatever starts the timer leaves it with nothing elapsed.
LEMMA StartedTyped ==
    ASSUME lockMinutes' \in Minutes, elapsed' = 0
    PROVE  elapsed' \in 0..lockMinutes'
<1>1. lockMinutes' \in Nat
  BY MinutesAreNumbers
<1> QED
  BY <1>1

LEMMA LoginKeeps ==
    ASSUME LockInv, LockLogin
    PROVE  LockInv'
<1>0. LockTypeOK /\ AfterLogin
  BY DEF LockInv
<1>1. /\ loggedIn' /\ lockTimer' = (IF notAutoLock THEN "off" ELSE "on")
      /\ elapsed' = 0 /\ idle' = 0
      /\ UNCHANGED <<lockMinutes, notAutoLock, lockPage, pageAbove, dialog>>
  BY DEF LockLogin, StartUnless, settings
<1>2. elapsed' \in 0..lockMinutes'
  BY <1>0, <1>1, StartedTyped DEF LockTypeOK
<1>3. LockTypeOK'
  BY <1>0, <1>1, <1>2 DEF LockTypeOK, LockLogin
<1>4. TimerRuns' /\ TimerOff' /\ AfterLogin'
  BY <1>0, <1>1 DEF TimerRuns, TimerOff, AfterLogin
<1> QED
  BY <1>3, <1>4 DEF LockInv

LEMMA InputKeeps ==
    ASSUME LockInv, Input
    PROVE  LockInv'
<1>0. LockTypeOK /\ TimerRuns /\ TimerOff /\ AfterLogin
  BY DEF LockInv
<1>1. idle' = 0 /\ UNCHANGED <<loggedIn, lockMinutes, notAutoLock, lockPage, pageAbove, dialog>>
  BY DEF Input, settings
<1>2. CASE ~notAutoLock
  <2>1. lockTimer' = "on" /\ elapsed' = 0 /\ loggedIn
    BY <1>0, <1>2 DEF Input, StartUnless, LockTypeOK
  <2>2. elapsed' \in 0..lockMinutes'
    BY <1>0, <1>1, <2>1, StartedTyped DEF LockTypeOK
  <2> QED
    BY <1>0, <1>1, <1>2, <2>1, <2>2 DEF LockInv, LockTypeOK, TimerRuns, TimerOff, AfterLogin
<1>3. CASE notAutoLock
  <2>1. UNCHANGED <<lockTimer, elapsed>>
    BY <1>3 DEF Input
  <2> QED
    BY <1>0, <1>1, <1>3, <2>1 DEF LockInv, LockTypeOK, TimerRuns, TimerOff, AfterLogin
<1> QED
  BY <1>2, <1>3

LEMMA MinuteKeeps ==
    ASSUME LockInv, Minute
    PROVE  LockInv'
<1>0. LockTypeOK /\ TimerRuns /\ TimerOff /\ AfterLogin
  BY DEF LockInv
<1>1. UNCHANGED <<loggedIn, lockTimer, lockMinutes, notAutoLock, lockPage, pageAbove, dialog>>
  BY DEF Minute, settings
<1>2. lockMinutes \in Nat /\ idle \in Nat /\ elapsed \in 0..lockMinutes
  BY <1>0, MinutesAreNumbers DEF LockTypeOK
<1>3. elapsed' \in 0..lockMinutes'
  BY <1>1, <1>2 DEF Minute, Due
<1>4. idle' \in Nat
  BY <1>2 DEF Minute
<1>5. LockTypeOK'
  BY <1>0, <1>1, <1>3, <1>4 DEF LockTypeOK
<1>6. TimerRuns'
  <2> SUFFICES ASSUME loggedIn, ~lockPage, ~notAutoLock
               PROVE  lockTimer' = "on" /\ idle' = elapsed'
    BY <1>1 DEF TimerRuns
  <2>1. lockTimer = "on" /\ idle = elapsed
    BY <1>0 DEF TimerRuns
  <2>2. elapsed' = elapsed + 1 /\ idle' = idle + 1
    BY <2>1 DEF Minute
  <2> QED
    BY <1>1, <1>2, <2>1, <2>2
<1>7. TimerOff' /\ AfterLogin'
  BY <1>0, <1>1 DEF TimerOff, AfterLogin
<1> QED
  BY <1>5, <1>6, <1>7 DEF LockInv

LEMMA AutoLockKeeps ==
    ASSUME LockInv, AutoLock
    PROVE  LockInv'
<1>0. LockTypeOK /\ TimerRuns /\ TimerOff /\ AfterLogin
  BY DEF LockInv
<1>1. /\ lockTimer' = "off" /\ elapsed' = 0 /\ lockPage' = TRUE /\ idle' = 0
      /\ UNCHANGED <<loggedIn, lockMinutes, notAutoLock, pageAbove, dialog>>
  BY DEF AutoLock, settings
<1>2. loggedIn
  BY <1>0 DEF AutoLock, Due, LockTypeOK
<1>3. elapsed' \in 0..lockMinutes'
  BY <1>0, <1>1, StartedTyped DEF LockTypeOK
<1> QED
  BY <1>0, <1>1, <1>2, <1>3 DEF LockInv, LockTypeOK, TimerRuns, TimerOff, AfterLogin

LEMMA SaveKeeps ==
    ASSUME LockInv, NEW m \in Minutes, NEW b \in BOOLEAN, SaveSettings(m, b)
    PROVE  LockInv'
<1>0. LockTypeOK /\ AfterLogin
  BY DEF LockInv
<1>1. /\ lockMinutes' = m /\ notAutoLock' = b /\ dialog' = "none"
      /\ lockTimer' = (IF b THEN "off" ELSE "on") /\ elapsed' = 0
      /\ idle' = 0 /\ UNCHANGED <<loggedIn, lockPage, pageAbove>>
  BY DEF SaveSettings, StartUnless
<1>2. loggedIn
  BY <1>0 DEF SaveSettings, AfterLogin
<1>3. elapsed' \in 0..lockMinutes'
  BY <1>1, StartedTyped
<1> QED
  BY <1>0, <1>1, <1>2, <1>3 DEF LockInv, LockTypeOK, TimerRuns, TimerOff, AfterLogin

\* Dialogs that open and close leave the timer alone.
LEMMA DialogKeeps ==
    ASSUME LockInv, OpenSettings \/ Report \/ CloseDialog \/ CloseReport
    PROVE  LockInv'
<1>0. LockTypeOK /\ TimerRuns /\ TimerOff /\ AfterLogin
  BY DEF LockInv
<1>1. UNCHANGED <<loggedIn, lockTimer, elapsed, lockMinutes, notAutoLock, lockPage, idle>>
  BY DEF OpenSettings, Report, CloseDialog, CloseReport, settings
<1>2. /\ dialog' \in {"none", "settings", "report"} /\ (dialog' # "none" => loggedIn)
      /\ pageAbove' \in BOOLEAN
  BY <1>0 DEF OpenSettings, Report, CloseDialog, CloseReport, LockTypeOK
<1> QED
  BY <1>0, <1>1, <1>2 DEF LockInv, LockTypeOK, TimerRuns, TimerOff, AfterLogin

LEMMA UnlockKeeps ==
    ASSUME LockInv, Unlock
    PROVE  LockInv'
<1>0. LockTypeOK /\ TimerRuns /\ TimerOff /\ AfterLogin
  BY DEF LockInv
<1>1. /\ lockPage' = FALSE /\ pageAbove' = FALSE /\ idle' = 0
      /\ UNCHANGED <<loggedIn, lockMinutes, notAutoLock, dialog>>
  BY DEF Unlock, settings
<1>2. loggedIn
  BY <1>0 DEF Unlock, AfterLogin
<1>3. CASE ~notAutoLock
  <2>1. lockTimer' = "on" /\ elapsed' = 0
    BY <1>3 DEF Unlock, StartUnless
  <2>2. elapsed' \in 0..lockMinutes'
    BY <1>0, <1>1, <2>1, StartedTyped DEF LockTypeOK
  <2>3. LockTypeOK'
    BY <1>0, <1>1, <1>2, <2>1, <2>2 DEF LockTypeOK
  <2>4. TimerRuns' /\ TimerOff' /\ AfterLogin'
    BY <1>0, <1>1, <1>2, <1>3, <2>1 DEF TimerRuns, TimerOff, AfterLogin
  <2> QED
    BY <2>3, <2>4 DEF LockInv
<1>4. CASE notAutoLock
  <2>1. UNCHANGED <<lockTimer, elapsed>>
    BY <1>4 DEF Unlock
  <2> QED
    BY <1>0, <1>1, <1>2, <1>4, <2>1 DEF LockInv, LockTypeOK, TimerRuns, TimerOff, AfterLogin
<1> QED
  BY <1>3, <1>4

LEMMA LockStepKeeps ==
    ASSUME LockInv, LockStep
    PROVE  LockInv'
BY InputKeeps, MinuteKeeps, AutoLockKeeps, DialogKeeps, UnlockKeeps
   DEF LockStep, ReportOpens

--------------------------------------------------------------------------------
\* Part 2: the reports of use.

First == pushed - Len(trackMsgVec) + 1

(***************************************************************************)
(* The queue holds the last messages handed over, in their order; the      *)
(* server has all before the head and no other than the head; a request    *)
(* that is out is for the head.                                            *)
(***************************************************************************)
QueueIsRest ==
    /\ Len(trackMsgVec) <= pushed
    /\ \A i \in 1..Len(trackMsgVec) : trackMsgVec[i] = pushed - Len(trackMsgVec) + i
    /\ received = First - 1 \/ received = First
    /\ isSending => trackMsgVec # <<>>
    /\ NeverStalls

TrackInv == TrackTypeOK /\ QueueIsRest

LEMMA TrackInitInv == TrackInit => TrackInv
<1> SUFFICES ASSUME TrackInit PROVE TrackInv
  OBVIOUS
<1>1. MaxMsgs \in Nat /\ Len(trackMsgVec) = 0
  BY MaxMsgsAssumption DEF TrackInit
<1>2. trackMsgVec \in Seq(1..MaxMsgs)
  BY DEF TrackInit
<1>3. TrackTypeOK
  <2>1. pushed \in 0..MaxMsgs /\ received \in 0..pushed /\ shots \in Nat
    BY <1>1 DEF TrackInit
  <2>2. isSending \in BOOLEAN
    BY DEF TrackInit
  <2> QED
    BY <1>2, <2>1, <2>2 DEF TrackTypeOK
<1>4. QueueIsRest
  <2>1. First = 1 /\ pushed = 0 /\ received = 0
    BY <1>1 DEF TrackInit, First
  <2>2. ~isSending /\ trackMsgVec = <<>>
    BY DEF TrackInit
  <2> QED
    BY <1>1, <2>1, <2>2 DEF QueueIsRest, NeverStalls
<1> QED
  BY <1>3, <1>4 DEF TrackInv

\* The numbers the steps are about.
LEMMA TrackNumbers ==
    ASSUME TrackInv
    PROVE  /\ MaxMsgs \in Nat /\ pushed \in Nat /\ pushed <= MaxMsgs /\ received \in Nat
           /\ received <= pushed /\ shots \in Nat /\ Len(trackMsgVec) \in Nat
           /\ Len(trackMsgVec) <= pushed /\ trackMsgVec \in Seq(1..MaxMsgs)
BY MaxMsgsAssumption DEF TrackInv, TrackTypeOK, QueueIsRest

\* Of a queue that is not empty the head is the first message not yet done.
LEMMA HeadIsFirst ==
    ASSUME TrackInv, trackMsgVec # <<>>
    PROVE  /\ Head(trackMsgVec) = First /\ First \in 1..pushed
           /\ Len(trackMsgVec) > 0
<1>0. TrackTypeOK /\ QueueIsRest
  BY DEF TrackInv
<1>1. Len(trackMsgVec) > 0 /\ Head(trackMsgVec) = trackMsgVec[1]
  BY TrackNumbers
<1>2. trackMsgVec[1] = First
  BY <1>0, <1>1, TrackNumbers DEF QueueIsRest, First
<1>3. First \in 1..pushed
  BY <1>1, TrackNumbers DEF First
<1> QED
  BY <1>1, <1>2, <1>3

LEMMA TrackPushKeeps ==
    ASSUME TrackInv, TrackPush
    PROVE  TrackInv'
<1>0. TrackTypeOK /\ QueueIsRest
  BY DEF TrackInv
<1>1. /\ pushed < MaxMsgs /\ pushed' = pushed + 1
      /\ trackMsgVec' = Append(trackMsgVec, pushed + 1)
      /\ UNCHANGED <<shots, received>>
  BY DEF TrackPush
<1>2. isSending' \in BOOLEAN /\ (isSending => isSending')
  BY <1>0 DEF TrackPush, SendTrackData, TrackTypeOK
<1>3. pushed + 1 \in 1..MaxMsgs
  BY <1>1, TrackNumbers
<1>4. trackMsgVec' \in Seq(1..MaxMsgs) /\ Len(trackMsgVec') = Len(trackMsgVec) + 1
  BY <1>1, <1>3, TrackNumbers
<1>5. TrackTypeOK'
  BY <1>0, <1>1, <1>2, <1>3, <1>4, TrackNumbers DEF TrackTypeOK
<1>6. \A i \in 1..Len(trackMsgVec') : trackMsgVec'[i] = pushed' - Len(trackMsgVec') + i
  <2> TAKE i \in 1..Len(trackMsgVec')
  <2>1. CASE i = Len(trackMsgVec) + 1
    <3>1. trackMsgVec'[i] = pushed + 1
      BY <1>1, <2>1, TrackNumbers
    <3> QED
      BY <1>1, <1>4, <2>1, <3>1, TrackNumbers
  <2>2. CASE i \in 1..Len(trackMsgVec)
    <3>1. trackMsgVec'[i] = trackMsgVec[i]
      BY <1>1, <2>2, TrackNumbers
    <3>2. trackMsgVec[i] = pushed - Len(trackMsgVec) + i
      BY <1>0, <2>2 DEF QueueIsRest
    <3> QED
      BY <1>1, <1>4, <2>2, <3>1, <3>2, TrackNumbers
  <2> QED
    BY <1>4, <2>1, <2>2, TrackNumbers
<1>7. First' = First
  BY <1>1, <1>4, TrackNumbers DEF First
<1>8. trackMsgVec' # <<>>
  BY <1>4, TrackNumbers
<1>9. Len(trackMsgVec') <= pushed'
  BY <1>1, <1>4, TrackNumbers
<1>10. isSending'
  BY Zenon, <1>1, <1>8 DEF TrackPush, SendTrackData
<1>11. QueueIsRest'
  BY <1>0, <1>1, <1>6, <1>7, <1>8, <1>9, <1>10 DEF QueueIsRest, NeverStalls
<1> QED
  BY <1>5, <1>11 DEF TrackInv

LEMMA FinishedKeeps ==
    ASSUME TrackInv, TrackFinished
    PROVE  TrackInv' /\ received' = First /\ First \in 1..pushed /\ UNCHANGED pushed
<1>0. TrackTypeOK /\ QueueIsRest
  BY DEF TrackInv
<1>1. /\ isSending /\ trackMsgVec' = Tail(trackMsgVec) /\ received' = Head(trackMsgVec)
      /\ isSending' = FALSE /\ shots' = shots + 1 /\ UNCHANGED pushed
  BY DEF TrackFinished, RequestOver
<1>2. Len(trackMsgVec) > 0 /\ received' = First /\ First \in 1..pushed
  BY <1>0, <1>1, HeadIsFirst DEF QueueIsRest
<1>3. trackMsgVec' \in Seq(1..MaxMsgs) /\ Len(trackMsgVec') = Len(trackMsgVec) - 1
  BY <1>1, <1>2, TrackNumbers
<1>4. TrackTypeOK'
  <2>1. pushed' \in 0..MaxMsgs /\ received' \in 0..pushed' /\ shots' \in Nat
    BY <1>1, <1>2, TrackNumbers
  <2>2. isSending' \in BOOLEAN
    BY <1>1
  <2> QED
    BY <1>3, <2>1, <2>2 DEF TrackTypeOK
<1>5. \A i \in 1..Len(trackMsgVec') : trackMsgVec'[i] = pushed' - Len(trackMsgVec') + i
  <2> TAKE i \in 1..Len(trackMsgVec')
  <2>1. i + 1 \in 1..Len(trackMsgVec)
    BY <1>3, TrackNumbers
  <2>2. trackMsgVec'[i] = trackMsgVec[i + 1]
    BY <1>1, <1>2, <1>3, TrackNumbers
  <2>3. trackMsgVec[i + 1] = pushed - Len(trackMsgVec) + (i + 1)
    BY <1>0, <2>1 DEF QueueIsRest
  <2>4. i \in Nat
    BY <1>3, TrackNumbers
  <2>5. pushed' = pushed /\ pushed \in Nat /\ Len(trackMsgVec) \in Nat
    BY <1>1, TrackNumbers
  <2>6. Len(trackMsgVec') = Len(trackMsgVec) - 1
    BY <1>3
  <2>7. pushed - Len(trackMsgVec) + (i + 1) = pushed' - Len(trackMsgVec') + i
    BY <2>4, <2>5, <2>6
  <2> QED
    BY <2>2, <2>3, <2>7
<1>6. First' = First + 1 /\ First \in Int
  BY <1>1, <1>3, TrackNumbers DEF First
<1>7. received' = First' - 1
  BY <1>1, <1>2, <1>6
<1>8. Len(trackMsgVec') <= pushed'
  BY <1>1, <1>3, TrackNumbers
<1>9. shots' > 0
  BY <1>1, TrackNumbers
<1>10. QueueIsRest'
  BY <1>1, <1>5, <1>7, <1>8, <1>9 DEF QueueIsRest, NeverStalls
<1> QED
  BY <1>1, <1>2, <1>4, <1>10 DEF TrackInv

\* An error and a shot leave the queue; the server may have got the head.
LEMMA ErrorOrShotKeeps ==
    ASSUME TrackInv, TrackError \/ TrackShot
    PROVE  /\ TrackInv' /\ UNCHANGED pushed
           /\ received' = received \/ (received' = First /\ First \in 1..pushed)
<1>0. TrackTypeOK /\ QueueIsRest
  BY DEF TrackInv
<1>1. UNCHANGED <<pushed, trackMsgVec>>
  BY DEF TrackError, TrackShot
<1>2. /\ isSending' \in BOOLEAN /\ (isSending' => trackMsgVec # <<>>)
      /\ received' = received \/ (received' = First /\ First \in 1..pushed)
  <2>1. CASE TrackError
    BY <1>0, <2>1, HeadIsFirst DEF TrackError, RequestOver, QueueIsRest
  <2>2. CASE TrackShot
    <3>1. isSending' = (isSending \/ trackMsgVec # <<>>) /\ received' = received
      BY <2>2 DEF TrackShot, SendTrackData
    <3>2. isSending => trackMsgVec # <<>>
      BY <1>0 DEF QueueIsRest
    <3> QED
      BY Zenon, <3>1, <3>2
  <2> QED
    BY <2>1, <2>2
<1>3. shots' \in Nat
  BY TrackNumbers DEF TrackError, RequestOver, TrackShot
<1>4. First' = First
  BY <1>1 DEF First
<1>5. TrackTypeOK'
  BY <1>0, <1>1, <1>2, <1>3, TrackNumbers DEF TrackTypeOK
<1>6. NeverStalls'
  <2>1. CASE TrackError
    BY <2>1, TrackNumbers DEF TrackError, RequestOver, NeverStalls
  <2>2. CASE TrackShot
    <3>1. trackMsgVec # <<>> => isSending'
      BY Zenon, <2>2 DEF TrackShot, SendTrackData
    <3> QED
      BY <1>1, <3>1 DEF NeverStalls
  <2> QED
    BY <2>1, <2>2
<1>7. QueueIsRest'
  BY <1>0, <1>1, <1>2, <1>4, <1>6 DEF QueueIsRest
<1> QED
  BY <1>1, <1>2, <1>5, <1>7 DEF TrackInv

--------------------------------------------------------------------------------
\* Part 3: the requests of prices.

(***************************************************************************)
(* The pointer never has a reply that was deleted: what finished() reads,  *)
(* and what is deleted, is there.                                          *)
(***************************************************************************)
ReplyLives == quoteReply # None => quoteReply \in quoting

QuoteInv == QuoteTypeOK /\ ReplyLives /\ SignFits

LEMMA PriceTyped ==
    ASSUME NEW known \in BOOLEAN, NEW name \in {"CNY", "USD"}
    PROVE  /\ PriceNow(known, name) \in {"none", "CNY", "USD"}
           /\ PriceNow(known, name) = "CNY" => name = "CNY" /\ rate = "known"
BY DEF PriceNow

LEMMA QuoteCounts ==
    ASSUME QuoteTypeOK
    PROVE  /\ IsFiniteSet(quoting) /\ Cardinality(quoting) \in Nat
           /\ Cardinality(Reqs) \in Nat
BY ReqAssumption, FS_Subset, FS_CardinalityType DEF QuoteTypeOK

LEMMA QuoteInitInv == QuoteInit => QuoteInv
<1> SUFFICES ASSUME QuoteInit PROVE QuoteInv
  OBVIOUS
<1>1. quoteReply \in Reqs
  BY ReqAssumption DEF QuoteInit
<1>2. quoting = {quoteReply} /\ quoteShots = 0
  BY DEF QuoteInit
<1>3. Cardinality(quoting) = 1
  BY <1>2, FS_Singleton
<1>4. Cardinality(quoting) <= Cardinality(Reqs) /\ Cardinality(Reqs) \in Nat
  BY <1>1, <1>2, ReqAssumption, FS_Subset, FS_CardinalityType
<1>5. quoteShots + Cardinality(quoting) <= Cardinality(Reqs)
  BY <1>2, <1>3, <1>4
<1>6. quoteReply \in Reqs \cup {None} /\ quoting \subseteq Reqs /\ quoteShots \in Nat
  BY <1>1, <1>2
<1>7. /\ halfHourly \in BOOLEAN /\ prices \in BOOLEAN /\ firstReq \in BOOLEAN
      /\ rate \in {"asked", "again", "known", "lost"}
      /\ view \in {"none", "home", "quotations", "other"} /\ shown \in {"none", "CNY", "USD"}
      /\ currencyName \in {"CNY", "USD"}
  BY DEF QuoteInit
<1>8. QuoteTypeOK
  BY <1>5, <1>6, <1>7 DEF QuoteTypeOK
<1>9. SignFits
  BY DEF QuoteInit, SignFits
<1> QED
  BY <1>2, <1>8, <1>9 DEF QuoteInv, ReplyLives

\* A new request is one more that is out, and the pointer has it.
LEMMA RequestCounts ==
    ASSUME QuoteTypeOK, RequestQuotation
    PROVE  /\ quoteReply' \in Reqs /\ quoteReply' \in quoting' /\ quoting' \subseteq Reqs
           /\ Cardinality(quoting') = Cardinality(quoting) + 1
<1>1. NewRequest \in Reqs \ quoting
  BY DEF RequestQuotation, NewRequest
<1>2. Cardinality(quoting \cup {NewRequest}) = Cardinality(quoting) + 1
  BY <1>1, QuoteCounts, FS_AddElement
<1> QED
  BY <1>1, <1>2 DEF RequestQuotation, QuoteTypeOK

\* The end of a request, and of the one the pointer has.
LEMMA DropCounts ==
    ASSUME QuoteTypeOK, NEW r \in quoting, Drop(r)
    PROVE  /\ quoteReply' = None /\ quoting' \subseteq quoting
           /\ Cardinality(quoting') \in Nat
           /\ Cardinality(quoting') + 1 <= Cardinality(quoting)
<1>1. quoteReply' = None /\ quoting' = quoting \ {r, quoteReply}
  BY DEF Drop
<1>2. /\ IsFiniteSet(quoting \ {r})
      /\ Cardinality(quoting \ {r}) = Cardinality(quoting) - 1
  BY QuoteCounts, FS_RemoveElement
<1>3. quoting' \subseteq quoting \ {r}
  BY <1>1
<1>4. Cardinality(quoting') <= Cardinality(quoting \ {r}) /\ IsFiniteSet(quoting')
  BY <1>2, <1>3, FS_Subset
<1>5. Cardinality(quoting') \in Nat
  BY <1>4, FS_CardinalityType
<1>6. Cardinality(quoting') + 1 <= Cardinality(quoting)
  BY <1>2, <1>4, <1>5, QuoteCounts
<1> QED
  BY <1>1, <1>3, <1>5, <1>6

LEMMA LoginQuoteKeeps ==
    ASSUME QuoteInv, QuoteLogin
    PROVE  QuoteInv'
BY PriceTyped DEF QuoteLogin, ShowView, quoteSide, QuoteInv, QuoteTypeOK, ReplyLives, SignFits

LEMMA ShowViewKeeps ==
    ASSUME QuoteInv, NEW v \in {"none", "home", "quotations", "other"}, ShowView(v),
           UNCHANGED <<quoteSide, halfHourly, rate, currencyName>>
    PROVE  QuoteInv'
BY PriceTyped DEF ShowView, quoteSide, QuoteInv, QuoteTypeOK, ReplyLives, SignFits

LEMMA AskKeeps ==
    ASSUME QuoteInv, HalfHour \/ QuoteShot
    PROVE  QuoteInv'
<1>0. QuoteTypeOK
  BY DEF QuoteInv
<1>1. RequestQuotation /\ UNCHANGED <<halfHourly, prices, firstReq, rate, currencyName, view, shown>>
  BY DEF HalfHour, QuoteShot
<1>2. /\ quoteReply' \in Reqs /\ quoteReply' \in quoting' /\ quoting' \subseteq Reqs
      /\ Cardinality(quoting') = Cardinality(quoting) + 1
  BY <1>0, <1>1, RequestCounts
<1>3. quoteShots' \in Nat /\ quoteShots' + Cardinality(quoting') <= Cardinality(Reqs)
  <2>1. quoteShots \in Nat /\ quoteShots + Cardinality(quoting) <= Cardinality(Reqs)
    BY <1>0 DEF QuoteTypeOK
  <2>2. CASE HalfHour
    BY <1>0, <1>2, <2>1, <2>2, QuoteCounts DEF HalfHour
  <2>3. CASE QuoteShot
    BY <1>0, <1>2, <2>1, <2>3, QuoteCounts DEF QuoteShot
  <2> QED
    BY <2>2, <2>3
<1> QED
  BY <1>0, <1>1, <1>2, <1>3 DEF QuoteInv, QuoteTypeOK, ReplyLives, SignFits

LEMMA EndKeeps ==
    ASSUME QuoteInv, NEW r \in Reqs,
           (\E known \in BOOLEAN : QuoteAnswered(r, known)) \/ QuoteUnread(r) \/ QuoteError(r)
    PROVE  QuoteInv'
<1>0. QuoteTypeOK
  BY DEF QuoteInv
<1>1. r \in quoting /\ Drop(r) /\ UNCHANGED <<halfHourly, rate, currencyName, view>>
  BY DEF QuoteAnswered, QuoteUnread, QuoteError
<1>2. /\ quoteReply' = None /\ quoting' \subseteq quoting /\ Cardinality(quoting') \in Nat
      /\ Cardinality(quoting') + 1 <= Cardinality(quoting)
  BY <1>0, <1>1, DropCounts
<1>3. quoteShots' = quoteShots \/ quoteShots' = quoteShots + 1
  BY DEF QuoteAnswered, QuoteUnread, QuoteError
<1>4. quoteShots' \in Nat /\ quoteShots' + Cardinality(quoting') <= Cardinality(Reqs)
  <2>1. quoteShots \in Nat /\ quoteShots + Cardinality(quoting) <= Cardinality(Reqs)
    BY <1>0 DEF QuoteTypeOK
  <2> QED
    BY <1>0, <1>2, <1>3, <2>1, QuoteCounts
<1>5. prices' \in BOOLEAN /\ firstReq' \in BOOLEAN
  BY <1>0 DEF QuoteAnswered, QuoteUnread, QuoteError, QuoteTypeOK
<1>6. shown' \in {"none", "CNY", "USD"} /\ SignFits'
  <2>0. SignFits /\ currencyName \in {"CNY", "USD"}
    BY <1>0 DEF QuoteInv, QuoteTypeOK
  <2>1. CASE shown' = shown
    BY <1>0, <1>1, <2>0, <2>1 DEF QuoteTypeOK, SignFits
  <2>2. CASE view \in {"home", "quotations"} /\ shown' = PriceNow(prices', currencyName)
    <3>1. /\ PriceNow(prices', currencyName) \in {"none", "CNY", "USD"}
          /\ PriceNow(prices', currencyName) = "CNY" => currencyName = "CNY" /\ rate = "known"
      BY <1>5, <2>0, PriceTyped
    <3> QED
      BY <1>1, <2>2, <3>1 DEF SignFits
  <2> QED
    BY <2>1, <2>2 DEF QuoteAnswered, PricesChanged, QuoteUnread, QuoteError
<1> QED
  BY <1>0, <1>1, <1>2, <1>4, <1>5, <1>6 DEF QuoteInv, QuoteTypeOK, ReplyLives, SignFits

LEMMA RateKeeps ==
    ASSUME QuoteInv, RateAnswered \/ RateError \/ RateShot
    PROVE  QuoteInv'
BY DEF RateAnswered, RateError, RateShot, quoteSide, QuoteInv, QuoteTypeOK, ReplyLives, SignFits

LEMMA ChooseKeeps ==
    ASSUME QuoteInv, NEW name \in {"CNY", "USD"}, ChooseCurrency(name)
    PROVE  QuoteInv'
BY PriceTyped DEF ChooseCurrency, quoteSide, QuoteInv, QuoteTypeOK, ReplyLives, SignFits

LEMMA QuoteNextKeeps ==
    ASSUME QuoteInv, QuoteNext
    PROVE  QuoteInv'
<1>1. CASE HalfHour \/ QuoteShot
  BY <1>1, AskKeeps
<1>2. CASE \E r \in Reqs : (\E known \in BOOLEAN : QuoteAnswered(r, known))
                               \/ QuoteUnread(r) \/ QuoteError(r)
  BY <1>2, EndKeeps
<1>3. CASE RateAnswered \/ RateError \/ RateShot
  BY <1>3, RateKeeps
<1>4. CASE BalancesRefreshed
  BY <1>4, ShowViewKeeps DEF BalancesRefreshed
<1> QED
  BY <1>1, <1>2, <1>3, <1>4 DEF QuoteNext

--------------------------------------------------------------------------------
\* Part 4: the three together.

IInv == LockInv /\ TrackInv /\ QuoteInv

LEMMA InitIInv == Init => IInv
BY LockInitInv, TrackInitInv, QuoteInitInv DEF Init, IInv

LEMMA LockStutters ==
    ASSUME LockInv, UNCHANGED lockVars
    PROVE  LockInv'
BY DEF lockVars, settings, LockInv, LockTypeOK, TimerRuns, TimerOff, AfterLogin

LEMMA TrackStutters ==
    ASSUME TrackInv, UNCHANGED trackVars
    PROVE  TrackInv'
BY DEF trackVars, TrackInv, TrackTypeOK, QueueIsRest, NeverStalls, First

LEMMA QuoteStutters ==
    ASSUME QuoteInv, UNCHANGED quoteVars
    PROVE  QuoteInv'
BY DEF quoteVars, quoteSide, QuoteInv, QuoteTypeOK, ReplyLives, SignFits

LEMMA TrackNextKeeps ==
    ASSUME TrackInv, Heartbeat \/ TrackNext
    PROVE  TrackInv'
BY TrackPushKeeps, FinishedKeeps, ErrorOrShotKeeps DEF Heartbeat, TrackNext

LEMMA NextIInv == IInv /\ [Next]_vars => IInv'
<1> SUFFICES ASSUME IInv, [Next]_vars PROVE IInv'
  OBVIOUS
<1>0. LockInv /\ TrackInv /\ QuoteInv
  BY DEF IInv
<1>1. CASE Login
  BY <1>0, <1>1, LoginKeeps, TrackPushKeeps, LoginQuoteKeeps DEF Login, IInv
<1>2. CASE Save
  <2>1. LockInv'
    BY <1>0, <1>2, SaveKeeps DEF Save
  <2>2. TrackInv'
    BY <1>0, <1>2, TrackStutters DEF Save
  <2>3. QuoteInv'
    <3>1. view \in {"none", "home", "quotations", "other"}
      BY <1>0 DEF QuoteInv, QuoteTypeOK
    <3> QED
      BY <1>0, <1>2, <3>1, ShowViewKeeps DEF Save
  <2> QED
    BY <2>1, <2>2, <2>3 DEF IInv
<1>3. CASE LockStep /\ UNCHANGED <<trackVars, quoteVars>>
  BY <1>0, <1>3, LockStepKeeps, TrackStutters, QuoteStutters DEF IInv
<1>4. CASE (Heartbeat \/ TrackNext) /\ UNCHANGED <<lockVars, quoteVars>>
  BY <1>0, <1>4, LockStutters, TrackNextKeeps, QuoteStutters DEF IInv
<1>5. CASE (ShowPage \/ Choose \/ QuoteNext) /\ UNCHANGED <<lockVars, trackVars>>
  <2>1. QuoteInv'
    BY <1>0, <1>5, ShowViewKeeps, ChooseKeeps, QuoteNextKeeps DEF ShowPage, Choose
  <2> QED
    BY <1>0, <1>5, <2>1, LockStutters, TrackStutters DEF IInv
<1>6. CASE UNCHANGED vars
  BY <1>0, <1>6, LockStutters, TrackStutters, QuoteStutters DEF vars, IInv
<1> QED
  BY <1>1, <1>2, <1>3, <1>4, <1>5, <1>6 DEF Next

\* The inductive invariant holds of the specification.
THEOREM Invariance == Spec => []IInv
<1>1. Init => IInv
  BY InitIInv
<1>2. IInv /\ [Next]_vars => IInv'
  BY NextIInv
<1> QED
  BY <1>1, <1>2, PTL DEF Spec

(***************************************************************************)
(* Every variable keeps its type, for any minutes, messages and requests:  *)
(* no more requests of prices are out than the timer and the shots made.   *)
(***************************************************************************)
THEOREM TypeCorrect == Spec => []SessionTypeOK
<1>1. IInv => SessionTypeOK
  BY DEF IInv, LockInv, TrackInv, QuoteInv, SessionTypeOK
<1> QED
  BY <1>1, Invariance, PTL

(***************************************************************************)
(* However input, dialogs, settings, locking and unlocking alternate, a    *)
(* wallet without input for lockMinutes is locked.                         *)
(***************************************************************************)
THEOREM IdleWalletLocks == Spec => []IdleLocks
<1>1. IInv => IdleLocks
  <2> SUFFICES ASSUME IInv, loggedIn, ~lockPage, ~notAutoLock PROVE idle <= lockMinutes
    BY DEF IdleLocks
  <2>1. LockTypeOK /\ TimerRuns
    BY DEF IInv, LockInv
  <2>2. idle = elapsed /\ elapsed \in 0..lockMinutes /\ idle \in Nat
    BY <2>1 DEF TimerRuns, LockTypeOK
  <2>3. lockMinutes \in Nat
    BY <2>1, MinutesAreNumbers DEF LockTypeOK
  <2> QED
    BY <2>2, <2>3
<1> QED
  BY <1>1, Invariance, PTL

\* A step that shows the lock page is the firing of a timer that is due.
LEMMA LockShown ==
    ASSUME [Next]_vars, ~lockPage, lockPage'
    PROVE  AutoLock
<1>1. ~UNCHANGED lockPage
  OBVIOUS
<1>2. ~UNCHANGED lockVars
  BY <1>1, Zenon DEF lockVars
<1>3. ~Login /\ ~Save
  BY <1>1 DEF Login, LockLogin, Save, SaveSettings
<1>4. LockStep
  BY <1>2, <1>3 DEF Next, vars
<1> QED
  BY <1>1, <1>4 DEF LockStep, Input, Minute, OpenSettings, ReportOpens, Report, CloseDialog,
                    CloseReport, Unlock

(***************************************************************************)
(* It is not locked a minute earlier, and never if it is not to lock: the  *)
(* timer is started again or stopped with everything that should do so.    *)
(***************************************************************************)
THEOREM NotLockedEarly == Spec => LocksWhenIdle
<1>1. IInv /\ [Next]_vars => [~lockPage /\ lockPage' => ~notAutoLock /\ idle = lockMinutes]_lockVars
  <2> SUFFICES ASSUME IInv, [Next]_vars, ~lockPage, lockPage'
               PROVE  ~notAutoLock /\ idle = lockMinutes
    OBVIOUS
  <2>1. LockTypeOK /\ TimerRuns /\ TimerOff
    BY DEF IInv, LockInv
  <2>2. lockTimer = "on" /\ elapsed = lockMinutes
    BY LockShown DEF AutoLock, Due
  <2>3. ~notAutoLock /\ loggedIn
    BY <2>1, <2>2 DEF TimerOff, LockTypeOK
  <2> QED
    BY <2>1, <2>2, <2>3 DEF TimerRuns
<1> QED
  BY <1>1, Invariance, PTL DEF Spec, LocksWhenIdle

(***************************************************************************)
(* While a report of use waits something is under way that sends it: the   *)
(* queue never depends on the next message, whatever requests fail.        *)
(***************************************************************************)
THEOREM QueueNeverStalls == Spec => []NeverStalls
<1>1. IInv => NeverStalls
  BY DEF IInv, TrackInv, QueueIsRest
<1> QED
  BY <1>1, Invariance, PTL

(***************************************************************************)
(* A price in CNY is never shown with the sign of USD, in whatever order   *)
(* prices, rates, refreshed balances and choices of the currency come.     *)
(***************************************************************************)
THEOREM PriceFitsSign == Spec => []SignFits
<1>1. IInv => SignFits
  BY DEF IInv, QuoteInv
<1> QED
  BY <1>1, Invariance, PTL

(***************************************************************************)
(* requestQuotationFinished and requestQuotationError never read or delete *)
(* a reply that was deleted, though the timer and the shots overwrite the  *)
(* pointer while requests are out.                                         *)
(***************************************************************************)
THEOREM NoDeletedReply == Spec => []ReplyLives
<1>1. IInv => ReplyLives
  BY DEF IInv, QuoteInv
<1> QED
  BY <1>1, Invariance, PTL

(***************************************************************************)
(* The reports reach the server in the order they were handed over: every  *)
(* step of the session is one of Outbox, or none.  (That each of them      *)
(* arrives at last is a matter of fairness, which TLC checks.)             *)
(***************************************************************************)
THEOREM ReportsInOrder ==
    Spec => Reports!Init /\ [][Reports!Next]_<<pushed, received>>
<1>1. Init => Reports!Init
  BY DEF Init, TrackInit, Reports!Init
<1>2. IInv /\ [Next]_vars => [Reports!Next]_<<pushed, received>>
  <2> SUFFICES ASSUME IInv, [Next]_vars
               PROVE  Reports!Next \/ UNCHANGED <<pushed, received>>
    OBVIOUS
  <2>0. TrackInv
    BY DEF IInv
  <2>1. CASE TrackPush
    BY <2>1 DEF TrackPush, Reports!Next, Reports!Push
  <2>2. CASE pushed' = pushed /\ received' = First /\ First \in 1..pushed
    <3>1. received = First - 1 \/ received = First
      BY <2>0 DEF TrackInv, QueueIsRest
    <3>2. CASE received = First
      BY <2>2, <3>2
    <3>3. CASE received = First - 1
      <4>1. received < pushed /\ received' = received + 1
        BY <2>0, <2>2, <3>3, TrackNumbers
      <4> QED
        BY <2>2, <4>1 DEF Reports!Next, Reports!Receive
    <3> QED
      BY <3>1, <3>2, <3>3
  <2>3. CASE TrackFinished
    BY <2>0, <2>2, <2>3, FinishedKeeps
  <2>4. CASE TrackError \/ TrackShot
    BY <2>0, <2>2, <2>4, ErrorOrShotKeeps
  <2>5. CASE UNCHANGED trackVars
    BY <2>5 DEF trackVars
  <2> QED
    BY <2>1, <2>3, <2>4, <2>5
       DEF Next, Login, Save, Heartbeat, TrackNext, vars
<1> QED
  BY <1>1, <1>2, Invariance, PTL DEF Spec
================================================================================
