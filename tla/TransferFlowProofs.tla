------------------------- MODULE TransferFlowProofs -------------------------
(***************************************************************************)
(* Proofs about TransferFlow: the invariants of the page for every set of  *)
(* accounts, tokens and receivers and every bound, and that the page       *)
(* implements TransferOrder when no list arrives under the dialog.         *)
(***************************************************************************)
EXTENDS TransferFlow, TLAPS

--------------------------------------------------------------------------------
(***************************************************************************)
(* Helpers.                                                                *)
(***************************************************************************)
LEMMA ActIsListed == ACT \in Currencies /\ IsAsset(ACT) /\ ACT # Unlisted
BY CurrencyAssumption DEF Currencies, Listed, IsAsset

\* checkAmountValid: a currency that is in no list has the balance 0.
LEMMA UnlistedPaysNothing ==
    ASSUME NEW n, NEW m \in 0..MaxAmount, AmountValid(n, m, Unlisted)
    PROVE  m = 0
<1>1. Balance(n, Unlisted) = 0
  BY CurrencyAssumption DEF Balance, Listed
<1>2. m <= 0
  BY <1>1 DEF AmountValid
<1> QED
  BY <1>2, FeeAssumption

LEMMA AmountValidBoolean ==
    ASSUME NEW n, NEW m, NEW c PROVE AmountValid(n, m, c) \in BOOLEAN
BY Zenon DEF AmountValid

LEMMA OrderFields ==
    ASSUME NEW a \in Addrs, NEW m \in 0..MaxAmount, m # 0, NEW c \in Currencies
    PROVE  [to |-> a, amount |-> m, cur |-> c] \in Orders
<1>1. m \in 1..MaxAmount
  BY FeeAssumption
<1> QED
  BY <1>1 DEF Orders

\* What was read from the form is an order, whatever its currency.
LEMMA ReadIsOrder ==
    ASSUME Read(ACT) \in Orders, NEW c \in Currencies
    PROVE  Read(c) \in Orders /\ Read(c) # NoOrder
BY OrderAssumption DEF Read, Orders

--------------------------------------------------------------------------------
(***************************************************************************)
(* FlowInv.  TypeOK is cut into the form, the data and the rest.           *)
(***************************************************************************)
FormOK ==
    /\ items \subseteq Listed /\ combo \in Listed /\ account \in Names
    /\ to \in Addrs \cup {NoAddr} /\ amount \in 0..MaxAmount
    /\ sendEnabled \in BOOLEAN /\ checked \in BOOLEAN

DataOK ==
    /\ tokens \subseteq Tokens /\ current \in Currencies
    /\ balances \in [Names -> [Listed -> 0..MaxBalance]]

SendingOK ==
    /\ dialog \in {"none", "confirm", "submitted", "error"}
    /\ shown \in Orders \cup {NoOrder} /\ waitingPage \in BOOLEAN
    /\ toAddressText \in Addrs \cup {NoAddr} /\ amountText \in 0..MaxAmount
    /\ getReply \in BOOLEAN /\ castReply \in BOOLEAN /\ posted \in Orders \cup {NoOrder}
    /\ stray \in {"none", "get", "cast"} /\ swallowed \in BOOLEAN
    /\ reports \in Nat

LEMMA TypeParts == TypeOK <=> FormOK /\ DataOK /\ SendingOK
BY DEF TypeOK, FormOK, DataOK, SendingOK

LEMMA TypePartsPrime == TypeOK' <=> FormOK' /\ DataOK' /\ SendingOK'
BY DEF TypeOK, FormOK, DataOK, SendingOK

LEMMA ListedCurrencies == tokens \subseteq Tokens => tokens \cup {ACT, Unlisted} \subseteq Currencies
BY DEF Currencies, Listed

LEMMA FlowInit == Init => FlowInv
<1> SUFFICES ASSUME Init PROVE FlowInv
  OBVIOUS
<1>1. FormOK
  <2>1. sendEnabled \in BOOLEAN
    BY AmountValidBoolean, Zenon DEF Init
  <2>2. items \subseteq Listed /\ combo \in Listed
    BY DEF Init, Listed
  <2>3. account \in Names /\ to \in Addrs \cup {NoAddr} /\ amount \in 0..MaxAmount
    BY FeeAssumption DEF Init
  <2> QED
    BY <2>1, <2>2, <2>3 DEF FormOK, Init
<1>2. DataOK
  BY DEF Init, DataOK, Currencies, Listed
<1>3. SendingOK
  <2>1. amountText \in 0..MaxAmount /\ reports \in Nat
    BY FeeAssumption DEF Init
  <2> QED
    BY <2>1 DEF Init, SendingOK
<1>4. FormInv
  BY ActIsListed DEF Init, FormInv
<1>5. CurrentInList /\ NeverOffersUnlisted /\ OneRequest /\ StrayInv
  BY DEF Init, CurrentInList, NeverOffersUnlisted, OneRequest, StrayInv
<1>6. ReportedOnce /\ ReadInv
  BY DEF Init, ReportedOnce, ReadInv
<1> QED
  BY <1>1, <1>2, <1>3, <1>4, <1>5, <1>6, TypeParts DEF FlowInv

\* A step of the form keeps the invariant if the form and current are right.
LEMMA FormStep ==
    ASSUME FlowInv, FormOK', FormInv', current' \in tokens \cup {ACT, Unlisted},
           UNCHANGED <<tokens, balances, textVars, netVars, dlgVars>>
    PROVE  FlowInv'
<1>1. TypeOK
  BY DEF FlowInv
<1>2. DataOK'
  BY <1>1, TypeParts, ListedCurrencies DEF DataOK
<1>3. SendingOK'
  BY <1>1, TypeParts DEF SendingOK, textVars, netVars, dlgVars
<1>4. CurrentInList' /\ NeverOffersUnlisted'
  BY DEF FlowInv, CurrentInList, NeverOffersUnlisted, dlgVars
<1>5. OneRequest' /\ ReportedOnce' /\ StrayInv'
  BY DEF FlowInv, OneRequest, ReportedOnce, StrayInv, netVars, dlgVars
<1>6. ReadInv'
  BY DEF FlowInv, ReadInv, Read, textVars, netVars, dlgVars
<1> QED
  BY <1>2, <1>3, <1>4, <1>5, <1>6, TypePartsPrime DEF FlowInv

\* A step of the dialog or the network leaves the form and the data alone.
LEMMA SendingStep ==
    ASSUME FlowInv, UNCHANGED <<formVars, dataVars>>, SendingOK',
           NeverOffersUnlisted', OneRequest', ReportedOnce', StrayInv', ReadInv'
    PROVE  FlowInv'
<1>1. TypeOK
  BY DEF FlowInv
<1>2. FormOK' /\ DataOK'
  BY <1>1, TypeParts DEF FormOK, DataOK, formVars, inputVars, dataVars
<1>3. CurrentInList' /\ FormInv'
  BY DEF FlowInv, CurrentInList, FormInv, formVars, inputVars, dataVars
<1> QED
  BY <1>2, <1>3, TypePartsPrime DEF FlowInv

LEMMA FreshForm ==
    ASSUME FlowInv, NEW n \in Names, FreshPage(n)
    PROVE  FormOK' /\ amount' = 0
<1>1. sendEnabled' \in BOOLEAN
  BY AmountValidBoolean, Zenon DEF FreshPage
<1>2. items' \subseteq Listed /\ combo' \in Listed
  BY DEF FreshPage, FlowInv, TypeOK, Listed
<1>3. account' \in Names /\ to' \in Addrs \cup {NoAddr} /\ amount' \in 0..MaxAmount
  BY FeeAssumption DEF FreshPage
<1> QED
  BY <1>1, <1>2, <1>3 DEF FormOK, FreshPage

LEMMA FlowUser ==
    ASSUME FlowInv, User
    PROVE  FlowInv'
<1>0. FormOK /\ DataOK /\ SendingOK
  BY TypeParts DEF FlowInv
<1>1. ASSUME NEW a \in Addrs \cup {NoAddr}, EditTo(a) PROVE FlowInv'
  <2>1. FormOK' /\ FormInv'
    BY <1>0, <1>1 DEF EditTo, FormOK, FormInv, FlowInv, dataVars
  <2>2. current' \in tokens \cup {ACT, Unlisted}
    BY <1>1 DEF EditTo, FlowInv, CurrentInList, dataVars
  <2> QED
    BY <1>1, <2>1, <2>2, FormStep DEF EditTo, dataVars
<1>2. ASSUME NEW m \in 0..MaxAmount, EditAmount(m) PROVE FlowInv'
  <2>1. sendEnabled' \in BOOLEAN
    BY <1>2, AmountValidBoolean, Zenon DEF EditAmount
  <2>2. FormOK'
    BY <1>0, <1>2, <2>1 DEF EditAmount, FormOK
  <2>3. FormInv'
    BY <1>2, UnlistedPaysNothing DEF EditAmount, FormInv, dataVars
  <2>4. current' \in tokens \cup {ACT, Unlisted}
    BY <1>2 DEF EditAmount, FlowInv, CurrentInList, dataVars
  <2> QED
    BY <1>2, <2>2, <2>3, <2>4, FormStep DEF EditAmount, dataVars
<1>3. ASSUME NEW n \in Names, ChooseAccount(n) PROVE FlowInv'
  <2>1. sendEnabled' \in BOOLEAN
    BY <1>3, AmountValidBoolean, Zenon DEF ChooseAccount
  <2>2. FormOK'
    BY <1>0, <1>3, <2>1 DEF ChooseAccount, FormOK
  <2>3. FormInv'
    BY <1>0, <1>3, UnlistedPaysNothing DEF ChooseAccount, FormInv, FormOK, dataVars
  <2>4. current' \in tokens \cup {ACT, Unlisted}
    BY <1>3 DEF ChooseAccount, FlowInv, CurrentInList, dataVars
  <2> QED
    BY <1>3, <2>2, <2>3, <2>4, FormStep DEF ChooseAccount, dataVars
<1>4. ASSUME NEW n \in Names, ShowTransferPage(n) PROVE FlowInv'
  <2>1. FormOK' /\ FormInv'
    BY <1>4, FreshForm DEF ShowTransferPage, FormInv
  <2>2. current' \in tokens \cup {ACT, Unlisted}
    BY <1>4 DEF ShowTransferPage, FlowInv, CurrentInList, dataVars
  <2> QED
    BY <1>4, <2>1, <2>2, FormStep DEF ShowTransferPage, dataVars
<1>5. ASSUME NEW c \in Listed, ChooseAsset(c) PROVE FlowInv'
  <2>1. CASE current' = CurrencyById(c) /\ sendEnabled' = AmountValid(account, amount, current')
    <3>1. sendEnabled' \in BOOLEAN
      BY <2>1, AmountValidBoolean, Zenon
    <3>2. FormOK'
      BY <1>0, <1>5, <3>1 DEF ChooseAsset, FormOK
    <3>3. FormInv'
      BY <1>0, <1>5, <2>1, UnlistedPaysNothing DEF ChooseAsset, FormInv, FormOK
    <3>4. current' \in tokens \cup {ACT, Unlisted}
      BY <2>1 DEF CurrencyById
    <3> QED
      BY <1>5, <3>2, <3>3, <3>4, FormStep DEF ChooseAsset
  <2>2. CASE UNCHANGED <<current, sendEnabled>>
    <3>1. FormOK' /\ FormInv'
      BY <1>0, <1>5, <2>2 DEF ChooseAsset, FormOK, FormInv, FlowInv
    <3>2. current' \in tokens \cup {ACT, Unlisted}
      BY <2>2 DEF FlowInv, CurrentInList
    <3> QED
      BY <1>5, <3>1, <3>2, FormStep DEF ChooseAsset
  <2> QED
    BY <1>5, <2>1, <2>2 DEF ChooseAsset
<1>6. ASSUME Send PROVE FlowInv'
  <2>1. CASE CanOffer
    <3>1. amount # 0
      BY <2>1 DEF CanOffer
    <3>2. /\ [to |-> to, amount |-> amount, cur |-> current] \in Orders
          /\ [to |-> to, amount |-> amount, cur |-> ACT] \in Orders
      BY <1>0, <1>6, <3>1, OrderFields, ActIsListed DEF Send, FormOK, DataOK
    <3>3. SendingOK'
      BY <1>0, <1>6, <2>1, <3>2 DEF Send, SendingOK, FormOK, netVars
    <3>4. NeverOffersUnlisted'
      BY <1>6, <2>1, <3>1 DEF Send, NeverOffersUnlisted, FlowInv, FormInv
    <3>5. ReadInv'
      BY <1>6, <3>2 DEF Send, ReadInv, Read
    <3>6. OneRequest' /\ ReportedOnce' /\ StrayInv'
      BY <1>6, <2>1 DEF Send, UserFree, FlowInv, OneRequest, ReportedOnce, StrayInv, netVars
    <3> QED
      BY <1>6, <3>3, <3>4, <3>5, <3>6, SendingStep DEF Send
  <2>2. CASE ~CanOffer
    <3>1. SendingOK'
      BY <1>0, <1>6, <2>2 DEF Send, SendingOK, FormOK, netVars
    <3>2. ~getReply /\ posted = NoOrder /\ dialog = "none"
      BY <1>6 DEF Send, UserFree, FlowInv, OneRequest
    <3>3. ReadInv'
      BY <1>6, <2>2, <3>2 DEF Send, ReadInv, netVars
    <3>4. NeverOffersUnlisted' /\ OneRequest' /\ ReportedOnce' /\ StrayInv'
      BY <1>6, <2>2 DEF Send, UserFree, FlowInv, NeverOffersUnlisted, OneRequest, ReportedOnce, StrayInv, netVars
    <3> QED
      BY <1>6, <3>1, <3>3, <3>4, SendingStep DEF Send
  <2> QED
    BY <2>1, <2>2
<1>7. ASSUME Cancel PROVE FlowInv'
  <2>1. ~getReply
    BY <1>7 DEF Cancel, FlowInv, OneRequest
  <2>2. SendingOK'
    BY <1>0, <1>7 DEF Cancel, SendingOK, textVars, netVars
  <2>3. ReadInv' /\ NeverOffersUnlisted'
    BY <1>7, <2>1 DEF Cancel, ReadInv, NeverOffersUnlisted, netVars
  <2>4. OneRequest' /\ ReportedOnce' /\ StrayInv'
    BY <1>7 DEF Cancel, FlowInv, OneRequest, ReportedOnce, StrayInv, netVars
  <2> QED
    BY <1>7, <2>2, <2>3, <2>4, SendingStep DEF Cancel
<1>8. ASSUME Ok PROVE FlowInv'
  <2>0. /\ ~getReply /\ posted = NoOrder /\ stray = "none"
        /\ Read(ACT) \in Orders
    BY <1>0, <1>8 DEF Ok, FlowInv, OneRequest, StrayInv, ReadInv, SendingOK
  <2>1. CASE IsAsset(current)
    <3>1. SendingOK'
      BY <1>0, <1>8, <2>1 DEF Ok, SendingOK, textVars
    <3>2. ReadInv' /\ NeverOffersUnlisted'
      BY <1>8, <2>0 DEF Ok, ReadInv, Read, NeverOffersUnlisted, FlowInv, textVars
    <3>3. OneRequest' /\ ReportedOnce' /\ StrayInv'
      BY <1>8, <2>0, <2>1 DEF Ok, FlowInv, OneRequest, ReportedOnce, StrayInv
    <3> QED
      BY <1>8, <3>1, <3>2, <3>3, SendingStep DEF Ok
  <2>2. CASE ~IsAsset(current)
    <3>1. /\ castReply' = TRUE /\ posted' = Read(current) /\ reports' = 0
          /\ UNCHANGED getReply
      BY <1>8, <2>2 DEF Ok, TokenTransferTo, Broadcast, Read
    <3>2. posted' \in Orders /\ posted' # NoOrder
      BY <1>0, <2>0, <3>1, ReadIsOrder DEF DataOK
    <3>3. SendingOK'
      BY <1>0, <1>8, <3>1, <3>2 DEF Ok, SendingOK, textVars
    <3>4. ReadInv' /\ NeverOffersUnlisted'
      BY <1>8, <2>0, <3>1 DEF Ok, ReadInv, Read, NeverOffersUnlisted, FlowInv, textVars
    <3>5. OneRequest' /\ ReportedOnce' /\ StrayInv'
      BY <1>8, <2>0, <3>1, <3>2 DEF Ok, OneRequest, ReportedOnce, StrayInv
    <3> QED
      BY <1>8, <3>3, <3>4, <3>5, SendingStep DEF Ok
  <2> QED
    BY <2>1, <2>2
<1>9. ASSUME CloseReport PROVE FlowInv'
  <2>1. ~getReply /\ posted = NoOrder
    BY <1>9 DEF CloseReport, FlowInv, OneRequest
  <2>2. FormOK' /\ FormInv'
    BY <1>0, <1>9, FreshForm DEF CloseReport, FormInv, FlowInv, FormOK, formVars, inputVars, dataVars
  <2>3. SendingOK'
    BY <1>0, <1>9 DEF CloseReport, SendingOK, textVars, netVars
  <2>4. CurrentInList' /\ NeverOffersUnlisted' /\ ReadInv'
    BY <1>9, <2>1 DEF CloseReport, FlowInv, CurrentInList, NeverOffersUnlisted, ReadInv, dataVars, netVars
  <2>5. OneRequest' /\ ReportedOnce' /\ StrayInv'
    BY <1>9, <2>1 DEF CloseReport, FlowInv, OneRequest, ReportedOnce, StrayInv, netVars
  <2>6. DataOK'
    BY <1>0, <1>9 DEF CloseReport, DataOK, dataVars
  <2> QED
    BY <2>2, <2>3, <2>4, <2>5, <2>6, TypePartsPrime DEF FlowInv
<1> QED
  BY <1>1, <1>2, <1>3, <1>4, <1>5, <1>6, <1>7, <1>8, <1>9 DEF User

LEMMA ReportStep ==
    ASSUME FlowInv, posted # NoOrder, stray = "none", NEW out \in {"submitted", "error"},
           Report(out), UNCHANGED <<formVars, dataVars, textVars, getReply, swallowed>>,
           \/ stray' = "none" /\ castReply' = castReply
           \/ stray' = "cast" /\ castReply' = FALSE
    PROVE  FlowInv'
<1>0. SendingOK
  BY TypeParts DEF FlowInv
<1>1. ~getReply /\ reports = 0
  BY DEF FlowInv, OneRequest, ReportedOnce
<1>2. SendingOK'
  <2>1. reports' \in Nat
    BY <1>1 DEF Report
  <2>2. stray' \in {"none", "get", "cast"} /\ castReply' \in BOOLEAN
    BY <1>0 DEF SendingOK
  <2>3. dialog' \in {"none", "confirm", "submitted", "error"}
    BY DEF Report
  <2> QED
    BY <1>0, <2>1, <2>2, <2>3 DEF Report, SendingOK, textVars
<1>3. NeverOffersUnlisted' /\ ReadInv'
  BY <1>1 DEF Report, NeverOffersUnlisted, ReadInv
<1>4. OneRequest' /\ ReportedOnce' /\ StrayInv'
  BY <1>1 DEF Report, OneRequest, ReportedOnce, StrayInv
<1> QED
  BY <1>2, <1>3, <1>4, SendingStep

LEMMA FlowNetwork ==
    ASSUME FlowInv, Network
    PROVE  FlowInv'
<1>0. SendingOK
  BY TypeParts DEF FlowInv
<1>1. ASSUME BalancesOk PROVE FlowInv'
  <2>1. /\ Read(ACT) \in Orders /\ posted' = Read(ACT) /\ posted' # NoOrder
        /\ castReply' = TRUE /\ reports' = 0
        /\ ~getReply' /\ waitingPage /\ dialog = "none"
    BY <1>1, ActIsListed, ReadIsOrder DEF BalancesOk, TokenTransferTo, Broadcast, Read, FlowInv, ReadInv, OneRequest
  <2>2. SendingOK'
    BY <1>0, <1>1, <2>1 DEF BalancesOk, SendingOK, textVars, dlgVars
  <2>3. NeverOffersUnlisted' /\ ReadInv'
    BY <1>1, <2>1 DEF BalancesOk, NeverOffersUnlisted, ReadInv, FlowInv, dlgVars
  <2>4. OneRequest' /\ ReportedOnce' /\ StrayInv'
    BY <1>1, <2>1 DEF BalancesOk, OneRequest, ReportedOnce, StrayInv, dlgVars
  <2> QED
    BY <1>1, <2>2, <2>3, <2>4, SendingStep DEF BalancesOk
<1>2. ASSUME BalancesUnparsable PROVE FlowInv'
  <2>1. posted = NoOrder /\ waitingPage /\ dialog = "none"
    BY <1>2 DEF BalancesUnparsable, FlowInv, OneRequest
  <2>2. SendingOK'
    BY <1>0, <1>2 DEF BalancesUnparsable, SendingOK, textVars
  <2>3. NeverOffersUnlisted' /\ ReadInv'
    BY <1>2, <2>1 DEF BalancesUnparsable, NeverOffersUnlisted, ReadInv
  <2>4. OneRequest' /\ ReportedOnce' /\ StrayInv'
    BY <1>2, <2>1 DEF BalancesUnparsable, FlowInv, OneRequest, ReportedOnce, StrayInv
  <2> QED
    BY <1>2, <2>2, <2>3, <2>4, SendingStep DEF BalancesUnparsable
<1>3. ASSUME BalancesError PROVE FlowInv'
  <2>1. posted = NoOrder /\ dialog = "none"
    BY <1>3 DEF BalancesError, FlowInv, OneRequest
  <2>2. SendingOK'
    BY <1>0, <1>3 DEF BalancesError, SendingOK, textVars
  <2>3. NeverOffersUnlisted' /\ ReadInv'
    BY <1>3, <2>1 DEF BalancesError, NeverOffersUnlisted, ReadInv
  <2>4. OneRequest' /\ ReportedOnce' /\ StrayInv'
    BY <1>3, <2>1 DEF BalancesError, FlowInv, OneRequest, ReportedOnce, StrayInv
  <2> QED
    BY <1>3, <2>2, <2>3, <2>4, SendingStep DEF BalancesError
<1>4. ASSUME BroadcastAnswered PROVE FlowInv'
  <2>1. PICK out \in {"submitted", "error"} : Report(out)
    BY <1>4 DEF BroadcastAnswered
  <2> QED
    BY <1>4, <2>1, ReportStep DEF BroadcastAnswered
<1>5. ASSUME BroadcastError PROVE FlowInv'
  BY <1>5, ReportStep DEF BroadcastError
<1>6. ASSUME StrayFinished PROVE FlowInv'
  <2>1. ~getReply /\ posted = NoOrder /\ dialog # "confirm" /\ UNCHANGED <<dlgVars, posted, reports>>
    BY <1>6 DEF StrayFinished, FlowInv, StrayInv
  <2>2. SendingOK'
    BY <1>0, <1>6, <2>1 DEF StrayFinished, SendingOK, textVars, dlgVars
  <2>3. NeverOffersUnlisted' /\ ReadInv'
    BY <1>6, <2>1 DEF StrayFinished, NeverOffersUnlisted, ReadInv, FlowInv, dlgVars
  <2>4. OneRequest' /\ ReportedOnce' /\ StrayInv'
    BY <1>6, <2>1 DEF StrayFinished, FlowInv, OneRequest, ReportedOnce, StrayInv, dlgVars
  <2> QED
    BY <1>6, <2>2, <2>3, <2>4, SendingStep DEF StrayFinished
<1> QED
  BY <1>1, <1>2, <1>3, <1>4, <1>5, <1>6 DEF Network

\* What goes on in the background changes the data only.
LEMMA BackgroundStep ==
    ASSUME FlowInv, DataOK', CurrentInList', FormInv',
           checked' \in BOOLEAN, UNCHANGED <<inputVars, textVars, netVars, dlgVars>>
    PROVE  FlowInv'
<1>0. FormOK /\ SendingOK
  BY TypeParts DEF FlowInv
<1>1. FormOK' /\ SendingOK'
  BY <1>0 DEF FormOK, SendingOK, formVars, inputVars, textVars, netVars, dlgVars
<1>2. NeverOffersUnlisted' /\ OneRequest' /\ ReportedOnce' /\ StrayInv'
  BY DEF FlowInv, NeverOffersUnlisted, OneRequest, ReportedOnce, StrayInv, netVars, dlgVars
<1>3. ReadInv'
  BY DEF FlowInv, ReadInv, Read, textVars, netVars, dlgVars
<1> QED
  BY <1>1, <1>2, <1>3, TypePartsPrime DEF FlowInv

LEMMA FlowEvents ==
    ASSUME FlowInv, Events
    PROVE  FlowInv'
<1>0. DataOK
  BY TypeParts DEF FlowInv
<1>1. ASSUME NEW S \in SUBSET Tokens, AssetTypeGet(S) PROVE FlowInv'
  <2>1. DataOK' /\ CurrentInList' /\ FormInv'
    BY <1>0, <1>1, ActIsListed DEF AssetTypeGet, DataOK, CurrentInList, FormInv
  <2> QED
    BY <1>1, <2>1, BackgroundStep DEF AssetTypeGet
<1>2. ASSUME NEW n \in Names, NEW c \in Listed, NEW v \in 0..MaxBalance, BalanceUpdate(n, c, v)
      PROVE FlowInv'
  <2>1. balances' \in [Names -> [Listed -> 0..MaxBalance]]
    BY <1>0, <1>2 DEF BalanceUpdate, DataOK
  <2>2. DataOK' /\ CurrentInList'
    BY <1>0, <1>2, <2>1 DEF BalanceUpdate, DataOK, CurrentInList, FlowInv
  <2>3. FormInv'
    BY <1>2 DEF BalanceUpdate, FormInv, FlowInv, formVars, inputVars
  <2> QED
    BY <1>2, <2>2, <2>3, BackgroundStep DEF BalanceUpdate
<1> QED
  BY <1>1, <1>2 DEF Events

LEMMA FlowNext == FlowInv /\ [Next]_vars => FlowInv'
<1> SUFFICES ASSUME FlowInv, [Next]_vars PROVE FlowInv'
  OBVIOUS
<1>1. CASE UNCHANGED vars
  <2>1. FormInv' /\ CurrentInList' /\ DataOK' /\ checked' \in BOOLEAN
    BY <1>1, TypeParts DEF FormOK, vars, formVars, inputVars, dataVars, FormInv, CurrentInList, DataOK, FlowInv
  <2> QED
    BY <1>1, <2>1, BackgroundStep DEF vars, formVars
<1> QED
  BY <1>1, FlowUser, FlowNetwork, FlowEvents DEF Next

(***************************************************************************)
(* For every set of accounts, tokens and receivers, FlowInv holds always.  *)
(***************************************************************************)
THEOREM FlowInvariance == Spec => []FlowInv
BY FlowInit, FlowNext, PTL DEF Spec

(***************************************************************************)
(* Every variable of the page and its requests keeps its type.             *)
(***************************************************************************)
THEOREM TypeCorrect == Spec => []TypeOK
<1>1. FlowInv => TypeOK
  BY DEF FlowInv
<1> QED
  BY <1>1, FlowInvariance, PTL

(***************************************************************************)
(* The contract of the current currency is found when a token is sent.     *)
(***************************************************************************)
THEOREM CurrentListed == Spec => []CurrentInList
<1>1. FlowInv => CurrentInList
  BY DEF FlowInv
<1> QED
  BY <1>1, FlowInvariance, PTL

(***************************************************************************)
(* A currency that is in no list is never offered, whatever the lists and  *)
(* the balances do in the meantime.                                        *)
(***************************************************************************)
THEOREM UnlistedNotOffered == Spec => []NeverOffersUnlisted
<1>1. FlowInv => NeverOffersUnlisted
  BY DEF FlowInv
<1> QED
  BY <1>1, FlowInvariance, PTL

(***************************************************************************)
(* One request runs at a time, under the waiting page.                     *)
(***************************************************************************)
THEOREM RequestsAlone == Spec => []OneRequest
<1>1. FlowInv => OneRequest
  BY DEF FlowInv
<1> QED
  BY <1>1, FlowInvariance, PTL

(***************************************************************************)
(* The outcome of a broadcast is reported at most once, although a failed  *)
(* request raises two signals.                                             *)
(***************************************************************************)
THEOREM OutcomeOnce == Spec => []ReportedOnce
<1>1. FlowInv => ReportedOnce
  BY DEF FlowInv
<1> QED
  BY <1>1, FlowInvariance, PTL

--------------------------------------------------------------------------------
(***************************************************************************)
(* ShownInv, if no list of tokens arrives while the dialog is open.        *)
(***************************************************************************)
NoListInDialog == "listInDialog" \notin Background

LEMMA ShownInit == Init => ShownInv
<1> SUFFICES ASSUME Init PROVE ShownInv
  OBVIOUS
<1>1. SendsWhatWasShown /\ dialog # "confirm" /\ ~getReply /\ shown = NoOrder
  BY DEF Init, SendsWhatWasShown
<1> QED
  BY <1>1, FlowInit DEF ShownInv

\* When the user agrees to an order of ACT, ACT is what was shown.
LEMMA AgreedAsset ==
    ASSUME ShownInv, dialog = "confirm", IsAsset(current)
    PROVE  current = ACT
<1>1. shown = Read(current) /\ shown # NoOrder
  <2>1. Read(ACT) \in Orders
    BY DEF ShownInv, FlowInv, ReadInv
  <2> QED
    BY <2>1, ReadIsOrder DEF ShownInv, FlowInv, TypeOK
<1>2. shown.cur = current
  BY <1>1 DEF Read
<1>3. current # Unlisted
  BY <1>1, <1>2 DEF ShownInv, FlowInv, NeverOffersUnlisted
<1> QED
  BY <1>3 DEF ShownInv, FlowInv, CurrentInList, TypeOK, IsAsset

\* A step that touches neither the dialog nor what was read.
LEMMA ShownKept ==
    ASSUME ShownInv, FlowInv', UNCHANGED <<dlgVars, posted, getReply, textVars>>,
           dialog = "confirm" => UNCHANGED current
    PROVE  ShownInv'
<1>1. SendsWhatWasShown'
  BY DEF ShownInv, SendsWhatWasShown, dlgVars
<1>2. (dialog = "confirm" => shown = Read(current))'
  BY DEF ShownInv, Read, dlgVars, textVars
<1>3. (getReply => shown = Read(ACT))'
  BY DEF ShownInv, Read, dlgVars, textVars
<1>4. (~getReply /\ posted = NoOrder /\ dialog # "confirm" => shown = NoOrder)'
  BY DEF ShownInv, dlgVars
<1> QED
  BY <1>1, <1>2, <1>3, <1>4 DEF ShownInv

\* A step after which nothing is offered or sent.
LEMMA ShownCleared ==
    ASSUME FlowInv', dialog' # "confirm", ~getReply', posted' = NoOrder, shown' = NoOrder
    PROVE  ShownInv'
BY DEF ShownInv, SendsWhatWasShown

LEMMA ShownNext ==
    ASSUME NoListInDialog, ShownInv, FlowInv', [Next]_vars
    PROVE  ShownInv'
<1>0. FlowInv
  BY DEF ShownInv
<1>1. CASE UNCHANGED vars
  BY <1>1, ShownKept DEF vars, netVars, dataVars
<1>2. ASSUME NEW a \in Addrs \cup {NoAddr}, EditTo(a) PROVE ShownInv'
  BY <1>2, ShownKept DEF EditTo, dataVars, netVars
<1>3. ASSUME NEW m \in 0..MaxAmount, EditAmount(m) PROVE ShownInv'
  BY <1>3, ShownKept DEF EditAmount, dataVars, netVars
<1>4. ASSUME NEW n \in Names, ChooseAccount(n) PROVE ShownInv'
  BY <1>4, ShownKept DEF ChooseAccount, dataVars, netVars
<1>5. ASSUME NEW n \in Names, ShowTransferPage(n) PROVE ShownInv'
  BY <1>5, ShownKept DEF ShowTransferPage, dataVars, netVars
<1>6. ASSUME NEW c \in Listed, ChooseAsset(c) PROVE ShownInv'
  BY <1>6, ShownKept DEF ChooseAsset, UserFree, netVars
<1>7. ASSUME Send PROVE ShownInv'
  <2>1. ~getReply /\ posted = NoOrder /\ ~getReply' /\ posted' = NoOrder
    BY <1>0, <1>7 DEF Send, UserFree, FlowInv, OneRequest, netVars
  <2>2. CASE CanOffer
    <3>1. dialog' = "confirm" /\ shown' = Read(current)'
      BY <1>7, <2>2 DEF Send, Read, dataVars
    <3> QED
      BY <2>1, <3>1 DEF ShownInv, SendsWhatWasShown
  <2>3. CASE ~CanOffer
    <3>1. dialog' = "none" /\ shown' = NoOrder
      BY <1>7, <2>1, <2>3 DEF Send, UserFree, ShownInv
    <3> QED
      BY <2>1, <3>1, ShownCleared
  <2> QED
    BY <2>2, <2>3
<1>8. ASSUME Cancel PROVE ShownInv'
  <2>1. ~getReply' /\ posted' = NoOrder
    BY <1>0, <1>8 DEF Cancel, FlowInv, OneRequest, netVars
  <2> QED
    BY <1>8, <2>1, ShownCleared DEF Cancel
<1>9. ASSUME Ok PROVE ShownInv'
  <2>1. ~getReply /\ posted = NoOrder /\ shown = Read(current)
    BY <1>0, <1>9 DEF Ok, FlowInv, OneRequest, ShownInv
  <2>2. CASE IsAsset(current)
    <3>1. getReply' /\ shown' = Read(ACT)' /\ dialog' = "none" /\ posted' = NoOrder
      BY <1>9, <2>1, <2>2, AgreedAsset DEF Ok, Read, textVars
    <3> QED
      BY <3>1 DEF ShownInv, SendsWhatWasShown
  <2>3. CASE ~IsAsset(current)
    <3>1. posted' = shown' /\ ~getReply' /\ dialog' = "none"
      BY <1>9, <2>1, <2>3 DEF Ok, TokenTransferTo, Broadcast, Read
    <3> QED
      BY <2>1, <2>3, <3>1 DEF ShownInv, SendsWhatWasShown
  <2> QED
    BY <2>2, <2>3
<1>10. ASSUME CloseReport PROVE ShownInv'
  <2>1. ~getReply /\ posted = NoOrder /\ shown = NoOrder
    BY <1>0, <1>10 DEF CloseReport, FlowInv, OneRequest, ShownInv
  <2> QED
    BY <1>10, <2>1, ShownCleared DEF CloseReport, netVars
<1>11. ASSUME BalancesOk PROVE ShownInv'
  <2>1. posted' = shown' /\ ~getReply' /\ dialog' = "none" /\ posted' # NoOrder
    <3>1. dialog = "none" /\ shown = Read(ACT) /\ Read(ACT) \in Orders
      BY <1>0, <1>11 DEF BalancesOk, FlowInv, OneRequest, ReadInv, ShownInv
    <3> QED
      BY <1>11, <3>1, ReadIsOrder, ActIsListed DEF BalancesOk, TokenTransferTo, Broadcast, Read, dlgVars
  <2> QED
    BY <2>1 DEF ShownInv, SendsWhatWasShown
<1>12. ASSUME BalancesUnparsable \/ BalancesError PROVE ShownInv'
  <2>1. dialog' = "none" /\ posted' = NoOrder
    BY <1>0, <1>12 DEF BalancesUnparsable, BalancesError, FlowInv, OneRequest
  <2> QED
    BY <1>12, <2>1, ShownCleared DEF BalancesUnparsable, BalancesError
<1>13. ASSUME BroadcastAnswered \/ BroadcastError PROVE ShownInv'
  <2>1. ~getReply'
    BY <1>0, <1>13 DEF BroadcastAnswered, BroadcastError, FlowInv, OneRequest
  <2>2. dialog' # "confirm" /\ posted' = NoOrder /\ shown' = NoOrder
    BY <1>13 DEF BroadcastAnswered, BroadcastError, Report
  <2> QED
    BY <2>1, <2>2, ShownCleared
<1>14. ASSUME StrayFinished PROVE ShownInv'
  <2>1. UNCHANGED <<dlgVars, posted>> /\ dialog # "confirm"
    BY <1>0, <1>14 DEF StrayFinished, FlowInv, StrayInv
  <2> QED
    BY <1>14, <2>1, ShownKept DEF StrayFinished
<1>15. ASSUME NEW S \in SUBSET Tokens, AssetTypeGet(S) PROVE ShownInv'
  BY <1>15, ShownKept DEF NoListInDialog, AssetTypeGet, netVars
<1>16. ASSUME NEW n \in Names, NEW c \in Listed, NEW v \in 0..MaxBalance, BalanceUpdate(n, c, v)
       PROVE ShownInv'
  BY <1>16, ShownKept DEF BalanceUpdate, netVars
<1> QED
  BY <1>1, <1>2, <1>3, <1>4, <1>5, <1>6, <1>7, <1>8, <1>9, <1>10, <1>11, <1>12, <1>13, <1>14,
     <1>15, <1>16 DEF Next, User, Network, Events

(***************************************************************************)
(* If no list arrives under the dialog, what is sent is what was shown.    *)
(***************************************************************************)
THEOREM ShownInvariance == NoListInDialog => (Spec => []ShownInv)
<1> SUFFICES ASSUME NoListInDialog PROVE Spec => []ShownInv
  OBVIOUS
<1>1. ShownInv /\ [Next]_vars => ShownInv'
  BY FlowNext, ShownNext DEF ShownInv
<1> QED
  BY <1>1, ShownInit, PTL DEF Spec

(***************************************************************************)
(* If no list arrives under the dialog, what is sent is what was shown.    *)
(***************************************************************************)
THEOREM SentAsShown == NoListInDialog => (Spec => []SendsWhatWasShown)
<1>1. ShownInv => SendsWhatWasShown
  BY DEF ShownInv
<1> QED
  BY <1>1, ShownInvariance, PTL

--------------------------------------------------------------------------------
(***************************************************************************)
(* AgreedInv, whatever arrives under the dialog.                           *)
(***************************************************************************)
LEMMA AgreedInit == Init => AgreedInv
BY FlowInit DEF Init, AgreedInv, AgreedInAct

\* With ACT for its currency, what was read is what was shown with ACT for its own.
LEMMA ReadInAct ==
    ASSUME shown \in Orders, NEW c, NEW d, Read(c) \in {shown, InAct(shown)}
    PROVE  Read(d) = [shown EXCEPT !.cur = d]
<1>1. shown = [to |-> shown.to, amount |-> shown.amount, cur |-> shown.cur]
  BY DEF Orders
<1>2. shown.to = toAddressText /\ shown.amount = amountText
  BY <1>1 DEF Read, InAct
<1> QED
  BY <1>1, <1>2 DEF Read

\* A step that touches neither the dialog nor what was read.
LEMMA AgreedKept ==
    ASSUME AgreedInv, FlowInv', UNCHANGED <<dlgVars, posted, getReply, textVars>>,
           dialog = "confirm" => current' \in {current, ACT}
    PROVE  AgreedInv'
<1>1. shown \in Orders \cup {NoOrder}
  BY DEF AgreedInv, FlowInv, TypeOK
<1>2. (dialog = "confirm" => shown # NoOrder /\ Read(current) \in {shown, InAct(shown)})'
  <2> SUFFICES ASSUME dialog = "confirm"
      PROVE  shown # NoOrder /\ Read(current)' \in {shown, InAct(shown)}
    BY DEF dlgVars, InAct
  <2>1. shown # NoOrder /\ Read(current) \in {shown, InAct(shown)}
    BY DEF AgreedInv
  <2>2. CASE current' = current
    BY <2>1, <2>2 DEF Read, textVars
  <2>3. CASE current' = ACT
    <3>1. Read(current)' = Read(ACT)
      BY <2>3 DEF Read, textVars
    <3>2. Read(ACT) = InAct(shown)
      BY <1>1, <2>1, ReadInAct DEF InAct
    <3> QED
      BY <2>1, <3>1, <3>2
  <2> QED
    BY <2>2, <2>3
<1>3. (getReply => shown # NoOrder /\ Read(ACT) = InAct(shown))'
  BY DEF AgreedInv, Read, InAct, dlgVars, textVars
<1>4. AgreedInAct'
  BY DEF AgreedInv, AgreedInAct, InAct, dlgVars
<1> QED
  BY <1>2, <1>3, <1>4 DEF AgreedInv

\* A step after which nothing is offered or sent.
LEMMA AgreedCleared ==
    ASSUME FlowInv', dialog' # "confirm", ~getReply', posted' = NoOrder
    PROVE  AgreedInv'
BY DEF AgreedInv, AgreedInAct

LEMMA AgreedNext ==
    ASSUME AgreedInv, FlowInv', [Next]_vars
    PROVE  AgreedInv'
<1>0. FlowInv /\ shown \in Orders \cup {NoOrder}
  BY DEF AgreedInv, FlowInv, TypeOK
<1>1. CASE UNCHANGED vars
  BY <1>1, AgreedKept DEF vars, netVars, dataVars
<1>2. CASE \/ \E a \in Addrs \cup {NoAddr} : EditTo(a)
           \/ \E m \in 0..MaxAmount : EditAmount(m)
           \/ \E n \in Names : ChooseAccount(n) \/ ShowTransferPage(n)
           \/ \E c \in Listed : ChooseAsset(c)
  BY <1>2, AgreedKept DEF EditTo, EditAmount, ChooseAccount, ShowTransferPage, ChooseAsset, UserFree,
                          dataVars, netVars
<1>3. ASSUME Send PROVE AgreedInv'
  <2>1. ~getReply' /\ posted' = NoOrder
    BY <1>0, <1>3 DEF Send, UserFree, FlowInv, OneRequest, netVars
  <2>2. CASE CanOffer
    <3>1. dialog' = "confirm" /\ shown' = Read(current)'
      BY <1>3, <2>2 DEF Send, Read, dataVars
    <3>2. shown' # NoOrder
      <4>1. Read(ACT)' \in Orders /\ current' \in Currencies
        BY <3>1 DEF FlowInv, ReadInv, TypeOK
      <4> QED
        BY <3>1, <4>1, OrderAssumption DEF Read, Orders
    <3> QED
      BY <2>1, <3>1, <3>2 DEF AgreedInv, AgreedInAct
  <2>3. CASE ~CanOffer
    BY <1>3, <2>1, <2>3, AgreedCleared DEF Send, UserFree
  <2> QED
    BY <2>2, <2>3
<1>4. ASSUME Cancel PROVE AgreedInv'
  BY <1>0, <1>4, AgreedCleared DEF Cancel, FlowInv, OneRequest, netVars
<1>5. ASSUME Ok PROVE AgreedInv'
  <2>1. /\ ~getReply /\ posted = NoOrder
        /\ shown # NoOrder /\ Read(current) \in {shown, InAct(shown)}
        /\ dialog' = "none" /\ shown' = shown
    BY <1>0, <1>5 DEF Ok, FlowInv, OneRequest, AgreedInv
  <2>2. CASE IsAsset(current)
    <3>1. Read(ACT) = InAct(shown)
      BY <1>0, <2>1, ReadInAct DEF InAct
    <3>2. getReply' /\ posted' = NoOrder /\ Read(ACT)' = Read(ACT)
      BY <1>5, <2>1, <2>2 DEF Ok, Read, textVars
    <3> QED
      BY <2>1, <3>1, <3>2 DEF AgreedInv, AgreedInAct, InAct
  <2>3. CASE ~IsAsset(current)
    <3>1. posted' = Read(current) /\ ~getReply'
      BY <1>5, <2>1, <2>3 DEF Ok, TokenTransferTo, Broadcast, Read
    <3> QED
      BY <2>1, <3>1 DEF AgreedInv, AgreedInAct, InAct
  <2> QED
    BY <2>2, <2>3
<1>6. ASSUME CloseReport PROVE AgreedInv'
  BY <1>0, <1>6, AgreedCleared DEF CloseReport, FlowInv, OneRequest, netVars
<1>7. ASSUME BalancesOk PROVE AgreedInv'
  <2>1. shown # NoOrder /\ Read(ACT) = InAct(shown) /\ dialog = "none"
    BY <1>0, <1>7 DEF BalancesOk, AgreedInv, FlowInv, OneRequest
  <2>2. posted' = Read(ACT) /\ ~getReply' /\ dialog' = "none" /\ shown' = shown
    BY <1>7, <2>1 DEF BalancesOk, Broadcast, Read, dlgVars
  <2> QED
    BY <2>1, <2>2 DEF AgreedInv, AgreedInAct, InAct
<1>8. ASSUME BalancesUnparsable \/ BalancesError PROVE AgreedInv'
  BY <1>0, <1>8, AgreedCleared DEF BalancesUnparsable, BalancesError, FlowInv, OneRequest
<1>9. ASSUME BroadcastAnswered \/ BroadcastError PROVE AgreedInv'
  <2>1. ~getReply'
    BY <1>0, <1>9 DEF BroadcastAnswered, BroadcastError, FlowInv, OneRequest
  <2>2. dialog' # "confirm" /\ posted' = NoOrder
    BY <1>9 DEF BroadcastAnswered, BroadcastError, Report
  <2> QED
    BY <2>1, <2>2, AgreedCleared
<1>10. ASSUME StrayFinished PROVE AgreedInv'
  <2>1. UNCHANGED <<dlgVars, posted>> /\ dialog # "confirm"
    BY <1>0, <1>10 DEF StrayFinished, FlowInv, StrayInv
  <2> QED
    BY <1>10, <2>1, AgreedKept DEF StrayFinished
<1>11. ASSUME Events PROVE AgreedInv'
  BY <1>11, AgreedKept DEF Events, AssetTypeGet, BalanceUpdate, netVars
<1> QED
  BY <1>1, <1>2, <1>3, <1>4, <1>5, <1>6, <1>7, <1>8, <1>9, <1>10, <1>11 DEF Next, User, Network

(***************************************************************************)
(* Whatever arrives under the dialog, the receiver and the amount sent are *)
(* those that were shown; the currency is the one shown or ACT.            *)
(***************************************************************************)
THEOREM SentAtWorstInAct == Spec => []AgreedInAct
<1>1. AgreedInv /\ [Next]_vars => AgreedInv'
  <2>1. AgreedInv => FlowInv
    BY DEF AgreedInv
  <2> QED
    BY <2>1, FlowNext, AgreedNext
<1>2. AgreedInv => AgreedInAct
  BY DEF AgreedInv
<1> QED
  BY <1>1, <1>2, AgreedInit, PTL DEF Spec

--------------------------------------------------------------------------------
(***************************************************************************)
(* The refinement of TransferOrder.                                        *)
(***************************************************************************)
orderOf == IF posted # NoOrder THEN posted ELSE shown

LEMMA DeskInit == Init => Desk!Init
BY DEF Init, Desk!Init, phase

LEMMA DeskStutter ==
    ASSUME UNCHANGED <<dialog, shown, posted, getReply>>
    PROVE  UNCHANGED Desk!vars
BY DEF Desk!vars, phase

\* The phases, by what the user sees and what is in flight.
LEMMA Idle ==
    ASSUME ShownInv, dialog = "none", ~getReply, posted = NoOrder
    PROVE  phase = "idle" /\ orderOf = NoOrder
BY DEF ShownInv, phase, orderOf

LEMMA Offered ==
    ASSUME posted = NoOrder, dialog = "confirm" \/ getReply
    PROVE  phase = "offered" /\ orderOf = shown
BY DEF phase, orderOf

LEMMA DeskStep ==
    ASSUME NoListInDialog, ShownInv, ShownInv', [Next]_vars
    PROVE  [Desk!Next]_(Desk!vars)
<1>0. FlowInv /\ FlowInv' /\ TypeOK
  BY DEF ShownInv, FlowInv
<1>1. CASE UNCHANGED <<dlgVars, netVars>>
  BY <1>1, DeskStutter DEF dlgVars, netVars
<1>2. CASE UNCHANGED vars
  BY <1>1, <1>2 DEF vars
<1>3. ASSUME Send PROVE [Desk!Next]_(Desk!vars)
  <2>1. CASE CanOffer
    <3>1. ~getReply /\ posted = NoOrder /\ dialog = "none" /\ ~getReply' /\ posted' = NoOrder
      BY <1>0, <1>3 DEF Send, UserFree, FlowInv, OneRequest, netVars
    <3>2. phase = "idle"
      BY <3>1, Idle
    <3>3. dialog' = "confirm" /\ amount # 0 /\ to # NoAddr /\ shown' = [to |-> to, amount |-> amount, cur |-> current]
      BY <1>3, <2>1 DEF Send, CanOffer
    <3>4. shown' \in Orders
      BY <1>0, <3>3, OrderFields DEF TypeOK
    <3>5. phase' = "offered" /\ orderOf' = shown'
      BY <3>1, <3>3 DEF phase, orderOf
    <3>6. Desk!Offer(shown')
      BY <3>2, <3>5 DEF Desk!Offer, orderOf
    <3> QED
      BY <3>4, <3>6 DEF Desk!Next
  <2>2. CASE ~CanOffer
    BY <1>3, <2>2, DeskStutter DEF Send, netVars
  <2> QED
    BY <2>1, <2>2
<1>4. ASSUME Cancel PROVE [Desk!Next]_(Desk!vars)
  <2>1. ~getReply /\ posted = NoOrder /\ dialog = "confirm" /\ ~getReply' /\ posted' = NoOrder
    BY <1>0, <1>4 DEF Cancel, FlowInv, OneRequest, netVars
  <2>2. phase = "offered"
    BY <2>1, Offered
  <2>3. phase' = "idle" /\ orderOf' = NoOrder
    BY <1>4, <2>1 DEF Cancel, phase, orderOf
  <2> QED
    BY <2>2, <2>3 DEF Desk!Next, Desk!Drop, orderOf
<1>5. ASSUME Ok PROVE [Desk!Next]_(Desk!vars)
  <2>1. ~getReply /\ posted = NoOrder /\ dialog = "confirm" /\ shown = Read(current)
    BY <1>0, <1>5 DEF Ok, FlowInv, OneRequest, ShownInv
  <2>2. phase = "offered" /\ orderOf = shown
    BY <2>1, Offered
  <2>3. CASE IsAsset(current)
    <3>1. getReply' /\ posted' = NoOrder /\ shown' = shown
      BY <1>5, <2>1, <2>3 DEF Ok
    <3>2. phase' = "offered" /\ orderOf' = shown
      BY <3>1 DEF phase, orderOf
    <3> QED
      BY <2>2, <3>2 DEF Desk!vars, orderOf
  <2>4. CASE ~IsAsset(current)
    <3>1. posted' = shown /\ Read(ACT) \in Orders
      BY <1>0, <1>5, <2>1, <2>4 DEF Ok, TokenTransferTo, Broadcast, Read, FlowInv, ReadInv
    <3>2. posted' # NoOrder
      BY <1>0, <2>1, <3>1, ReadIsOrder DEF TypeOK
    <3>3. phase' = "submitted" /\ orderOf' = shown
      BY <3>1, <3>2 DEF phase, orderOf
    <3> QED
      BY <2>2, <3>3 DEF Desk!Next, Desk!Submit, orderOf
  <2> QED
    BY <2>3, <2>4
<1>6. ASSUME CloseReport PROVE [Desk!Next]_(Desk!vars)
  <2>1. ~getReply /\ posted = NoOrder /\ dialog \in {"submitted", "error"}
    BY <1>0, <1>6 DEF CloseReport, FlowInv, OneRequest
  <2>2. dialog' = "none" /\ ~getReply' /\ posted' = NoOrder /\ shown' = shown
    BY <1>6, <2>1 DEF CloseReport, netVars
  <2>3. phase = "reported" /\ phase' = "idle" /\ orderOf' = orderOf
    BY <2>1, <2>2 DEF phase, orderOf
  <2> QED
    BY <2>3 DEF Desk!Next, Desk!Close, orderOf
<1>7. ASSUME BalancesOk PROVE [Desk!Next]_(Desk!vars)
  <2>1. getReply /\ posted = NoOrder /\ shown = Read(ACT) /\ Read(ACT) \in Orders
    BY <1>0, <1>7 DEF BalancesOk, FlowInv, OneRequest, ReadInv, ShownInv
  <2>2. phase = "offered" /\ orderOf = shown
    BY <2>1, Offered
  <2>3. posted' = shown /\ posted' # NoOrder
    BY <1>7, <2>1, ReadIsOrder, ActIsListed DEF BalancesOk, TokenTransferTo, Broadcast, Read
  <2>4. phase' = "submitted" /\ orderOf' = shown
    BY <2>3 DEF phase, orderOf
  <2> QED
    BY <2>2, <2>4 DEF Desk!Next, Desk!Submit, orderOf
<1>8. ASSUME BalancesUnparsable \/ BalancesError PROVE [Desk!Next]_(Desk!vars)
  <2>1. getReply /\ posted = NoOrder /\ dialog = "none"
    BY <1>0, <1>8 DEF BalancesUnparsable, BalancesError, FlowInv, OneRequest
  <2>2. phase = "offered"
    BY <2>1, Offered
  <2>3. ~getReply' /\ posted' = NoOrder /\ dialog' = "none" /\ shown' = NoOrder
    BY <1>8, <2>1 DEF BalancesUnparsable, BalancesError
  <2>4. phase' = "idle" /\ orderOf' = NoOrder
    BY <2>3 DEF phase, orderOf
  <2> QED
    BY <2>2, <2>4 DEF Desk!Next, Desk!Drop, orderOf
<1>9. ASSUME BroadcastAnswered \/ BroadcastError PROVE [Desk!Next]_(Desk!vars)
  <2>1. posted # NoOrder /\ ~getReply'
    BY <1>0, <1>9 DEF BroadcastAnswered, BroadcastError, FlowInv, OneRequest
  <2>2. dialog' \in {"submitted", "error"} /\ posted' = NoOrder /\ shown' = NoOrder
    BY <1>9 DEF BroadcastAnswered, BroadcastError, Report
  <2>3. phase = "submitted" /\ phase' = "reported" /\ orderOf' = NoOrder
    BY <2>1, <2>2 DEF phase, orderOf
  <2> QED
    BY <2>3 DEF Desk!Next, Desk!Report, orderOf
<1>10. ASSUME StrayFinished PROVE [Desk!Next]_(Desk!vars)
  <2>1. UNCHANGED <<dlgVars, posted>>
    BY <1>0, <1>10 DEF StrayFinished, FlowInv, StrayInv
  <2> QED
    BY <1>10, <2>1, DeskStutter DEF StrayFinished, dlgVars
<1>11. ASSUME Events PROVE [Desk!Next]_(Desk!vars)
  BY <1>1, <1>11 DEF Events, AssetTypeGet, BalanceUpdate
<1>12. ASSUME User, ~Send, ~Cancel, ~Ok, ~CloseReport PROVE [Desk!Next]_(Desk!vars)
  BY <1>1, <1>12 DEF User, EditTo, EditAmount, ChooseAccount, ShowTransferPage, ChooseAsset
<1> QED
  BY <1>2, <1>3, <1>4, <1>5, <1>6, <1>7, <1>8, <1>9, <1>10, <1>11, <1>12 DEF Next, Network

(***************************************************************************)
(* The page implements TransferOrder: if no list arrives under the dialog, *)
(* the order the user agreed to is broadcast, once, and nothing else is.   *)
(***************************************************************************)
THEOREM Refinement == NoListInDialog => (Spec => ImplementsOrder)
<1> SUFFICES ASSUME NoListInDialog PROVE Spec => Desk!Spec
  BY DEF ImplementsOrder
<1>1. Spec => []ShownInv
  BY ShownInvariance
<1>2. ShownInv /\ ShownInv' /\ [Next]_vars => [Desk!Next]_(Desk!vars)
  BY DeskStep
<1> QED
  BY <1>1, <1>2, DeskInit, PTL DEF Spec, Desk!Spec

--------------------------------------------------------------------------------
(***************************************************************************)
(* The order of the phases, whatever arrives under the dialog.             *)
(***************************************************************************)
LEMMA PhaseStep ==
    ASSUME FlowInv, FlowInv', [Next]_vars, phase' # phase
    PROVE  <<phase, phase'>> \in PhaseSteps
<1>0. ~UNCHANGED <<dialog, posted, getReply>>
  BY DEF phase
<1>1. ASSUME Send PROVE <<phase, phase'>> \in PhaseSteps
  <2>1. ~getReply /\ posted = NoOrder /\ dialog = "none" /\ dialog' = "confirm" /\ posted' = NoOrder
    BY <1>0, <1>1 DEF Send, UserFree, FlowInv, OneRequest, netVars
  <2>2. phase = "idle" /\ phase' = "offered"
    BY <2>1 DEF phase
  <2> QED
    BY <2>2 DEF PhaseSteps
<1>2. ASSUME Cancel PROVE <<phase, phase'>> \in PhaseSteps
  <2>1. /\ posted = NoOrder /\ dialog = "confirm"
        /\ posted' = NoOrder /\ ~getReply' /\ dialog' = "none"
    BY <1>2 DEF Cancel, FlowInv, OneRequest, netVars
  <2>2. phase = "offered" /\ phase' = "idle"
    BY <2>1 DEF phase
  <2> QED
    BY <2>2 DEF PhaseSteps
<1>3. ASSUME Ok PROVE <<phase, phase'>> \in PhaseSteps
  <2>1. posted = NoOrder /\ dialog = "confirm"
    BY <1>3 DEF Ok, FlowInv, OneRequest
  <2>2. phase = "offered"
    BY <2>1 DEF phase
  <2>3. getReply' \/ posted' # NoOrder
    <3>1. CASE IsAsset(current)
      BY <1>3, <3>1 DEF Ok
    <3>2. CASE ~IsAsset(current)
      <4>1. posted' = Read(current) /\ Read(ACT) \in Orders /\ current \in Currencies
        BY <1>3, <2>1, <3>2 DEF Ok, TokenTransferTo, Broadcast, Read, FlowInv, ReadInv, TypeOK
      <4> QED
        BY <4>1, ReadIsOrder
    <3> QED
      BY <3>1, <3>2
  <2>4. phase' \in {"offered", "submitted"}
    BY <2>3 DEF phase
  <2> QED
    BY <2>2, <2>4 DEF PhaseSteps
<1>4. ASSUME CloseReport PROVE <<phase, phase'>> \in PhaseSteps
  <2>1. ~getReply /\ posted = NoOrder /\ dialog \in {"submitted", "error"}
    BY <1>4 DEF CloseReport, FlowInv, OneRequest
  <2>2. ~getReply' /\ posted' = NoOrder /\ dialog' = "none"
    BY <1>4, <2>1 DEF CloseReport, netVars
  <2>3. phase = "reported" /\ phase' = "idle"
    BY <2>1, <2>2 DEF phase
  <2> QED
    BY <2>3 DEF PhaseSteps
<1>5. ASSUME BalancesOk PROVE <<phase, phase'>> \in PhaseSteps
  <2>1. getReply /\ posted = NoOrder /\ dialog' = "none" /\ ~getReply'
    BY <1>5 DEF BalancesOk, FlowInv, OneRequest, dlgVars
  <2>2. phase = "offered" /\ phase' \in {"submitted", "idle"}
    BY <2>1 DEF phase
  <2> QED
    BY <2>2 DEF PhaseSteps
<1>6. ASSUME BalancesUnparsable \/ BalancesError PROVE <<phase, phase'>> \in PhaseSteps
  <2>1. getReply /\ posted = NoOrder /\ dialog' = "none" /\ ~getReply' /\ posted' = NoOrder
    BY <1>6 DEF BalancesUnparsable, BalancesError, FlowInv, OneRequest
  <2>2. phase = "offered" /\ phase' = "idle"
    BY <2>1 DEF phase
  <2> QED
    BY <2>2 DEF PhaseSteps
<1>7. ASSUME BroadcastAnswered \/ BroadcastError PROVE <<phase, phase'>> \in PhaseSteps
  <2>1. posted # NoOrder /\ ~getReply'
    BY <1>7 DEF BroadcastAnswered, BroadcastError, FlowInv, OneRequest
  <2>2. dialog' \in {"submitted", "error"} /\ posted' = NoOrder
    BY <1>7 DEF BroadcastAnswered, BroadcastError, Report
  <2>3. phase = "submitted" /\ phase' = "reported"
    BY <2>1, <2>2 DEF phase
  <2> QED
    BY <2>3 DEF PhaseSteps
<1>8. ASSUME StrayFinished PROVE FALSE
  BY <1>0, <1>8 DEF StrayFinished, FlowInv, StrayInv, dlgVars
<1>9. ASSUME Events PROVE FALSE
  BY <1>0, <1>9 DEF Events, AssetTypeGet, BalanceUpdate, netVars, dlgVars
<1>10. ASSUME User, ~Send, ~Cancel, ~Ok, ~CloseReport PROVE FALSE
  BY <1>0, <1>10 DEF User, EditTo, EditAmount, ChooseAccount, ShowTransferPage, ChooseAsset, netVars, dlgVars
<1>11. CASE UNCHANGED vars
  BY <1>0, <1>11 DEF vars, netVars, dlgVars
<1> QED
  BY <1>1, <1>2, <1>3, <1>4, <1>5, <1>6, <1>7, <1>8, <1>9, <1>10, <1>11 DEF Next, Network, User

(***************************************************************************)
(* Whatever arrives meanwhile, an order that was broadcast is reported and *)
(* its report closed before the next is offered, and none is broadcast     *)
(* that was not offered.                                                   *)
(***************************************************************************)
THEOREM OrderOfPhases == Spec => PhasesInOrder
<1>1. FlowInv /\ FlowInv' /\ [Next]_vars => [phase' # phase => <<phase, phase'>> \in PhaseSteps]_vars
  BY PhaseStep
<1> QED
  BY <1>1, FlowInvariance, PTL DEF Spec, PhasesInOrder

--------------------------------------------------------------------------------
(***************************************************************************)
(* CoveredInv.                                                             *)
(***************************************************************************)
\* sendBtn says what checkAmountValid says of the form as it is, or a balance
\* fell since.
ButtonRight == checked /\ sendEnabled => AmountValid(account, amount, current)

LEMMA CoveredInit == Init => CoveredInv
<1>1. Init => TypeOK
  BY FlowInit DEF FlowInv
<1>2. Init => OffersCovered /\ OfferInv
  BY DEF Init, OffersCovered, OfferInv
<1>3. Init => ButtonRight
  BY DEF Init, ButtonRight
<1> QED
  BY <1>1, <1>2, <1>3 DEF CoveredInv, ButtonRight

\* A step that leaves the dialog closed, or as it is over the same form.
LEMMA CoveredStep ==
    ASSUME CoveredInv, FlowInv', UNCHANGED balances, ButtonRight',
           dialog' = "confirm" => UNCHANGED <<dialog, shown, account>> /\ (checked' => checked)
    PROVE  CoveredInv'
<1>1. OffersCovered'
  <2>1. CASE dialog' = "confirm"
    BY <2>1 DEF CoveredInv, OffersCovered, Balance
  <2>2. CASE dialog' # "confirm"
    BY <2>2 DEF OffersCovered
  <2> QED
    BY <2>1, <2>2
<1>2. OfferInv'
  BY DEF CoveredInv, OfferInv
<1> QED
  BY <1>1, <1>2 DEF CoveredInv, ButtonRight, FlowInv

\* A step of the dialog or the network leaves the form.
LEMMA ButtonKept ==
    ASSUME CoveredInv, UNCHANGED <<formVars, dataVars>>
    PROVE  ButtonRight'
BY DEF CoveredInv, ButtonRight, AmountValid, Balance, formVars, inputVars, dataVars

LEMMA FreshButton ==
    ASSUME NEW n, FreshPage(n), UNCHANGED dataVars
    PROVE  ButtonRight'
BY DEF FreshPage, ButtonRight, AmountValid, Balance, dataVars

\* The balance of an account after a step, and that it is a number.
BalanceNext(n, c) == IF c \in Listed THEN balances'[n][c] ELSE 0

LEMMA BalanceType ==
    ASSUME balances \in [Names -> [Listed -> 0..MaxBalance]], NEW n \in Names, NEW d,
           NEW m \in Names, NEW c \in Listed, NEW v \in 0..MaxBalance, BalanceUpdate(m, c, v)
    PROVE  Balance(n, d) \in Int /\ BalanceNext(n, d) \in Int
<1>1. balances' \in [Names -> [Listed -> 0..MaxBalance]]
  BY DEF BalanceUpdate
<1>2. CASE d \in Listed
  BY <1>1, <1>2, FeeAssumption DEF Balance, BalanceNext
<1>3. CASE d \notin Listed
  BY <1>3 DEF Balance, BalanceNext
<1> QED
  BY <1>2, <1>3

\* After a check, an update that keeps it valid lowers no balance.
LEMMA RisingBalance ==
    ASSUME balances \in [Names -> [Listed -> 0..MaxBalance]], NEW n \in Names, NEW d,
           NEW m \in Names, NEW c \in Listed, NEW v \in 0..MaxBalance, BalanceUpdate(m, c, v), checked'
    PROVE  Balance(n, d) <= BalanceNext(n, d)
<1>1. balances' = [balances EXCEPT ![m][c] = v] /\ balances[m][c] <= v
  BY DEF BalanceUpdate
<1>2. CASE d \in Listed
  <2>1. balances[n][d] \in 0..MaxBalance
    BY <1>2
  <2>2. balances'[n][d] = IF n = m /\ d = c THEN v ELSE balances[n][d]
    BY <1>1, <1>2
  <2>3. balances[n][d] <= balances'[n][d]
    BY <1>1, <2>1, <2>2, FeeAssumption
  <2> QED
    BY <1>2, <2>3 DEF Balance, BalanceNext
<1>3. CASE d \notin Listed
  BY <1>3 DEF Balance, BalanceNext
<1> QED
  BY <1>2, <1>3

LEMMA CoveredNext ==
    ASSUME FlowInv, FlowInv', CoveredInv, [Next]_vars
    PROVE  CoveredInv'
<1>1. CASE UNCHANGED vars
  BY <1>1, ButtonKept, CoveredStep DEF vars, dataVars, dlgVars, formVars, inputVars
<1>2. ASSUME NEW a \in Addrs \cup {NoAddr}, EditTo(a) PROVE CoveredInv'
  <2>1. ButtonRight'
    BY <1>2 DEF EditTo, CoveredInv, ButtonRight, AmountValid, Balance, dataVars
  <2> QED
    BY <1>2, <2>1, CoveredStep DEF EditTo, dataVars, dlgVars
<1>3. ASSUME NEW m \in 0..MaxAmount, EditAmount(m) PROVE CoveredInv'
  <2>1. ButtonRight'
    BY <1>3 DEF EditAmount, ButtonRight, AmountValid, Balance, dataVars
  <2> QED
    BY <1>3, <2>1, CoveredStep DEF EditAmount, UserFree, dataVars, dlgVars
<1>4. ASSUME NEW n \in Names, ChooseAccount(n) PROVE CoveredInv'
  <2>1. ButtonRight'
    BY <1>4 DEF ChooseAccount, ButtonRight, AmountValid, Balance, dataVars
  <2> QED
    BY <1>4, <2>1, CoveredStep DEF ChooseAccount, UserFree, dataVars, dlgVars
<1>5. ASSUME NEW n \in Names, ShowTransferPage(n) PROVE CoveredInv'
  <2>1. ButtonRight'
    BY <1>5, FreshButton DEF ShowTransferPage
  <2> QED
    BY <1>5, <2>1, CoveredStep DEF ShowTransferPage, UserFree, dataVars, dlgVars
<1>6. ASSUME NEW c \in Listed, ChooseAsset(c) PROVE CoveredInv'
  <2>1. ButtonRight'
    BY <1>6 DEF ChooseAsset, CoveredInv, ButtonRight, AmountValid, Balance
  <2> QED
    BY <1>6, <2>1, CoveredStep DEF ChooseAsset, UserFree, dlgVars
<1>7. ASSUME Send PROVE CoveredInv'
  <2>1. ButtonRight'
    BY <1>7, ButtonKept DEF Send
  <2>2. CASE CanOffer
    <3>1. /\ shown' = [to |-> to, amount |-> amount, cur |-> current]
          /\ UNCHANGED <<account, balances, checked>>
      BY <1>7, <2>2 DEF Send, formVars, inputVars, dataVars
    <3>2. checked => AmountValid(account, amount, current)
      BY <1>7 DEF Send, CoveredInv
    <3>3. checked => amount + (IF current = ACT THEN Fee ELSE 0) <= Balance(account, current)
      BY <3>2, FeeAssumption DEF AmountValid, CoveredInv, TypeOK
    <3>4. OffersCovered'
      BY <3>1, <3>3 DEF OffersCovered, Balance
    <3>5. OfferInv'
      <4>1. to \in Addrs /\ amount \in 0..MaxAmount /\ amount # 0 /\ current \in Currencies
        BY <1>7, <2>2 DEF Send, CanOffer, CoveredInv, TypeOK
      <4>2. shown' # NoOrder
        BY <3>1, <4>1, OrderFields, OrderAssumption
      <4> QED
        BY <4>2 DEF OfferInv
    <3> QED
      BY <2>1, <3>4, <3>5 DEF CoveredInv, ButtonRight, FlowInv
  <2>3. CASE ~CanOffer
    BY <1>7, <2>1, <2>3, CoveredStep DEF Send, formVars, inputVars, dataVars
  <2> QED
    BY <2>2, <2>3
<1>8. ASSUME Cancel \/ Ok PROVE CoveredInv'
  <2>1. ButtonRight'
    BY <1>8, ButtonKept DEF Cancel, Ok
  <2> QED
    BY <1>8, <2>1, CoveredStep DEF Cancel, Ok, dataVars
<1>9. ASSUME CloseReport PROVE CoveredInv'
  <2>1. ButtonRight'
    BY <1>9, FreshButton, ButtonKept DEF CloseReport
  <2> QED
    BY <1>9, <2>1, CoveredStep DEF CloseReport, dataVars
<1>10. ASSUME Network PROVE CoveredInv'
  <2>1. UNCHANGED <<formVars, dataVars>>
    BY <1>10 DEF Network, BalancesOk, BalancesUnparsable, BalancesError, BroadcastAnswered,
                 BroadcastError, StrayFinished
  <2>2. dialog' = "confirm" => UNCHANGED <<dialog, shown>>
    <3>1. CASE BalancesUnparsable \/ BalancesError
      BY <3>1 DEF BalancesUnparsable, BalancesError, FlowInv, OneRequest
    <3>2. CASE ~(BalancesUnparsable \/ BalancesError)
      BY <1>10, <3>2 DEF Network, BalancesOk, TokenTransferTo, BroadcastAnswered, BroadcastError, StrayFinished,
                         Report, dlgVars
    <3> QED
      BY <3>1, <3>2
  <2> QED
    BY <2>1, <2>2, ButtonKept, CoveredStep DEF formVars, inputVars, dataVars
<1>11. ASSUME NEW S \in SUBSET Tokens, AssetTypeGet(S) PROVE CoveredInv'
  <2>1. ButtonRight'
    BY <1>11 DEF AssetTypeGet, inputVars, CoveredInv, ButtonRight, AmountValid, Balance
  <2> QED
    BY <1>11, <2>1, CoveredStep DEF AssetTypeGet, inputVars, dlgVars
<1>12. ASSUME NEW n \in Names, NEW c \in Listed, NEW v \in 0..MaxBalance, BalanceUpdate(n, c, v)
      PROVE  CoveredInv'
  <2>1. /\ checked' = (checked /\ balances[n][c] <= v)
        /\ UNCHANGED <<current, account, amount, sendEnabled, dialog, shown>>
    BY <1>12 DEF BalanceUpdate, inputVars, dlgVars
  <2>2. /\ account \in Names /\ amount \in 0..MaxAmount /\ shown \in Orders \cup {NoOrder}
        /\ balances \in [Names -> [Listed -> 0..MaxBalance]]
        /\ current \in Currencies
    BY DEF CoveredInv, TypeOK
  <2>3. ASSUME checked', NEW d PROVE Balance(account, d) <= BalanceNext(account, d)
    BY <1>12, <2>1, <2>2, <2>3, RisingBalance
  <2>4. ASSUME checked', sendEnabled' PROVE AmountValid(account, amount, current)'
    <3>1. AmountValid(account, amount, current)
      BY <2>1, <2>4 DEF CoveredInv
    <3>2. \A d : /\ Balance(account, d) \in Int /\ BalanceNext(account, d) \in Int
                 /\ Balance(account, d) <= BalanceNext(account, d)
      BY <1>12, <2>2, <2>3, <2>4, BalanceType
    <3>3. /\ current = ACT => amount + Fee <= BalanceNext(account, ACT)
          /\ amount <= BalanceNext(account, current)
      BY <2>2, <3>1, <3>2, FeeAssumption DEF AmountValid
    <3> QED
      BY <2>1, <3>3 DEF AmountValid, Balance, BalanceNext
  <2>5. ASSUME checked', dialog = "confirm"
        PROVE  shown.amount + (IF shown.cur = ACT THEN Fee ELSE 0) <= BalanceNext(account, shown.cur)
    <3>1. shown.amount + (IF shown.cur = ACT THEN Fee ELSE 0) <= Balance(account, shown.cur)
      BY <2>1, <2>5 DEF CoveredInv, OffersCovered
    <3>2. shown.amount \in Int
      <4>1. shown # NoOrder
        BY <2>5, <2>1 DEF CoveredInv, OfferInv
      <4> QED
        BY <2>2, <4>1, FeeAssumption DEF Orders
    <3>3. /\ Balance(account, shown.cur) \in Int /\ BalanceNext(account, shown.cur) \in Int
          /\ Balance(account, shown.cur) <= BalanceNext(account, shown.cur)
      BY <1>12, <2>2, <2>3, <2>5, BalanceType
    <3> QED
      BY <3>1, <3>2, <3>3, FeeAssumption
  <2>6. OffersCovered'
    BY <2>1, <2>5 DEF OffersCovered, Balance, BalanceNext
  <2>7. OfferInv'
    BY <2>1 DEF OfferInv, CoveredInv
  <2> QED
    BY <2>4, <2>6, <2>7 DEF CoveredInv, FlowInv
<1> QED
  BY <1>1, <1>2, <1>3, <1>4, <1>5, <1>6, <1>7, <1>8, <1>9, <1>10, <1>11, <1>12 DEF Next, User, Events

(***************************************************************************)
(* The dialog offers only what the account can pay, the fee of an order of *)
(* ACT included, unless a balance fell or the currency changed since.      *)
(***************************************************************************)
THEOREM CoveredOffers == Spec => []OffersCovered
<1>1. FlowInv /\ CoveredInv /\ [Next]_vars => FlowInv' /\ CoveredInv'
  BY FlowNext, CoveredNext
<1>2. CoveredInv => OffersCovered
  BY DEF CoveredInv
<1> QED
  BY <1>1, <1>2, FlowInit, CoveredInit, PTL DEF Spec

================================================================================
