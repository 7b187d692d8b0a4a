----------------------------- MODULE WithdrawPlan -----------------------------
(***************************************************************************)
(* How wallet_transfer_to_address (achainlightwalletapi.cpp) pays for a    *)
(* transfer: it walks over the balance records of the sender's address and *)
(* withdraws from one after the other until the amount and the fee are     *)
(* covered, then deposits the amount.  Transaction::withdraw and deposit   *)
(* throw on an amount that is not positive, and nobody catches it.         *)
(*                                                                         *)
(* One action is one iteration of the loop.  Amounts are counted in the    *)
(* chain's smallest unit; the text of the amount has been converted.       *)
(*                                                                         *)
(* An operator called XMut is a slip a programmer could make in X.  No     *)
(* specification uses it; it replaces X to show that a property can fail.  *)
(***************************************************************************)
EXTENDS Integers, Sequences

CONSTANTS
    BalanceLists,   \* what the node may say the records of the address hold
    Amounts,        \* amounts the user can transfer
    Fee             \* required_fees

\* TransferPage refuses an amount of 0; a node may report any balance.
ASSUME ListsAssumption == BalanceLists \subseteq Seq(Int)
ASSUME AmountsAssumption == Amounts \subseteq Nat \ {0} /\ Fee \in Nat \ {0}

VARIABLES
    balances,       \* the argument balances: what each record holds
    amount,         \* amount_to_transfer
    ofAsset,        \* asset_id is not 0
    pc,             \* "begin", "loop", "deposit", "done" or "thrown"
    i,              \* the index of the loop, from 1
    actAmount,      \* ACT still to be withdrawn
    withdrawals,    \* the withdraw operations on ACT: [from, amount]
    assetTaken,     \* what is withdrawn of the asset
    deposited,      \* what is deposited at the receiver
    taken,          \* auxiliary: the sum of the withdrawals
    passed          \* auxiliary: the sum of the positive balances before i

inputs == <<balances, amount, ofAsset>>
vars == <<inputs, pc, i, actAmount, withdrawals, assetTaken, deposited, taken, passed>>

Init ==
    /\ balances \in BalanceLists /\ amount \in Amounts /\ ofAsset \in BOOLEAN
    /\ pc = "begin" /\ i = 1 /\ actAmount = 0
    /\ withdrawals = <<>> /\ assetTaken = 0 /\ deposited = 0
    /\ taken = 0 /\ passed = 0

--------------------------------------------------------------------------------
\* Of an asset the fee alone is paid in ACT.
RequiredMut1 == amount      \* the fee is forgotten
RequiredMut2 == IF ofAsset THEN Fee ELSE amount - Fee
Required == IF ofAsset THEN Fee ELSE amount + Fee

Begin ==
    /\ pc = "begin"
    /\ assetTaken' = (IF ofAsset THEN amount ELSE 0)
    /\ actAmount' = Required
    /\ pc' = "loop"
    /\ UNCHANGED <<inputs, i, withdrawals, deposited, taken, passed>>

\* trx.withdraw of n from record i, going on at next unless it throws.
Withdraw(n, next) ==
    IF n > 0
    THEN /\ withdrawals' = Append(withdrawals, [from |-> i, amount |-> n])
         /\ taken' = taken + n /\ pc' = next
    ELSE pc' = "thrown" /\ UNCHANGED <<withdrawals, taken>>

Counts == pc = "loop" /\ i <= Len(balances) /\ balances[i] > 0

IsLastMut == i = Len(balances) - 1
IsLast == i = Len(balances)

Skip ==
    /\ pc = "loop" /\ i <= Len(balances) /\ balances[i] <= 0
    /\ i' = i + 1
    /\ UNCHANGED <<inputs, pc, actAmount, withdrawals, assetTaken, deposited, taken, passed>>

\* The last record has to give whatever is left.
TakeFromLast ==
    /\ Counts /\ IsLast
    /\ Withdraw(actAmount, "deposit")
    /\ UNCHANGED <<inputs, i, actAmount, assetTaken, deposited, passed>>

\* A record that does not hold more than is left is emptied.
TakeAllMut1 ==              \* goes on although nothing is left
    /\ Counts /\ ~IsLast /\ actAmount >= balances[i]
    /\ Withdraw(balances[i], "loop")
    /\ actAmount' = actAmount - balances[i]
    /\ i' = i + 1 /\ passed' = passed + balances[i]
    /\ UNCHANGED <<inputs, assetTaken, deposited>>
TakeAllMut2 ==              \* what is left is not reduced
    /\ Counts /\ ~IsLast /\ actAmount >= balances[i]
    /\ Withdraw(balances[i], "loop")
    /\ i' = i + 1 /\ passed' = passed + balances[i]
    /\ UNCHANGED <<inputs, actAmount, assetTaken, deposited>>
TakeAll ==
    /\ Counts /\ ~IsLast /\ actAmount >= balances[i]
    /\ Withdraw(balances[i], IF actAmount - balances[i] <= 0 THEN "deposit" ELSE "loop")
    /\ actAmount' = actAmount - balances[i]
    /\ i' = i + 1 /\ passed' = passed + balances[i]
    /\ UNCHANGED <<inputs, assetTaken, deposited>>

\* A record that holds more gives what is left.
TakeRest ==
    /\ Counts /\ ~IsLast /\ actAmount < balances[i]
    /\ Withdraw(actAmount, "deposit")
    /\ UNCHANGED <<inputs, i, actAmount, assetTaken, deposited, passed>>

EndOfList ==
    /\ pc = "loop" /\ i > Len(balances)
    /\ pc' = "deposit"
    /\ UNCHANGED <<inputs, i, actAmount, withdrawals, assetTaken, deposited, taken, passed>>

Deposit ==
    /\ pc = "deposit"
    /\ IF amount > 0 THEN deposited' = amount /\ pc' = "done"
       ELSE pc' = "thrown" /\ UNCHANGED deposited
    /\ UNCHANGED <<inputs, i, actAmount, withdrawals, assetTaken, taken, passed>>

Next == Begin \/ Skip \/ TakeFromLast \/ TakeAll \/ TakeRest \/ EndOfList \/ Deposit

Spec == Init /\ [][Next]_vars

--------------------------------------------------------------------------------
Withdrawals == [from : Nat \ {0}, amount : Nat \ {0}]

\* Every variable has its type; the sums are never negative.
TypeOK ==
    /\ balances \in Seq(Int) /\ amount \in Nat \ {0} /\ ofAsset \in BOOLEAN
    /\ pc \in {"begin", "loop", "deposit", "done", "thrown"}
    /\ i \in Nat \ {0} /\ actAmount \in Nat /\ withdrawals \in Seq(Withdrawals)
    /\ assetTaken \in Nat /\ deposited \in Nat /\ taken \in Nat /\ passed \in Nat

(***************************************************************************)
(* The FC_ASSERTs of Transaction::withdraw and deposit hold: no run of the *)
(* loop leaves an amount of 0 to the next record.                          *)
(***************************************************************************)
NeverThrows == pc # "thrown"

(***************************************************************************)
(* A finished transaction takes in what it pays out and the fee, or it has *)
(* emptied every record there is: then the funds were short, and the chain *)
(* refuses it.                                                             *)
(***************************************************************************)
Emptied(j) == \E k \in 1..Len(withdrawals) : withdrawals[k] = [from |-> j, amount |-> balances[j]]

Balanced ==
    pc = "done" =>
        /\ IF ofAsset THEN assetTaken = deposited ELSE assetTaken = 0
        /\ \/ taken = (IF ofAsset THEN 0 ELSE deposited) + Fee
           \/ \A j \in 1..Len(balances) : balances[j] > 0 => Emptied(j)

(***************************************************************************)
(* Only the last record is ever asked for more than it holds, and only     *)
(* when all records together hold less than is required.                   *)
(***************************************************************************)
OverdrawsLastOnly ==
    \A k \in 1..Len(withdrawals) :
        LET w == withdrawals[k]
        IN  w.amount > balances[w.from] =>
                w.from = Len(balances) /\ passed + balances[w.from] < taken

(***************************************************************************)
(* What the loop should come to, defined without it: if the records hold   *)
(* enough together, the plan takes exactly what is required and no record  *)
(* gives more than it holds; and taken is the sum it stands for.           *)
(***************************************************************************)
SumTo(f, n) ==
    LET s[k \in 0..n] == IF k = 0 THEN 0 ELSE s[k - 1] + f[k]
    IN  s[n]

Due == (IF ofAsset THEN 0 ELSE amount) + Fee

Held == [j \in DOMAIN balances |-> IF balances[j] > 0 THEN balances[j] ELSE 0]
Funds == SumTo(Held, Len(balances))

Parts == [k \in DOMAIN withdrawals |-> withdrawals[k].amount]
Taken == SumTo(Parts, Len(withdrawals))

NoOverdraft == \A k \in 1..Len(withdrawals) : withdrawals[k].amount <= balances[withdrawals[k].from]

EnoughIsEnough ==
    pc = "done" /\ Funds >= Due => Taken = Due /\ taken = Taken /\ NoOverdraft

(***************************************************************************)
(* The inductive invariant.  While the loop runs there is something left   *)
(* to withdraw, what is taken and what is left make up what is required,   *)
(* and the records passed have been emptied.                               *)
(***************************************************************************)
FromRecords == \A k \in 1..Len(withdrawals) : withdrawals[k].from \in 1..Len(balances)

AssetInv ==
    /\ pc # "begin" => assetTaken = (IF ofAsset THEN amount ELSE 0)
    /\ pc = "done" => deposited = amount

BeginInv == pc = "begin" => i = 1 /\ withdrawals = <<>> /\ taken = 0 /\ passed = 0

LoopInv ==
    pc = "loop" =>
        /\ i <= Len(balances) + 1 /\ actAmount > 0
        /\ taken + actAmount = Due /\ passed = taken
        /\ \A j \in 1..Len(balances) : j < i /\ balances[j] > 0 => Emptied(j)
        /\ NoOverdraft

EndInv ==
    pc \in {"deposit", "done"} =>
        taken = Due \/ \A j \in 1..Len(balances) : balances[j] > 0 => Emptied(j)

\* The auxiliary sums are the sums they stand for, and what is due is missed,
\* or a record overdrawn, only when all records together hold less.
SumInv ==
    /\ i <= Len(balances) + 1 /\ passed = SumTo(Held, i - 1) /\ taken = Taken
    /\ pc \in {"deposit", "done"} => taken = Due \/ Funds < Due
    /\ NoOverdraft \/ Funds < Due

PlanInv ==
    /\ TypeOK /\ NeverThrows /\ FromRecords /\ AssetInv
    /\ BeginInv /\ LoopInv /\ EndInv /\ OverdrawsLastOnly /\ SumInv
================================================================================
