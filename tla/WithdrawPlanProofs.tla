-------------------------- MODULE WithdrawPlanProofs --------------------------
(***************************************************************************)
(* The loop of wallet_transfer_to_address is correct for balance lists of  *)
(* every length, all amounts and every fee.                                *)
(***************************************************************************)
EXTENDS WithdrawPlan, SequenceTheorems, WellFoundedInduction, TLAPS

--------------------------------------------------------------------------------
(***************************************************************************)
(* Sums over lists of integers.                                            *)
(***************************************************************************)

\* Induction over the natural numbers, for a set instead of a formula.
LEMMA SetInduction ==
    ASSUME NEW S, 0 \in S, \A n \in Nat : n \in S => n + 1 \in S
    PROVE  Nat \subseteq S
<1> SUFFICES ASSUME Nat \ S # {} PROVE FALSE
  OBVIOUS
<1> DEFINE R == {ss \in Nat \X Nat : ss[1] < ss[2]}
           T == Nat \ S
<1>1. IsWellFoundedOn(R, Nat)
  BY NatLessThanWellFounded DEF OpToRel
<1>2. \E x \in T : \A y \in T : ~(<<y, x>> \in R)
  <2> HIDE DEF R
  <2> QED BY <1>1, WFMin
<1>3. PICK x \in T : \A y \in T : ~(<<y, x>> \in R)
  BY <1>2
<1>4. x # 0 /\ x - 1 \in Nat
  BY <1>3
<1>5. <<x - 1, x>> \in R
  BY <1>4, <1>3
<1>6. x - 1 \in S
  BY <1>3, <1>4, <1>5
<1>7. x \in S
  BY <1>4, <1>6
<1> QED BY <1>7

\* s holds the sums of f up to each index of 0..n.
SumsOf(s, f, n) == s = [k \in 0..n |-> IF k = 0 THEN 0 ELSE s[k - 1] + f[k]]

Agree(f, g, n) == \A k \in 1..n : f[k] = g[k]

Ints(f, n) == \A k \in 1..n : f[k] \in Int

\* Sums of a longer list extend those of a shorter one.
LEMMA SumsExtend ==
    ASSUME NEW n \in Nat, NEW f, f[n + 1] \in Int,
           NEW s \in [0..n -> Int], SumsOf(s, f, n)
    PROVE  \E t \in [0..(n + 1) -> Int] : SumsOf(t, f, n + 1)
<1> DEFINE t == [k \in 0..(n + 1) |-> IF k <= n THEN s[k] ELSE s[n] + f[n + 1]]
<1>1. t \in [0..(n + 1) -> Int]
  OBVIOUS
<1>2. ASSUME NEW k \in 0..(n + 1)
      PROVE  t[k] = IF k = 0 THEN 0 ELSE t[k - 1] + f[k]
  <2>1. CASE k = n + 1
    BY <2>1
  <2>2. CASE k # n + 1
    <3>1. k \in 0..n /\ t[k] = s[k]
      BY <2>2
    <3>2. s[k] = IF k = 0 THEN 0 ELSE s[k - 1] + f[k]
      BY <3>1 DEF SumsOf
    <3>3. k # 0 => k - 1 \in 0..(n + 1) /\ t[k - 1] = s[k - 1]
      BY <3>1
    <3> QED BY <3>1, <3>2, <3>3
  <2> QED BY <2>1, <2>2
<1>3. SumsOf(t, f, n + 1)
  <2> HIDE DEF t
  <2> QED BY <1>1, <1>2 DEF SumsOf
<1> HIDE DEF t
<1> QED BY <1>1, <1>3

\* Every list of integers has its sums.
LEMMA SumsExist ==
    ASSUME NEW n \in Nat, NEW f, Ints(f, n)
    PROVE  \E s \in [0..n -> Int] : SumsOf(s, f, n)
<1> DEFINE P(m) == m <= n => \E s \in [0..m -> Int] : SumsOf(s, f, m)
           S == {m \in Nat : P(m)}
<1>1. 0 \in S
  <2> DEFINE s == [k \in 0..0 |-> 0]
  <2>1. s \in [0..0 -> Int] /\ SumsOf(s, f, 0)
    BY DEF SumsOf
  <2> HIDE DEF s
  <2> QED BY <2>1
<1>2. ASSUME NEW m \in Nat, m \in S PROVE m + 1 \in S
  <2> SUFFICES ASSUME m + 1 <= n PROVE \E s \in [0..(m + 1) -> Int] : SumsOf(s, f, m + 1)
    OBVIOUS
  <2>1. m <= n /\ f[m + 1] \in Int
    BY DEF Ints
  <2>2. PICK s \in [0..m -> Int] : SumsOf(s, f, m)
    BY <1>2, <2>1
  <2> QED BY <2>1, <2>2, SumsExtend
<1>3. Nat \subseteq S
  <2> HIDE DEF S
  <2> QED BY <1>1, <1>2, SetInduction
<1> QED BY <1>3

\* Lists that agree have the same sums.
LEMMA SumsAgree ==
    ASSUME NEW m \in Nat, NEW n \in Nat, n <= m,
           NEW f, NEW g, Agree(f, g, n),
           NEW s, NEW t, SumsOf(s, f, m), SumsOf(t, g, n)
    PROVE  s[n] = t[n]
<1> DEFINE S == {j \in Nat : j <= n => s[j] = t[j]}
<1>1. 0 \in S
  BY DEF SumsOf
<1>2. ASSUME NEW j \in Nat, j \in S PROVE j + 1 \in S
  <2> SUFFICES ASSUME j + 1 <= n PROVE s[j + 1] = t[j + 1]
    OBVIOUS
  <2>1. s[j] = t[j] /\ f[j + 1] = g[j + 1]
    BY <1>2 DEF Agree
  <2>2. j + 1 \in 0..m /\ j + 1 \in 0..n /\ j + 1 # 0 /\ (j + 1) - 1 = j
    OBVIOUS
  <2>3. s[j + 1] = s[j] + f[j + 1]
    BY <2>2 DEF SumsOf
  <2>4. t[j + 1] = t[j] + g[j + 1]
    BY <2>2 DEF SumsOf
  <2> QED BY <2>1, <2>3, <2>4
<1>3. Nat \subseteq S
  <2> HIDE DEF S
  <2> QED BY <1>1, <1>2, SetInduction
<1> QED BY <1>3

LEMMA SumToIs ==
    ASSUME NEW n \in Nat, NEW f, Ints(f, n)
    PROVE  \E s \in [0..n -> Int] : SumsOf(s, f, n) /\ SumTo(f, n) = s[n]
<1> DEFINE c == CHOOSE s : SumsOf(s, f, n)
<1>1. PICK s \in [0..n -> Int] : SumsOf(s, f, n)
  BY SumsExist
<1>2. SumsOf(c, f, n)
  BY <1>1
<1>3. SumTo(f, n) = c[n]
  BY DEF SumTo, SumsOf
<1>4. c[n] = s[n]
  <2> HIDE DEF c
  <2>1. n <= n /\ Agree(f, f, n)
    BY DEF Agree
  <2> QED BY <1>1, <1>2, <2>1, SumsAgree
<1> QED BY <1>1, <1>3, <1>4

\* A sum is an integer; it grows by the next element of the list.
LEMMA SumToProperties ==
    ASSUME NEW n \in Nat, NEW f, Ints(f, n)
    PROVE  /\ SumTo(f, n) \in Int
           /\ n = 0 => SumTo(f, n) = 0
           /\ n # 0 => SumTo(f, n) = SumTo(f, n - 1) + f[n]
<1>1. PICK s \in [0..n -> Int] : SumsOf(s, f, n) /\ SumTo(f, n) = s[n]
  BY SumToIs
<1>2. SumTo(f, n) \in Int /\ (n = 0 => SumTo(f, n) = 0)
  BY <1>1 DEF SumsOf
<1>3. ASSUME n # 0 PROVE SumTo(f, n) = SumTo(f, n - 1) + f[n]
  <2>1. n - 1 \in Nat /\ Ints(f, n - 1)
    BY <1>3 DEF Ints
  <2>2. PICK t \in [0..(n - 1) -> Int] : SumsOf(t, f, n - 1) /\ SumTo(f, n - 1) = t[n - 1]
    BY <2>1, SumToIs
  <2>3. s[n - 1] = t[n - 1]
    <3>1. n - 1 <= n /\ Agree(f, f, n - 1)
      BY DEF Agree
    <3> QED BY <1>1, <2>1, <2>2, <3>1, SumsAgree
  <2>4. s[n] = s[n - 1] + f[n]
    BY <1>1, <1>3 DEF SumsOf
  <2> QED BY <1>1, <2>2, <2>3, <2>4
<1> QED BY <1>2, <1>3

\* Lists that agree up to n have the same sum up to n.
LEMMA SumToAgrees ==
    ASSUME NEW n \in Nat, NEW f, NEW g, Ints(f, n), Agree(f, g, n)
    PROVE  SumTo(f, n) = SumTo(g, n)
<1>1. Ints(g, n)
  BY DEF Ints, Agree
<1>2. PICK s \in [0..n -> Int] : SumsOf(s, f, n) /\ SumTo(f, n) = s[n]
  BY SumToIs
<1>3. PICK t \in [0..n -> Int] : SumsOf(t, g, n) /\ SumTo(g, n) = t[n]
  BY <1>1, SumToIs
<1>4. n <= n
  OBVIOUS
<1>5. s[n] = t[n]
  BY <1>2, <1>3, <1>4, SumsAgree
<1> QED BY <1>2, <1>3, <1>5

--------------------------------------------------------------------------------
\* What the sums of the plan are made of.
LEMMA SumsTyped ==
    ASSUME TypeOK
    PROVE  /\ \A n \in 0..Len(balances) : Ints(Held, n)
           /\ \A n \in 0..Len(withdrawals) : Ints(Parts, n)
<1>1. balances \in Seq(Int) /\ withdrawals \in Seq(Withdrawals)
  BY DEF TypeOK
<1>2. \A j \in 1..Len(balances) : Held[j] \in Int
  BY <1>1 DEF Held
<1>3. ASSUME NEW k \in 1..Len(withdrawals) PROVE Parts[k] \in Int
  <2>1. withdrawals[k] \in Withdrawals /\ k \in DOMAIN withdrawals
    BY <1>1
  <2> QED BY <2>1 DEF Parts, Withdrawals
<1> QED BY <1>1, <1>2, <1>3 DEF Ints

\* The funds of the records up to record i.
LEMMA FundsGrow ==
    ASSUME TypeOK, i \in 1..Len(balances)
    PROVE  SumTo(Held, i) = SumTo(Held, i - 1) + Held[i] /\ SumTo(Held, i - 1) \in Int
<1>1. Len(balances) \in Nat /\ i \in Nat /\ i - 1 \in Nat /\ i # 0
  BY DEF TypeOK
<1>2. Ints(Held, i) /\ Ints(Held, i - 1)
  BY <1>1, SumsTyped
<1> QED BY <1>1, <1>2, SumToProperties

\* The steps leave the records alone.
LEMMA SameFunds ==
    UNCHANGED inputs => Held' = Held /\ Funds' = Funds /\ Due' = Due
BY DEF inputs, Held, Funds, Due

\* Without a withdrawal the sums stay.
LEMMA SameTaken ==
    UNCHANGED <<inputs, withdrawals>> => Taken' = Taken /\ NoOverdraft' = NoOverdraft
BY DEF inputs, Taken, Parts, NoOverdraft

LEMMA StartSums ==
    ASSUME TypeOK, withdrawals = <<>>
    PROVE  SumTo(Held, 0) = 0 /\ Taken = 0 /\ NoOverdraft
<1>1. Len(balances) \in Nat /\ Len(withdrawals) = 0
  BY DEF TypeOK
<1>2. Ints(Held, 0) /\ Ints(Parts, 0)
  BY DEF Ints
<1>3. SumTo(Held, 0) = 0 /\ SumTo(Parts, 0) = 0
  BY <1>2, SumToProperties
<1> QED BY <1>1, <1>3 DEF Taken, NoOverdraft

LEMMA InitPlan == Init => PlanInv
<1> SUFFICES ASSUME Init PROVE PlanInv
  OBVIOUS
<1> USE DEF Init, inputs
<1>1. TypeOK
  BY ListsAssumption, AmountsAssumption DEF TypeOK
<1>2. Len(withdrawals) = 0
  OBVIOUS
<1>3. FromRecords /\ OverdrawsLastOnly
  BY <1>2 DEF FromRecords, OverdrawsLastOnly
<1>4. NeverThrows /\ AssetInv /\ BeginInv /\ LoopInv /\ EndInv
  BY DEF NeverThrows, AssetInv, BeginInv, LoopInv, EndInv
<1>5. SumInv
  <2>1. SumTo(Held, i - 1) = 0 /\ Taken = 0 /\ NoOverdraft
    BY <1>1, StartSums
  <2>2. i <= Len(balances) + 1
    BY <1>1 DEF TypeOK
  <2> QED BY <2>1, <2>2 DEF SumInv
<1> QED BY <1>1, <1>3, <1>4, <1>5 DEF PlanInv

\* What a withdrawal does to the list of operations.
LEMMA WithdrawEffect ==
    ASSUME TypeOK, NEW n \in Nat \ {0}, NEW next, Withdraw(n, next), UNCHANGED inputs
    PROVE  /\ pc' = next /\ taken' = taken + n /\ withdrawals' \in Seq(Withdrawals)
           /\ \A k \in 1..Len(withdrawals') :
                 \/ k \in 1..Len(withdrawals) /\ withdrawals'[k] = withdrawals[k]
                 \/ withdrawals'[k] = [from |-> i, amount |-> n]
           /\ \A j \in Nat : Emptied(j) \/ (j = i /\ n = balances[i]) => Emptied(j)'
           /\ Taken' = Taken + n
<1> DEFINE w == [from |-> i, amount |-> n]
<1>1. n > 0
  OBVIOUS
<1>2. pc' = next /\ taken' = taken + n /\ withdrawals' = Append(withdrawals, w)
  BY <1>1 DEF Withdraw
<1>3. w \in Withdrawals /\ withdrawals \in Seq(Withdrawals)
  BY DEF TypeOK, Withdrawals
<1>4. /\ withdrawals' \in Seq(Withdrawals) /\ Len(withdrawals') = Len(withdrawals) + 1
      /\ withdrawals'[Len(withdrawals) + 1] = w
      /\ \A k \in 1..Len(withdrawals) : withdrawals'[k] = withdrawals[k]
  BY <1>2, <1>3, AppendProperties
<1>5. Len(withdrawals) \in Nat
  BY <1>3, LenProperties
<1>6. \A k \in 1..Len(withdrawals') : k \in 1..Len(withdrawals) \/ k = Len(withdrawals) + 1
  BY <1>4, <1>5
<1>7. ASSUME NEW j \in Nat, Emptied(j) PROVE Emptied(j)'
  <2>1. PICK k \in 1..Len(withdrawals) : withdrawals[k] = [from |-> j, amount |-> balances[j]]
    BY <1>7 DEF Emptied
  <2>2. k \in 1..Len(withdrawals') /\ withdrawals'[k] = withdrawals[k]
    BY <1>4, <1>5
  <2>3. balances' = balances
    BY DEF inputs
  <2> QED BY <2>1, <2>2, <2>3 DEF Emptied
<1>8. ASSUME NEW j \in Nat, j = i, n = balances[i] PROVE Emptied(j)'
  <2>1. Len(withdrawals) + 1 \in 1..Len(withdrawals')
    BY <1>4, <1>5
  <2>2. balances' = balances
    BY DEF inputs
  <2> QED BY <1>4, <1>8, <2>1, <2>2 DEF Emptied
<1>9. \A k \in 1..Len(withdrawals') :
          \/ k \in 1..Len(withdrawals) /\ withdrawals'[k] = withdrawals[k]
          \/ withdrawals'[k] = w
  BY <1>4, <1>6
<1>10. Taken' = Taken + n
  <2> DEFINE m == Len(withdrawals)
  <2>1. Parts' = [k \in 1..(m + 1) |-> withdrawals'[k].amount] /\ Parts = [k \in 1..m |-> withdrawals[k].amount]
    BY <1>3, <1>4 DEF Parts
  <2>2. Agree(Parts, Parts', m) /\ Parts'[m + 1] = n
    BY <1>4, <1>5, <2>1 DEF Agree
  <2>3. Ints(Parts, m)
    BY <1>5, SumsTyped
  <2>4. Ints(Parts', m + 1)
    <3>1. \A k \in 1..m : Parts'[k] = Parts[k] /\ Parts[k] \in Int
      BY <2>2, <2>3 DEF Agree, Ints
    <3> QED BY <1>5, <2>2, <3>1 DEF Ints
  <2>5. SumTo(Parts', m + 1) = SumTo(Parts', m) + n
    <3>1. m + 1 \in Nat /\ m + 1 # 0 /\ (m + 1) - 1 = m
      BY <1>5
    <3>2. SumTo(Parts', m + 1) = SumTo(Parts', (m + 1) - 1) + Parts'[m + 1]
      BY <2>4, <3>1, SumToProperties
    <3> QED BY <2>2, <3>1, <3>2
  <2>6. SumTo(Parts, m) = SumTo(Parts', m)
    BY <1>5, <2>2, <2>3, SumToAgrees
  <2> QED BY <1>4, <2>5, <2>6 DEF Taken
<1> QED BY <1>2, <1>4, <1>7, <1>8, <1>9, <1>10

\* The loop goes on with the next record; nothing is withdrawn.
LEMMA SkipStep == PlanInv /\ Skip => PlanInv'
<1> SUFFICES ASSUME PlanInv, Skip PROVE PlanInv'
  OBVIOUS
<1> USE DEF PlanInv, Skip, inputs
<1>1. TypeOK'
  BY DEF TypeOK
<1>2. FromRecords' /\ NeverThrows' /\ AssetInv' /\ OverdrawsLastOnly'
  BY DEF FromRecords, NeverThrows, AssetInv, OverdrawsLastOnly
<1>3. LoopInv'
  <2>1. \A j \in 1..Len(balances) : Emptied(j)' <=> Emptied(j)
    BY DEF Emptied
  <2>2. i \in Nat /\ Len(balances) \in Nat /\ \A j \in 1..Len(balances) : balances[j] \in Int
    BY DEF TypeOK
  <2>3. ASSUME NEW j \in 1..Len(balances), j < i + 1, balances[j] > 0 PROVE Emptied(j)'
    <3>1. j # i /\ j < i
      BY <2>2, <2>3
    <3> QED BY <2>1, <2>3, <3>1 DEF LoopInv
  <2>4. /\ i + 1 <= Len(balances) + 1 /\ actAmount > 0 /\ taken + actAmount = Due /\ passed = taken
        /\ NoOverdraft
    BY <2>2 DEF LoopInv
  <2>5. NoOverdraft' = NoOverdraft /\ Due' = Due
    BY SameTaken, SameFunds
  <2> QED BY <2>3, <2>4, <2>5 DEF LoopInv
<1>4. BeginInv' /\ EndInv'
  BY DEF BeginInv, EndInv
<1>5. SumInv'
  <2>1. i \in 1..Len(balances) /\ i \in Nat /\ Len(balances) \in Nat /\ passed \in Nat
    BY DEF TypeOK
  <2>2. Held[i] = 0
    BY <2>1 DEF TypeOK, Held
  <2>3. passed' = SumTo(Held, i)
    BY <2>1, <2>2, FundsGrow DEF SumInv
  <2>4. Held' = Held /\ Funds' = Funds /\ Due' = Due /\ Taken' = Taken /\ NoOverdraft' = NoOverdraft
    BY SameFunds, SameTaken
  <2>5. i' <= Len(balances') + 1 /\ i' - 1 = i
    BY <2>1
  <2> QED BY <2>3, <2>4, <2>5 DEF SumInv
<1> QED BY <1>1, <1>2, <1>3, <1>4, <1>5

\* What every withdrawal keeps, whichever action makes it.
LEMMA WithdrawKeeps ==
    ASSUME PlanInv, NEW n \in Nat \ {0}, NEW next \in {"loop", "deposit"}, Withdraw(n, next),
           UNCHANGED <<inputs, assetTaken, deposited>>, Counts,
           i' \in Nat \ {0}, actAmount' \in Nat, passed' \in Nat
    PROVE  /\ TypeOK' /\ NeverThrows' /\ FromRecords' /\ AssetInv' /\ BeginInv'
           /\ n <= balances[i] => NoOverdraft'
           /\ taken' = Taken' /\ Held' = Held /\ Funds' = Funds /\ Due' = Due
<1>1. TypeOK /\ FromRecords /\ AssetInv /\ LoopInv /\ pc = "loop" /\ i \in 1..Len(balances)
  BY DEF PlanInv, Counts, TypeOK
<1>2. /\ pc' = next /\ taken' = taken + n /\ withdrawals' \in Seq(Withdrawals)
      /\ \A k \in 1..Len(withdrawals') :
            \/ k \in 1..Len(withdrawals) /\ withdrawals'[k] = withdrawals[k]
            \/ withdrawals'[k] = [from |-> i, amount |-> n]
      /\ Taken' = Taken + n
  BY <1>1, WithdrawEffect
<1>3. balances' = balances /\ amount' = amount /\ ofAsset' = ofAsset
      /\ assetTaken' = assetTaken /\ deposited' = deposited
  BY DEF inputs
<1>4. TypeOK'
  BY <1>1, <1>2, <1>3 DEF TypeOK
<1>5. NeverThrows' /\ BeginInv' /\ AssetInv'
  BY <1>1, <1>2, <1>3 DEF NeverThrows, BeginInv, AssetInv
<1>6. FromRecords'
  BY <1>1, <1>2, <1>3 DEF FromRecords
<1>7. ASSUME n <= balances[i], NEW k \in 1..Len(withdrawals')
      PROVE  withdrawals'[k].amount <= balances'[withdrawals'[k].from]
  <2>1. CASE withdrawals'[k] = [from |-> i, amount |-> n]
    BY <1>3, <1>7, <2>1
  <2>2. CASE k \in 1..Len(withdrawals) /\ withdrawals'[k] = withdrawals[k]
    BY <1>1, <1>3, <2>2 DEF LoopInv, NoOverdraft
  <2> QED BY <1>2, <2>1, <2>2
<1>8. taken' = Taken' /\ Held' = Held /\ Funds' = Funds /\ Due' = Due
  BY <1>2, SameFunds DEF PlanInv, SumInv
<1> QED BY <1>4, <1>5, <1>6, <1>7, <1>8 DEF NoOverdraft

\* A list of withdrawals none of which overdraws its record.
LEMMA NoneOverdraws ==
    ASSUME TypeOK', FromRecords', NoOverdraft'
    PROVE  OverdrawsLastOnly'
<1>1. ASSUME NEW k \in 1..Len(withdrawals')
      PROVE  ~(withdrawals'[k].amount > balances'[withdrawals'[k].from])
  <2>1. /\ withdrawals' \in Seq(Withdrawals) /\ balances' \in Seq(Int)
        /\ withdrawals'[k].from \in 1..Len(balances')
    BY DEF TypeOK, FromRecords
  <2>2. withdrawals'[k] \in Withdrawals
    BY <2>1
  <2>3. withdrawals'[k].amount \in Int
    BY <2>2 DEF Withdrawals
  <2>4. balances'[withdrawals'[k].from] \in Int
    BY <2>1, ElementOfSeq
  <2> QED BY <2>3, <2>4 DEF NoOverdraft
<1> QED BY <1>1 DEF OverdrawsLastOnly

LEMMA TakeAllStep == PlanInv /\ TakeAll => PlanInv'
<1> SUFFICES ASSUME PlanInv, TakeAll PROVE PlanInv'
  OBVIOUS
<1> DEFINE b == balances[i]
           next == IF actAmount - b <= 0 THEN "deposit" ELSE "loop"
<1>1. /\ TypeOK /\ LoopInv /\ FromRecords /\ pc = "loop" /\ i < Len(balances) /\ i \in 1..Len(balances)
      /\ b > 0 /\ actAmount >= b /\ b \in Nat \ {0} /\ Len(balances) \in Nat
  BY DEF PlanInv, TakeAll, Counts, IsLast, TypeOK
<1>2. /\ Withdraw(b, next) /\ Counts /\ actAmount' = actAmount - b /\ i' = i + 1 /\ passed' = passed + b
      /\ balances' = balances /\ amount' = amount /\ ofAsset' = ofAsset
      /\ assetTaken' = assetTaken /\ deposited' = deposited /\ UNCHANGED inputs
  BY DEF TakeAll, inputs
<1>3. i' \in Nat \ {0} /\ actAmount' \in Nat /\ passed' \in Nat /\ next \in {"loop", "deposit"}
  BY <1>1, <1>2 DEF TypeOK
<1>4. /\ TypeOK' /\ NeverThrows' /\ FromRecords' /\ AssetInv' /\ BeginInv'
      /\ NoOverdraft' /\ taken' = Taken' /\ Held' = Held /\ Funds' = Funds /\ Due' = Due
  BY <1>1, <1>2, <1>3, WithdrawKeeps
<1>5. /\ pc' = next /\ taken' = taken + b
      /\ \A j \in Nat : Emptied(j) \/ (j = i /\ b = balances[i]) => Emptied(j)'
  BY <1>1, <1>2, WithdrawEffect
<1>6. OverdrawsLastOnly'
  BY <1>4, NoneOverdraws
<1>7. /\ taken \in Nat /\ actAmount \in Nat /\ taken + actAmount = Due /\ passed = taken
  BY <1>1 DEF LoopInv, TypeOK
<1>8. ASSUME NEW j \in 1..Len(balances), j < i + 1, balances[j] > 0 PROVE Emptied(j)'
  <2>1. CASE j = i
    BY <1>1, <1>5, <2>1
  <2>2. CASE j < i
    BY <1>1, <1>5, <1>8, <2>2 DEF LoopInv
  <2> QED BY <1>1, <1>8, <2>1, <2>2
<1>9. Due' = Due
  BY <1>2 DEF Due
<1>10. LoopInv'
  <2>1. ASSUME pc' = "loop" PROVE i' <= Len(balances') + 1 /\ actAmount' > 0 /\ taken' + actAmount' = Due' /\ passed' = taken'
    BY <1>1, <1>2, <1>5, <1>7, <1>9, <2>1
  <2> QED BY <1>2, <1>4, <1>8, <2>1 DEF LoopInv
<1>11. EndInv'
  <2>1. ASSUME pc' = "deposit" PROVE taken' = Due'
    <3>1. actAmount - b <= 0
      BY <1>5, <2>1
    <3>2. actAmount = b
      BY <1>1, <1>7, <3>1
    <3> QED BY <1>5, <1>7, <1>9, <3>2
  <2>2. pc' # "done"
    BY <1>5
  <2> QED BY <2>1, <2>2 DEF EndInv
<1>12. SumInv'
  <2>1. SumTo(Held, i) = SumTo(Held, i - 1) + b
    <3>1. Held[i] = b
      BY <1>1 DEF Held, TypeOK
    <3> QED BY <1>1, <3>1, FundsGrow
  <2>2. passed' = SumTo(Held, i)
    BY <1>2, <2>1 DEF PlanInv, SumInv
  <2>3. i' <= Len(balances') + 1 /\ i' - 1 = i
    BY <1>1, <1>2
  <2>4. pc' \in {"deposit", "done"} => taken' = Due'
    <3>1. pc' # "done"
      BY <1>5
    <3>2. ASSUME pc' = "deposit" PROVE actAmount = b
      BY <1>1, <1>5, <1>7, <3>2
    <3> QED BY <1>5, <1>7, <1>9, <3>1, <3>2
  <2> QED BY <1>4, <2>2, <2>3, <2>4 DEF SumInv
<1> QED BY <1>4, <1>6, <1>10, <1>11, <1>12 DEF PlanInv

\* A withdrawal of all that is left ends the loop with what is due.
LEMMA LastWithdrawal ==
    ASSUME PlanInv, Counts, Withdraw(actAmount, "deposit"),
           UNCHANGED <<inputs, i, actAmount, assetTaken, deposited, passed>>,
           actAmount > balances[i] => i = Len(balances)
    PROVE  PlanInv'
<1>1. /\ TypeOK /\ LoopInv /\ FromRecords /\ pc = "loop" /\ i \in 1..Len(balances)
      /\ actAmount \in Nat \ {0} /\ balances[i] \in Int
  BY DEF PlanInv, Counts, TypeOK, LoopInv
<1>2. /\ balances' = balances /\ amount' = amount /\ ofAsset' = ofAsset /\ i' = i
      /\ actAmount' = actAmount /\ passed' = passed /\ UNCHANGED inputs
  BY DEF inputs
<1>3. /\ TypeOK' /\ NeverThrows' /\ FromRecords' /\ AssetInv' /\ BeginInv'
      /\ actAmount <= balances[i] => NoOverdraft'
      /\ taken' = Taken' /\ Held' = Held /\ Funds' = Funds /\ Due' = Due
  BY <1>1, <1>2, WithdrawKeeps DEF TypeOK
<1>4. /\ pc' = "deposit" /\ taken' = taken + actAmount
      /\ \A k \in 1..Len(withdrawals') :
            \/ k \in 1..Len(withdrawals) /\ withdrawals'[k] = withdrawals[k]
            \/ withdrawals'[k] = [from |-> i, amount |-> actAmount]
  BY <1>1, <1>2, WithdrawEffect
<1>5. taken \in Nat /\ taken + actAmount = Due /\ passed = taken
  BY <1>1 DEF LoopInv, TypeOK
<1>6. Due' = Due
  BY <1>2 DEF Due
<1>7. EndInv' /\ LoopInv'
  BY <1>4, <1>5, <1>6 DEF EndInv, LoopInv
<1>8. OverdrawsLastOnly'
  <2>1. ASSUME NEW k \in 1..Len(withdrawals'), withdrawals'[k].amount > balances[withdrawals'[k].from]
        PROVE  /\ withdrawals'[k].from = Len(balances)
               /\ passed + balances[withdrawals'[k].from] < taken'
    <3>1. CASE withdrawals'[k] = [from |-> i, amount |-> actAmount]
      BY <1>1, <1>4, <1>5, <2>1, <3>1
    <3>2. CASE k \in 1..Len(withdrawals) /\ withdrawals'[k] = withdrawals[k]
      <4>1. withdrawals[k] \in Withdrawals /\ withdrawals[k].from \in 1..Len(balances)
        BY <1>1, <3>2 DEF TypeOK, FromRecords
      <4>2. withdrawals[k].amount <= balances[withdrawals[k].from]
        BY <1>1, <3>2 DEF LoopInv, NoOverdraft
      <4>3. withdrawals[k].amount \in Int /\ balances[withdrawals[k].from] \in Int
        BY <1>1, <4>1 DEF TypeOK, Withdrawals
      <4> QED BY <2>1, <3>2, <4>2, <4>3
    <3> QED BY <1>4, <3>1, <3>2
  <2> QED BY <1>2, <2>1 DEF OverdrawsLastOnly
<1>9. SumInv'
  <2>1. i' <= Len(balances') + 1 /\ passed' = SumTo(Held', i' - 1) /\ taken' = Due'
    BY <1>2, <1>3, <1>4, <1>5, <1>6 DEF PlanInv, SumInv
  <2>2. ASSUME actAmount > balances[i] PROVE Funds < Due
    <3>1. i = Len(balances) /\ balances[i] > 0 /\ Held[i] = balances[i]
      BY <1>1, <2>2 DEF Counts, Held, TypeOK
    <3>2. Funds = SumTo(Held, i - 1) + balances[i]
      BY <1>1, <3>1, FundsGrow DEF Funds
    <3>3. passed = SumTo(Held, i - 1)
      BY DEF PlanInv, SumInv
    <3> QED BY <1>1, <1>5, <2>2, <3>2, <3>3
  <2>3. NoOverdraft' \/ Funds' < Due'
    <3>1. CASE actAmount > balances[i]
      BY <1>3, <2>2, <3>1
    <3>2. CASE ~(actAmount > balances[i])
      BY <1>1, <1>3, <3>2
    <3> QED BY <3>1, <3>2
  <2> QED BY <1>3, <2>1, <2>3 DEF SumInv
<1> QED BY <1>3, <1>7, <1>8, <1>9 DEF PlanInv

LEMMA PlanStep == PlanInv /\ [Next]_vars => PlanInv'
<1> SUFFICES ASSUME PlanInv, [Next]_vars PROVE PlanInv'
  OBVIOUS
<1>1. CASE Begin
  <2> USE DEF PlanInv, Begin, inputs
  <2>1. TypeOK' /\ NeverThrows' /\ AssetInv' /\ BeginInv' /\ EndInv'
    BY <1>1, AmountsAssumption DEF TypeOK, NeverThrows, AssetInv, BeginInv, EndInv, Required
  <2>2. FromRecords' /\ OverdrawsLastOnly'
    BY <1>1 DEF FromRecords, OverdrawsLastOnly
  <2>3. withdrawals' = <<>> /\ i' = 1 /\ taken' = 0 /\ passed' = 0
    BY <1>1 DEF BeginInv
  <2>4. actAmount' = Due' /\ Due' \in Nat \ {0}
    BY <1>1, AmountsAssumption DEF TypeOK, Required, Due
  <2>5. Len(balances') \in Nat /\ Len(withdrawals') = 0
    BY <1>1, <2>3 DEF TypeOK
  <2>6. i' <= Len(balances') + 1 /\ actAmount' > 0 /\ taken' + actAmount' = Due' /\ passed' = taken'
    <3>1. \A x \in Nat : 1 <= x + 1
      OBVIOUS
    <3>2. i' <= Len(balances') + 1
      BY <2>3, <2>5, <3>1, Zenon
    <3>3. \A x \in Nat \ {0} : x > 0 /\ 0 + x = x
      OBVIOUS
    <3>4. actAmount' > 0 /\ taken' + actAmount' = Due' /\ passed' = taken'
      BY <2>3, <2>4, <3>3, Zenon
    <3> QED BY <3>2, <3>4
  <2>7. \A j \in 1..Len(balances') : ~(j < i')
    BY <2>3, <2>5
  <2>8. \A k \in 1..Len(withdrawals') : FALSE
    BY <2>5
  <2>9. LoopInv'
    BY <2>6, <2>7, <2>8 DEF LoopInv, NoOverdraft
  <2>10. SumInv'
    <3>1. Taken' = Taken /\ NoOverdraft' = NoOverdraft /\ Held' = Held /\ Funds' = Funds /\ Due' = Due
      BY <1>1, SameTaken, SameFunds
    <3>2. SumInv /\ pc' = "loop" /\ UNCHANGED <<i, balances, passed, taken>>
      BY <1>1
    <3> QED BY <3>1, <3>2 DEF SumInv
  <2> QED BY <2>1, <2>2, <2>9, <2>10
<1>2. CASE Skip
  BY <1>2, SkipStep
<1>3. CASE TakeFromLast
  BY <1>3, LastWithdrawal DEF TakeFromLast, IsLast
<1>4. CASE TakeAll
  BY <1>4, TakeAllStep
<1>5. CASE TakeRest
  <2>1. ~(actAmount > balances[i])
    BY <1>5 DEF TakeRest, Counts, PlanInv, TypeOK
  <2> QED BY <1>5, <2>1, LastWithdrawal DEF TakeRest
<1>6. CASE EndOfList
  <2> USE DEF PlanInv, EndOfList, inputs
  <2>1. TypeOK' /\ NeverThrows' /\ AssetInv' /\ BeginInv' /\ LoopInv'
    BY <1>6 DEF TypeOK, NeverThrows, AssetInv, BeginInv, LoopInv
  <2>2. FromRecords' /\ OverdrawsLastOnly'
    BY <1>6 DEF FromRecords, OverdrawsLastOnly
  <2>3. \A j \in 1..Len(balances) : balances[j] > 0 => Emptied(j)
    BY <1>6 DEF LoopInv, TypeOK
  <2>4. EndInv'
    BY <1>6, <2>3 DEF EndInv, Emptied
  <2>5. SumInv'
    <3>1. Taken' = Taken /\ NoOverdraft' = NoOverdraft /\ Held' = Held /\ Funds' = Funds /\ Due' = Due
      BY <1>6, SameTaken, SameFunds
    <3>2. i = Len(balances) + 1 /\ i - 1 = Len(balances)
      BY <1>6 DEF SumInv, TypeOK
    <3>3. passed = Funds /\ passed = taken /\ taken + actAmount = Due /\ actAmount > 0
      BY <1>6, <3>2 DEF SumInv, LoopInv, Funds
    <3>4. Funds < Due
      BY <3>3 DEF TypeOK
    <3> QED BY <1>6, <3>1, <3>4 DEF SumInv
  <2> QED BY <2>1, <2>2, <2>4, <2>5
<1>7. CASE Deposit
  <2> USE DEF PlanInv, Deposit, inputs
  <2>1. amount > 0
    BY DEF TypeOK
  <2>2. TypeOK' /\ NeverThrows' /\ AssetInv' /\ BeginInv' /\ LoopInv'
    BY <1>7, <2>1 DEF TypeOK, NeverThrows, AssetInv, BeginInv, LoopInv
  <2>3. FromRecords' /\ OverdrawsLastOnly' /\ EndInv'
    BY <1>7 DEF FromRecords, OverdrawsLastOnly, EndInv, Emptied, Due
  <2>4. SumInv'
    <3>1. Taken' = Taken /\ NoOverdraft' = NoOverdraft /\ Held' = Held /\ Funds' = Funds /\ Due' = Due
      BY <1>7, SameTaken, SameFunds
    <3>2. SumInv /\ pc = "deposit" /\ UNCHANGED <<i, balances, passed, taken>>
      BY <1>7
    <3> QED BY <3>1, <3>2 DEF SumInv
  <2> QED BY <2>2, <2>3, <2>4
<1>8. CASE UNCHANGED vars
  <2>1. /\ TypeOK' /\ NeverThrows' /\ FromRecords' /\ AssetInv' /\ BeginInv' /\ LoopInv'
        /\ EndInv' /\ OverdrawsLastOnly'
    BY <1>8 DEF PlanInv, vars, inputs, TypeOK, NeverThrows, FromRecords, AssetInv, BeginInv, LoopInv,
                EndInv, OverdrawsLastOnly, Emptied, Due, NoOverdraft
  <2>2. SumInv'
    BY <1>8 DEF PlanInv, vars, inputs, SumInv, Taken, Parts, NoOverdraft, Held, Funds, Due
  <2> QED BY <2>1, <2>2 DEF PlanInv
<1> QED BY <1>1, <1>2, <1>3, <1>4, <1>5, <1>6, <1>7, <1>8 DEF Next

(***************************************************************************)
(* The loop keeps its invariant: what is taken and what is left make up    *)
(* what is required.                                                       *)
(***************************************************************************)
THEOREM PlanInvariance == Spec => []PlanInv
<1> QED BY InitPlan, PlanStep, PTL DEF Spec

(***************************************************************************)
(* No sum of the loop becomes negative, whatever the node reports.         *)
(***************************************************************************)
THEOREM TypeCorrect == Spec => []TypeOK
<1>1. PlanInv => TypeOK
  BY DEF PlanInv
<1> QED BY <1>1, PlanInvariance, PTL

(***************************************************************************)
(* The assertions of Transaction::withdraw and deposit never fail.         *)
(***************************************************************************)
THEOREM AssertionsHold == Spec => []NeverThrows
<1>1. PlanInv => NeverThrows
  BY DEF PlanInv
<1> QED BY <1>1, PlanInvariance, PTL

(***************************************************************************)
(* A finished transaction is balanced, or every record was emptied.        *)
(***************************************************************************)
THEOREM EndsBalanced == Spec => []Balanced
<1>1. PlanInv => Balanced
  BY DEF PlanInv, AssetInv, EndInv, Balanced, Due
<1> QED BY <1>1, PlanInvariance, PTL

(***************************************************************************)
(* The loop does what it is for, against a definition without a loop: if   *)
(* the records of the address hold the amount and the fee together, a      *)
(* finished transaction withdraws exactly that, and no record gives more   *)
(* than it holds.                                                          *)
(***************************************************************************)
THEOREM EnoughSuffices == Spec => []EnoughIsEnough
<1>1. PlanInv => EnoughIsEnough
  <2> SUFFICES ASSUME PlanInv, pc = "done", Funds >= Due PROVE Taken = Due /\ taken = Taken /\ NoOverdraft
    BY DEF EnoughIsEnough
  <2>1. Funds \in Int /\ Due \in Int
    <3>1. TypeOK /\ Len(balances) \in Nat /\ Due \in Int
      BY AmountsAssumption DEF PlanInv, TypeOK, Due
    <3>2. Ints(Held, Len(balances))
      BY <3>1, SumsTyped
    <3> QED BY <3>1, <3>2, SumToProperties DEF Funds
  <2>2. ~(Funds < Due)
    BY <2>1
  <2> QED BY <2>2 DEF PlanInv, SumInv
<1> QED BY <1>1, PlanInvariance, PTL

(***************************************************************************)
(* The loop ends: every step of the transaction leaves less to do, by a    *)
(* measure that is never negative, so that no list of balances keeps the   *)
(* dialog waiting for ever.                                                *)
(***************************************************************************)
Rank ==
    CASE pc = "begin" -> Len(balances) + 3
      [] pc = "loop" -> Len(balances) + 3 - i
      [] pc = "deposit" -> 1
      [] OTHER -> 0

LeavesLess == [][Rank' < Rank /\ Rank \in Nat /\ Rank' \in Nat]_vars

THEOREM LoopEnds == Spec => LeavesLess
<1>1. PlanInv /\ Next => Rank \in Nat /\ Rank' \in Nat /\ Rank' < Rank
  <2> SUFFICES ASSUME PlanInv, Next PROVE Rank \in Nat /\ Rank' \in Nat /\ Rank' < Rank
    OBVIOUS
  <2>1. /\ TypeOK /\ i \in Nat /\ Len(balances) \in Nat /\ i <= Len(balances) + 1
        /\ balances' = balances
    BY DEF PlanInv, SumInv, TypeOK, Next, Begin, Skip, TakeFromLast, TakeAll, TakeRest, EndOfList, Deposit, inputs
  <2>2. CASE Begin
    BY <2>1, <2>2 DEF Begin, Rank, PlanInv, BeginInv
  <2>3. CASE Skip
    BY <2>1, <2>3 DEF Skip, Rank
  <2>4. CASE TakeFromLast
    BY <2>1, <2>4 DEF TakeFromLast, Withdraw, Counts, Rank
  <2>5. CASE TakeAll
    BY <2>1, <2>5 DEF TakeAll, Withdraw, Counts, Rank
  <2>6. CASE TakeRest
    BY <2>1, <2>6 DEF TakeRest, Withdraw, Counts, Rank
  <2>7. CASE EndOfList
    BY <2>1, <2>7 DEF EndOfList, Rank
  <2>8. CASE Deposit
    BY <2>1, <2>8 DEF Deposit, Rank
  <2> QED BY <2>2, <2>3, <2>4, <2>5, <2>6, <2>7, <2>8 DEF Next
<1> QED BY <1>1, PlanInvariance, PTL DEF Spec, LeavesLess

(***************************************************************************)
(* Only the last record is overdrawn, and only when the funds are short.   *)
(***************************************************************************)
THEOREM OverdrawnLast == Spec => []OverdrawsLastOnly
<1>1. PlanInv => OverdrawsLastOnly
  BY DEF PlanInv
<1> QED BY <1>1, PlanInvariance, PTL
================================================================================
