---------------------------- MODULE KeyStoreProofs ----------------------------
(***************************************************************************)
(* The account tables are correct for all sets of names, keys and          *)
(* passwords, every bound, and every choice of failing SQL statements.     *)
(*                                                                         *)
(* A step changes the account table in one of three ways: it inserts a     *)
(* row, it clears the rows of a name, or it leaves the table alone         *)
(* (TableSteps).  The invariants about the table are proved over these.    *)
(***************************************************************************)
EXTENDS KeyStore, FiniteSetTheorems, SequenceTheorems, TLAPS

Table == [Names -> Seq(Rows)]
Cleared(n) == [rows EXCEPT ![n] = <<>>]

\* An account is added or imported, and the table read again.
InsertStep(k) ==
    /\ dialog # "none" /\ typed \in Names
    /\ dialog = "add" => k \notin used
    /\ dialog = "import" => k = importKey
    /\ Insert(k)
    /\ used' = used \cup {k}
    /\ userPw' = userPw /\ dialog' = "none" /\ checked' = NoName

\* An account is deleted, or a crash comes between the two statements.
ClearStep(n) ==
    /\ Idle /\ n \in DOMAIN accounts
    /\ rows' = Cleared(n) /\ unchecked' = unchecked \ {n}
    /\ mishap' \/ abandoned' = abandoned \cup {Recorded(n)}
    /\ userPw' = userPw /\ dialog' = "none" /\ checked' \in {checked, NoName} /\ used' = used

--------------------------------------------------------------------------------
\* The map read from a table.
LEMMA MapType ==
    ASSUME NEW r \in Table
    PROVE  /\ DOMAIN MapOf(r) = Stored(r) /\ Stored(r) \subseteq Names
           /\ MapOf(r) \in [Stored(r) -> Keys]
<1>1. ASSUME NEW n \in Stored(r) PROVE LastOf(r[n]).key \in Keys
  <2>1. r[n] \in Seq(Rows) /\ r[n] # <<>>
    BY DEF Stored, Table
  <2>2. Len(r[n]) \in 1..Len(r[n])
    BY <2>1
  <2>3. LastOf(r[n]) \in Rows
    BY <2>1, <2>2 DEF LastOf
  <2> QED BY <2>3 DEF Rows
<1> QED BY <1>1 DEF MapOf, Stored

\* The table after an insert.
LEMMA InsertEffect ==
    ASSUME rows \in Table, session \in Passwords, NEW n \in Names, NEW k \in Keys
    PROVE  /\ Inserted(n, k) \in Table
           /\ Stored(Inserted(n, k)) = Stored(rows) \cup {n}
           /\ \A m \in Names : m # n => Inserted(n, k)[m] = rows[m]
           /\ Inserted(n, k)[n] = Append(rows[n], [key |-> k, enc |-> session])
           /\ LastOf(Inserted(n, k)[n]) = [key |-> k, enc |-> session]
<1> DEFINE row == [key |-> k, enc |-> session]
<1>1. row \in Rows
  BY DEF Rows
<1>2. rows[n] \in Seq(Rows) /\ Append(rows[n], row) \in Seq(Rows)
  BY <1>1 DEF Table
<1>3. /\ Inserted(n, k)[n] = Append(rows[n], row)
      /\ \A m \in Names : m # n => Inserted(n, k)[m] = rows[m]
      /\ Inserted(n, k) \in Table
  BY <1>2 DEF Inserted, Table
<1> HIDE DEF row
<1>4. Append(rows[n], row) # <<>> /\ LastOf(Append(rows[n], row)) = row
  BY <1>1, <1>2 DEF LastOf
<1>5. Stored(Inserted(n, k)) = Stored(rows) \cup {n}
  BY <1>3, <1>4 DEF Stored
<1> QED BY <1>3, <1>4, <1>5 DEF row

\* The table after the rows of a name are deleted.
LEMMA ClearEffect ==
    ASSUME rows \in Table, NEW n \in Names
    PROVE  /\ Cleared(n) \in Table
           /\ Stored(Cleared(n)) = Stored(rows) \ {n}
           /\ Cleared(n)[n] = <<>>
           /\ \A m \in Names : m # n => Cleared(n)[m] = rows[m]
<1>1. /\ Cleared(n)[n] = <<>>
      /\ \A m \in Names : m # n => Cleared(n)[m] = rows[m]
      /\ Cleared(n) \in Table
  BY DEF Cleared, Table
<1> QED BY <1>1 DEF Stored

\* What walletListAccounts does to a current account c.
LEMMA ListingEffect ==
    ASSUME NEW c \in Names \cup {NoName}, NEW m, DOMAIN m \subseteq Names,
           NEW d \in CurrentAfterListing(c, m)
    PROVE  /\ d \in Names \cup {NoName}
           /\ c # NoName => d = c
           /\ c = NoName => IF DOMAIN m = {} THEN d = NoName ELSE d \in DOMAIN m
BY DEF CurrentAfterListing, FirstKey

\* A step inserts a row, clears a name, or leaves the table alone.
LEMMA TableSteps ==
    ASSUME TypeOK, [Next]_vars
    PROVE  \/ \E k \in Keys : InsertStep(k)
           \/ \E n \in Names : ClearStep(n)
           \/ rows' = rows /\ unchecked' = unchecked
<1> DEFINE Quiet == rows' = rows /\ unchecked' = unchecked
<1>1. ASSUME NEW k \in Keys, AddAccount(k) PROVE InsertStep(k) \/ Quiet
  BY <1>1 DEF AddAccount, InsertStep, Confirmed, CloseDialog, TypeOK
<1>2. CASE ImportAccount \/ CrashInImport
  <2>1. importKey \in Keys /\ Confirmed("import")
    BY <1>2 DEF ImportAccount, CrashInImport, Confirmed, TypeOK
  <2>2. InsertStep(importKey) \/ Quiet
    BY <1>2, <2>1 DEF ImportAccount, CrashInImport, InsertStep, Confirmed, Restart, CloseDialog, TypeOK
  <2> QED BY <2>1, <2>2
<1>3. ASSUME NEW n \in Names, DeleteAccount(n) \/ CrashInDelete(n)
      PROVE  ClearStep(n) \/ Quiet
  <2>1. CASE DeleteAccount(n)
    <3>1. PICK fault \in (DbFaults \cap {"delete", "abandon"}) \cup {"none"} :
            /\ IF fault = "delete" THEN UNCHANGED <<rows, unchecked>> ELSE Clear(n)
            /\ abandoned' = IF fault = "none" THEN abandoned \cup {Recorded(n)} ELSE abandoned
            /\ mishap' = (mishap \/ fault # "none")
      BY <2>1 DEF DeleteAccount
    <3>2. Idle /\ n \in DOMAIN accounts /\ UNCHANGED <<userPw, dialog, checked, used>>
      BY <2>1 DEF DeleteAccount, dialogVars
    <3>3. CASE fault = "delete"
      BY <3>1, <3>3
    <3>4. CASE fault # "delete"
      <4>1. rows' = Cleared(n) /\ unchecked' = unchecked \ {n}
        BY <3>1, <3>4 DEF Cleared, Clear
      <4>2. mishap' \/ abandoned' = abandoned \cup {Recorded(n)}
        BY <3>1
      <4> QED BY <3>2, <4>1, <4>2 DEF ClearStep, Idle
    <3> QED BY <3>3, <3>4
  <2>2. CASE CrashInDelete(n)
    BY <2>2 DEF CrashInDelete, Clear, Restart, CloseDialog, ClearStep, Cleared, Idle
  <2> QED BY <1>3, <2>1, <2>2
<1>4. CASE \/ \E p \in Passwords : CreateWallet(p) \/ Login(p) \/ ChangePassword(p)
           \/ OpenAdd \/ CheckName \/ Dismiss \/ SettingsFlush \/ Crash
           \/ \E k \in Keys : OpenImport(k)
           \/ \E n \in Names \cup {NoName} : TypeName(n)
           \/ \E n \in Names : ChooseAccount(n)
           \/ UNCHANGED vars
  BY <1>4 DEF CreateWallet, Login, ChangePassword, OpenAdd, OpenDialog, CheckName, Dismiss,
              SettingsFlush, Crash, OpenImport, TypeName, ChooseAccount, diskVars, auxVars, vars
<1> QED BY <1>1, <1>2, <1>3, <1>4 DEF Next

--------------------------------------------------------------------------------
LEMMA InitCore == Init => CoreInv
<1> SUFFICES ASSUME Init PROVE CoreInv
  OBVIOUS
<1>1. rows \in Table /\ Stored(rows) = {}
  BY DEF Init, Table, Stored
<1>2. accounts = MapOf(rows) /\ DOMAIN accounts = {} /\ accounts \in [DOMAIN accounts -> Keys]
  BY <1>1, MapType DEF Init
<1>3. Cardinality(DOMAIN accounts \ unchecked) = 0
  <2>1. DOMAIN accounts \ unchecked = {}
    BY <1>2
  <2> QED BY <2>1, FS_EmptySet
<1>4. TypeOK
  BY <1>1, <1>2, KeysAssumption DEF Init, TypeOK, Table
<1>5. MapIsTable /\ CurrentKnown
  BY <1>1, <1>2 DEF Init, MapIsTable, CurrentKnown
<1>6. AtMostMax
  BY <1>3, BoundsAssumption DEF AtMostMax
<1>7. DialogGuard
  BY DEF Init, DialogGuard
<1> QED BY <1>4, <1>5, <1>6, <1>7 DEF CoreInv

(***************************************************************************)
(* The map and the current account after main() or walletListAccounts has  *)
(* read the table.                                                         *)
(***************************************************************************)
LEMMA MapRead ==
    ASSUME NEW r \in Table, rows' = r, accounts' = MapOf(r),
           NEW c \in Names \cup {NoName}, current' \in CurrentAfterListing(c, MapOf(r))
    PROVE  /\ MapIsTable'
           /\ DOMAIN accounts' = Stored(r) /\ DOMAIN accounts' \subseteq Names
           /\ accounts' \in [DOMAIN accounts' -> Keys]
           /\ current' \in Names \cup {NoName}
           /\ c \in Stored(r) \cup {NoName} => CurrentKnown'
<1>1. /\ DOMAIN accounts' = Stored(r) /\ Stored(r) \subseteq Names
      /\ accounts' \in [DOMAIN accounts' -> Keys]
  BY MapType
<1>2. \A n \in DOMAIN accounts' : rows'[n] # <<>> /\ accounts'[n] = LastOf(rows'[n]).key
  BY <1>1 DEF MapOf, Stored
<1>3. MapIsTable'
  BY <1>1, <1>2 DEF MapIsTable
<1>4. /\ current' \in Names \cup {NoName}
      /\ c # NoName => current' = c
      /\ c = NoName => IF Stored(r) = {} THEN current' = NoName ELSE current' \in Stored(r)
  BY <1>1, ListingEffect
<1>5. c \in Stored(r) \cup {NoName} => CurrentKnown'
  BY <1>1, <1>4 DEF CurrentKnown
<1> QED BY <1>1, <1>3, <1>4, <1>5

(***************************************************************************)
(* The number of accounts with a checked name after one is added, with     *)
(* room for it, or none.                                                   *)
(***************************************************************************)
LEMMA CountEffect ==
    ASSUME DOMAIN accounts \subseteq Names, ~mishap, AtMostMax,
           \/ DOMAIN accounts' \ unchecked' \subseteq DOMAIN accounts \ unchecked
           \/ RoomForMore /\ \E n \in Names : DOMAIN accounts' \ unchecked' \subseteq DOMAIN accounts \cup {n}
    PROVE  AtMostMax'
<1> DEFINE S == DOMAIN accounts
           T == DOMAIN accounts \ unchecked
           U == DOMAIN accounts' \ unchecked'
<1>1. IsFiniteSet(S) /\ Cardinality(S) \in Nat /\ IsFiniteSet(T) /\ Cardinality(T) \in Nat
  BY NamesAssumption, FS_Subset, FS_CardinalityType
<1>2. CASE U \subseteq T
  <2>1. Cardinality(U) <= Cardinality(T) /\ Cardinality(U) \in Nat
    BY <1>1, <1>2, FS_Subset, FS_CardinalityType
  <2>2. Cardinality(T) <= MaxAccounts
    BY DEF AtMostMax
  <2>3. Cardinality(U) <= MaxAccounts
    BY <1>1, <2>1, <2>2, BoundsAssumption
  <2> QED BY <2>3 DEF AtMostMax
<1>3. ASSUME RoomForMore, NEW n \in Names, U \subseteq S \cup {n}
      PROVE  AtMostMax'
  <2>1. /\ IsFiniteSet(S \cup {n})
        /\ Cardinality(S \cup {n}) = IF n \in S THEN Cardinality(S) ELSE Cardinality(S) + 1
    BY <1>1, FS_AddElement
  <2>2. Cardinality(U) <= Cardinality(S \cup {n}) /\ Cardinality(U) \in Nat
    BY <1>3, <2>1, FS_Subset, FS_CardinalityType
  <2>3. Cardinality(S) < MaxAccounts
    BY <1>3 DEF RoomForMore
  <2>4. Cardinality(U) <= MaxAccounts
    BY <1>1, <2>1, <2>2, <2>3, BoundsAssumption
  <2> QED BY <2>4 DEF AtMostMax
<1> QED BY <1>2, <1>3

\* The row entered has a checked name and room, or an unchecked one.
LEMMA InsertCount ==
    ASSUME TypeOK, typed \in Names, NEW k, Insert(k), ~mishap, AtMostMax,
           DOMAIN accounts' = DOMAIN accounts \cup {typed}
    PROVE  AtMostMax'
<1>1. CASE Approved
  <2>1. RoomForMore /\ DOMAIN accounts' \ unchecked' \subseteq DOMAIN accounts \cup {typed}
    BY <1>1 DEF Approved
  <2> QED BY <2>1, CountEffect DEF TypeOK
<1>2. CASE ~Approved
  <2>1. DOMAIN accounts' \ unchecked' \subseteq DOMAIN accounts \ unchecked
    BY <1>2 DEF Insert
  <2> QED BY <2>1, CountEffect DEF TypeOK
<1> QED BY <1>1, <1>2

(***************************************************************************)
(* The steps that change neither the table nor the map.                    *)
(***************************************************************************)
QuietStep ==
    \/ \E p \in Passwords : CreateWallet(p) \/ Login(p) \/ ChangePassword(p)
    \/ OpenAdd \/ CheckName \/ Dismiss \/ SettingsFlush
    \/ \E k \in Keys : OpenImport(k)
    \/ \E n \in Names \cup {NoName} : TypeName(n)
    \/ \E n \in Names : ChooseAccount(n)
    \/ UNCHANGED vars

DialogTyped ==
    /\ dialog \in {"none", "add", "import"} /\ typed \in Names \cup {NoName}
    /\ checked \in Names \cup {NoName} /\ importKey \in Keys \cup {Unreadable}
    /\ (dialog = "import" <=> importKey # Unreadable)
    /\ DialogGuard

LEMMA FormerNamesType ==
    ASSUME abandoned \subseteq Records, NEW k
    PROVE  FormerNames(k) \subseteq Names \cup {NoName}
<1>1. \A r \in abandoned : r.name \in Names
  BY DEF Records
<1> QED BY <1>1 DEF FormerNames

LEMMA QuietCore ==
    ASSUME CoreInv, QuietStep
    PROVE  CoreInv'
<1> USE DEF CoreInv
<1>1. /\ UNCHANGED <<rows, accounts, mishap, abandoned, used, unchecked>>
      /\ current' = current \/ current' \in DOMAIN accounts
      /\ saved' \in {saved, current}
  BY DEF QuietStep, CreateWallet, Login, ChangePassword, OpenAdd, OpenDialog, CheckName, Dismiss,
         SettingsFlush, OpenImport, TypeName, ChooseAccount, diskVars, memVars, auxVars, vars
<1>2. MapIsTable' /\ CurrentKnown' /\ AtMostMax'
  BY <1>1 DEF MapIsTable, CurrentKnown, AtMostMax
<1>3. userPw' \in Passwords \cup {NoPw} /\ session' \in Passwords \cup {NoPw}
      /\ (LoggedIn => LoggedIn') /\ pwChanges' \in Nat
  <2>1. CASE \E p \in Passwords : CreateWallet(p)
    BY <2>1, KeysAssumption DEF CreateWallet, auxVars, TypeOK, LoggedIn
  <2>2. CASE \E p \in Passwords : Login(p)
    BY <2>2 DEF Login, diskVars, auxVars, TypeOK, LoggedIn
  <2>3. CASE \E p \in Passwords : ChangePassword(p)
    BY <2>3, KeysAssumption DEF ChangePassword, UpdatePassword, TypeOK, LoggedIn
  <2>4. CASE UNCHANGED <<userPw, session, pwChanges>>
    BY <2>4 DEF TypeOK, LoggedIn
  <2> QED
    BY <2>1, <2>2, <2>3, <2>4 DEF QuietStep, OpenAdd, OpenDialog, CheckName, Dismiss,
       SettingsFlush, OpenImport, TypeName, ChooseAccount, diskVars, memVars, auxVars, vars
<1>4. DialogTyped'
  <2>1. CASE OpenAdd
    BY <2>1, <1>3 DEF OpenAdd, OpenDialog, Idle, LoggedIn, DialogTyped, DialogGuard
  <2>2. ASSUME NEW k \in Keys, OpenImport(k) PROVE DialogTyped'
    BY <2>2, <1>3, FormerNamesType, KeysAssumption DEF OpenImport, OpenDialog, Idle, LoggedIn, DialogTyped, DialogGuard, TypeOK
  <2>3. CASE CheckName
    BY <2>3, <1>3 DEF CheckName, DialogTyped, DialogGuard, LoggedIn, TypeOK
  <2>4. CASE Dismiss
    BY <2>4 DEF Dismiss, CloseDialog, DialogTyped, DialogGuard
  <2>5. ASSUME NEW n \in Names \cup {NoName}, TypeName(n) PROVE DialogTyped'
    BY <2>5, <1>3 DEF TypeName, DialogTyped, DialogGuard, LoggedIn, TypeOK
  <2>6. CASE UNCHANGED dialogVars
    BY <2>6, <1>3 DEF dialogVars, DialogTyped, DialogGuard, LoggedIn, TypeOK
  <2> QED
    BY <2>1, <2>2, <2>3, <2>4, <2>5, <2>6
    DEF QuietStep, CreateWallet, Login, ChangePassword, SettingsFlush, ChooseAccount, vars
<1>5. TypeOK'
  BY <1>1, <1>3, <1>4 DEF TypeOK, DialogTyped
<1> QED BY <1>2, <1>3, <1>4, <1>5 DEF DialogTyped

(***************************************************************************)
(* A restart; the saved account is known if the crash lost nothing.        *)
(***************************************************************************)
LEMMA RestartCore ==
    ASSUME CoreInv, rows' \in Table, Restart, mishap' \in BOOLEAN,
           abandoned' = abandoned, used' \subseteq Keys, unchecked' \subseteq Names,
           ~mishap' => /\ ~mishap /\ saved = current
                       /\ \/ rows' = rows /\ unchecked' = unchecked
                          \/ \E k : Insert(k) /\ typed \in Names /\ Stored(rows') = Stored(rows) \cup {typed}
    PROVE  CoreInv'
<1> USE DEF CoreInv
<1>1. /\ accounts' = MapOf(rows') /\ current' \in CurrentAfterListing(saved, MapOf(rows'))
      /\ saved \in Names \cup {NoName}
  BY DEF Restart, TypeOK
<1>2. /\ MapIsTable' /\ DOMAIN accounts' = Stored(rows') /\ DOMAIN accounts' \subseteq Names
      /\ accounts' \in [DOMAIN accounts' -> Keys] /\ current' \in Names \cup {NoName}
      /\ (saved \in Stored(rows') \cup {NoName} => CurrentKnown')
  BY <1>1, MapRead
<1>3. ASSUME ~mishap' PROVE CurrentKnown' /\ AtMostMax'
  <2>1. ~mishap /\ saved = current /\ DOMAIN accounts = Stored(rows)
    BY <1>3 DEF MapIsTable
  <2>2. CASE rows' = rows /\ unchecked' = unchecked
    <3>1. saved \in Stored(rows') \cup {NoName}
      BY <2>1, <2>2 DEF CurrentKnown
    <3>2. AtMostMax'
      BY <2>1, <2>2, <1>2, CountEffect DEF TypeOK
    <3> QED BY <1>2, <3>1, <3>2
  <2>3. ASSUME NEW k, Insert(k), typed \in Names, Stored(rows') = Stored(rows) \cup {typed}
        PROVE  CurrentKnown' /\ AtMostMax'
    <3>1. saved \in Stored(rows') \cup {NoName}
      BY <2>1, <2>3 DEF CurrentKnown
    <3>2. AtMostMax'
      BY <2>1, <2>3, <1>2, InsertCount
    <3> QED BY <1>2, <3>1, <3>2
  <2> QED BY <1>3, <2>2, <2>3
<1>4. ASSUME mishap' PROVE CurrentKnown' /\ AtMostMax'
  BY <1>4 DEF CurrentKnown, AtMostMax
<1>5. TypeOK' /\ DialogGuard'
  BY <1>1, <1>2 DEF Restart, CloseDialog, TypeOK, DialogGuard, LoggedIn, Table
<1> QED BY <1>2, <1>3, <1>4, <1>5

\* The session has a password while a dialog is open.
LEMMA DialogSession ==
    ASSUME CoreInv, dialog # "none"
    PROVE  session \in Passwords /\ rows \in Table
BY DEF CoreInv, TypeOK, DialogGuard, LoggedIn, Table

(***************************************************************************)
(* The insert of a new row, read back by walletListAccounts.               *)
(***************************************************************************)
LEMMA AddedCore ==
    ASSUME CoreInv, NEW k \in Keys, dialog # "none", typed \in Names,
           Insert(k), ListAccounts(rows'), CloseDialog,
           abandoned' \subseteq Records, used' \subseteq Keys,
           UNCHANGED <<userPw, saved, session, pwChanges, mishap>>
    PROVE  CoreInv'
<1> USE DEF CoreInv
<1>1. /\ rows' \in Table
      /\ Stored(rows') = Stored(rows) \cup {typed}
      /\ unchecked' \subseteq Names
  BY DialogSession, InsertEffect DEF Insert, TypeOK
<1>2. accounts' = MapOf(rows') /\ current' \in CurrentAfterListing(current, MapOf(rows'))
      /\ current \in Names \cup {NoName}
  BY DEF ListAccounts, TypeOK
<1>3. /\ MapIsTable' /\ DOMAIN accounts' = Stored(rows') /\ DOMAIN accounts' \subseteq Names
      /\ accounts' \in [DOMAIN accounts' -> Keys] /\ current' \in Names \cup {NoName}
      /\ (current \in Stored(rows') \cup {NoName} => CurrentKnown')
  BY <1>1, <1>2, MapRead
<1>4. ASSUME ~mishap PROVE CurrentKnown' /\ AtMostMax'
  <2>1. DOMAIN accounts = Stored(rows)
    BY <1>4 DEF MapIsTable
  <2>2. current \in Stored(rows') \cup {NoName}
    BY <1>1, <1>4, <2>1 DEF CurrentKnown
  <2>3. AtMostMax'
    BY <1>1, <1>3, <1>4, <2>1, InsertCount
  <2> QED BY <1>3, <2>2, <2>3
<1>5. ASSUME mishap PROVE CurrentKnown' /\ AtMostMax'
  BY <1>5 DEF CurrentKnown, AtMostMax
<1>6. TypeOK' /\ DialogGuard'
  BY <1>1, <1>3 DEF CloseDialog, TypeOK, DialogGuard, LoggedIn, Table
<1> QED BY <1>3, <1>4, <1>5, <1>6

\* An import or an addition whose insert failed.
LEMMA FailedInsertCore ==
    ASSUME CoreInv, UNCHANGED <<rows, accounts, current, userPw, saved, session, pwChanges, mishap, unchecked>>,
           CloseDialog, abandoned' \subseteq Records, used' \subseteq Keys
    PROVE  CoreInv'
BY DEF CoreInv, CloseDialog, TypeOK, DialogGuard, MapIsTable, CurrentKnown,
       AtMostMax, LoggedIn

LEMMA DeletedCore ==
    ASSUME CoreInv, NEW n \in Names, DeleteAccount(n)
    PROVE  CoreInv'
<1> USE DEF CoreInv
<1>1. PICK fault \in (DbFaults \cap {"delete", "abandon"}) \cup {"none"} :
        /\ accounts' = AccountsAfterDelete(n, fault)
        /\ IF fault = "delete" THEN UNCHANGED <<rows, unchecked>> ELSE Clear(n)
        /\ abandoned' = IF fault = "none" THEN abandoned \cup {Recorded(n)} ELSE abandoned
        /\ current' \in IF fault = "none" THEN CurrentAfterDelete(n, accounts') ELSE {current}
        /\ mishap' = (mishap \/ fault # "none")
  BY DEF DeleteAccount
<1>2. /\ n \in DOMAIN accounts /\ rows \in Table
      /\ UNCHANGED <<userPw, saved, session, dialog, typed, checked, importKey, pwChanges, used>>
  BY DEF DeleteAccount, dialogVars, TypeOK, Table
<1>3. /\ DOMAIN accounts' = DOMAIN accounts \ {n}
      /\ \A m \in DOMAIN accounts' : accounts'[m] = accounts[m]
      /\ accounts' \in [DOMAIN accounts' -> Keys]
  BY <1>1 DEF AccountsAfterDelete, Without, TypeOK
<1>4. /\ rows' \in Table
      /\ \A m \in Names \ {n} : rows'[m] = rows[m]
      /\ fault # "delete" => Stored(rows') = Stored(rows) \ {n}
      /\ unchecked' \in {unchecked, unchecked \ {n}} /\ unchecked' \subseteq Names
  BY <1>1, <1>2, ClearEffect DEF Clear, Cleared, TypeOK
<1>5. Recorded(n) \in Records
  <2>1. rows[n] \in Seq(Rows) /\ rows[n] # <<>>
    BY <1>2 DEF MapIsTable, Table
  <2>2. Head(rows[n]) \in Rows
    BY <2>1
  <2> QED BY <2>2 DEF Recorded, Records, Rows
<1>6. /\ current' \in Names \cup {NoName}
      /\ ~mishap' => IF DOMAIN accounts' = {} THEN current' = NoName ELSE current' \in DOMAIN accounts'
  <2>1. CASE fault = "none"
    <3>1. current' \in CurrentAfterDelete(n, accounts')
      BY <1>1, <2>1
    <3>2. ~mishap' => current \in DOMAIN accounts
      BY <1>1, <1>2, <2>1 DEF CurrentKnown
    <3>3. CASE current = n
      BY <3>1, <3>3, <1>3 DEF CurrentAfterDelete, FirstKey, TypeOK
    <3>4. CASE current # n
      BY <3>1, <3>2, <3>4, <1>3 DEF CurrentAfterDelete, TypeOK
    <3> QED BY <3>3, <3>4
  <2>2. CASE fault # "none"
    BY <1>1, <2>2 DEF TypeOK
  <2> QED BY <2>1, <2>2
<1>7. CurrentKnown'
  BY <1>6 DEF CurrentKnown
<1>8. TypeOK'
  <2>1. abandoned' \subseteq Records /\ mishap' \in BOOLEAN
    BY <1>1, <1>5 DEF TypeOK
  <2>2. rows' \in [Names -> Seq(Rows)]
    BY <1>4 DEF Table
  <2>3. DOMAIN accounts' \subseteq Names
    BY <1>3 DEF TypeOK
  <2> QED BY <1>2, <1>3, <1>4, <1>6, <2>1, <2>2, <2>3 DEF TypeOK
<1>9. MapIsTable'
  <2>1. \A m \in DOMAIN accounts' : rows'[m] # <<>> /\ accounts'[m] = LastOf(rows'[m]).key
    BY <1>3, <1>4 DEF MapIsTable, TypeOK
  <2>2. ~mishap' => DOMAIN accounts' = Stored(rows')
    BY <1>1, <1>3, <1>4 DEF MapIsTable
  <2> QED BY <2>1, <2>2 DEF MapIsTable
<1>10. AtMostMax'
  <2>1. CASE mishap'
    BY <2>1 DEF AtMostMax
  <2>2. CASE ~mishap'
    <3>1. DOMAIN accounts' \ unchecked' \subseteq DOMAIN accounts \ unchecked
      BY <1>3, <1>4
    <3> QED BY <2>2, <3>1, <1>1, CountEffect DEF TypeOK
  <2> QED BY <2>1, <2>2
<1>11. DialogGuard'
  BY <1>2 DEF DialogGuard, LoggedIn
<1> QED BY <1>7, <1>8, <1>9, <1>10, <1>11

\* Every step keeps CoreInv.
LEMMA CoreStep == CoreInv /\ [Next]_vars => CoreInv'
<1> SUFFICES ASSUME CoreInv, [Next]_vars PROVE CoreInv'
  OBVIOUS
<1>1. TypeOK
  BY DEF CoreInv
<1>2. ASSUME NEW k \in Keys, AddAccount(k) PROVE CoreInv'
  <2>1. dialog # "none" /\ typed \in Names
    BY <1>1, <1>2 DEF AddAccount, Confirmed, TypeOK
  <2>2. /\ CloseDialog /\ abandoned' \subseteq Records /\ used' \subseteq Keys
        /\ UNCHANGED <<userPw, saved, session, pwChanges, mishap>>
    BY <1>1, <1>2 DEF AddAccount, TypeOK
  <2>3. CASE Insert(k) /\ ListAccounts(rows')
    BY <2>1, <2>2, <2>3, AddedCore
  <2>4. CASE UNCHANGED <<rows, accounts, current, unchecked>>
    BY <2>2, <2>4, FailedInsertCore
  <2> QED BY <1>2, <2>3, <2>4 DEF AddAccount
<1>3. CASE ImportAccount
  <2>1. dialog # "none" /\ typed \in Names /\ importKey \in Keys
    BY <1>1, <1>3 DEF ImportAccount, Confirmed, TypeOK
  <2>2. /\ CloseDialog /\ abandoned' \subseteq Records /\ used' \subseteq Keys
        /\ UNCHANGED <<userPw, saved, session, pwChanges, mishap>>
    BY <1>1, <1>3, <2>1 DEF ImportAccount, TypeOK
  <2>3. CASE Insert(importKey) /\ ListAccounts(rows')
    BY <2>1, <2>2, <2>3, AddedCore
  <2>4. CASE UNCHANGED <<rows, accounts, current, unchecked>>
    BY <2>2, <2>4, FailedInsertCore
  <2> QED BY <1>3, <2>3, <2>4 DEF ImportAccount
<1>4. ASSUME NEW n \in Names, DeleteAccount(n) PROVE CoreInv'
  BY <1>4, DeletedCore
<1>5. CASE Crash
  <2>1. /\ rows' \in Table /\ Restart /\ abandoned' = abandoned /\ used' \subseteq Keys
        /\ rows' = rows /\ unchecked' = unchecked /\ unchecked' \subseteq Names
    BY <1>1, <1>5 DEF Crash, TypeOK, Table
  <2>2. mishap' \in BOOLEAN /\ (~mishap' => ~mishap /\ saved = current)
    BY <1>1, <1>5 DEF Crash, TypeOK
  <2> QED BY <2>1, <2>2, RestartCore
<1>6. ASSUME NEW n \in Names, CrashInDelete(n) PROVE CoreInv'
  <2>1. /\ rows' \in Table /\ Restart /\ abandoned' = abandoned /\ unchecked' \subseteq Names
    BY <1>1, <1>6, ClearEffect DEF CrashInDelete, Clear, Cleared, TypeOK, Table
  <2>2. mishap' = TRUE /\ used' \subseteq Keys
    BY <1>1, <1>6 DEF CrashInDelete, TypeOK
  <2> QED BY <2>1, <2>2, RestartCore
<1>7. CASE CrashInImport
  <2>1. dialog # "none" /\ typed \in Names /\ importKey \in Keys /\ Insert(importKey)
    BY <1>1, <1>7 DEF CrashInImport, Confirmed, TypeOK
  <2>2. /\ rows' \in Table /\ unchecked' \subseteq Names
        /\ Stored(rows') = Stored(rows) \cup {typed}
    BY <1>1, <2>1, DialogSession, InsertEffect DEF Insert, TypeOK
  <2>3. Restart /\ abandoned' = abandoned
    BY <1>7 DEF CrashInImport
  <2>4. mishap' \in BOOLEAN /\ used' \subseteq Keys
    BY <1>1, <1>7, <2>1 DEF CrashInImport, TypeOK
  <2>5. ~mishap' => ~mishap /\ saved = current
    BY <1>7 DEF CrashInImport
  <2> QED BY <2>1, <2>2, <2>3, <2>4, <2>5, RestartCore
<1>8. CASE QuietStep
  BY <1>8, QuietCore
<1> QED BY <1>2, <1>3, <1>4, <1>5, <1>6, <1>7, <1>8 DEF Next, QuietStep

\* CoreInv holds in every behaviour.
THEOREM CoreInvariance == Spec => []CoreInv
BY InitCore, CoreStep, PTL DEF Spec

--------------------------------------------------------------------------------
(***************************************************************************)
(* A name confirmed as checked stays the only one of its kind.             *)
(***************************************************************************)
\* Ok stays enabled for the name it was enabled for, or a free name has just
\* been checked.
LEMMA OkSteps ==
    ASSUME [Next]_vars, checked' # NoName
    PROVE  checked' = checked \/ rows'[checked'] = <<>>
<1>1. ASSUME NEW k \in Keys, AddAccount(k) PROVE FALSE
  BY <1>1 DEF AddAccount, CloseDialog
<1>2. CASE ImportAccount \/ Crash \/ CrashInImport \/ \E n \in Names : CrashInDelete(n)
  BY <1>2 DEF ImportAccount, Crash, CrashInImport, CrashInDelete, Restart, CloseDialog
<1>3. CASE CheckName
  BY <1>3 DEF CheckName, NameFree, diskVars
<1>4. CASE \/ \E p \in Passwords : CreateWallet(p) \/ Login(p) \/ ChangePassword(p)
           \/ OpenAdd \/ Dismiss \/ SettingsFlush \/ UNCHANGED vars
           \/ \E k \in Keys : OpenImport(k)
           \/ \E n \in Names \cup {NoName} : TypeName(n)
           \/ \E n \in Names : ChooseAccount(n) \/ DeleteAccount(n)
  BY <1>4 DEF CreateWallet, Login, ChangePassword, OpenAdd, OpenImport, OpenDialog, Dismiss, CloseDialog,
              SettingsFlush, TypeName, ChooseAccount, DeleteAccount, dialogVars, vars
<1> QED BY <1>1, <1>2, <1>3, <1>4 DEF Next

\* A row is inserted for a free name, or the name is marked as unchecked.
LEMMA FreshRow ==
    ASSUME NameInv, NEW k \in Keys, InsertStep(k)
    PROVE  /\ session \in Passwords /\ rows \in Table
           /\ \A m \in Names : m # typed => rows'[m] = rows[m]
           /\ Stored(rows') = Stored(rows) \cup {typed}
           /\ \/ unchecked' = unchecked \cup {typed}
              \/ /\ unchecked' = unchecked /\ typed \notin unchecked
                 /\ rows[typed] = <<>> /\ rows'[typed] = <<[key |-> k, enc |-> session]>>
<1>1. rows \in Table /\ session \in Passwords /\ typed \in Names /\ rows' = Inserted(typed, k)
  BY DialogSession DEF InsertStep, Insert, NameInv
<1>2. /\ \A m \in Names : m # typed => rows'[m] = rows[m]
      /\ Stored(rows') = Stored(rows) \cup {typed}
      /\ rows'[typed] = Append(rows[typed], [key |-> k, enc |-> session])
  BY <1>1, InsertEffect
<1>3. CASE Approved
  <2>1. rows[typed] = <<>> /\ unchecked' = unchecked
    BY <1>1, <1>3, NamesAssumption DEF Approved, NameInv, CheckedFree, InsertStep, Insert
  <2>2. typed \notin unchecked
    BY <2>1 DEF NameInv, UncheckedStored, Stored
  <2> QED BY <1>1, <1>2, <2>1, <2>2
<1>4. CASE ~Approved
  BY <1>1, <1>2, <1>4 DEF InsertStep, Insert
<1> QED BY <1>3, <1>4

LEMMA NameStep ==
    ASSUME NameInv, [Next]_vars
    PROVE  NameInv'
<1>1. CoreInv /\ CoreInv' /\ TypeOK
  BY CoreStep DEF NameInv, CoreInv
<1>2. ASSUME NEW k \in Keys, InsertStep(k) PROVE NamesUnique' /\ CheckedFree' /\ UncheckedStored'
  <2> DEFINE row == [key |-> k, enc |-> session]
  <2>1. /\ \A m \in Names : m # typed => rows'[m] = rows[m]
        /\ Stored(rows') = Stored(rows) \cup {typed}
        /\ \/ unchecked' = unchecked \cup {typed}
           \/ unchecked' = unchecked /\ rows'[typed] = <<row>>
    BY <1>2, FreshRow
  <2>a. rows'[typed] = <<row>> => Len(rows'[typed]) = 1
    OBVIOUS
  <2> HIDE DEF row
  <2>2. ASSUME NEW m \in Names PROVE Len(rows'[m]) <= 1 \/ m \in unchecked'
    <3>1. CASE m = typed /\ rows'[typed] = <<row>>
      <4>1. Len(rows'[m]) = 1
        BY <2>a, <3>1, Zenon
      <4> QED BY <4>1
    <3>2. CASE m = typed /\ typed \in unchecked'
      BY <3>2
    <3>3. CASE m # typed
      <4>1. rows'[m] = rows[m] /\ (m \in unchecked => m \in unchecked')
        BY <2>1, <3>3
      <4> QED BY <4>1 DEF NamesUnique, NameInv
    <3> QED BY <2>1, <3>1, <3>2, <3>3
  <2>3. CheckedFree'
    BY <1>2 DEF InsertStep, CheckedFree
  <2>4. UncheckedStored'
    BY <2>1 DEF NameInv, UncheckedStored
  <2> QED BY <2>2, <2>3, <2>4 DEF NamesUnique
<1>3. ASSUME NEW n \in Names, ClearStep(n) PROVE NamesUnique' /\ CheckedFree' /\ UncheckedStored'
  <2>1. /\ rows'[n] = <<>> /\ unchecked' = unchecked \ {n}
        /\ \A m \in Names : m # n => rows'[m] = rows[m]
        /\ Stored(rows') = Stored(rows) \ {n}
    BY <1>1, <1>3, ClearEffect DEF ClearStep, TypeOK, Table
  <2>2. NamesUnique'
    <3> SUFFICES ASSUME NEW m \in Names PROVE Len(rows'[m]) <= 1 \/ m \in unchecked'
      BY DEF NamesUnique
    <3>1. CASE m = n
      BY <2>1, <3>1
    <3>2. CASE m # n
      <4>1. rows'[m] = rows[m] /\ (m \in unchecked => m \in unchecked')
        BY <2>1, <3>2
      <4> QED BY <4>1 DEF NamesUnique, NameInv
    <3> QED BY <3>1, <3>2
  <2>3. checked' = NoName
    BY <1>1, <1>3 DEF ClearStep, CoreInv, DialogGuard, Idle
  <2>4. UncheckedStored'
    BY <2>1 DEF NameInv, UncheckedStored
  <2> QED BY <2>2, <2>3, <2>4 DEF CheckedFree
<1>4. ASSUME rows' = rows, unchecked' = unchecked PROVE NamesUnique' /\ CheckedFree' /\ UncheckedStored'
  <2>1. NamesUnique' /\ UncheckedStored'
    BY <1>4 DEF NamesUnique, UncheckedStored, NameInv
  <2>2. ASSUME checked' # NoName PROVE rows'[checked'] = <<>>
    BY <1>4, <2>2, OkSteps DEF CheckedFree, NameInv
  <2>3. CheckedFree'
    BY <2>2 DEF CheckedFree
  <2> QED BY <2>1, <2>3
<1> QED BY <1>1, <1>2, <1>3, <1>4, TableSteps DEF NameInv

\* NameInv holds in every behaviour, whatever the user does in the dialog.
THEOREM NameInvariance == Spec => []NameInv
<1>1. Init => NameInv
  <2> SUFFICES ASSUME Init PROVE NameInv
    OBVIOUS
  <2>1. \A n \in Names : Len(rows[n]) = 0
    BY DEF Init
  <2>2. NamesUnique
    BY <2>1 DEF NamesUnique
  <2> QED BY <2>2, InitCore DEF Init, NameInv, CheckedFree, UncheckedStored
<1>2. NameInv /\ [Next]_vars => NameInv'
  BY NameStep
<1> QED BY <1>1, <1>2, PTL DEF Spec

--------------------------------------------------------------------------------
(***************************************************************************)
(* Nothing is stored twice: a key is inserted only if it is fresh or was   *)
(* not found under the present password.                                   *)
(***************************************************************************)
\* The steps that touch the password or the key being imported.
LEMMA ImportSteps ==
    ASSUME TypeOK, DialogGuard, [Next]_vars
    PROVE  /\ used \subseteq used'
           /\ dialog' = "import" =>
                /\ rows' = rows /\ session' = session
                /\ \/ (dialog = "import" /\ importKey' = importKey)
                   \/ (importKey' \in Keys /\ ~KeyExists(importKey'))
<1> DEFINE Goal == /\ used \subseteq used'
                   /\ dialog' = "import" =>
                        /\ rows' = rows /\ session' = session
                        /\ \/ (dialog = "import" /\ importKey' = importKey)
                           \/ (importKey' \in Keys /\ ~KeyExists(importKey'))
<1>1. ASSUME NEW k \in Keys, AddAccount(k) PROVE Goal
  BY <1>1 DEF AddAccount, CloseDialog
<1>2. CASE ImportAccount \/ Crash \/ CrashInImport \/ \E n \in Names : CrashInDelete(n)
  BY <1>2 DEF ImportAccount, Crash, CrashInImport, CrashInDelete, Restart, CloseDialog
<1>3. ASSUME NEW k \in Keys, OpenImport(k) PROVE Goal
  BY <1>3 DEF OpenImport, OpenDialog, diskVars, memVars, auxVars
<1>4. ASSUME NEW p \in Passwords, CreateWallet(p) \/ Login(p) \/ ChangePassword(p) PROVE Goal
  <2>1. dialog = "none"
    BY <1>4 DEF CreateWallet, Login, ChangePassword, Idle, LoggedIn, DialogGuard
  <2> QED BY <1>4, <2>1 DEF CreateWallet, Login, ChangePassword, dialogVars, auxVars
<1>5. ASSUME NEW n \in Names, DeleteAccount(n) PROVE Goal
  BY <1>5 DEF DeleteAccount, Idle, dialogVars
<1>6. CASE \/ OpenAdd \/ CheckName \/ Dismiss \/ SettingsFlush \/ UNCHANGED vars
           \/ \E n \in Names \cup {NoName} : TypeName(n)
           \/ \E n \in Names : ChooseAccount(n)
  BY <1>6 DEF OpenAdd, OpenDialog, CheckName, Dismiss, CloseDialog,
              SettingsFlush, TypeName, ChooseAccount, memVars, dialogVars, auxVars, diskVars, vars
<1> QED BY <1>1, <1>2, <1>3, <1>4, <1>5, <1>6 DEF Next

\* The row inserted is not in the table yet.
LEMMA NewRow ==
    ASSUME TableInv, NEW k \in Keys, InsertStep(k), NEW n \in Names, NEW i \in 1..Len(rows[n])
    PROVE  rows[n][i] # [key |-> k, enc |-> session]
<1> SUFFICES ASSUME rows[n][i] = [key |-> k, enc |-> session] PROVE FALSE
  OBVIOUS
<1>1. Held(k) /\ KeyExists(k)
  BY DEF Held, HeldBy, KeyExists
<1>2. dialog \in {"add", "import"}
  BY DEF InsertStep, TableInv, CoreInv, TypeOK
<1> QED BY <1>1, <1>2 DEF InsertStep, TableInv, FreshKeys

\* The rows of the table after an insert and after a deletion.
LEMMA RowsAfterInsert ==
    ASSUME CoreInv, NEW k \in Keys, InsertStep(k), NEW n \in Names, NEW i \in 1..Len(rows'[n])
    PROVE  \/ n = typed /\ i = Len(rows[n]) + 1 /\ rows'[n][i] = [key |-> k, enc |-> session]
           \/ i \in 1..Len(rows[n]) /\ rows'[n][i] = rows[n][i]
<1> DEFINE row == [key |-> k, enc |-> session]
<1>1. rows \in Table /\ session \in Passwords /\ typed \in Names /\ rows' = Inserted(typed, k) /\ TypeOK
  BY DialogSession DEF InsertStep, Insert, CoreInv
<1>2. /\ \A m \in Names : m # typed => rows'[m] = rows[m]
      /\ rows'[typed] = Append(rows[typed], row)
  BY <1>1, InsertEffect
<1>3. CASE n = typed
  <2>1. row \in Rows /\ rows[n] \in Seq(Rows)
    BY <1>1 DEF Rows, Table
  <2>2. /\ Len(rows'[n]) = Len(rows[n]) + 1 /\ Len(rows[n]) \in Nat
        /\ rows'[n][Len(rows[n]) + 1] = row
        /\ \A j \in 1..Len(rows[n]) : rows'[n][j] = rows[n][j]
    <3> HIDE DEF row
    <3> QED BY <1>2, <1>3, <2>1, AppendProperties, LenProperties
  <2>3. i \in 1..Len(rows[n]) \/ i = Len(rows[n]) + 1
    BY <2>2
  <2> QED BY <1>3, <2>2, <2>3
<1>4. CASE n # typed
  BY <1>2, <1>4
<1> QED BY <1>3, <1>4

LEMMA RowsAfterClear ==
    ASSUME TypeOK, NEW c \in Names, ClearStep(c), NEW n \in Names, NEW i \in 1..Len(rows'[n])
    PROVE  n # c /\ rows'[n] = rows[n] /\ i \in 1..Len(rows[n])
<1>1. /\ rows'[c] = <<>>
      /\ \A m \in Names : m # c => rows'[m] = rows[m]
  BY ClearEffect DEF ClearStep, TypeOK, Table
<1>2. n # c
  BY <1>1
<1> QED BY <1>1, <1>2

\* The steps that set a password: the first login, and a change, which counts.
LEMMA PasswordSteps ==
    ASSUME TypeOK, [Next]_vars
    PROVE  \/ \E p \in Passwords : CreateWallet(p)
           \/ userPw' = userPw /\ pwChanges' = pwChanges /\ session' \in {session, userPw, NoPw}
           \/ pwChanges' # 0
<1> DEFINE Goal == \/ userPw' = userPw /\ pwChanges' = pwChanges /\ session' \in {session, userPw, NoPw}
                   \/ pwChanges' # 0
<1>1. ASSUME NEW p \in Passwords, Login(p) \/ ChangePassword(p) PROVE Goal
  BY <1>1 DEF Login, ChangePassword, diskVars, auxVars, TypeOK
<1>2. ASSUME NEW k \in Keys, AddAccount(k) \/ OpenImport(k) PROVE Goal
  BY <1>2 DEF AddAccount, OpenImport, OpenDialog, diskVars, memVars, auxVars
<1>3. ASSUME NEW n \in Names, DeleteAccount(n) \/ ChooseAccount(n) \/ CrashInDelete(n) PROVE Goal
  BY <1>3 DEF DeleteAccount, ChooseAccount, CrashInDelete, Restart, diskVars, auxVars
<1>4. CASE \/ OpenAdd \/ CheckName \/ Dismiss \/ ImportAccount \/ SettingsFlush \/ Crash \/ CrashInImport
           \/ \E n \in Names \cup {NoName} : TypeName(n)
           \/ UNCHANGED vars
  BY <1>4 DEF OpenAdd, OpenDialog, CheckName, Dismiss, ImportAccount, SettingsFlush, Crash, CrashInImport,
              Restart, TypeName, diskVars, memVars, auxVars, vars
<1> QED BY <1>1, <1>2, <1>3, <1>4 DEF Next

\* Until a password change there is one password.
LEMMA PasswordStep ==
    ASSUME TableInv, [Next]_vars
    PROVE  OnePassword'
<1> SUFFICES ASSUME pwChanges' = 0
             PROVE  /\ session' \in {NoPw, userPw'}
                    /\ \A n \in Names : \A i \in 1..Len(rows'[n]) : rows'[n][i].enc = userPw'
  BY DEF OnePassword
<1>1. CoreInv /\ TypeOK /\ OnePassword
  BY DEF TableInv, CoreInv
<1>2. ASSUME NEW p \in Passwords, CreateWallet(p)
      PROVE  session' = userPw' /\ \A n \in Names : Len(rows'[n]) = 0
  <2>1. session' = userPw' /\ rows' = rows /\ pwChanges = 0 /\ userPw = NoPw
    BY <1>2 DEF CreateWallet, auxVars
  <2>2. ASSUME NEW n \in Names, NEW i \in 1..Len(rows[n]) PROVE FALSE
    <3>1. rows[n] \in Seq(Rows)
      BY <1>1 DEF TypeOK
    <3>2. rows[n][i] \in Rows
      BY <3>1
    <3>3. rows[n][i].enc \in Passwords
      BY <3>2 DEF Rows
    <3> QED BY <1>1, <2>1, <3>3, KeysAssumption DEF OnePassword
  <2>3. ASSUME NEW n \in Names PROVE Len(rows[n]) = 0
    <3>1. Len(rows[n]) \in Nat
      BY <1>1 DEF TypeOK
    <3> QED BY <2>2, <3>1
  <2> QED BY <2>1, <2>3
<1>3. CASE userPw' = userPw /\ pwChanges' = pwChanges /\ session' \in {session, userPw, NoPw}
  <2>1. session' \in {NoPw, userPw'}
    BY <1>1, <1>3 DEF OnePassword
  <2>2. ASSUME NEW k \in Keys, InsertStep(k), NEW n \in Names, NEW i \in 1..Len(rows'[n])
        PROVE  rows'[n][i].enc = userPw
    <3>1. session = userPw
      BY <1>1, <1>3, <2>2, DialogSession, KeysAssumption DEF OnePassword, InsertStep
    <3>2. \/ rows'[n][i] = [key |-> k, enc |-> session]
          \/ i \in 1..Len(rows[n]) /\ rows'[n][i] = rows[n][i]
      BY <1>1, <2>2, RowsAfterInsert
    <3> QED BY <1>1, <1>3, <3>1, <3>2 DEF OnePassword
  <2>3. ASSUME NEW c \in Names, ClearStep(c), NEW n \in Names, NEW i \in 1..Len(rows'[n])
        PROVE  rows'[n][i].enc = userPw
    BY <1>1, <1>3, <2>3, RowsAfterClear DEF OnePassword
  <2>4. ASSUME rows' = rows, NEW n \in Names, NEW i \in 1..Len(rows'[n])
        PROVE  rows'[n][i].enc = userPw
    BY <1>1, <1>3, <2>4 DEF OnePassword
  <2> QED BY <1>1, <1>3, <2>1, <2>2, <2>3, <2>4, TableSteps
<1> QED BY <1>1, <1>2, <1>3, PasswordSteps

LEMMA TableStep ==
    ASSUME TableInv, [Next]_vars
    PROVE  TableInv'
<1>1. CoreInv /\ CoreInv' /\ TypeOK /\ DialogGuard
  BY CoreStep DEF TableInv, CoreInv
<1>2. /\ used \subseteq used'
      /\ dialog' = "import" =>
            /\ rows' = rows /\ session' = session
            /\ \/ (dialog = "import" /\ importKey' = importKey)
               \/ (importKey' \in Keys /\ ~KeyExists(importKey'))
  BY <1>1, ImportSteps
<1>3. /\ \A k \in Keys : Held(k) => k \in used
      /\ dialog = "import" => ~KeyExists(importKey)
      /\ RowsUnique
  BY DEF TableInv, FreshKeys
<1>4. ASSUME dialog' = "import" PROVE ~KeyExists(importKey)'
  <2>1. rows' = rows /\ session' = session
    BY <1>2, <1>4
  <2>2. ~KeyExists(importKey')
    BY <1>2, <1>3, <1>4
  <2> QED BY <2>1, <2>2 DEF KeyExists
<1>5. ASSUME NEW k \in Keys, InsertStep(k)
      PROVE  RowsUnique' /\ \A j \in Keys : Held(j)' => j \in used'
  <2> DEFINE row == [key |-> k, enc |-> session]
  <2>1. used' = used \cup {k}
    BY <1>5 DEF InsertStep
  <2>2. ASSUME NEW n \in Names, NEW i \in 1..Len(rows'[n])
        PROVE  \/ n = typed /\ i = Len(rows[n]) + 1 /\ rows'[n][i] = row
               \/ i \in 1..Len(rows[n]) /\ rows'[n][i] = rows[n][i]
    BY <1>1, <1>5, RowsAfterInsert
  <2>3. \A n \in Names : \A i \in 1..Len(rows[n]) : rows[n][i] # row
    BY <1>5, NewRow
  <2>4. RowsUnique'
    <3> SUFFICES ASSUME NEW m \in Names, NEW n \in Names,
                        NEW i \in 1..Len(rows'[m]), NEW j \in 1..Len(rows'[n]),
                        rows'[m][i] = rows'[n][j]
                 PROVE  m = n /\ i = j
      BY DEF RowsUnique
    <3> HIDE DEF row
    <3>1. \/ m = typed /\ i = Len(rows[m]) + 1 /\ rows'[m][i] = row
          \/ i \in 1..Len(rows[m]) /\ rows'[m][i] = rows[m][i]
      BY <2>2
    <3>2. \/ n = typed /\ j = Len(rows[n]) + 1 /\ rows'[n][j] = row
          \/ j \in 1..Len(rows[n]) /\ rows'[n][j] = rows[n][j]
      BY <2>2
    <3> QED BY <1>3, <2>3, <3>1, <3>2 DEF RowsUnique
  <2>5. ASSUME NEW n \in Names, NEW i \in 1..Len(rows'[n]), NEW j \in Keys, rows'[n][i].key = j
        PROVE  j \in used'
    BY <1>3, <2>1, <2>2, <2>5 DEF Held, HeldBy
  <2> QED BY <2>4, <2>5 DEF Held, HeldBy
<1>6. ASSUME NEW c \in Names, ClearStep(c)
      PROVE  RowsUnique' /\ \A j \in Keys : Held(j)' => j \in used'
  <2>1. \A n \in Names : \A i \in 1..Len(rows'[n]) : rows'[n] = rows[n] /\ i \in 1..Len(rows[n])
    BY <1>1, <1>6, RowsAfterClear
  <2>2. RowsUnique'
    BY <1>3, <2>1 DEF RowsUnique
  <2>3. \A j \in Keys : Held(j)' => j \in used'
    BY <1>2, <1>3, <2>1 DEF Held, HeldBy
  <2> QED BY <2>2, <2>3
<1>7. ASSUME rows' = rows
      PROVE  RowsUnique' /\ \A j \in Keys : Held(j)' => j \in used'
  <2>1. RowsUnique'
    BY <1>3, <1>7 DEF RowsUnique
  <2>2. \A j \in Keys : Held(j)' => j \in used'
    BY <1>2, <1>3, <1>7 DEF Held, HeldBy
  <2> QED BY <2>1, <2>2
<1>8. RowsUnique' /\ \A j \in Keys : Held(j)' => j \in used'
  BY <1>1, <1>5, <1>6, <1>7, TableSteps
<1>9. FreshKeys'
  BY <1>4, <1>8 DEF FreshKeys
<1>10. OnePassword'
  BY PasswordStep
<1> QED BY <1>1, <1>8, <1>9, <1>10 DEF TableInv

\* TableInv holds in every behaviour.
THEOREM TableInvariance == Spec => []TableInv
<1>1. Init => TableInv
  <2> SUFFICES ASSUME Init PROVE TableInv
    OBVIOUS
  <2>1. \A n \in Names : Len(rows[n]) = 0
    BY DEF Init
  <2>2. RowsUnique /\ OnePassword /\ dialog = "none" /\ \A k \in Keys : ~Held(k)
    BY <2>1 DEF Init, RowsUnique, OnePassword, Held, HeldBy
  <2> QED BY <2>2, InitCore DEF TableInv, FreshKeys
<1>2. TableInv /\ [Next]_vars => TableInv'
  BY TableStep
<1> QED BY <1>1, <1>2, PTL DEF Spec

\* KeyInv holds in every behaviour.
THEOREM KeyInvariance == Spec => []KeyInv
<1>1. TableInv /\ NameInv => KeyInv
  BY DEF KeyInv
<1> QED BY <1>1, NameInvariance, TableInvariance, PTL

(***************************************************************************)
(* Until the first password change no key is in the table twice, however   *)
(* names are confirmed, statements fail and the program crashes: the       *)
(* second import that KeysUnique forbids needs a change of the password.   *)
(***************************************************************************)
THEOREM KeysUniqueAtFirst == Spec => [](pwChanges = 0 => KeysUnique)
<1>1. TableInv => (pwChanges = 0 => KeysUnique)
  <2> SUFFICES ASSUME TableInv, pwChanges = 0,
                      NEW m \in Names, NEW n \in Names,
                      NEW i \in 1..Len(rows[m]), NEW j \in 1..Len(rows[n]),
                      rows[m][i].key = rows[n][j].key
               PROVE  m = n /\ i = j
    BY DEF KeysUnique
  <2>1. rows[m] \in Seq(Rows) /\ rows[n] \in Seq(Rows) /\ RowsUnique /\ OnePassword
    BY DEF TableInv, CoreInv, TypeOK
  <2>2. rows[m][i] \in Rows /\ rows[n][j] \in Rows
    BY <2>1
  <2>3. rows[m][i].enc = rows[n][j].enc
    BY <2>1 DEF OnePassword
  <2>4. rows[m][i] = rows[n][j]
    BY <2>2, <2>3 DEF Rows
  <2> QED BY <2>1, <2>4 DEF RowsUnique
<1> QED BY <1>1, TableInvariance, PTL

(***************************************************************************)
(* No key is in the table twice under one password, in any behaviour.      *)
(***************************************************************************)
THEOREM CiphertextsUnique == Spec => []RowsUnique
<1>1. TableInv => RowsUnique
  BY DEF TableInv
<1> QED BY <1>1, TableInvariance, PTL

--------------------------------------------------------------------------------
\* Every variable has its type.
THEOREM TypeCorrect == Spec => []TypeOK
<1>1. CoreInv => TypeOK
  BY DEF CoreInv
<1> QED BY <1>1, CoreInvariance, PTL

\* The account list agrees with the table whatever fails.
THEOREM MapStaysTable == Spec => []MapIsTable
<1>1. CoreInv => MapIsTable
  BY DEF CoreInv
<1> QED BY <1>1, CoreInvariance, PTL

\* There is a current account whenever there is an account, but for mishaps.
THEOREM CurrentStaysKnown == Spec => []CurrentKnown
<1>1. CoreInv => CurrentKnown
  BY DEF CoreInv
<1> QED BY <1>1, CoreInvariance, PTL

\* There are never more accounts than the limit, but for mishaps and for
\* names confirmed by Escape, or after an edit.
THEOREM LimitKept == Spec => []AtMostMax
<1>1. CoreInv => AtMostMax
  BY DEF CoreInv
<1> QED BY <1>1, CoreInvariance, PTL

\* A name that was confirmed as checked has one row, whatever was deleted or
\* failed, and whatever was entered by Escape or after an edit under others.
THEOREM NamesStayUnique == Spec => []NamesUnique
<1>1. NameInv => NamesUnique
  BY DEF NameInv
<1> QED BY <1>1, NameInvariance, PTL

\* A name with unique rows has one row: its first row is its last.
LEMMA OneRow ==
    ASSUME NameInv, NEW n \in Names \ unchecked, rows[n] # <<>>
    PROVE  Len(rows[n]) = 1 /\ LastOf(rows[n]) = rows[n][1] /\ Head(rows[n]) = rows[n][1]
<1>1. rows[n] \in Seq(Rows)
  BY DEF NameInv, CoreInv, TypeOK
<1>2. Len(rows[n]) <= 1
  BY DEF NameInv, NamesUnique
<1>3. Len(rows[n]) = 1
  <2>1. Len(rows[n]) \in Nat \ {0}
    BY <1>1, EmptySeq, Zenon
  <2>2. \A x \in Nat \ {0} : x <= 1 => x = 1
    OBVIOUS
  <2> QED BY <1>2, <2>1, <2>2, Zenon
<1>4. LastOf(rows[n]) = rows[n][1]
  BY <1>3 DEF LastOf
<1>5. Head(rows[n]) = rows[n][1]
  BY <1>1
<1> QED BY <1>3, <1>4, <1>5

\* The key that signs for a name is the key of the address shown for it, but
\* for names confirmed by Escape or after an edit.
THEOREM SignsRight == Spec => []SignsWithOwnKey
<1>1. NameInv => SignsWithOwnKey
  <2> SUFFICES ASSUME NameInv, NEW n \in DOMAIN accounts \ unchecked
               PROVE  QueryPrivateKey(n) \in {accounts[n], Unreadable}
    BY DEF SignsWithOwnKey
  <2>1. n \in Names \ unchecked /\ rows[n] # <<>> /\ accounts[n] = LastOf(rows[n]).key
    BY DEF NameInv, CoreInv, MapIsTable, TypeOK
  <2>2. Head(rows[n]).key = accounts[n]
    BY <2>1, OneRow
  <2> QED BY <2>2 DEF QueryPrivateKey
<1> QED BY <1>1, NameInvariance, PTL

\* A key is refused as existing only if an account with it is shown, or a
\* name confirmed by Escape or after an edit hides it.
THEOREM RefusedStaysShown == Spec => []RefusedIsShown
<1>1. NameInv => RefusedIsShown
  <2> SUFFICES ASSUME NameInv, ~mishap, NEW k \in Keys, NEW n \in Names, NEW i \in 1..Len(rows[n]),
                      rows[n][i] = [key |-> k, enc |-> session]
               PROVE  \/ \E m \in DOMAIN accounts : accounts[m] = k
                      \/ \E m \in unchecked : HeldBy(k, m)
    BY DEF RefusedIsShown, KeyExists
  <2>1. CASE n \in unchecked
    BY <2>1 DEF HeldBy
  <2>2. CASE n \notin unchecked
    <3>1. rows[n] # <<>>
      <4>1. rows[n] = <<>> => Len(rows[n]) = 0
        OBVIOUS
      <4> QED BY <4>1
    <3>2. n \in DOMAIN accounts /\ accounts[n] = LastOf(rows[n]).key
      BY <3>1 DEF NameInv, CoreInv, MapIsTable, Stored
    <3>3. i = 1 /\ LastOf(rows[n]) = rows[n][1]
      BY <2>2, <3>1, OneRow
    <3> QED BY <3>2, <3>3
  <2> QED BY <2>1, <2>2
<1> QED BY <1>1, NameInvariance, PTL

--------------------------------------------------------------------------------
(***************************************************************************)
(* A key leaves the table only with a record: the record is that of the    *)
(* first row, and under a name confirmed as checked there is no other row  *)
(* that is deleted with it.                                                *)
(***************************************************************************)
LEMMA LeavesStep ==
    ASSUME NameInv, [Next]_vars, NEW n \in Names \ unchecked, NEW k \in Keys,
           HeldBy(k, n), ~HeldBy(k, n)'
    PROVE  mishap' \/ [name |-> n, key |-> k] \in abandoned'
<1>1. TypeOK
  BY DEF NameInv, CoreInv
<1>2. PICK i \in 1..Len(rows[n]) : rows[n][i].key = k
  BY DEF HeldBy
<1>3. rows[n] # <<>>
  <2>1. rows[n] = <<>> => Len(rows[n]) = 0
    OBVIOUS
  <2> QED BY <1>2, <2>1
<1>4. rows'[n] # rows[n]
  BY <1>2 DEF HeldBy
<1>5. ASSUME NEW j \in Keys, InsertStep(j) PROVE FALSE
  <2>1. n = typed /\ rows \in Table /\ session \in Passwords
    BY <1>4, <1>5, FreshRow
  <2> DEFINE row == [key |-> j, enc |-> session]
  <2>2. rows'[n] = Append(rows[n], row) /\ rows[n] \in Seq(Rows) /\ row \in Rows
    BY <1>5, <2>1, InsertEffect DEF InsertStep, Insert, Table, Rows
  <2> HIDE DEF row
  <2>3. i \in 1..Len(rows'[n]) /\ rows'[n][i] = rows[n][i]
    BY <1>2, <2>2, AppendProperties, LenProperties
  <2> QED BY <1>2, <2>3 DEF HeldBy
<1>6. ASSUME NEW c \in Names, ClearStep(c)
      PROVE  mishap' \/ [name |-> n, key |-> k] \in abandoned'
  <2>1. \A x \in Names : x # c => rows'[x] = rows[x]
    BY <1>1, <1>6, ClearEffect DEF ClearStep, TypeOK, Table
  <2>2. c = n
    BY <1>4, <2>1
  <2>3. Head(rows[n]).key = k
    BY <1>2, <1>3, OneRow
  <2> QED BY <1>6, <2>2, <2>3 DEF ClearStep, Recorded
<1>7. CASE rows' = rows
  BY <1>4, <1>7
<1> QED BY <1>1, <1>5, <1>6, <1>7, TableSteps

\* Deleting an account never loses a key without a record, but for mishaps
\* and names confirmed by Escape or after an edit.
THEOREM LeavesWithRecord == Spec => KeyLeavesWithRecord
<1>1. NameInv /\ [Next]_vars =>
        [\A n \in Names \ unchecked : \A k \in Keys : HeldBy(k, n) /\ ~HeldBy(k, n)' =>
            mishap' \/ [name |-> n, key |-> k] \in abandoned']_vars
  BY LeavesStep
<1> QED BY <1>1, NameInvariance, PTL DEF Spec, KeyLeavesWithRecord

--------------------------------------------------------------------------------
(***************************************************************************)
(* The accounts with checked names implement the book: an insert enters    *)
(* the checked name and removes an unchecked one, clearing removes.        *)
(***************************************************************************)
THEOREM Refinement == Spec => ImplementsBook
<1> DEFINE Listed == Stored(rows) \ unchecked
<1>1. Init => Book!Init
  <2> SUFFICES ASSUME Init PROVE Book!Init
    OBVIOUS
  <2>1. Listed = {}
    BY DEF Init, Stored
  <2>2. BookOf(Listed) \in [{} -> Rows]
    BY <2>1 DEF BookOf
  <2> QED BY <2>2 DEF Book!Init
<1>2. KeyInv /\ [Next]_vars => [Book!Next]_(BookOf(Listed))
  <2> SUFFICES ASSUME KeyInv, [Next]_vars, ~UNCHANGED BookOf(Listed) PROVE Book!Next
    OBVIOUS
  <2>1. NameInv /\ TypeOK /\ rows \in Table
    BY DEF KeyInv, NameInv, CoreInv, TypeOK, Table
  <2>2. DOMAIN BookOf(Listed) = Listed
    BY DEF BookOf
  <2>a. ASSUME NEW n \in Names, Listed' = Listed \ {n}, \A m \in Names : m # n => rows'[m] = rows[m]
        PROVE  Book!Next
    <3>1. BookOf(Listed)' = [m \in Listed \ {n} |-> BookOf(Listed)[m]]
      BY <2>a DEF BookOf, Stored
    <3>2. n \in Listed
      BY <2>2, <2>a, <3>1 DEF BookOf, Stored
    <3>3. Book!Remove(n)
      BY <2>2, <3>1, <3>2 DEF Book!Remove
    <3> QED BY <3>3 DEF Book!Next
  <2>3. ASSUME NEW k \in Keys, InsertStep(k) PROVE Book!Next
    <3> DEFINE row == [key |-> k, enc |-> session]
    <3>1. /\ typed \in Names /\ row \in Rows
          /\ \A m \in Names : m # typed => rows'[m] = rows[m]
          /\ Stored(rows') = Stored(rows) \cup {typed}
      BY <2>1, <2>3, FreshRow DEF InsertStep, Rows
    <3>2. CASE unchecked' = unchecked \cup {typed}
      <4>1. Listed' = Listed \ {typed}
        BY <3>1, <3>2
      <4> QED BY <2>a, <3>1, <4>1
    <3>3. CASE /\ unchecked' = unchecked /\ typed \notin unchecked
               /\ rows[typed] = <<>> /\ rows'[typed] = <<row>>
      <4>1. typed \notin Listed /\ Listed' = Listed \cup {typed}
        BY <3>1, <3>3 DEF Stored
      <4>2. \A m \in Listed : BookOf(Listed)[m] # row
        <5> SUFFICES ASSUME NEW m \in Listed, LastOf(rows[m]) = row PROVE FALSE
          BY DEF BookOf
        <5>1. m \in Names /\ Len(rows[m]) = 1 /\ LastOf(rows[m]) = rows[m][1]
          BY <2>1, OneRow DEF Stored
        <5>2. 1 \in 1..Len(rows[m])
          BY <5>1
        <5> QED BY <2>3, <5>1, <5>2, NewRow DEF KeyInv
      <4>3. LastOf(rows'[typed]) = row
        BY <3>3 DEF LastOf
      <4>4. \A m \in Listed : m # typed /\ rows'[m] = rows[m]
        BY <3>1, <4>1 DEF Stored
      <4> HIDE DEF row
      <4>5. BookOf(Listed)' = [m \in Listed \cup {typed} |-> IF m = typed THEN row ELSE BookOf(Listed)[m]]
        BY <4>1, <4>3, <4>4 DEF BookOf
      <4>6. Book!Enter(typed, row)
        BY <2>2, <4>1, <4>2, <4>5 DEF Book!Enter
      <4> QED BY <3>1, <4>6 DEF Book!Next
    <3> QED BY <2>1, <2>3, <3>2, <3>3, FreshRow
  <2>4. ASSUME NEW n \in Names, ClearStep(n) PROVE Book!Next
    <3>1. /\ Stored(rows') = Stored(rows) \ {n} /\ unchecked' = unchecked \ {n}
          /\ \A m \in Names : m # n => rows'[m] = rows[m]
      BY <2>1, <2>4, ClearEffect DEF ClearStep
    <3>2. Listed' = Listed \ {n}
      BY <3>1
    <3> QED BY <2>a, <3>1, <3>2
  <2>5. CASE rows' = rows /\ unchecked' = unchecked
    BY <2>5 DEF BookOf, Stored
  <2> QED BY <2>1, <2>3, <2>4, <2>5, TableSteps
<1> QED BY <1>1, <1>2, KeyInvariance, PTL DEF Spec, ImplementsBook, Book!Spec
================================================================================
