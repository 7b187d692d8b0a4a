------------------------------- MODULE KeyStore -------------------------------
(***************************************************************************)
(* Accounts and their keys: the tables user, account and abandon_account   *)
(* of DataBase (database.cpp), DataMgr's map of accounts and its current   *)
(* account (datamgr.cpp), and the dialogs that change them: first login,   *)
(* login, password change, adding, importing and deleting an account.      *)
(*                                                                         *)
(* The tables and the settings file survive a crash, the rest does not.    *)
(* QSettings writes the file later than setValue, so a crash may lose the  *)
(* latest currentAccount; and deleting or importing an account takes two   *)
(* SQL statements without a transaction, which a crash may separate.       *)
(*                                                                         *)
(* An operator called XMut is a slip a programmer could make in X.  No     *)
(* specification uses it; it replaces X to show that a property can fail.  *)
(***************************************************************************)
EXTENDS Integers, Sequences, FiniteSets

CONSTANTS
    Names,            \* account names
    Keys,             \* private keys; a key also stands for its address
    Passwords,        \* passwords, by their SHA-512 as the program keeps it
    NoName, NoPw,     \* the empty name; no password yet
    Unreadable,       \* what a row encrypted under another password yields
    DbFaults,         \* SQL statements that may fail: insert, delete, abandon
    NameSlips,        \* what the user may do in the name dialog: "edit" the
                      \* name after Check, leave it with "escape"
    MaxAccounts,      \* ACHAIN_ACCOUNT_MAX
    MaxRows,          \* bound on the rows with one name
    MaxPwChanges      \* bound on password changes

ASSUME NamesAssumption == IsFiniteSet(Names) /\ NoName \notin Names
ASSUME KeysAssumption == NoPw \notin Passwords /\ Unreadable \notin Keys
ASSUME BoundsAssumption ==
    MaxAccounts \in Nat /\ MaxRows \in Nat /\ MaxPwChanges \in Nat

VARIABLES
    userPw,      \* table user: the password, NoPw before the first login
    rows,        \* table account: for each name its rows in rowid order
    abandoned,   \* table abandon_account: set of [name, key]
    saved,       \* currentAccount in the settings file
    session,     \* DataBase::passwordSha512, NoPw until a password is checked
    accounts,    \* DataMgr::_account_info_map, name -> key
    current,     \* DataMgr::_current_account
    dialog,      \* a NameDialog is open for "add" or "import", or "none"
    typed,       \* the text of its name field
    checked,     \* the name for which Check enabled its Ok button, NoName
                 \* while Ok is disabled
    importKey,   \* the key ImportDialog is importing
    pwChanges,   \* password changes so far
    used,        \* auxiliary: keys that have been in the wallet
    mishap,      \* auxiliary: a crash lost data, or an SQL statement failed
    unchecked    \* auxiliary: names with a row entered without the leave of
                 \* the dialog's checks

diskVars   == <<userPw, rows, abandoned, saved>>
memVars    == <<session, accounts, current>>
dialogVars == <<dialog, typed, checked, importKey>>
auxVars    == <<pwChanges, used, mishap, unchecked>>
vars       == <<diskVars, memVars, dialogVars, auxVars>>

Rows == [key : Keys, enc : Passwords]
Records == [name : Names, key : Keys]

LastOf(s) == s[Len(s)]
Stored(r) == {n \in Names : r[n] # <<>>}

\* queryAllAccount read into the map: of rows with one name the last counts.
MapOf(r) == [n \in Stored(r) |-> LastOf(r[n]).key]

\* keys().at(0), or "" when there is no account; names are not ordered here,
\* so that any of them can be the first.
FirstKeyMut(m) == IF DOMAIN m = {} THEN {NoName} ELSE {m[n] : n \in DOMAIN m}
FirstKey(m) == IF DOMAIN m = {} THEN {NoName} ELSE DOMAIN m

\* What walletListAccounts leaves as the current account.
CurrentAfterListing(c, m) == IF c = NoName THEN FirstKey(m) ELSE {c}

\* queryPrivateKey: the first row of that name, decrypted with the session.
QueryPrivateKey(n) ==
    IF Head(rows[n]).enc = session THEN Head(rows[n]).key ELSE Unreadable

\* walletCheckNameExists is false.
NameFreeMut(n) == n \notin DOMAIN accounts
NameFree(n) == rows[n] = <<>>

\* walletCheckPriKeyExists: some row holds the key as encrypted now.
KeyExistsMut(k) == \E r \in abandoned : r.key = k
KeyExists(k) ==
    \E n \in Names : \E i \in 1..Len(rows[n]) : rows[n][i] = [key |-> k, enc |-> session]

\* walletGetFormerNameByPriKey
FormerNames(k) ==
    IF \E r \in abandoned : r.key = k
    THEN {r.name : r \in {s \in abandoned : s.key = k}} ELSE {NoName}

--------------------------------------------------------------------------------
(***************************************************************************)
(* The first start: no user, no account.                                   *)
(***************************************************************************)
Init ==
    /\ userPw = NoPw /\ rows = [n \in Names |-> <<>>] /\ abandoned = {} /\ saved = NoName
    /\ session = NoPw /\ accounts = MapOf(rows) /\ current = NoName
    /\ dialog = "none" /\ typed = NoName /\ checked = NoName /\ importKey = Unreadable
    /\ pwChanges = 0 /\ used = {} /\ mishap = FALSE /\ unchecked = {}

LoggedIn == session # NoPw
Idle == LoggedIn /\ dialog = "none"

\* FirstLogin::on_createBtn_clicked: save the password, then unlock with it.
CreateWallet(p) ==
    /\ ~LoggedIn /\ userPw = NoPw
    /\ userPw' = p /\ session' = p
    /\ UNCHANGED <<rows, abandoned, saved, accounts, current, dialogVars, auxVars>>

\* DataBase::checkPassword on a login with password p.
Login(p) ==
    /\ ~LoggedIn /\ userPw = p
    /\ session' = p
    /\ UNCHANGED <<diskVars, accounts, current, dialogVars, auxVars>>

\* DataBase::updatePassword; the rows stay encrypted as they are.
UpdatePassword(p) ==
    userPw' = p /\ session' = p

\* SetDialog::on_confirmBtn_clicked, with the right old password.
ChangePassword(p) ==
    /\ Idle /\ pwChanges < MaxPwChanges
    /\ pwChanges' = pwChanges + 1
    /\ UpdatePassword(p)
    /\ UNCHANGED <<rows, abandoned, saved, accounts, current, dialogVars, used, mishap, unchecked>>

--------------------------------------------------------------------------------
(***************************************************************************)
(* The name dialog.                                                        *)
(***************************************************************************)
OpenDialog(kind, name, k) ==
    /\ dialog' = kind /\ typed' = name /\ checked' = NoName /\ importKey' = k
    /\ UNCHANGED <<diskVars, memVars, auxVars>>

CloseDialog ==
    dialog' = "none" /\ typed' = NoName /\ checked' = NoName /\ importKey' = Unreadable

\* AccountPage::addAccount
OpenAdd == Idle /\ OpenDialog("add", NoName, Unreadable)

\* ImportDialog::on_importBtn_clicked up to NameDialog::pop.  Only a key the
\* table holds under the present password is refused.
OpenImport(k) ==
    /\ Idle /\ ~KeyExists(k)
    /\ \E name \in FormerNames(k) : OpenDialog("import", name, k)

okEnabled == checked # NoName

\* Typing; on_nameLineEdit_textChanged does nothing.
TypeName(name) ==
    /\ dialog # "none" /\ (okEnabled => "edit" \in NameSlips)
    /\ typed' = name
    /\ UNCHANGED <<diskVars, memVars, dialog, checked, importKey, auxVars>>

\* NameDialog::on_checkBtn_clicked
CheckName ==
    /\ dialog # "none"
    /\ checked' = IF typed # NoName /\ NameFree(typed) THEN typed ELSE NoName
    /\ UNCHANGED <<diskVars, memVars, dialog, typed, importKey, auxVars>>

\* The test of NameDialog::on_okBtn_clicked.
RoomForMore == Cardinality(DOMAIN accounts) < MaxAccounts

\* Cancel, or Ok when there are too many accounts, or no name in the field.
Dismiss ==
    /\ dialog # "none"
    /\ CloseDialog
    /\ UNCHANGED <<diskVars, memVars, auxVars>>

(***************************************************************************)
(* NameDialog::pop returns the text unless Cancel or the limit set yesOrNO *)
(* to false.  It starts true: Escape, which closes the dialog without a    *)
(* slot of it, returns the text as it is, checked or not.                  *)
(***************************************************************************)
Confirmed(kind) ==
    /\ dialog = kind /\ typed # NoName
    /\ (okEnabled /\ RoomForMore) \/ "escape" \in NameSlips
    /\ Len(rows[typed]) < MaxRows

\* What is confirmed is what Check found free, with room for it.
Approved == checked = typed /\ RoomForMore

Inserted(n, k) == [rows EXCEPT ![n] = Append(@, [key |-> k, enc |-> session])]

\* DataBase::insertAccount for the name confirmed.
Insert(k) ==
    /\ rows' = Inserted(typed, k)
    /\ unchecked' = IF Approved THEN unchecked ELSE unchecked \cup {typed}

\* DataMgr::walletListAccounts on the table as it is now.
ListAccounts(r) == accounts' = MapOf(r) /\ current' \in CurrentAfterListing(current, MapOf(r))

--------------------------------------------------------------------------------
(***************************************************************************)
(* Adding and importing.                                                   *)
(***************************************************************************)
\* DataMgr::walletAccountCreate with a freshly generated key.
AddAccount(k) ==
    /\ Confirmed("add") /\ k \notin used
    /\ used' = used \cup {k}
    /\ \/ Insert(k) /\ ListAccounts(rows')
       \/ "insert" \in DbFaults /\ UNCHANGED <<rows, accounts, current, unchecked>>
    /\ CloseDialog
    /\ UNCHANGED <<userPw, abandoned, saved, session, pwChanges, mishap>>

\* DataMgr::walletImportPrivateKey; the records of the name are deleted even
\* when the insert failed.
ImportAccountMut ==         \* walletListAccounts is forgotten
    /\ Confirmed("import")
    /\ used' = used \cup {importKey}
    /\ Insert(importKey) /\ UNCHANGED <<accounts, current>>
    /\ abandoned' = {r \in abandoned : r.name # typed}
    /\ CloseDialog
    /\ UNCHANGED <<userPw, saved, session, pwChanges, mishap>>
ImportAccount ==
    /\ Confirmed("import")
    /\ used' = used \cup {importKey}
    /\ \/ Insert(importKey) /\ ListAccounts(rows')
       \/ "insert" \in DbFaults /\ UNCHANGED <<rows, accounts, current, unchecked>>
    /\ abandoned' = {r \in abandoned : r.name # typed}
    /\ CloseDialog
    /\ UNCHANGED <<userPw, saved, session, pwChanges, mishap>>

--------------------------------------------------------------------------------
(***************************************************************************)
(* Deleting: the name leaves the map, its rows leave the table, a record   *)
(* of the first of them enters abandon_account.                            *)
(***************************************************************************)
Without(m, n) == [x \in DOMAIN m \ {n} |-> m[x]]

AccountsAfterDeleteMut(n, fault) ==     \* the map changes only if all went well
    IF fault = "none" THEN Without(accounts, n) ELSE accounts
AccountsAfterDelete(n, fault) == Without(accounts, n)

CurrentAfterDeleteMut(n, m) == {current}
CurrentAfterDelete(n, m) == IF current = n THEN FirstKey(m) ELSE {current}

\* The insert into abandon_account.
RecordedMut(n) ==           \* the row of the current account is read
    [name |-> n, key |-> accounts[IF current \in DOMAIN accounts THEN current ELSE n]]
Recorded(n) == [name |-> n, key |-> Head(rows[n]).key]

\* "delete from account where name = ...": all rows of the name.
Clear(n) == rows' = [rows EXCEPT ![n] = <<>>] /\ unchecked' = unchecked \ {n}

\* DataMgr::walletAccountDelete
DeleteAccount(n) ==
    /\ Idle /\ n \in DOMAIN accounts
    /\ \E fault \in (DbFaults \cap {"delete", "abandon"}) \cup {"none"} :
          /\ accounts' = AccountsAfterDelete(n, fault)
          /\ IF fault = "delete" THEN UNCHANGED <<rows, unchecked>> ELSE Clear(n)
          /\ abandoned' = IF fault = "none" THEN abandoned \cup {Recorded(n)} ELSE abandoned
          /\ current' \in IF fault = "none" THEN CurrentAfterDelete(n, accounts') ELSE {current}
          /\ mishap' = (mishap \/ fault # "none")
    /\ UNCHANGED <<userPw, saved, session, dialogVars, pwChanges, used>>

\* The account combo boxes of the bill page and of the transfer page.
ChooseAccount(n) ==
    /\ Idle /\ n \in DOMAIN accounts
    /\ current' = n
    /\ UNCHANGED <<diskVars, session, accounts, dialogVars, auxVars>>

--------------------------------------------------------------------------------
(***************************************************************************)
(* Settings, crashes and restarts.                                         *)
(***************************************************************************)
\* QSettings writes the file, on a timer of its own or on a clean exit.
SettingsFlush ==
    /\ saved' = current
    /\ UNCHANGED <<userPw, rows, abandoned, memVars, dialogVars, auxVars>>

\* The program dies and is started again: main() reads the settings and the
\* table as it is by then.
Restart ==
    /\ session' = NoPw
    /\ accounts' = MapOf(rows')
    /\ current' \in CurrentAfterListing(saved, MapOf(rows'))
    /\ CloseDialog
    /\ UNCHANGED <<userPw, saved, pwChanges>>

Crash ==
    /\ UNCHANGED <<rows, unchecked, abandoned, used>>
    /\ Restart
    /\ mishap' = (mishap \/ saved # current)

\* A crash between the two statements of abandonAccount(n).
CrashInDelete(n) ==
    /\ Idle /\ n \in DOMAIN accounts
    /\ Clear(n)
    /\ Restart
    /\ mishap' = TRUE
    /\ UNCHANGED <<abandoned, used>>

\* A crash after the insert of an import, its old record still there.
CrashInImport ==
    /\ Confirmed("import")
    /\ used' = used \cup {importKey}
    /\ Insert(importKey)
    /\ Restart
    /\ mishap' = (mishap \/ saved # current)
    /\ UNCHANGED abandoned

--------------------------------------------------------------------------------
Next ==
    \/ \E p \in Passwords : CreateWallet(p) \/ Login(p) \/ ChangePassword(p)
    \/ OpenAdd \/ CheckName \/ Dismiss \/ ImportAccount
    \/ \E k \in Keys : OpenImport(k) \/ AddAccount(k)
    \/ \E n \in Names \cup {NoName} : TypeName(n)
    \/ \E n \in Names : DeleteAccount(n) \/ ChooseAccount(n) \/ CrashInDelete(n)
    \/ SettingsFlush \/ Crash \/ CrashInImport

Spec == Init /\ [][Next]_vars

--------------------------------------------------------------------------------
\* Every variable has its type: tables, map and dialog hold what they should.
TypeOK ==
    /\ userPw \in Passwords \cup {NoPw} /\ session \in Passwords \cup {NoPw}
    /\ rows \in [Names -> Seq(Rows)] /\ abandoned \subseteq Records
    /\ DOMAIN accounts \subseteq Names /\ accounts \in [DOMAIN accounts -> Keys]
    /\ current \in Names \cup {NoName} /\ saved \in Names \cup {NoName}
    /\ dialog \in {"none", "add", "import"} /\ typed \in Names \cup {NoName}
    /\ checked \in Names \cup {NoName} /\ importKey \in Keys \cup {Unreadable}
    /\ (dialog = "import" <=> importKey # Unreadable)
    /\ pwChanges \in Nat /\ used \subseteq Keys /\ mishap \in BOOLEAN
    /\ unchecked \subseteq Names

(***************************************************************************)
(* No two rows have one name, unless it was confirmed without the leave of *)
(* the dialog's checks, by Escape or after an edit: deleting, exporting    *)
(* and signing by name mean one account, whatever was deleted, whatever    *)
(* failed, and whatever slips there were with other names.                 *)
(***************************************************************************)
NamesUnique == \A n \in Names : Len(rows[n]) <= 1 \/ n \in unchecked

\* No two rows have one name: what NameDialog says it refuses.
NoNameTwice == \A n \in Names : Len(rows[n]) <= 1

(***************************************************************************)
(* No key is in the table twice, under one name or two.                    *)
(***************************************************************************)
KeysUnique ==
    \A m, n \in Names : \A i \in 1..Len(rows[m]), j \in 1..Len(rows[n]) :
        rows[m][i].key = rows[n][j].key => m = n /\ i = j

(***************************************************************************)
(* A transaction whose inputs are taken from the address shown for a name  *)
(* is signed with the key of that address, or with none: walletTransfer... *)
(* takes the address from the map and the key from the table.  Only under  *)
(* a name confirmed unchecked can the two be different accounts.           *)
(***************************************************************************)
SignsWithOwnKey ==
    \A n \in DOMAIN accounts \ unchecked : QueryPrivateKey(n) \in {accounts[n], Unreadable}

(***************************************************************************)
(* What the account list shows is in the table, with that key, whatever    *)
(* statement failed; nothing of the table is missing but through a mishap. *)
(***************************************************************************)
MapIsTable ==
    /\ \A n \in DOMAIN accounts : rows[n] # <<>> /\ accounts[n] = LastOf(rows[n]).key
    /\ ~mishap => DOMAIN accounts = Stored(rows)

(***************************************************************************)
(* A key whose import is refused as existing belongs to an account the     *)
(* user sees, unless an SQL statement failed or the key is one of several  *)
(* under a name confirmed unchecked.                                       *)
(***************************************************************************)
HeldBy(k, n) == \E i \in 1..Len(rows[n]) : rows[n][i].key = k
Held(k) == \E n \in Names : HeldBy(k, n)

RefusedIsShown ==
    ~mishap => \A k \in Keys : KeyExists(k) =>
        \/ \E n \in DOMAIN accounts : accounts[n] = k
        \/ \E n \in unchecked : HeldBy(k, n)

(***************************************************************************)
(* An account is current whenever there is one, also after deletions and   *)
(* restarts, unless a crash came before the settings file was written.     *)
(***************************************************************************)
CurrentKnown ==
    ~mishap => IF DOMAIN accounts = {} THEN current = NoName ELSE current \in DOMAIN accounts

(***************************************************************************)
(* A key leaves the account table only together with a record of its name  *)
(* and address that lets the user find it again by importing it, but for   *)
(* mishaps and the keys of a name confirmed unchecked.                     *)
(***************************************************************************)
KeyLeavesWithRecord ==
    [][\A n \in Names \ unchecked : \A k \in Keys : HeldBy(k, n) /\ ~HeldBy(k, n)' =>
          mishap' \/ [name |-> n, key |-> k] \in abandoned']_vars

(***************************************************************************)
(* The limit of NameDialog::on_okBtn_clicked binds the accounts whose      *)
(* names were confirmed as checked; those of Escape come on top.           *)
(***************************************************************************)
AtMostMax == ~mishap => Cardinality(DOMAIN accounts \ unchecked) <= MaxAccounts

(***************************************************************************)
(* The inductive invariants: what the properties above rest on.            *)
(***************************************************************************)
\* A dialog is open only after a login; Ok is disabled in a closed one.
DialogGuard == (dialog # "none" => LoggedIn) /\ (dialog = "none" => checked = NoName)

\* The name for which Ok is enabled is free; an unchecked name is not.
CheckedFree == checked # NoName => rows[checked] = <<>>
UncheckedStored == unchecked \subseteq Stored(rows)

\* No row is in the table twice: no key under the same password.
RowsUnique ==
    \A m, n \in Names : \A i \in 1..Len(rows[m]), j \in 1..Len(rows[n]) :
        rows[m][i] = rows[n][j] => m = n /\ i = j

\* Every key in the table was registered as used, and the key being imported
\* is not in the table under the present password.
FreshKeys ==
    /\ \A k \in Keys : Held(k) => k \in used
    /\ dialog = "import" => ~KeyExists(importKey)

\* Until the password is changed there is one: rows and session agree with it.
OnePassword ==
    pwChanges = 0 =>
        /\ session \in {NoPw, userPw}
        /\ \A n \in Names : \A i \in 1..Len(rows[n]) : rows[n][i].enc = userPw

CoreInv == TypeOK /\ DialogGuard /\ MapIsTable /\ CurrentKnown /\ AtMostMax
TableInv == CoreInv /\ RowsUnique /\ FreshKeys /\ OnePassword
NameInv == CoreInv /\ NamesUnique /\ CheckedFree /\ UncheckedStored
KeyInv == NameInv /\ TableInv

(***************************************************************************)
(* The accounts whose names were confirmed as checked implement the book:  *)
(* no name is entered twice, no key is entered twice under one password,   *)
(* and no entry is ever altered.  A name leaves the book when a second row *)
(* is entered under it unchecked.                                          *)
(***************************************************************************)
BookOf(S) == [n \in S |-> LastOf(rows[n])]

Book == INSTANCE WalletBook WITH Entries <- Rows, book <- BookOf(Stored(rows) \ unchecked)

ImplementsBook == Book!Spec
================================================================================
