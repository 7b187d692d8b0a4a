------------------------------- MODULE LockTimer -------------------------------
(***************************************************************************)
(* The lock page and the timer that shows it (frame.cpp, setdialog.cpp,    *)
(* lockpage.cpp).  The timer is started at login, when the wallet is       *)
(* unlocked and when the settings are saved, and again at every key or     *)
(* mouse press anywhere in the program; it is stopped when it has fired.   *)
(*                                                                         *)
(* A dialog runs an event loop of its own: the timer may fire while it is  *)
(* open.  The dialog of the settings is a child of the frame, over all of  *)
(* it and under the lock page that comes later, and keeps no one from      *)
(* unlocking; the report of a transfer is a window of its own, modal, and  *)
(* can be confirmed in front of the lock page.  Saved settings, and a      *)
(* transfer that was reported, show the current page anew, above           *)
(* everything the frame has.                                               *)
(*                                                                         *)
(* Time goes in minutes; a timer that is due fires before time goes on.    *)
(*                                                                         *)
(* An operator called XMut is a slip a programmer could make in X.  No     *)
(* specification uses it; it replaces X to show that a property can fail.  *)
(***************************************************************************)
EXTENDS Naturals

CONSTANT Minutes    \* the values lockMinutes may have

ASSUME MinutesAssumption == Minutes # {} /\ Minutes \subseteq Nat \ {0}

VARIABLES
    loggedIn,
    lockTimer,    \* "none" before login, "off" or "on"
    elapsed,      \* the minutes since it was started, 0 if it is off
    lockMinutes, notAutoLock,
    lockPage,     \* the lock page exists
    pageAbove,    \* the current page was made while it did, and covers it
    dialog,       \* the dialog that is open: "none", "settings", "report"
    idle          \* auxiliary: the minutes without input, while the wallet is
                  \* unlocked and is to lock itself

settings == <<lockMinutes, notAutoLock>>
lockVars == <<loggedIn, lockTimer, elapsed, settings, lockPage, pageAbove, dialog, idle>>

LockInit ==
    /\ loggedIn = FALSE /\ lockTimer = "none" /\ elapsed = 0
    /\ lockMinutes \in Minutes /\ notAutoLock \in BOOLEAN
    /\ lockPage = FALSE /\ pageAbove = FALSE /\ dialog = "none" /\ idle = 0

StartUnless(notAuto) ==
    lockTimer' = (IF notAuto THEN "off" ELSE "on") /\ elapsed' = 0

\* Frame::alreadyLogin
LockLogin ==
    /\ ~loggedIn /\ loggedIn' = TRUE
    /\ StartUnless(notAutoLock) /\ idle' = 0
    /\ UNCHANGED <<settings, lockPage, pageAbove, dialog>>

\* Frame::eventFilter, updateTimer
InputMut ==                 \* whether there is a timer is not looked at
    /\ ~lockPage /\ ~notAutoLock /\ StartUnless(FALSE)
    /\ idle' = 0
    /\ UNCHANGED <<loggedIn, settings, lockPage, pageAbove, dialog>>
Input ==
    /\ lockTimer # "none" /\ ~lockPage
    /\ \/ ~notAutoLock /\ StartUnless(FALSE)
       \/ notAutoLock /\ UNCHANGED <<lockTimer, elapsed>>
    /\ idle' = 0
    /\ UNCHANGED <<loggedIn, settings, lockPage, pageAbove, dialog>>

Due == lockTimer = "on" /\ elapsed = lockMinutes

Minute ==
    /\ loggedIn /\ ~Due
    /\ elapsed' = IF lockTimer = "on" THEN elapsed + 1 ELSE elapsed
    /\ idle' = IF lockPage \/ notAutoLock THEN 0 ELSE idle + 1
    /\ UNCHANGED <<loggedIn, lockTimer, settings, lockPage, pageAbove, dialog>>

\* Frame::autoLock, walletLock; the page there is stays.
AutoLock ==
    /\ Due
    /\ lockTimer' = "off" /\ elapsed' = 0
    /\ lockPage' = TRUE /\ idle' = 0
    /\ UNCHANGED <<loggedIn, settings, pageAbove, dialog>>

\* TitleBar::on_setupBtn_clicked; the lock page covers the button.
OpenSettings ==
    /\ loggedIn /\ dialog = "none" /\ ~lockPage
    /\ dialog' = "settings"
    /\ UNCHANGED <<loggedIn, lockTimer, elapsed, settings, lockPage, pageAbove, idle>>

\* SetDialog::on_saveBtn_clicked, Frame::settingSaved and setLanguage
SaveSettings(m, b) ==
    /\ dialog = "settings" /\ ~lockPage /\ dialog' = "none"
    /\ lockMinutes' = m /\ notAutoLock' = b
    /\ StartUnless(b)
    /\ idle' = 0
    /\ UNCHANGED <<loggedIn, lockPage, pageAbove>>

\* A transfer ends, locked or not, in a dialog, TransferPage::
\* walletTransferToAddress.
Report ==
    /\ loggedIn /\ dialog = "none"
    /\ dialog' = "report"
    /\ UNCHANGED <<loggedIn, lockTimer, elapsed, settings, lockPage, pageAbove, idle>>

\* The settings are not saved, or the transfer had failed: the page stays.
CloseDialog ==
    /\ dialog = "report" \/ (dialog = "settings" /\ ~lockPage)
    /\ dialog' = "none"
    /\ UNCHANGED <<loggedIn, lockTimer, elapsed, settings, lockPage, pageAbove, idle>>

\* The transfer was broadcast: recreateTransferPage.
CloseReport ==
    /\ dialog = "report" /\ dialog' = "none"
    /\ pageAbove' = lockPage
    /\ UNCHANGED <<loggedIn, lockTimer, elapsed, settings, lockPage, idle>>

\* LockPage::walletUnlock with the right password, Frame::unlock; settings
\* that were open are open again.
UnlockMut ==                \* the timer is not started
    /\ lockPage /\ dialog # "report"
    /\ lockPage' = FALSE /\ pageAbove' = FALSE /\ idle' = 0
    /\ UNCHANGED <<loggedIn, lockTimer, elapsed, settings, dialog>>
Unlock ==
    /\ lockPage /\ dialog # "report"
    /\ lockPage' = FALSE /\ pageAbove' = FALSE /\ idle' = 0
    /\ \/ ~notAutoLock /\ StartUnless(FALSE)
       \/ notAutoLock /\ UNCHANGED <<lockTimer, elapsed>>
    /\ UNCHANGED <<loggedIn, settings, dialog>>

--------------------------------------------------------------------------------
\* Types; there is a timer after login, and it is off or not yet over.
LockTypeOK ==
    /\ loggedIn \in BOOLEAN /\ lockPage \in BOOLEAN /\ pageAbove \in BOOLEAN
    /\ lockTimer \in {"none", "off", "on"} /\ (lockTimer = "none" <=> ~loggedIn)
    /\ lockMinutes \in Minutes /\ notAutoLock \in BOOLEAN
    /\ dialog \in {"none", "settings", "report"}
    /\ elapsed \in 0..lockMinutes /\ idle \in Nat

(***************************************************************************)
(* A wallet that is to lock itself is locked when there was no input for   *)
(* lockMinutes: no order of input, dialogs, saved settings, locking and    *)
(* unlocking leaves it open without a timer that is due in time.           *)
(***************************************************************************)
IdleLocks == loggedIn /\ ~lockPage /\ ~notAutoLock => idle <= lockMinutes

(***************************************************************************)
(* It does not lock itself earlier, nor a wallet that is not to: no timer  *)
(* is left over from settings that have changed.                           *)
(***************************************************************************)
LocksWhenIdle ==
    [][~lockPage /\ lockPage' => ~notAutoLock /\ idle = lockMinutes]_lockVars

(***************************************************************************)
(* "Wallet will automatically lock": when it has, the lock page is in      *)
(* front of the page.                                                      *)
(***************************************************************************)
LockCovers == lockPage => ~pageAbove
================================================================================
