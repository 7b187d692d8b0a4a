------------------------------ MODULE WalletBook ------------------------------
(***************************************************************************)
(* What the user is promised of the account list: a book of names and what *)
(* is stored for them, in which nothing is stored twice, and an entry is   *)
(* never altered, only entered and removed.                                *)
(***************************************************************************)
CONSTANTS Names, Entries

VARIABLE book        \* name -> entry

Init == book \in [{} -> Entries]

Enter(n, e) ==
    /\ n \notin DOMAIN book
    /\ \A m \in DOMAIN book : book[m] # e
    /\ book' = [m \in DOMAIN book \cup {n} |-> IF m = n THEN e ELSE book[m]]

Remove(n) ==
    /\ n \in DOMAIN book
    /\ book' = [m \in DOMAIN book \ {n} |-> book[m]]

Next ==
    \/ \E n \in Names, e \in Entries : Enter(n, e)
    \/ \E n \in Names : Remove(n)

Spec == Init /\ [][Next]_book
================================================================================
