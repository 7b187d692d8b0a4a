\* Two names, two keys, room for two accounts, one password change; SQL fails;
\* names are edited after Check, and the name dialog is left by Escape.
CONSTANTS
    Names = {n1, n2}
    Keys = {k1, k2}
    Passwords = {p1, p2}
    NoName = NoName
    NoPw = NoPw
    Unreadable = Unreadable
    DbFaults = {"insert", "delete", "abandon"}
    NameSlips = {"edit", "escape"}
    MaxAccounts = 2
    MaxRows = 2
    MaxPwChanges = 1
SYMMETRY Symmetry
SPECIFICATION Spec
INVARIANTS TypeOK NamesUnique SignsWithOwnKey MapIsTable RefusedIsShown CurrentKnown
PROPERTIES KeyLeavesWithRecord ImplementsBook
