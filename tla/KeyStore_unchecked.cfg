\* The name dialog is left by Escape, or the name edited after Check.
CONSTANTS
    Names = {n1, n2}
    Keys = {k1, k2}
    Passwords = {p1, p2}
    NoName = NoName
    NoPw = NoPw
    Unreadable = Unreadable
    DbFaults = {}
    NameSlips = {"edit", "escape"}
    MaxAccounts = 2
    MaxRows = 2
    MaxPwChanges = 0
SYMMETRY Symmetry
SPECIFICATION Spec
INVARIANTS NoNameTwice
