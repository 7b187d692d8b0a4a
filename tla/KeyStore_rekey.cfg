\* A key is imported again after a password change.
CONSTANTS
    Names = {n1, n2}
    Keys = {k1, k2}
    Passwords = {p1, p2}
    NoName = NoName
    NoPw = NoPw
    Unreadable = Unreadable
    DbFaults = {}
    NameSlips = {}
    MaxAccounts = 2
    MaxRows = 2
    MaxPwChanges = 1
SYMMETRY Symmetry
SPECIFICATION Spec
INVARIANTS KeysUnique
