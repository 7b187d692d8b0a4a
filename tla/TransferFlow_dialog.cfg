\* A list of tokens arrives while the dialog is open.
CONSTANTS
    Names = {n1}
    Tokens = {t1}
    ACT = ACT
    Unlisted = Unlisted
    Addrs = {r1}
    NoAddr = NoAddr
    MaxAmount = 1
    MaxBalance = 2
    Fee = 1
    TokenFee = 2
    NoOrder = NoOrder
    Background <- ListAnyTime
SPECIFICATION Spec
INVARIANTS SendsWhatWasShown
