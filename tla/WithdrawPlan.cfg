\* Lists of up to four records, an empty and a negative one among them.
CONSTANTS
    MaxLen = 4
    MaxBalance = 3
    MaxAmount = 4
    Fee = 2
    BalanceLists <- MCBalanceLists
    Amounts <- MCAmounts
SPECIFICATION Spec
CHECK_DEADLOCK FALSE
INVARIANTS TypeOK NeverThrows Balanced OverdrawsLastOnly EnoughIsEnough
