CONSTANTS
    Accounts = {a1, a2}
    Tokens = {t1}
    ACT = ACT
    MaxBillPage = 2
    None = None
    NoRows = NoRows
    Delegates <- Ids
    RowMax = 1
    MaxDelPage = 2
SPECIFICATION Spec
INVARIANTS PagesTypeOK RowsOfChosen ListIsLabelled
CHECK_DEADLOCK FALSE
PROPERTIES ShowsChoice WaitingPageEnds
