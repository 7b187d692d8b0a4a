\* Two names, two keys; both SQL statements of a deletion may fail.
CONSTANTS
    Names = {n1, n2}
    Addrs = {a1, a2}
    NoName = NoName
    NoReply = NoReply
    NoBalance = NoBalance
    DbFaults = {"delete", "insert"}
    MaxQueue = 3
    MaxDeletes = 1
SPECIFICATION FairSpec
INVARIANTS TypeOK SingleFlight AnswerForAsked OwnBalance RefreshKeepsGoing
PROPERTIES ImplementsCycle RoundEnds
