\* An account is deleted while its balance is asked for.
CONSTANTS
    Names = {n1, n2}
    Addrs = {a1}
    NoName = NoName
    NoReply = NoReply
    NoBalance = NoBalance
    DbFaults = {}
    MaxQueue = 3
    MaxDeletes = 1
SPECIFICATION FairSpec
PROPERTIES AutoRefreshGoesOn
