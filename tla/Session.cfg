CONSTANTS
    Minutes <- OneMinute
    MaxMsgs = 2
    Reqs = {q1, q2}
    None = None
SPECIFICATION Spec
INVARIANTS SessionTypeOK IdleLocks
PROPERTIES ImplementsOutbox PricesArrive
CHECK_DEADLOCK FALSE
