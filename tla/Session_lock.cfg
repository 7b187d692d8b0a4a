CONSTANTS
    Minutes <- OneMinute
    MaxMsgs = 1
    Reqs = {q1, q2}
    None = None
SPECIFICATION Spec
INVARIANT LockCovers
CHECK_DEADLOCK FALSE
