\* Every fault: slow answers that overlap, bodies that are no list, crashes and failing statements.
CONSTANTS
    Tokens = {t1}
    ACT = ACT
    Reqs = {q1, q2, q3}
    None = None
    Faults <- AllFaults
SPECIFICATION Spec
INVARIANTS TypeOK ReplyAlive SavedIsSent
PROPERTIES KeepsBalances ListArrives
