-------------------------------- MODULE Outbox --------------------------------
(***************************************************************************)
(* What the reports of use promise (trackmgr.h): the messages reach the    *)
(* server in the order they were handed over, each of them at last.  One   *)
(* may come again before the next.                                         *)
(***************************************************************************)
EXTENDS Naturals

CONSTANT MaxMsgs      \* a bound on the messages

VARIABLES
    pushed,           \* messages handed over, numbered from 1
    received          \* the number of the last the server received

Init == pushed = 0 /\ received = 0

Push == pushed < MaxMsgs /\ pushed' = pushed + 1 /\ UNCHANGED received

Receive == received < pushed /\ received' = received + 1 /\ UNCHANGED pushed

Next == Push \/ Receive

Spec == Init /\ [][Next]_<<pushed, received>> /\ WF_<<pushed, received>>(Receive)
================================================================================
