---------------------------- MODULE TransferOrder ----------------------------
(***************************************************************************)
(* What the transfer page promises: an order is offered to the user as it  *)
(* will be sent, and if the user agrees that very order is broadcast, at   *)
(* most once, and its outcome is reported once.                            *)
(***************************************************************************)
CONSTANTS Orders,      \* what can be ordered: receiver, amount, currency
          NoOrder

VARIABLES phase,       \* "idle", "offered", "submitted" or "reported"
          order        \* the order offered or submitted

vars == <<phase, order>>

Init == phase = "idle" /\ order = NoOrder

Offer(o) ==
    /\ phase = "idle"
    /\ phase' = "offered" /\ order' = o

\* The user cancels, or nothing can be sent.
Drop ==
    /\ phase = "offered"
    /\ phase' = "idle" /\ order' = NoOrder

Submit ==
    /\ phase = "offered"
    /\ phase' = "submitted" /\ UNCHANGED order

Report ==
    /\ phase = "submitted"
    /\ phase' = "reported" /\ order' = NoOrder

Close ==
    /\ phase = "reported"
    /\ phase' = "idle" /\ UNCHANGED order

Next == (\E o \in Orders : Offer(o)) \/ Drop \/ Submit \/ Report \/ Close

Spec == Init /\ [][Next]_vars
================================================================================
