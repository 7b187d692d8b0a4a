------------------------------ MODULE PollCycle ------------------------------
(***************************************************************************)
(* What the balance poller of DataMgr promises its callers: at most one    *)
(* HTTP request is in flight, the request in flight is never replaced by   *)
(* another one, and every request is followed by a pause (or by the end of *)
(* the round) before the next one is sent.  The three phases are what the  *)
(* flag isRequestingBalance, the pointer queryBalanceReply and the 100 ms  *)
(* single-shot timer stand for together; BalanceQuery implements this.     *)
(***************************************************************************)
CONSTANTS Addrs,      \* addresses a balance can be requested for
          NoReply     \* no request is in flight

VARIABLES phase,      \* "idle", "inflight" or "backoff"
          request     \* the address in flight, or NoReply

vars == <<phase, request>>

Init == phase = "idle" /\ request = NoReply

\* canRequestBalance() held and the head of the queue names an account.
Start ==
    /\ phase \in {"idle", "backoff"}
    /\ phase' = "inflight"
    /\ request' \in Addrs

\* The request was answered or failed, and the queue still holds a name.
Pause ==
    /\ phase = "inflight"
    /\ phase' = "backoff"
    /\ request' = NoReply

\* The round is over: the queue is empty, or its head is no account any more.
Finish ==
    /\ phase \in {"inflight", "backoff"}
    /\ phase' = "idle"
    /\ request' = NoReply

Next == Start \/ Pause \/ Finish

Spec == Init /\ [][Next]_vars

\* A request is in flight exactly in the phase of that name.
InFlight == request # NoReply <=> phase = "inflight"
==============================================================================
