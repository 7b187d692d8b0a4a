------------------------------- MODULE TrackQueue -------------------------------
(***************************************************************************)
(* The reports of use (trackmgr.cpp): a queue in memory, one request at a  *)
(* time for its head, and a shot after one second when a request is over,  *)
(* however it ended.  A message is sent at once if no request is out, so   *)
(* several shots may be waiting.                                           *)
(*                                                                         *)
(* A request may have reached the server and end with an error; what the   *)
(* server received is booked when the request ends.  error() and the       *)
(* finished() that follows it are one step.                                *)
(*                                                                         *)
(* An operator called XMut is a slip a programmer could make in X.  No     *)
(* specification uses it; it replaces X to show that a property can fail.  *)
(***************************************************************************)
EXTENDS Naturals, Sequences

CONSTANT MaxMsgs      \* a bound on the messages of a session

ASSUME MaxMsgsAssumption == MaxMsgs \in Nat \ {0}

VARIABLES
    pushed,           \* messages handed over; they are numbered
    trackMsgVec,      \* the queue
    isSending,        \* isSendingTrackData, and netReplyTrack is not null
    shots,            \* single shots that have not fired
    received          \* the last message the server received

trackVars == <<pushed, trackMsgVec, isSending, shots, received>>

TrackInit ==
    /\ pushed = 0 /\ trackMsgVec = <<>> /\ isSending = FALSE
    /\ shots = 0 /\ received = 0

\* sendTrackDataToServer
SendTrackData(queue) == isSending' = (isSending \/ queue # <<>>)

\* sendTrackData, for the login and by timerHeartbeat.
TrackPush ==
    /\ pushed < MaxMsgs /\ pushed' = pushed + 1
    /\ trackMsgVec' = Append(trackMsgVec, pushed + 1)
    /\ SendTrackData(trackMsgVec')
    /\ UNCHANGED <<shots, received>>

\* A request is over, and the single shot is set.
RequestOver == isSending /\ isSending' = FALSE /\ shots' = shots + 1

\* requestTrackFinished
TrackFinished ==
    /\ RequestOver
    /\ received' = Head(trackMsgVec)
    /\ trackMsgVec' = Tail(trackMsgVec)
    /\ UNCHANGED pushed

\* requestTrackError; the request may have reached the server.
TrackErrorMut ==            \* the message is dropped
    /\ RequestOver
    /\ received' \in {received, Head(trackMsgVec)}
    /\ trackMsgVec' = Tail(trackMsgVec)
    /\ UNCHANGED pushed
TrackError ==
    /\ RequestOver
    /\ received' \in {received, Head(trackMsgVec)}
    /\ UNCHANGED <<pushed, trackMsgVec>>

\* QTimer::singleShot
TrackShot ==
    /\ shots > 0 /\ shots' = shots - 1
    /\ SendTrackData(trackMsgVec)
    /\ UNCHANGED <<pushed, trackMsgVec, received>>

TrackNext == TrackFinished \/ TrackError \/ TrackShot

--------------------------------------------------------------------------------
TrackTypeOK ==
    /\ pushed \in 0..MaxMsgs /\ received \in 0..pushed /\ shots \in Nat
    /\ trackMsgVec \in Seq(1..MaxMsgs)
    /\ isSending \in BOOLEAN

(***************************************************************************)
(* The queue does not stall: while a message waits a request is out or a   *)
(* shot is to come, so that no further message is needed to send it.       *)
(***************************************************************************)
NeverStalls == trackMsgVec # <<>> => isSending \/ shots > 0

Reports == INSTANCE Outbox
================================================================================
