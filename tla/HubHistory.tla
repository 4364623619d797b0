----------------------------- MODULE HubHistory -----------------------------
(***************************************************************************)
(* The hub with history variables, for properties that speak of what       *)
(* happened earlier.  They observe A2dpHub's steps and restrict none.      *)
(***************************************************************************)
EXTENDS A2dpHub

VARIABLES
  last_drop,        \* how the hub's last connection ended
  lost              \* has the full queue lost a record since the boot?

hvars == <<vars, last_drop, lost>>

HistoryInit ==
  /\ Init
  /\ last_drop = "none"
  /\ lost = FALSE

\* "lost": the signal went in mid-playback, as far as the hub can tell.
\* "released": every other end, disconnect() among them.
ConnectionLost ==
  Dequeue("DISCONNECTED") /\ Head(event_queue).abnormal /\ audio_streaming

\* A new start of the hub forgets; so does a reset.
NextDrop ==
  IF main_pc' = "off" \/ (~enabled /\ enabled') THEN "none"
  ELSE IF ~(connected /\ ~connected') THEN last_drop
  ELSE IF ConnectionLost THEN "lost" ELSE "released"

\* The stack moved the link or the control channel and its record found no room.
RecordLost ==
  /\ Full /\ UNCHANGED <<event_queue, hubVars>>
  /\ <<linkVars, ctVars>>' # <<linkVars, ctVars>>

HistoryNext ==
  /\ Next
  /\ last_drop' = NextDrop
  /\ lost' = (main_pc' # "off" /\ (lost \/ RecordLost))

HistorySpec == HistoryInit /\ [][HistoryNext]_hvars /\ Fairness

-----------------------------------------------------------------------------
\* The hub never calls back a phone whose last connection was given up, by
\* either side, or ended while idle ("do not fight that", a2dp.cpp:327),
\* whichever of enable(), the retry chain and DISCONNECTED armed the deadline.
\* (Without disable(): an enable() that comes while disable() waits for
\* DISCONNECTED arms the deadline over a connection that is then released.)
ReconnectOnlyAfterLoss ==
  [][link = "down" /\ link' = "connecting" => last_drop # "released"]_hvars

\* Unless the queue loses a record, and whenever disconnect(), failed starts and
\* power cuts come: with an empty queue the hub has no connection over a link that
\* is down, and over one that is up it has one, to the phone that is there.  Over
\* a link that disconnect() is closing it may still have one or not.
LinkSettled ==
  ~lost /\ event_queue = << >> =>
    /\ link = "down" => ~connected
    /\ link = "up" => connected /\ last_peer = link_peer

\* Unless the queue loses a record, the hub's view of the link converges once
\* the link stays as it is, through any interleaving of disconnect(), failed
\* starts and power cuts with the events still in the queue.
LinkTracked ==
  LoopReturns /\ <>[]~lost => /\ <>[](link = "up") => <>[]connected
                              /\ <>[](link = "down") => <>[]~connected
=============================================================================
