---------------------------- MODULE HubSession ----------------------------
(***************************************************************************)
(* The hub as a follower of the link: the records in the event queue lead  *)
(* from what the hub knows to what the stack does.  All of it assumes a    *)
(* queue that loses nothing and no disconnect(), which moves the hub ahead *)
(* of its queue.                                                           *)
(***************************************************************************)
EXTENDS A2dpHub

\* What a record tells the main loop about the link.
Follow(view, ev) ==
  CASE ev.type = "CONNECTED" /\ view.peer = NoPeer ->
         [peer |-> ev.remote_bda, audio |-> view.audio]
    [] ev.type = "DISCONNECTED" -> [peer |-> NoPeer, audio |-> FALSE]
    [] ev.type = "AUDIO_STARTED" -> [view EXCEPT !.audio = TRUE]
    [] ev.type = "AUDIO_STOPPED" -> [view EXCEPT !.audio = FALSE]
    [] OTHER -> view

\* The views of a hub that handles the records of a queue one after the other:
\* after the first i of them, for every i.
Replay(view, queue) ==
  LET after[i \in Nat] ==
        IF i = 0 THEN view ELSE Follow(after[i - 1], queue[i])
  IN  after

HubView ==
  [peer |-> IF connected THEN last_peer ELSE NoPeer, audio |-> audio_streaming]

StackView ==
  [peer |-> IF LiveLink THEN link_peer ELSE NoPeer, audio |-> stream]

\* However many records wait, and whatever retries, failed attempts and changes
\* of the phone they tell of: once they are handled the hub has the link as the
\* stack has it now, to the right phone and with the right audio state.
QueueCompletes == Replay(HubView, event_queue)[Len(event_queue)] = StackView

\* The callbacks tell sessions: what the subscribers hear of connections and
\* audio are the steps of SessionView.
View ==
  INSTANCE SessionView WITH phone <- connection_sensor, audio <- sink_streaming

SessionsTold == View!ViewSpec
=============================================================================
