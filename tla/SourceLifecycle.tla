-------------------------- MODULE SourceLifecycle --------------------------
(***************************************************************************)
(* What the media source promises the orchestrator that owns it: one       *)
(* reader task at a time, started by play_uri and by nothing else; a state *)
(* that leaves IDLE only with that task and comes back to IDLE before or   *)
(* with its release; a stop that lasts exactly as long as the task it has  *)
(* to wait for.                                                            *)
(***************************************************************************)
VARIABLES
  state,              \* as reported: "IDLE", "PLAYING", "PAUSED"
  stopping,           \* was it stopped with a task that has not gone yet?
  task                \* "none", "running", or "ended" and not yet released

LifeInit == state = "IDLE" /\ ~stopping /\ task = "none"

PlayUri ==
  /\ state = "IDLE" /\ task = "none" /\ ~stopping
  /\ state' = "PLAYING" /\ task' = "running" /\ ~stopping'

\* By command, or by the reader that runs out of audio.
Pause ==
  /\ state # "IDLE" /\ state' = "PAUSED"
  /\ UNCHANGED <<stopping, task>>

\* By command, or by the stream that starts again.
Resume ==
  /\ state = "PAUSED" /\ state' = "PLAYING"
  /\ UNCHANGED <<stopping, task>>

Stop ==
  /\ state' = "IDLE" /\ stopping' = (task # "none")
  /\ UNCHANGED task

TaskEnds ==
  /\ task = "running" /\ task' = "ended"
  /\ UNCHANGED <<state, stopping>>

Release ==
  /\ task = "ended" /\ task' = "none"
  /\ state' = "IDLE" /\ ~stopping'

LifeNext == PlayUri \/ Pause \/ Resume \/ Stop \/ TaskEnds \/ Release

LifeSpec == LifeInit /\ [][LifeNext]_<<state, stopping, task>>
=============================================================================
