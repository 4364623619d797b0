------------------------- MODULE MediaSourceProofs -------------------------
(***************************************************************************)
(* Machine-checked proofs of the media source's safety properties, for any *)
(* ring buffer, limits, poll counts and set of the orchestrator's calls.   *)
(* The invariants are layered: types, who owns the task, who ends a stop,  *)
(* and last what needs an orchestrator that waits for the release.         *)
(***************************************************************************)
EXTENDS MediaSource, TLAPS

-----------------------------------------------------------------------------
\* The reader task never touches what the main loop owns.
LEMMA ReaderFrame ==
  ASSUME Reader
  PROVE  UNCHANGED <<hubVars, mainVars>>
  BY DEF Reader, ReaderStarts, ReaderStartFails, ReadBits, Flush, Drain,
         CancelDrain, DrainExpires, DrainWrite, Preroll, PrerollPoll, ReadChunk,
         ReadWrite, Writes, Refused, AudioStop, Park, Parked, Exit, Suspend, GoTo

-----------------------------------------------------------------------------
(* Type correctness, one kind of variable at a time.                       *)

Flags ==
  /\ hub_connected \in BOOLEAN /\ hub_streaming \in BOOLEAN
  /\ audio_output_enabled \in BOOLEAN
  /\ pending_stop \in BOOLEAN /\ auto_play_pending \in BOOLEAN
  /\ play_requested \in BOOLEAN /\ created \in BOOLEAN
  /\ held \in BOOLEAN /\ need_preroll \in BOOLEAN
  /\ have_written_output \in BOOLEAN

Places ==
  /\ state \in {"IDLE", "PLAYING", "PAUSED"}
  /\ call \in Calls
  /\ reader \in ReaderStates

EventBits == bits \subseteq CommandBits \cup TaskBits

Counts ==
  /\ ring \in 0 .. RING_SIZE
  /\ zero_write_count \in Nat
  /\ waited \in Nat

LEMMA TypeParts == TypeOK <=> Flags /\ Places /\ EventBits /\ Counts
  BY DEF TypeOK, Flags, Places, EventBits, Counts

LEMMA FlagsStep ==
  ASSUME Flags, [Next]_vars
  PROVE  Flags'
<1>1. CASE Connected \/ AudioStarted \/ AudioStopped
  BY <1>1
  DEF Connected, AudioStarted, AudioStopped, RequestPlay, ResumeReading,
      StartTask, StopReading, pcmVars, mainVars, writeVars, readerVars,
      Flags
<1>2. CASE Disconnected \/ TrackChanged
  BY <1>2
  DEF Disconnected, TrackChanged, hubVars, pcmVars, mainVars, writeVars,
      readerVars, Flags
<1>3. CASE PlayUri \/ PlayUriNothing \/ Stop
  BY <1>3
  DEF PlayUri, PlayUriNothing, Stop, hubVars, pcmVars, writeVars,
      readerVars, Flags
<1>4. CASE Pause \/ Play
  BY <1>4
  DEF Pause, Play, hubVars, pcmVars, writeVars, readerVars, Flags
<1>5. CASE FinishResume \/ FinishDrain \/ FinishDisconnected
  BY <1>5
  DEF FinishResume, FinishDrain, FinishDisconnected, StopReading, hubVars,
      pcmVars, writeVars, readerVars, Flags
<1>6. CASE FinishPlayUri \/ FinishStop \/ FinishPausePlay
  BY <1>6
  DEF FinishPlayUri, FinishStop, FinishPausePlay, StartTask, hubVars,
      pcmVars, writeVars, readerVars, Flags
<1>7. CASE Loop \/ AudioArrives
  BY <1>7
  DEF Loop, AudioArrives, ReleaseTask, hubVars, pcmVars, mainVars,
      writeVars, readerVars, Flags
<1>8. CASE ReaderStarts \/ ReaderStartFails \/ ReadBits \/ Suspend
  BY <1>8
  DEF ReaderStarts, ReaderStartFails, ReadBits, Suspend, GoTo, NoAudio,
      NoWait, hubVars, pcmVars, mainVars, writeVars, Flags
<1>9. CASE Flush \/ Drain \/ CancelDrain \/ DrainExpires
  BY <1>9
  DEF Flush, Drain, CancelDrain, DrainExpires, Fill, GoTo, NoAudio, NoWait,
      hubVars, pcmVars, mainVars, writeVars, Flags
<1>10. CASE DrainWrite \/ ReadWrite
  BY <1>10
  DEF DrainWrite, ReadWrite, Writes, Written, Refused, GoTo, NoAudio,
      NoWait, hubVars, pcmVars, mainVars, writeVars, Flags
<1>11. CASE Preroll \/ ReadChunk
  BY <1>11
  DEF Preroll, PrerollPoll, ReadChunk, Fill, GoTo, NoAudio, NoWait, hubVars,
      pcmVars, mainVars, writeVars, Flags
<1>12. CASE AudioStop \/ Park \/ Parked \/ Exit
  BY <1>12
  DEF AudioStop, Park, Parked, Exit, GoTo, NoAudio, NoWait, hubVars,
      pcmVars, mainVars, writeVars, Flags
<1>13. CASE UNCHANGED vars
  BY <1>13
  DEF vars, hubVars, pcmVars, mainVars, writeVars, readerVars, Flags
<1>14. QED
  BY <1>1, <1>2, <1>3, <1>4, <1>5, <1>6, <1>7, <1>8, <1>9, <1>10, <1>11,
     <1>12, <1>13 DEF Next, HubEvent, Orchestrator, FinishCall, Reader

LEMMA PlacesStep ==
  ASSUME Places, [Next]_vars
  PROVE  Places'
<1>1. CASE Connected \/ AudioStarted \/ AudioStopped
  BY <1>1
  DEF Connected, AudioStarted, AudioStopped, RequestPlay, ResumeReading,
      StartTask, StopReading, mainVars, readerVars, Places, Calls,
      ReaderStates
<1>2. CASE Disconnected \/ TrackChanged
  BY <1>2
  DEF Disconnected, TrackChanged, mainVars, readerVars, Places, Calls
<1>3. CASE PlayUri \/ PlayUriNothing \/ Stop
  BY <1>3
  DEF PlayUri, PlayUriNothing, Stop, readerVars, Places, Calls
<1>4. CASE Pause \/ Play
  BY <1>4
  DEF Pause, Play, readerVars, Places, Calls
<1>5. CASE FinishResume \/ FinishDrain \/ FinishDisconnected
  BY <1>5
  DEF FinishResume, FinishDrain, FinishDisconnected, StopReading,
      readerVars, Places, Calls
<1>6. CASE FinishPlayUri \/ FinishStop \/ FinishPausePlay
  BY <1>6
  DEF FinishPlayUri, FinishStop, FinishPausePlay, StartTask, readerVars,
      Places, Calls, ReaderStates
<1>7. CASE Loop \/ AudioArrives
  BY <1>7
  DEF Loop, AudioArrives, ReportState, ReleaseTask, mainVars, readerVars,
      Places, ReaderStates
<1>8. CASE ReaderStarts \/ ReaderStartFails \/ ReadBits \/ Suspend
  BY <1>8
  DEF ReaderStarts, ReaderStartFails, ReadBits, Suspend, ReadChunkPlace,
      GoTo, mainVars, Places, ReaderStates
<1>9. CASE Flush \/ Drain \/ CancelDrain \/ DrainExpires
  BY <1>9
  DEF Flush, Drain, CancelDrain, DrainExpires, GoTo, mainVars, Places,
      ReaderStates
<1>10. CASE DrainWrite \/ ReadWrite
  BY <1>10
  DEF DrainWrite, ReadWrite, Writes, Refused, GoTo, mainVars, Places,
      ReaderStates
<1>11. CASE Preroll \/ ReadChunk
  BY <1>11
  DEF Preroll, PrerollPoll, ReadChunk, GoTo, mainVars, Places, ReaderStates
<1>12. CASE AudioStop \/ Park \/ Parked \/ Exit
  BY <1>12
  DEF AudioStop, Park, Parked, Exit, GoTo, mainVars, Places, ReaderStates
<1>13. CASE UNCHANGED vars
  BY <1>13
  DEF vars, mainVars, readerVars, Places
<1>14. QED
  BY <1>1, <1>2, <1>3, <1>4, <1>5, <1>6, <1>7, <1>8, <1>9, <1>10, <1>11,
     <1>12, <1>13 DEF Next, HubEvent, Orchestrator, FinishCall, Reader

LEMMA EventBitsStep ==
  ASSUME EventBits, [Next]_vars
  PROVE  EventBits'
<1>1. CASE Connected \/ AudioStarted \/ AudioStopped
  BY <1>1
  DEF Connected, AudioStarted, AudioStopped, RequestPlay, ResumeReading,
      StopReading, EventBits
<1>2. CASE Disconnected \/ TrackChanged
  BY <1>2
  DEF Disconnected, TrackChanged, EventBits, CommandBits
<1>3. CASE PlayUri \/ PlayUriNothing \/ Stop
  BY <1>3
  DEF PlayUri, PlayUriNothing, Stop, EventBits
<1>4. CASE Pause \/ Play
  BY <1>4
  DEF Pause, Play, EventBits
<1>5. CASE FinishResume \/ FinishDrain \/ FinishDisconnected
  BY <1>5
  DEF FinishResume, FinishDrain, FinishDisconnected, StopReading, EventBits,
      CommandBits
<1>6. CASE FinishPlayUri \/ FinishStop \/ FinishPausePlay
  BY <1>6
  DEF FinishPlayUri, FinishStop, FinishPausePlay, EventBits, CommandBits
<1>7. CASE Loop \/ AudioArrives
  BY <1>7
  DEF Loop, AudioArrives, EventBits
<1>8. CASE ReaderStarts \/ ReaderStartFails \/ ReadBits \/ Suspend
  BY <1>8
  DEF ReaderStarts, ReaderStartFails, ReadBits, Suspend, EventBits, TaskBits
<1>9. CASE Flush \/ Drain \/ CancelDrain \/ DrainExpires
  BY <1>9
  DEF Flush, Drain, CancelDrain, DrainExpires, EventBits
<1>10. CASE DrainWrite \/ ReadWrite
  BY <1>10
  DEF DrainWrite, ReadWrite, Writes, EventBits
<1>11. CASE Preroll \/ ReadChunk
  BY <1>11
  DEF Preroll, PrerollPoll, ReadChunk, EventBits
<1>12. CASE AudioStop \/ Park \/ Parked \/ Exit
  BY <1>12
  DEF AudioStop, Park, Parked, Exit, EventBits, CommandBits, TaskBits
<1>13. CASE UNCHANGED vars
  BY <1>13
  DEF vars, EventBits
<1>14. QED
  BY <1>1, <1>2, <1>3, <1>4, <1>5, <1>6, <1>7, <1>8, <1>9, <1>10, <1>11,
     <1>12, <1>13 DEF Next, HubEvent, Orchestrator, FinishCall, Reader

LEMMA CountsStep ==
  ASSUME Counts, [Next]_vars
  PROVE  Counts'
<1>1. CASE Connected \/ AudioStarted \/ AudioStopped
  BY <1>1, RingAssumption
  DEF Connected, AudioStarted, AudioStopped, RequestPlay, ResumeReading,
      StartTask, pcmVars, writeVars, readerVars, Counts
<1>2. CASE Disconnected \/ TrackChanged
  BY <1>2, RingAssumption
  DEF Disconnected, TrackChanged, pcmVars, writeVars, readerVars, Counts
<1>3. CASE PlayUri \/ PlayUriNothing \/ Stop
  BY <1>3, RingAssumption
  DEF PlayUri, PlayUriNothing, Stop, pcmVars, writeVars, readerVars, Counts
<1>4. CASE Pause \/ Play
  BY <1>4, RingAssumption
  DEF Pause, Play, pcmVars, writeVars, readerVars, Counts
<1>5. CASE FinishResume \/ FinishDrain \/ FinishDisconnected
  BY <1>5, RingAssumption
  DEF FinishResume, FinishDrain, FinishDisconnected, pcmVars, writeVars,
      readerVars, Counts
<1>6. CASE FinishPlayUri \/ FinishStop \/ FinishPausePlay
  BY <1>6, RingAssumption
  DEF FinishPlayUri, FinishStop, FinishPausePlay, StartTask, pcmVars,
      writeVars, readerVars, Counts
<1>7. CASE Loop \/ AudioArrives
  BY <1>7, RingAssumption
  DEF Loop, AudioArrives, pcmVars, writeVars, readerVars, Counts
<1>8. CASE ReaderStarts \/ ReaderStartFails \/ ReadBits \/ Suspend
  BY <1>8, RingAssumption
  DEF ReaderStarts, ReaderStartFails, ReadBits, Suspend, NoAudio, NoWait,
      pcmVars, writeVars, Counts
<1>9. CASE Flush \/ Drain \/ CancelDrain \/ DrainExpires
  BY <1>9, RingAssumption
  DEF Flush, Drain, CancelDrain, DrainExpires, Fill, NoAudio, NoWait,
      pcmVars, writeVars, Counts
<1>10. CASE DrainWrite \/ ReadWrite
  BY <1>10, RingAssumption
  DEF DrainWrite, ReadWrite, Writes, Written, Refused, NoAudio, NoWait,
      pcmVars, writeVars, Counts
<1>11. CASE Preroll \/ ReadChunk
  BY <1>11, RingAssumption
  DEF Preroll, PrerollPoll, ReadChunk, Fill, NoAudio, NoWait, pcmVars,
      writeVars, Counts
<1>12. CASE AudioStop \/ Park \/ Parked \/ Exit
  BY <1>12, RingAssumption
  DEF AudioStop, Park, Parked, Exit, NoAudio, NoWait, pcmVars, writeVars,
      Counts
<1>13. CASE UNCHANGED vars
  BY <1>13, RingAssumption
  DEF vars, pcmVars, writeVars, readerVars, Counts
<1>14. QED
  BY <1>1, <1>2, <1>3, <1>4, <1>5, <1>6, <1>7, <1>8, <1>9, <1>10, <1>11,
     <1>12, <1>13 DEF Next, HubEvent, Orchestrator, FinishCall, Reader

\* Every reachable state of main loop and reader is well typed: bits, places of
\* the reader, and chunks that never exceed the ring buffer.
THEOREM SourceTypeCorrect == Spec => []TypeOK
<1>1. Init => TypeOK
  <2>1. Init => Flags
    BY DEF Init, Flags
  <2>2. Init => Places /\ EventBits
    BY DEF Init, Places, EventBits, Calls, ReaderStates
  <2>3. Init => Counts
    BY RingAssumption DEF Init, Counts
  <2>4. QED
    BY <2>1, <2>2, <2>3, TypeParts
<1>2. TypeOK /\ [Next]_vars => TypeOK'
  <2>1. SUFFICES ASSUME Flags, Places, EventBits, Counts, [Next]_vars
                 PROVE  Flags' /\ Places' /\ EventBits' /\ Counts'
    BY TypeParts DEF TypeOK, Flags, Places, EventBits, Counts
  <2>2. QED
    BY <2>1, FlagsStep, PlacesStep, EventBitsStep, CountsStep
<1>3. QED
  BY <1>1, <1>2, PTL DEF Spec

-----------------------------------------------------------------------------
(* The task object.                                                        *)

\* The main loop holds a task exactly while there is a reader; SUSPENDED is set
\* by the reader's last step only, and that step dropped the last chunk.
TaskInv ==
  /\ created <=> reader # "none"
  /\ "SUSPENDED" \in bits => reader \in Gone
  /\ reader \in Gone \cup {"start"} => ~held

LEMMA TaskStep ==
  ASSUME Flags, TaskInv, [Next]_vars
  PROVE  TaskInv'
<1>1. CASE Connected \/ AudioStarted \/ AudioStopped
  BY <1>1
  DEF Connected, AudioStarted, AudioStopped, RequestPlay, ResumeReading,
      StartTask, StopReading, pcmVars, mainVars, readerVars, TaskInv, Gone
<1>2. CASE Disconnected \/ TrackChanged
  BY <1>2
  DEF Disconnected, TrackChanged, pcmVars, mainVars, readerVars, TaskInv
<1>3. CASE PlayUri \/ PlayUriNothing \/ Stop
  BY <1>3
  DEF PlayUri, PlayUriNothing, Stop, pcmVars, readerVars, TaskInv
<1>4. CASE Pause \/ Play
  BY <1>4
  DEF Pause, Play, pcmVars, readerVars, TaskInv
<1>5. CASE FinishResume \/ FinishDrain \/ FinishDisconnected
  BY <1>5
  DEF FinishResume, FinishDrain, FinishDisconnected, StopReading, pcmVars,
      readerVars, TaskInv
<1>6. CASE FinishPlayUri \/ FinishStop \/ FinishPausePlay
  BY <1>6
  DEF FinishPlayUri, FinishStop, FinishPausePlay, StartTask, pcmVars,
      readerVars, TaskInv, Gone
<1>7. CASE Loop \/ AudioArrives
  BY <1>7
  DEF Loop, AudioArrives, ReleaseTask, pcmVars, mainVars, readerVars,
      TaskInv, TaskBits
<1>8. CASE ReaderStarts \/ ReaderStartFails \/ ReadBits \/ Suspend
  BY <1>8
  DEF ReaderStarts, ReaderStartFails, ReadBits, Suspend, ReadChunkPlace,
      GoTo, NoAudio, pcmVars, mainVars, TaskInv, Gone
<1>9. CASE Flush \/ Drain \/ CancelDrain \/ DrainExpires
  BY <1>9
  DEF Flush, Drain, CancelDrain, DrainExpires, GoTo, mainVars, TaskInv, Gone
<1>10. CASE DrainWrite \/ ReadWrite
  BY <1>10
  DEF DrainWrite, ReadWrite, Writes, Refused, GoTo, mainVars, TaskInv, Gone
<1>11. CASE Preroll \/ ReadChunk
  BY <1>11
  DEF Preroll, PrerollPoll, ReadChunk, GoTo, mainVars, TaskInv, Gone
<1>12. CASE AudioStop \/ Park \/ Parked \/ Exit
  BY <1>12
  DEF AudioStop, Park, Parked, Exit, GoTo, mainVars, TaskInv, Gone
<1>13. CASE UNCHANGED vars
  BY <1>13
  DEF vars, pcmVars, mainVars, readerVars, TaskInv
<1>14. QED
  BY <1>1, <1>2, <1>3, <1>4, <1>5, <1>6, <1>7, <1>8, <1>9, <1>10, <1>11,
     <1>12, <1>13 DEF Next, HubEvent, Orchestrator, FinishCall, Reader

LEMMA TaskCorrect == Spec => [](Flags /\ TaskInv)
<1>1. Init => Flags /\ TaskInv
  BY DEF Init, Flags, TaskInv, Gone
<1>2. Flags /\ TaskInv /\ [Next]_vars => Flags' /\ TaskInv'
  BY FlagsStep, TaskStep
<1>3. QED
  BY <1>1, <1>2, PTL DEF Spec

\* Only loop() releases the task, on a SUSPENDED it has read.
LEMMA ReleasedByLoop ==
  ASSUME Flags, TaskInv, Next, created, ~created'
  PROVE  reader \in Gone /\ ~held
<1>1. CASE Loop
  BY <1>1 DEF Loop, ReleaseTask, Flags, TaskInv
<1>2. CASE HubEvent
  BY <1>2
  DEF HubEvent, Connected, AudioStarted, AudioStopped, Disconnected,
      TrackChanged, RequestPlay, ResumeReading, StartTask, mainVars
<1>3. CASE Orchestrator
  BY <1>3
  DEF Orchestrator, PlayUri, PlayUriNothing, Stop, Pause, Play
<1>4. CASE FinishCall
  BY <1>4
  DEF FinishCall, FinishResume, FinishDrain, FinishDisconnected,
      FinishPlayUri, FinishStop, FinishPausePlay, StartTask
<1>5. CASE Reader
  BY <1>5, ReaderFrame DEF mainVars
<1>6. CASE AudioArrives
  BY <1>6 DEF AudioArrives, mainVars
<1>7. QED
  BY <1>1, <1>2, <1>3, <1>4, <1>5, <1>6 DEF Next

\* The task is only freed after the reader's last access to the ring buffer,
\* whatever the orchestrator does and whether or not tasks can be created.
THEOREM ReleasedCorrect == Spec => ReleasedWhenDone
<1>1. Flags /\ TaskInv /\ [Next]_vars
        => [created /\ ~created' => reader \in Gone /\ ~held]_vars
  BY ReleasedByLoop
<1>2. QED
  BY <1>1, TaskCorrect, PTL DEF Spec, ReleasedWhenDone

-----------------------------------------------------------------------------
(* STOP, and the request to play.                                          *)

\* PAUSE and PLAY are only ever half way through for a source that is not IDLE,
\* so their second half cannot move the state under a pending stop.
StopInv ==
  /\ StopOwnsTask
  /\ call \in {"pause", "play"} => state # "IDLE"

LEMMA StopStep ==
  ASSUME Flags, StopInv, [Next]_vars
  PROVE  StopInv'
<1>1. CASE Connected \/ AudioStarted \/ AudioStopped
  BY <1>1
  DEF Connected, AudioStarted, AudioStopped, RequestPlay, ResumeReading,
      StopReading, Active, mainVars, StopInv, StopOwnsTask
<1>2. CASE Disconnected \/ TrackChanged
  BY <1>2
  DEF Disconnected, TrackChanged, mainVars, StopInv, StopOwnsTask
<1>3. CASE PlayUri \/ PlayUriNothing \/ Stop
  BY <1>3
  DEF PlayUri, PlayUriNothing, Stop, StopInv, StopOwnsTask
<1>4. CASE Pause \/ Play
  BY <1>4
  DEF Pause, Play, StopInv, StopOwnsTask
<1>5. CASE FinishResume \/ FinishDrain \/ FinishDisconnected
  BY <1>5
  DEF FinishResume, FinishDrain, FinishDisconnected, StopReading, StopInv,
      StopOwnsTask
<1>6. CASE FinishPlayUri \/ FinishStop \/ FinishPausePlay
  BY <1>6
  DEF FinishPlayUri, FinishStop, FinishPausePlay, StopInv, StopOwnsTask
<1>7. CASE Loop \/ AudioArrives
  <2>1. CASE AudioArrives
    BY <2>1 DEF AudioArrives, mainVars, StopInv, StopOwnsTask
  <2>2. CASE Loop
    <3>1. pending_stop => state' = state
      BY <2>2 DEF Loop, ReportState
    <3>2. pending_stop' => pending_stop /\ created' = created
      BY <2>2 DEF Loop, ReleaseTask
    <3>3. call' = "none"
      BY <2>2 DEF Loop, MainIdle
    <3>4. QED
      BY <3>1, <3>2, <3>3 DEF StopInv, StopOwnsTask
  <2>3. QED
    BY <1>7, <2>1, <2>2
<1>8. CASE UNCHANGED vars
  BY <1>8
  DEF vars, mainVars, StopInv, StopOwnsTask
<1>9. CASE Reader
  BY <1>9, ReaderFrame DEF hubVars, mainVars, Flags, StopInv, StopOwnsTask
<1>10. QED
  BY <1>1, <1>2, <1>3, <1>4, <1>5, <1>6, <1>7, <1>8, <1>9 DEF Next, HubEvent,
     Orchestrator, FinishCall

\* A pending stop has a task that will end it and a source already reported
\* IDLE, under every interleaving of callbacks, calls and reports.
THEOREM StopCorrect == Spec => []StopOwnsTask
<1>1. Init => Flags /\ StopInv
  BY DEF Init, Flags, StopInv, StopOwnsTask
<1>2. Flags /\ StopInv /\ [Next]_vars => Flags' /\ StopInv'
  BY FlagsStep, StopStep
<1>3. StopInv => StopOwnsTask
  BY DEF StopInv
<1>4. QED
  BY <1>1, <1>2, <1>3, PTL DEF Spec

LEMMA GateStep ==
  ASSUME Flags, GateHasRequest, [Next]_vars
  PROVE  GateHasRequest'
<1>1. CASE Connected \/ AudioStarted \/ AudioStopped
  BY <1>1
  DEF Connected, AudioStarted, AudioStopped, RequestPlay, ResumeReading,
      StopReading, mainVars, GateHasRequest
<1>2. CASE Disconnected \/ TrackChanged
  BY <1>2
  DEF Disconnected, TrackChanged, mainVars, GateHasRequest
<1>3. CASE PlayUri \/ PlayUriNothing \/ Stop
  BY <1>3
  DEF PlayUri, PlayUriNothing, Stop, GateHasRequest
<1>4. CASE Pause \/ Play
  BY <1>4
  DEF Pause, Play, GateHasRequest
<1>5. CASE FinishResume \/ FinishDrain \/ FinishDisconnected
  BY <1>5
  DEF FinishResume, FinishDrain, FinishDisconnected, StopReading,
      GateHasRequest
<1>6. CASE FinishPlayUri \/ FinishStop \/ FinishPausePlay
  BY <1>6
  DEF FinishPlayUri, FinishStop, FinishPausePlay, GateHasRequest
<1>7. CASE Loop \/ AudioArrives
  BY <1>7
  DEF Loop, AudioArrives, mainVars, GateHasRequest
<1>8. CASE UNCHANGED vars
  BY <1>8
  DEF vars, mainVars, GateHasRequest
<1>9. CASE Reader
  BY <1>9, ReaderFrame DEF hubVars, mainVars, Flags, GateHasRequest
<1>10. QED
  BY <1>1, <1>2, <1>3, <1>4, <1>5, <1>6, <1>7, <1>8, <1>9 DEF Next, HubEvent,
     Orchestrator, FinishCall

\* The gate auto_play_pending_ never outlives the request it stands for.
THEOREM GateCorrect == Spec => []GateHasRequest
<1>1. Init => Flags /\ GateHasRequest
  BY DEF Init, Flags, GateHasRequest
<1>2. Flags /\ GateHasRequest /\ [Next]_vars => Flags' /\ GateHasRequest'
  BY FlagsStep, GateStep
<1>3. QED
  BY <1>1, <1>2, PTL DEF Spec

-----------------------------------------------------------------------------
(* An orchestrator that waits for the release, and tasks that are created. *)

\* Why an active source keeps its reader: STOP is only seen by a source that is
\* IDLE, the reader leaves without WANT_IDLE only on STOP, WANT_IDLE comes with
\* SUSPENDED, and a source without a task has no report left to hear.
PatientInv ==
  /\ ~EagerPlay /\ ~CreateMayFail
  /\ ActiveHasReader
  /\ "STOP" \in bits => state = "IDLE"
  /\ reader = "exit_no_idle" => state = "IDLE"
  /\ "WANT_IDLE" \in bits => "SUSPENDED" \in bits
  /\ ~created => bits \cap TaskBits = {}
  /\ created => state # "IDLE" \/ pending_stop
  /\ call = "play_uri" => ~created /\ bits = {} /\ state = "IDLE"

LEMMA PatientStep ==
  ASSUME Flags, TaskInv, StopInv, PatientInv, [Next]_vars
  PROVE  PatientInv'
<1>1. CASE Connected \/ AudioStarted \/ AudioStopped
  BY <1>1
  DEF Connected, AudioStarted, AudioStopped, RequestPlay, ResumeReading,
      StartTask, StopReading, MainIdle, Active, mainVars, readerVars,
      PatientInv, ActiveHasReader
<1>2. CASE Disconnected \/ TrackChanged
  BY <1>2
  DEF Disconnected, TrackChanged, MainIdle, mainVars, readerVars,
      PatientInv, ActiveHasReader, TaskBits
<1>3. CASE PlayUri \/ PlayUriNothing \/ Stop
  BY <1>3
  DEF PlayUri, PlayUriNothing, Stop, MayPlayUri, readerVars, PatientInv,
      ActiveHasReader
<1>4. CASE Pause \/ Play
  BY <1>4
  DEF Pause, Play, MainIdle, readerVars, PatientInv, ActiveHasReader
<1>5. CASE FinishResume \/ FinishDrain \/ FinishDisconnected
  BY <1>5
  DEF FinishResume, FinishDrain, FinishDisconnected, StopReading,
      readerVars, PatientInv, ActiveHasReader, TaskBits
<1>6. CASE FinishPlayUri \/ FinishStop \/ FinishPausePlay
  BY <1>6
  DEF FinishPlayUri, FinishStop, FinishPausePlay, StartTask, readerVars,
      StopInv, PatientInv, ActiveHasReader, Gone, TaskBits
<1>7. CASE Loop \/ AudioArrives
  BY <1>7
  DEF Loop, AudioArrives, ReportState, ReleaseTask, mainVars, readerVars,
      TaskInv, StopInv, StopOwnsTask, PatientInv, ActiveHasReader, TaskBits
<1>8. CASE ReaderStarts \/ ReaderStartFails \/ ReadBits \/ Suspend
  BY <1>8
  DEF ReaderStarts, ReaderStartFails, ReadBits, Suspend, ReadChunkPlace,
      GoTo, mainVars, PatientInv, ActiveHasReader, Gone
<1>9. CASE Flush \/ Drain \/ CancelDrain \/ DrainExpires
  BY <1>9
  DEF Flush, Drain, CancelDrain, DrainExpires, GoTo, mainVars, PatientInv,
      ActiveHasReader, Gone
<1>10. CASE DrainWrite \/ ReadWrite
  BY <1>10
  DEF DrainWrite, ReadWrite, Writes, Refused, GoTo, mainVars, PatientInv,
      ActiveHasReader, Gone
<1>11. CASE Preroll \/ ReadChunk
  BY <1>11
  DEF Preroll, PrerollPoll, ReadChunk, GoTo, mainVars, PatientInv,
      ActiveHasReader, Gone
<1>12. CASE AudioStop \/ Park \/ Parked \/ Exit
  BY <1>12
  DEF AudioStop, Park, Parked, Exit, GoTo, mainVars, TaskInv, PatientInv,
      ActiveHasReader, Gone
<1>13. CASE UNCHANGED vars
  BY <1>13
  DEF vars, mainVars, readerVars, PatientInv, ActiveHasReader
<1>14. QED
  BY <1>1, <1>2, <1>3, <1>4, <1>5, <1>6, <1>7, <1>8, <1>9, <1>10, <1>11,
     <1>12, <1>13 DEF Next, HubEvent, Orchestrator, FinishCall, Reader

\* An active source has a reader, or the news of its end is on its way, when
\* play_uri waits for the release of the last reader and tasks can be created.
THEOREM ActiveCorrect ==
  ~EagerPlay /\ ~CreateMayFail /\ Spec => []ActiveHasReader
<1>1. ~EagerPlay /\ ~CreateMayFail /\ Init
        => Flags /\ TaskInv /\ StopInv /\ PatientInv
  BY DEF Init, Flags, TaskInv, StopInv, StopOwnsTask, PatientInv,
         ActiveHasReader, Gone, TaskBits
<1>2. Flags /\ TaskInv /\ StopInv /\ PatientInv /\ [Next]_vars
      => Flags' /\ TaskInv' /\ StopInv' /\ PatientInv'
  BY FlagsStep, TaskStep, StopStep, PatientStep
<1>3. PatientInv => ActiveHasReader
  BY DEF PatientInv
<1>4. QED
  BY <1>1, <1>2, <1>3, PTL DEF Spec

-----------------------------------------------------------------------------
(* The refinement of SourceLifecycle.                                      *)

LifeStep == Lifecycle!LifeNext \/ UNCHANGED <<state, pending_stop, TaskSeen>>

\* The reader only moves the task from running to ended.
LEMMA ReaderLife ==
  ASSUME Reader, TaskInv
  PROVE  LifeStep
<1>1. UNCHANGED <<state, pending_stop, created>>
  BY ReaderFrame DEF mainVars
<1>2. reader # "none"
  BY DEF Reader, ReaderStarts, ReaderStartFails, ReadBits, Flush, Drain,
         CancelDrain, DrainExpires, DrainWrite, Preroll, PrerollPoll, ReadChunk,
         ReadWrite, Writes, AudioStop, Park, Parked, Exit, Suspend, GoTo
<1>3. created
  BY <1>2 DEF TaskInv
<1>4. reader \in Gone => reader' \in Gone
  BY DEF Reader, ReaderStarts, ReaderStartFails, ReadBits, Flush, Drain,
         CancelDrain, DrainExpires, DrainWrite, Preroll, PrerollPoll, ReadChunk,
         ReadWrite, Writes, AudioStop, Park, Parked, Exit, Suspend, GoTo, Gone
<1>5. TaskSeen \in {"running", "ended"} /\ TaskSeen' \in {"running", "ended"}
  BY <1>1, <1>3 DEF TaskSeen
<1>6. TaskSeen = "ended" => TaskSeen' = "ended"
  BY <1>1, <1>3, <1>4 DEF TaskSeen
<1>7. QED
  BY <1>1, <1>5, <1>6 DEF LifeStep, Lifecycle!LifeNext, Lifecycle!TaskEnds

\* Hub callbacks and the first halves of the calls are not seen.
LEMMA QuietLife ==
  ASSUME TaskInv, PatientInv,
         HubEvent \/ Orchestrator \/ AudioArrives \/ UNCHANGED vars
  PROVE  LifeStep
<1>1. UNCHANGED <<state, pending_stop>>
  BY DEF HubEvent, Connected, AudioStarted, AudioStopped, Disconnected,
         TrackChanged, RequestPlay, ResumeReading, Orchestrator, PlayUri,
         PlayUriNothing, Stop, Pause, Play, AudioArrives, mainVars, vars
<1>2. UNCHANGED <<created, reader>>
  <2>1. CASE AudioStarted
    BY <2>1 DEF AudioStarted, RequestPlay, ResumeReading, StartTask, Active,
       mainVars, MainIdle, readerVars, PatientInv, ActiveHasReader
  <2>2. CASE ~AudioStarted
    BY <2>2
    DEF HubEvent, Connected, AudioStopped, Disconnected, TrackChanged,
        Orchestrator, PlayUri, PlayUriNothing, Stop, Pause, Play,
        AudioArrives, mainVars, readerVars, vars
  <2>3. QED
    BY <2>1, <2>2
<1>3. QED
  BY <1>1, <1>2 DEF LifeStep, TaskSeen

\* The second halves of the calls are PlayUri, Resume, Pause and Stop.
LEMMA CallLife ==
  ASSUME Flags, Places, TaskInv, StopInv, PatientInv, FinishCall
  PROVE  LifeStep
<1>1. CASE FinishResume
  BY <1>1 DEF FinishResume, pcmVars, readerVars, Places, TaskSeen, LifeStep,
     Lifecycle!LifeNext, Lifecycle!Resume
<1>2. CASE FinishDrain \/ FinishDisconnected
  BY <1>2 DEF FinishDrain, FinishDisconnected, readerVars, TaskSeen, LifeStep
<1>3. CASE FinishPlayUri
  <2>1. ~created /\ state = "IDLE" /\ ~pending_stop
    BY <1>3 DEF FinishPlayUri, PatientInv, StopInv, StopOwnsTask
  <2>2. created' /\ reader' = "start"
    BY <1>3, <2>1 DEF FinishPlayUri, StartTask, PatientInv
  <2>3. TaskSeen = "none" /\ TaskSeen' = "running"
    BY <2>1, <2>2 DEF TaskSeen, Gone
  <2>4. state' = "PLAYING" /\ ~pending_stop'
    BY <1>3 DEF FinishPlayUri
  <2>5. QED
    BY <2>1, <2>3, <2>4 DEF LifeStep, Lifecycle!LifeNext, Lifecycle!PlayUri
<1>4. CASE FinishStop
  <2>1. state' = "IDLE" /\ UNCHANGED TaskSeen
    BY <1>4 DEF FinishStop, readerVars, TaskSeen
  <2>2. pending_stop' = (TaskSeen # "none")
    BY <1>4 DEF FinishStop, TaskSeen, Flags
  <2>3. QED
    BY <2>1, <2>2 DEF LifeStep, Lifecycle!LifeNext, Lifecycle!Stop
<1>5. CASE FinishPausePlay
  <2>1. state # "IDLE"
    BY <1>5 DEF FinishPausePlay, StopInv
  <2>2. UNCHANGED <<pending_stop, TaskSeen>>
    BY <1>5 DEF FinishPausePlay, readerVars, TaskSeen
  <2>3. state' = IF call = "pause" THEN "PAUSED" ELSE "PLAYING"
    BY <1>5 DEF FinishPausePlay
  <2>4. QED
    BY <2>1, <2>2, <2>3 DEF Places, LifeStep, Lifecycle!LifeNext,
       Lifecycle!Pause, Lifecycle!Resume
<1>6. QED
  BY <1>1, <1>2, <1>3, <1>4, <1>5 DEF FinishCall

\* loop() releases an ended task, or passes a pause on.
LEMMA LoopLife ==
  ASSUME Flags, Places, TaskInv, StopInv, PatientInv, Loop
  PROVE  LifeStep
<1>1. CASE "SUSPENDED" \in bits
  <2>1. created /\ reader \in Gone
    BY <1>1 DEF TaskInv, Gone
  <2>2. ~created' /\ ~pending_stop'
    BY <1>1 DEF Loop, ReleaseTask
  <2>3. state' = "IDLE"
    BY <2>1 DEF Loop, ReportState, StopInv, StopOwnsTask, PatientInv,
       ActiveHasReader, MainIdle
  <2>4. QED
    BY <2>1, <2>2, <2>3 DEF TaskSeen, LifeStep, Lifecycle!LifeNext,
       Lifecycle!Release
<1>2. CASE "SUSPENDED" \notin bits
  <2>1. UNCHANGED <<created, reader, pending_stop>>
    BY <1>2 DEF Loop, ReleaseTask
  <2>2. created /\ "WANT_IDLE" \notin bits
    BY <1>2 DEF PatientInv, Loop
  <2>3. state' = state \/ (state # "IDLE" /\ state' = "PAUSED")
    BY <2>2 DEF Loop, ReportState, PatientInv
  <2>4. QED
    BY <2>1, <2>3 DEF TaskSeen, LifeStep, Lifecycle!LifeNext, Lifecycle!Pause
<1>3. QED
  BY <1>1, <1>2

\* The source implements the lifecycle it promises to its orchestrator, when
\* play_uri waits for the release of the last reader and tasks can be created.
THEOREM LifecycleCorrect ==
  ~EagerPlay /\ ~CreateMayFail /\ Spec => LifecycleKept
<1>1. ~EagerPlay /\ ~CreateMayFail /\ Init
        => Flags /\ Places /\ TaskInv /\ StopInv /\ PatientInv
  BY DEF Init, Flags, Places, Calls, ReaderStates, TaskInv, StopInv,
         StopOwnsTask, PatientInv, ActiveHasReader, Gone, TaskBits
<1>2. Flags /\ Places /\ TaskInv /\ StopInv /\ PatientInv /\ [Next]_vars
      => Flags' /\ Places' /\ TaskInv' /\ StopInv' /\ PatientInv'
  BY FlagsStep, PlacesStep, TaskStep, StopStep, PatientStep
<1>3. Init => Lifecycle!LifeInit
  BY DEF Init, TaskSeen, Lifecycle!LifeInit
<1>4. Flags /\ Places /\ TaskInv /\ StopInv /\ PatientInv /\ [Next]_vars
      => [Lifecycle!LifeNext]_<<state, pending_stop, TaskSeen>>
  <2>1. SUFFICES ASSUME Flags, Places, TaskInv, StopInv, PatientInv, [Next]_vars
                 PROVE  LifeStep
    BY DEF LifeStep
  <2>2. QED
    BY <2>1, ReaderLife, QuietLife, CallLife, LoopLife DEF Next
<1>5. QED
  BY <1>1, <1>2, <1>3, <1>4, PTL DEF Spec, LifecycleKept, Lifecycle!LifeSpec
=============================================================================
