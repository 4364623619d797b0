---------------------------- MODULE MediaSource ----------------------------
(***************************************************************************)
(* A2DPSinkMediaSource of components/a2dp_sink/media_source: the source    *)
(* that feeds the speaker from the hub's PCM ring buffer.                  *)
(*                                                                         *)
(* Two threads share an event group.  The main loop runs the callbacks of  *)
(* the hub, the calls of the orchestrator and loop(); the reader task      *)
(* drains the ring buffer.  Every access to the event group is a step of   *)
(* its own: the reader acts on the bits it read one step earlier, and a    *)
(* main-loop call that clears some bits and then sets others can be        *)
(* overtaken in between (call # "none").  loop() is one step: between its  *)
(* read and its clears the reader can only add bits, which wait for the    *)
(* next loop().                                                            *)
(*                                                                         *)
(* The hub is what its callbacks and accessors promise (A2dpHub.tla), the  *)
(* orchestrator and the speaker are external: calls come at any time, and  *)
(* write_output accepts a chunk or not.                                    *)
(***************************************************************************)
EXTENDS Naturals

CONSTANTS
  ZERO_WRITE_STOP_COUNT, ZERO_WRITE_STARTUP_STOP_COUNT,
  DRAIN_POLLS,     \* pcm_drain_throttle_ms / IDLE_POLL_MS
  PREROLL_POLLS,   \* (output_delay_ms + 500) / IDLE_POLL_MS
  PREROLL_TARGET,  \* chunks of PCM worth output_delay_ms; 0: no pre-roll
  RING_SIZE,       \* chunks of PCM the ring buffer holds
  TrackChanges,    \* compiled with USE_A2DP_AVRCP
  Commands,        \* the orchestrator's calls
  EagerPlay,       \* may play_uri come before the last reader is released?
  CreateMayFail    \* may the task, or its audio source, fail to be created?

ASSUME CountsAssumption ==
  /\ ZERO_WRITE_STOP_COUNT \in Nat \ {0}
  /\ ZERO_WRITE_STARTUP_STOP_COUNT \in Nat \ {0}
  /\ {DRAIN_POLLS, PREROLL_POLLS} \subseteq Nat
ASSUME RingAssumption ==
  RING_SIZE \in Nat \ {0} /\ PREROLL_TARGET \in 0 .. RING_SIZE
ASSUME SourceCommandsAssumption == Commands \subseteq {"PLAY_URI", "STOP", "PAUSE", "PLAY"}
ASSUME SourceFlagsAssumption ==
  {TrackChanges, EagerPlay, CreateMayFail} \subseteq BOOLEAN

VARIABLES
  \* the hub, as its accessors and callbacks show it
  hub_connected, hub_streaming, audio_output_enabled,
  ring,               \* chunks in the ring buffer
  \* owned by the main loop
  state,              \* MediaSourceState
  pending_stop, auto_play_pending,
  play_requested,     \* request_play_uri_ waits in the orchestrator's queue
  created,            \* task_.is_created()
  call,               \* the main-loop call that is half way through
  \* shared
  bits,               \* the event group
  \* owned by the reader
  reader,             \* where the task is
  held,               \* has it taken a chunk that is not written yet?
  need_preroll, have_written_output, zero_write_count,
  waited              \* polls spent in this drain, or in this pre-roll

hubVars == <<hub_connected, hub_streaming>>
pcmVars == <<ring, held>>
mainVars == <<state, pending_stop, auto_play_pending, play_requested, created, call>>
writeVars == <<have_written_output, zero_write_count>>
readerVars == <<reader, need_preroll, writeVars, waited>>
vars == <<hubVars, audio_output_enabled, pcmVars, mainVars, bits, readerVars>>

CommandBits == {"START", "STOP", "PAUSE", "DRAIN", "FLUSH"}
TaskBits == {"WANT_IDLE", "SUSPENDED", "WANT_PAUSE"}

Calls == {"none", "resume", "connection_lost", "drain", "play_uri",
          "stop", "pause", "play"}
ReaderStates ==
  {"none", "start", "loop", "flush", "drain", "drain_write", "cancel_drain",
   "preroll", "read", "write", "audio_stop", "park", "parked",
   "exit_with_idle", "exit_no_idle", "suspending", "suspended"}

TypeOK ==
  /\ {hub_connected, hub_streaming, audio_output_enabled} \subseteq BOOLEAN
  /\ ring \in 0 .. RING_SIZE
  /\ state \in {"IDLE", "PLAYING", "PAUSED"}
  /\ {pending_stop, auto_play_pending, play_requested, created} \subseteq BOOLEAN
  /\ call \in Calls
  /\ bits \subseteq CommandBits \cup TaskBits
  /\ reader \in ReaderStates
  /\ {held, need_preroll, have_written_output} \subseteq BOOLEAN
  /\ zero_write_count \in Nat
  /\ waited \in Nat

Init ==
  /\ hub_connected = FALSE /\ hub_streaming = FALSE
  /\ audio_output_enabled = TRUE
  /\ ring = 0
  /\ state = "IDLE"
  /\ pending_stop = FALSE /\ auto_play_pending = FALSE
  /\ play_requested = FALSE
  /\ created = FALSE
  /\ call = "none"
  /\ bits = {}
  /\ reader = "none"
  /\ held = FALSE /\ need_preroll = TRUE /\ have_written_output = FALSE
  /\ zero_write_count = 0 /\ waited = 0

-----------------------------------------------------------------------------
(* The main loop: callbacks of the hub.  A source whose STOP is pending    *)
(* ignores them.                                                           *)

MainIdle == call = "none"
Active == state # "IDLE" /\ ~pending_stop

\* start_task_: idempotent; a failure is only logged.
StartTask ==
  \/ created /\ UNCHANGED <<created, readerVars, held>>
  \/ /\ ~created
     /\ created' = TRUE
     /\ reader' = "start"
     /\ held' = FALSE /\ need_preroll' = TRUE /\ have_written_output' = FALSE
     /\ zero_write_count' = 0 /\ waited' = 0
  \/ ~created /\ CreateMayFail /\ UNCHANGED <<created, readerVars, held>>

Connected ==
  /\ MainIdle /\ ~hub_connected
  /\ hub_connected' = TRUE
  /\ UNCHANGED <<hub_streaming, audio_output_enabled, pcmVars, mainVars, bits, readerVars>>

\* The streaming callback with TRUE.
RequestPlay ==
  /\ state = "IDLE" /\ ~pending_stop
  /\ auto_play_pending' = TRUE
  /\ play_requested' = (play_requested \/ ~auto_play_pending)
  /\ UNCHANGED <<pcmVars, state, pending_stop, created, call, bits, readerVars>>

ResumeReading ==
  /\ Active
  /\ StartTask
  /\ bits' = bits \ {"DRAIN", "PAUSE"}
  /\ call' = "resume"
  /\ UNCHANGED <<ring, state, pending_stop, auto_play_pending, play_requested>>

\* The streaming callback, whether or not the hub has a connection: a late
\* AUDIO_STARTED may come after disconnect().
AudioStarted ==
  /\ MainIdle /\ ~hub_streaming
  /\ hub_streaming' = TRUE
  /\ \/ RequestPlay
     \/ ResumeReading
     \/ pending_stop /\ UNCHANGED <<pcmVars, mainVars, bits, readerVars>>
  /\ UNCHANGED <<hub_connected, audio_output_enabled>>

FinishResume ==
  /\ call = "resume"
  /\ call' = "none"
  /\ bits' = bits \cup {"START"}
  /\ state' = IF state = "PAUSED" THEN "PLAYING" ELSE state
  /\ UNCHANGED <<hubVars, audio_output_enabled, pcmVars, pending_stop,
                 auto_play_pending, play_requested, created, readerVars>>

\* The streaming callback with FALSE.
StopReading ==
  \/ /\ pending_stop
     /\ UNCHANGED <<auto_play_pending, bits>> /\ call' = "none"
  \/ /\ state = "IDLE" /\ ~pending_stop
     /\ auto_play_pending' = FALSE
     /\ UNCHANGED bits /\ call' = "none"
  \/ /\ Active
     /\ bits' = bits \ {"START"}
     /\ call' = "drain"
     /\ UNCHANGED auto_play_pending

AudioStopped ==
  /\ MainIdle /\ hub_streaming
  /\ hub_streaming' = FALSE
  /\ StopReading
  /\ UNCHANGED <<hub_connected, audio_output_enabled, pcmVars, state,
                 pending_stop, play_requested, created, readerVars>>

FinishDrain ==
  /\ call = "drain"
  /\ call' = "none"
  /\ bits' = bits \cup {"DRAIN"}
  /\ UNCHANGED <<hubVars, audio_output_enabled, pcmVars, state, pending_stop,
                 auto_play_pending, play_requested, created, readerVars>>

\* DISCONNECTED: the connection callback first, then the streaming callback.
Disconnected ==
  /\ MainIdle /\ hub_connected
  /\ hub_connected' = FALSE /\ hub_streaming' = FALSE
  /\ bits' = IF Active THEN bits \cup {"DRAIN"} ELSE bits
  /\ call' = "connection_lost"
  /\ UNCHANGED <<audio_output_enabled, pcmVars, state, pending_stop,
                 auto_play_pending, play_requested, created, readerVars>>

FinishDisconnected ==
  /\ call = "connection_lost"
  /\ StopReading
  /\ UNCHANGED <<hubVars, audio_output_enabled, pcmVars, state, pending_stop,
                 play_requested, created, readerVars>>

TrackChanged ==
  /\ MainIdle /\ TrackChanges /\ Active
  /\ bits' = bits \cup {"FLUSH"}
  /\ UNCHANGED <<hubVars, audio_output_enabled, pcmVars, mainVars, readerVars>>

-----------------------------------------------------------------------------
(* The main loop: calls of the orchestrator.                               *)

\* Not EagerPlay: the orchestrator calls play_uri for a source that is idle
\* and whose task loop() has released.
MayPlayUri == EagerPlay \/ (state = "IDLE" /\ ~created)

\* Faulty variant: the early returns come before the request is settled.
PlayUriUnsettled ==
  /\ MainIdle /\ "PLAY_URI" \in Commands
  /\ play_requested' = FALSE
  /\ UNCHANGED <<hubVars, audio_output_enabled, pcmVars, state, pending_stop,
                 auto_play_pending, created, call, bits, readerVars>>

\* Refused while the hub is disabled; "already playing" changes nothing.
PlayUriNothing ==
  /\ MainIdle /\ "PLAY_URI" \in Commands
  /\ auto_play_pending' = FALSE /\ play_requested' = FALSE
  /\ UNCHANGED <<hubVars, audio_output_enabled, pcmVars, state, pending_stop,
                 created, call, bits, readerVars>>

PlayUri ==
  /\ MainIdle /\ "PLAY_URI" \in Commands /\ MayPlayUri
  /\ state # "PLAYING"
  /\ auto_play_pending' = FALSE /\ play_requested' = FALSE
  /\ audio_output_enabled' = TRUE
  /\ ring' = 0
  /\ bits' = {}
  /\ call' = "play_uri"
  /\ UNCHANGED <<hubVars, held, state, pending_stop, created, readerVars>>

FinishPlayUri ==
  /\ call = "play_uri"
  /\ call' = "none"
  /\ bits' = bits \cup {"START"}
  /\ pending_stop' = FALSE
  /\ StartTask
  /\ state' = "PLAYING"
  /\ UNCHANGED <<hubVars, audio_output_enabled, ring, auto_play_pending, play_requested>>

\* handle_command(STOP).  The hub suspends the stream on request: AudioStopped
\* may come at any time.
Stop ==
  /\ MainIdle /\ "STOP" \in Commands
  /\ auto_play_pending' = FALSE
  /\ audio_output_enabled' = FALSE
  /\ bits' = bits \cap {"SUSPENDED"}
  /\ call' = "stop"
  /\ UNCHANGED <<hubVars, pcmVars, state, pending_stop, play_requested, created, readerVars>>

FinishStop ==
  /\ call = "stop"
  /\ call' = "none"
  /\ bits' = bits \cup {"STOP"}
  /\ pending_stop' = created
  /\ state' = "IDLE"
  /\ UNCHANGED <<hubVars, audio_output_enabled, pcmVars, auto_play_pending,
                 play_requested, created, readerVars>>

Pause ==
  /\ MainIdle /\ "PAUSE" \in Commands /\ state = "PLAYING"
  /\ bits' = bits \ {"START"}
  /\ call' = "pause"
  /\ UNCHANGED <<hubVars, audio_output_enabled, pcmVars, state, pending_stop,
                 auto_play_pending, play_requested, created, readerVars>>

Play ==
  /\ MainIdle /\ "PLAY" \in Commands /\ state = "PAUSED"
  /\ bits' = bits \ {"PAUSE"}
  /\ call' = "play"
  /\ UNCHANGED <<hubVars, audio_output_enabled, pcmVars, state, pending_stop,
                 auto_play_pending, play_requested, created, readerVars>>

FinishPausePlay ==
  /\ call \in {"pause", "play"}
  /\ call' = "none"
  /\ bits' = bits \cup {IF call = "pause" THEN "PAUSE" ELSE "START"}
  /\ state' = IF call = "pause" THEN "PAUSED" ELSE "PLAYING"
  /\ UNCHANGED <<hubVars, audio_output_enabled, pcmVars, pending_stop,
                 auto_play_pending, play_requested, created, readerVars>>

-----------------------------------------------------------------------------
(* loop(): what the reader task reported.                                  *)

\* Faulty variant: WANT_PAUSE is looked at last.
ReportPauseLast ==
  \/ pending_stop /\ UNCHANGED state
  \/ ~pending_stop /\ "WANT_PAUSE" \in bits /\ state' = "PAUSED"
  \/ /\ ~pending_stop /\ "WANT_PAUSE" \notin bits
     /\ state' = IF "WANT_IDLE" \in bits THEN "IDLE" ELSE state

\* A source whose STOP is pending stays IDLE; WANT_IDLE is looked at last.
ReportState ==
  \/ pending_stop /\ UNCHANGED state
  \/ ~pending_stop /\ "WANT_IDLE" \in bits /\ state' = "IDLE"
  \/ /\ ~pending_stop /\ "WANT_IDLE" \notin bits
     /\ state' = IF "WANT_PAUSE" \in bits THEN "PAUSED" ELSE state

\* Faulty variant: a stop stays pending when its task is released.
ReleaseOnly ==
  IF "SUSPENDED" \in bits
    THEN created' = FALSE /\ reader' = "none" /\ UNCHANGED pending_stop
    ELSE UNCHANGED <<created, reader, pending_stop>>

ReleaseTask ==
  IF "SUSPENDED" \in bits
    THEN created' = FALSE /\ reader' = "none" /\ pending_stop' = FALSE
    ELSE UNCHANGED <<created, reader, pending_stop>>

Loop ==
  /\ MainIdle
  /\ bits \cap TaskBits # {}
  /\ bits' = bits \ TaskBits
  /\ ReportState
  /\ ReleaseTask
  /\ UNCHANGED <<hubVars, audio_output_enabled, pcmVars, auto_play_pending,
                 play_requested, call, need_preroll, writeVars, waited>>

-----------------------------------------------------------------------------
(* The reader task.  GoTo names the next place; each step says what else   *)
(* it changes.                                                             *)

GoTo(from, to) ==
  /\ reader = from /\ reader' = to
  /\ UNCHANGED <<hubVars, mainVars>>

NoAudio == UNCHANGED <<audio_output_enabled, pcmVars, writeVars>>
NoWait == UNCHANGED <<waited, need_preroll>>

ReaderStarts == GoTo("start", "loop") /\ NoAudio /\ NoWait /\ UNCHANGED bits

\* RingBufferAudioSource::create failed: this path sets both bits itself.
ReaderStartFails ==
  /\ CreateMayFail
  /\ GoTo("start", "suspending")
  /\ bits' = bits \cup {"WANT_IDLE", "SUSPENDED"}
  /\ NoAudio /\ NoWait

ReadChunkPlace == IF need_preroll THEN "preroll" ELSE "read"

\* The top of the read loop, where it goes on the bits it reads here.
ReadBits ==
  /\ \/ "STOP" \in bits /\ GoTo("loop", "exit_no_idle")
     \/ "STOP" \notin bits /\ "FLUSH" \in bits /\ GoTo("loop", "flush")
     \/ bits \cap {"STOP", "FLUSH"} = {} /\ "DRAIN" \in bits /\ GoTo("loop", "drain")
     \/ bits \cap {"STOP", "FLUSH", "DRAIN"} = {} /\ "PAUSE" \in bits /\ GoTo("loop", "loop")
     \/ /\ bits \cap {"STOP", "FLUSH", "DRAIN", "PAUSE"} = {}
        /\ GoTo("loop", ReadChunkPlace)
  /\ waited' = 0
  /\ NoAudio /\ UNCHANGED <<bits, need_preroll>>

Flush ==
  /\ GoTo("flush", "loop")
  /\ bits' = bits \ {"FLUSH", "DRAIN"}
  /\ ring' = 0 /\ held' = FALSE
  /\ NoWait /\ UNCHANGED <<audio_output_enabled, writeVars>>

\* Faulty variant: takes a chunk that is not there.
FillUnchecked ==
  IF held THEN UNCHANGED pcmVars ELSE held' = TRUE /\ ring' = ring - 1

\* fill(): takes a chunk if there is one and none is held.
Fill ==
  IF held \/ ring = 0 THEN UNCHANGED pcmVars ELSE held' = TRUE /\ ring' = ring - 1

Drain ==
  /\ waited < DRAIN_POLLS
  /\ \/ "STOP" \in bits /\ GoTo("drain", "exit_no_idle") /\ UNCHANGED <<pcmVars, waited>>
     \/ /\ "STOP" \notin bits /\ "START" \in bits
        /\ GoTo("drain", "cancel_drain") /\ UNCHANGED <<pcmVars, waited>>
     \/ /\ bits \cap {"STOP", "START"} = {}
        /\ Fill
        /\ IF held' THEN GoTo("drain", "drain_write") /\ UNCHANGED waited
                    ELSE GoTo("drain", "drain") /\ waited' = waited + 1
  /\ UNCHANGED <<audio_output_enabled, writeVars, need_preroll, bits>>

CancelDrain ==
  /\ GoTo("cancel_drain", "preroll")
  /\ bits' = bits \ {"DRAIN"}
  /\ need_preroll' = TRUE /\ waited' = 0
  /\ NoAudio

DrainExpires ==
  /\ waited >= DRAIN_POLLS
  /\ GoTo("drain", "audio_stop")
  /\ bits' = bits \ {"DRAIN"}
  /\ NoAudio /\ NoWait

\* write_output took something, or nothing.  After limit refusals the reader
\* gives the downstream up: no more PCM, and the hub suspends the stream.
Written ==
  /\ zero_write_count' = 0 /\ have_written_output' = TRUE
  /\ held' = FALSE
  /\ UNCHANGED <<ring, audio_output_enabled>>

Refused(limit, next) ==
  /\ zero_write_count' = zero_write_count + 1
  /\ IF zero_write_count' >= limit
       THEN reader' = "audio_stop" /\ audio_output_enabled' = FALSE
       ELSE reader' = next /\ UNCHANGED audio_output_enabled
  /\ UNCHANGED <<hubVars, mainVars, pcmVars, have_written_output>>

Writes(from, next, limit) ==
  /\ \/ "STOP" \in bits /\ GoTo(from, "exit_no_idle") /\ NoAudio
     \/ "STOP" \notin bits /\ GoTo(from, next) /\ Written
     \/ "STOP" \notin bits /\ reader = from /\ Refused(limit, next)
  /\ NoWait /\ UNCHANGED bits

DrainWrite == Writes("drain_write", "drain", ZERO_WRITE_STOP_COUNT)

ReadWrite ==
  Writes("write", "loop", IF have_written_output THEN ZERO_WRITE_STOP_COUNT
                                                 ELSE ZERO_WRITE_STARTUP_STOP_COUNT)

PrerollDone ==
  \/ "DRAIN" \in bits /\ "START" \notin bits
  \/ ring >= PREROLL_TARGET
  \/ ring > 0 /\ waited + 1 >= PREROLL_POLLS

PrerollPoll(stop) ==
  /\ \/ stop /\ GoTo("preroll", "exit_no_idle") /\ NoWait
     \/ /\ ~stop /\ PrerollDone
        /\ GoTo("preroll", "read")
        /\ need_preroll' = FALSE /\ UNCHANGED waited
     \/ /\ ~stop /\ ~PrerollDone
        /\ GoTo("preroll", "preroll")
        /\ waited' = IF ring = 0 THEN 0 ELSE waited + 1
        /\ UNCHANGED need_preroll
  /\ NoAudio /\ UNCHANGED bits

\* Faulty variant: the wait does not look at STOP.
PrerollDeaf == PrerollPoll(FALSE)

\* wait_for_preroll_: until STOP, DRAIN, the target or the timeout, which only
\* runs while there is some PCM.  Without a target it does not look at STOP.
Preroll == PrerollPoll(PREROLL_TARGET # 0 /\ "STOP" \in bits)

ReadChunk ==
  /\ Fill
  /\ GoTo("read", IF held' THEN "write" ELSE "loop")
  /\ NoWait /\ UNCHANGED <<audio_output_enabled, writeVars, bits>>

\* pause_or_idle_after_audio_stop: drop what is left, then look at the link.
AudioStop ==
  /\ GoTo("audio_stop", IF hub_connected THEN "park" ELSE "exit_with_idle")
  /\ ring' = 0 /\ held' = FALSE
  /\ NoWait /\ UNCHANGED <<audio_output_enabled, writeVars, bits>>

Park ==
  /\ GoTo("park", "parked")
  /\ bits' = bits \ {"DRAIN", "START"}
  /\ need_preroll' = TRUE
  /\ zero_write_count' = 0
  /\ UNCHANGED <<audio_output_enabled, pcmVars, have_written_output, waited>>

Parked ==
  /\ GoTo("parked", "loop")
  /\ bits' = bits \cup {"PAUSE", "WANT_PAUSE"}
  /\ NoAudio /\ NoWait

\* Faulty variant: the task ends without telling that the source is idle.
ExitUnannounced ==
  /\ \/ GoTo("exit_with_idle", "suspending")
     \/ GoTo("exit_no_idle", "suspending")
  /\ bits' = bits \cup {"SUSPENDED"}
  /\ ring' = 0 /\ held' = FALSE
  /\ NoWait /\ UNCHANGED <<audio_output_enabled, writeVars>>

\* Faulty variant: SUSPENDED is set before the last chunk is dropped.
ExitSignalsFirst ==
  /\ \/ /\ GoTo("exit_with_idle", "exit_no_idle")
        /\ bits' = bits \cup {"WANT_IDLE", "SUSPENDED"}
        /\ UNCHANGED pcmVars
     \/ /\ GoTo("exit_no_idle", "suspending")
        /\ bits' = bits \cup {"SUSPENDED"}
        /\ ring' = 0 /\ held' = FALSE
  /\ NoWait /\ UNCHANGED <<audio_output_enabled, writeVars>>

\* task_exit_with_idle and task_exit_no_idle.
Exit ==
  /\ \/ /\ GoTo("exit_with_idle", "suspending")
        /\ bits' = bits \cup {"WANT_IDLE", "SUSPENDED"}
     \/ /\ GoTo("exit_no_idle", "suspending")
        /\ bits' = bits \cup {"SUSPENDED"}
  /\ ring' = 0 /\ held' = FALSE
  /\ NoWait /\ UNCHANGED <<audio_output_enabled, writeVars>>

\* wake_loop_threadsafe, then vTaskSuspend.
Suspend ==
  /\ GoTo("suspending", "suspended")
  /\ NoAudio /\ NoWait /\ UNCHANGED bits

Reader ==
  \/ ReaderStarts
  \/ ReaderStartFails
  \/ ReadBits
  \/ Flush
  \/ Drain
  \/ CancelDrain
  \/ DrainExpires
  \/ DrainWrite
  \/ Preroll
  \/ ReadChunk
  \/ ReadWrite
  \/ AudioStop
  \/ Park
  \/ Parked
  \/ Exit
  \/ Suspend

-----------------------------------------------------------------------------
\* handle_audio_data_ on the Bluetooth task: a full ring buffer drops its
\* oldest chunk and stays full.
AudioArrives ==
  /\ hub_streaming /\ audio_output_enabled
  /\ ring < RING_SIZE
  /\ ring' = ring + 1
  /\ UNCHANGED <<hubVars, audio_output_enabled, held, mainVars, bits, readerVars>>

FinishCall ==
  FinishResume \/ FinishDrain \/ FinishDisconnected \/ FinishPlayUri
    \/ FinishStop \/ FinishPausePlay

HubEvent == Connected \/ AudioStarted \/ AudioStopped \/ Disconnected \/ TrackChanged
Orchestrator == PlayUri \/ PlayUriNothing \/ Stop \/ Pause \/ Play

Next ==
  \/ HubEvent
  \/ Orchestrator
  \/ FinishCall
  \/ Loop
  \/ Reader
  \/ AudioArrives

Spec == Init /\ [][Next]_vars

\* Both threads are scheduled, and a main-loop call returns.  SF for loop():
\* the main loop runs it in every pass, whatever calls come between.
Fairness == WF_vars(FinishCall) /\ SF_vars(Loop) /\ WF_vars(Reader)

FairSpec == Spec /\ Fairness
-----------------------------------------------------------------------------
(* What the two threads promise each other.                                *)

Gone == {"suspending", "suspended"}

\* With an orchestrator that waits for the release: a source that is not IDLE
\* has a reader task that serves it, or the news that it ended is on its way.
\* It takes the START, STOP and WANT_IDLE of three callers to keep this.
ActiveHasReader ==
  state # "IDLE" /\ call # "stop"
    => created /\ (reader \in Gone => "WANT_IDLE" \in bits)

\* A pending stop always has a task that will end it, and the orchestrator has
\* been told: no callback, command or report of the reader moves the state
\* while the stop waits.
StopOwnsTask == pending_stop => created /\ state = "IDLE"

\* Whatever the orchestrator does: the stack and control block of the task
\* are only freed when the reader has made its last access to the ring buffer.
ReleasedWhenDone ==
  [][created /\ ~created' => reader \in Gone /\ ~held]_vars

\* The request gate never outlives the request: while auto_play_pending_ mutes
\* AUDIO_STARTED, the orchestrator still has a request to answer.
GateHasRequest == auto_play_pending => play_requested

\* STOP ends, wherever the reader is when it comes and whatever else happens:
\* in a drain, in the pre-roll, in a write, parked, or already leaving; unless
\* STOP is repeated for ever, each time wiping the bit the reader waits for.
StopCompletes == <>[](call # "stop") => (pending_stop ~> ~pending_stop)

\* The source is a SourceLifecycle, seen through the task object and the place
\* of the reader, for an orchestrator that waits for the release and tasks that
\* can be created: the half-finished calls, the bits in flight and the reports
\* of the reader add up to its six steps and to no other.
TaskSeen ==
  IF ~created THEN "none" ELSE IF reader \in Gone THEN "ended" ELSE "running"

Lifecycle ==
  INSTANCE SourceLifecycle
  WITH state <- state, stopping <- pending_stop, task <- TaskSeen

LifecycleKept == Lifecycle!LifeSpec

-----------------------------------------------------------------------------
(* What comments say of the source, and the code does not do.              *)

\* "BT source starts streaming while we ARE the active/paused source -> PCM
\* data flows" (a2dp_sink_media_source.h:100).
StartWhilePausedFlows ==
  [][FinishResume /\ state = "PAUSED" => audio_output_enabled]_vars

\* EVT_TASK_WANT_PAUSE: "BT audio paused but ACL is still up"
\* (a2dp_sink_media_source.h:78): loop() reports PAUSED for a stream that
\* stopped, or that was given up because the downstream refused it.
PausedMeansStopped ==
  [][Loop /\ state = "PLAYING" /\ state' = "PAUSED"
       => ~hub_streaming \/ ~audio_output_enabled]_vars
=============================================================================
